------------------------------ MODULE LevelOrder ------------------------------
(***************************************************************************)
(* What one bumping level of the minimal perfect hash promises, whatever   *)
(* the number of threads that build it (src/src/mphf.rs, build_level).     *)
(*                                                                         *)
(* A level is cut into chunks.  In bucket order its pieces are the run of  *)
(* chunk 0, the gap after it, the run of chunk 1, ..., and the gap at the  *)
(* level's end, so a piece is a number: run k is 2k and the gap after it   *)
(* is 2k + 1.  A run is searched for against nothing, the gap between two  *)
(* chunks against both of their runs, and the last gap against everything. *)
(* That is all that reaches the seeds of a piece, so the level is the same *)
(* for every schedule of its workers.                                      *)
(***************************************************************************)
EXTENDS Integers, Sequences

CONSTANT Chunks

VARIABLES
    seeds,   \* for each piece, the pieces its seeds were searched against
    bumped   \* the pieces whose bumped keys were handed on, in order

vars == <<seeds, bumped>>

Chunk   == 0 .. Chunks - 1
GapIx   == 0 .. Chunks - 2
Pieces  == 0 .. 2 * Chunks - 1
RunOf(k) == 2 * k
GapOf(g) == 2 * g + 1
EndGap  == 2 * Chunks - 1

\* A set of pieces no search was ever made against.
Unplaced == {-1}

Placed(p) == seeds[p] # Unplaced

\* Runs in chunk order, then the gaps, then the end gap (whose index is GapOf(Chunks - 1)).
HandedOn == [i \in 1 .. 2 * Chunks |->
                IF i <= Chunks THEN RunOf(i - 1) ELSE GapOf(i - Chunks - 1)]

\* Every variable has its type: bumped keys are handed on at the end, in one order.
TypeOK ==
    /\ seeds \in [Pieces -> (SUBSET Pieces) \cup {Unplaced}]
    /\ bumped \in {<<>>, HandedOn}

Init ==
    /\ seeds = [p \in Pieces |-> Unplaced]
    /\ bumped = <<>>

PlaceRun(k) ==
    /\ ~Placed(RunOf(k))
    /\ seeds' = [seeds EXCEPT ![RunOf(k)] = {}]
    /\ UNCHANGED bumped

PlaceGap(g) ==
    /\ ~Placed(GapOf(g))
    /\ Placed(RunOf(g)) /\ Placed(RunOf(g + 1))
    /\ seeds' = [seeds EXCEPT ![GapOf(g)] = {RunOf(g), RunOf(g + 1)}]
    /\ UNCHANGED bumped

PlaceEndGap ==
    /\ ~Placed(EndGap)
    /\ \A p \in Pieces \ {EndGap} : Placed(p)
    /\ seeds' = [seeds EXCEPT ![EndGap] = Pieces \ {EndGap}]
    /\ bumped' = HandedOn

Next ==
    \/ \E k \in Chunk : PlaceRun(k)
    \/ \E g \in GapIx : PlaceGap(g)
    \/ PlaceEndGap

Spec == Init /\ [][Next]_vars

===============================================================================
