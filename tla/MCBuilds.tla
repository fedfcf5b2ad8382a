-------------------------------- MODULE MCBuilds --------------------------------
(***************************************************************************)
(* The machines of the builds for TLC. They share nothing: a behaviour     *)
(* runs one of them, chosen at the start, and the others stay idle.        *)
(***************************************************************************)
EXTENDS CompactStream, SharedByThreads

CONSTANTS w1, w2, none

VARIABLES
    machine,                                                              \* the one that runs
    source, hs, promised, reader, claim, copy, worker, handed, level,     \* LevelFeed's
    build, first, second, arena, spill, target                            \* PerfectBuild's

feedVars    == <<source, hs, promised, reader, claim, copy, worker, handed, level>>
perfectVars == <<build, first, second, arena, spill, target>>

F == INSTANCE LevelFeed WITH
        Workers <- {w1, w2}, NoWorker <- none, Buckets <- 4, Span <- 2, Starts <- <<0, 1, 3>>,
        Groups <- 3, Word <- 1, ShardFloor <- 1, MaxKeys <- 3

\* Two keys of one hash, at one length; a third empty; one whose two bytes straddle windows.
PerfectKeys == {[name |-> 1, hash |-> 0, fp |-> 1, len |-> 1], [name |-> 2, hash |-> 0, fp |-> 2, len |-> 1],
                [name |-> 3, hash |-> 1, fp |-> 1, len |-> 2], [name |-> 4, hash |-> 0, fp |-> 1, len |-> 0]}
B == INSTANCE PerfectBuild WITH
        Keys <- PerfectKeys, MaxKeys <- 3, SlotOrder <- <<1, 0>>, Windows <- {1, 2, 9}, SPILL_BUF <- 3,
        MaxFaults <- 1

\* SharedByThreads' instance: two threads of two and three nodes; three chains, taken one and two at
\* a time; chunks of two pairs of three at most.
MCThreads == 1 .. 2
MCKeysIn  == 1 .. 2
MCCallers == {w1, w2}

\* CompactStream's instance. Every stream of up to two of four pairs, and longer ones: out of order
\* in every bin, one pair repeated, four hashes with four slots.
Pairs == {<<0, 0>>, <<0, 1>>, <<1, 0>>, <<3, 1>>}
MCInputs == UNION {[1 .. n -> Pairs] : n \in 0 .. 2}
             \cup {<<<<3, 1>>, <<0, 1>>, <<1, 1>>, <<1, 0>>>>,
                   <<<<2, 0>>, <<1, 1>>, <<2, 1>>, <<3, 1>>, <<2, 0>>>>,
                   <<<<0, 1>>, <<1, 1>>, <<2, 1>>, <<3, 1>>>>}
MCBudgets == [cap : {2}, memory : {0, 9}, threads : {2}]
             \cup {[cap |-> 5, memory |-> 0, threads |-> 1], [cap |-> 1, memory |-> 0, threads |-> 2]}
MCSlotOrder == <<2, 0, 3, 1>>

MCInit == /\ machine \in {"feed", "stream", "perfect", "threads", "reader"}
          /\ F!Init /\ Init /\ B!Init /\ MergeInit /\ IterInit

MCNext == /\ \/ machine = "feed" /\ F!Next /\ UNCHANGED <<vars, perfectVars, mergeVars, iterVars>>
             \/ machine = "stream" /\ Next /\ UNCHANGED <<feedVars, perfectVars, mergeVars, iterVars>>
             \/ machine = "perfect" /\ B!Next /\ UNCHANGED <<feedVars, vars, mergeVars, iterVars>>
             \/ machine = "threads" /\ MergeNext /\ UNCHANGED <<feedVars, vars, perfectVars, iterVars>>
             \/ machine = "reader" /\ IterNext /\ UNCHANGED <<feedVars, vars, perfectVars, mergeVars>>
          /\ UNCHANGED machine

mcVars == <<machine, feedVars, vars, perfectVars, mergeVars, iterVars>>

\* Each machine's own fairness; the threads of one that stays idle can take no step.
MCSpec == MCInit /\ [][MCNext]_mcVars /\ F!Fairness /\ Fairness /\ MergeFairness /\ IterFairness

\* What a worker takes is the whole chunk, in order, however the source is read, and no chunk is
\* handed to two; a copied group fits the space set aside for it; and a level built from a failing
\* source is an error, never a level with keys missing (Feed::next, Grouped).
LevelsAreHandedWhole == F!HandedWhole /\ F!HandedOnce /\ F!CopyFits /\ F!BuiltIsWhole

\* What is published is the first pass's keys, each whole at its own slot; a build that fails
\* leaves the path as it was and no spill behind; and a source whose two passes are one, of
\* distinct keys, is not refused (build_to_file).
TwoPassesAgree == B!PublishesThePass /\ B!FailedLeavesNothing /\ B!RefusedForAReason

\* A published file has no key twice, as the streaming build's documentation says (build_to_file).
DuplicatesCaught == B!DuplicatesCaught

\* A level that was started ends, with its keys placed, an error or a panic; so does a streamed
\* build, whichever of its threads fails, a merge's threads, and every call of an iterator.
BuildsEnd == F!LevelEnds /\ StreamEnds /\ ThreadsEnd /\ CallsReturn
=================================================================================
