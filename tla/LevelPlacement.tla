---------------------------- MODULE LevelPlacement ----------------------------
(***************************************************************************)
(* The workers that place one bumping level of the minimal perfect hash    *)
(* (src/src/mphf.rs, build_level), step by step: what is one step here is  *)
(* one atomic access, or one critical section of a mutex that is a leaf of *)
(* the lock order.                                                         *)
(*                                                                         *)
(* Data is abstracted to what the schedule can change: the seeds of a      *)
(* piece are the set of pieces they were searched against, a chunk's       *)
(* occupancy map is the chunk, the level's map is the set of pieces merged *)
(* into it, a list of bumped keys is the piece that bumped them.           *)
(***************************************************************************)
EXTENDS Integers, Sequences, FiniteSets

CONSTANTS
    Chunks,     \* number of chunks the level is cut into
    Threads,    \* the scoped worker threads
    NoThread    \* holder of a free mutex

ASSUME ChunksAssumption   == Chunks \in Nat \ {0}
\* threads.clamp(1, chunks)
ASSUME ThreadsAssumption  == /\ Threads # {}
                             /\ NoThread \notin Threads
                             /\ IsFiniteSet(Threads)
                             /\ Cardinality(Threads) <= Chunks

VARIABLES
    next,       \* Feed: index of the next chunk to claim
    pc,         \* per worker: where it is
    chunk,      \* per worker: k, the chunk it claimed
    gap,        \* per worker: g, the gap its loop is at, NoGap outside the loop
    reader,     \* per worker: c, the chunk whose readers it counts down or releases
    found,      \* per worker: the pieces its gap was searched against
    pieces,     \* per chunk: the slot of Mutex<Option<Piece>>
    pieceLock,  \* per chunk: who holds that mutex
    poisoned,   \* chunks whose slot mutex a panicking worker held
    bumps,      \* per chunk: the slot of its bumped keys
    bumped,     \* the level's list of bumped pieces
    drained,    \* chunks listed so far: bumped.0
    drainLock,  \* who holds the list's mutex
    gapBumps,   \* gaps whose OnceLock is set
    endTail,    \* whether the OnceLock of the end gap's keys is set
    done,       \* per chunk: AtomicBool
    claimed,    \* per gap: AtomicBool
    readers,    \* per chunk: AtomicUsize, gaps yet to read its map
    seeds,      \* placed.0: per piece, what its seeds were searched against
    taken,      \* placed.1: the pieces merged into the level's map
    main        \* the thread that spawned the workers

local   == <<pc, chunk, gap, reader, found>>
slots   == <<pieces, pieceLock, poisoned>>
listing == <<bumps, bumped, drained, drainLock>>
once    == <<gapBumps, endTail>>
flags   == <<done, claimed, readers>>
placed  == <<seeds, taken>>
vars    == <<next, local, slots, listing, once, flags, placed, main>>

Chunk    == 0 .. Chunks - 1
GapIx    == 0 .. Chunks - 2
Pieces   == 0 .. 2 * Chunks - 1
RunOf(k) == 2 * k
GapOf(g) == 2 * g + 1
EndGap   == 2 * Chunks - 1
Unplaced == {-1}
NoGap    == -2

Ended == {"exited", "panicked"}
GapSteps == {"lockLeft", "lockRight", "place", "settleGap", "listGap", "mergeGap"}
PCs == {"claim", "settle", "list", "drain", "draining", "install", "done", "alone",
        "leftDone", "rightDone", "swap", "countDown", "release", "merge", "endTail"}
       \cup GapSteps \cup Ended

LocalTypes ==
    /\ pc \in [Threads -> PCs]
    /\ chunk \in [Threads -> Chunk]
    /\ gap \in [Threads -> Int]
    /\ reader \in [Threads -> Chunk]
    /\ found \in [Threads -> SUBSET Pieces]

SlotTypes ==
    /\ pieces \in [Chunk -> {"none", "set", "taken"}]
    /\ pieceLock \in [Chunk -> Threads \cup {NoThread}]
    /\ poisoned \subseteq Chunk

ListTypes ==
    /\ bumps \in [Chunk -> {"none", "some", "taken"}]
    /\ bumped \in Seq(Pieces)
    /\ drained \in 0 .. Chunks
    /\ drainLock \in Threads \cup {NoThread}

OnceTypes == gapBumps \subseteq GapIx /\ endTail \in BOOLEAN

FlagTypes ==
    /\ done \in [Chunk -> BOOLEAN]
    /\ claimed \in [GapIx -> BOOLEAN]
    /\ readers \in [Chunk -> 0 .. 2]

PlacedTypes ==
    /\ seeds \in [Pieces -> (SUBSET Pieces) \cup {Unplaced}]
    /\ taken \subseteq Pieces

\* Every variable has its type (the shared state of build_level): the readers of a chunk, an
\* AtomicUsize, never go below zero.
TypeOK ==
    /\ next \in Nat
    /\ LocalTypes /\ SlotTypes /\ ListTypes /\ OnceTypes /\ FlagTypes /\ PlacedTypes
    /\ main \in {"scope", "endGap", "returned", "panicked"}

\* Fault: every chunk starts with one reader.
InitialReadersOne(k) == 1

InitialReaders(k) == (IF k > 0 THEN 1 ELSE 0) + (IF k + 1 < Chunks THEN 1 ELSE 0)

Init ==
    /\ next = 0
    /\ pc = [t \in Threads |-> "claim"]
    /\ chunk = [t \in Threads |-> 0]
    /\ gap = [t \in Threads |-> NoGap]
    /\ reader = [t \in Threads |-> 0]
    /\ found = [t \in Threads |-> {}]
    /\ pieces = [k \in Chunk |-> "none"]
    /\ pieceLock = [k \in Chunk |-> NoThread]
    /\ poisoned = {}
    /\ bumps = [k \in Chunk |-> "none"]
    /\ bumped = <<>>
    /\ drained = 0
    /\ drainLock = NoThread
    /\ gapBumps = {}
    /\ endTail = FALSE
    /\ done = [k \in Chunk |-> FALSE]
    /\ claimed = [g \in GapIx |-> FALSE]
    /\ readers = [k \in Chunk |-> InitialReaders(k)]
    /\ seeds = [p \in Pieces |-> Unplaced]
    /\ taken = {}
    /\ main = "scope"

-------------------------------------------------------------------------------
(* Steps of a worker's program counter, used by the actions below. *)

Goto(t, label) == pc' = [pc EXCEPT ![t] = label]

\* The thread at `from' moves on to `to'.
Step(t, from, to) == pc[t] = from /\ Goto(t, to)

Held(t) == {k \in Chunk : pieceLock[k] = t}

\* An expect or assert fails: the unwinding thread drops its guards, poisoning their mutexes.
Panic(t) ==
    /\ Goto(t, "panicked")
    /\ pieceLock' = [k \in Chunk |-> IF k \in Held(t) THEN NoThread ELSE pieceLock[k]]
    /\ poisoned' = poisoned \cup Held(t)
    /\ UNCHANGED <<next, chunk, gap, reader, found, pieces, listing, once, flags, placed, main>>

-------------------------------------------------------------------------------
(* A chunk: claimed, its run seeded, settled, listed and installed. *)

\* Feed::next, one step whatever the source: a fetch_add, or the reader's mutex.
Claim(t) ==
    /\ pc[t] = "claim"
    /\ next' = next + 1
    /\ IF next < Chunks
       THEN chunk' = [chunk EXCEPT ![t] = next] /\ Goto(t, "settle")
       ELSE Goto(t, "exited") /\ UNCHANGED chunk
    /\ UNCHANGED <<gap, reader, found, slots, listing, once, flags, placed, main>>

\* seed_run into a private map, then settle: the run's seeds into the level's table.
SettleRun(t) ==
    /\ Step(t, "settle", "list")
    /\ seeds' = [seeds EXCEPT ![RunOf(chunk[t])] = {}]
    /\ UNCHANGED <<next, chunk, gap, reader, found, slots, listing, once, flags, taken, main>>

\* *bumps[k].lock() = Some(bumped)
ListBumps(t) ==
    /\ Step(t, "list", "drain")
    /\ bumps' = [bumps EXCEPT ![chunk[t]] = "some"]
    /\ UNCHANGED <<next, chunk, gap, reader, found, slots, bumped, drained, drainLock, once,
                   flags, placed, main>>

\* drain takes the list's mutex and holds it through its loop.
DrainLock(t) ==
    /\ Step(t, "drain", "draining")
    /\ drainLock = NoThread
    /\ drainLock' = t
    /\ UNCHANGED <<next, chunk, gap, reader, found, slots, bumps, bumped, drained, once,
                   flags, placed, main>>

\* Fault: the loop is an if.
DrainOnce(t) ==
    /\ Step(t, "draining", "install")
    /\ drained < Chunks
    /\ bumps[drained] = "some"
    /\ bumps' = [bumps EXCEPT ![drained] = "taken"]
    /\ bumped' = Append(bumped, RunOf(drained))
    /\ drained' = drained + 1
    /\ drainLock' = NoThread
    /\ UNCHANGED <<next, chunk, gap, reader, found, slots, once, flags, placed, main>>

\* One turn of the loop: the next chunk's keys are in, and move to the list.
DrainOne(t) ==
    /\ pc[t] = "draining"
    /\ drained < Chunks
    /\ bumps[drained] = "some"
    /\ bumps' = [bumps EXCEPT ![drained] = "taken"]
    /\ bumped' = Append(bumped, RunOf(drained))
    /\ drained' = drained + 1
    /\ UNCHANGED <<next, local, slots, drainLock, once, flags, placed, main>>

\* The next chunk's keys are not in yet, or every chunk's are.
DrainEnd(t) ==
    /\ Step(t, "draining", "install")
    /\ drained < Chunks => bumps[drained] # "some"
    /\ drainLock' = NoThread
    /\ UNCHANGED <<next, chunk, gap, reader, found, slots, bumps, bumped, drained, once,
                   flags, placed, main>>

\* *pieces[k].lock() = Some(Piece { .. })
Install(t) ==
    /\ pc[t] = "install"
    /\ pieceLock[chunk[t]] = NoThread
    /\ IF chunk[t] \in poisoned
       THEN Panic(t)
       ELSE /\ Goto(t, "done")
            /\ pieces' = [pieces EXCEPT ![chunk[t]] = "set"]
            /\ UNCHANGED <<next, chunk, gap, reader, found, pieceLock, poisoned, listing, once,
                           flags, placed, main>>

\* done[k].store(true)
SetDone(t) ==
    /\ Step(t, "done", "alone")
    /\ done' = [done EXCEPT ![chunk[t]] = TRUE]
    /\ UNCHANGED <<next, chunk, gap, reader, found, slots, listing, once, claimed, readers,
                   placed, main>>

\* Fault: the loop looks at the gap after the chunk only.
LoadReadersRightOnly(t) ==
    /\ pc[t] = "alone"
    /\ IF readers[chunk[t]] = 0
       THEN Goto(t, "release") /\ reader' = [reader EXCEPT ![t] = chunk[t]] /\ UNCHANGED gap
       ELSE Goto(t, "leftDone") /\ gap' = [gap EXCEPT ![t] = chunk[t]] /\ UNCHANGED reader
    /\ UNCHANGED <<next, chunk, found, slots, listing, once, flags, placed, main>>

\* readers[k].load() == 0: no gap is left to read this chunk, so release it here.
LoadReaders(t) ==
    /\ pc[t] = "alone"
    /\ IF readers[chunk[t]] = 0
       THEN Goto(t, "release") /\ reader' = [reader EXCEPT ![t] = chunk[t]] /\ UNCHANGED gap
       ELSE Goto(t, "leftDone") /\ gap' = [gap EXCEPT ![t] = chunk[t] - 1] /\ UNCHANGED reader
    /\ UNCHANGED <<next, chunk, found, slots, listing, once, flags, placed, main>>

-------------------------------------------------------------------------------
(* for g in [k - 1, k]: the gaps on both sides of the chunk. *)

\* continue, from inside the loop's body
NextGap(t) == Goto(t, "leftDone") /\ gap' = [gap EXCEPT ![t] = @ + 1]

\* After the last gap of the loop the worker asks the feed for another chunk.
LeaveLoop(t) ==
    /\ Step(t, "leftDone", "claim")
    /\ gap[t] > chunk[t]
    /\ gap' = [gap EXCEPT ![t] = NoGap]
    /\ UNCHANGED <<next, chunk, reader, found, slots, listing, once, flags, placed, main>>

\* g >= claimed.len() || !done[g].load()
LoadLeftDone(t) ==
    /\ pc[t] = "leftDone"
    /\ gap[t] <= chunk[t]
    /\ IF gap[t] \in GapIx /\ done[gap[t]]
       THEN Goto(t, "rightDone") /\ UNCHANGED gap
       ELSE NextGap(t)
    /\ UNCHANGED <<next, chunk, reader, found, slots, listing, once, flags, placed, main>>

\* !done[g + 1].load()
LoadRightDone(t) ==
    /\ pc[t] = "rightDone"
    /\ IF done[gap[t] + 1] THEN Goto(t, "swap") /\ UNCHANGED gap ELSE NextGap(t)
    /\ UNCHANGED <<next, chunk, reader, found, slots, listing, once, flags, placed, main>>

\* Fault: the flag is stored without looking at what it was.
ClaimGapByStore(t) ==
    /\ Step(t, "swap", "lockLeft")
    /\ claimed' = [claimed EXCEPT ![gap[t]] = TRUE]
    /\ UNCHANGED <<next, chunk, gap, reader, found, slots, listing, once, done, readers, placed, main>>

\* claimed[g].swap(true)
ClaimGap(t) ==
    /\ pc[t] = "swap"
    /\ claimed' = [claimed EXCEPT ![gap[t]] = TRUE]
    /\ IF claimed[gap[t]] THEN NextGap(t) ELSE Goto(t, "lockLeft") /\ UNCHANGED gap
    /\ UNCHANGED <<next, chunk, reader, found, slots, listing, once, done, readers, placed, main>>

\* pieces[k].lock(): waits for the holder, panics on a poisoned mutex.
LockPiece(t, k, to) ==
    /\ pieceLock[k] = NoThread
    /\ IF k \in poisoned
       THEN Panic(t)
       ELSE /\ Goto(t, to)
            /\ pieceLock' = [pieceLock EXCEPT ![k] = t]
            /\ UNCHANGED <<next, chunk, gap, reader, found, pieces, poisoned, listing, once,
                           flags, placed, main>>

LockLeft(t)  == pc[t] = "lockLeft"  /\ LockPiece(t, gap[t], "lockRight")
LockRight(t) == pc[t] = "lockRight" /\ LockPiece(t, gap[t] + 1, "place")

\* Fault: the guards live on to the end of the loop's body.
PlaceGapHolding(t) ==
    /\ Step(t, "place", "settleGap")
    /\ found' = [found EXCEPT ![t] = {RunOf(gap[t]), RunOf(gap[t] + 1)}]
    /\ UNCHANGED <<next, chunk, gap, reader, slots, listing, once, flags, placed, main>>

\* Fault: the gap is searched against the map of the chunk before it only.
PlaceGapLeftOnly(t) ==
    /\ Step(t, "place", "settleGap")
    /\ found' = [found EXCEPT ![t] = {RunOf(gap[t])}]
    /\ pieceLock' = [k \in Chunk |-> IF k \in Held(t) THEN NoThread ELSE pieceLock[k]]
    /\ UNCHANGED <<next, chunk, gap, reader, pieces, poisoned, listing, once, flags, placed, main>>

\* Both maps are read and the gap's seeds searched against them; the two guards then drop.
PlaceGap(t) ==
    /\ pc[t] = "place"
    /\ LET sides == {gap[t], gap[t] + 1} IN
       IF \A c \in sides : pieces[c] = "set"
       THEN /\ Goto(t, "settleGap")
            /\ found' = [found EXCEPT ![t] = {RunOf(c) : c \in sides}]
            /\ pieceLock' = [k \in Chunk |-> IF k \in sides THEN NoThread ELSE pieceLock[k]]
            /\ UNCHANGED <<next, chunk, gap, reader, pieces, poisoned, listing, once, flags,
                           placed, main>>
       ELSE Panic(t)

SettleGap(t) ==
    /\ Step(t, "settleGap", "listGap")
    /\ seeds' = [seeds EXCEPT ![GapOf(gap[t])] = found[t]]
    /\ UNCHANGED <<next, chunk, gap, reader, found, slots, listing, once, flags, taken, main>>

\* assert!(gap_bumps[g].set(bumped).is_ok(), "a gap is placed once")
ListGap(t) ==
    /\ pc[t] = "listGap"
    /\ IF gap[t] \in gapBumps
       THEN Panic(t)
       ELSE /\ Goto(t, "mergeGap")
            /\ gapBumps' = gapBumps \cup {gap[t]}
            /\ UNCHANGED <<next, chunk, gap, reader, found, slots, listing, endTail, flags,
                           placed, main>>

MergeGap(t) ==
    /\ Step(t, "mergeGap", "countDown")
    /\ taken' = taken \cup {GapOf(gap[t])}
    /\ reader' = [reader EXCEPT ![t] = gap[t]]
    /\ UNCHANGED <<next, chunk, gap, found, slots, listing, once, flags, seeds, main>>

-------------------------------------------------------------------------------
(* Counting a chunk's readers down, and releasing its map. *)

\* for c in [g, g + 1]
NextReader(t) ==
    IF reader[t] = gap[t]
    THEN Goto(t, "countDown") /\ reader' = [reader EXCEPT ![t] = @ + 1] /\ UNCHANGED gap
    ELSE NextGap(t) /\ UNCHANGED reader

\* Fault: what fetch_sub returns is taken for the count it leaves.
CountDownToZero(t) ==
    /\ pc[t] = "countDown"
    /\ readers' = [readers EXCEPT ![reader[t]] = @ - 1]
    /\ IF readers[reader[t]] = 0
       THEN Goto(t, "release") /\ UNCHANGED <<reader, gap>>
       ELSE NextReader(t)
    /\ UNCHANGED <<next, chunk, found, slots, listing, once, done, claimed, placed, main>>

\* readers[c].fetch_sub(1) == 1
CountDown(t) ==
    /\ pc[t] = "countDown"
    /\ readers' = [readers EXCEPT ![reader[t]] = @ - 1]
    /\ IF readers[reader[t]] = 1
       THEN Goto(t, "release") /\ UNCHANGED <<reader, gap>>
       ELSE NextReader(t)
    /\ UNCHANGED <<next, chunk, found, slots, listing, once, done, claimed, placed, main>>

\* release returns: to the two readers' loop, or to the code before the loop over the gaps.
Return(t) ==
    IF gap[t] = NoGap
    THEN Goto(t, "leftDone") /\ gap' = [gap EXCEPT ![t] = chunk[t] - 1] /\ UNCHANGED reader
    ELSE NextReader(t)

\* pieces[c].lock().take().expect("a chunk is released once, after it is placed"): the guard
\* lives to the end of the statement, so the panic poisons the slot.
Release(t) ==
    /\ pc[t] = "release"
    /\ pieceLock[reader[t]] = NoThread
    /\ IF reader[t] \in poisoned \/ pieces[reader[t]] # "set"
       THEN /\ Goto(t, "panicked")
            /\ poisoned' = poisoned \cup {reader[t]}
            /\ UNCHANGED pieces
       ELSE /\ Goto(t, "merge")
            /\ pieces' = [pieces EXCEPT ![reader[t]] = "taken"]
            /\ UNCHANGED poisoned
    /\ UNCHANGED <<next, chunk, gap, reader, found, pieceLock, listing, once, flags, placed, main>>

\* placed.1.merge(&piece.map); only the level's last chunk has more to do.
MergeRun(t) ==
    /\ pc[t] = "merge"
    /\ taken' = taken \cup {RunOf(reader[t])}
    /\ IF reader[t] + 1 = Chunks
       THEN Goto(t, "endTail") /\ UNCHANGED <<reader, gap>>
       ELSE Return(t)
    /\ UNCHANGED <<next, chunk, found, slots, listing, once, flags, seeds, main>>

\* assert!(end_tail.set(..).is_ok(), "one chunk ends the level")
SetEndTail(t) ==
    /\ pc[t] = "endTail"
    /\ IF endTail
       THEN Panic(t)
       ELSE /\ endTail' = TRUE
            /\ Return(t)
            /\ UNCHANGED <<next, chunk, found, slots, listing, gapBumps, flags, placed, main>>

-------------------------------------------------------------------------------
(* The spawning thread: the scope joins every worker and panics if one did. *)

Join ==
    /\ main = "scope"
    /\ \A t \in Threads : pc[t] \in Ended
    /\ main' = IF /\ \A t \in Threads : pc[t] = "exited"
                  /\ endTail
                  /\ drained = Chunks
                  /\ gapBumps = GapIx
               THEN "endGap" ELSE "panicked"
    /\ UNCHANGED <<next, local, slots, listing, once, flags, placed>>

\* The gaps' lists follow the chunks', and the end gap is placed against the level's whole map.
PlaceEndGap ==
    /\ main = "endGap"
    /\ main' = "returned"
    /\ seeds' = [seeds EXCEPT ![EndGap] = taken]
    /\ taken' = taken \cup {EndGap}
    /\ bumped' = bumped \o [i \in 1 .. Chunks |-> GapOf(i - 1)]
    /\ UNCHANGED <<next, local, slots, bumps, drained, drainLock, once, flags>>

Worker(t) ==
    \/ Claim(t) \/ SettleRun(t) \/ ListBumps(t)
    \/ DrainLock(t) \/ DrainOne(t) \/ DrainEnd(t)
    \/ Install(t) \/ SetDone(t) \/ LoadReaders(t)
    \/ LeaveLoop(t) \/ LoadLeftDone(t) \/ LoadRightDone(t) \/ ClaimGap(t)
    \/ LockLeft(t) \/ LockRight(t) \/ PlaceGap(t)
    \/ SettleGap(t) \/ ListGap(t) \/ MergeGap(t)
    \/ CountDown(t) \/ Release(t) \/ MergeRun(t) \/ SetEndTail(t)

\* build_level has returned or panicked: nothing is left to happen.
Finished == main \in {"returned", "panicked"} /\ UNCHANGED vars

Next == (\E t \in Threads : Worker(t)) \/ Join \/ PlaceEndGap \/ Finished

Spec == Init /\ [][Next]_vars

\* The operating system runs every thread that can run.
Fairness == WF_vars(Join \/ PlaceEndGap) /\ \A t \in Threads : WF_vars(Worker(t))

FairSpec == Spec /\ Fairness

-------------------------------------------------------------------------------
(* Safety.  A panic of a worker ends the build, but the other workers run on    *)
(* until the scope joins them, so nothing here is excused after one.            *)

\* A gap is placed once: no two workers are ever inside the same gap, and none is inside a gap
\* whose bumped keys are set.  Guards the assert "a gap is placed once".
GapPlacedOnce ==
    \A t \in Threads : pc[t] \in GapSteps =>
        /\ \A u \in Threads : pc[u] \in GapSteps /\ gap[u] = gap[t] => u = t
        /\ gap[t] \in gapBumps => pc[t] = "mergeGap"

\* A chunk's map leaves its slot only once the gaps on both sides of it are in the level's map,
\* and a gap about to be placed finds the maps of both its chunks.  Guards the expect "done
\* follows set" and the count of readers.
KeptForReaders ==
    /\ \A k \in Chunk : pieces[k] = "taken" =>
           \A g \in {k - 1, k} \cap GapIx : GapOf(g) \in taken
    /\ \A t \in Threads : pc[t] = "place" =>
           \A c \in {gap[t], gap[t] + 1} : pieces[c] = "set"

\* Bumped keys are never stranded: when the next chunk in order has its keys in, some worker is
\* still to drain, so a chunk's keys are listed although its own worker found the list's turn
\* not come yet.
NoneStranded ==
    drained < Chunks /\ bumps[drained] = "some" =>
        \E t \in Threads : pc[t] \in {"drain", "draining"}

\* No list is stranded, and when every worker has left without a panic, nothing is missing: each gap was placed by one of
\* the two workers that finished its chunks ("at least one sees both set"), every list is in, and
\* the level's map has every run and every gap, so that the end gap is placed against everything.
NothingLost ==
    /\ NoneStranded
    /\ (\A t \in Threads : pc[t] = "exited") =>
         /\ gapBumps = GapIx
         /\ drained = Chunks
         /\ endTail
         /\ Pieces \ {EndGap} \subseteq taken

\* A level holds the pieces in flight, not all of them: at most three per worker, its chunk's and
\* the two beside it, less the one after the last chunk claimed, however many chunks it has.
HeldPieces == Cardinality({k \in Chunk : pieces[k] = "set"}) <= 3 * Cardinality(Threads) - 1

\* The comment on release: a chunk is released once, after it is placed.  Read over the whole
\* pool: no worker dies of an expect or an assert.
ReleasedOnce == \A t \in Threads : pc[t] # "panicked"

(* The level is the one its chunks alone determine, whatever the schedule.      *)
Order == INSTANCE LevelOrder WITH
    bumped <- IF main = "returned" THEN bumped ELSE <<>>

\* Every schedule of the workers places the level LevelOrder does: each piece once, against the
\* pieces that reach it, its bumped keys handed on in the level's order.
PlacesTheLevel == Order!Spec

\* The pool never waits on itself: build_level returns, or panics, though the workers take turns
\* on the slots and hold two of them at once.
Terminates == <>(main \in {"returned", "panicked"})

-------------------------------------------------------------------------------
(* The inductive invariant behind GapPlacedOnce and KeptForReaders.             *)

Releasing == {"release", "merge", "endTail"}

\* The worker is in the loop's body past the swap that gave it the gap, or died there.
InGap(t) == pc[t] \in GapSteps \cup {"countDown"} \/ (gap[t] # NoGap /\ pc[t] \in Releasing \cup {"panicked"})

\* Gap g is placed, by worker t, which has yet to count it off the readers of chunk c.
Owes(t, g, c) ==
    /\ gap[t] = g
    /\ \/ pc[t] = "countDown" /\ reader[t] <= c
       \/ pc[t] \in Releasing \cup {"panicked"} /\ reader[t] < c

ToCount(g, c) == GapOf(g) \notin taken \/ \E t \in Threads : Owes(t, g, c)

Yet(g, c) == IF g \in GapIx /\ ToCount(g, c) THEN 1 ELSE 0

\* Where a worker's gap and reader can be, and what it knows there.
Located(t) ==
    /\ pc[t] \in {"claim", "settle", "list", "drain", "draining", "install", "done", "alone"} =>
           gap[t] = NoGap
    /\ pc[t] = "leftDone" => gap[t] \in chunk[t] - 1 .. chunk[t] + 1
    /\ pc[t] \in {"rightDone", "swap"} \/ InGap(t) =>
           gap[t] \in GapIx /\ gap[t] \in {chunk[t] - 1, chunk[t]}
    /\ pc[t] \in {"countDown"} \cup Releasing =>
           reader[t] \in IF gap[t] = NoGap THEN {chunk[t]} ELSE {gap[t], gap[t] + 1}

Knows(t) ==
    /\ pc[t] = "done" => pieces[chunk[t]] # "none"
    /\ pc[t] = "rightDone" => done[gap[t]]
    /\ pc[t] = "swap" \/ InGap(t) => done[gap[t]] /\ done[gap[t] + 1]
    /\ pc[t] \in Releasing => readers[reader[t]] = 0

\* A claimed gap has one owner, and goes from its lists to the level's map to the readers.
GapOwned ==
    /\ \A t \in Threads : InGap(t) => claimed[gap[t]]
    /\ \A t, u \in Threads : InGap(t) /\ InGap(u) /\ gap[t] = gap[u] => t = u
    /\ \A g \in GapIx : (g \in gapBumps => claimed[g]) /\ (GapOf(g) \in taken => g \in gapBumps)
    /\ \A t \in Threads :
        /\ pc[t] \in GapSteps \ {"mergeGap"} => gap[t] \notin gapBumps
        /\ pc[t] = "mergeGap" => gap[t] \in gapBumps /\ GapOf(gap[t]) \notin taken
        /\ pc[t] \in {"countDown"} \cup Releasing /\ gap[t] # NoGap => GapOf(gap[t]) \in taken

Counted ==
    /\ \A k \in Chunk : readers[k] = Yet(k - 1, k) + Yet(k, k)
    /\ \A k \in Chunk : pieces[k] = "taken" => readers[k] = 0
    /\ \A k \in Chunk : done[k] => pieces[k] # "none"

\* What the proofs show every step keeps; TLC checks it on the instance.
IInv ==
    /\ TypeOK
    /\ \A t \in Threads : Located(t)
    /\ \A t \in Threads : Knows(t)
    /\ GapOwned
    /\ Counted

-------------------------------------------------------------------------------
(* What else every step keeps, behind NothingLost and PlacesTheLevel.           *)

\* A chunk's worker has yet to store its done flag.
Seeding == {"settle", "list", "drain", "draining", "install", "done"}

\* A claimed chunk has one worker until it is done.
ChunkOwned ==
    /\ \A t \in Threads : pc[t] \in Seeding => chunk[t] < next /\ ~done[chunk[t]]
    /\ \A t, u \in Threads : pc[t] \in Seeding /\ pc[u] \in Seeding /\ chunk[t] = chunk[u] => t = u

\* A run is seeded between its claim and its done flag, against nothing.
RunsFollow ==
    /\ \A k \in Chunk : k >= next =>
           seeds[RunOf(k)] = Unplaced /\ bumps[k] = "none" /\ pieces[k] = "none"
    /\ \A k \in Chunk : done[k] => k < next /\ seeds[RunOf(k)] = {}
    /\ \A t \in Threads :
        /\ pc[t] = "settle" => seeds[RunOf(chunk[t])] = Unplaced
        /\ pc[t] \in Seeding \ {"settle"} => seeds[RunOf(chunk[t])] = {}
        /\ pc[t] \in {"settle", "list"} => bumps[chunk[t]] = "none"

\* A gap is seeded between its swap and the merge of its map, against the runs beside it.
GapsFollow ==
    /\ \A g \in GapIx : ~claimed[g] => seeds[GapOf(g)] = Unplaced
    /\ \A g \in GapIx : GapOf(g) \in taken => seeds[GapOf(g)] # Unplaced
    /\ \A t \in Threads :
        /\ pc[t] \in GapSteps \ {"listGap", "mergeGap"} => seeds[GapOf(gap[t])] = Unplaced
        /\ pc[t] = "settleGap" => found[t] = {RunOf(gap[t]), RunOf(gap[t] + 1)}
        /\ pc[t] \in {"listGap", "mergeGap"} => seeds[GapOf(gap[t])] # Unplaced

\* The list is the chunks' keys in order, as far as it is drained.
ListInOrder ==
    /\ \A k \in Chunk : bumps[k] = "taken" <=> k < drained
    /\ bumped = IF main = "returned" THEN Order!HandedOn ELSE [i \in 1 .. drained |-> RunOf(i - 1)]

\* The worker has yet to look at gap g, one of the two of its chunk.
WillLook(t, g) ==
    /\ chunk[t] \in {g, g + 1}
    /\ \/ pc[t] = "alone"
       \/ pc[t] \in {"leftDone", "rightDone", "swap"} /\ gap[t] <= g
       \/ pc[t] \in GapSteps \cup {"countDown"} \cup Releasing /\ gap[t] < g

\* The worker died with one of these chunks in hand.
DiedAt(t, chunks) == pc[t] = "panicked" /\ chunk[t] \in chunks

WillRelease(t, k) == \/ pc[t] = "alone" /\ chunk[t] = k
                     \/ pc[t] = "release" /\ reader[t] = k

\* Nothing falls between two workers: whatever is still to be done, some worker is yet to do, or
\* died beside it.
ChunksClaimed == \A t \in Threads : pc[t] = "exited" => next >= Chunks
ChunksWorked ==
    \A k \in Chunk : k < next /\ ~done[k] =>
        \E t \in Threads : pc[t] \in Seeding \cup {"panicked"} /\ chunk[t] = k
KeysWorked ==
    \A k \in Chunk : k < next /\ bumps[k] = "none" =>
        \E t \in Threads : pc[t] \in {"settle", "list"} /\ chunk[t] = k
GapsLooked ==
    \A g \in GapIx : done[g] /\ done[g + 1] /\ ~claimed[g] =>
        \E t \in Threads : WillLook(t, g) \/ DiedAt(t, {g, g + 1})
GapsWorked ==
    \A g \in GapIx : claimed[g] /\ GapOf(g) \notin taken =>
        \E t \in Threads : pc[t] \in GapSteps \cup {"panicked"} /\ gap[t] = g
MapsReleased ==
    \A k \in Chunk : done[k] /\ readers[k] = 0 /\ pieces[k] # "taken" =>
        \E t \in Threads : WillRelease(t, k) \/ DiedAt(t, {k - 1, k, k + 1})
MapsMerged ==
    \A k \in Chunk : pieces[k] = "taken" /\ RunOf(k) \notin taken =>
        \E t \in Threads : pc[t] = "merge" /\ reader[t] = k
EndWorked == RunOf(Chunks - 1) \in taken /\ ~endTail => \E t \in Threads : pc[t] = "endTail"

SomeoneWill ==
    /\ ChunksClaimed /\ ChunksWorked /\ KeysWorked
    /\ GapsLooked /\ GapsWorked /\ MapsReleased /\ MapsMerged /\ EndWorked

\* The last chunk claimed is still some worker's.
LastClaimed ==
    next > 0 => \E t \in Threads : chunk[t] = (IF next < Chunks THEN next ELSE Chunks) - 1

\* The spawning thread goes on only when all is placed, and only it places the end gap.
MainWaits ==
    /\ main \in {"endGap", "returned"} =>
         /\ \A t \in Threads : pc[t] = "exited"
         /\ drained = Chunks
    /\ main # "returned" => seeds[EndGap] = Unplaced /\ EndGap \notin taken

\* The whole of what the proofs show every step keeps; TLC checks it on the instance.
LInv ==
    /\ IInv
    /\ ChunkOwned /\ RunsFollow /\ GapsFollow
    /\ ListInOrder /\ NoneStranded /\ SomeoneWill /\ LastClaimed
    /\ MainWaits

===============================================================================
