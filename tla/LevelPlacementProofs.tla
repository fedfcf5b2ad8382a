------------------------- MODULE LevelPlacementProofs -------------------------
(***************************************************************************)
(* Proofs about LevelPlacement for every number of chunks and of workers:  *)
(* the inductive invariant IInv, and from it the type invariant, that a    *)
(* gap is placed once and that a chunk's map is kept for its readers; then *)
(* LInv, the rest of the inductive invariant, and from both that nothing   *)
(* is lost when every worker has left, and that every schedule places the  *)
(* level LevelOrder does.                                                  *)
(*                                                                         *)
(* The layout: a panic is treated apart (PanicStep); for the other steps   *)
(* of a worker there is one lemma per conjunct of the invariant, with one  *)
(* case per action that can disturb it.  Three lemmas say which action is  *)
(* taken at a label, which one leads to it, and which changes a variable.  *)
(***************************************************************************)
EXTENDS LevelPlacement, SequenceTheorems, FiniteSetTheorems, TLAPS

(* The index sets. *)

\* Both chunks beside a gap are chunks, and every run and gap is a piece.
LEMMA Indices ==
    /\ Chunk \subseteq Int
    /\ GapIx \subseteq Chunk
    /\ \A g \in GapIx : g + 1 \in Chunk
    /\ \A g \in GapIx : GapOf(g) \in Pieces
    /\ \A k \in Chunk : RunOf(k) \in Pieces
    /\ \A k \in Nat : k < Chunks => k \in Chunk
    /\ EndGap \in Pieces
  BY ChunksAssumption DEF Chunk, GapIx, Pieces, GapOf, RunOf, EndGap

\* No run, and not the end gap, is the gap between two chunks.
LEMMA Distinct ==
    /\ \A g \in GapIx, k \in Chunk : GapOf(g) # RunOf(k)
    /\ \A g \in GapIx : GapOf(g) # EndGap
    /\ \A g, h \in GapIx : GapOf(g) = GapOf(h) => g = h
  BY ChunksAssumption DEF Chunk, GapIx, GapOf, RunOf, EndGap

\* The mark of a worker outside the loop over the gaps is no gap.
LEMMA NoGapIsNone == NoGap \notin GapIx
  BY DEF NoGap, GapIx

-------------------------------------------------------------------------------
(* What a step of worker t leaves alone. *)

\* The other workers stay where they are.
LEMMA OthersStay ==
    ASSUME TypeOK, NEW t \in Threads, Worker(t), ~Panic(t), NEW u \in Threads, u # t
    PROVE  pc'[u] = pc[u] /\ chunk'[u] = chunk[u] /\ gap'[u] = gap[u] /\ reader'[u] = reader[u]
  <1>1. CASE Claim(t)
    BY <1>1 DEF Claim, Goto, TypeOK, LocalTypes, local
  <1>2. CASE SettleRun(t)
    BY <1>2 DEF SettleRun, Step, Goto, TypeOK, LocalTypes, local
  <1>3. CASE ListBumps(t)
    BY <1>3 DEF ListBumps, Step, Goto, TypeOK, LocalTypes, local
  <1>4. CASE DrainLock(t)
    BY <1>4 DEF DrainLock, Step, Goto, TypeOK, LocalTypes, local
  <1>5. CASE DrainOne(t)
    BY <1>5 DEF DrainOne, TypeOK, LocalTypes, local
  <1>6. CASE DrainEnd(t)
    BY <1>6 DEF DrainEnd, Step, Goto, TypeOK, LocalTypes, local
  <1>7. CASE Install(t)
    BY <1>7 DEF Install, Goto, TypeOK, LocalTypes, local
  <1>8. CASE SetDone(t)
    BY <1>8 DEF SetDone, Step, Goto, TypeOK, LocalTypes, local
  <1>9. CASE LoadReaders(t)
    BY <1>9 DEF LoadReaders, Goto, TypeOK, LocalTypes, local
  <1>10. CASE LeaveLoop(t)
    BY <1>10 DEF LeaveLoop, Step, Goto, TypeOK, LocalTypes, local
  <1>11. CASE LoadLeftDone(t)
    BY <1>11 DEF LoadLeftDone, Goto, NextGap, TypeOK, LocalTypes, local
  <1>12. CASE LoadRightDone(t)
    BY <1>12 DEF LoadRightDone, Goto, NextGap, TypeOK, LocalTypes, local
  <1>13. CASE ClaimGap(t)
    BY <1>13 DEF ClaimGap, Goto, NextGap, TypeOK, LocalTypes, local
  <1>14. CASE LockLeft(t)
    BY <1>14 DEF LockLeft, LockPiece, Goto, TypeOK, LocalTypes, local
  <1>15. CASE LockRight(t)
    BY <1>15 DEF LockRight, LockPiece, Goto, TypeOK, LocalTypes, local
  <1>16. CASE PlaceGap(t)
    BY <1>16 DEF PlaceGap, Goto, TypeOK, LocalTypes, local
  <1>17. CASE SettleGap(t)
    BY <1>17 DEF SettleGap, Step, Goto, TypeOK, LocalTypes, local
  <1>18. CASE ListGap(t)
    BY <1>18 DEF ListGap, Goto, TypeOK, LocalTypes, local
  <1>19. CASE MergeGap(t)
    BY <1>19 DEF MergeGap, Step, Goto, TypeOK, LocalTypes, local
  <1>20. CASE CountDown(t)
    BY <1>20 DEF CountDown, Goto, NextReader, NextGap, TypeOK, LocalTypes, local
  <1>21. CASE Release(t)
    BY <1>21 DEF Release, Goto, TypeOK, LocalTypes, local
  <1>22. CASE MergeRun(t)
    BY <1>22 DEF MergeRun, Goto, Return, NextReader, NextGap, TypeOK, LocalTypes, local
  <1>23. CASE SetEndTail(t)
    BY <1>23 DEF SetEndTail, Goto, Return, NextReader, NextGap, TypeOK, LocalTypes, local
  <1> QED
    BY <1>1, <1>2, <1>3, <1>4, <1>5, <1>6, <1>7, <1>8, <1>9, <1>10, <1>11, <1>12, <1>13, <1>14,
     <1>15, <1>16, <1>17, <1>18, <1>19, <1>20, <1>21, <1>22, <1>23 DEF Worker

\* A step that leaves the workers' own variables alone leaves their types.
LEMMA LocalFrame == ASSUME LocalTypes, UNCHANGED local PROVE LocalTypes'
  BY DEF LocalTypes, local

\* The same of the slots the maps wait in.
LEMMA SlotFrame == ASSUME SlotTypes, UNCHANGED slots PROVE SlotTypes'
  BY DEF SlotTypes, slots

\* The same of the list of bumped keys.
LEMMA ListFrame == ASSUME ListTypes, UNCHANGED listing PROVE ListTypes'
  BY DEF ListTypes, listing

\* The same of what is set once.
LEMMA OnceFrame == ASSUME OnceTypes, UNCHANGED once PROVE OnceTypes'
  BY DEF OnceTypes, once

\* The same of the flags and the counts.
LEMMA FlagFrame == ASSUME FlagTypes, UNCHANGED flags PROVE FlagTypes'
  BY DEF FlagTypes, flags

\* The same of the seeds and the level's map.
LEMMA PlacedFrame == ASSUME PlacedTypes, UNCHANGED placed PROVE PlacedTypes'
  BY DEF PlacedTypes, placed

-------------------------------------------------------------------------------
(* The readers' count. *)

\* A worker that is about to count a gap off a chunk's readers is counted there.
LEMMA StillOwed ==
    ASSUME IInv, NEW t \in Threads, pc[t] = "countDown"
    PROVE  readers[reader[t]] >= 1
  <1> DEFINE g == gap[t]  c == reader[t]
  <1>1. g \in GapIx /\ c \in {g, g + 1} /\ c \in Chunk /\ g \in Int /\ g # NoGap
    BY Indices DEF IInv, TypeOK, LocalTypes, Located, InGap, GapIx, NoGap
  <1>2. ToCount(g, c)
    BY <1>1 DEF ToCount, Owes
  <1>3. Yet(g, c) = 1 /\ Yet(c - 1, c) \in {0, 1} /\ Yet(c, c) \in {0, 1}
    BY <1>1, <1>2 DEF Yet
  <1>4. readers[c] = Yet(c - 1, c) + Yet(c, c) /\ (g = c \/ g = c - 1)
    BY <1>1 DEF IInv, Counted
  <1> QED
    BY <1>3, <1>4

-------------------------------------------------------------------------------
(* Types. *)

\* release returns to a place in the loop over the gaps, or to the loop's start.
LEMMA ReturnLocal ==
    ASSUME IInv, NEW t \in Threads, Return(t), pc[t] \in {"merge", "endTail"},
           UNCHANGED <<chunk, found>>
    PROVE  LocalTypes'
  <1>1. CASE gap[t] = NoGap
    <2>1. chunk[t] - 1 \in Int
      BY DEF IInv, TypeOK, LocalTypes, Chunk
    <2> QED
      BY <1>1, <2>1 DEF Return, Goto, IInv, TypeOK, LocalTypes, PCs
  <1>2. CASE gap[t] # NoGap
    <2>1. gap[t] \in GapIx /\ gap[t] + 1 \in Int /\ gap[t] + 1 \in Chunk
      BY <1>2, Indices DEF IInv, Located, InGap, Releasing, TypeOK, LocalTypes
    <2> QED
      BY <1>2, <2>1 DEF Return, NextReader, NextGap, Goto, IInv, TypeOK, LocalTypes, PCs
  <1> QED
    BY <1>1, <1>2

\* A worker's step keeps its program counter and its registers in their types.
LEMMA LocalStep == ASSUME IInv, NEW t \in Threads, Worker(t), ~Panic(t) PROVE LocalTypes'
  <1>1. CASE Claim(t)
    BY <1>1, Indices DEF Claim, Goto, IInv, TypeOK, LocalTypes, PCs, GapSteps, Ended, Located,
       InGap, Releasing, NoGap
  <1>2. CASE SettleRun(t)
    BY <1>2, Indices DEF SettleRun, Step, Goto, IInv, TypeOK, LocalTypes, PCs, GapSteps, Ended,
       Located, InGap, Releasing, NoGap
  <1>3. CASE ListBumps(t)
    BY <1>3, Indices DEF ListBumps, Step, Goto, IInv, TypeOK, LocalTypes, PCs, GapSteps, Ended,
       Located, InGap, Releasing, NoGap
  <1>4. CASE DrainLock(t)
    BY <1>4, Indices DEF DrainLock, Step, Goto, IInv, TypeOK, LocalTypes, PCs, GapSteps, Ended,
       Located, InGap, Releasing, NoGap
  <1>5. CASE DrainOne(t)
    BY <1>5 DEF DrainOne, IInv, TypeOK, LocalTypes, local
  <1>6. CASE DrainEnd(t)
    BY <1>6, Indices DEF DrainEnd, Step, Goto, IInv, TypeOK, LocalTypes, PCs, GapSteps, Ended,
       Located, InGap, Releasing, NoGap
  <1>7. CASE Install(t)
    BY <1>7, Indices DEF Install, Goto, IInv, TypeOK, LocalTypes, PCs, GapSteps, Ended, Located,
       InGap, Releasing, NoGap
  <1>8. CASE SetDone(t)
    BY <1>8, Indices DEF SetDone, Step, Goto, IInv, TypeOK, LocalTypes, PCs, GapSteps, Ended,
       Located, InGap, Releasing, NoGap
  <1>9. CASE LoadReaders(t)
    <2>1. CASE readers[chunk[t]] = 0
      BY <1>9, <2>1 DEF LoadReaders, Goto, IInv, TypeOK, LocalTypes, PCs
    <2>2. CASE readers[chunk[t]] # 0
      <3>1. chunk[t] - 1 \in Int
        BY DEF IInv, TypeOK, LocalTypes, Chunk
      <3> QED
        BY <1>9, <2>2, <3>1 DEF LoadReaders, Goto, IInv, TypeOK, LocalTypes, PCs
    <2> QED
      BY <2>1, <2>2
  <1>10. CASE LeaveLoop(t)
    BY <1>10, Indices DEF LeaveLoop, Step, Goto, IInv, TypeOK, LocalTypes, PCs, GapSteps, Ended,
       Located, InGap, Releasing, NoGap
  <1>11. CASE LoadLeftDone(t)
    BY <1>11, Indices DEF LoadLeftDone, Goto, NextGap, IInv, TypeOK, LocalTypes, PCs, GapSteps,
       Ended, Located, InGap, Releasing, NoGap
  <1>12. CASE LoadRightDone(t)
    BY <1>12, Indices DEF LoadRightDone, Goto, NextGap, IInv, TypeOK, LocalTypes, PCs, GapSteps,
       Ended, Located, InGap, Releasing, NoGap
  <1>13. CASE ClaimGap(t)
    BY <1>13, Indices DEF ClaimGap, Goto, NextGap, IInv, TypeOK, LocalTypes, PCs, GapSteps,
       Ended, Located, InGap, Releasing, NoGap
  <1>14. CASE LockLeft(t)
    BY <1>14, Indices DEF LockLeft, LockPiece, Goto, IInv, TypeOK, LocalTypes, PCs, GapSteps,
       Ended, Located, InGap, Releasing, NoGap
  <1>15. CASE LockRight(t)
    BY <1>15, Indices DEF LockRight, LockPiece, Goto, IInv, TypeOK, LocalTypes, PCs, GapSteps,
       Ended, Located, InGap, Releasing, NoGap
  <1>16. CASE PlaceGap(t)
    BY <1>16, Indices DEF PlaceGap, Goto, IInv, TypeOK, LocalTypes, PCs, GapSteps, Ended,
       Located, InGap, Releasing, NoGap
  <1>17. CASE SettleGap(t)
    BY <1>17, Indices DEF SettleGap, Step, Goto, IInv, TypeOK, LocalTypes, PCs, GapSteps, Ended,
       Located, InGap, Releasing, NoGap
  <1>18. CASE ListGap(t)
    BY <1>18, Indices DEF ListGap, Goto, IInv, TypeOK, LocalTypes, PCs, GapSteps, Ended,
       Located, InGap, Releasing, NoGap
  <1>19. CASE MergeGap(t)
    BY <1>19, Indices DEF MergeGap, Step, Goto, IInv, TypeOK, LocalTypes, PCs, GapSteps, Ended,
       Located, InGap, Releasing, NoGap
  <1>20. CASE CountDown(t)
    BY <1>20, Indices DEF CountDown, Goto, NextReader, NextGap, IInv, TypeOK, LocalTypes, PCs,
       GapSteps, Ended, Located, InGap, Releasing, NoGap
  <1>21. CASE Release(t)
    BY <1>21, Indices DEF Release, Goto, IInv, TypeOK, LocalTypes, PCs, GapSteps, Ended,
       Located, InGap, Releasing, NoGap
  <1>22. CASE MergeRun(t)
    <2>1. CASE reader[t] + 1 = Chunks
      BY <1>22, <2>1 DEF MergeRun, Goto, IInv, TypeOK, LocalTypes, PCs
    <2>2. CASE reader[t] + 1 # Chunks
      BY <1>22, <2>2, ReturnLocal DEF MergeRun
    <2> QED
      BY <2>1, <2>2
  <1>23. CASE SetEndTail(t)
    BY <1>23, ReturnLocal DEF SetEndTail
  <1> QED
    BY <1>1, <1>2, <1>3, <1>4, <1>5, <1>6, <1>7, <1>8, <1>9, <1>10, <1>11, <1>12, <1>13, <1>14,
     <1>15, <1>16, <1>17, <1>18, <1>19, <1>20, <1>21, <1>22, <1>23 DEF Worker

\* A worker's step keeps the slots and their mutexes in their types.
LEMMA SlotStep == ASSUME IInv, NEW t \in Threads, Worker(t), ~Panic(t) PROVE SlotTypes'
  <1>1. CASE Install(t)
    BY <1>1, Indices DEF Install, Goto, IInv, TypeOK, SlotTypes, Located, InGap, GapSteps,
       Releasing, slots
  <1>2. CASE LockLeft(t)
    BY <1>2, Indices DEF LockLeft, LockPiece, Goto, IInv, TypeOK, SlotTypes, Located, InGap,
       GapSteps, Releasing, slots
  <1>3. CASE LockRight(t)
    BY <1>3, Indices DEF LockRight, LockPiece, Goto, IInv, TypeOK, SlotTypes, Located, InGap,
       GapSteps, Releasing, slots
  <1>4. CASE PlaceGap(t)
    BY <1>4, Indices DEF PlaceGap, Goto, IInv, TypeOK, SlotTypes, Located, InGap, GapSteps,
       Releasing, slots
  <1>5. CASE Release(t)
    <2>1. CASE reader[t] \in poisoned \/ pieces[reader[t]] # "set"
      BY <1>5, <2>1 DEF Release, IInv, TypeOK, LocalTypes, SlotTypes
    <2>2. CASE ~(reader[t] \in poisoned \/ pieces[reader[t]] # "set")
      BY <1>5, <2>2 DEF Release, IInv, TypeOK, LocalTypes, SlotTypes
    <2> QED
      BY <2>1, <2>2
  <1>6. CASE UNCHANGED slots
    BY <1>6, SlotFrame DEF IInv, TypeOK
  <1> QED
    BY <1>1, <1>2, <1>3, <1>4, <1>5, <1>6 DEF Worker, Claim, SettleRun, ListBumps, DrainLock,
     DrainOne, DrainEnd, SetDone, LoadReaders, LeaveLoop, LoadLeftDone, LoadRightDone, ClaimGap,
     SettleGap, ListGap, MergeGap, CountDown, MergeRun, SetEndTail

\* A worker's step keeps the list of bumped keys and its drained count in their types.
LEMMA ListStep == ASSUME IInv, NEW t \in Threads, Worker(t), ~Panic(t) PROVE ListTypes'
  <1>1. CASE ListBumps(t)
    BY <1>1, Indices DEF ListBumps, Step, Goto, IInv, TypeOK, ListTypes, listing
  <1>2. CASE DrainLock(t)
    BY <1>2, Indices DEF DrainLock, Step, Goto, IInv, TypeOK, ListTypes, listing
  <1>3. CASE DrainOne(t)
    <2>1. drained \in Chunk /\ RunOf(drained) \in Pieces /\ drained + 1 \in 0 .. Chunks
      BY <1>3, Indices, ChunksAssumption DEF DrainOne, IInv, TypeOK, ListTypes
    <2> QED
      BY <1>3, <2>1 DEF DrainOne, IInv, TypeOK, ListTypes
  <1>4. CASE DrainEnd(t)
    BY <1>4, Indices DEF DrainEnd, Step, Goto, IInv, TypeOK, ListTypes, listing
  <1>5. CASE UNCHANGED listing
    BY <1>5, ListFrame DEF IInv, TypeOK
  <1> QED
    BY <1>1, <1>2, <1>3, <1>4, <1>5 DEF Worker, Claim, SettleRun, Install, SetDone, LoadReaders,
     LeaveLoop, LoadLeftDone, LoadRightDone, ClaimGap, LockLeft, LockRight, PlaceGap, SettleGap,
     ListGap, MergeGap, CountDown, Release, MergeRun, SetEndTail, LockPiece

\* Only gaps between chunks get a list of bumped keys.
LEMMA OnceStep == ASSUME IInv, NEW t \in Threads, Worker(t), ~Panic(t) PROVE OnceTypes'
  <1>1. CASE ListGap(t)
    BY <1>1, Indices DEF ListGap, Goto, IInv, TypeOK, OnceTypes, Located, InGap, GapSteps,
       Releasing, once
  <1>2. CASE SetEndTail(t)
    BY <1>2, Indices DEF SetEndTail, Goto, Return, NextReader, NextGap, IInv, TypeOK, OnceTypes,
       Located, InGap, GapSteps, Releasing, once
  <1>3. CASE UNCHANGED once
    BY <1>3, OnceFrame DEF IInv, TypeOK
  <1> QED
    BY <1>1, <1>2, <1>3 DEF Worker, Claim, SettleRun, ListBumps, DrainLock, DrainOne, DrainEnd,
     Install, SetDone, LoadReaders, LeaveLoop, LoadLeftDone, LoadRightDone, ClaimGap, LockLeft,
     LockRight, PlaceGap, SettleGap, MergeGap, CountDown, Release, MergeRun, LockPiece

\* No count of readers leaves 0 .. 2: a count that is taken down was owed, so not 0.
LEMMA FlagStep == ASSUME IInv, NEW t \in Threads, Worker(t), ~Panic(t) PROVE FlagTypes'
  <1>1. CASE SetDone(t)
    BY <1>1, Indices DEF SetDone, Step, Goto, IInv, TypeOK, FlagTypes, Located, InGap, GapSteps,
       Releasing, flags
  <1>2. CASE ClaimGap(t)
    BY <1>2, Indices DEF ClaimGap, Goto, NextGap, IInv, TypeOK, FlagTypes, Located, InGap,
       GapSteps, Releasing, flags
  <1>3. CASE CountDown(t)
    <2>1. readers[reader[t]] \in 1 .. 2 /\ reader[t] \in Chunk
      BY <1>3, StillOwed DEF CountDown, IInv, TypeOK, LocalTypes, FlagTypes
    <2>2. readers[reader[t]] - 1 \in 0 .. 2
      BY <2>1
    <2> QED
      BY <1>3, <2>1, <2>2 DEF CountDown, IInv, TypeOK, FlagTypes
  <1>4. CASE UNCHANGED flags
    BY <1>4, FlagFrame DEF IInv, TypeOK
  <1> QED
    BY <1>1, <1>2, <1>3, <1>4 DEF Worker, Claim, SettleRun, ListBumps, DrainLock, DrainOne,
     DrainEnd, Install, LoadReaders, LeaveLoop, LoadLeftDone, LoadRightDone, LockLeft, LockRight,
     PlaceGap, SettleGap, ListGap, MergeGap, Release, MergeRun, SetEndTail, LockPiece

\* A worker settles and merges pieces only.
LEMMA PlacedStep == ASSUME IInv, NEW t \in Threads, Worker(t), ~Panic(t) PROVE PlacedTypes'
  <1>1. CASE SettleRun(t)
    BY <1>1, Indices DEF SettleRun, Step, Goto, IInv, TypeOK, PlacedTypes, Located, InGap,
       GapSteps, Releasing, placed
  <1>2. CASE SettleGap(t)
    <2>1. GapOf(gap[t]) \in Pieces
      BY <1>2, Indices DEF SettleGap, Step, IInv, Located, InGap, GapSteps
    <2> QED
      BY <1>2, <2>1 DEF SettleGap, IInv, TypeOK, LocalTypes, PlacedTypes
  <1>3. CASE MergeGap(t)
    BY <1>3, Indices DEF MergeGap, Step, Goto, IInv, TypeOK, PlacedTypes, Located, InGap,
       GapSteps, Releasing, placed
  <1>4. CASE MergeRun(t)
    BY <1>4, Indices DEF MergeRun, IInv, TypeOK, LocalTypes, PlacedTypes
  <1>5. CASE UNCHANGED placed
    BY <1>5, PlacedFrame DEF IInv, TypeOK
  <1> QED
    BY <1>1, <1>2, <1>3, <1>4, <1>5 DEF Worker, Claim, ListBumps, DrainLock, DrainOne, DrainEnd,
     Install, SetDone, LoadReaders, LeaveLoop, LoadLeftDone, LoadRightDone, ClaimGap, LockLeft,
     LockRight, PlaceGap, ListGap, CountDown, Release, SetEndTail, LockPiece

-------------------------------------------------------------------------------
(* Where a worker is. *)

\* Located depends on the worker's own variables only.
LEMMA LocatedFrame ==
    ASSUME NEW u \in Threads, Located(u), pc'[u] = pc[u], chunk'[u] = chunk[u], gap'[u] = gap[u],
           reader'[u] = reader[u]
    PROVE  Located(u)'
  BY DEF Located, InGap, Releasing, GapSteps

\* A worker back from release is inside its loop over the gaps, or out of it.
LEMMA LocatedReturn ==
    ASSUME IInv, NEW t \in Threads, Return(t), pc[t] \in {"merge", "endTail"}, UNCHANGED chunk
    PROVE  Located(t)'
  <1>1. pc[t] \in PCs /\ chunk[t] \in Int /\ gap[t] \in Int /\ reader[t] \in Int
    BY DEF IInv, TypeOK, LocalTypes, Chunk
  <1>2. CASE gap[t] = NoGap
    <2>1. pc'[t] = "leftDone" /\ gap'[t] = chunk[t] - 1 /\ chunk'[t] = chunk[t]
      BY <1>2 DEF Return, Goto, IInv, TypeOK, LocalTypes
    <2> QED
      BY <1>1, <2>1 DEF Located, InGap, Releasing, GapSteps
  <1>3. CASE gap[t] # NoGap
    <2>1. gap[t] \in GapIx /\ gap[t] \in {chunk[t] - 1, chunk[t]} /\ reader[t] \in {gap[t], gap[t] + 1}
      BY <1>3 DEF IInv, Located, InGap, Releasing
    <2>2. CASE reader[t] = gap[t]
      <3>1. pc'[t] = "countDown" /\ gap'[t] = gap[t] /\ chunk'[t] = chunk[t]
              /\ reader'[t] = gap[t] + 1
        BY <1>3, <2>2 DEF Return, NextReader, Goto, IInv, TypeOK, LocalTypes
      <3> QED
        BY <1>3, <2>1, <3>1 DEF Located, InGap, Releasing, GapSteps
    <2>3. CASE reader[t] # gap[t]
      <3>1. pc'[t] = "leftDone" /\ gap'[t] = gap[t] + 1 /\ chunk'[t] = chunk[t]
        BY <1>3, <2>3 DEF Return, NextReader, NextGap, Goto, IInv, TypeOK, LocalTypes
      <3> QED
        BY <1>1, <2>1, <3>1 DEF Located, InGap, Releasing, GapSteps
    <2> QED
      BY <2>2, <2>3
  <1> QED
    BY <1>2, <1>3

\* The worker that steps is at a chunk, a gap and a reader that go together.
LEMMA LocatedOwn ==
    ASSUME IInv, NEW t \in Threads, Worker(t), ~Panic(t)
    PROVE  Located(t)'
  <1>1. CASE Claim(t)
    BY <1>1, Indices DEF Claim, Goto, IInv, TypeOK, LocalTypes, local, Located, InGap,
       Releasing, GapSteps, NoGap
  <1>2. CASE SettleRun(t)
    BY <1>2, Indices DEF SettleRun, Step, Goto, IInv, TypeOK, LocalTypes, local, Located, InGap,
       Releasing, GapSteps, NoGap
  <1>3. CASE ListBumps(t)
    BY <1>3, Indices DEF ListBumps, Step, Goto, IInv, TypeOK, LocalTypes, local, Located, InGap,
       Releasing, GapSteps, NoGap
  <1>4. CASE DrainLock(t)
    BY <1>4, Indices DEF DrainLock, Step, Goto, IInv, TypeOK, LocalTypes, local, Located, InGap,
       Releasing, GapSteps, NoGap
  <1>5. CASE DrainOne(t)
    BY <1>5, Indices DEF DrainOne, IInv, TypeOK, LocalTypes, local, Located, InGap, Releasing,
       GapSteps, NoGap
  <1>6. CASE DrainEnd(t)
    BY <1>6, Indices DEF DrainEnd, Step, Goto, IInv, TypeOK, LocalTypes, local, Located, InGap,
       Releasing, GapSteps, NoGap
  <1>7. CASE Install(t)
    BY <1>7, Indices DEF Install, Goto, IInv, TypeOK, LocalTypes, local, Located, InGap,
       Releasing, GapSteps, NoGap
  <1>8. CASE SetDone(t)
    BY <1>8, Indices DEF SetDone, Step, Goto, IInv, TypeOK, LocalTypes, local, Located, InGap,
       Releasing, GapSteps, NoGap
  <1>9. CASE LoadReaders(t)
    <2>1. CASE readers[chunk[t]] = 0
      BY <1>9, <2>1 DEF LoadReaders, Goto, IInv, TypeOK, LocalTypes, local, Located, InGap, Releasing, GapSteps, NoGap, Chunk, GapIx
    <2>2. CASE ~(readers[chunk[t]] = 0)
      BY <1>9, <2>2 DEF LoadReaders, Goto, IInv, TypeOK, LocalTypes, local, Located, InGap, Releasing, GapSteps, NoGap, Chunk, GapIx
    <2> QED
      BY <2>1, <2>2
  <1>10. CASE LeaveLoop(t)
    BY <1>10, Indices DEF LeaveLoop, Step, Goto, IInv, TypeOK, LocalTypes, local, Located,
       InGap, Releasing, GapSteps, NoGap
  <1>11. CASE LoadLeftDone(t)
    <2>1. CASE gap[t] \in GapIx /\ done[gap[t]]
      BY <1>11, <2>1 DEF LoadLeftDone, Goto, NextGap, IInv, TypeOK, LocalTypes, local, Located, InGap, Releasing, GapSteps, NoGap, Chunk, GapIx
    <2>2. CASE ~(gap[t] \in GapIx /\ done[gap[t]])
      BY <1>11, <2>2 DEF LoadLeftDone, Goto, NextGap, IInv, TypeOK, LocalTypes, local, Located, InGap, Releasing, GapSteps, NoGap, Chunk, GapIx
    <2> QED
      BY <2>1, <2>2
  <1>12. CASE LoadRightDone(t)
    <2>1. CASE done[gap[t] + 1]
      BY <1>12, <2>1 DEF LoadRightDone, Goto, NextGap, IInv, TypeOK, LocalTypes, local, Located, InGap, Releasing, GapSteps, NoGap, Chunk, GapIx
    <2>2. CASE ~(done[gap[t] + 1])
      BY <1>12, <2>2 DEF LoadRightDone, Goto, NextGap, IInv, TypeOK, LocalTypes, local, Located, InGap, Releasing, GapSteps, NoGap, Chunk, GapIx
    <2> QED
      BY <2>1, <2>2
  <1>13. CASE ClaimGap(t)
    <2>1. CASE claimed[gap[t]]
      BY <1>13, <2>1 DEF ClaimGap, Goto, NextGap, IInv, TypeOK, LocalTypes, local, Located, InGap, Releasing, GapSteps, NoGap, Chunk, GapIx
    <2>2. CASE ~(claimed[gap[t]])
      BY <1>13, <2>2 DEF ClaimGap, Goto, NextGap, IInv, TypeOK, LocalTypes, local, Located, InGap, Releasing, GapSteps, NoGap, Chunk, GapIx
    <2> QED
      BY <2>1, <2>2
  <1>14. CASE LockLeft(t)
    BY <1>14, Indices DEF LockLeft, LockPiece, Goto, IInv, TypeOK, LocalTypes, local, Located,
       InGap, Releasing, GapSteps, NoGap
  <1>15. CASE LockRight(t)
    BY <1>15, Indices DEF LockRight, LockPiece, Goto, IInv, TypeOK, LocalTypes, local, Located,
       InGap, Releasing, GapSteps, NoGap
  <1>16. CASE PlaceGap(t)
    BY <1>16, Indices DEF PlaceGap, Goto, IInv, TypeOK, LocalTypes, local, Located, InGap,
       Releasing, GapSteps, NoGap
  <1>17. CASE SettleGap(t)
    BY <1>17, Indices DEF SettleGap, Step, Goto, IInv, TypeOK, LocalTypes, local, Located,
       InGap, Releasing, GapSteps, NoGap
  <1>18. CASE ListGap(t)
    BY <1>18, Indices DEF ListGap, Goto, IInv, TypeOK, LocalTypes, local, Located, InGap,
       Releasing, GapSteps, NoGap
  <1>19. CASE MergeGap(t)
    BY <1>19, Indices DEF MergeGap, Step, Goto, IInv, TypeOK, LocalTypes, local, Located, InGap, Releasing, GapSteps, NoGap, GapIx
  <1>20. CASE CountDown(t)
    <2>1. CASE readers[reader[t]] = 1
      BY <1>20, <2>1 DEF CountDown, Goto, IInv, TypeOK, LocalTypes, Located, InGap, Releasing,
         GapSteps, NoGap, GapIx
    <2>2. CASE readers[reader[t]] # 1 /\ reader[t] = gap[t]
      BY <1>20, <2>2 DEF CountDown, NextReader, Goto, IInv, TypeOK, LocalTypes, Located, InGap,
         Releasing, GapSteps, NoGap, GapIx
    <2>3. CASE readers[reader[t]] # 1 /\ reader[t] # gap[t]
      BY <1>20, <2>3 DEF CountDown, NextReader, NextGap, Goto, IInv, TypeOK, LocalTypes, Located,
         InGap, Releasing, GapSteps, NoGap, GapIx, Chunk
    <2> QED
      BY <2>1, <2>2, <2>3
  <1>21. CASE Release(t)
    BY <1>21, Indices DEF Release, Goto, IInv, TypeOK, LocalTypes, local, Located, InGap,
       Releasing, GapSteps, NoGap
  <1>22. CASE MergeRun(t)
    <2>1. CASE reader[t] + 1 = Chunks
      BY <1>22, <2>1 DEF MergeRun, Goto, IInv, TypeOK, LocalTypes, Located, InGap, Releasing, GapSteps
    <2>2. CASE reader[t] + 1 # Chunks
      BY <1>22, <2>2, LocatedReturn DEF MergeRun
    <2> QED
      BY <2>1, <2>2
  <1>23. CASE SetEndTail(t)
    BY <1>23, LocatedReturn DEF SetEndTail
  <1> QED
    BY <1>1, <1>2, <1>3, <1>4, <1>5, <1>6, <1>7, <1>8, <1>9, <1>10, <1>11, <1>12, <1>13, <1>14,
     <1>15, <1>16, <1>17, <1>18, <1>19, <1>20, <1>21, <1>22, <1>23 DEF Worker

-------------------------------------------------------------------------------
(* What a worker knows. *)

\* A chunk once done, or installed, or out of readers, stays so.
LEMMA Monotone ==
    ASSUME IInv, NEW t \in Threads, Worker(t), ~Panic(t), NEW k \in Chunk
    PROVE  /\ done[k] => done'[k]
           /\ pieces[k] # "none" => pieces'[k] # "none"
           /\ readers[k] = 0 => readers'[k] = 0
  <1>1. CASE Install(t)
    BY <1>1 DEF Install, Goto, IInv, TypeOK, LocalTypes, SlotTypes, FlagTypes, flags, slots
  <1>2. CASE SetDone(t)
    BY <1>2 DEF SetDone, Step, Goto, IInv, TypeOK, LocalTypes, SlotTypes, FlagTypes, flags,
       slots
  <1>3. CASE ClaimGap(t)
    BY <1>3 DEF ClaimGap, Goto, NextGap, IInv, TypeOK, LocalTypes, SlotTypes, FlagTypes, flags,
       slots
  <1>4. CASE LockLeft(t)
    BY <1>4 DEF LockLeft, LockPiece, Goto, IInv, TypeOK, LocalTypes, SlotTypes, FlagTypes,
       flags, slots
  <1>5. CASE LockRight(t)
    BY <1>5 DEF LockRight, LockPiece, Goto, IInv, TypeOK, LocalTypes, SlotTypes, FlagTypes,
       flags, slots
  <1>6. CASE PlaceGap(t)
    BY <1>6 DEF PlaceGap, Goto, IInv, TypeOK, LocalTypes, SlotTypes, FlagTypes, flags, slots
  <1>7. CASE CountDown(t)
    BY <1>7, StillOwed DEF CountDown, slots, IInv, TypeOK, LocalTypes, FlagTypes
  <1>8. CASE Release(t)
    BY <1>8 DEF Release, Goto, IInv, TypeOK, LocalTypes, SlotTypes, FlagTypes, flags, slots
  <1>9. CASE UNCHANGED <<pieces, done, readers>>
    BY <1>9
  <1> QED
    BY <1>1, <1>2, <1>3, <1>4, <1>5, <1>6, <1>7, <1>8, <1>9 DEF Worker, Claim, SettleRun, ListBumps,
     DrainLock, DrainOne, DrainEnd, LoadReaders, LeaveLoop, LoadLeftDone, LoadRightDone,
     SettleGap, ListGap, MergeGap, MergeRun, SetEndTail, slots, flags

\* What a worker knows of the flags and slots stays true while these only grow.
LEMMA KnowsFrame ==
    ASSUME TypeOK, NEW u \in Threads, Located(u), Knows(u),
           pc'[u] = pc[u], chunk'[u] = chunk[u], gap'[u] = gap[u], reader'[u] = reader[u],
           \A k \in Chunk : /\ done[k] => done'[k]
                            /\ pieces[k] # "none" => pieces'[k] # "none"
                            /\ readers[k] = 0 => readers'[k] = 0
    PROVE  Knows(u)'
  BY Indices DEF Knows, Located, InGap, Releasing, GapSteps, TypeOK, LocalTypes

\* The worker that steps knows at its next label what that label needs.
LEMMA KnowsOwn ==
    ASSUME IInv, NEW t \in Threads, Worker(t), ~Panic(t)
    PROVE  Knows(t)'
  <1>1. CASE Claim(t)
    BY <1>1, Indices DEF Claim, Goto, IInv, TypeOK, LocalTypes, FlagTypes, SlotTypes, flags,
       slots, local, Located, Knows, InGap, Releasing, GapSteps, NoGap
  <1>2. CASE SettleRun(t)
    BY <1>2, Indices DEF SettleRun, Step, Goto, IInv, TypeOK, LocalTypes, FlagTypes, SlotTypes,
       flags, slots, local, Located, Knows, InGap, Releasing, GapSteps, NoGap
  <1>3. CASE ListBumps(t)
    BY <1>3, Indices DEF ListBumps, Step, Goto, IInv, TypeOK, LocalTypes, FlagTypes, SlotTypes,
       flags, slots, local, Located, Knows, InGap, Releasing, GapSteps, NoGap
  <1>4. CASE DrainLock(t)
    BY <1>4, Indices DEF DrainLock, Step, Goto, IInv, TypeOK, LocalTypes, FlagTypes, SlotTypes,
       flags, slots, local, Located, Knows, InGap, Releasing, GapSteps, NoGap
  <1>5. CASE DrainOne(t)
    BY <1>5, Indices DEF DrainOne, IInv, TypeOK, LocalTypes, FlagTypes, SlotTypes, flags, slots,
       local, Located, Knows, InGap, Releasing, GapSteps, NoGap
  <1>6. CASE DrainEnd(t)
    BY <1>6, Indices DEF DrainEnd, Step, Goto, IInv, TypeOK, LocalTypes, FlagTypes, SlotTypes,
       flags, slots, local, Located, Knows, InGap, Releasing, GapSteps, NoGap
  <1>7. CASE Install(t)
    BY <1>7, Indices DEF Install, Goto, IInv, TypeOK, LocalTypes, FlagTypes, SlotTypes, flags,
       slots, local, Located, Knows, InGap, Releasing, GapSteps, NoGap
  <1>8. CASE SetDone(t)
    BY <1>8, Indices DEF SetDone, Step, Goto, IInv, TypeOK, LocalTypes, FlagTypes, SlotTypes,
       flags, slots, local, Located, Knows, InGap, Releasing, GapSteps, NoGap
  <1>9. CASE LoadReaders(t)
    BY <1>9, Indices DEF LoadReaders, Goto, IInv, TypeOK, LocalTypes, FlagTypes, SlotTypes,
       flags, slots, local, Located, Knows, InGap, Releasing, GapSteps, NoGap
  <1>10. CASE LeaveLoop(t)
    BY <1>10, Indices DEF LeaveLoop, Step, Goto, IInv, TypeOK, LocalTypes, FlagTypes, SlotTypes,
       flags, slots, local, Located, Knows, InGap, Releasing, GapSteps, NoGap
  <1>11. CASE LoadLeftDone(t)
    BY <1>11, Indices DEF LoadLeftDone, Goto, NextGap, IInv, TypeOK, LocalTypes, FlagTypes,
       SlotTypes, flags, slots, local, Located, Knows, InGap, Releasing, GapSteps, NoGap
  <1>12. CASE LoadRightDone(t)
    BY <1>12, Indices DEF LoadRightDone, Goto, NextGap, IInv, TypeOK, LocalTypes, FlagTypes,
       SlotTypes, flags, slots, local, Located, Knows, InGap, Releasing, GapSteps, NoGap
  <1>13. CASE ClaimGap(t)
    BY <1>13, Indices DEF ClaimGap, Goto, NextGap, IInv, TypeOK, LocalTypes, FlagTypes,
       SlotTypes, flags, slots, local, Located, Knows, InGap, Releasing, GapSteps, NoGap
  <1>14. CASE LockLeft(t)
    BY <1>14, Indices DEF LockLeft, LockPiece, Goto, IInv, TypeOK, LocalTypes, FlagTypes,
       SlotTypes, flags, slots, local, Located, Knows, InGap, Releasing, GapSteps, NoGap
  <1>15. CASE LockRight(t)
    BY <1>15, Indices DEF LockRight, LockPiece, Goto, IInv, TypeOK, LocalTypes, FlagTypes,
       SlotTypes, flags, slots, local, Located, Knows, InGap, Releasing, GapSteps, NoGap
  <1>16. CASE PlaceGap(t)
    BY <1>16, Indices DEF PlaceGap, Goto, IInv, TypeOK, LocalTypes, FlagTypes, SlotTypes, flags,
       slots, local, Located, Knows, InGap, Releasing, GapSteps, NoGap
  <1>17. CASE SettleGap(t)
    BY <1>17, Indices DEF SettleGap, Step, Goto, IInv, TypeOK, LocalTypes, FlagTypes, SlotTypes,
       flags, slots, local, Located, Knows, InGap, Releasing, GapSteps, NoGap
  <1>18. CASE ListGap(t)
    BY <1>18, Indices DEF ListGap, Goto, IInv, TypeOK, LocalTypes, FlagTypes, SlotTypes, flags,
       slots, local, Located, Knows, InGap, Releasing, GapSteps, NoGap
  <1>19. CASE MergeGap(t)
    BY <1>19, Indices DEF MergeGap, Step, Goto, IInv, TypeOK, LocalTypes, FlagTypes, SlotTypes,
       flags, slots, local, Located, Knows, InGap, Releasing, GapSteps, NoGap
  <1>20. CASE CountDown(t)
    BY <1>20, Indices DEF CountDown, Goto, NextReader, NextGap, IInv, TypeOK, LocalTypes,
       FlagTypes, SlotTypes, flags, slots, local, Located, Knows, InGap, Releasing, GapSteps,
       NoGap
  <1>21. CASE Release(t)
    BY <1>21, Indices DEF Release, Goto, IInv, TypeOK, LocalTypes, FlagTypes, SlotTypes, flags,
       slots, local, Located, Knows, InGap, Releasing, GapSteps, NoGap
  <1>22. CASE MergeRun(t)
    BY <1>22, Indices DEF MergeRun, Goto, Return, NextReader, NextGap, IInv, TypeOK, LocalTypes,
       FlagTypes, SlotTypes, flags, slots, local, Located, Knows, InGap, Releasing, GapSteps,
       NoGap
  <1>23. CASE SetEndTail(t)
    BY <1>23, Indices DEF SetEndTail, Goto, Return, NextReader, NextGap, IInv, TypeOK,
       LocalTypes, FlagTypes, SlotTypes, flags, slots, local, Located, Knows, InGap, Releasing,
       GapSteps, NoGap
  <1> QED
    BY <1>1, <1>2, <1>3, <1>4, <1>5, <1>6, <1>7, <1>8, <1>9, <1>10, <1>11, <1>12, <1>13, <1>14,
     <1>15, <1>16, <1>17, <1>18, <1>19, <1>20, <1>21, <1>22, <1>23 DEF Worker

-------------------------------------------------------------------------------
(* Who owns a gap. *)

\* A gap claimed has one worker inside it, before its bumped keys are set.
LEMMA OwnedStep ==
    ASSUME IInv, NEW t \in Threads, Worker(t), ~Panic(t)
    PROVE  GapOwned'
  <1> USE OthersStay
  <1>1. CASE Claim(t)
    BY <1>1, Indices, Distinct DEF Claim, Goto, IInv, TypeOK, LocalTypes, FlagTypes,
       PlacedTypes, OnceTypes, flags, placed, once, local, Located, InGap, Releasing, GapSteps,
       NoGap, GapOwned
  <1>2. CASE SettleRun(t)
    BY <1>2, Indices, Distinct DEF SettleRun, Step, Goto, IInv, TypeOK, LocalTypes, FlagTypes,
       PlacedTypes, OnceTypes, flags, placed, once, local, Located, InGap, Releasing, GapSteps,
       NoGap, GapOwned
  <1>3. CASE ListBumps(t)
    BY <1>3, Indices, Distinct DEF ListBumps, Step, Goto, IInv, TypeOK, LocalTypes, FlagTypes,
       PlacedTypes, OnceTypes, flags, placed, once, local, Located, InGap, Releasing, GapSteps,
       NoGap, GapOwned
  <1>4. CASE DrainLock(t)
    BY <1>4, Indices, Distinct DEF DrainLock, Step, Goto, IInv, TypeOK, LocalTypes, FlagTypes,
       PlacedTypes, OnceTypes, flags, placed, once, local, Located, InGap, Releasing, GapSteps,
       NoGap, GapOwned
  <1>5. CASE DrainOne(t)
    BY <1>5, Indices, Distinct DEF DrainOne, IInv, TypeOK, LocalTypes, FlagTypes, PlacedTypes,
       OnceTypes, flags, placed, once, local, Located, InGap, Releasing, GapSteps, NoGap,
       GapOwned
  <1>6. CASE DrainEnd(t)
    BY <1>6, Indices, Distinct DEF DrainEnd, Step, Goto, IInv, TypeOK, LocalTypes, FlagTypes,
       PlacedTypes, OnceTypes, flags, placed, once, local, Located, InGap, Releasing, GapSteps,
       NoGap, GapOwned
  <1>7. CASE Install(t)
    BY <1>7, Indices, Distinct DEF Install, Goto, IInv, TypeOK, LocalTypes, FlagTypes,
       PlacedTypes, OnceTypes, flags, placed, once, local, Located, InGap, Releasing, GapSteps,
       NoGap, GapOwned
  <1>8. CASE SetDone(t)
    BY <1>8, Indices, Distinct DEF SetDone, Step, Goto, IInv, TypeOK, LocalTypes, FlagTypes,
       PlacedTypes, OnceTypes, flags, placed, once, local, Located, InGap, Releasing, GapSteps,
       NoGap, GapOwned
  <1>9. CASE LoadReaders(t)
    BY <1>9, Indices, Distinct DEF LoadReaders, Goto, IInv, TypeOK, LocalTypes, FlagTypes,
       PlacedTypes, OnceTypes, flags, placed, once, local, Located, InGap, Releasing, GapSteps,
       NoGap, GapOwned
  <1>10. CASE LeaveLoop(t)
    BY <1>10, Indices, Distinct DEF LeaveLoop, Step, Goto, IInv, TypeOK, LocalTypes, FlagTypes,
       PlacedTypes, OnceTypes, flags, placed, once, local, Located, InGap, Releasing, GapSteps,
       NoGap, GapOwned
  <1>11. CASE LoadLeftDone(t)
    BY <1>11, Indices, Distinct DEF LoadLeftDone, Goto, NextGap, IInv, TypeOK, LocalTypes,
       FlagTypes, PlacedTypes, OnceTypes, flags, placed, once, local, Located, InGap, Releasing,
       GapSteps, NoGap, GapOwned
  <1>12. CASE LoadRightDone(t)
    BY <1>12, Indices, Distinct DEF LoadRightDone, Goto, NextGap, IInv, TypeOK, LocalTypes,
       FlagTypes, PlacedTypes, OnceTypes, flags, placed, once, local, Located, InGap, Releasing,
       GapSteps, NoGap, GapOwned
  <1>13. CASE ClaimGap(t)
    BY <1>13, Indices, Distinct DEF ClaimGap, Goto, NextGap, IInv, TypeOK, LocalTypes,
       FlagTypes, PlacedTypes, OnceTypes, flags, placed, once, local, Located, InGap, Releasing,
       GapSteps, NoGap, GapOwned
  <1>14. CASE LockLeft(t)
    BY <1>14, Indices, Distinct DEF LockLeft, LockPiece, Goto, IInv, TypeOK, LocalTypes,
       FlagTypes, PlacedTypes, OnceTypes, flags, placed, once, local, Located, InGap, Releasing,
       GapSteps, NoGap, GapOwned
  <1>15. CASE LockRight(t)
    BY <1>15, Indices, Distinct DEF LockRight, LockPiece, Goto, IInv, TypeOK, LocalTypes,
       FlagTypes, PlacedTypes, OnceTypes, flags, placed, once, local, Located, InGap, Releasing,
       GapSteps, NoGap, GapOwned
  <1>16. CASE PlaceGap(t)
    BY <1>16, Indices, Distinct DEF PlaceGap, Goto, IInv, TypeOK, LocalTypes, FlagTypes,
       PlacedTypes, OnceTypes, flags, placed, once, local, Located, InGap, Releasing, GapSteps,
       NoGap, GapOwned
  <1>17. CASE SettleGap(t)
    BY <1>17, Indices, Distinct DEF SettleGap, Step, Goto, IInv, TypeOK, LocalTypes, FlagTypes,
       PlacedTypes, OnceTypes, flags, placed, once, local, Located, InGap, Releasing, GapSteps,
       NoGap, GapOwned
  <1>18. CASE ListGap(t)
    BY <1>18, Indices, Distinct DEF ListGap, Goto, IInv, TypeOK, LocalTypes, FlagTypes,
       PlacedTypes, OnceTypes, flags, placed, once, local, Located, InGap, Releasing, GapSteps,
       NoGap, GapOwned
  <1>19. CASE MergeGap(t)
    BY <1>19, Indices, Distinct DEF MergeGap, Step, Goto, IInv, TypeOK, LocalTypes, FlagTypes,
       PlacedTypes, OnceTypes, flags, placed, once, local, Located, InGap, Releasing, GapSteps,
       NoGap, GapOwned
  <1>20. CASE CountDown(t)
    BY <1>20, Indices, Distinct DEF CountDown, Goto, NextReader, NextGap, IInv, TypeOK,
       LocalTypes, FlagTypes, PlacedTypes, OnceTypes, flags, placed, once, local, Located,
       InGap, Releasing, GapSteps, NoGap, GapOwned
  <1>21. CASE Release(t)
    BY <1>21, Indices, Distinct DEF Release, Goto, IInv, TypeOK, LocalTypes, FlagTypes,
       PlacedTypes, OnceTypes, flags, placed, once, local, Located, InGap, Releasing, GapSteps,
       NoGap, GapOwned
  <1>22. CASE MergeRun(t)
    <2>1. taken' = taken \cup {RunOf(reader[t])} /\ reader[t] \in Chunk /\ gapBumps' = gapBumps
            /\ claimed' = claimed
      BY <1>22 DEF MergeRun, once, flags, IInv, TypeOK, LocalTypes
    <2>2. \A g \in GapIx : GapOf(g) \in taken' <=> GapOf(g) \in taken
      BY <2>1, Distinct
    <2>3. \/ pc'[t] = "endTail" /\ gap'[t] = gap[t]
          \/ pc'[t] = "leftDone"
          \/ pc'[t] = "countDown" /\ gap'[t] = gap[t] /\ gap[t] # NoGap
      BY <1>22 DEF MergeRun, Return, NextReader, NextGap, Goto, IInv, TypeOK, LocalTypes
    <2>4. InGap(t)' => InGap(t) /\ gap'[t] = gap[t] /\ pc'[t] \in {"countDown"} \cup Releasing
      BY <1>22, <2>3 DEF MergeRun, InGap, GapSteps, Releasing
    <2>5. \A u \in Threads : u # t => (InGap(u)' <=> InGap(u))
      BY <1>22 DEF InGap, IInv, MergeRun
    <2>6. \A u \in Threads : InGap(u)' => InGap(u) /\ gap'[u] = gap[u] /\ gap[u] \in GapIx
      BY <1>22, <2>4, <2>5 DEF IInv, Located
    <2>7. pc[t] = "merge" /\ (gap[t] # NoGap => GapOf(gap[t]) \in taken)
      BY <1>22 DEF MergeRun, IInv, GapOwned, Releasing
    <2>8. ASSUME NEW u \in Threads
          PROVE  /\ pc'[u] \in GapSteps \ {"mergeGap"} => gap'[u] \notin gapBumps'
                 /\ pc'[u] = "mergeGap" => gap'[u] \in gapBumps' /\ GapOf(gap'[u]) \notin taken'
                 /\ pc'[u] \in {"countDown"} \cup Releasing /\ gap'[u] # NoGap =>
                        GapOf(gap'[u]) \in taken'
      <3>1. CASE u = t
        BY <3>1, <2>1, <2>3, <2>7 DEF GapSteps, Releasing
      <3>2. CASE u # t
        BY <3>2, <1>22, <2>1, <2>2, <2>6, <2>8 DEF IInv, GapOwned, InGap, GapSteps
      <3> QED
        BY <3>1, <3>2
    <2> QED
      BY <2>1, <2>2, <2>6, <2>8 DEF IInv, GapOwned
  <1>23. CASE SetEndTail(t)
    BY <1>23, Indices, Distinct DEF SetEndTail, Goto, Return, NextReader, NextGap, IInv, TypeOK,
       LocalTypes, FlagTypes, PlacedTypes, OnceTypes, flags, placed, once, local, Located,
       InGap, Releasing, GapSteps, NoGap, GapOwned
  <1> QED
    BY <1>1, <1>2, <1>3, <1>4, <1>5, <1>6, <1>7, <1>8, <1>9, <1>10, <1>11, <1>12, <1>13, <1>14,
     <1>15, <1>16, <1>17, <1>18, <1>19, <1>20, <1>21, <1>22, <1>23 DEF Worker

-------------------------------------------------------------------------------
(* The count of readers. *)

\* The gaps still to be counted off are the same after a step that is not a count.
LEMMA CountFrame ==
    ASSUME NEW k \in Chunk, readers' = readers,
           \A g \in GapIx : ToCount(g, k)' <=> ToCount(g, k)
    PROVE  Yet(k - 1, k)' = Yet(k - 1, k) /\ Yet(k, k)' = Yet(k, k)
  BY DEF Yet

\* A worker that does not step owes what it owed.
LEMMA OwesOthers ==
    ASSUME IInv, NEW t \in Threads, Worker(t), ~Panic(t), NEW u \in Threads, u # t,
           NEW g, NEW c
    PROVE  Owes(u, g, c)' <=> Owes(u, g, c)
  BY OthersStay DEF Owes, IInv

\* Worker t owes gap g to chunk c as before, unless it merges a gap or counts one down.
LEMMA OwesOwn ==
    ASSUME IInv, NEW t \in Threads, Worker(t), ~Panic(t), ~MergeGap(t), ~CountDown(t),
           NEW g \in GapIx, NEW c \in {g, g + 1}
    PROVE  Owes(t, g, c)' <=> Owes(t, g, c)
  <1>1. CASE Claim(t)
    BY <1>1 DEF Claim, Goto, IInv, TypeOK, LocalTypes, local, Located, InGap, Releasing,
       GapSteps, NoGap, Owes, GapIx
  <1>2. CASE SettleRun(t)
    BY <1>2 DEF SettleRun, Step, Goto, IInv, TypeOK, LocalTypes, local, Located, InGap,
       Releasing, GapSteps, NoGap, Owes, GapIx
  <1>3. CASE ListBumps(t)
    BY <1>3 DEF ListBumps, Step, Goto, IInv, TypeOK, LocalTypes, local, Located, InGap,
       Releasing, GapSteps, NoGap, Owes, GapIx
  <1>4. CASE DrainLock(t)
    BY <1>4 DEF DrainLock, Step, Goto, IInv, TypeOK, LocalTypes, local, Located, InGap,
       Releasing, GapSteps, NoGap, Owes, GapIx
  <1>5. CASE DrainOne(t)
    BY <1>5 DEF DrainOne, IInv, TypeOK, LocalTypes, local, Located, InGap, Releasing, GapSteps,
       NoGap, Owes, GapIx
  <1>6. CASE DrainEnd(t)
    BY <1>6 DEF DrainEnd, Step, Goto, IInv, TypeOK, LocalTypes, local, Located, InGap,
       Releasing, GapSteps, NoGap, Owes, GapIx
  <1>7. CASE Install(t)
    BY <1>7 DEF Install, Goto, IInv, TypeOK, LocalTypes, local, Located, InGap, Releasing,
       GapSteps, NoGap, Owes, GapIx
  <1>8. CASE SetDone(t)
    BY <1>8 DEF SetDone, Step, Goto, IInv, TypeOK, LocalTypes, local, Located, InGap, Releasing,
       GapSteps, NoGap, Owes, GapIx
  <1>9. CASE LoadReaders(t)
    BY <1>9 DEF LoadReaders, Goto, IInv, TypeOK, LocalTypes, local, Located, InGap, Releasing,
       GapSteps, NoGap, Owes, GapIx
  <1>10. CASE LeaveLoop(t)
    BY <1>10 DEF LeaveLoop, Step, Goto, IInv, TypeOK, LocalTypes, local, Located, InGap,
       Releasing, GapSteps, NoGap, Owes, GapIx
  <1>11. CASE LoadLeftDone(t)
    BY <1>11 DEF LoadLeftDone, Goto, NextGap, IInv, TypeOK, LocalTypes, local, Located, InGap,
       Releasing, GapSteps, NoGap, Owes, GapIx
  <1>12. CASE LoadRightDone(t)
    BY <1>12 DEF LoadRightDone, Goto, NextGap, IInv, TypeOK, LocalTypes, local, Located, InGap,
       Releasing, GapSteps, NoGap, Owes, GapIx
  <1>13. CASE ClaimGap(t)
    BY <1>13 DEF ClaimGap, Goto, NextGap, IInv, TypeOK, LocalTypes, local, Located, InGap,
       Releasing, GapSteps, NoGap, Owes, GapIx
  <1>14. CASE LockLeft(t)
    BY <1>14 DEF LockLeft, LockPiece, Goto, IInv, TypeOK, LocalTypes, local, Located, InGap,
       Releasing, GapSteps, NoGap, Owes, GapIx
  <1>15. CASE LockRight(t)
    BY <1>15 DEF LockRight, LockPiece, Goto, IInv, TypeOK, LocalTypes, local, Located, InGap,
       Releasing, GapSteps, NoGap, Owes, GapIx
  <1>16. CASE PlaceGap(t)
    BY <1>16 DEF PlaceGap, Goto, IInv, TypeOK, LocalTypes, local, Located, InGap, Releasing,
       GapSteps, NoGap, Owes, GapIx
  <1>17. CASE SettleGap(t)
    BY <1>17 DEF SettleGap, Step, Goto, IInv, TypeOK, LocalTypes, local, Located, InGap,
       Releasing, GapSteps, NoGap, Owes, GapIx
  <1>18. CASE ListGap(t)
    BY <1>18 DEF ListGap, Goto, IInv, TypeOK, LocalTypes, local, Located, InGap, Releasing,
       GapSteps, NoGap, Owes, GapIx
  <1>19. CASE Release(t)
    BY <1>19 DEF Release, Goto, IInv, TypeOK, LocalTypes, local, Located, InGap, Releasing,
       GapSteps, NoGap, Owes, GapIx
  <1>20. CASE MergeRun(t)
    BY <1>20 DEF MergeRun, Goto, Return, NextReader, NextGap, IInv, TypeOK, LocalTypes, local,
       Located, InGap, Releasing, GapSteps, NoGap, Owes, GapIx
  <1>21. CASE SetEndTail(t)
    BY <1>21 DEF SetEndTail, Goto, Return, NextReader, NextGap, IInv, TypeOK, LocalTypes, local,
       Located, InGap, Releasing, GapSteps, NoGap, Owes, GapIx
  <1> QED
    BY <1>1, <1>2, <1>3, <1>4, <1>5, <1>6, <1>7, <1>8, <1>9, <1>10, <1>11, <1>12, <1>13, <1>14,
     <1>15, <1>16, <1>17, <1>18, <1>19, <1>20, <1>21 DEF Worker, MergeGap, CountDown

\* Before the gap is in the level's map it is to count, and right after it the worker owes it.
LEMMA MergeGapCount ==
    ASSUME IInv, NEW t \in Threads, MergeGap(t), ~Panic(t), Worker(t), NEW g \in GapIx,
           NEW c \in {g, g + 1}
    PROVE  ToCount(g, c)' <=> ToCount(g, c)
  <1>1. gap[t] \in GapIx /\ GapOf(gap[t]) \notin taken /\ taken' = taken \cup {GapOf(gap[t])}
    BY DEF MergeGap, Step, IInv, Located, InGap, GapSteps, GapOwned
  <1>2. pc'[t] = "countDown" /\ reader'[t] = gap[t] /\ gap'[t] = gap[t]
    BY DEF MergeGap, Step, Goto, IInv, TypeOK, LocalTypes
  <1>3. CASE g = gap[t]
    <2>1. reader'[t] <= c
      BY <1>1, <1>2, <1>3 DEF GapIx
    <2> QED
      BY <1>1, <1>2, <1>3, <2>1 DEF ToCount, Owes
  <1>4. CASE g # gap[t]
    <2>1. GapOf(g) \in taken' <=> GapOf(g) \in taken
      BY <1>1, <1>4, Distinct
    <2>2. \A u \in Threads : Owes(u, g, c)' <=> Owes(u, g, c)
      <3> SUFFICES ASSUME NEW u \in Threads
                   PROVE  Owes(u, g, c)' <=> Owes(u, g, c)
        OBVIOUS
      <3>1. CASE u = t
        BY <1>2, <1>4, <3>1 DEF Owes, MergeGap
      <3>2. CASE u # t
        BY <3>2, OwesOthers
      <3> QED
        BY <3>1, <3>2
    <2> QED
      BY <2>1, <2>2 DEF ToCount
  <1> QED
    BY <1>3, <1>4

\* No step but CountDown changes what is to count.
LEMMA ToCountStays ==
    ASSUME IInv, NEW t \in Threads, Worker(t), ~Panic(t), ~CountDown(t), NEW g \in GapIx,
           NEW c \in {g, g + 1}
    PROVE  ToCount(g, c)' <=> ToCount(g, c)
  <1>1. CASE MergeGap(t)
    BY <1>1, MergeGapCount
  <1>2. CASE ~MergeGap(t)
    <2>1. \A u \in Threads : Owes(u, g, c)' <=> Owes(u, g, c)
      BY <1>2, OwesOthers, OwesOwn
    <2>2. GapOf(g) \in taken' <=> GapOf(g) \in taken
      <3>1. CASE MergeRun(t)
        BY <3>1, Distinct DEF MergeRun, IInv, TypeOK, LocalTypes
      <3>2. CASE UNCHANGED taken
        BY <3>2
      <3> QED
        BY <1>2, <3>1, <3>2 DEF Worker, Claim, SettleRun, ListBumps, DrainLock, DrainOne,
           DrainEnd, Install, SetDone, LoadReaders, LeaveLoop, LoadLeftDone, LoadRightDone,
           ClaimGap, LockLeft, LockRight, LockPiece, PlaceGap, SettleGap, ListGap, CountDown,
           Release, SetEndTail, placed
    <2> QED
      BY <2>1, <2>2 DEF ToCount
  <1> QED
    BY <1>1, <1>2

\* CountDown is in a gap that is placed, at one of the two chunks beside it.
LEMMA CountDownAt ==
    ASSUME IInv, NEW t \in Threads, CountDown(t)
    PROVE  /\ pc[t] = "countDown" /\ gap[t] \in GapIx /\ gap[t] \in Int /\ gap[t] # NoGap
           /\ reader[t] \in {gap[t], gap[t] + 1} /\ GapOf(gap[t]) \in taken
  <1>1. pc[t] = "countDown" /\ gap[t] \in GapIx
    BY DEF CountDown, IInv, Located, InGap
  <1>2. gap[t] \in Int /\ gap[t] # NoGap
    BY <1>1 DEF GapIx, NoGap
  <1> QED
    BY <1>1, <1>2 DEF IInv, Located, GapOwned

\* CountDown takes exactly the gap it is at off the chunk it is at.
LEMMA CountDownCount ==
    ASSUME IInv, NEW t \in Threads, CountDown(t), ~Panic(t), Worker(t), NEW g \in GapIx,
           NEW c \in {g, g + 1}
    PROVE  IF g = gap[t] /\ c = reader[t]
           THEN ToCount(g, c) /\ ~ToCount(g, c)'
           ELSE ToCount(g, c)' <=> ToCount(g, c)
  <1>1. /\ gap[t] \in GapIx /\ reader[t] \in {gap[t], gap[t] + 1} /\ pc[t] = "countDown"
        /\ GapOf(gap[t]) \in taken /\ taken' = taken /\ gap[t] \in Int /\ gap[t] # NoGap
    BY CountDownAt DEF placed, CountDown
  <1>2. \/ pc'[t] = "release" /\ gap'[t] = gap[t] /\ reader'[t] = reader[t]
        \/ pc'[t] = "countDown" /\ gap'[t] = gap[t] /\ reader[t] = gap[t]
             /\ reader'[t] = gap[t] + 1
        \/ pc'[t] = "leftDone" /\ reader[t] # gap[t]
    BY DEF CountDown, NextReader, NextGap, Goto, IInv, TypeOK, LocalTypes
  <1>3. CASE g = gap[t]
    <2>1. \A u \in Threads : u # t => ~Owes(u, g, c) /\ ~Owes(u, g, c)'
      <3> SUFFICES ASSUME NEW u \in Threads, u # t
                   PROVE  ~Owes(u, g, c) /\ ~Owes(u, g, c)'
        OBVIOUS
      <3>1. ~Owes(u, g, c)
        BY <1>1, <1>3 DEF Owes, InGap, IInv, GapOwned
      <3> QED
        BY <3>1, OwesOthers
    <2>2. ToCount(g, c) <=> Owes(t, g, c)
      BY <1>1, <1>3, <2>1 DEF ToCount
    <2>3. ToCount(g, c)' <=> Owes(t, g, c)'
      BY <1>1, <1>3, <2>1 DEF ToCount
    <2>4. Owes(t, g, c) <=> reader[t] <= c
      BY <1>1, <1>3 DEF Owes
    <2>5. Owes(t, g, c)' <=> reader[t] < c
      BY <1>1, <1>2, <1>3 DEF Owes, Releasing, GapIx
    <2>6. reader[t] \in Int /\ c \in Int
      BY <1>1 DEF GapIx
    <2> QED
      BY <1>3, <2>2, <2>3, <2>4, <2>5, <2>6
  <1>4. CASE g # gap[t]
    <2>1. \A u \in Threads : Owes(u, g, c)' <=> Owes(u, g, c)
      <3> SUFFICES ASSUME NEW u \in Threads
                   PROVE  Owes(u, g, c)' <=> Owes(u, g, c)
        OBVIOUS
      <3>1. CASE u = t
        BY <1>1, <1>2, <1>4, <3>1 DEF Owes, Releasing
      <3>2. CASE u # t
        BY <3>2, OwesOthers
      <3> QED
        BY <3>1, <3>2
    <2> QED
      BY <1>1, <1>4, <2>1 DEF ToCount
  <1> QED
    BY <1>3, <1>4

\* The count of a chunk's readers is the number of its gaps still to be counted off.
LEMMA CountedStep ==
    ASSUME IInv, NEW t \in Threads, Worker(t), ~Panic(t)
    PROVE  Counted'
  <1>1. \A k \in Chunk : readers'[k] = Yet(k - 1, k)' + Yet(k, k)'
    <2> SUFFICES ASSUME NEW k \in Chunk
                 PROVE  readers'[k] = Yet(k - 1, k)' + Yet(k, k)'
      OBVIOUS
    <2>1. k \in Int /\ k \in {k - 1, (k - 1) + 1} /\ k \in {k, k + 1}
      BY Indices
    <2>2. readers[k] = Yet(k - 1, k) + Yet(k, k)
      BY DEF IInv, Counted
    <2>3. CASE CountDown(t)
      <3>1. gap[t] \in GapIx /\ reader[t] \in {gap[t], gap[t] + 1} /\ gap[t] \in Int
        BY <2>3, CountDownAt
      <3>2. readers' = [readers EXCEPT ![reader[t]] = @ - 1] /\ readers \in [Chunk -> 0 .. 2]
        BY <2>3 DEF CountDown, IInv, TypeOK, FlagTypes
      <3>3. CASE k # reader[t]
        <4>1. Yet(k - 1, k)' = Yet(k - 1, k) /\ Yet(k, k)' = Yet(k, k)
          BY <2>1, <2>3, <3>3, CountDownCount DEF Yet
        <4> QED
          BY <2>2, <3>2, <3>3, <4>1
      <3>4. CASE k = reader[t] /\ k = gap[t]
        <4>1. Yet(k, k) = 1 /\ Yet(k, k)' = 0
          BY <2>1, <2>3, <3>1, <3>4, CountDownCount DEF Yet
        <4>2. Yet(k - 1, k)' = Yet(k - 1, k) /\ Yet(k - 1, k) \in {0, 1}
          BY <2>1, <2>3, <3>4, CountDownCount DEF Yet
        <4> QED
          BY <2>2, <3>2, <3>4, <4>1, <4>2
      <3>5. CASE k = reader[t] /\ k - 1 = gap[t]
        <4>1. Yet(k - 1, k) = 1 /\ Yet(k - 1, k)' = 0
          BY <2>1, <2>3, <3>1, <3>5, CountDownCount DEF Yet
        <4>2. Yet(k, k)' = Yet(k, k) /\ Yet(k, k) \in {0, 1}
          BY <2>1, <2>3, <3>5, CountDownCount DEF Yet
        <4> QED
          BY <2>2, <3>2, <3>5, <4>1, <4>2
      <3> QED
        BY <2>1, <3>1, <3>3, <3>4, <3>5
    <2>4. CASE ~CountDown(t)
      <3>1. readers' = readers
        BY <2>4 DEF Worker, Claim, SettleRun, ListBumps, DrainLock, DrainOne, DrainEnd, Install,
           SetDone, LoadReaders, LeaveLoop, LoadLeftDone, LoadRightDone, ClaimGap, LockLeft,
           LockRight, LockPiece, PlaceGap, SettleGap, ListGap, MergeGap, Release, MergeRun,
           SetEndTail, flags
      <3>2. Yet(k - 1, k)' = Yet(k - 1, k) /\ Yet(k, k)' = Yet(k, k)
        BY <2>1, <2>4, ToCountStays DEF Yet
      <3> QED
        BY <2>2, <3>1, <3>2
    <2> QED
      BY <2>3, <2>4
  <1>2. \A k \in Chunk : pieces'[k] = "taken" => readers'[k] = 0
    <2> SUFFICES ASSUME NEW k \in Chunk, pieces'[k] = "taken"
                 PROVE  readers'[k] = 0
      OBVIOUS
    <2>1. readers[k] = 0
      <3>1. CASE Release(t)
        BY <3>1 DEF Release, IInv, Knows, Releasing, Counted, TypeOK, SlotTypes
      <3>2. CASE Install(t)
        BY <3>2 DEF Install, IInv, Counted, TypeOK, SlotTypes
      <3>3. CASE UNCHANGED pieces
        BY <3>3 DEF IInv, Counted
      <3> QED
        BY <3>1, <3>2, <3>3 DEF Worker, Claim, SettleRun, ListBumps, DrainLock, DrainOne,
           DrainEnd, SetDone, LoadReaders, LeaveLoop, LoadLeftDone, LoadRightDone, ClaimGap,
           LockLeft, LockRight, LockPiece, PlaceGap, SettleGap, ListGap, MergeGap, CountDown,
           MergeRun, SetEndTail, slots
    <2> QED
      BY <2>1, Monotone
  <1>3. \A k \in Chunk : done'[k] => pieces'[k] # "none"
    <2> SUFFICES ASSUME NEW k \in Chunk, done'[k]
                 PROVE  pieces'[k] # "none"
      OBVIOUS
    <2>1. pieces[k] # "none"
      <3>1. CASE SetDone(t)
        BY <3>1 DEF SetDone, Step, IInv, Knows, Counted, TypeOK, FlagTypes
      <3>2. CASE UNCHANGED done
        BY <3>2 DEF IInv, Counted
      <3> QED
        BY <3>1, <3>2 DEF Worker, Claim, SettleRun, ListBumps, DrainLock, DrainOne,
           DrainEnd, Install, LoadReaders, LeaveLoop, LoadLeftDone, LoadRightDone, ClaimGap,
           LockLeft, LockRight, LockPiece, PlaceGap, SettleGap, ListGap, MergeGap, CountDown,
           Release, MergeRun, SetEndTail, flags
    <2> QED
      BY <2>1, Monotone
  <1> QED
    BY <1>1, <1>2, <1>3 DEF Counted

-------------------------------------------------------------------------------
(* A panic leaves the shared state alone, but for the guards the worker held. *)

\* The labels at which a worker can panic.
LEMMA PanicAt ==
    ASSUME IInv, NEW t \in Threads, Worker(t), Panic(t)
    PROVE  pc[t] \in {"install", "release", "endTail"} \cup (GapSteps \ {"mergeGap"})
  <1>1. pc'[t] = "panicked"
    BY DEF Panic, Goto, IInv, TypeOK, LocalTypes
  <1> USE <1>1 DEF IInv, TypeOK, LocalTypes, GapSteps
  <1>2. CASE Claim(t)
    BY <1>2 DEF Claim, Goto
  <1>3. CASE SettleRun(t)
    BY <1>3 DEF SettleRun, Step, Goto
  <1>4. CASE ListBumps(t)
    BY <1>4 DEF ListBumps, Step, Goto
  <1>5. CASE DrainLock(t)
    BY <1>5 DEF DrainLock, Step, Goto
  <1>6. CASE DrainOne(t)
    BY <1>6 DEF DrainOne, local
  <1>7. CASE DrainEnd(t)
    BY <1>7 DEF DrainEnd, Step, Goto
  <1>8. CASE Install(t)
    BY <1>8 DEF Install, Goto
  <1>9. CASE SetDone(t)
    BY <1>9 DEF SetDone, Step, Goto
  <1>10. CASE LoadReaders(t)
    BY <1>10 DEF LoadReaders, Goto
  <1>11. CASE LeaveLoop(t)
    BY <1>11 DEF LeaveLoop, Step, Goto
  <1>12. CASE LoadLeftDone(t)
    BY <1>12 DEF LoadLeftDone, Goto, NextGap
  <1>13. CASE LoadRightDone(t)
    BY <1>13 DEF LoadRightDone, Goto, NextGap
  <1>14. CASE ClaimGap(t)
    BY <1>14 DEF ClaimGap, Goto, NextGap
  <1>15. CASE LockLeft(t)
    BY <1>15 DEF LockLeft, Goto
  <1>16. CASE LockRight(t)
    BY <1>16 DEF LockRight, Goto
  <1>17. CASE PlaceGap(t)
    BY <1>17 DEF PlaceGap, Goto
  <1>18. CASE SettleGap(t)
    BY <1>18 DEF SettleGap, Step, Goto
  <1>19. CASE ListGap(t)
    BY <1>19 DEF ListGap, Goto
  <1>20. CASE MergeGap(t)
    BY <1>20 DEF MergeGap, Step, Goto
  <1>21. CASE CountDown(t)
    BY <1>21 DEF CountDown, Goto, NextReader, NextGap
  <1>22. CASE Release(t)
    BY <1>22 DEF Release, Goto
  <1>23. CASE MergeRun(t)
    BY <1>23 DEF MergeRun, Goto, Return, NextReader, NextGap
  <1>24. CASE SetEndTail(t)
    BY <1>24 DEF SetEndTail, Goto, Return, NextReader, NextGap
  <1> QED
    BY <1>2, <1>3, <1>4, <1>5, <1>6, <1>7, <1>8, <1>9, <1>10, <1>11, <1>12, <1>13, <1>14, <1>15,
     <1>16, <1>17, <1>18, <1>19, <1>20, <1>21, <1>22, <1>23, <1>24 DEF Worker

\* A panic keeps the invariant: it poisons what the worker held and frees nobody's gap.
LEMMA PanicStep ==
    ASSUME IInv, NEW t \in Threads, Worker(t), Panic(t)
    PROVE  IInv'
  <1>1. pc[t] \in {"install", "release", "endTail"} \cup (GapSteps \ {"mergeGap"})
    BY PanicAt
  <1>2. /\ pc' = [pc EXCEPT ![t] = "panicked"]
        /\ UNCHANGED <<next, chunk, gap, reader, found, pieces, listing, once, flags, placed, main>>
    BY DEF Panic, Goto
  <1>3. pc'[t] = "panicked" /\ \A u \in Threads : u # t => pc'[u] = pc[u]
    BY <1>2 DEF IInv, TypeOK, LocalTypes
  <1>4. TypeOK'
    <2>1. LocalTypes'
      BY <1>2 DEF IInv, TypeOK, LocalTypes, PCs, Ended
    <2>2. SlotTypes'
      BY <1>2 DEF Panic, Held, IInv, TypeOK, SlotTypes
    <2> QED
      BY <1>2, <2>1, <2>2, ListFrame, OnceFrame, FlagFrame, PlacedFrame DEF IInv, TypeOK
  <1>5. \A u \in Threads : InGap(u)' <=> InGap(u)
    <2>1. InGap(t)' <=> gap[t] # NoGap
      BY <1>2, <1>3 DEF InGap, GapSteps
    <2>2. ASSUME pc[t] \in GapSteps
          PROVE  InGap(t)' <=> InGap(t)
      <3>1. InGap(t) /\ gap[t] \in GapIx
        BY <2>2 DEF InGap, IInv, Located
      <3> QED
        BY <2>1, <3>1, NoGapIsNone
    <2>3. ASSUME pc[t] = "install"
          PROVE  InGap(t)' <=> InGap(t)
      BY <2>1, <2>3 DEF InGap, IInv, Located, GapSteps, Releasing
    <2>4. ASSUME pc[t] \in {"release", "endTail"}
          PROVE  InGap(t)' <=> InGap(t)
      BY <2>1, <2>4 DEF InGap, GapSteps, Releasing
    <2>5. InGap(t)' <=> InGap(t)
      BY <1>1, <2>2, <2>3, <2>4
    <2> QED
      BY <1>2, <1>3, <2>5 DEF InGap
  <1>6. \A u \in Threads : Located(u)'
    BY <1>2, <1>3, <1>5 DEF IInv, Located, GapSteps, Releasing
  <1>7. \A u \in Threads : Knows(u)'
    BY <1>2, <1>3, <1>5 DEF IInv, Knows, GapSteps, Releasing, flags
  <1>8. GapOwned'
    BY <1>2, <1>3, <1>5 DEF IInv, GapOwned, GapSteps, Releasing, flags, placed, once
  <1>9. Counted'
    <2>1. ASSUME NEW g \in GapIx, NEW c
          PROVE  ToCount(g, c)' <=> ToCount(g, c)
      <3>1. \A u \in Threads : u # t => (Owes(u, g, c)' <=> Owes(u, g, c))
        BY <1>2, <1>3 DEF Owes
      <3>2. CASE pc[t] \in Releasing
        <4>1. Owes(t, g, c)' <=> Owes(t, g, c)
          BY <1>2, <1>3, <3>2 DEF Owes, Releasing
        <4> QED
          BY <1>2, <3>1, <4>1 DEF ToCount, placed
      <3>3. CASE pc[t] = "install"
        <4>1. gap[t] # g
          BY <3>3, NoGapIsNone DEF IInv, Located
        <4>2. Owes(t, g, c)' <=> Owes(t, g, c)
          BY <1>2, <4>1 DEF Owes
        <4> QED
          BY <1>2, <3>1, <4>2 DEF ToCount, placed
      <3>4. CASE pc[t] \in GapSteps \ {"mergeGap"}
        <4>1. gap[t] \in GapIx /\ GapOf(gap[t]) \notin taken
          BY <3>4 DEF IInv, Located, InGap, GapOwned
        <4>2. CASE g = gap[t]
          BY <1>2, <4>1, <4>2 DEF ToCount, placed
        <4>3. CASE g # gap[t]
          BY <1>2, <3>1, <4>3 DEF ToCount, Owes, placed
        <4> QED
          BY <4>2, <4>3
      <3> QED
        BY <1>1, <3>2, <3>3, <3>4 DEF Releasing
    <2>2. \A k \in Chunk : readers'[k] = Yet(k - 1, k)' + Yet(k, k)'
      <3> SUFFICES ASSUME NEW k \in Chunk
                   PROVE  readers'[k] = Yet(k - 1, k)' + Yet(k, k)'
        OBVIOUS
      <3>1. Yet(k - 1, k)' = Yet(k - 1, k) /\ Yet(k, k)' = Yet(k, k)
        BY <2>1 DEF Yet
      <3> QED
        BY <1>2, <3>1 DEF IInv, Counted, flags
    <2> QED
      BY <1>2, <2>2 DEF IInv, Counted, flags
  <1> QED
    BY <1>4, <1>6, <1>7, <1>8, <1>9 DEF IInv

-------------------------------------------------------------------------------
(* The induction. *)

\* Every step of a worker keeps the invariant.
LEMMA WorkerStep ==
    ASSUME IInv, NEW t \in Threads, Worker(t)
    PROVE  IInv'
  <1>1. CASE Panic(t)
    BY <1>1, PanicStep
  <1>2. CASE ~Panic(t)
    <2>1. TypeOK'
      <3>1. next' \in Nat
        BY DEF IInv, TypeOK, Worker, Claim, SettleRun, ListBumps, DrainLock, DrainOne, DrainEnd,
           Install, Panic, SetDone, LoadReaders, LeaveLoop, LoadLeftDone, LoadRightDone, ClaimGap,
           LockLeft, LockRight, LockPiece, PlaceGap, SettleGap, ListGap, MergeGap, CountDown,
           Release, MergeRun, SetEndTail
      <3>2. main' = main
        BY <1>2 DEF IInv, TypeOK, Worker, Claim, SettleRun, ListBumps, DrainLock, DrainOne, DrainEnd,
           Install, SetDone, LoadReaders, LeaveLoop, LoadLeftDone, LoadRightDone, ClaimGap,
           LockLeft, LockRight, LockPiece, PlaceGap, SettleGap, ListGap, MergeGap, CountDown,
           Release, MergeRun, SetEndTail
      <3> QED
        BY <1>2, <3>1, <3>2, LocalStep, SlotStep, ListStep, OnceStep, FlagStep, PlacedStep
           DEF IInv, TypeOK
    <2>2. \A u \in Threads : Located(u)'
      BY <1>2, LocatedOwn, LocatedFrame, OthersStay DEF IInv
    <2>3. \A u \in Threads : Knows(u)'
      BY <1>2, KnowsOwn, KnowsFrame, OthersStay, Monotone DEF IInv
    <2> QED
      BY <1>2, <2>1, <2>2, <2>3, OwnedStep, CountedStep DEF IInv
  <1> QED
    BY <1>1, <1>2

\* Once the workers are joined only the level's list, seeds and map change: the latter two at the
\* end gap, which is no gap between chunks.
LEMMA MainStep ==
    ASSUME IInv, Join \/ PlaceEndGap
    PROVE  IInv'
  <1>1. UNCHANGED <<next, local, slots, bumps, drained, drainLock, once, flags>>
    BY DEF Join, PlaceEndGap, listing
  <1>2. \A g \in GapIx : GapOf(g) \in taken' <=> GapOf(g) \in taken
    BY Distinct DEF Join, PlaceEndGap, placed
  <1>3. TypeOK'
    <2>1. ListTypes'
      <3>1. CASE Join
        BY <3>1, ListFrame DEF Join, IInv, TypeOK
      <3>2. CASE PlaceEndGap
        <4>1. \A i \in 1 .. Chunks : GapOf(i - 1) \in Pieces
          BY ChunksAssumption DEF GapOf, Pieces
        <4>2. [i \in 1 .. Chunks |-> GapOf(i - 1)] \in Seq(Pieces)
          BY <4>1, ChunksAssumption
        <4>3. bumped' \in Seq(Pieces)
          BY <3>2, <4>2 DEF PlaceEndGap, IInv, TypeOK, ListTypes
        <4> QED
          BY <1>1, <4>3 DEF IInv, TypeOK, ListTypes
      <3> QED
        BY <3>1, <3>2
    <2>2. PlacedTypes'
      BY Indices DEF Join, PlaceEndGap, placed, IInv, TypeOK, PlacedTypes
    <2>3. main' \in {"scope", "endGap", "returned", "panicked"}
      BY DEF Join, PlaceEndGap
    <2> QED
      BY <1>1, <2>1, <2>2, <2>3, LocalFrame, SlotFrame, OnceFrame, FlagFrame DEF IInv, TypeOK
  <1>4. UNCHANGED <<pc, chunk, gap, reader, pieces, gapBumps, done, claimed, readers>>
    BY <1>1 DEF local, slots, once, flags
  <1>5. \A u \in Threads : Located(u)' /\ Knows(u)'
    BY <1>4 DEF IInv, Located, Knows, InGap
  <1>6. GapOwned'
    BY <1>2, <1>4 DEF IInv, GapOwned, InGap, Located, GapSteps, Releasing
  <1>7. \A g \in GapIx, c \in Chunk : ToCount(g, c)' <=> ToCount(g, c)
    BY <1>2, <1>4 DEF ToCount, Owes
  <1>8. Counted'
    BY <1>4, <1>7 DEF IInv, Counted, Yet
  <1> QED
    BY <1>3, <1>5, <1>6, <1>8 DEF IInv

\* The invariant holds before any chunk is claimed.
LEMMA InitIInv == Init => IInv
  <1> SUFFICES ASSUME Init
               PROVE  IInv
    OBVIOUS
  <1>1. TypeOK
    <2>1. LocalTypes /\ SlotTypes /\ PlacedTypes
      BY ChunksAssumption DEF Init, LocalTypes, SlotTypes, PlacedTypes, PCs, Chunk, NoGap
    <2>2. ListTypes /\ OnceTypes
      <3>1. <<>> \in Seq(Pieces) /\ 0 \in 0 .. Chunks
        BY ChunksAssumption
      <3> QED
        BY <3>1 DEF Init, ListTypes, OnceTypes
    <2>3. \A k \in Chunk : InitialReaders(k) \in 0 .. 2
      BY DEF InitialReaders
    <2>4. FlagTypes
      BY <2>3 DEF Init, FlagTypes
    <2> QED
      BY <2>1, <2>2, <2>4 DEF Init, TypeOK
  <1>2. \A t \in Threads : ~InGap(t) /\ Located(t) /\ Knows(t)
    BY DEF Init, InGap, Located, Knows, GapSteps, Releasing, NoGap
  <1>3. GapOwned
    BY <1>2 DEF Init, GapOwned, GapSteps, Releasing
  <1>4. Counted
    <2>1. \A k \in Chunk : readers[k] = Yet(k - 1, k) + Yet(k, k)
      BY ChunksAssumption DEF Init, InitialReaders, Yet, ToCount, Chunk, GapIx
    <2> QED
      BY <2>1 DEF Init, Counted
  <1> QED
    BY <1>1, <1>2, <1>3, <1>4 DEF IInv

\* Every step, and a stutter, keeps the invariant.
LEMMA InductiveStep == ASSUME IInv, [Next]_vars PROVE IInv'
  <1>1. CASE \E t \in Threads : Worker(t)
    BY <1>1, WorkerStep
  <1>2. CASE Join \/ PlaceEndGap
    BY <1>2, MainStep
  <1>3. CASE UNCHANGED vars
    <2>1. UNCHANGED <<next, local, slots, listing, once, flags, placed, main>>
      BY <1>3 DEF vars
    <2>2. UNCHANGED <<pc, chunk, gap, reader, pieces, gapBumps, done, claimed, readers, taken>>
      BY <2>1 DEF local, slots, once, flags, placed
    <2>3. TypeOK'
      BY <2>1, LocalFrame, SlotFrame, ListFrame, OnceFrame, FlagFrame, PlacedFrame
         DEF IInv, TypeOK
    <2>4. \A u \in Threads : Located(u)' /\ Knows(u)'
      BY <2>2 DEF IInv, Located, Knows, InGap
    <2>5. GapOwned'
      BY <2>2 DEF IInv, GapOwned, InGap
    <2>6. Counted'
      BY <2>2 DEF IInv, Counted, Yet, ToCount, Owes
    <2> QED
      BY <2>3, <2>4, <2>5, <2>6 DEF IInv
  <1> QED
    BY <1>1, <1>2, <1>3 DEF Next, Finished

\* The inductive invariant holds of every number of chunks and workers.
THEOREM Inductive == Spec => []IInv
  BY InitIInv, InductiveStep, PTL DEF Spec

\* Type correctness: in particular a chunk's readers never drop below zero, however many gaps are
\* counted off in whatever order.
THEOREM TypeCorrect == Spec => []TypeOK
  <1>1. IInv => TypeOK
    BY DEF IInv
  <1> QED
    BY <1>1, Inductive, PTL

\* The swap of claimed[g] gives every gap one placer: the assert "a gap is placed once" cannot fail.
THEOREM GapsPlacedOnce == Spec => []GapPlacedOnce
  <1>1. IInv => GapPlacedOnce
    BY DEF IInv, GapOwned, GapPlacedOnce, InGap, GapSteps
  <1> QED
    BY <1>1, Inductive, PTL

\* The count of readers keeps a chunk's map in its slot until the gaps on both sides are in the
\* level's map, so that the expect "done follows set" cannot fail.
THEOREM MapsKept == Spec => []KeptForReaders
  <1>1. ASSUME IInv
        PROVE  KeptForReaders
    <2>1. \A k \in Chunk : pieces[k] = "taken" =>
              \A g \in {k - 1, k} \cap GapIx : GapOf(g) \in taken
      <3> SUFFICES ASSUME NEW k \in Chunk, pieces[k] = "taken", NEW g \in {k - 1, k} \cap GapIx
                   PROVE  GapOf(g) \in taken
        OBVIOUS
      <3>1. Yet(k - 1, k) + Yet(k, k) = 0
        BY <1>1 DEF IInv, Counted
      <3>2. Yet(k - 1, k) \in {0, 1} /\ Yet(k, k) \in {0, 1}
        BY DEF Yet
      <3>3. Yet(g, k) = 0
        BY <3>1, <3>2
      <3> QED
        BY <3>3 DEF Yet, ToCount
    <2>2. ASSUME NEW t \in Threads, pc[t] = "place", NEW c \in {gap[t], gap[t] + 1}
          PROVE  pieces[c] = "set"
      <3>1. gap[t] \in GapIx /\ GapOf(gap[t]) \notin taken /\ done[c]
        <4>1. InGap(t) /\ pc[t] \in GapSteps \ {"mergeGap"}
          BY <2>2 DEF InGap, GapSteps
        <4>2. gap[t] \in GapIx /\ done[c]
          BY <1>1, <2>2, <4>1 DEF IInv, Located, Knows
        <4> QED
          BY <1>1, <4>1, <4>2 DEF IInv, GapOwned
      <3>2. c \in Chunk /\ gap[t] \in {c - 1, c}
        BY <3>1, Indices DEF GapIx
      <3>3. pieces[c] # "none" /\ pieces[c] # "taken"
        BY <1>1, <2>1, <3>1, <3>2 DEF IInv, Counted
      <3> QED
        BY <1>1, <3>2, <3>3 DEF IInv, TypeOK, SlotTypes
    <2> QED
      BY <2>1, <2>2 DEF KeptForReaders
  <1> QED
    BY <1>1, Inductive, PTL

-------------------------------------------------------------------------------

\* Two chunks have two runs.
LEMMA RunsDiffer ==
    /\ \A j, k \in Chunk : RunOf(j) = RunOf(k) => j = k
    /\ \A k \in Chunk : RunOf(k) # EndGap
  BY ChunksAssumption DEF Chunk, RunOf, EndGap

-------------------------------------------------------------------------------
(* The steps of a worker. *)

\* The one action a worker can take at a label of the chunk's part, or two of the list's loop.
LEMMA Acts ==
    ASSUME NEW t \in Threads, Worker(t)
    PROVE  /\ pc[t] = "claim" => Claim(t)
           /\ pc[t] = "settle" => SettleRun(t)
           /\ pc[t] = "list" => ListBumps(t)
           /\ pc[t] = "drain" => DrainLock(t)
           /\ pc[t] = "draining" => DrainOne(t) \/ DrainEnd(t)
           /\ pc[t] = "install" => Install(t)
           /\ pc[t] = "done" => SetDone(t)
           /\ pc[t] = "alone" => LoadReaders(t)
           /\ pc[t] = "leftDone" => LeaveLoop(t) \/ LoadLeftDone(t)
           /\ pc[t] = "rightDone" => LoadRightDone(t)
           /\ pc[t] = "swap" => ClaimGap(t)
           /\ pc[t] = "lockLeft" => LockLeft(t)
           /\ pc[t] = "lockRight" => LockRight(t)
           /\ pc[t] = "place" => PlaceGap(t)
           /\ pc[t] = "settleGap" => SettleGap(t)
           /\ pc[t] = "listGap" => ListGap(t)
           /\ pc[t] = "mergeGap" => MergeGap(t)
           /\ pc[t] = "countDown" => CountDown(t)
           /\ pc[t] = "release" => Release(t)
           /\ pc[t] = "merge" => MergeRun(t)
           /\ pc[t] = "endTail" => SetEndTail(t)
           /\ pc[t] \notin {"exited", "panicked"}
  BY DEF Worker, Claim, SettleRun, ListBumps, DrainLock, DrainOne, DrainEnd, Install, SetDone,
     LoadReaders, LeaveLoop, LoadLeftDone, LoadRightDone, ClaimGap, LockLeft, LockRight, PlaceGap,
     SettleGap, ListGap, MergeGap, CountDown, Release, MergeRun, SetEndTail, Step

\* Where each action of a worker that does not panic goes on.
LEMMA Goes ==
    ASSUME TypeOK, NEW t \in Threads, ~Panic(t)
    PROVE  /\ Claim(t) => pc'[t] \in {"settle", "exited"}
           /\ SettleRun(t) => pc'[t] = "list"
           /\ ListBumps(t) => pc'[t] = "drain"
           /\ DrainLock(t) => pc'[t] = "draining"
           /\ DrainOne(t) => pc'[t] = "draining"
           /\ DrainEnd(t) => pc'[t] = "install"
           /\ Install(t) => pc'[t] = "done"
           /\ SetDone(t) => pc'[t] = "alone"
           /\ LoadReaders(t) => pc'[t] \in {"release", "leftDone"}
           /\ LeaveLoop(t) => pc'[t] = "claim"
           /\ LoadLeftDone(t) => pc'[t] \in {"rightDone", "leftDone"}
           /\ LoadRightDone(t) => pc'[t] \in {"swap", "leftDone"}
           /\ ClaimGap(t) => pc'[t] \in {"lockLeft", "leftDone"}
           /\ LockLeft(t) => pc'[t] = "lockRight"
           /\ LockRight(t) => pc'[t] = "place"
           /\ PlaceGap(t) => pc'[t] = "settleGap"
           /\ SettleGap(t) => pc'[t] = "listGap"
           /\ ListGap(t) => pc'[t] = "mergeGap"
           /\ MergeGap(t) => pc'[t] = "countDown"
           /\ CountDown(t) => pc'[t] \in {"release", "countDown", "leftDone"}
           /\ Release(t) => pc'[t] \in {"merge", "panicked"}
           /\ MergeRun(t) => pc'[t] \in {"endTail", "countDown", "leftDone"}
           /\ SetEndTail(t) => pc'[t] \in {"countDown", "leftDone"}
  BY DEF Claim, SettleRun, ListBumps, DrainLock, DrainOne, DrainEnd, Install, SetDone,
     LoadReaders, LeaveLoop, LoadLeftDone, LoadRightDone, ClaimGap, LockLeft, LockRight, PlaceGap,
     SettleGap, ListGap, MergeGap, CountDown, Release, MergeRun, SetEndTail, Step, Goto, NextGap,
     NextReader, Return, LockPiece, TypeOK, LocalTypes, local

\* The actions that lead to each label of a worker that goes on.
LEMMA Arrives ==
    ASSUME IInv, NEW t \in Threads, Worker(t), ~Panic(t)
    PROVE  /\ pc'[t] = "claim" => LeaveLoop(t)
           /\ pc'[t] = "settle" => Claim(t)
           /\ pc'[t] = "list" => SettleRun(t)
           /\ pc'[t] = "drain" => ListBumps(t)
           /\ pc'[t] = "draining" => DrainLock(t) \/ DrainOne(t)
           /\ pc'[t] = "install" => DrainEnd(t)
           /\ pc'[t] = "done" => Install(t)
           /\ pc'[t] = "alone" => SetDone(t)
           /\ pc'[t] = "rightDone" => LoadLeftDone(t)
           /\ pc'[t] = "swap" => LoadRightDone(t)
           /\ pc'[t] = "lockLeft" => ClaimGap(t)
           /\ pc'[t] = "lockRight" => LockLeft(t)
           /\ pc'[t] = "place" => LockRight(t)
           /\ pc'[t] = "settleGap" => PlaceGap(t)
           /\ pc'[t] = "listGap" => SettleGap(t)
           /\ pc'[t] = "mergeGap" => ListGap(t)
           /\ pc'[t] = "release" => LoadReaders(t) \/ CountDown(t)
           /\ pc'[t] = "merge" => Release(t)
           /\ pc'[t] = "endTail" => MergeRun(t)
           /\ pc'[t] = "exited" => Claim(t)
           /\ pc'[t] = "panicked" => Release(t)
  BY Goes DEF Worker, IInv

\* The actions that change each variable; a worker never moves the spawning thread.
LEMMA Changes ==
    ASSUME NEW t \in Threads, Worker(t), ~Panic(t)
    PROVE  /\ <<next, chunk>>' # <<next, chunk>> => Claim(t)
           /\ found' # found => PlaceGap(t)
           /\ pieces' # pieces => Install(t) \/ Release(t)
           /\ bumps' # bumps => ListBumps(t) \/ DrainOne(t)
           /\ <<bumped, drained>>' # <<bumped, drained>> => DrainOne(t)
           /\ gapBumps' # gapBumps => ListGap(t)
           /\ endTail' # endTail => SetEndTail(t)
           /\ done' # done => SetDone(t)
           /\ claimed' # claimed => ClaimGap(t)
           /\ readers' # readers => CountDown(t)
           /\ seeds' # seeds => SettleRun(t) \/ SettleGap(t)
           /\ taken' # taken => MergeGap(t) \/ MergeRun(t)
           /\ main' = main
  BY DEF Worker, Claim, SettleRun, ListBumps, DrainLock, DrainOne, DrainEnd, Install, SetDone,
     LoadReaders, LeaveLoop, LoadLeftDone, LoadRightDone, ClaimGap, LockLeft, LockRight, PlaceGap,
     SettleGap, ListGap, MergeGap, CountDown, Release, MergeRun, SetEndTail, Step, Goto, NextGap,
     NextReader, Return, LockPiece, local, slots, listing, once, flags, placed

-------------------------------------------------------------------------------
(* A step of a worker that does not panic, one lemma per conjunct of LInv. *)

\* A worker's labels are labels, and its chunk is a chunk.
LEMMA Typed ==
    ASSUME IInv, NEW t \in Threads
    PROVE  /\ pc[t] \in PCs /\ chunk[t] \in Chunk /\ gap[t] \in Int /\ reader[t] \in Chunk
           /\ next \in Nat /\ \A k \in Chunk : k \in Int
  BY DEF IInv, TypeOK, LocalTypes, Chunk

\* A worker takes a chunk no other has been given.
LEMMA ChunkOwnedStep ==
    ASSUME IInv, ChunkOwned, RunsFollow, NEW t \in Threads, Worker(t), ~Panic(t)
    PROVE  ChunkOwned'
  <1>0. \A u \in Threads \ {t} : pc'[u] = pc[u] /\ chunk'[u] = chunk[u]
    BY OthersStay DEF IInv
  <1>1. CASE Claim(t)
    <2>1. \/ pc'[t] = "settle" /\ chunk'[t] = next /\ next \in Chunk
          \/ pc'[t] = "exited"
      BY <1>1, Indices DEF Claim, Goto, IInv, TypeOK, LocalTypes
    <2>2. next' = next + 1 /\ next \in Nat /\ done' = done
      BY <1>1 DEF Claim, IInv, TypeOK, flags
    <2>3. next \in Chunk => ~done[next]
      BY <2>2 DEF RunsFollow
    <2> QED
      BY <1>0, <2>1, <2>2, <2>3, Typed DEF ChunkOwned, Seeding
  <1>2. CASE SetDone(t)
    <2>1. pc[t] = "done" /\ pc'[t] = "alone" /\ UNCHANGED <<next, chunk>>
      BY <1>2, Goes DEF SetDone, Step, IInv
    <2>2. \A k \in Chunk \ {chunk[t]} : done'[k] = done[k]
      BY <1>2 DEF SetDone, IInv, TypeOK, FlagTypes
    <2> QED
      BY <1>0, <2>1, <2>2, Typed DEF ChunkOwned, Seeding
  <1>3. CASE ~Claim(t) /\ ~SetDone(t)
    <2>1. next' = next /\ chunk' = chunk /\ done' = done
      BY <1>3, Changes
    <2>2. pc'[t] \in Seeding => pc[t] \in Seeding
      <3>1. pc'[t] \in Seeding => \/ SettleRun(t) \/ ListBumps(t) \/ DrainLock(t) \/ DrainOne(t)
                                  \/ DrainEnd(t) \/ Install(t)
        BY <1>3, Arrives DEF Seeding
      <3> QED
        BY <3>1 DEF Seeding, SettleRun, ListBumps, DrainLock, DrainOne, DrainEnd, Install, Step
    <2> QED
      BY <1>0, <2>1, <2>2 DEF ChunkOwned
  <1> QED
    BY <1>1, <1>2, <1>3

\* The runs are seeded one by one.
LEMMA RunsFollowStep ==
    ASSUME IInv, ChunkOwned, RunsFollow, NEW t \in Threads, Worker(t), ~Panic(t)
    PROVE  RunsFollow'
  <1>0. \A u \in Threads \ {t} : pc'[u] = pc[u] /\ chunk'[u] = chunk[u]
    BY OthersStay DEF IInv
  <1>1. CASE Claim(t)
    <2>1. UNCHANGED <<bumps, done, seeds, pieces>>
      BY <1>1 DEF Claim, listing, flags, placed, slots
    <2>2. \/ pc'[t] = "settle" /\ chunk'[t] = next /\ next \in Chunk
          \/ pc'[t] = "exited"
      BY <1>1, Indices, Typed DEF Claim, Goto, IInv, TypeOK, LocalTypes
    <2>3. \A k \in Chunk : (k >= next' => k >= next) /\ (k < next => k < next')
      BY <1>1, Typed DEF Claim
    <2>4. \A u \in Threads \ {t} : pc[u] \in Seeding => chunk[u] \in Chunk
      BY Typed
    <2>5. next \in Chunk => seeds[RunOf(next)] = Unplaced /\ bumps[next] = "none"
      BY Typed DEF RunsFollow
    <2> QED
      BY <1>0, <2>1, <2>2, <2>3, <2>4, <2>5 DEF RunsFollow, Seeding
  <1>2. CASE SettleRun(t)
    <2>1. pc[t] = "settle" /\ pc'[t] = "list" /\ UNCHANGED <<next, chunk, bumps, done, pieces>>
      BY <1>2 DEF SettleRun, Step, Goto, listing, flags, slots, IInv, TypeOK, LocalTypes
    <2>2. /\ chunk[t] \in Chunk
          /\ seeds'[RunOf(chunk[t])] = {}
          /\ \A k \in Chunk \ {chunk[t]} : seeds'[RunOf(k)] = seeds[RunOf(k)]
      BY <1>2, Indices, Typed, RunsDiffer DEF SettleRun, IInv, TypeOK, PlacedTypes
    <2>3. \A u \in Threads \ {t} : chunk[u] \in Chunk /\ (pc[u] \in Seeding => chunk[u] # chunk[t])
      BY <2>1, Typed DEF ChunkOwned, Seeding
    <2>4. chunk[t] < next
      BY <2>1 DEF ChunkOwned, Seeding
    <2> QED
      BY <1>0, <2>1, <2>2, <2>3, <2>4, Typed DEF RunsFollow, Seeding
  <1>3. CASE ListBumps(t)
    <2>1. /\ pc[t] = "list" /\ pc'[t] = "drain" /\ UNCHANGED <<next, chunk, seeds, done, pieces>>
          /\ chunk[t] \in Chunk /\ bumps' = [bumps EXCEPT ![chunk[t]] = "some"]
      BY <1>3, Typed DEF ListBumps, Step, Goto, placed, flags, slots, IInv, TypeOK, LocalTypes
    <2>2. \A k \in Chunk \ {chunk[t]} : bumps'[k] = bumps[k]
      BY <2>1 DEF IInv, TypeOK, ListTypes
    <2>3. \A u \in Threads \ {t} : chunk[u] \in Chunk /\ (pc[u] \in Seeding => chunk[u] # chunk[t])
      BY <2>1, Typed DEF ChunkOwned, Seeding
    <2>4. chunk[t] < next
      BY <2>1 DEF ChunkOwned, Seeding
    <2> QED
      BY <1>0, <2>1, <2>2, <2>3, <2>4, Typed DEF RunsFollow, Seeding
  <1>4. CASE DrainOne(t)
    <2>1. /\ UNCHANGED <<next, local, seeds, done, pieces>>
          /\ drained \in Nat /\ bumps[drained] = "some"
          /\ \A k \in Chunk : bumps'[k] = bumps[k] \/ bumps[k] = "some"
      BY <1>4 DEF DrainOne, placed, flags, slots, IInv, TypeOK, ListTypes
    <2> QED
      BY <2>1, Typed DEF RunsFollow, local
  <1>5. CASE SetDone(t)
    <2>1. /\ pc[t] = "done" /\ pc'[t] = "alone" /\ UNCHANGED <<next, chunk, seeds, bumps, pieces>>
          /\ \A k \in Chunk : done'[k] => done[k] \/ k = chunk[t]
      BY <1>5, Typed DEF SetDone, Step, Goto, placed, listing, slots, IInv, TypeOK, LocalTypes, FlagTypes
    <2> QED
      BY <1>0, <2>1, Typed DEF RunsFollow, ChunkOwned, Seeding
  <1>6. CASE SettleGap(t)
    <2>1. pc'[t] = "listGap" /\ UNCHANGED <<next, chunk, bumps, done, pieces>>
      BY <1>6 DEF SettleGap, Step, Goto, listing, flags, slots, IInv, TypeOK, LocalTypes
    <2>2. gap[t] \in GapIx
      BY <1>6 DEF SettleGap, Step, IInv, Located, InGap, GapSteps
    <2>3. \A k \in Chunk : seeds'[RunOf(k)] = seeds[RunOf(k)]
      BY <1>6, <2>2, Indices, Distinct DEF SettleGap, IInv, TypeOK, PlacedTypes
    <2> QED
      BY <1>0, <2>1, <2>3, Typed DEF RunsFollow, Seeding
  <1>7. CASE ~(Claim(t) \/ SettleRun(t) \/ ListBumps(t) \/ DrainOne(t) \/ SetDone(t) \/ SettleGap(t))
    <2>1. UNCHANGED <<next, chunk, bumps, done, seeds>>
      BY <1>7, Changes
    <2>2. /\ pc'[t] # "settle" /\ pc'[t] # "list"
          /\ pc'[t] \in Seeding \ {"settle"} => pc[t] \in Seeding \ {"settle"}
      <3>1. /\ pc'[t] # "settle" /\ pc'[t] # "list" /\ pc'[t] # "drain"
            /\ pc'[t] = "draining" => DrainLock(t)
            /\ pc'[t] = "install" => DrainEnd(t)
            /\ pc'[t] = "done" => Install(t)
        BY <1>7, Arrives
      <3> QED
        BY <3>1 DEF Seeding, DrainLock, DrainEnd, Install, Step
    <2>3. \A k \in Chunk : k >= next /\ pieces[k] = "none" => pieces'[k] = "none"
      <3>1. CASE Install(t)
        <4>1. chunk[t] < next /\ chunk[t] \in Chunk
          BY <3>1, Typed DEF Install, ChunkOwned, Seeding
        <4> QED
          BY <3>1, <4>1, Typed DEF Install, Panic, IInv, TypeOK, SlotTypes
      <3>2. CASE Release(t)
        BY <3>2 DEF Release, IInv, TypeOK, SlotTypes
      <3> QED
        BY <3>1, <3>2, Changes
    <2> QED
      BY <1>0, <2>1, <2>2, <2>3 DEF RunsFollow
  <1> QED
    BY <1>1, <1>2, <1>3, <1>4, <1>5, <1>6, <1>7

\* Inside a gap: what a worker's place says of it.
LEMMA AtGap ==
    ASSUME IInv, NEW t \in Threads
    PROVE  /\ pc[t] \in {"rightDone", "swap", "countDown"} \cup GapSteps =>
                  /\ gap[t] \in GapIx /\ gap[t] \in Chunk /\ gap[t] + 1 \in Chunk
                  /\ gap[t] \in {chunk[t] - 1, chunk[t]}
           /\ pc[t] \in GapSteps =>
                  /\ claimed[gap[t]]
                  /\ \A u \in Threads : pc[u] \in GapSteps /\ gap[u] = gap[t] => u = t
           /\ pc[t] = "swap" \/ pc[t] \in GapSteps => done[gap[t]] /\ done[gap[t] + 1]
  <1>1. /\ pc[t] \in {"rightDone", "swap", "countDown"} \cup GapSteps =>
             gap[t] \in GapIx /\ gap[t] \in {chunk[t] - 1, chunk[t]}
        /\ pc[t] \in GapSteps => claimed[gap[t]]
    BY DEF IInv, Located, InGap, GapOwned
  <1>2. pc[t] \in GapSteps => \A u \in Threads : pc[u] \in GapSteps /\ gap[u] = gap[t] => u = t
    BY DEF IInv, InGap, GapOwned
  <1>3. pc[t] = "swap" \/ pc[t] \in GapSteps => done[gap[t]] /\ done[gap[t] + 1]
    BY DEF IInv, Knows, InGap
  <1> QED
    BY <1>1, <1>2, <1>3, Indices

\* The gaps are seeded one by one, against the runs beside them.
LEMMA GapsFollowStep ==
    ASSUME IInv, GapsFollow, NEW t \in Threads, Worker(t), ~Panic(t)
    PROVE  GapsFollow'
  <1>0. \A u \in Threads \ {t} : pc'[u] = pc[u] /\ gap'[u] = gap[u]
    BY OthersStay DEF IInv
  <1>f. ~PlaceGap(t) => found' = found
    BY Changes
  <1>1. CASE SettleRun(t)
    <2>1. pc'[t] = "list" /\ UNCHANGED <<gap, found, claimed, taken>>
      BY <1>1 DEF SettleRun, Step, Goto, flags, IInv, TypeOK, LocalTypes
    <2>2. \A g \in GapIx : seeds'[GapOf(g)] = seeds[GapOf(g)]
      BY <1>1, Indices, Distinct, Typed DEF SettleRun, IInv, TypeOK, PlacedTypes
    <2>3. \A u \in Threads : pc[u] \in GapSteps => gap[u] \in GapIx
      BY AtGap
    <2> QED
      BY <1>0, <2>1, <2>2, <2>3 DEF GapsFollow, GapSteps
  <1>2. CASE ClaimGap(t)
    <2>1. /\ pc[t] = "swap" /\ UNCHANGED <<seeds, taken, found>> /\ gap[t] \in GapIx
          /\ (pc'[t] = "lockLeft" /\ gap' = gap /\ ~claimed[gap[t]]) \/ pc'[t] = "leftDone"
      BY <1>2, AtGap DEF ClaimGap, NextGap, Goto, placed, IInv, TypeOK, LocalTypes
    <2>2. \A g \in GapIx : claimed[g] => claimed'[g]
      BY <1>2 DEF ClaimGap, IInv, TypeOK, FlagTypes
    <2> QED
      BY <1>0, <2>1, <2>2 DEF GapsFollow, GapSteps
  <1>3. CASE PlaceGap(t)
    <2>1. pc[t] = "place" /\ pc'[t] = "settleGap" /\ UNCHANGED <<gap, seeds, taken, claimed>>
      BY <1>3, Goes DEF PlaceGap, placed, flags, IInv
    <2>2. /\ found'[t] = {RunOf(gap[t]), RunOf(gap[t] + 1)}
          /\ \A u \in Threads \ {t} : found'[u] = found[u]
      BY <1>3 DEF PlaceGap, IInv, TypeOK, LocalTypes
    <2> QED
      BY <1>0, <2>1, <2>2 DEF GapsFollow, GapSteps
  <1>4. CASE SettleGap(t)
    <2>1. /\ pc[t] = "settleGap" /\ pc'[t] = "listGap" /\ UNCHANGED <<gap, found, taken, claimed>>
          /\ gap[t] \in GapIx /\ claimed[gap[t]]
      BY <1>4, AtGap DEF SettleGap, Step, Goto, flags, GapSteps, IInv, TypeOK, LocalTypes
    <2>2. /\ seeds'[GapOf(gap[t])] # Unplaced
          /\ \A g \in GapIx \ {gap[t]} : seeds'[GapOf(g)] = seeds[GapOf(g)]
      <3>1. found[t] = {RunOf(gap[t]), RunOf(gap[t] + 1)}
        BY <2>1 DEF GapsFollow
      <3>2. found[t] # Unplaced
        <4>1. RunOf(gap[t]) \in found[t] /\ RunOf(gap[t]) # -1
          BY <3>1, <2>1 DEF RunOf, GapIx
        <4> QED
          BY <4>1 DEF Unplaced
      <3>3. seeds' = [seeds EXCEPT ![GapOf(gap[t])] = found[t]] /\ DOMAIN seeds = Pieces
        BY <1>4 DEF SettleGap, IInv, TypeOK, PlacedTypes
      <3>4. \A g \in GapIx : GapOf(g) \in Pieces /\ (GapOf(g) = GapOf(gap[t]) => g = gap[t])
        BY <2>1, Indices, Distinct
      <3> QED
        BY <2>1, <3>2, <3>3, <3>4
    <2>3. \A u \in Threads \ {t} : pc[u] \in GapSteps => gap[u] \in GapIx \ {gap[t]}
      BY <2>1, AtGap DEF GapSteps
    <2> QED
      BY <1>0, <2>1, <2>2, <2>3 DEF GapsFollow, GapSteps
  <1>5. CASE MergeGap(t)
    <2>1. /\ pc[t] = "mergeGap" /\ pc'[t] = "countDown" /\ UNCHANGED <<gap, found, seeds, claimed>>
          /\ gap[t] \in GapIx /\ taken' = taken \cup {GapOf(gap[t])}
      BY <1>5, AtGap DEF MergeGap, Step, Goto, flags, GapSteps, IInv, TypeOK, LocalTypes
    <2>2. \A g \in GapIx : GapOf(g) \in taken' => GapOf(g) \in taken \/ g = gap[t]
      BY <2>1, Distinct
    <2> QED
      BY <1>0, <2>1, <2>2 DEF GapsFollow, GapSteps
  <1>6. CASE MergeRun(t)
    <2>1. /\ pc'[t] \notin GapSteps /\ UNCHANGED <<found, seeds, claimed>>
          /\ taken' = taken \cup {RunOf(reader[t])} /\ reader[t] \in Chunk
      BY <1>6, Goes, Typed DEF MergeRun, flags, GapSteps, IInv
    <2>2. \A g \in GapIx : GapOf(g) \in taken' => GapOf(g) \in taken
      BY <2>1, Distinct
    <2> QED
      BY <1>0, <2>1, <2>2 DEF GapsFollow, GapSteps
  <1>7. CASE ~(SettleRun(t) \/ ClaimGap(t) \/ PlaceGap(t) \/ SettleGap(t) \/ MergeGap(t) \/ MergeRun(t))
    <2>1. UNCHANGED <<claimed, seeds, taken, found>>
      BY <1>7, Changes
    <2>2. /\ pc'[t] # "lockLeft" /\ pc'[t] # "settleGap" /\ pc'[t] # "listGap"
          /\ pc'[t] = "lockRight" => LockLeft(t)
          /\ pc'[t] = "place" => LockRight(t)
          /\ pc'[t] = "mergeGap" => ListGap(t)
      BY <1>7, Arrives
    <2>3. /\ LockLeft(t) => pc[t] = "lockLeft" /\ gap' = gap
          /\ LockRight(t) => pc[t] = "lockRight" /\ gap' = gap
          /\ ListGap(t) => pc[t] = "listGap" /\ gap' = gap
      BY DEF LockLeft, LockRight, LockPiece, ListGap, Panic
    <2> QED
      BY <1>0, <2>1, <2>2, <2>3 DEF GapsFollow, GapSteps
  <1> QED
    BY <1>1, <1>2, <1>3, <1>4, <1>5, <1>6, <1>7

\* The next run goes to the end of the list.
LEMMA NextRun ==
    ASSUME NEW d \in Nat
    PROVE  Append([i \in 1 .. d |-> RunOf(i - 1)], RunOf(d)) = [i \in 1 .. d + 1 |-> RunOf(i - 1)]
  <1> DEFINE s == [i \in 1 .. d |-> RunOf(i - 1)]
             r == [i \in 1 .. d + 1 |-> RunOf(i - 1)]
  <1>1. s \in Seq(Int) /\ Len(s) = d /\ RunOf(d) \in Int
    BY DEF RunOf
  <1>2. r \in Seq(Int) /\ Len(r) = d + 1
    BY DEF RunOf
  <1>3. Append(s, RunOf(d)) \in Seq(Int) /\ Len(Append(s, RunOf(d))) = d + 1
    BY <1>1
  <1>4. \A i \in 1 .. d + 1 : Append(s, RunOf(d))[i] = r[i]
    <2> TAKE i \in 1 .. d + 1
    <2>1. r[i] = RunOf(i - 1)
      OBVIOUS
    <2>2. CASE i = d + 1
      BY <1>1, <2>1, <2>2
    <2>3. CASE i # d + 1
      <3>1. i \in 1 .. d
        BY <2>3
      <3>2. Append(s, RunOf(d))[i] = s[i]
        BY <1>1, <3>1
      <3> QED
        BY <2>1, <3>1, <3>2
    <2> QED
      BY <2>2, <2>3
  <1> HIDE DEF s, r
  <1>5. Append(s, RunOf(d)) = r
    BY <1>2, <1>3, <1>4, SeqEqual
  <1> QED
    BY <1>5 DEF s, r

\* The list grows in the order of the chunks, whichever worker drains it.
LEMMA ListInOrderStep ==
    ASSUME IInv, RunsFollow, ListInOrder, MainWaits, NEW t \in Threads, Worker(t), ~Panic(t)
    PROVE  ListInOrder'
  <1>m. main' = main
    BY Changes
  <1>r. main # "returned"
    BY Acts DEF MainWaits
  <1>d. drained \in Nat
    BY ChunksAssumption DEF IInv, TypeOK, ListTypes
  <1>1. CASE ListBumps(t)
    <2>1. pc[t] = "list" /\ UNCHANGED <<bumped, drained>> /\ chunk[t] \in Chunk /\ bumps[chunk[t]] = "none"
      BY <1>1, Typed DEF ListBumps, Step, RunsFollow
    <2>2. /\ bumps'[chunk[t]] = "some"
          /\ \A k \in Chunk \ {chunk[t]} : bumps'[k] = bumps[k]
      BY <1>1, <2>1 DEF ListBumps, IInv, TypeOK, ListTypes
    <2> QED
      BY <1>m, <1>r, <2>1, <2>2 DEF ListInOrder
  <1>2. CASE DrainOne(t)
    <2>1. /\ drained \in Chunk /\ drained' = drained + 1
          /\ bumps'[drained] = "taken" /\ \A k \in Chunk \ {drained} : bumps'[k] = bumps[k]
          /\ bumped' = Append(bumped, RunOf(drained))
      BY <1>2, <1>d, Indices DEF DrainOne, IInv, TypeOK, ListTypes
    <2>2. \A k \in Chunk : bumps'[k] = "taken" <=> k < drained'
      BY <1>d, <2>1, Typed DEF ListInOrder
    <2>3. bumped' = [i \in 1 .. drained' |-> RunOf(i - 1)]
      BY <1>d, <1>r, <2>1, NextRun DEF ListInOrder
    <2> QED
      BY <1>m, <1>r, <2>2, <2>3 DEF ListInOrder
  <1>3. CASE ~(ListBumps(t) \/ DrainOne(t))
    <2>1. UNCHANGED <<bumps, bumped, drained>>
      BY <1>3, Changes
    <2> QED
      BY <1>m, <1>r, <2>1 DEF ListInOrder
  <1> QED
    BY <1>1, <1>2, <1>3

\* A worker leaves the list only when its next chunk has not listed its keys.
LEMMA NoneStrandedStep ==
    ASSUME IInv, NoneStranded, NEW t \in Threads, Worker(t), ~Panic(t)
    PROVE  NoneStranded'
  <1>0. \A u \in Threads \ {t} : pc'[u] = pc[u]
    BY OthersStay DEF IInv
  <1>1. CASE ListBumps(t) \/ DrainLock(t) \/ DrainOne(t)
    <2>1. pc'[t] \in {"drain", "draining"}
      BY <1>1, Goes DEF IInv
    <2> QED
      BY <2>1 DEF NoneStranded
  <1>2. CASE DrainEnd(t)
    <2>1. UNCHANGED <<bumps, drained>> /\ ~(drained < Chunks /\ bumps[drained] = "some")
      BY <1>2 DEF DrainEnd
    <2> QED
      BY <2>1 DEF NoneStranded
  <1>3. CASE ~(ListBumps(t) \/ DrainLock(t) \/ DrainOne(t) \/ DrainEnd(t))
    <2>1. UNCHANGED <<bumps, drained>>
      BY <1>3, Changes
    <2>2. pc[t] \notin {"drain", "draining"}
      BY <1>3, Acts
    <2> QED
      BY <1>0, <2>1, <2>2 DEF NoneStranded
  <1> QED
    BY <1>1, <1>2, <1>3

\* While a worker can step the spawning thread waits, and no worker places the end gap.
LEMMA MainWaitsStep ==
    ASSUME IInv, MainWaits, NEW t \in Threads, Worker(t), ~Panic(t)
    PROVE  MainWaits'
  <1>1. main \notin {"endGap", "returned"} /\ main' = main
    BY Acts, Changes DEF MainWaits
  <1>2. seeds[EndGap] = Unplaced /\ EndGap \notin taken
    BY <1>1 DEF MainWaits
  <1>3. seeds'[EndGap] = seeds[EndGap]
    <2>1. CASE SettleRun(t)
      BY <2>1, Indices, Typed, RunsDiffer DEF SettleRun, IInv, TypeOK, PlacedTypes
    <2>2. CASE SettleGap(t)
      <3>1. gap[t] \in GapIx
        BY <2>2, AtGap DEF SettleGap, Step, GapSteps
      <3> QED
        BY <2>2, <3>1, Indices, Distinct DEF SettleGap, IInv, TypeOK, PlacedTypes
    <2> QED
      BY <2>1, <2>2, Changes
  <1>4. EndGap \notin taken'
    <2>1. CASE MergeGap(t)
      <3>1. gap[t] \in GapIx
        BY <2>1, AtGap DEF MergeGap, Step, GapSteps
      <3> QED
        BY <1>2, <2>1, <3>1, Distinct DEF MergeGap
    <2>2. CASE MergeRun(t)
      BY <1>2, <2>2, Typed, RunsDiffer DEF MergeRun
    <2> QED
      BY <1>2, <2>1, <2>2, Changes
  <1> QED
    BY <1>1, <1>2, <1>3, <1>4 DEF MainWaits

-------------------------------------------------------------------------------
(* Nothing falls between two workers. *)

\* A worker exits when no chunk is left.
LEMMA ChunksClaimedStep ==
    ASSUME IInv, ChunksClaimed, NEW t \in Threads, Worker(t), ~Panic(t)
    PROVE  ChunksClaimed'
  <1>0. \A u \in Threads \ {t} : pc'[u] = pc[u]
    BY OthersStay DEF IInv
  <1>1. CASE Claim(t)
    <2>1. next' = next + 1 /\ (pc'[t] = "exited" => next >= Chunks)
      BY <1>1, ChunksAssumption DEF Claim, Goto, IInv, TypeOK, LocalTypes
    <2> QED
      BY <1>0, <2>1, Typed, ChunksAssumption DEF ChunksClaimed
  <1>2. CASE ~Claim(t)
    <2>1. next' = next /\ pc'[t] # "exited"
      BY <1>2, Changes, Arrives
    <2> QED
      BY <1>0, <2>1 DEF ChunksClaimed
  <1> QED
    BY <1>1, <1>2

\* A claimed chunk has its worker until it is done.
LEMMA ChunksWorkedStep ==
    ASSUME IInv, ChunksWorked, NEW t \in Threads, Worker(t), ~Panic(t)
    PROVE  ChunksWorked'
  <1>0. \A u \in Threads \ {t} : pc'[u] = pc[u] /\ chunk'[u] = chunk[u]
    BY OthersStay DEF IInv
  <1>1. CASE Claim(t)
    <2>1. pc[t] = "claim" /\ done' = done /\ next' = next + 1
      BY <1>1 DEF Claim, flags
    <2>2. next < Chunks => pc'[t] = "settle" /\ chunk'[t] = next
      BY <1>1 DEF Claim, Goto, IInv, TypeOK, LocalTypes
    <2>3. \A k \in Chunk : k < next' => k < next \/ k = next
      BY <2>1, Typed
    <2>4. \A k \in Chunk : k < Chunks
      BY ChunksAssumption DEF Chunk
    <2> QED
      BY <1>0, <2>1, <2>2, <2>3, <2>4 DEF ChunksWorked, Seeding
  <1>2. CASE SetDone(t)
    <2>1. UNCHANGED <<next, chunk>> /\ \A k \in Chunk : done[k] \/ k = chunk[t] => done'[k]
      BY <1>2 DEF SetDone, IInv, TypeOK, FlagTypes
    <2> QED
      BY <1>0, <2>1 DEF ChunksWorked
  <1>3. CASE ~Claim(t) /\ ~SetDone(t)
    <2>1. next' = next /\ chunk' = chunk /\ done' = done
      BY <1>3, Changes
    <2>2. pc[t] \in Seeding \cup {"panicked"} => pc'[t] \in Seeding
      BY <1>3, Acts, Goes DEF Seeding, IInv
    <2> QED
      BY <1>0, <2>1, <2>2 DEF ChunksWorked
  <1> QED
    BY <1>1, <1>2, <1>3

\* A claimed chunk has its worker until its keys are in.
LEMMA KeysWorkedStep ==
    ASSUME IInv, KeysWorked, NEW t \in Threads, Worker(t), ~Panic(t)
    PROVE  KeysWorked'
  <1>0. \A u \in Threads \ {t} : pc'[u] = pc[u] /\ chunk'[u] = chunk[u]
    BY OthersStay DEF IInv
  <1>1. CASE Claim(t)
    <2>1. pc[t] = "claim" /\ bumps' = bumps /\ next' = next + 1
      BY <1>1 DEF Claim, listing
    <2>2. next < Chunks => pc'[t] = "settle" /\ chunk'[t] = next
      BY <1>1 DEF Claim, Goto, IInv, TypeOK, LocalTypes
    <2>3. \A k \in Chunk : k < next' => k < next \/ k = next
      BY <2>1, Typed
    <2>4. \A k \in Chunk : k < Chunks
      BY ChunksAssumption DEF Chunk
    <2> QED
      BY <1>0, <2>1, <2>2, <2>3, <2>4 DEF KeysWorked
  <1>2. CASE ListBumps(t)
    <2>1. /\ UNCHANGED <<next, chunk>>
          /\ \A k \in Chunk : bumps'[k] = "none" => bumps[k] = "none" /\ k # chunk[t]
      BY <1>2 DEF ListBumps, IInv, TypeOK, ListTypes
    <2> QED
      BY <1>0, <2>1 DEF KeysWorked
  <1>3. CASE DrainOne(t)
    <2>1. UNCHANGED <<next, chunk, pc>> /\ \A k \in Chunk : bumps'[k] = "none" => bumps[k] = "none"
      BY <1>3 DEF DrainOne, local, IInv, TypeOK, ListTypes
    <2> QED
      BY <2>1 DEF KeysWorked
  <1>4. CASE ~(Claim(t) \/ ListBumps(t) \/ DrainOne(t))
    <2>1. next' = next /\ chunk' = chunk /\ bumps' = bumps
      BY <1>4, Changes
    <2>2. pc[t] \in {"settle", "list"} => pc'[t] \in {"settle", "list"}
      BY <1>4, Acts, Goes DEF IInv
    <2> QED
      BY <1>0, <2>1, <2>2 DEF KeysWorked
  <1> QED
    BY <1>1, <1>2, <1>3, <1>4

\* A claimed gap has its worker until it is in the level's map.
LEMMA GapsWorkedStep ==
    ASSUME IInv, GapsWorked, NEW t \in Threads, Worker(t), ~Panic(t)
    PROVE  GapsWorked'
  <1>0. \A u \in Threads \ {t} : pc'[u] = pc[u] /\ gap'[u] = gap[u]
    BY OthersStay DEF IInv
  <1>1. CASE ClaimGap(t)
    <2>1. pc[t] = "swap" /\ taken' = taken /\ gap[t] \in GapIx
      BY <1>1, AtGap DEF ClaimGap, placed
    <2>2. \A g \in GapIx : claimed'[g] => claimed[g] \/ g = gap[t]
      BY <1>1 DEF ClaimGap, IInv, TypeOK, FlagTypes
    <2>3. ~claimed[gap[t]] => pc'[t] = "lockLeft" /\ gap'[t] = gap[t]
      BY <1>1 DEF ClaimGap, Goto, IInv, TypeOK, LocalTypes
    <2> QED
      BY <1>0, <2>1, <2>2, <2>3 DEF GapsWorked, GapSteps
  <1>2. CASE MergeGap(t)
    <2>1. /\ UNCHANGED <<claimed, gap>>
          /\ \A g \in GapIx : GapOf(g) \notin taken' => GapOf(g) \notin taken /\ g # gap[t]
      BY <1>2 DEF MergeGap, flags
    <2> QED
      BY <1>0, <2>1 DEF GapsWorked
  <1>3. CASE ~ClaimGap(t) /\ ~MergeGap(t)
    <2>1. claimed' = claimed /\ taken \subseteq taken'
      BY <1>3, Changes DEF MergeRun
    <2>2. pc[t] \in GapSteps \cup {"panicked"} => pc'[t] \in GapSteps /\ gap'[t] = gap[t]
      <3>1. pc[t] \in GapSteps => \/ LockLeft(t) \/ LockRight(t) \/ PlaceGap(t)
                                  \/ SettleGap(t) \/ ListGap(t)
        BY <1>3, Acts DEF GapSteps
      <3>2. pc[t] \in GapSteps => pc'[t] \in GapSteps
        BY <3>1, Goes DEF GapSteps, IInv
      <3>3. pc[t] \in GapSteps => gap' = gap
        BY <3>1 DEF LockLeft, LockRight, LockPiece, PlaceGap, SettleGap, ListGap, Panic
      <3> QED
        BY <3>2, <3>3, Acts
    <2> QED
      BY <1>0, <2>1, <2>2 DEF GapsWorked
  <1> QED
    BY <1>1, <1>2, <1>3

\* A released map has its worker until it is in the level's map.
LEMMA MapsMergedStep ==
    ASSUME IInv, MapsMerged, NEW t \in Threads, Worker(t), ~Panic(t)
    PROVE  MapsMerged'
  <1>0. \A u \in Threads \ {t} : pc'[u] = pc[u] /\ reader'[u] = reader[u]
    BY OthersStay DEF IInv
  <1>1. CASE Release(t)
    <2>1. pc[t] = "release" /\ reader' = reader /\ taken' = taken
      BY <1>1 DEF Release, placed
    <2>2. \A k \in Chunk : pieces'[k] = "taken" =>
              pieces[k] = "taken" \/ (k = reader[t] /\ pc'[t] = "merge")
      BY <1>1 DEF Release, Goto, IInv, TypeOK, LocalTypes, SlotTypes
    <2> QED
      BY <1>0, <2>1, <2>2 DEF MapsMerged
  <1>2. CASE Install(t)
    <2>1. pc[t] = "install" /\ reader' = reader /\ taken' = taken
      BY <1>2 DEF Install, placed, Panic
    <2>2. \A k \in Chunk : pieces'[k] = "taken" => pieces[k] = "taken"
      BY <1>2 DEF Install, Panic, IInv, TypeOK, SlotTypes
    <2> QED
      BY <1>0, <2>1, <2>2 DEF MapsMerged
  <1>3. CASE MergeRun(t)
    <2>1. /\ pieces' = pieces
          /\ \A k \in Chunk : RunOf(k) \notin taken' => RunOf(k) \notin taken /\ k # reader[t]
      BY <1>3 DEF MergeRun, slots
    <2> QED
      BY <1>0, <2>1 DEF MapsMerged
  <1>4. CASE ~(Release(t) \/ Install(t) \/ MergeRun(t))
    <2>1. pieces' = pieces /\ taken \subseteq taken'
      BY <1>4, Changes DEF MergeGap
    <2>2. pc[t] # "merge"
      BY <1>4, Acts
    <2> QED
      BY <1>0, <2>1, <2>2 DEF MapsMerged
  <1> QED
    BY <1>1, <1>2, <1>3, <1>4

\* The level's last map has its worker until its end gap's keys are in.
LEMMA EndWorkedStep ==
    ASSUME IInv, EndWorked, NEW t \in Threads, Worker(t), ~Panic(t)
    PROVE  EndWorked'
  <1>0. \A u \in Threads \ {t} : pc'[u] = pc[u]
    BY OthersStay DEF IInv
  <1>c. Chunks - 1 \in Chunk
    BY ChunksAssumption DEF Chunk
  <1>1. CASE MergeRun(t)
    <2>1. pc[t] = "merge" /\ endTail' = endTail /\ taken' = taken \cup {RunOf(reader[t])} /\ reader[t] \in Chunk
      BY <1>1, Typed DEF MergeRun, once
    <2>2. reader[t] = Chunks - 1 => pc'[t] = "endTail"
      BY <1>1, <2>1, Typed, ChunksAssumption DEF MergeRun, Goto, IInv, TypeOK, LocalTypes
    <2>3. RunOf(Chunks - 1) \in taken' => RunOf(Chunks - 1) \in taken \/ reader[t] = Chunks - 1
      BY <1>c, <2>1, RunsDiffer
    <2> QED
      BY <1>0, <2>1, <2>2, <2>3 DEF EndWorked
  <1>2. CASE MergeGap(t)
    <2>1. pc[t] = "mergeGap" /\ endTail' = endTail /\ taken' = taken \cup {GapOf(gap[t])} /\ gap[t] \in GapIx
      BY <1>2, AtGap DEF MergeGap, Step, once, GapSteps
    <2>2. RunOf(Chunks - 1) \in taken' => RunOf(Chunks - 1) \in taken
      BY <1>c, <2>1, Distinct
    <2> QED
      BY <1>0, <2>1, <2>2 DEF EndWorked
  <1>3. CASE SetEndTail(t)
    BY <1>3 DEF SetEndTail, EndWorked
  <1>4. CASE ~(MergeRun(t) \/ MergeGap(t) \/ SetEndTail(t))
    <2>1. UNCHANGED <<taken, endTail>> /\ pc[t] # "endTail"
      BY <1>4, Changes, Acts
    <2> QED
      BY <1>0, <2>1 DEF EndWorked
  <1> QED
    BY <1>1, <1>2, <1>3, <1>4

\* The chunk a worker releases is its own or one beside it.
LEMMA ReaderNear ==
    ASSUME IInv, NEW t \in Threads, pc[t] \in {"countDown"} \cup Releasing
    PROVE  chunk[t] \in {reader[t] - 1, reader[t], reader[t] + 1}
  <1>1. Located(t) /\ chunk[t] \in Int /\ gap[t] \in Int /\ reader[t] \in Int
    BY Typed DEF IInv
  <1>2. CASE gap[t] = NoGap
    BY <1>1, <1>2 DEF Located
  <1>3. CASE gap[t] # NoGap
    <2>1. gap[t] \in {chunk[t] - 1, chunk[t]} /\ reader[t] \in {gap[t], gap[t] + 1}
      BY <1>1, <1>3 DEF Located, InGap
    <2> QED
      BY <1>1, <2>1
  <1> QED
    BY <1>2, <1>3

\* A finished chunk that no gap is left to read has a worker that will release it.
LEMMA MapsReleasedStep ==
    ASSUME IInv, ChunkOwned, MapsReleased, NEW t \in Threads, Worker(t), ~Panic(t)
    PROVE  MapsReleased'
  <1>0. \A u \in Threads \ {t} : pc'[u] = pc[u] /\ chunk'[u] = chunk[u] /\ reader'[u] = reader[u]
    BY OthersStay DEF IInv
  <1>p. pc[t] # "panicked"
    BY Acts
  <1>1. CASE Install(t)
    <2>1. UNCHANGED <<done, readers, chunk, reader>> /\ pc[t] = "install" /\ chunk[t] \in Chunk
      BY <1>1, Typed DEF Install, Panic, flags
    <2>2. \A k \in Chunk \ {chunk[t]} : pieces'[k] = pieces[k]
      BY <1>1 DEF Install, Panic, IInv, TypeOK, SlotTypes
    <2>3. ~done[chunk[t]]
      BY <2>1 DEF ChunkOwned, Seeding
    <2> QED
      BY <1>0, <1>p, <2>1, <2>2, <2>3 DEF MapsReleased, WillRelease, DiedAt
  <1>2. CASE SetDone(t)
    <2>1. UNCHANGED <<pieces, readers, chunk, reader>> /\ pc[t] = "done" /\ pc'[t] = "alone"
      BY <1>2, Goes DEF SetDone, Step, slots, IInv
    <2>2. \A k \in Chunk : done'[k] => done[k] \/ k = chunk[t]
      BY <1>2 DEF SetDone, IInv, TypeOK, FlagTypes
    <2> QED
      BY <1>0, <1>p, <2>1, <2>2 DEF MapsReleased, WillRelease, DiedAt
  <1>3. CASE LoadReaders(t)
    <2>1. /\ UNCHANGED <<pieces, readers, done, chunk>> /\ pc[t] = "alone"
          /\ readers[chunk[t]] = 0 => pc'[t] = "release" /\ reader'[t] = chunk[t]
      BY <1>3 DEF LoadReaders, Goto, slots, flags, IInv, TypeOK, LocalTypes
    <2> QED
      BY <1>0, <2>1 DEF MapsReleased, WillRelease, DiedAt
  <1>4. CASE CountDown(t)
    <2>1. UNCHANGED <<pieces, done, chunk>> /\ pc[t] = "countDown"
      BY <1>4 DEF CountDown, slots
    <2>2. \A k \in Chunk \ {reader[t]} : readers'[k] = readers[k]
      BY <1>4 DEF CountDown, IInv, TypeOK, FlagTypes
    <2>3. readers[reader[t]] = 1 => pc'[t] = "release" /\ reader'[t] = reader[t]
      BY <1>4 DEF CountDown, Goto, IInv, TypeOK, LocalTypes
    <2>4. readers[reader[t]] \in Int /\ readers'[reader[t]] = readers[reader[t]] - 1
      BY <1>4, Typed DEF CountDown, IInv, TypeOK, FlagTypes
    <2> QED
      BY <1>0, <1>p, <2>1, <2>2, <2>3, <2>4 DEF MapsReleased, WillRelease, DiedAt
  <1>5. CASE Release(t)
    <2>1. UNCHANGED <<readers, done, chunk, reader>> /\ pc[t] = "release"
      BY <1>5 DEF Release, flags
    <2>2. \A k \in Chunk \ {reader[t]} : pieces'[k] = pieces[k]
      BY <1>5 DEF Release, IInv, TypeOK, SlotTypes
    <2>3. pieces'[reader[t]] = "taken" \/ DiedAt(t, {reader[t] - 1, reader[t], reader[t] + 1})'
      <3>1. \/ pieces' = [pieces EXCEPT ![reader[t]] = "taken"]
            \/ pc'[t] = "panicked"
        BY <1>5 DEF Release, Goto, IInv, TypeOK, LocalTypes
      <3>2. chunk[t] \in {reader[t] - 1, reader[t], reader[t] + 1}
        BY <2>1, ReaderNear DEF Releasing
      <3> QED
        BY <2>1, <3>1, <3>2, Typed DEF DiedAt, IInv, TypeOK, SlotTypes
    <2> QED
      BY <1>0, <1>p, <2>1, <2>2, <2>3 DEF MapsReleased, WillRelease, DiedAt
  <1>6. CASE ~(Install(t) \/ SetDone(t) \/ LoadReaders(t) \/ CountDown(t) \/ Release(t))
    <2>1. UNCHANGED <<done, readers, pieces>> /\ pc[t] \notin {"alone", "release"}
      BY <1>6, Changes, Acts
    <2> QED
      BY <1>0, <1>p, <2>1 DEF MapsReleased, WillRelease, DiedAt
  <1> QED
    BY <1>1, <1>2, <1>3, <1>4, <1>5, <1>6

\* A worker on its way to a gap whose chunks are done goes on to it, or the gap is claimed.
LEMMA LooksOn ==
    ASSUME IInv, NEW t \in Threads, Worker(t), ~Panic(t),
           NEW g \in GapIx, done[g], done[g + 1], WillLook(t, g)
    PROVE  WillLook(t, g)' \/ DiedAt(t, {g, g + 1})' \/ claimed'[g]
  <1>t. /\ g \in Int /\ chunk[t] \in Int /\ gap[t] \in Int /\ reader[t] \in Int /\ g > NoGap
        /\ chunk[t] \in {g, g + 1}
    BY Typed DEF GapIx, WillLook, NoGap
  <1>a. pc[t] \in PCs /\ Located(t)
    BY DEF IInv, TypeOK, LocalTypes
  <1>c. chunk' = chunk
    <2>1. ~Claim(t)
      BY DEF WillLook, Claim, GapSteps, Releasing
    <2> QED
      BY <2>1, Changes
  <1>n. ASSUME NextGap(t), gap[t] < g
        PROVE  WillLook(t, g)'
    <2>1. pc'[t] = "leftDone" /\ gap'[t] = gap[t] + 1
      BY <1>n DEF NextGap, Goto, IInv, TypeOK, LocalTypes
    <2> QED
      BY <1>n, <1>t, <1>c, <2>1 DEF WillLook
  <1>r. ASSUME NextReader(t), gap[t] < g
        PROVE  WillLook(t, g)'
    <2>1. CASE reader[t] = gap[t]
      BY <1>r, <1>t, <1>c, <2>1 DEF NextReader, Goto, WillLook, IInv, TypeOK, LocalTypes
    <2>2. CASE reader[t] # gap[t]
      BY <1>n, <1>r, <2>2 DEF NextReader
    <2> QED
      BY <2>1, <2>2
  <1>b. ASSUME Return(t), gap[t] < g
        PROVE  WillLook(t, g)'
    <2>1. CASE gap[t] = NoGap
      <3>1. pc'[t] = "leftDone" /\ gap'[t] = chunk[t] - 1
        BY <1>b, <2>1 DEF Return, Goto, IInv, TypeOK, LocalTypes
      <3> QED
        BY <1>t, <1>c, <3>1 DEF WillLook
    <2>2. CASE gap[t] # NoGap
      BY <1>b, <1>r, <2>2 DEF Return
    <2> QED
      BY <2>1, <2>2
  <1>1. CASE LoadReaders(t)
    <2>1. /\ gap[t] = NoGap
          /\ \/ pc'[t] = "release" /\ gap' = gap
             \/ pc'[t] = "leftDone" /\ gap'[t] = chunk[t] - 1
      BY <1>1, <1>a DEF LoadReaders, Goto, Located, IInv, TypeOK, LocalTypes
    <2> QED
      BY <1>t, <1>c, <2>1 DEF WillLook, Releasing
  <1>2. CASE LeaveLoop(t)
    BY <1>2, <1>t DEF LeaveLoop, Step, WillLook, GapSteps, Releasing
  <1>3. CASE LoadLeftDone(t)
    <2>1. pc[t] = "leftDone" /\ gap[t] <= g
      BY <1>3 DEF LoadLeftDone, WillLook, GapSteps, Releasing
    <2>2. \/ pc'[t] = "rightDone" /\ gap' = gap
          \/ NextGap(t) /\ gap[t] # g
      BY <1>3 DEF LoadLeftDone, Goto, IInv, TypeOK, LocalTypes
    <2> QED
      BY <1>t, <1>c, <1>n, <2>1, <2>2 DEF WillLook
  <1>4. CASE LoadRightDone(t)
    <2>1. pc[t] = "rightDone" /\ gap[t] <= g
      BY <1>4 DEF LoadRightDone, WillLook, GapSteps, Releasing
    <2>2. \/ pc'[t] = "swap" /\ gap' = gap
          \/ NextGap(t) /\ gap[t] # g
      BY <1>4 DEF LoadRightDone, Goto, IInv, TypeOK, LocalTypes
    <2> QED
      BY <1>t, <1>c, <1>n, <2>1, <2>2 DEF WillLook
  <1>5. CASE ClaimGap(t)
    <2>1. pc[t] = "swap" /\ gap[t] <= g
      BY <1>5 DEF ClaimGap, WillLook, GapSteps, Releasing
    <2>2. \/ pc'[t] = "lockLeft" /\ gap' = gap
          \/ NextGap(t)
      BY <1>5 DEF ClaimGap, Goto, IInv, TypeOK, LocalTypes
    <2>3. gap[t] = g => claimed'[g]
      BY <1>5 DEF ClaimGap, IInv, TypeOK, FlagTypes
    <2> QED
      BY <1>t, <1>c, <1>n, <2>1, <2>2, <2>3 DEF WillLook, GapSteps
  <1>6. CASE LockLeft(t) \/ LockRight(t) \/ PlaceGap(t) \/ SettleGap(t) \/ ListGap(t)
    <2>1. pc[t] \in GapSteps /\ gap' = gap
      BY <1>6 DEF LockLeft, LockRight, LockPiece, PlaceGap, SettleGap, ListGap, Panic, Step, GapSteps
    <2>2. pc'[t] \in GapSteps
      BY <1>6, Goes DEF GapSteps, IInv
    <2>3. gap[t] < g
      BY <2>1 DEF WillLook, GapSteps
    <2> QED
      BY <1>t, <1>c, <2>1, <2>2, <2>3 DEF WillLook
  <1>7. CASE MergeGap(t)
    <2>1. pc[t] = "mergeGap" /\ pc'[t] = "countDown" /\ gap' = gap
      BY <1>7, Goes DEF MergeGap, Step, IInv
    <2>2. gap[t] < g
      BY <2>1 DEF WillLook, GapSteps
    <2> QED
      BY <1>t, <1>c, <2>1, <2>2 DEF WillLook
  <1>8. CASE CountDown(t)
    <2>1. pc[t] = "countDown"
      BY <1>8 DEF CountDown
    <2>2. gap[t] < g
      BY <2>1 DEF WillLook, GapSteps
    <2>3. (pc'[t] = "release" /\ gap' = gap) \/ NextReader(t)
      BY <1>8 DEF CountDown, Goto, IInv, TypeOK, LocalTypes
    <2> QED
      BY <1>t, <1>c, <1>r, <2>2, <2>3 DEF WillLook, Releasing
  <1>9. CASE Release(t)
    <2>1. pc[t] = "release" /\ pc'[t] \in {"merge", "panicked"} /\ gap' = gap
      BY <1>9, Goes DEF Release, IInv
    <2>2. gap[t] < g
      BY <2>1 DEF WillLook, GapSteps
    <2> QED
      BY <1>t, <1>c, <2>1, <2>2 DEF WillLook, Releasing, DiedAt
  <1>10. CASE MergeRun(t)
    <2>1. pc[t] = "merge" /\ ((pc'[t] = "endTail" /\ gap' = gap) \/ Return(t))
      BY <1>10 DEF MergeRun, Goto, IInv, TypeOK, LocalTypes
    <2>2. gap[t] < g
      BY <2>1 DEF WillLook, GapSteps
    <2> QED
      BY <1>t, <1>c, <1>b, <2>1, <2>2 DEF WillLook, Releasing
  <1>11. CASE SetEndTail(t)
    <2>1. pc[t] = "endTail" /\ Return(t)
      BY <1>11 DEF SetEndTail
    <2>2. gap[t] < g
      BY <2>1 DEF WillLook, GapSteps
    <2> QED
      BY <1>b, <2>1, <2>2
  <1> QED
    BY <1>1, <1>2, <1>3, <1>4, <1>5, <1>6, <1>7, <1>8, <1>9, <1>10, <1>11, Acts
       DEF WillLook, GapSteps, Releasing

\* Of the two workers that finish the chunks of a gap, one sees both done and claims it.
LEMMA GapsLookedStep ==
    ASSUME IInv, GapsLooked, NEW t \in Threads, Worker(t), ~Panic(t)
    PROVE  GapsLooked'
  <1>0. \A u \in Threads \ {t} : pc'[u] = pc[u] /\ chunk'[u] = chunk[u] /\ gap'[u] = gap[u]
    BY OthersStay DEF IInv
  <1>1. \A g \in GapIx : claimed[g] => claimed'[g]
    <2>1. CASE ClaimGap(t)
      BY <2>1 DEF ClaimGap, IInv, TypeOK, FlagTypes
    <2> QED
      BY <2>1, Changes
  <1>p. \A g \in GapIx : ~DiedAt(t, {g, g + 1})
    BY Acts DEF DiedAt
  <1>2. CASE SetDone(t)
    <2>1. pc[t] = "done" /\ pc'[t] = "alone" /\ chunk' = chunk
      BY <1>2, Goes DEF SetDone, Step, IInv
    <2>2. \A k \in Chunk : done'[k] => done[k] \/ k = chunk[t]
      BY <1>2 DEF SetDone, IInv, TypeOK, FlagTypes
    <2>3. \A g \in GapIx : ~WillLook(t, g)
      BY <2>1 DEF WillLook, GapSteps, Releasing
    <2>4. \A g \in GapIx : chunk[t] \in {g, g + 1} => WillLook(t, g)'
      BY <2>1 DEF WillLook
    <2>5. \A g \in GapIx, u \in Threads \ {t} :
              /\ WillLook(u, g) => WillLook(u, g)'
              /\ DiedAt(u, {g, g + 1}) => DiedAt(u, {g, g + 1})'
      BY <1>0 DEF WillLook, DiedAt
    <2> QED
      BY <1>1, <1>p, <2>2, <2>3, <2>4, <2>5, Indices DEF GapsLooked
  <1>3. CASE ~SetDone(t)
    <2>1. done' = done
      BY <1>3, Changes
    <2>2. \A g \in GapIx, u \in Threads \ {t} :
              /\ WillLook(u, g) => WillLook(u, g)'
              /\ DiedAt(u, {g, g + 1}) => DiedAt(u, {g, g + 1})'
      BY <1>0 DEF WillLook, DiedAt
    <2>3. \A g \in GapIx : done[g] /\ done[g + 1] /\ WillLook(t, g) =>
              WillLook(t, g)' \/ DiedAt(t, {g, g + 1})' \/ claimed'[g]
      BY LooksOn
    <2> QED
      BY <1>1, <1>p, <2>1, <2>2, <2>3 DEF GapsLooked
  <1> QED
    BY <1>2, <1>3

\* So whatever is still to be done has a worker.
LEMMA SomeoneWillStep ==
    ASSUME IInv, ChunkOwned, SomeoneWill, NEW t \in Threads, Worker(t), ~Panic(t)
    PROVE  SomeoneWill'
  BY ChunksClaimedStep, ChunksWorkedStep, KeysWorkedStep, GapsLookedStep, GapsWorkedStep,
     MapsReleasedStep, MapsMergedStep, EndWorkedStep DEF SomeoneWill

\* The worker of the last chunk claimed keeps its number until it claims another.
LEMMA LastClaimedStep ==
    ASSUME IInv, LastClaimed, NEW t \in Threads, Worker(t), ~Panic(t)
    PROVE  LastClaimed'
  <1>0. \A u \in Threads \ {t} : chunk'[u] = chunk[u]
    BY OthersStay DEF IInv
  <1>c. Chunks \in Nat \ {0} /\ next \in Nat
    BY ChunksAssumption, Typed
  <1>1. CASE Claim(t) /\ next < Chunks
    <2>1. next' = next + 1 /\ chunk'[t] = next
      BY <1>1 DEF Claim, IInv, TypeOK, LocalTypes
    <2> QED
      BY <1>1, <1>c, <2>1 DEF LastClaimed
  <1>2. CASE Claim(t) /\ ~(next < Chunks)
    <2>1. next' = next + 1 /\ chunk' = chunk
      BY <1>2 DEF Claim
    <2> QED
      BY <1>2, <1>c, <2>1 DEF LastClaimed
  <1>3. CASE ~Claim(t)
    <2>1. next' = next /\ chunk' = chunk
      BY <1>3, Changes
    <2> QED
      BY <2>1 DEF LastClaimed
  <1> QED
    BY <1>1, <1>2, <1>3

-------------------------------------------------------------------------------
(* The steps of the spawning thread, a panic, and the whole invariant. *)

\* The worker that panics held no list, and nothing but it and its mutexes changes.
LEMMA PanicRest ==
    ASSUME LInv, NEW t \in Threads, Worker(t), Panic(t)
    PROVE  LInv'
  <1>1. IInv'
    BY PanicStep DEF LInv
  <1>2. /\ pc'[t] = "panicked" /\ \A u \in Threads \ {t} : pc'[u] = pc[u]
        /\ UNCHANGED <<next, chunk, gap, reader, found, pieces, bumps, bumped, drained, gapBumps,
                       endTail, done, claimed, readers, seeds, taken, main>>
    BY DEF Panic, Goto, listing, once, flags, placed, LInv, IInv, TypeOK, LocalTypes
  <1>3. pc[t] \notin {"drain", "draining", "exited"}
    BY PanicAt DEF LInv, GapSteps
  <1>4. ChunkOwned' /\ RunsFollow' /\ GapsFollow'
    BY <1>2 DEF LInv, ChunkOwned, RunsFollow, GapsFollow, Seeding, GapSteps
  <1>5. ListInOrder'
    BY <1>2 DEF LInv, ListInOrder
  <1>6. NoneStranded'
    BY <1>2, <1>3 DEF LInv, NoneStranded
  <1>7. SomeoneWill'
    <2>1. /\ pc[t] \notin {"settle", "list", "alone", "merge"}
          /\ pc[t] = "endTail" => endTail
      BY PanicAt, Acts DEF GapSteps, LInv, SetEndTail, Panic, once
    <2>2. ChunksClaimed' /\ KeysWorked' /\ MapsMerged' /\ EndWorked'
      BY <1>2, <2>1 DEF LInv, SomeoneWill, ChunksClaimed, KeysWorked, MapsMerged, EndWorked
    <2>3. ChunksWorked' /\ GapsWorked'
      BY <1>2 DEF LInv, SomeoneWill, ChunksWorked, GapsWorked
    <2>4. GapsLooked'
      <3>1. \A u \in Threads, g \in GapIx :
                WillLook(u, g) \/ DiedAt(u, {g, g + 1}) => WillLook(u, g)' \/ DiedAt(u, {g, g + 1})'
        BY <1>2 DEF WillLook, DiedAt
      <3> QED
        BY <1>2, <3>1 DEF LInv, SomeoneWill, GapsLooked
    <2>5. MapsReleased'
      <3>1. \A u \in Threads, k \in Chunk :
                WillRelease(u, k) \/ DiedAt(u, {k - 1, k, k + 1}) =>
                    WillRelease(u, k)' \/ DiedAt(u, {k - 1, k, k + 1})'
        BY <1>2, <2>1, ReaderNear DEF WillRelease, DiedAt, Releasing, LInv
      <3> QED
        BY <1>2, <3>1 DEF LInv, SomeoneWill, MapsReleased
    <2> QED
      BY <2>2, <2>3, <2>4, <2>5 DEF SomeoneWill
  <1>8. MainWaits' /\ LastClaimed'
    BY <1>2, <1>3 DEF LInv, MainWaits, LastClaimed
  <1> QED
    BY <1>1, <1>4, <1>5, <1>6, <1>7, <1>8 DEF LInv

\* The gaps' keys follow the chunks' in the list that is handed on.
LEMMA WholeList ==
    [i \in 1 .. Chunks |-> RunOf(i - 1)] \o [i \in 1 .. Chunks |-> GapOf(i - 1)] = Order!HandedOn
  <1> DEFINE r == [i \in 1 .. Chunks |-> RunOf(i - 1)]
             g == [i \in 1 .. Chunks |-> GapOf(i - 1)]
             h == [i \in 1 .. 2 * Chunks |->
                      IF i <= Chunks THEN RunOf(i - 1) ELSE GapOf(i - Chunks - 1)]
  <1>0. Order!HandedOn = h
    BY DEF Order!HandedOn, Order!RunOf, Order!GapOf, RunOf, GapOf
  <1>1. r \in Seq(Int) /\ Len(r) = Chunks /\ g \in Seq(Int) /\ Len(g) = Chunks
    BY ChunksAssumption DEF RunOf, GapOf
  <1>2. h \in Seq(Int) /\ Len(h) = 2 * Chunks
    BY ChunksAssumption DEF RunOf, GapOf
  <1>3. r \o g \in Seq(Int) /\ Len(r \o g) = 2 * Chunks
    BY <1>1, ChunksAssumption
  <1>4. \A i \in 1 .. 2 * Chunks : (r \o g)[i] = h[i]
    <2> TAKE i \in 1 .. 2 * Chunks
    <2>1. CASE i <= Chunks
      <3>1. (r \o g)[i] = r[i] /\ i \in 1 .. Chunks
        BY <1>1, <2>1, ChunksAssumption
      <3> QED
        BY <2>1, <3>1
    <2>2. CASE ~(i <= Chunks)
      <3>1. (r \o g)[i] = g[i - Chunks] /\ i - Chunks \in 1 .. Chunks
        BY <1>1, <2>2, ChunksAssumption
      <3> QED
        BY <2>2, <3>1
    <2> QED
      BY <2>1, <2>2
  <1> HIDE DEF r, g, h
  <1>5. r \o g = h
    BY <1>2, <1>3, <1>4, SeqEqual
  <1> QED
    BY <1>0, <1>5 DEF r, g

\* The spawning thread goes on when every worker is out and nothing is lost.
LEMMA MainRest ==
    ASSUME LInv, Join \/ PlaceEndGap
    PROVE  LInv'
  <1>1. IInv'
    BY MainStep DEF LInv
  <1>2. UNCHANGED <<next, pc, chunk, gap, reader, found, pieces, bumps, drained, gapBumps, endTail,
                    done, claimed, readers>>
    BY DEF Join, PlaceEndGap, local, slots, listing, once, flags
  <1>3. /\ \A k \in Chunk : seeds'[RunOf(k)] = seeds[RunOf(k)]
        /\ \A g \in GapIx : seeds'[GapOf(g)] = seeds[GapOf(g)]
        /\ \A k \in Chunk : RunOf(k) \in taken' <=> RunOf(k) \in taken
        /\ \A g \in GapIx : GapOf(g) \in taken' <=> GapOf(g) \in taken
    <2>1. CASE Join
      BY <2>1 DEF Join, placed
    <2>2. CASE PlaceEndGap
      BY <2>2, Indices, RunsDiffer, Distinct DEF PlaceEndGap, LInv, IInv, TypeOK, PlacedTypes
    <2> QED
      BY <2>1, <2>2
  <1>4. ChunkOwned'
    BY <1>2 DEF LInv, ChunkOwned
  <1>5. RunsFollow'
    <2>1. \A t \in Threads : chunk[t] \in Chunk
      BY Typed DEF LInv
    <2> QED
      BY <1>2, <1>3, <2>1 DEF LInv, RunsFollow
  <1>6. GapsFollow'
    <2>1. \A t \in Threads : pc[t] \in GapSteps => gap[t] \in GapIx
      BY AtGap DEF LInv
    <2> QED
      BY <1>2, <1>3, <2>1 DEF LInv, GapsFollow, GapSteps
  <1>7. ListInOrder' /\ MainWaits'
    <2>1. CASE Join
      <3>1. main = "scope" /\ main' \in {"endGap", "panicked"} /\ UNCHANGED <<bumped, seeds, taken>>
        BY <2>1 DEF Join, listing, placed
      <3>2. main' = "endGap" => (\A t \in Threads : pc[t] = "exited") /\ drained = Chunks
        BY <2>1 DEF Join
      <3> QED
        BY <1>2, <3>1, <3>2 DEF LInv, ListInOrder, MainWaits
    <2>2. CASE PlaceEndGap
      <3>1. /\ main = "endGap" /\ main' = "returned"
            /\ bumped' = bumped \o [i \in 1 .. Chunks |-> GapOf(i - 1)]
        BY <2>2 DEF PlaceEndGap
      <3>2. bumped = [i \in 1 .. Chunks |-> RunOf(i - 1)]
        BY <3>1 DEF LInv, ListInOrder, MainWaits
      <3>3. bumped' = Order!HandedOn
        BY <3>1, <3>2, WholeList
      <3>4. Order!HandedOn' = Order!HandedOn
        BY DEF Order!HandedOn
      <3> QED
        BY <1>2, <3>1, <3>3, <3>4 DEF LInv, ListInOrder, MainWaits
    <2> QED
      BY <2>1, <2>2
  <1>8. NoneStranded' /\ LastClaimed'
    BY <1>2 DEF LInv, NoneStranded, LastClaimed
  <1>9. SomeoneWill'
    <2>c. Chunks - 1 \in Chunk
      BY ChunksAssumption DEF Chunk
    <2> QED
      BY <1>2, <1>3, <2>c DEF LInv, SomeoneWill, ChunksClaimed, ChunksWorked, KeysWorked,
         GapsLooked, GapsWorked, MapsReleased, MapsMerged, EndWorked, WillLook, WillRelease, DiedAt
  <1> QED
    BY <1>1, <1>4, <1>5, <1>6, <1>7, <1>8, <1>9 DEF LInv

\* At the start no chunk is claimed and nothing is placed.
LEMMA InitRest == Init => LInv
  <1> SUFFICES ASSUME Init
               PROVE  LInv
    OBVIOUS
  <1>1. \A k \in Chunk : k >= next /\ ~(k < next) /\ seeds[RunOf(k)] = Unplaced
                        /\ bumps[k] = "none" /\ pieces[k] = "none"
    BY Indices, ChunksAssumption DEF Init, Chunk
  <1>2. \A g \in GapIx : seeds[GapOf(g)] = Unplaced
    BY Indices DEF Init
  <1>3. ChunkOwned /\ RunsFollow /\ GapsFollow
    BY <1>1, <1>2, Indices DEF Init, ChunkOwned, RunsFollow, GapsFollow, Seeding, GapSteps
  <1>4. ListInOrder
    <2>1. bumped = <<>> /\ drained = 0 /\ main = "scope"
      BY DEF Init
    <2>2. [i \in 1 .. 0 |-> RunOf(i - 1)] = <<>>
      OBVIOUS
    <2>3. \A k \in Chunk : ~(k < 0)
      BY DEF Chunk
    <2> QED
      BY <1>1, <2>1, <2>2, <2>3 DEF ListInOrder
  <1>5. NoneStranded /\ MainWaits
    <2>1. drained = 0 /\ 0 \in Chunk
      BY ChunksAssumption DEF Init, Chunk
    <2> QED
      BY <1>1, <2>1, Indices DEF Init, NoneStranded, MainWaits
  <1>6. SomeoneWill /\ LastClaimed
    BY <1>1, Indices DEF Init, LastClaimed, SomeoneWill, ChunksClaimed, ChunksWorked, KeysWorked, GapsLooked,
       GapsWorked, MapsReleased, MapsMerged, EndWorked
  <1> QED
    BY <1>3, <1>4, <1>5, <1>6, InitIInv DEF LInv

\* A step of a worker keeps the whole invariant.
LEMMA WorkerRest ==
    ASSUME LInv, NEW t \in Threads, Worker(t)
    PROVE  LInv'
  <1>1. CASE Panic(t)
    BY <1>1, PanicRest
  <1>2. CASE ~Panic(t)
    BY <1>2, WorkerStep, ChunkOwnedStep, RunsFollowStep, GapsFollowStep, ListInOrderStep,
       NoneStrandedStep, SomeoneWillStep, LastClaimedStep, MainWaitsStep DEF LInv
  <1> QED
    BY <1>1, <1>2

\* The induction of NothingLost and PlacesTheLevel: every step keeps the whole invariant.
THEOREM WholeInductive == Spec => []LInv
  <1>1. ASSUME LInv, [Next]_vars
        PROVE  LInv'
    <2>1. CASE \E t \in Threads : Worker(t)
      BY <1>1, <2>1, WorkerRest
    <2>2. CASE Join \/ PlaceEndGap
      BY <1>1, <2>2, MainRest
    <2>3. CASE UNCHANGED vars
      <3>1. /\ UNCHANGED <<next, pc, chunk, gap, reader, found, pieces, bumps, bumped, drained>>
            /\ UNCHANGED <<gapBumps, endTail, done, claimed, readers, seeds, taken, main>>
        BY <2>3 DEF vars, local, slots, listing, once, flags, placed
      <3>2. IInv'
        BY <1>1, <2>3, InductiveStep DEF LInv
      <3>3. ChunkOwned' /\ RunsFollow' /\ GapsFollow' /\ ListInOrder' /\ NoneStranded'
            /\ LastClaimed' /\ MainWaits'
        BY <1>1, <3>1 DEF LInv, ChunkOwned, RunsFollow, GapsFollow, ListInOrder, NoneStranded,
           LastClaimed, MainWaits, Order!HandedOn
      <3>4. SomeoneWill'
        BY <1>1, <3>1 DEF LInv, SomeoneWill, ChunksClaimed, ChunksWorked, KeysWorked, GapsLooked,
           GapsWorked, MapsReleased, MapsMerged, EndWorked, WillLook, WillRelease, DiedAt
      <3> QED
        BY <3>2, <3>3, <3>4 DEF LInv
    <2> QED
      BY <1>1, <2>1, <2>2, <2>3 DEF Next, Finished
  <1> QED
    BY <1>1, InitRest, PTL DEF Spec

-------------------------------------------------------------------------------
(* What the invariant says when every worker has left. *)

\* Every piece but the end gap is a run or the gap between two chunks.
LEMMA EveryPiece ==
    ASSUME NEW p \in Pieces \ {EndGap}
    PROVE  (\E k \in Chunk : p = RunOf(k)) \/ (\E g \in GapIx : p = GapOf(g))
  <1> DEFINE k == p \div 2
  <1>1. p \in Int /\ p >= 0 /\ p < 2 * Chunks - 1 /\ Chunks \in Int
    BY ChunksAssumption DEF Pieces, EndGap
  <1>2. k \in Int /\ (p = 2 * k \/ p = 2 * k + 1)
    BY <1>1
  <1> HIDE DEF k
  <1>3. CASE p = 2 * k
    <2>1. k \in Chunk
      BY <1>1, <1>2, <1>3 DEF Chunk
    <2> QED
      BY <1>3, <2>1 DEF RunOf
  <1>4. CASE p = 2 * k + 1
    <2>1. k \in GapIx
      BY <1>1, <1>2, <1>4 DEF GapIx
    <2> QED
      BY <1>4, <2>1 DEF GapOf
  <1> QED
    BY <1>2, <1>3, <1>4

\* When every worker has left without a panic, all that was to be done is.
LEMMA AllDone ==
    ASSUME LInv, \A t \in Threads : pc[t] = "exited"
    PROVE  /\ gapBumps = GapIx /\ drained = Chunks /\ endTail
           /\ Pieces \ {EndGap} \subseteq taken
           /\ \A k \in Chunk : done[k]
  <1>s. /\ ChunksClaimed /\ ChunksWorked /\ KeysWorked /\ GapsLooked
        /\ GapsWorked /\ MapsReleased /\ MapsMerged /\ EndWorked
    BY DEF LInv, SomeoneWill
  <1>n. \A k \in Chunk : k < next
    <2>1. next >= Chunks /\ next \in Nat
      BY <1>s, ThreadsAssumption DEF ChunksClaimed, LInv, IInv, TypeOK
    <2> QED
      BY <2>1, ChunksAssumption DEF Chunk
  <1>d. \A k \in Chunk : done[k]
    BY <1>n, <1>s DEF ChunksWorked, Seeding
  <1>b. \A k \in Chunk : bumps[k] # "none"
    BY <1>n, <1>s DEF KeysWorked
  <1>c. \A g \in GapIx : claimed[g]
    BY <1>d, <1>s, Indices DEF GapsLooked, WillLook, DiedAt, GapSteps, Releasing
  <1>g. \A g \in GapIx : GapOf(g) \in taken
    BY <1>c, <1>s DEF GapsWorked, GapSteps
  <1>1. gapBumps = GapIx
    BY <1>g DEF LInv, IInv, GapOwned, TypeOK, OnceTypes
  <1>2. drained = Chunks
    <2>1. drained \in Nat /\ drained <= Chunks /\ Chunks \in Nat
      BY ChunksAssumption DEF LInv, IInv, TypeOK, ListTypes
    <2>2. ASSUME drained < Chunks
          PROVE  FALSE
      <3>1. drained \in Chunk
        BY <2>1, <2>2, Indices
      <3>2. bumps[drained] # "taken" /\ bumps[drained] # "none"
        BY <1>b, <2>1, <3>1 DEF LInv, ListInOrder
      <3>3. bumps[drained] = "some"
        BY <3>1, <3>2 DEF LInv, IInv, TypeOK, ListTypes
      <3> QED
        BY <2>2, <3>3 DEF LInv, NoneStranded
    <2> QED
      BY <2>1, <2>2
  <1>r. \A k \in Chunk : RunOf(k) \in taken
    <2> TAKE k \in Chunk
    <2>1. \A g \in GapIx : ~ToCount(g, k)
      BY <1>g DEF ToCount, Owes, Releasing
    <2>2. readers[k] = 0
      BY <2>1 DEF LInv, IInv, Counted, Yet
    <2>3. pieces[k] = "taken"
      BY <1>d, <1>s, <2>2 DEF MapsReleased, WillRelease, DiedAt
    <2> QED
      BY <1>s, <2>3 DEF MapsMerged
  <1>3. endTail
    <2>1. Chunks - 1 \in Chunk /\ \E t \in Threads : TRUE
      BY ChunksAssumption, ThreadsAssumption DEF Chunk
    <2> QED
      BY <1>r, <1>s, <2>1 DEF EndWorked
  <1>4. Pieces \ {EndGap} \subseteq taken
    BY <1>g, <1>r, EveryPiece
  <1> QED
    BY <1>d, <1>1, <1>2, <1>3, <1>4

\* No list is stranded, and when every worker has left without a panic each gap was placed by one
\* of the two workers that finished its chunks, every list is in, and the level's map is whole.
THEOREM NothingIsLost == Spec => []NothingLost
  <1>1. LInv => NothingLost
    BY AllDone DEF NothingLost, LInv
  <1> QED
    BY <1>1, WholeInductive, PTL

-------------------------------------------------------------------------------
(* The refinement. *)

\* LevelOrder's index sets are this module's.
LEMMA SameIndices ==
    /\ Order!Chunk = Chunk /\ Order!GapIx = GapIx /\ Order!Pieces = Pieces
    /\ Order!EndGap = EndGap /\ Order!Unplaced = Unplaced
    /\ \A k : Order!RunOf(k) = RunOf(k)
    /\ \A g : Order!GapOf(g) = GapOf(g)
  BY DEF Order!Chunk, Order!GapIx, Order!Pieces, Order!EndGap, Order!Unplaced, Order!RunOf,
     Order!GapOf, Chunk, GapIx, Pieces, EndGap, Unplaced, RunOf, GapOf

\* Every step of the level's placement is a step of LevelOrder, or changes nothing it sees.
LEMMA StepPlaces ==
    ASSUME LInv, LInv', [Next]_vars
    PROVE  [Order!Next]_(Order!vars)
  <1> DEFINE handed == IF main = "returned" THEN bumped ELSE <<>>
  <1>s. ASSUME seeds' = seeds, handed' = handed
        PROVE  [Order!Next]_(Order!vars)
    BY <1>s DEF Order!vars
  <1>1. ASSUME NEW t \in Threads, Worker(t)
        PROVE  [Order!Next]_(Order!vars)
    <2>1. handed' = <<>> /\ handed = <<>>
      <3>1. main # "returned" /\ main' = main
        <4>1. CASE Panic(t)
          BY <4>1, <1>1, PanicAt DEF Panic, LInv, MainWaits, GapSteps
        <4>2. CASE ~Panic(t)
          BY <4>2, <1>1, Acts, Changes DEF LInv, MainWaits
        <4> QED
          BY <4>1, <4>2
      <3> QED
        BY <3>1
    <2>2. CASE SettleRun(t)
      <3>1. /\ pc[t] = "settle" /\ chunk[t] \in Chunk
            /\ seeds' = [seeds EXCEPT ![RunOf(chunk[t])] = {}]
            /\ seeds[RunOf(chunk[t])] = Unplaced
        BY <1>1, <2>2, Typed DEF SettleRun, Step, LInv, RunsFollow
      <3>2. Order!PlaceRun(chunk[t])
        BY <2>1, <3>1, SameIndices DEF Order!PlaceRun, Order!Placed
      <3> QED
        BY <3>1, <3>2, SameIndices DEF Order!Next
    <2>3. CASE SettleGap(t)
      <3>1. /\ pc[t] = "settleGap" /\ gap[t] \in GapIx /\ gap[t] \in Chunk /\ gap[t] + 1 \in Chunk
            /\ done[gap[t]] /\ done[gap[t] + 1]
        BY <1>1, <2>3, AtGap DEF SettleGap, Step, GapSteps, LInv
      <3>2. /\ seeds' = [seeds EXCEPT ![GapOf(gap[t])] = {RunOf(gap[t]), RunOf(gap[t] + 1)}]
            /\ seeds[GapOf(gap[t])] = Unplaced
        BY <1>1, <2>3, <3>1 DEF SettleGap, LInv, GapsFollow, GapSteps
      <3>3. \A k \in Chunk : done[k] => seeds[RunOf(k)] # Unplaced
        BY DEF LInv, RunsFollow, Unplaced
      <3>4. Order!PlaceGap(gap[t])
        BY <2>1, <3>1, <3>2, <3>3, SameIndices DEF Order!PlaceGap, Order!Placed
      <3> QED
        BY <3>1, <3>4, SameIndices DEF Order!Next
    <2>4. CASE ~SettleRun(t) /\ ~SettleGap(t)
      <3>1. seeds' = seeds
        <4>1. CASE Panic(t)
          BY <4>1 DEF Panic, placed
        <4>2. CASE ~Panic(t)
          BY <1>1, <2>4, <4>2, Changes
        <4> QED
          BY <4>1, <4>2
      <3> QED
        BY <1>s, <2>1, <3>1
    <2> QED
      BY <2>2, <2>3, <2>4
  <1>2. ASSUME Join
        PROVE  [Order!Next]_(Order!vars)
    BY <1>2, <1>s DEF Join, placed
  <1>3. ASSUME PlaceEndGap
        PROVE  [Order!Next]_(Order!vars)
    <2>1. (\A t \in Threads : pc[t] = "exited") /\ seeds[EndGap] = Unplaced /\ EndGap \notin taken
      BY <1>3 DEF PlaceEndGap, LInv, MainWaits
    <2>2. taken = Pieces \ {EndGap} /\ \A k \in Chunk : done[k]
      BY <2>1, AllDone DEF LInv, IInv, TypeOK, PlacedTypes
    <2>3. \A p \in Pieces \ {EndGap} : seeds[p] # Unplaced
      <3>1. \A k \in Chunk : seeds[RunOf(k)] # Unplaced
        BY <2>2 DEF LInv, RunsFollow, Unplaced
      <3>2. \A g \in GapIx : seeds[GapOf(g)] # Unplaced
        <4>1. \A g \in GapIx : GapOf(g) \in taken
          BY <2>2, Indices, Distinct
        <4> QED
          BY <4>1 DEF LInv, GapsFollow
      <3> QED
        BY <3>1, <3>2, EveryPiece
    <2>4. handed' = Order!HandedOn
      <3>1. main' = "returned" /\ Order!HandedOn' = Order!HandedOn
        BY <1>3 DEF PlaceEndGap, Order!HandedOn
      <3> QED
        BY <3>1 DEF LInv, ListInOrder
    <2>5. Order!PlaceEndGap
      BY <1>3, <2>1, <2>2, <2>3, <2>4, SameIndices DEF PlaceEndGap, Order!PlaceEndGap, Order!Placed
    <2> QED
      BY <2>5 DEF Order!Next
  <1>4. ASSUME UNCHANGED vars
        PROVE  [Order!Next]_(Order!vars)
    BY <1>4, <1>s DEF vars, listing, placed
  <1> QED
    BY <1>1, <1>2, <1>3, <1>4 DEF Next, Finished

\* Every schedule of the workers places the level LevelOrder does: each piece once, against the
\* pieces that reach it, and the bumped keys handed on in the level's order.
THEOREM ScheduleIrrelevant == Spec => PlacesTheLevel
  <1>1. Init => Order!Init
    BY SameIndices DEF Init, Order!Init
  <1>2. LInv /\ LInv' /\ [Next]_vars => [Order!Next]_(Order!vars)
    BY StepPlaces
  <1> QED
    BY <1>1, <1>2, WholeInductive, PTL DEF Spec, PlacesTheLevel, Order!Spec

-------------------------------------------------------------------------------
(* How many maps are held at once. *)

\* What the types say of the counters and of every worker.
LEMMA Typing ==
    ASSUME IInv
    PROVE  /\ next \in Nat /\ Chunks \in Nat \ {0} /\ Chunk \subseteq Int /\ Chunk \subseteq Nat
           /\ \A t \in Threads : chunk[t] \in Chunk /\ chunk[t] \in Int /\ gap[t] \in Int
  BY ChunksAssumption DEF IInv, TypeOK, LocalTypes, Chunk

\* A map in its slot is of a chunk some worker is at, or of one beside it.
LEMMA HeldNear ==
    ASSUME LInv, NEW k \in Chunk, pieces[k] = "set"
    PROVE  \E t \in Threads : chunk[t] \in {k - 1, k, k + 1}
  <1>s. /\ ChunksWorked /\ GapsLooked /\ GapsWorked /\ MapsReleased /\ LastClaimed
        /\ \A t \in Threads : Located(t)
    BY DEF LInv, IInv, SomeoneWill
  <1>t. k \in Nat /\ next \in Nat /\ Chunks \in Nat /\ \A t \in Threads : chunk[t] \in Int /\ gap[t] \in Int
    BY Typing DEF LInv
  <1>n. k < next
    BY <1>t DEF LInv, RunsFollow
  <1>1. CASE ~done[k]
    BY <1>1, <1>n, <1>s DEF ChunksWorked
  <1>2. CASE done[k] /\ readers[k] = 0
    <2>1. PICK t \in Threads : WillRelease(t, k) \/ DiedAt(t, {k - 1, k, k + 1})
      BY <1>2, <1>s DEF MapsReleased
    <2> QED
      BY <2>1, ReaderNear DEF WillRelease, DiedAt, Releasing, LInv
  <1>3. CASE done[k] /\ readers[k] # 0
    <2>1. PICK g \in {k - 1, k} \cap GapIx : ToCount(g, k)
      <3>1. readers[k] = Yet(k - 1, k) + Yet(k, k)
        BY DEF LInv, IInv, Counted
      <3>2. Yet(k - 1, k) # 0 \/ Yet(k, k) # 0
        BY <1>3, <3>1
      <3> QED
        BY <3>2 DEF Yet
    <2>2. g \in GapIx /\ g \in {k - 1, k} /\ g \in Chunk /\ g + 1 \in Chunk /\ g \in Int
      BY <2>1, <1>t, Indices
    <2>3. \A t \in Threads : InGap(t) /\ gap[t] = g => chunk[t] \in {g, g + 1}
      <3> SUFFICES ASSUME NEW t \in Threads, InGap(t), gap[t] = g
                   PROVE  chunk[t] \in {g, g + 1}
        OBVIOUS
      <3>1. gap[t] \in {chunk[t] - 1, chunk[t]}
        BY <1>s DEF Located
      <3> QED
        BY <1>t, <3>1
    <2>4. CASE GapOf(g) \in taken
      <3>1. PICK t \in Threads : Owes(t, g, k)
        BY <2>1, <2>4 DEF ToCount
      <3>2. InGap(t) /\ gap[t] = g
        BY <3>1, <2>2, NoGapIsNone DEF Owes, InGap
      <3> QED
        BY <2>2, <2>3, <3>2, <1>t
    <2>5. CASE GapOf(g) \notin taken /\ claimed[g]
      <3>1. PICK t \in Threads : pc[t] \in GapSteps \cup {"panicked"} /\ gap[t] = g
        BY <2>2, <2>5, <1>s DEF GapsWorked
      <3>2. InGap(t)
        BY <3>1, <2>2, NoGapIsNone DEF InGap
      <3> QED
        BY <2>2, <2>3, <3>1, <3>2, <1>t
    <2>6. CASE ~claimed[g] /\ done[g] /\ done[g + 1]
      <3>1. PICK t \in Threads : WillLook(t, g) \/ DiedAt(t, {g, g + 1})
        BY <2>2, <2>6, <1>s DEF GapsLooked
      <3>2. chunk[t] \in {g, g + 1}
        BY <3>1 DEF WillLook, DiedAt
      <3> QED
        BY <2>2, <3>2, <1>t
    <2>7. CASE ~(done[g] /\ done[g + 1])
      <3>1. PICK j \in {g, g + 1} : ~done[j]
        BY <2>7
      <3>2. j \in Chunk /\ j \in {k - 1, k, k + 1} /\ j # k
        BY <1>3, <2>2, <3>1, <1>t
      <3>3. CASE j < next
        BY <1>s, <3>1, <3>2, <3>3, <1>t DEF ChunksWorked
      <3>4. CASE ~(j < next)
        <4>1. next = k + 1 /\ next < Chunks
          BY <1>n, <1>t, <3>2, <3>4 DEF Chunk
        <4> QED
          <5>1. PICK t \in Threads : chunk[t] = next - 1
            BY <1>s, <1>t, <4>1 DEF LastClaimed
          <5> QED
            BY <1>t, <4>1, <5>1
      <3> QED
        BY <3>3, <3>4
    <2> QED
      BY <2>4, <2>5, <2>6, <2>7
  <1> QED
    BY <1>1, <1>2, <1>3

\* A level holds the pieces in flight: a map in its slot is one of the three at some worker's chunk,
\* and none is the one after the last chunk claimed.
THEOREM HeldInFlight == Spec => []HeldPieces
  <1>1. ASSUME LInv
        PROVE  HeldPieces
    <2> DEFINE S == {k \in Chunk : pieces[k] = "set"}
               last == (IF next < Chunks THEN next ELSE Chunks) - 1
               Beside == Threads \X (-1 .. 1)
    <2>b. IsFiniteSet(Beside) /\ Cardinality(Beside) = 3 * Cardinality(Threads)
      <3>1. IsFiniteSet(-1 .. 1) /\ Cardinality(-1 .. 1) = 3
        <4>1. -1 \in Int /\ 1 \in Int /\ ~(-1 > 1) /\ 1 - (-1) + 1 = 3
          OBVIOUS
        <4> QED
          BY <4>1, FS_Interval
      <3>2. IsFiniteSet(Threads) /\ Cardinality(Threads) \in Nat
        BY ThreadsAssumption, FS_CardinalityType
      <3>3. IsFiniteSet(Beside) /\ Cardinality(Beside) = Cardinality(Threads) * 3
        BY <3>1, <3>2, FS_Product
      <3> QED
        BY <3>2, <3>3
    <2>c. Cardinality(Threads) \in Nat
      BY ThreadsAssumption, FS_CardinalityType
    <2>1. CASE next = 0
      <3>1. S = {}
        BY <1>1, <2>1 DEF LInv, RunsFollow, Chunk
      <3>2. Cardinality(S) = 0
        BY <3>1, FS_EmptySet
      <3>3. Cardinality(Threads) # 0
        BY ThreadsAssumption, FS_EmptySet
      <3> QED
        BY <2>c, <3>2, <3>3 DEF HeldPieces
    <2>2. CASE next # 0
      <3>t. Chunks \in Nat \ {0} /\ next \in Nat \ {0} /\ \A t \in Threads : chunk[t] \in Int
        BY <1>1, <2>2, Typing DEF LInv
      <3>1. PICK l \in Threads : chunk[l] = last
        BY <1>1, <3>t DEF LInv, LastClaimed
      <3> DEFINE T == Beside \ {<<l, 1>>}
                 at[k \in S] == CHOOSE t \in Threads : chunk[t] \in {k - 1, k, k + 1}
                 f == [k \in S |-> <<at[k], k - chunk[at[k]]>>]
      <3>2. \A k \in S : k \in Int /\ at[k] \in Threads /\ chunk[at[k]] \in {k - 1, k, k + 1}
        BY <1>1, HeldNear, Typing DEF LInv
      <3>3. \A k \in S : k <= last
        <4>1. \A k \in S : k < next
          BY <1>1, Typing DEF LInv, RunsFollow
        <4> QED
          BY <4>1, <3>t DEF Chunk
      <3> HIDE DEF S, at, last
      <3>4. \A k \in S : f[k] \in T
        <4> TAKE k \in S
        <4>1. k - chunk[at[k]] \in -1 .. 1
          BY <3>2, <3>t
        <4>2. ~(at[k] = l /\ k - chunk[at[k]] = 1)
          <5>1. last \in Int
            BY <3>1, <3>t
          <5> QED
            BY <3>1, <3>2, <3>3, <5>1
        <4> QED
          BY <3>2, <4>1, <4>2
      <3>5. \A j, k \in S : f[j] = f[k] => j = k
        <4> SUFFICES ASSUME NEW j \in S, NEW k \in S, f[j] = f[k]
                     PROVE  j = k
          OBVIOUS
        <4>1. at[j] = at[k] /\ j - chunk[at[j]] = k - chunk[at[k]]
          OBVIOUS
        <4> QED
          BY <4>1, <3>2, <3>t
      <3>6. f \in Injection(S, T)
        BY <3>4, <3>5 DEF Injection, IsInjective
      <3>7. IsFiniteSet(T) /\ Cardinality(T) = 3 * Cardinality(Threads) - 1
        <4>1. <<l, 1>> \in Beside
          OBVIOUS
        <4> QED
          BY <2>b, <4>1, FS_RemoveElement
      <3>8. Cardinality(S) <= Cardinality(T)
        BY <3>6, <3>7, FS_Injection
      <3> QED
        BY <3>7, <3>8 DEF S, HeldPieces
    <2> QED
      BY <2>1, <2>2
  <1> QED
    BY <1>1, WholeInductive, PTL

===============================================================================
