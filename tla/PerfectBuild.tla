------------------------------ MODULE PerfectBuild ------------------------------
(***************************************************************************)
(* PerfectHashIndex::build_to_file (src/src/perfect_hash.rs): the source   *)
(* is asked for its keys twice; the first pass hashes and measures them,   *)
(* the second writes each at the slot the first gave it, straight into the *)
(* file or, an arena larger than a window, through a spill file that is    *)
(* scattered a window at a time.                                           *)
(*                                                                         *)
(* A key is [name, hash, fp, len], its bytes len times its name; no two    *)
(* keys agree on hash, fp and len. The digest of a pass is the sequence of *)
(* its second hashes: that two of those fold to one is left out. A source  *)
(* that fails ends its pass early, and check() says so. The temporary of   *)
(* the output is AtomicWrite's.                                            *)
(***************************************************************************)
EXTENDS Integers, Sequences, FiniteSets, SequencesExt, FiniteSetsExt, TLAPS

CONSTANTS
    Keys,        \* bound: the keys a source may yield
    MaxKeys,     \* bound: keys a pass
    SlotOrder,   \* every hash once: the order of their slots
    Windows,     \* bound: the arena windows, SPILL_WINDOW in the code
    SPILL_BUF,   \* what a window's buffer holds before it is written
    MaxFaults    \* bound: failing calls a build

VARIABLES
    build,    \* where the build is: [at, window, faults, failed, result]
    first,    \* the keys of the first pass
    second,   \* the keys of the second that were placed
    arena,    \* offset -> byte of the output's arena
    spill,    \* [exists, at, buf, cursor]: the spill's bytes, and what is still to go into it
    target    \* what the path names: the slot of each key and the arena's bytes

vars == <<build, first, second, arena, spill, target>>

P == INSTANCE PerfectHash WITH FpByte <- 2

Unwritten == -1
SLOT_TAG  == 1
Bytes(k)  == [i \in 1 .. k.len |-> k.name]
HashesOf    == [i \in DOMAIN first |-> first[i].hash]
\* Sum of f over the naturals below n.
SumTo(f(_), n) == MapThenSumSet(f, 0 .. n - 1)

-------------------------------------------------------------------------------
(* The layout: fixed by the first pass. *)

n        == Len(first)
slot_of  == P!SlotOf(HashesOf)
KeyAt(s) == first[CHOOSE i \in DOMAIN first : slot_of[i] = s]
data_len == SumTo(LAMBDA s : KeyAt(s).len, n)
\* span: where a slot's bytes are, [from, to).
From(s)  == SumTo(LAMBDA t : KeyAt(t).len, s)
To(s)    == From(s) + KeyAt(s).len

windows == (data_len + build.window - 1) \div build.window
\* An empty key at the very end starts at data_len, past the last window.
window_of(s) == Min({From(s) \div build.window, windows - 1})

region_len(w) == SumTo(LAMBDA s : IF window_of(s) = w THEN SLOT_TAG + KeyAt(s).len ELSE 0, n)
region_at(w)  == SumTo(region_len, w)

Windowed == data_len > build.window

-------------------------------------------------------------------------------
Idle    == [at |-> "idle", window |-> 1, faults |-> 0, failed |-> FALSE, result |-> "none"]
NoSpill == [exists |-> FALSE, at |-> <<>>, buf |-> <<>>, cursor |-> <<>>]
Old     == [slots |-> <<>>, bytes |-> <<"old">>]

Init ==
    /\ build = Idle
    /\ first = <<>> /\ second = <<>> /\ arena = <<>>
    /\ spill = NoSpill
    /\ target = Old

\* Fault: the spill is removed by a build that gets to its end, and no other.
DropSpillAtTheEnd(result) == IF result = "ok" THEN NoSpill ELSE spill

\* Drop for Spill, on every way out.
DropSpill(result) == NoSpill

Return(result) ==
    /\ build' = [build EXCEPT !.at = "returned", !.result = result]
    /\ spill' = DropSpill(result)

Refuse == Return("error") /\ UNCHANGED <<first, second, arena, target>>

\* A call of the file system may fail.
Fails == build.faults < MaxFaults
FailsWith == /\ Fails
             /\ build' = [build EXCEPT !.at = "returned", !.result = "error", !.faults = @ + 1]
             /\ spill' = DropSpill("error")
             /\ UNCHANGED <<first, second, arena, target>>

Start ==
    /\ build.at = "idle"
    /\ \E w \in Windows : build' = [Idle EXCEPT !.at = "first", !.window = w]
    /\ UNCHANGED <<first, second, arena, spill, target>>

FirstKey ==
    /\ build.at = "first" /\ n < MaxKeys
    /\ \E k \in Keys : first' = Append(first, k)
    /\ UNCHANGED <<build, second, arena, spill, target>>

\* check(), then the perfect hash, the layout, and the spill if one window is not enough.
FirstEnds ==
    /\ build.at = "first"
    /\ \E failed \in BOOLEAN :
         IF failed THEN Return("error") /\ UNCHANGED <<arena, target>>
         ELSE IF n = 0 THEN /\ Return("ok")
                            /\ target' = [slots |-> <<>>, bytes |-> <<>>]
                            /\ UNCHANGED arena
         ELSE /\ arena' = [o \in 0 .. data_len - 1 |-> Unwritten]
              /\ build' = [build EXCEPT !.at = "second"]
              /\ spill' = IF Windowed
                          THEN [exists |-> TRUE,
                                at     |-> [o \in 0 .. region_at(windows) - 1 |-> Unwritten],
                                buf    |-> [w \in 0 .. windows - 1 |-> <<>>],
                                cursor |-> [w \in 0 .. windows - 1 |-> 0]]
                          ELSE NoSpill
              /\ UNCHANGED target
    /\ UNCHANGED <<first, second>>

\* Spill::create fails.
NoRoomForSpill == build.at = "first" /\ n > 0 /\ Windowed /\ FailsWith

-------------------------------------------------------------------------------
(* The second pass. *)

Next_i == Len(second) + 1

\* replay_span: the key has the hash and the length of the one the first pass put there.
Replays(k) == Next_i <= n /\ k.hash = first[Next_i].hash /\ k.len = first[Next_i].len

WriteAt(f, o, bytes) == [p \in DOMAIN f |-> IF p \in o .. o + Len(bytes) - 1 THEN bytes[p - o + 1] ELSE f[p]]

\* A window's buffer is written out at its cursor.
Flushed(sp, w) ==
    [sp EXCEPT !.at = WriteAt(@, region_at(w) + sp.cursor[w], sp.buf[w]),
               !.cursor[w] = @ + Len(sp.buf[w]),
               !.buf[w] = <<>>]

Buffered(k) == LET s == slot_of[Next_i] IN [spill EXCEPT !.buf[window_of(s)] = @ \o <<s>> \o Bytes(k)]

SecondKey ==
    /\ build.at = "second"
    /\ \E k \in Keys :
         IF ~ Replays(k) THEN Refuse
         ELSE LET s  == slot_of[Next_i]
                  w  == window_of(s)
                  sp == Buffered(k)
              IN  /\ second' = Append(second, k)
                  /\ IF ~ Windowed
                     THEN arena' = WriteAt(arena, From(s), Bytes(k)) /\ UNCHANGED spill
                     ELSE /\ spill' = IF Len(sp.buf[w]) >= SPILL_BUF THEN Flushed(sp, w) ELSE sp
                          /\ UNCHANGED arena
                  /\ UNCHANGED <<build, first, target>>

FlushedUpTo(sp, w) ==
    LET flushed[v \in 0 .. w] == IF v = 0 THEN sp ELSE Flushed(flushed[v - 1], v - 1) IN flushed[w]

\* A pass that ends short goes no further; otherwise what is still buffered is written.
SecondEnds ==
    /\ build.at = "second"
    /\ \E failed \in BOOLEAN :
         IF Windowed /\ Len(second) # n THEN Refuse
         ELSE /\ build' = [build EXCEPT !.at = IF Windowed THEN "scatter" ELSE "judge", !.failed = failed]
              /\ spill' = IF Windowed THEN FlushedUpTo(spill, windows) ELSE spill
              /\ UNCHANGED <<first, second, arena, target>>

\* What the region of a window scatters: its records, one after another, each a tag at least; a tag
\* that is no slot's panics. read: the arena and how far the region was read, after so many records.
Scattered(f, at, left) ==
    LET read[k \in 0 .. left] ==
            IF k = 0 THEN [f |-> f, at |-> at]
            ELSE LET was == read[k - 1]
                     s   == spill.at[was.at]
                     len == KeyAt(s).len
                 IN  IF was.f = <<"panic">> \/ was.at >= at + left THEN was
                     ELSE IF s \notin 0 .. n - 1 THEN [was EXCEPT !.f = <<"panic">>]
                     ELSE [f  |-> WriteAt(was.f, From(s), [i \in 1 .. len |-> spill.at[was.at + i]]),
                           at |-> was.at + SLOT_TAG + len]
    IN  read[left].f

ScatteredUpTo(f, w) ==
    LET upTo[v \in 0 .. w] ==
            IF v = 0 THEN f ELSE Scattered(upTo[v - 1], region_at(v - 1), region_len(v - 1))
    IN  upTo[w]

\* Every window is read back and filled, then the spill is dropped.
Scatter ==
    /\ build.at = "scatter"
    /\ arena' = ScatteredUpTo(arena, windows)
    /\ build' = [build EXCEPT !.at = "judge"]
    /\ spill' = NoSpill
    /\ UNCHANGED <<first, second, target>>

\* A write to the spill, a read of it or a flush of the mapping fails.
FillFails == build.at \in {"second", "scatter"} /\ Windowed /\ FailsWith

-------------------------------------------------------------------------------
\* Fault: the passes are compared by their number of keys.
SamePassesByCount == Len(second) = n

\* The count and the digests of the two passes.
SamePasses == /\ Len(second) = n
              /\ \A i \in DOMAIN second : second[i].fp = first[i].fp

Content(s) == [i \in 1 .. KeyAt(s).len |-> arena[From(s) + i - 1]]

\* Fault: keys that share a hash are taken for one key.
RepeatsAnyHash == \E i \in DOMAIN first : slot_of[i] >= Cardinality(ToSet(HashesOf))

\* An extra whose bytes are its representative's.
Repeats ==
    LET split == P!split_collisions(HashesOf)
    IN  \E i \in ToSet(split.extras) : \E r \in split.reps :
            /\ first[r].hash = first[i].hash
            /\ Content(slot_of[i]) = Content(slot_of[r])

\* The passes are compared, the extras looked at, check() asked again; then the rename.
Judge ==
    /\ build.at = "judge"
    /\ IF ~ SamePasses \/ Repeats \/ build.failed THEN Refuse
       ELSE /\ Return("ok")
            /\ target' = [slots |-> slot_of, bytes |-> arena]
            /\ UNCHANGED <<first, second, arena>>

\* The mapping, its flush, the rename or another call of the atomic write fails.
PublishFails == build.at = "judge" /\ FailsWith

Next ==
    \/ Start \/ FirstKey \/ FirstEnds \/ NoRoomForSpill
    \/ SecondKey \/ SecondEnds \/ Scatter \/ FillFails
    \/ Judge \/ PublishFails

-------------------------------------------------------------------------------
(* The properties. *)

\* What is published was written from a second pass that is the first: a source that dropped, added,
\* reordered or replaced a key was refused.
PublishesOnePass == build.result = "ok" => second = first

\* What is published holds every key of the first pass, at the slot of its own that the hash built
\* from that pass gives it, byte for byte and whatever the windows, although it was written from
\* the second. Keys alone with their hash have the ids the in-memory build gives them.
PublishesThePass ==
    /\ PublishesOnePass
    /\ build.result = "ok" =>
        /\ Len(target.slots) = n /\ IsInjective(target.slots)
        /\ \A i \in DOMAIN first :
             [j \in 1 .. first[i].len |-> target.bytes[From(target.slots[i]) + j - 1]] = Bytes(first[i])
        /\ IsInjective(first) =>
             \A i \in DOMAIN first :
                (\A j \in DOMAIN first \ {i} : first[j].hash # first[i].hash) =>
                    target.slots[i] = P!id(P!build_with(first, FALSE), first[i])

\* A build that refuses, or that a call fails, leaves the path as it was and no spill behind; no
\* spill outlives a build.
FailedLeavesNothing ==
    /\ build.result # "ok" => target = Old
    /\ build.at = "returned" => ~ spill.exists

\* A source whose passes are one, of distinct keys, is never refused: neither for two keys that
\* share a hash, nor for an empty key, nor for one that straddles two windows; and no record of the
\* spill is read as another slot's.
RefusedForAReason ==
    /\ arena # <<"panic">>
    /\ build.at = "judge" /\ second = first /\ IsInjective(first) => SamePasses /\ ~ Repeats
    /\ build.at = "second" /\ Next_i <= n => Replays(first[Next_i])

\* A published file has no key twice: "a duplicate is caught (by comparing the two written entries)
\* before the file is published" (build_to_file's documentation).
DuplicatesCaught ==
    build.result = "ok" => IsInjective(first)

-------------------------------------------------------------------------------
(* What is proved, for any keys and passes of any length. *)

\* build and how its passes stand to one another: what was placed are keys whose hash and length
\* are the first pass's; nothing is placed before the second; nothing is answered before the end.
PassInv ==
    /\ build = [at |-> build.at, window |-> build.window, faults |-> build.faults,
                failed |-> build.failed, result |-> build.result]
    /\ first \in Seq(Keys) /\ second \in Seq(Keys) /\ Len(second) <= Len(first)
    /\ \A i \in 1 .. Len(second) : second[i].hash = first[i].hash /\ second[i].len = first[i].len
    /\ build.at \in {"idle", "first"} => second = <<>>
    /\ build.at # "returned" => build.result = "none"
    /\ PublishesOnePass /\ FailedLeavesNothing

\* A build that ends without a new file: the path is as it was, and there is no spill.
LEMMA EndsWithNothing ==
    ASSUME PassInv, build.at # "returned", build'.at = "returned", build'.result = "error", ~ spill'.exists,
           build' = [build EXCEPT !.at = "returned", !.result = "error", !.faults = build'.faults],
           UNCHANGED <<first, second, target>>
    PROVE  PassInv'
  <1>1. build' = [at |-> build'.at, window |-> build'.window, faults |-> build'.faults,
                  failed |-> build'.failed, result |-> build'.result]
    BY DEF PassInv
  <1>2. target = Old
    BY DEF PassInv, FailedLeavesNothing
  <1>3. PublishesOnePass' /\ FailedLeavesNothing'
    BY <1>2 DEF PublishesOnePass, FailedLeavesNothing, Old
  <1> QED
    BY <1>1, <1>3 DEF PassInv

\* Refusing is such an end, and so is a call that fails.
LEMMA RefusedKeeps ==
    ASSUME PassInv, build.at # "returned", UNCHANGED <<first, second, target>>,
           Return("error") \/ FailsWith
    PROVE  PassInv'
  <1>1. build = [at |-> build.at, window |-> build.window, faults |-> build.faults,
                 failed |-> build.failed, result |-> build.result]
    BY DEF PassInv
  <1>2. /\ build'.at = "returned" /\ build'.result = "error"
        /\ build' = [build EXCEPT !.at = "returned", !.result = "error", !.faults = build'.faults]
    BY <1>1 DEF Return, FailsWith
  <1>3. ~ spill'.exists
    BY DEF Return, FailsWith, DropSpill, NoSpill
  <1> QED
    BY <1>2, <1>3, EndsWithNothing

\* A step that goes on, at a place of its own.
LEMMA GoesOnKeeps ==
    ASSUME PassInv, build.at # "returned", build'.at # "returned", build'.result = build.result,
           build' = [at |-> build'.at, window |-> build'.window, faults |-> build'.faults,
                     failed |-> build'.failed, result |-> build'.result],
           build'.at \in {"idle", "first"} => second' = <<>>,
           UNCHANGED target,
           first' \in Seq(Keys), second' \in Seq(Keys), Len(second') <= Len(first'),
           \A i \in 1 .. Len(second') : second'[i].hash = first'[i].hash /\ second'[i].len = first'[i].len
    PROVE  PassInv'
  <1>1. build.result = "none" /\ target = Old
    BY DEF PassInv, FailedLeavesNothing
  <1>2. PublishesOnePass' /\ FailedLeavesNothing'
    BY <1>1 DEF PublishesOnePass, FailedLeavesNothing, Old
  <1> QED
    BY <1>1, <1>2 DEF PassInv

\* The second pass is kept to the first as it is read: a key is placed only where one of its hash
\* and length was (replay_span).
LEMMA SecondKeyKeeps ==
    ASSUME PassInv, SecondKey
    PROVE  PassInv'
  <1>1. build.at = "second" /\ PassInv
    BY DEF SecondKey
  <1>2. PICK k \in Keys : IF ~ Replays(k) THEN Refuse
                          ELSE second' = Append(second, k) /\ UNCHANGED <<build, first, target>>
    BY DEF SecondKey
  <1>3. CASE ~ Replays(k)
    BY <1>1, <1>2, <1>3, RefusedKeeps DEF Refuse
  <1>4. CASE Replays(k)
    <2>1. second' = Append(second, k) /\ UNCHANGED <<build, first, target>>
      BY <1>2, <1>4
    <2>2. PICK l, m : l = Len(second) /\ m = Len(first)
      OBVIOUS
    <2>3. /\ l \in Nat /\ m \in Nat /\ l + 1 <= m /\ k.hash = first[l + 1].hash /\ k.len = first[l + 1].len
          /\ first \in Seq(Keys) /\ second \in Seq(Keys)
      BY <1>4, <2>2 DEF Replays, Next_i, n, PassInv
    <2>4. /\ second' \in Seq(Keys) /\ Len(second') = l + 1 /\ second'[l + 1] = k
          /\ \A i \in 1 .. l : second'[i] = second[i]
      BY <2>1, <2>2, <2>3
    <2>5. \A i \in 1 .. l : second[i].hash = first[i].hash /\ second[i].len = first[i].len
      BY <2>2 DEF PassInv
    <2>6. \A i \in 1 .. l + 1 : second'[i].hash = first[i].hash /\ second'[i].len = first[i].len
      <3> TAKE i \in 1 .. l + 1
      <3>1. CASE i = l + 1
        BY <2>3, <2>4, <3>1
      <3>2. CASE i # l + 1
        <4>1. i \in 1 .. l
          BY <2>3, <3>2
        <4> QED
          BY <2>4, <2>5, <4>1
      <3> QED
        BY <3>1, <3>2
    <2>7. build' = build /\ first' = first /\ target' = target
      BY <2>1
    <2>8. build = [at |-> build.at, window |-> build.window, faults |-> build.faults,
                   failed |-> build.failed, result |-> build.result]
      BY DEF PassInv
    <2> QED
      BY <1>1, <2>2, <2>3, <2>4, <2>6, <2>7, <2>8, GoesOnKeeps
  <1> QED
    BY <1>3, <1>4

\* A pass that was placed whole and whose second hashes are the first's is the first.
LEMMA JudgeKeeps ==
    ASSUME PassInv, Judge,
           \A k, l \in Keys : k.hash = l.hash /\ k.fp = l.fp /\ k.len = l.len => k = l
    PROVE  PassInv'
  <1>1. build.at = "judge"
    BY DEF Judge
  <1>2. CASE Refuse
    BY <1>1, <1>2, RefusedKeeps DEF Refuse
  <1>3. CASE ~ Refuse
    <2>1. SamePasses /\ Return("ok") /\ UNCHANGED <<first, second>>
      BY <1>3 DEF Judge
    <2>2. PICK m : m = Len(first)
      OBVIOUS
    <2>3. /\ m \in Nat /\ Len(second) = m /\ first \in Seq(Keys) /\ second \in Seq(Keys)
          /\ \A i \in 1 .. m : second[i].fp = first[i].fp
          /\ \A i \in 1 .. m : second[i].hash = first[i].hash /\ second[i].len = first[i].len
      BY <2>1, <2>2 DEF SamePasses, n, PassInv
    <2>4. \A i \in 1 .. m : second[i] = first[i]
      <3> TAKE i \in 1 .. m
      <3>1. second[i] \in Keys /\ first[i] \in Keys
        BY <2>2, <2>3
      <3> QED
        BY <2>3, <3>1
    <2>5. second = first
      BY <2>2, <2>3, <2>4
    <2>6. /\ build' = [at |-> "returned", window |-> build.window, faults |-> build.faults,
                       failed |-> build.failed, result |-> "ok"]
          /\ ~ spill'.exists
      BY <2>1 DEF Return, DropSpill, NoSpill, PassInv
    <2>7. PublishesOnePass' /\ FailedLeavesNothing'
      BY <2>1, <2>5, <2>6 DEF PublishesOnePass, FailedLeavesNothing
    <2> QED
      BY <2>1, <2>6, <2>7 DEF PassInv
  <1> QED
    BY <1>2, <1>3

\* Every step keeps the invariant.
LEMMA PassStep ==
    ASSUME PassInv, [Next]_vars,
           \A k, l \in Keys : k.hash = l.hash /\ k.fp = l.fp /\ k.len = l.len => k = l
    PROVE  PassInv'
  <1>1. /\ build = [at |-> build.at, window |-> build.window, faults |-> build.faults,
                    failed |-> build.failed, result |-> build.result]
        /\ first \in Seq(Keys) /\ second \in Seq(Keys) /\ Len(second) <= Len(first)
        /\ \A i \in 1 .. Len(second) : second[i].hash = first[i].hash /\ second[i].len = first[i].len
    BY DEF PassInv
  <1>2. CASE Start
    BY <1>1, <1>2, GoesOnKeeps DEF Start, Idle, PassInv
  <1>3. CASE FirstKey
    <2>1. PICK k \in Keys : first' = Append(first, k) /\ UNCHANGED <<build, second, target>> /\ build.at = "first"
      BY <1>3 DEF FirstKey
    <2>2. second = <<>> /\ Len(second) = 0 /\ first' \in Seq(Keys) /\ Len(first') \in Nat
      BY <1>1, <2>1 DEF PassInv
    <2> QED
      BY <1>1, <2>1, <2>2, GoesOnKeeps
  <1>4. CASE FirstEnds
    <2>1. build.at = "first" /\ UNCHANGED <<first, second>> /\ second = <<>>
      BY <1>4 DEF FirstEnds, PassInv
    <2>2. CASE Return("error") /\ UNCHANGED target
      BY <2>1, <2>2, RefusedKeeps
    <2>3. CASE n = 0 /\ Return("ok")
      <3>1. /\ build' = [at |-> "returned", window |-> build.window, faults |-> build.faults,
                         failed |-> build.failed, result |-> "ok"]
            /\ ~ spill'.exists
        BY <1>1, <2>3 DEF Return, DropSpill, NoSpill
      <3>2. first = <<>>
        BY <1>1, <2>3 DEF n
      <3>3. PublishesOnePass' /\ FailedLeavesNothing'
        BY <2>1, <3>1, <3>2 DEF PublishesOnePass, FailedLeavesNothing
      <3> QED
        BY <1>1, <2>1, <3>1, <3>3 DEF PassInv
    <2>4. CASE build' = [build EXCEPT !.at = "second"] /\ UNCHANGED target
      BY <1>1, <2>1, <2>4, GoesOnKeeps
    <2> QED
      BY <1>4, <2>2, <2>3, <2>4 DEF FirstEnds
  <1>5. CASE NoRoomForSpill \/ FillFails \/ PublishFails
    BY <1>5, RefusedKeeps DEF NoRoomForSpill, FillFails, PublishFails, FailsWith
  <1>6. CASE SecondKey
    BY <1>6, SecondKeyKeeps
  <1>7. CASE SecondEnds
    <2>1. build.at = "second"
      BY <1>7 DEF SecondEnds
    <2>2. CASE Refuse
      BY <2>1, <2>2, RefusedKeeps DEF Refuse
    <2>3. CASE ~ Refuse
      <3>1. PICK failed \in BOOLEAN :
               /\ build' = [build EXCEPT !.at = IF Windowed THEN "scatter" ELSE "judge", !.failed = failed]
               /\ UNCHANGED <<first, second, target>>
        BY <1>7, <2>3 DEF SecondEnds
      <3>2. PICK at : at \in {"scatter", "judge"} /\ build' = [build EXCEPT !.at = at, !.failed = failed]
        BY <3>1
      <3> QED
        BY <1>1, <2>1, <3>1, <3>2, GoesOnKeeps
    <2> QED
      BY <2>2, <2>3
  <1>8. CASE Scatter
    BY <1>1, <1>8, GoesOnKeeps DEF Scatter
  <1>9. CASE Judge
    BY <1>9, JudgeKeeps
  <1>10. CASE UNCHANGED vars
    BY <1>10 DEF vars, PassInv, PublishesOnePass, FailedLeavesNothing
  <1> QED
    BY <1>2, <1>3, <1>4, <1>5, <1>6, <1>7, <1>8, <1>9, <1>10 DEF Next

\* Whatever the two passes yield, a file is published only when they were the same keys in the same
\* order, and a build that ends otherwise leaves the path as it was and no spill behind, if no two
\* keys agree on both hashes and the length (PerfectHashIndex::build_to_file).
THEOREM OnePassIsPublished ==
    ASSUME \A k, l \in Keys : k.hash = l.hash /\ k.fp = l.fp /\ k.len = l.len => k = l
    PROVE  Init /\ [][Next]_vars => [](PublishesOnePass /\ FailedLeavesNothing)
  <1>1. Init => PassInv
    BY DEF Init, Idle, NoSpill, PassInv, PublishesOnePass, FailedLeavesNothing
  <1>2. PassInv /\ [Next]_vars => PassInv'
    BY PassStep
  <1>3. PassInv => PublishesOnePass /\ FailedLeavesNothing
    BY DEF PassInv
  <1> QED
    BY <1>1, <1>2, <1>3, PTL
=============================================================================
