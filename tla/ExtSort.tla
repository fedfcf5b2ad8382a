-------------------------------- MODULE ExtSort --------------------------------
(***************************************************************************)
(* A streaming build of an index: the external sort of src/src/extsort.rs  *)
(* as StringIndex::build_to_file_runs and DictIndex::build_to_file_runs    *)
(* drive it.  Keys come in any order, with repeats; full runs are sorted   *)
(* and spilled to files, the files collapsed until few are left, and their *)
(* merge walked Passes times, the last time inside the atomic write.       *)
(*                                                                         *)
(* Keys are numbers in their order; a run file is the sequence of its      *)
(* keys.  A read that fails ends the merge it feeds, which only `failed'   *)
(* tells from the end of the keys.                                         *)
(***************************************************************************)
EXTENDS Integers, FiniteSets, SequencesExt

CONSTANTS
    Keys,       \* a finite set of numbers
    LenOf,      \* the length of each key
    Budget,     \* bytes of a run, run_bytes
    SpanBytes,  \* bytes of a span: 8
    FanIn,      \* FAN_IN
    Passes,     \* walks over the merged keys: 1 for a StringIndex, 3 for a DictIndex
    Faults,     \* the calls that may fail
    MaxInput    \* bound: keys the source yields

ASSUME KeysAssumption == Keys \subseteq Nat /\ IsFiniteSet(Keys) /\ LenOf \in [Keys -> Nat]
ASSUME RunAssumption == Budget \in Nat /\ SpanBytes \in Nat \ {0} /\ MaxInput \in Nat
\* The const assert after FAN_IN.
ASSUME FanInAssumption == FanIn \in Nat \ {0, 1} /\ Passes \in Nat \ {0}
ASSUME FaultAssumption == Faults \subseteq {"source", "write", "read", "remove", "removeDir", "publish"}

VARIABLES
    source,     \* the keys the source yields, and whether it then raises instead of ending
    at,         \* how many it has yielded
    run,        \* the run in memory
    live,       \* the files still to be merged
    todo,       \* in a collapse round: the files of the round not yet in a group
    group,      \* the files merged into the newest run and not yet removed
    next,       \* the next file's name
    disk,       \* the directory's files: the keys of each, or Torn
    dir,        \* whether self.dir is set
    there,      \* what the file system has under its name: "nothing", "ours" or "theirs"
    walks,      \* history: what each pass walked
    target,     \* what is at the path: Old, or the keys of the index published
    pc, answer

store == <<live, todo, group, next, disk, dir, there>>
vars  == <<source, at, run, store, walks, target, pc, answer>>

Torn == <<-1>>
Old  == <<-2>>

Init ==
    /\ source \in [keys : UNION {[1 .. n -> Keys] : n \in 0 .. MaxInput},
                   raises : {r \in BOOLEAN : r => "source" \in Faults}]
    /\ at = 0
    /\ run = <<>>
    /\ live = <<>> /\ todo = <<>> /\ group = <<>>
    /\ next = 0
    /\ disk = [id \in {} |-> <<>>]
    /\ dir = FALSE
    /\ there \in {"nothing", "theirs"}
    /\ walks = <<>>
    /\ target = Old
    /\ pc = "read"
    /\ answer = "none"

-------------------------------------------------------------------------------
(* Run. *)

Bytes(r) == FoldLeft(LAMBDA n, k : n + LenOf[k], 0, r)

Fits(k) == Bytes(run) + LenOf[k] <= Budget /\ Len(run) < Budget \div SpanBytes

\* sorted: ascending and distinct.
Sorted(r) ==
    CHOOSE s \in [1 .. Cardinality(Range(r)) -> Range(r)] :
        \A i, j \in DOMAIN s : i < j => s[i] < s[j]

-------------------------------------------------------------------------------
(* Runs. *)

\* Return Err from wherever the build is; what it owns is then dropped.
Fail == pc' = "drop" /\ answer' = "err"

\* The directory of the runs, made at the first spill; a name that is taken is an error.
DirMade == dir \/ there = "nothing"

\* Fault: the path is remembered before the directory is made.
MakeDirEarly == dir' = TRUE /\ there' = IF there = "nothing" THEN "ours" ELSE there

MakeDir ==
    IF DirMade THEN dir' = TRUE /\ there' = "ours" ELSE UNCHANGED <<dir, there>>

\* A whole run under the next name; the name is only then used up.
WriteRun(keys) ==
    /\ DirMade
    /\ MakeDir
    /\ disk' = [id \in DOMAIN disk \cup {next} |-> IF id = next THEN keys ELSE disk[id]]
    /\ next' = next + 1

\* The directory cannot be made, or the run cannot be written: its file, if there is one, is torn.
WriteRunFails ==
    /\ Fail
    /\ MakeDir
    /\ \/ ~DirMade /\ UNCHANGED disk
       \/ /\ DirMade /\ "write" \in Faults
          /\ \/ UNCHANGED disk
             \/ disk' = [id \in DOMAIN disk \cup {next} |-> IF id = next THEN Torn ELSE disk[id]]
    /\ UNCHANGED next

\* merge_runs over the runs f: an entry is a reader's slot and a place in its run.  Of the heads, what
\* each reader has next, the heap yields the least, and of equal ones the first reader's.
Entries(f) == UNION {{<<slot, i>> : i \in DOMAIN f[slot]} : slot \in DOMAIN f}
KeyAt(f, e) == f[e[1]][e[2]]
Heads(unread) == {e \in unread : \A d \in unread : d[1] = e[1] => e[2] <= d[2]}
Popped(f, unread) ==
    CHOOSE e \in Heads(unread) :
        \A d \in Heads(unread) : KeyAt(f, e) < KeyAt(f, d) \/ (KeyAt(f, e) = KeyAt(f, d) /\ e[1] <= d[1])
Pulled(f) ==
    LET pull[unread \in SUBSET Entries(f)] ==
            IF unread = {} THEN <<>> ELSE <<Popped(f, unread)>> \o pull[unread \ {Popped(f, unread)}]
    IN  pull[Entries(f)]

\* The streams the files `ids' can yield: all of the keys, or, if a reader fails, up to and with the
\* key popped when the same reader had another to read.
Streams(ids) ==
    LET f == [slot \in DOMAIN ids |-> disk[ids[slot]]]
        p == Pulled(f)
        keys == [i \in DOMAIN p |-> KeyAt(f, p[i])]
        cuts == {m \in DOMAIN p : \E j \in m + 1 .. Len(p) : p[j][1] = p[m][1]}
    IN  {[keys |-> keys, failed |-> FALSE]} \cup
        IF "read" \in Faults THEN {[keys |-> SubSeq(keys, 1, m), failed |-> TRUE] : m \in cuts} ELSE {}

-------------------------------------------------------------------------------
(* The build: reading the source. *)

\* The next key fits the run.
Push ==
    /\ pc = "read"
    /\ at < Len(source.keys) /\ Fits(source.keys[at + 1])
    /\ run' = Append(run, source.keys[at + 1])
    /\ at' = at + 1
    /\ UNCHANGED <<source, store, walks, target, pc, answer>>

\* It fits no run.
TooLong ==
    /\ pc = "read"
    /\ at < Len(source.keys) /\ ~Fits(source.keys[at + 1])
    /\ run = <<>>
    /\ Fail
    /\ UNCHANGED <<source, at, run, store, walks, target>>

\* The run is full: spilled, cleared, and the key pushed, whatever its length.
Spill ==
    /\ pc = "read"
    /\ at < Len(source.keys) /\ ~Fits(source.keys[at + 1])
    /\ run # <<>>
    /\ \/ /\ WriteRun(Sorted(run))
          /\ live' = Append(live, next)
          /\ run' = <<source.keys[at + 1]>>
          /\ at' = at + 1
          /\ UNCHANGED <<pc, answer>>
       \/ WriteRunFails /\ UNCHANGED <<at, run, live>>
    /\ UNCHANGED <<source, todo, group, walks, target>>

\* Fault: a source that stopped is taken for one that ended.
CheckNothing ==
    /\ pc = "read"
    /\ at = Len(source.keys)
    /\ pc' = IF live = <<>> THEN "pass" ELSE "last"
    /\ UNCHANGED <<source, at, run, store, walks, target, answer>>

\* The source has ended: check, then the walks over memory, or the last spill.
Check ==
    /\ pc = "read"
    /\ at = Len(source.keys)
    /\ IF source.raises THEN Fail
       ELSE pc' = (IF live = <<>> THEN "pass" ELSE "last") /\ UNCHANGED answer
    /\ UNCHANGED <<source, at, run, store, walks, target>>

LastSpill ==
    /\ pc = "last"
    /\ \/ /\ run = <<>>
          /\ pc' = "collapse"
          /\ UNCHANGED <<run, live, next, disk, dir, there, answer>>
       \/ /\ run # <<>>
          /\ WriteRun(Sorted(run))
          /\ live' = Append(live, next)
          /\ run' = <<>>
          /\ pc' = "collapse"
          /\ UNCHANGED answer
       \/ run # <<>> /\ WriteRunFails /\ UNCHANGED <<run, live>>
    /\ UNCHANGED <<source, at, todo, group, walks, target>>

-------------------------------------------------------------------------------
(* collapse, which every walk over the files begins with. *)

\* The for loop is through its groups.
RoundOver == todo = <<>> /\ group = <<>>

\* Fault: the list is cloned, where it should be taken.
RoundByClone ==
    /\ pc = "collapse"
    /\ RoundOver
    /\ IF Len(live) > FanIn
       THEN todo' = live /\ UNCHANGED <<pc, live>>
       ELSE pc' = "pass" /\ UNCHANGED <<todo, live>>
    /\ UNCHANGED <<source, at, run, group, next, disk, dir, there, walks, target, answer>>

Round ==
    /\ pc = "collapse"
    /\ RoundOver
    /\ IF Len(live) > FanIn
       THEN todo' = live /\ live' = <<>> /\ UNCHANGED pc
       ELSE pc' = "pass" /\ UNCHANGED <<todo, live>>
    /\ UNCHANGED <<source, at, run, group, next, disk, dir, there, walks, target, answer>>

FirstOf(n) == SubSeq(todo, 1, IF Len(todo) < n THEN Len(todo) ELSE n)

\* Fault: a group is one short of the fan-in.
ShortGroup == FirstOf(FanIn - 1)

\* The next of live.chunks(fan_in).
NextGroup == FirstOf(FanIn)

\* A group of one is carried forward.
Carry ==
    /\ pc = "collapse"
    /\ group = <<>> /\ Len(NextGroup) = 1
    /\ live' = live \o NextGroup
    /\ todo' = SubSeq(todo, 2, Len(todo))
    /\ UNCHANGED <<source, at, run, group, next, disk, dir, there, walks, target, pc, answer>>

\* Fault: what the merge parked is not looked at.
MergeGroupUnchecked ==
    /\ pc = "collapse"
    /\ group = <<>> /\ Len(NextGroup) > 1
    /\ \/ \E stream \in Streams(NextGroup) :
             /\ WriteRun(stream.keys)
             /\ group' = NextGroup
             /\ todo' = SubSeq(todo, Len(NextGroup) + 1, Len(todo))
             /\ UNCHANGED <<pc, answer>>
       \/ WriteRunFails /\ UNCHANGED <<group, todo>>
    /\ UNCHANGED <<source, at, run, live, walks, target>>

\* A group merged into one run, in full; the group's files are then to be removed.  A reader that
\* fails before any key is out leaves no file.
MergeGroup ==
    /\ pc = "collapse"
    /\ group = <<>> /\ Len(NextGroup) > 1
    /\ \/ \E stream \in Streams(NextGroup) :
             /\ WriteRun(stream.keys)
             /\ IF stream.failed
                THEN Fail /\ UNCHANGED <<group, todo>>
                ELSE /\ group' = NextGroup
                     /\ todo' = SubSeq(todo, Len(NextGroup) + 1, Len(todo))
                     /\ UNCHANGED <<pc, answer>>
       \/ WriteRunFails /\ UNCHANGED <<group, todo>>
       \/ "read" \in Faults /\ Fail /\ UNCHANGED <<group, todo, disk, next, dir, there>>
    /\ UNCHANGED <<source, at, run, live, walks, target>>

\* Fault: the files of a group are left to the directory's removal.
ConsumeNone ==
    /\ pc = "collapse"
    /\ group # <<>>
    /\ group' = <<>>
    /\ live' = Append(live, next - 1)
    /\ UNCHANGED <<source, at, run, todo, next, disk, dir, there, walks, target, pc, answer>>

\* The files the newest run was merged from, removed one by one; then it is one of the live.
Consume ==
    /\ pc = "collapse"
    /\ group # <<>>
    /\ \/ /\ disk' = [id \in DOMAIN disk \ {Head(group)} |-> disk[id]]
          /\ group' = Tail(group)
          /\ live' = IF Tail(group) = <<>> THEN Append(live, next - 1) ELSE live
          /\ UNCHANGED <<pc, answer>>
       \/ "remove" \in Faults /\ Fail /\ UNCHANGED <<disk, group, live>>
    /\ UNCHANGED <<source, at, run, todo, next, dir, there, walks, target>>

-------------------------------------------------------------------------------
(* The walks, and what is published. *)

\* insert_sorted and Replay: equal keys come out adjacent, and the second is dropped.
Inserted(out, k) == IF out # <<>> /\ Last(out) = k THEN out ELSE Append(out, k)
Distinct(keys) ==
    LET out[n \in 0 .. Len(keys)] == IF n = 0 THEN <<>> ELSE Inserted(out[n - 1], keys[n])
    IN  out[Len(keys)]

\* The streams a walk can see: of the run in memory, which cannot fail, or of the files.
Walkable == IF live = <<>> THEN {[keys |-> Sorted(run), failed |-> FALSE]} ELSE Streams(live)

\* Fault: a walk that a reader ended is taken for whole.
WalkUnchecked ==
    /\ pc = "pass"
    /\ \E stream \in Walkable :
          /\ walks' = Append(walks, Distinct(stream.keys))
          /\ pc' = IF Len(walks') = Passes THEN "publish" ELSE IF live = <<>> THEN "pass" ELSE "collapse"
    /\ UNCHANGED <<source, at, run, store, target, answer>>

\* One walk: failed is looked at after it, the last time inside the atomic write.
Walk ==
    /\ pc = "pass"
    /\ \/ \E stream \in Walkable :
             IF stream.failed THEN Fail /\ UNCHANGED walks
             ELSE /\ walks' = Append(walks, Distinct(stream.keys))
                  /\ pc' = IF Len(walks') = Passes THEN "publish"
                           ELSE IF live = <<>> THEN "pass" ELSE "collapse"
                  /\ UNCHANGED answer
       \/ "read" \in Faults /\ live # <<>> /\ Fail /\ UNCHANGED walks
    /\ UNCHANGED <<source, at, run, store, target>>

\* The rename of write_atomically_with, after check's second call, or an error of the write.
Publish ==
    /\ pc = "publish"
    /\ \/ target' = Last(walks) /\ pc' = "drop" /\ answer' = "ok"
       \/ "publish" \in Faults /\ Fail /\ UNCHANGED target
    /\ UNCHANGED <<source, at, run, store, walks>>

\* Drop for Runs: the directory it made, with all there is in it.
DropRuns ==
    /\ pc = "drop"
    /\ pc' = "ended"
    /\ there' \in IF ~dir THEN {there}
                 ELSE {"nothing"} \cup (IF "removeDir" \in Faults THEN {there} ELSE {})
    /\ disk' = IF there' = "ours" THEN disk ELSE [id \in {} |-> <<>>]
    /\ UNCHANGED <<source, at, run, live, todo, group, next, dir, walks, target, answer>>

Build ==
    \/ Push \/ TooLong \/ Spill \/ Check \/ LastSpill
    \/ Round \/ Carry \/ MergeGroup \/ Consume
    \/ Walk \/ Publish \/ DropRuns

Ended == pc = "ended" /\ UNCHANGED vars

Next == Build \/ Ended

Spec == Init /\ [][Next]_vars

\* The build's own thread goes on as long as it can.
FairSpec == Spec /\ WF_vars(Build)

-------------------------------------------------------------------------------
(* Properties. *)

\* Every variable has its type (struct Runs, struct Run), and every name the build still means to
\* read is a whole file of its directory.
TypeOK ==
    /\ at \in 0 .. Len(source.keys)
    /\ run \in Seq(Keys)
    /\ next \in Nat
    /\ DOMAIN disk \subseteq 0 .. next
    /\ \A id \in DOMAIN disk : disk[id] \in Seq(Keys) \cup {Torn}
    /\ dir \in BOOLEAN
    /\ there \in {"nothing", "ours", "theirs"}
    /\ walks \in Seq(Seq(Keys))
    /\ pc \in {"read", "last", "collapse", "pass", "publish", "drop", "ended"}
    /\ answer \in {"none", "ok", "err"}
    /\ pc # "ended" => Range(live \o todo \o group) \subseteq {id \in DOMAIN disk : disk[id] # Torn}

\* What is published is the whole corpus: every key of the source once, ascending, and nothing at
\* all of a source that raised.  A stream that a failed read ended is not one, though it looks
\* like a shorter corpus (the checks of build_to_file_runs, collapse and Replay).
PublishesTheCorpus ==
    /\ target # Old => ~source.raises /\ target = Sorted(source.keys)
    /\ (answer = "ok") = (target # Old)

\* The walks of one build agree: each saw the same keys, all of them, although the files are
\* collapsed in between (collapse's "Idempotent", write_sorted's passes).
WalksAgree == \A i \in DOMAIN walks : walks[i] = Sorted(source.keys)

\* "The space this takes over the runs themselves is one group": beside the files still to be read
\* there is the one being made of the group, at most, and none is to be read twice.
OneGroupMore ==
    pc = "collapse" =>
        LET wanted == Range(live \o todo \o group)
        IN  /\ DOMAIN disk \ wanted \subseteq (IF group = <<>> THEN {} ELSE {next - 1})
            /\ Cardinality(wanted) = Len(live) + Len(todo) + Len(group)

\* As long as the build has not dropped its files, every key the source has yielded is in memory or
\* in a whole file: a collapse that fails "leaves every key still readable somewhere".
KeysKept ==
    OneGroupMore /\ (pc # "ended" =>
        Range(SubSeq(source.keys, 1, at)) \subseteq
            Range(run) \cup UNION {Range(disk[id]) : id \in DOMAIN disk})

\* When the build is over, whichever way it ended, the directory it made is gone, and one that was
\* there under the same name is still there (Drop for Runs, dir()).
LeavesNoRuns ==
    [][/\ there = "theirs" => there' = "theirs"
       /\ pc' = "ended" /\ "removeDir" \notin Faults => there' # "ours"]_vars

\* fits bounded the arena by the budget, as the comment in push has it: the keys of a run never
\* take more.
WithinBudget == Bytes(run) <= Budget

\* A collapse comes to an end, and so does the build.
Terminates == <>(pc = "ended")

===============================================================================
