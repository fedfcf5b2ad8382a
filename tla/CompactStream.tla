----------------------------- MODULE CompactStream -----------------------------
(***************************************************************************)
(* The streaming build of a CompactHashIndex (src/src/compact_hash.rs,     *)
(* build_to_file_with): the pairs of hashes of the keys are sorted in runs *)
(* spilled to a scratch directory, the runs are merged by threads that     *)
(* claim ranges of the hash, the perfect hash is built over one hash of    *)
(* each run of equal ones, and a thread per merged file sends every        *)
(* fingerprint to its slot: into a table, or through a stage a range into  *)
(* range files shared under a lock each.                                   *)
(*                                                                         *)
(* A key is the pair <<h, fp>> of its hash and its second hash. The        *)
(* perfect hash is external: a constant order of the hashes gives slots.   *)
(* The atomic write of the blob is one step; AtomicWrite is its model.     *)
(***************************************************************************)
EXTENDS Integers, Sequences, FiniteSets, SequencesExt

CONSTANTS
    Hashes,      \* how many hashes there are
    Fps,         \* how many second hashes
    Bins,        \* BINS: bins of the hash the merge cuts its ranges at
    SlotOrder,   \* the hashes in the order of their slots in a perfect hash over all of them
    RangeSlots,  \* Budget::range_slots
    Stage,       \* STAGE, in records
    Batch,       \* BATCH of place_fingerprints
    Inputs,      \* bound: the key streams, sequences of pairs
    Budgets,     \* bound: [cap, memory, threads]
    MaxFaults    \* bound: failing calls a build

VARIABLES
    job,         \* what is asked of the build: [keys, fails, taken, budget]; whether the source fails
                 \* at its end, whether a directory is in the way of the scratch directory
    main,        \* the building thread: [at, input, run, faults, n, m, mph, side]
    scratch,     \* Scratch: [dir, runs, cuts, merged, next]; dir is "none", "ours" or "foreign"
    merger,      \* per merge thread: [at, t, n, same], the pairs it wrote and those that follow their hash
    scanner,     \* per fingerprint thread: [at, read, placed, stage, r, left, split]
    range,       \* the range files: [lock, file]
    outcome      \* [result, blob]: what the caller and the path got

vars == <<job, main, scratch, merger, scanner, range, outcome>>

NoThread == 0
Pair     == (0 .. Hashes - 1) \X (0 .. Fps - 1)

\* The sizes are positive and the cap of a run is (stream_pairs takes the larger of it and one);
\* a perfect hash gives each of the hashes a slot of its own.
ASSUME StreamAssumption ==
    /\ {Hashes, Fps, Bins, RangeSlots, Stage, Batch} \subseteq Nat \ {0}
    /\ MaxFaults \in Nat
    /\ SlotOrder \in [1 .. Hashes -> 0 .. Hashes - 1] /\ IsInjective(SlotOrder)
    /\ \A input \in Inputs : input \in Seq(Pair)
    /\ \A budget \in Budgets : budget \in [cap : Nat \ {0}, memory : Nat, threads : Nat \ {0}]

Before(p, q) == p[1] < q[1] \/ (p[1] = q[1] /\ p[2] < q[2])

\* sort_run and dedup: ascending and distinct, the i-th after i - 1 that are less.
Sorted(S) == [i \in 1 .. Cardinality(S) |-> CHOOSE p \in S : Cardinality({q \in S : Before(q, p)}) = i - 1]

\* The places I of a sequence in their order.
InOrder(I) == [j \in 1 .. Cardinality(I) |-> CHOOSE i \in I : Cardinality({k \in I : k < i}) = j - 1]

\* Fault: the bin is taken of the pair, so that equal hashes may lie in two.
binOfPair(p) == ((p[1] + p[2]) * Bins) \div (Hashes + Fps)

bin(p) == (p[1] * Bins) \div Hashes

Follower(s, i) == i > 1 /\ s[i - 1][1] = s[i][1]
Followers(s)   == {i \in DOMAIN s : Follower(s, i)}
Leads(s)       == DOMAIN s \ Followers(s)
HashesOf(S)    == {p[1] : p \in S}
Most(S)        == CHOOSE x \in S : \A y \in S : y <= x
Least(S)       == CHOOSE x \in S : \A y \in S : x <= y
Smaller(a, b)  == IF a < b THEN a ELSE b

\* The followers of a source, and the side table over those of all, with their tail ids.
SideOf(s)        == [j \in DOMAIN InOrder(Followers(s)) |-> s[InOrder(Followers(s))[j]]]
SideTable(of, m) == [j \in DOMAIN of |-> <<of[j][1], of[j][2], m + j - 1>>]

\* The slot of a hash in the perfect hash over the hashes H.
index(H, h) == Cardinality({g \in H : \E i, j \in DOMAIN SlotOrder :
                               i < j /\ SlotOrder[i] = g /\ SlotOrder[j] = h})

-------------------------------------------------------------------------------
(* What a build promises: build_from_pairs over the same pairs, as the blob they give. *)

build_from_pairs(S) ==
    LET all  == Sorted(S)
        m    == Cardinality(HashesOf(S))
        \* The pair at a slot: the first of its hash.
        lead == [sl \in 0 .. m - 1 |-> CHOOSE i \in Leads(all) : index(HashesOf(S), all[i][1]) = sl]
    IN  [n |-> Len(all), table |-> [sl \in 0 .. m - 1 |-> all[lead[sl]][2]], side |-> SideTable(SideOf(all), m)]

-------------------------------------------------------------------------------
(* Merge: the ranges. *)

\* total: the pairs of all runs before a bin.
Total(runs, b) == Cardinality({e \in (DOMAIN runs) \X Pair : e[2] \in ToSet(runs[e[1]]) /\ bin(e[2]) < b})

InRange(p, from, to) == bin(p) \in from .. to - 1

\* partition_point of a range's share of the pairs.
Cut(runs, t) ==
    Smaller(Bins, Cardinality({b \in 0 .. Bins :
                                  Total(runs, b) < (Total(runs, Bins) * t) \div job.budget.threads}))

\* A range a thread. Only increasing cuts are kept, and the last is BINS.
CutsOf(runs) == InOrder({0, Bins} \cup {Cut(runs, t) : t \in 1 .. job.budget.threads - 1})

Paths == Len(scratch.cuts) - 1

PairsOfRange(t) == {p \in UNION {ToSet(scratch.runs[i]) : i \in DOMAIN scratch.runs} :
                       InRange(p, scratch.cuts[t], scratch.cuts[t + 1])}

-------------------------------------------------------------------------------
NoBlob   == [n |-> 0, table |-> <<>>, side |-> <<>>]
NoJob    == [keys |-> <<>>, fails |-> FALSE, taken |-> FALSE, budget |-> [cap |-> 1, memory |-> 0, threads |-> 1]]
Idle     == [at |-> "idle", input |-> <<>>, run |-> <<>>, faults |-> 0, n |-> 0, m |-> 0, mph |-> <<>>, side |-> <<>>]
NoFiles  == [dir |-> "none", runs |-> <<>>, cuts |-> <<>>, merged |-> <<>>, next |-> 1]
NoRanges == [lock |-> <<>>, file |-> <<>>]

Init ==
    /\ job = NoJob
    /\ main = Idle
    /\ scratch = NoFiles
    /\ merger = <<>>
    /\ scanner = <<>>
    /\ range = NoRanges
    /\ outcome = [result |-> "none", blob |-> NoBlob]

\* A source that fails ends its stream early, and check() says so.
Start ==
    /\ main.at = "idle"
    /\ \E input \in Inputs, budget \in Budgets, fails, taken \in BOOLEAN :
         /\ job' = [keys |-> input, fails |-> fails, taken |-> taken, budget |-> budget]
         /\ main' = [Idle EXCEPT !.at = "read", !.input = input]
    /\ UNCHANGED <<scratch, merger, scanner, range, outcome>>

\* The build returns: Scratch is dropped, and removes a directory it made.
Return(result, blob) ==
    /\ outcome' = [result |-> result, blob |-> blob]
    /\ scratch' = [NoFiles EXCEPT !.dir = IF job.taken THEN "foreign" ELSE "none"]
    /\ merger' = <<>>
    /\ scanner' = <<>>
    /\ range' = NoRanges
    /\ UNCHANGED job

Fail == main' = [main EXCEPT !.at = "returned"] /\ Return("error", NoBlob)

\* A call that can fail does.
Fault == main.faults < MaxFaults
FailWith == /\ main' = [main EXCEPT !.at = "returned", !.faults = @ + 1]
            /\ Return("error", NoBlob)

\* Scratch::dir refuses a directory that is there.
MayCreate == scratch.dir = "ours" \/ ~ job.taken

Spilled(run) == [scratch EXCEPT !.dir = "ours", !.runs = Append(@, Sorted(ToSet(run)))]

\* stream_pairs: a key; the run is spilled when it is full.
ReadKey ==
    /\ main.at = "read"
    /\ main.input # <<>>
    /\ LET run == Append(main.run, Head(main.input))
       IN  IF Len(run) = job.budget.cap
           THEN \/ /\ MayCreate
                   /\ main' = [main EXCEPT !.input = Tail(@), !.run = <<>>]
                   /\ scratch' = Spilled(run)
                   /\ UNCHANGED <<job, merger, scanner, range, outcome>>
                \/ ~ MayCreate /\ Fail
                \/ Fault /\ FailWith
           ELSE /\ main' = [main EXCEPT !.input = Tail(@), !.run = run]
                /\ UNCHANGED <<job, scratch, merger, scanner, range, outcome>>

\* The input has ended: check(), then the pairs in memory or the last spill and the merge.
EndOfKeys ==
    /\ main.at = "read"
    /\ main.input = <<>>
    /\ \/ job.fails /\ Fail
       \/ /\ ~ job.fails
          /\ \/ /\ scratch.runs = <<>>
                /\ LET run == Sorted(ToSet(main.run))
                   IN  main' = [main EXCEPT !.at = "hash", !.run = run, !.n = Len(run),
                                            !.m = Len(run) - Cardinality(Followers(run))]
                /\ UNCHANGED <<scratch, merger>>
             \/ /\ scratch.runs # <<>>
                /\ main' = [main EXCEPT !.at = "merge", !.run = <<>>]
                /\ LET files == IF main.run = <<>> THEN scratch ELSE Spilled(main.run)
                   IN  scratch' = [files EXCEPT !.cuts = CutsOf(files.runs)]
                /\ merger' = [w \in 1 .. job.budget.threads |->
                                 [at |-> "claim", t |-> 0, n |-> 0, same |-> 0]]
          /\ UNCHANGED <<job, scanner, range, outcome>>
       \/ ~ job.fails /\ scratch.runs # <<>> /\ Fault /\ FailWith

-------------------------------------------------------------------------------
(* The merge threads. *)

\* fetch_add on the next range.
Claim(w) ==
    /\ main.at = "merge"
    /\ merger[w].at = "claim"
    /\ merger' = [merger EXCEPT ![w].at = IF scratch.next <= Paths THEN "merge" ELSE "done",
                                ![w].t = scratch.next]
    /\ scratch' = [scratch EXCEPT !.next = @ + 1]
    /\ UNCHANGED <<job, main, scanner, range, outcome>>

\* The merged files with one more.
MergedWith(t, s) == [u \in DOMAIN scratch.merged \cup {t} |-> IF u = t THEN s ELSE scratch.merged[u]]

\* merge_range: the pairs of a range from every run, distinct, and how many follow an equal hash.
MergeRange(w) ==
    /\ main.at = "merge"
    /\ merger[w].at = "merge"
    /\ LET s == Sorted(PairsOfRange(merger[w].t))
       IN  /\ merger' = [merger EXCEPT ![w].at = "claim",
                             ![w].n = @ + Len(s), ![w].same = @ + Cardinality(Followers(s))]
           /\ scratch' = [scratch EXCEPT !.merged = MergedWith(merger[w].t, s)]
    /\ UNCHANGED <<job, main, scanner, range, outcome>>

\* Opening, reading, creating or writing fails, or a run is torn: the thread returns the error, and
\* leaves a file that nothing was flushed to.
MergeFails(w) ==
    /\ main.at = "merge"
    /\ merger[w].at = "merge"
    /\ Fault
    /\ merger' = [merger EXCEPT ![w].at = "failed"]
    /\ scratch' = [scratch EXCEPT !.merged = MergedWith(merger[w].t, <<>>)]
    /\ main' = [main EXCEPT !.faults = @ + 1]
    /\ UNCHANGED <<job, scanner, range, outcome>>

\* The sum of a sequence.
Sum(f) == LET up[i \in 0 .. Len(f)] == IF i = 0 THEN 0 ELSE up[i - 1] + f[i] IN up[Len(f)]
Written_n    == Sum([w \in DOMAIN merger |-> merger[w].n])
Written_same == Sum([w \in DOMAIN merger |-> merger[w].same])

\* The counts of all threads: distinct pairs, and distinct hashes.
Count == /\ main' = [main EXCEPT !.at = "hash", !.n = Written_n, !.m = Written_n - Written_same]
         /\ UNCHANGED <<job, scratch, merger, scanner, range, outcome>>

\* Fault: the threads' counts are taken without their errors.
JoinMergersAny == Count

\* Every thread joined: the first error, or the counts of all.
JoinMergers ==
    \/ (\E w \in DOMAIN merger : merger[w].at = "failed") /\ Fail
    \/ (\A w \in DOMAIN merger : merger[w].at = "done") /\ Count

Merged ==
    /\ main.at = "merge"
    /\ \A w \in DOMAIN merger : merger[w].at \in {"done", "failed"}
    /\ JoinMergers

-------------------------------------------------------------------------------
(* The perfect hash and the fingerprints. *)

InFiles == scratch.runs # <<>>
InMemory   == main.m <= job.budget.memory
RangeCount == (main.m + RangeSlots - 1) \div RangeSlots
\* What a thread sends records to, and which of them a slot's record goes to: the table, or the
\* range files.
Files      == IF InMemory THEN 1 ELSE RangeCount
RangeOf(sl) == IF InMemory THEN 1 ELSE sl \div RangeSlots + 1

\* One source for a table in memory, one a merged file for the range files.
Sources == IF ~ InFiles THEN <<main.run>>
           ELSE IF InMemory THEN <<FlattenSeq(scratch.merged)>> ELSE scratch.merged

\* One hash per distinct value: what the perfect hash is built over.
Reps == HashesOf(ToSet(IF InFiles THEN FlattenSeq(scratch.merged) ELSE main.run))

\* Pass two; a read error ends the representatives early, and is looked for before the table.
BuildMph ==
    /\ main.at = "hash"
    /\ \/ /\ Cardinality(Reps) = main.m
          /\ InMemory \/ MayCreate
          /\ main' = [main EXCEPT !.at = "place",
                                  !.mph = LET H == Reps IN [h \in H |-> index(H, h)]]
          /\ scanner' = [s \in DOMAIN Sources |->
                            [at |-> "scan", read |-> 0, placed |-> 0, r |-> 0, left |-> <<>>, split |-> FALSE,
                             stage |-> [r \in 1 .. Files |-> <<>>]]]
          /\ range' = [lock |-> [r \in 1 .. Files |-> NoThread],
                       file |-> [r \in 1 .. Files |-> [recs |-> {}, half |-> <<>>]]]
          /\ scratch' = IF InMemory THEN scratch ELSE [scratch EXCEPT !.dir = "ours"]
          /\ UNCHANGED <<job, merger, outcome>>
       \/ /\ Cardinality(Reps) # main.m \/ (~ InMemory /\ ~ MayCreate)
          /\ Fail
       \/ InFiles /\ Fault /\ FailWith

Me(s)         == scanner[s]
Became(s, st) == scanner' = [scanner EXCEPT ![s] = st]

\* The pairs up to a place that lead and were not sent yet: up to where the source is read, the batch.
Unplaced(s, upto) == {i \in Leads(Sources[s]) : Me(s).placed < i /\ i <= upto}

\* Where reading stops: once BATCH pairs lead, or at the end; a follower takes no place in a batch.
BatchEnd(s) ==
    LET full == {j \in Me(s).read .. Len(Sources[s]) : Cardinality(Unplaced(s, j)) = Batch}
    IN  IF full = {} THEN Len(Sources[s]) ELSE Least(full)

Scan(s) ==
    /\ Me(s).at = "scan"
    /\ Became(s, [Me(s) EXCEPT !.at = IF Unplaced(s, BatchEnd(s)) = {} THEN "flush" ELSE "put",
                               !.read = BatchEnd(s), !.r = 1])
    /\ UNCHANGED <<main, range>>

Record(p) == <<main.mph[p[1]], p[2]>>

\* Out::put: into the table, or staged, once a full stage of the range is flushed.
Put(s) ==
    /\ Me(s).at = "put"
    /\ LET batch == Unplaced(s, Me(s).read)
           rec   == Record(Sources[s][Least(batch)])
           r     == RangeOf(rec[1])
       IN  Became(s, IF batch = {} THEN [Me(s) EXCEPT !.at = "scan"]
                     ELSE IF ~ InMemory /\ Len(Me(s).stage[r]) = Stage THEN [Me(s) EXCEPT !.at = "lock", !.r = r]
                     ELSE [Me(s) EXCEPT !.placed = Least(batch), !.stage[r] = Append(@, rec)])
    /\ UNCHANGED <<main, range>>

\* Out::flush: every range's stage in turn.
Flush(s) ==
    /\ Me(s).at = "flush"
    /\ Became(s, [Me(s) EXCEPT !.at = IF InMemory \/ Me(s).r > RangeCount THEN "done" ELSE "lock"])
    /\ UNCHANGED <<main, range>>

\* Fault: the file is written without its lock.
FreeAny(r, s) == TRUE

Free(r, s) == range.lock[r] = NoThread

\* flush_range: the lock of the range's file, then the stage, whose records are two writes each.
LockRange(s) ==
    /\ Me(s).at = "lock"
    /\ Free(Me(s).r, s)
    /\ range' = [range EXCEPT !.lock[Me(s).r] = s]
    /\ Became(s, [Me(s) EXCEPT !.at = "write", !.left = Me(s).stage[Me(s).r]])
    /\ UNCHANGED main

\* A file is the records that are whole in it, whose order reading back does not depend on, and
\* the first word of one that is not.
Appended(f, word) ==
    IF f.half = <<>> THEN [f EXCEPT !.half = <<word>>]
    ELSE [recs |-> f.recs \cup {<<f.half[1], word>>}, half |-> <<>>]

\* The first word of a record, or the second.
WriteRange(s) ==
    /\ Me(s).at = "write"
    /\ Me(s).left # <<>>
    /\ LET rec == Head(Me(s).left)
       IN  IF Me(s).split
           THEN /\ range' = [range EXCEPT !.file[Me(s).r] = Appended(@, rec[2])]
                /\ Became(s, [Me(s) EXCEPT !.left = Tail(@), !.split = FALSE])
           ELSE /\ range' = [range EXCEPT !.file[Me(s).r] = Appended(@, rec[1])]
                /\ Became(s, [Me(s) EXCEPT !.split = TRUE])
    /\ UNCHANGED main

\* Fault: the guard outlives the write.
LockAfterHeld(s) == s

LockAfter(s) == NoThread

\* Fault: every range's stage is emptied.
EmptiedAll(st) == [st EXCEPT !.stage = [r \in DOMAIN st.stage |-> <<>>]]

Emptied(st) == [st EXCEPT !.stage[st.r] = <<>>]

Written(s) ==
    /\ Me(s).at = "write"
    /\ Me(s).left = <<>>
    /\ range' = [range EXCEPT !.lock[Me(s).r] = LockAfter(s)]
    /\ Became(s, LET st == Emptied(Me(s))
                 IN  IF Unplaced(s, st.read) # {} THEN [st EXCEPT !.at = "put"]
                     ELSE [st EXCEPT !.at = "flush", !.r = @ + 1])
    /\ UNCHANGED main

\* Reading the source or writing the range file fails; a guard is dropped on the way out.
ScanFails(s) ==
    /\ Fault
    /\ Me(s).at = "write" \/ (Me(s).at = "scan" /\ InFiles)
    /\ main' = [main EXCEPT !.faults = @ + 1]
    /\ Became(s, [Me(s) EXCEPT !.at = "failed"])
    /\ range' = IF Me(s).at = "write" THEN [range EXCEPT !.lock[Me(s).r] = NoThread] ELSE range

Scanner(s) ==
    /\ main.at = "place"
    /\ \/ Scan(s) \/ Put(s) \/ Flush(s) \/ LockRange(s) \/ WriteRange(s) \/ Written(s)
       \/ ScanFails(s)
    /\ UNCHANGED <<job, scratch, merger, outcome>>

\* Every thread joined in the order of the sources: the first error, or the side table.
Placed ==
    /\ main.at = "place"
    /\ \A s \in DOMAIN scanner : Me(s).at \in {"done", "failed"}
    /\ \/ (\E s \in DOMAIN scanner : Me(s).at = "failed") /\ Fail
       \/ /\ \A s \in DOMAIN scanner : Me(s).at = "done"
          /\ LET sides == FlattenSeq([s \in DOMAIN scanner |-> SideOf(Sources[s])])
             IN  main' = [main EXCEPT !.at = "write", !.side = SideTable(sides, main.m)]
          /\ UNCHANGED <<job, scratch, merger, scanner, range, outcome>>

-------------------------------------------------------------------------------
(* The blob. *)

\* A range file that ends inside a record.
Torn == \E r \in DOMAIN range.file : range.file[r].half # <<>>

\* Fault: a record is placed in its segment by its slot alone.
AtUnbased(sl, r) == sl

At(sl, r) == sl - (r - 1) * RangeSlots

\* write_fp into a zeroed table: fingerprints at one place are or-ed together.
Ored(recs) == Most({0} \cup {rec[2] : rec \in recs})

Segment(r) == [p \in 0 .. Smaller(RangeSlots, main.m - (r - 1) * RangeSlots) - 1 |->
                  Ored({rec \in range.file[r].recs : At(rec[1], r) = p})]

TableInMemory == [sl \in 0 .. main.m - 1 |-> Ored({rec \in ToSet(scanner[1].stage[1]) : rec[1] = sl})]

Table == IF InMemory THEN TableInMemory
         ELSE [sl \in 0 .. main.m - 1 |-> Segment(RangeOf(sl))[sl % RangeSlots]]

\* The blob is written and renamed; check() is asked again before the header is.
Publish ==
    /\ main.at = "write"
    /\ \/ /\ main' = [main EXCEPT !.at = "returned"]
          /\ IF Torn /\ ~ InMemory THEN Return("error", NoBlob)
             ELSE Return("ok", [n |-> main.n, table |-> Table, side |-> main.side])
       \/ Fault /\ FailWith

Merger(w) == Claim(w) \/ MergeRange(w) \/ MergeFails(w)

Main == ReadKey \/ EndOfKeys \/ Merged \/ BuildMph \/ Placed \/ Publish

Next == Start \/ Main \/ (\E w \in DOMAIN merger : Merger(w)) \/ (\E s \in DOMAIN scanner : Scanner(s))

\* The threads of a build are scheduled, and calls return.
Fairness ==
    /\ WF_vars(Main)
    /\ \A w \in 1 .. Most({b.threads : b \in Budgets}) :
         /\ WF_vars(w \in DOMAIN merger /\ Merger(w))
         /\ WF_vars(w \in DOMAIN scanner /\ Scanner(w))

Spec == Init /\ [][Next]_vars /\ Fairness

-------------------------------------------------------------------------------
(* The properties. *)

\* A build that returned Ok published what build_from_pairs gives for the same keys: every
\* fingerprint at its slot and every equal hash's tail id in the side table, whatever the
\* budget, the runs, the cuts and the order in which the threads came to the range files.
PublishesTheKeys ==
    outcome.result = "ok" => outcome.blob = build_from_pairs(ToSet(job.keys))

\* A source that failed, or one call of one thread that did, is an error of the build; and
\* nothing else is, but a scratch directory that was there.
ErrorsSurface ==
    /\ outcome.result = "ok" => ~ job.fails /\ main.faults = 0
    /\ outcome.result = "error" => job.fails \/ main.faults > 0 \/ job.taken

\* Every build returns: no thread waits for a range file's lock, or a range, for ever.
StreamEnds == (main.at = "read") ~> (main.at = "returned")

\* The streamed index has every key's record in its own slot's range once, and the first error of a
\* merge or fingerprint thread surfaces (CompactStream).
StreamIsWhole == PublishesTheKeys /\ ErrorsSurface
=============================================================================
