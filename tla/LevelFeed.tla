------------------------------- MODULE LevelFeed -------------------------------
(***************************************************************************)
(* The sources of a level of the minimal perfect hash (src/src/mphf.rs,    *)
(* Feed, Cutter and Grouped): how the workers that place a level claim its *)
(* chunks in order together with their keys, whether those lie sorted in   *)
(* memory, come from a sequential reader, or lie in memory in any order    *)
(* and are copied out a group of chunks at a time.                         *)
(*                                                                         *)
(* A key is its hash. A step is one atomic access or the critical section  *)
(* of one mutex; the claim of Grouped is held over the wait for the        *)
(* readers of the copy, so that wait is a state of its own.                *)
(***************************************************************************)
EXTENDS Integers, Sequences, FiniteSets, SequencesExt

CONSTANTS
    Workers,     \* the threads that place the level
    NoWorker,    \* holder of the free claim
    Buckets,     \* buckets of the level
    Span,        \* hashes a bucket
    Starts,      \* first bucket of each chunk: what chunk_starts returned
    Groups,      \* GROUPS: groups of chunks copied one at a time
    Word,        \* keys a word of marks names, 32 in the code
    ShardFloor,  \* least keys a shard, 2^16 in the code
    MaxKeys      \* bound: keys of the level

VARIABLES
    source,      \* Source: "none" before the build, then "slice", "stream" or "unsorted"
    hs,          \* the keys, in the order they lie or are yielded
    promised,    \* n: how many keys the caller said there are
    reader,      \* Feed::Slice's counter, or the Cutter: [next, pending, rest, fed, poisoned]
    claim,       \* Grouped's Claim: [holder, group, next, bounds]
    copy,        \* Grouped::keys: the copy of the group being handed out
    worker,      \* per worker: [at, k, range]
    handed,      \* chunks handed out, in order: [k, keys, start]
    level        \* what the build of the level came to

vars == <<source, hs, promised, reader, claim, copy, worker, handed, level>>

Hash         == 0 .. Buckets * Span - 1
bucket_of(h) == h \div Span
Sets         == {s \in UNION {[1 .. n -> Hash] : n \in 0 .. MaxKeys} : IsInjective(s)}
is_sorted(s) == \A i \in 1 .. Len(s) - 1 : s[i] <= s[i + 1]

Chunks       == Len(Starts)
Chunk        == 0 .. Chunks - 1
First(k)     == Starts[k + 1]
Limit(k)     == IF k + 1 < Chunks THEN Starts[k + 2] ELSE Buckets
Size(k)      == Limit(k) - First(k)
InChunk(h, k) == bucket_of(h) \in First(k) .. Limit(k) - 1

Smaller(a, b) == IF a < b THEN a ELSE b
Larger(a, b)  == IF a < b THEN b ELSE a
Most(S)       == CHOOSE x \in S : \A y \in S : y <= x

-------------------------------------------------------------------------------
(* Grouping a chunk's keys by bucket. *)

\* A run of keys grouped by bucket and the CSR offsets of its buckets.
Grouping(keys, start) == [keys |-> keys, start |-> start]

Upto(keys, b) == Cardinality({i \in DOMAIN keys : bucket_of(keys[i]) <= b})

\* sort_chunk: one stable counting sort.
sort_chunk(keys, k) ==
    Grouping(FlattenSeq([i \in 1 .. Size(k) |->
                             SelectSeq(keys, LAMBDA h : bucket_of(h) = First(k) + i - 1)]),
             [i \in 0 .. Size(k) |-> Upto(keys, First(k) + i - 1)])

\* Fault: an empty bucket keeps the zero its entry was filled with.
bucket_endsNoFill(keys, k) ==
    Grouping(keys,
             [i \in 0 .. Size(k) |->
                 Most({0} \cup {j \in DOMAIN keys : bucket_of(keys[j]) - First(k) = i - 1})])

\* bucket_ends: each key stores the index past itself in its bucket's entry, and a bucket with
\* no key takes its predecessor's.
bucket_ends(keys, k) ==
    Grouping(keys,
             [i \in 0 .. Size(k) |->
                 Most({0} \cup {j \in DOMAIN keys : bucket_of(keys[j]) - First(k) < i})])

-------------------------------------------------------------------------------
(* Grouped: keys in any order. *)

GroupCount == Smaller(Groups, Chunks)
GroupOf(k) == (First(k) * GroupCount) \div Buckets
\* firsts: a partition point over the chunks' groups.
FirstOfGroup(g) == Cardinality({k \in Chunk : GroupOf(k) < g})
ChunksOf(g)     == FirstOfGroup(g) .. FirstOfGroup(g + 1) - 1

\* per: a multiple of the keys a word of marks names.
Per == Larger(ShardFloor,
              Word * (((Len(hs) + Cardinality(Workers) - 1) \div Cardinality(Workers)
                       + Word - 1) \div Word))
ShardCount == (Len(hs) + Per - 1) \div Per
Shard(s)   == SubSeq(hs, (s - 1) * Per + 1, Smaller(s * Per, Len(hs)))

\* The marked count of a shard's keys in a chunk.
Count(s, k) == Cardinality({i \in DOMAIN Shard(s) : InChunk(Shard(s)[i], k)})
RECURSIVE Total(_, _)
Total(f, S) == IF S = {} THEN 0 ELSE LET x == CHOOSE x \in S : TRUE IN f[x] + Total(f, S \ {x})
ChunkCount(k) == Total([s \in 1 .. ShardCount |-> Count(s, k)], 1 .. ShardCount)
GroupSize(g)  == Total([k \in Chunk |-> ChunkCount(k)], ChunksOf(g))

\* Fault: room for the first group's keys.
AllocatedFirst == GroupSize(0)

\* The copy is as long as the largest group.
Allocated == Most({GroupSize(g) : g \in 0 .. GroupCount - 1})

\* The range of each chunk's keys in the copy of group g.
BoundsOf(g) == [k \in ChunksOf(g) |->
    LET before == Total([c \in Chunk |-> ChunkCount(c)], FirstOfGroup(g) .. k - 1)
    IN  [from |-> before, to |-> before + ChunkCount(k)]]

\* Fault: chunk after chunk inside each shard's range.
CopiedByShard(g) ==
    FlattenSeq([s \in 1 .. ShardCount |-> FlattenSeq([i \in 1 .. Cardinality(ChunksOf(g)) |->
        SelectSeq(Shard(s), LAMBDA h : InChunk(h, FirstOfGroup(g) + i - 1))])])

\* copy_group: every shard writes its keys of the group into its own range of each chunk's,
\* shard after shard.
Copied(g) ==
    FlattenSeq([i \in 1 .. Cardinality(ChunksOf(g)) |-> FlattenSeq([s \in 1 .. ShardCount |->
        SelectSeq(Shard(s), LAMBDA h : InChunk(h, FirstOfGroup(g) + i - 1))])])

\* The copy after group g's keys overwrite its front; Overrun is the panic of a split past its end.
Overrun == <<-1>>
Overwrite(g) ==
    IF Len(Copied(g)) > Len(copy) THEN Overrun
    ELSE Copied(g) \o SubSeq(copy, Len(Copied(g)) + 1, Len(copy))

-------------------------------------------------------------------------------
NoReader == [next |-> 0, pending |-> -1, rest |-> <<>>, fed |-> 0, poisoned |-> FALSE]
NoClaim  == [holder |-> NoWorker, group |-> 0, next |-> 0, bounds |-> <<>>]
Idle     == [at |-> "idle", k |-> 0, range |-> [from |-> 0, to |-> 0]]

Init ==
    /\ source = "none" /\ hs = <<>> /\ promised = 0
    /\ reader = NoReader /\ claim = NoClaim /\ copy = <<>>
    /\ worker = [w \in Workers |-> Idle]
    /\ handed = <<>>
    /\ level = "none"

Start == worker' = [w \in Workers |-> [Idle EXCEPT !.at = "next"]]

\* V2::build: the keys are in memory; sorted ones are grouped already. Grouped::new marks the
\* keys and copies group 0.
Build ==
    /\ source = "none"
    /\ \E s \in Sets :
        /\ hs' = s
        /\ promised' = Len(s)
        /\ source' = IF is_sorted(s) THEN "slice" ELSE "unsorted"
    /\ Start
    /\ IF source' = "unsorted"
       THEN /\ copy' = Copied(0)' \o [i \in 1 .. Allocated' - GroupSize(0)' |-> 0]
            /\ claim' = [claim EXCEPT !.bounds = BoundsOf(0)']
       ELSE UNCHANGED <<copy, claim>>
    /\ UNCHANGED <<reader, handed, level>>

\* V2::build_streaming: n keys are promised, and the iterator yields as many as it has.
BuildStreaming ==
    /\ source = "none"
    /\ \E s \in {t \in Sets : is_sorted(t)}, n \in 0 .. MaxKeys :
        /\ hs' = s
        /\ promised' = n
        /\ reader' = [reader EXCEPT !.rest = s]
    /\ source' = "stream"
    /\ Start
    /\ UNCHANGED <<claim, copy, handed, level>>

Move(w, at)   == worker' = [worker EXCEPT ![w].at = at]
HandOut(k, g) == handed' = Append(handed, [k |-> k, keys |-> g.keys, start |-> g.start])

-------------------------------------------------------------------------------
(* Feed::Slice: a relaxed counter over the bounds of the chunks' keys. *)

Bound(k)  == IF k = Chunks THEN Len(hs)
             ELSE Cardinality({i \in DOMAIN hs : bucket_of(hs[i]) < First(k)})

NextOfSlice(w) ==
    /\ source = "slice" /\ worker[w].at = "next"
    /\ LET k == reader.next IN
        /\ reader' = [reader EXCEPT !.next = k + 1]
        /\ IF k >= Chunks
           THEN Move(w, "ended") /\ UNCHANGED handed
           ELSE /\ HandOut(k, bucket_ends(SubSeq(hs, Bound(k) + 1, Bound(k + 1)), k))
                /\ UNCHANGED worker
    /\ UNCHANGED <<source, hs, promised, claim, copy, level>>

-------------------------------------------------------------------------------
(* Feed::Stream: a sequential reader behind a mutex. *)

\* What a chunk takes off the stream: the keys before its limit, the carried one first.
Waiting == IF reader.pending = -1 THEN reader.rest ELSE <<reader.pending>> \o reader.rest
Taken(k) ==
    LET past == {i \in DOMAIN Waiting : k + 1 < Chunks /\ bucket_of(Waiting[i]) >= Limit(k)}
    IN  IF past = {} THEN Len(Waiting) ELSE (CHOOSE i \in past : \A j \in past : i <= j) - 1

\* Fault: the key that ends a chunk is dropped.
AfterTakingDrop(m) ==
    IF m = Len(Waiting) THEN [pending |-> -1, rest |-> <<>>]
    ELSE [pending |-> -1, rest |-> SubSeq(Waiting, m + 2, Len(Waiting))]

\* The key that ends a chunk is kept for the chunk it belongs to.
AfterTaking(m) ==
    IF m = Len(Waiting) THEN [pending |-> -1, rest |-> <<>>]
    ELSE [pending |-> Waiting[m + 1], rest |-> SubSeq(Waiting, m + 2, Len(Waiting))]

NextOfStream(w) ==
    /\ source = "stream" /\ worker[w].at = "next" /\ ~reader.poisoned
    /\ LET k == reader.next m == Taken(k) IN
        IF k >= Chunks
        THEN Move(w, "ended") /\ UNCHANGED <<reader, handed>>
        ELSE /\ reader' = [reader EXCEPT !.next = k + 1,
                                         !.pending = AfterTaking(m).pending,
                                         !.rest = AfterTaking(m).rest,
                                         !.fed = reader.fed + m]
             /\ HandOut(k, bucket_ends(SubSeq(Waiting, 1, m), k))
             /\ UNCHANGED worker
    /\ UNCHANGED <<source, hs, promised, claim, copy, level>>

\* The caller's iterator panics under the mutex, as a worker pulls a key.
StreamPanics(w) ==
    /\ source = "stream" /\ worker[w].at = "next" /\ ~reader.poisoned
    /\ reader.next < Chunks
    /\ reader' = [reader EXCEPT !.poisoned = TRUE]
    /\ Move(w, "panicked")
    /\ UNCHANGED <<source, hs, promised, claim, copy, handed, level>>

\* A later lock().expect() of the poisoned mutex.
MeetPoison(w) ==
    /\ source = "stream" /\ worker[w].at = "next" /\ reader.poisoned
    /\ Move(w, "panicked")
    /\ UNCHANGED <<source, hs, promised, reader, claim, copy, handed, level>>

-------------------------------------------------------------------------------
(* Feed::Grouped: the claim is taken, the copy is filled if need be, the    *)
(* claim moves on and the copy is held for reading before it is let go.     *)

Readers == {w \in Workers : worker[w].at = "sort"}

\* Fault: the claim does not move on within a group.
TakeAgain(w, group, bounds) ==
    LET k == claim.next IN
    /\ claim' = [holder |-> NoWorker, group |-> group,
                 next |-> IF group = claim.group /\ k + 1 < Chunks THEN k ELSE k + 1, bounds |-> bounds]
    /\ worker' = [worker EXCEPT ![w] = [at |-> "sort", k |-> k, range |-> bounds[k]]]

\* Takes the next chunk from the claim w holds, and the read guard with it.
Take(w, group, bounds) ==
    LET k == claim.next IN
    /\ claim' = [holder |-> NoWorker, group |-> group, next |-> k + 1, bounds |-> bounds]
    /\ worker' = [worker EXCEPT ![w] = [at |-> "sort", k |-> k, range |-> bounds[k]]]

ClaimChunk(w) ==
    /\ source = "unsorted" /\ worker[w].at = "next" /\ claim.holder = NoWorker
    /\ \/ /\ claim.next = Chunks
          /\ Move(w, "ended")
          /\ UNCHANGED claim
       \/ /\ claim.next < Chunks /\ GroupOf(claim.next) = claim.group
          /\ Take(w, claim.group, claim.bounds)
       \/ /\ claim.next < Chunks /\ GroupOf(claim.next) # claim.group
          /\ claim' = [claim EXCEPT !.holder = w]
          /\ Move(w, "copy")
    /\ UNCHANGED <<source, hs, promised, reader, copy, handed, level>>

\* Fault: the claim is kept by whoever copied a group.
CopyGroupHolding(w) ==
    /\ worker[w].at = "copy" /\ Readers = {}
    /\ copy' = Overwrite(GroupOf(claim.next))
    /\ LET k == claim.next g == GroupOf(k) IN
        /\ claim' = [claim EXCEPT !.group = g, !.next = k + 1, !.bounds = BoundsOf(g)]
        /\ worker' = [worker EXCEPT ![w] = [at |-> "sort", k |-> k, range |-> BoundsOf(g)[k]]]
    /\ UNCHANGED <<source, hs, promised, reader, handed, level>>

\* Fault: the copy is overwritten without waiting for its readers.
Unread == TRUE

\* The copy's write lock is granted once nobody reads it.
WriteLock == Readers = {}

CopyGroup(w) ==
    /\ worker[w].at = "copy" /\ WriteLock
    /\ copy' = Overwrite(GroupOf(claim.next))
    /\ Take(w, GroupOf(claim.next), BoundsOf(GroupOf(claim.next)))
    /\ UNCHANGED <<source, hs, promised, reader, handed, level>>

\* The chunk's keys are grouped by bucket off the claim, under the read guard.
SortChunk(w) ==
    /\ worker[w].at = "sort"
    /\ LET range == worker[w].range IN
        HandOut(worker[w].k, sort_chunk(SubSeq(copy, range.from + 1, range.to), worker[w].k))
    /\ Move(w, "next")
    /\ UNCHANGED <<source, hs, promised, reader, claim, copy, level>>

-------------------------------------------------------------------------------
\* Feed::fed
Fed == IF source = "stream" THEN reader.fed ELSE Len(hs)

\* Fault: a short stream passes.
JudgeAny == "built"

\* build_from: a level fed other than the promised number of keys is refused.
Judge == IF Fed # promised THEN "short" ELSE "built"

Join ==
    /\ level = "none"
    /\ \A w \in Workers : worker[w].at \in {"ended", "panicked"}
    /\ level' = IF \E w \in Workers : worker[w].at = "panicked" THEN "panicked" ELSE Judge
    /\ UNCHANGED <<source, hs, promised, reader, claim, copy, worker, handed>>

WorkerStep(w) ==
    \/ NextOfSlice(w)
    \/ NextOfStream(w) \/ StreamPanics(w) \/ MeetPoison(w)
    \/ ClaimChunk(w) \/ CopyGroup(w) \/ SortChunk(w)

Next == Build \/ BuildStreaming \/ Join \/ \E w \in Workers : WorkerStep(w)

Fairness == WF_vars(Join) /\ \A w \in Workers : WF_vars(WorkerStep(w))

-------------------------------------------------------------------------------
\* What chunk k is over the keys hs: its buckets' keys in bucket order, each bucket's in the
\* order they came.
ChunkOver(k) ==
    Grouping(FlattenSeq([i \in 1 .. Size(k) |->
                             SelectSeq(hs, LAMBDA h : bucket_of(h) = First(k) + i - 1)]),
             [i \in 0 .. Size(k) |->
                 Cardinality({j \in DOMAIN hs : bucket_of(hs[j]) \in First(k) .. First(k) + i - 1})])

\* Every chunk a worker is handed (Feed::next) holds exactly its buckets' keys, grouped by bucket
\* and in the order they came inside one, with the offsets that say so - for every source, and
\* for a group's copy although another worker may be waiting to overwrite it.
HandedWhole ==
    \A i \in DOMAIN handed :
        Grouping(handed[i].keys, handed[i].start) = ChunkOver(handed[i].k)

\* No chunk is handed out twice, and when the workers have ended without a panic none is missing.
HandedOnce ==
    /\ \A i, j \in DOMAIN handed : handed[i].k = handed[j].k => i = j
    /\ level \in {"built", "short"} => {handed[i].k : i \in DOMAIN handed} = Chunk

\* A level is taken for built only when the chunks hold the promised number of keys: a stream that
\* yields more or fewer, or fails, never passes (the check of fed in build_from).
BuiltIsWhole ==
    /\ level = "built" => Len(hs) = promised
    /\ level = "short" => Len(hs) # promised

\* The copy made for the first group has room for every group (copy_group splits it by counts).
CopyFits == copy # Overrun

\* The workers of a level always end (whatever the source does), and the level with them.
LevelEnds == source # "none" ~> level # "none"
================================================================================
