----------------------------- MODULE LevelGeometry -----------------------------
(***************************************************************************)
(* The geometry a level of the minimal perfect hash is placed on           *)
(* (src/src/mphf.rs, build_level, chunk_starts, reserve, Map, ChunkOf,     *)
(* group_by_bucket): where its chunks start, which buckets before a        *)
(* boundary are its gap, which values a run and a gap can reach, and the   *)
(* occupancy maps, private to each piece, those values are kept on. What   *)
(* LevelPlacement takes for granted - that two runs never meet, and that a *)
(* gap meets no piece but its two chunks - is stated here of the numbers.  *)
(*                                                                         *)
(* The words and the bounds of the code are constants, scaled down.        *)
(***************************************************************************)
EXTENDS Integers, Sequences, FiniteSets, FiniteSetsExt, SequencesExt

CONSTANTS
    KeysABucket,  \* LAMBDA: keys a bucket, as a ratio
    CHUNK,        \* most buckets a chunk
    MIN_CHUNK,    \* fewest buckets a chunk of a deep level
    PIECE_FLOOR,  \* fewest buckets a piece of a first level
    PIECES,       \* pieces a small level, and a level's end, is cut into
    WordBits,     \* bits of a word: 64
    KeyHash,      \* hashes of the instances of group_by_bucket
    MinShard      \* fewest buckets a thread groups, 2^12

CeilDiv(a, b) == (a + b - 1) \div b
Clamp(x, a, b) == Max({a, Min({x, b})})

-------------------------------------------------------------------------------
(* Where the pieces of a level lie.                                        *)

Buckets(c) == Max({CeilDiv(c.n * KeysABucket[2], KeysABucket[1]), 1})

RECURSIVE Cut(_, _, _, _)
\* The starts after `at`, `size` apart, while `room` sizes are left.
Cut(at, buckets, size, room) ==
    IF buckets - at >= room * size THEN <<at + size>> \o Cut(at + size, buckets, size, room) ELSE <<>>

chunk_starts(buckets, deep) ==
    IF deep \/ buckets < 4 * CHUNK
    THEN <<0>> \o Cut(0, buckets,
             Clamp(buckets \div PIECES, IF deep THEN MIN_CHUNK ELSE Min({PIECE_FLOOR, CHUNK \div 4}), CHUNK), 2)
    ELSE LET whole == <<0>> \o Cut(0, buckets, CHUNK, 3)
         IN  whole \o Cut(Last(whole), buckets, (2 * CHUNK) \div PIECES, 2)

\* Fault: a slice's worth of buckets, without the bucket a start may round into.
reachShort(c) == Min({(c.slice * Buckets(c)) \div c.n, Buckets(c) \div 2})

\* The buckets before a boundary whose slices reach past it.
reach(c) == Min({CeilDiv((c.slice + 2) * Buckets(c), c.n) + 1, Buckets(c) \div 2})

Starts(c)     == chunk_starts(Buckets(c), c.deep)
Chunks(c)     == Len(Starts(c))
first_of(c, k) == Starts(c)[k + 1]
end_of(c, k)  == IF k + 1 < Chunks(c) THEN Starts(c)[k + 2] ELSE Buckets(c)
run_end(c, k) == end_of(c, k) - reach(c)
\* The smallest value a key of bucket b can take, and the last its slice can start at.
lo(c, b)      == (b * c.n) \div Buckets(c)
hi(c, b)      == CeilDiv((b + 1) * c.n, Buckets(c)) - 1

stride(c)     == Max({1, c.slice \div WordBits})
align(c, v)   == v - (v % (WordBits * stride(c)))
word(c, o)    == (o \div stride(c)) \div WordBits

-------------------------------------------------------------------------------
(* Map: value v is bit v >> shift of plane v & (stride - 1).               *)

NewMap(c, values) == [plane |-> (values \div stride(c)) \div WordBits + 3, bits |-> {}]
At(c, v)      == <<v % stride(c), v \div stride(c)>>
Set(c, m, V)  == [m EXCEPT !.bits = @ \cup {At(c, v) : v \in V}]
Get(c, m, v)  == At(c, v) \in m.bits
\* Map::window reads two words of the plane, from the bit's.
WindowInside(m, bit) == bit >= 0 /\ bit \div WordBits + 1 < m.plane

\* Map::merge: word by word, the words both have.
merge(m, other, at) ==
    LET from == Max({at, 0})
        to   == Clamp(at + other.plane, from, m.plane)
    IN  [m EXCEPT !.bits = @ \cup
            {<<b[1], b[2] + at * WordBits>> :
                b \in {b \in other.bits : b[2] \div WordBits + at \in from .. to - 1}}]

\* The parts one after another, joined a half at a time: a level may have many words.
RECURSIVE Joined(_)
LOCAL JoinedAt(parts, half) == Joined(SubSeq(parts, 1, half)) \o Joined(SubSeq(parts, half + 1, Len(parts)))
Joined(parts) ==
    CASE Len(parts) = 0 -> <<>>
      [] Len(parts) = 1 -> parts[1]
      [] OTHER -> JoinedAt(parts, Len(parts) \div 2)

\* Map::holes: word by word, a bit of every plane before the next bit.
holes(c, m, n) ==
    LET last == IF n = 0 THEN -1 ELSE (n - 1) \div stride(c)
    IN  Joined([i \in 1 .. last + 1 |->
            SelectSeq([p \in 1 .. stride(c) |-> (i - 1) * stride(c) + p - 1],
                      LAMBDA v : v < n /\ ~Get(c, m, v))])

-------------------------------------------------------------------------------
(* The map each piece is searched on.                                      *)

RunOrigin(c, k) == align(c, lo(c, first_of(c, k)))
\* Fault: the map ends where the run's buckets do.
RunValuesShort(c, k) == Min({lo(c, run_end(c, k)), c.n}) - RunOrigin(c, k)
RunValues(c, k) == Min({lo(c, run_end(c, k)) + c.slice, c.n}) - RunOrigin(c, k)
GapOrigin(c, g) == align(c, lo(c, run_end(c, g)))
GapValues(c, g) == lo(c, end_of(c, g)) + c.slice - GapOrigin(c, g)

\* The values of the run after a gap that may be held back for it.
Reserved(c, k) ==
    {lo(c, first_of(c, k)) + y - RunOrigin(c, k) :
        y \in 0 .. Min({c.slice, c.n - lo(c, first_of(c, k))}) - 1}

\* Fault: the offset of the left map is the gap's, not their difference.
WordsBetweenAbsolute(c, from, to) == word(c, from)
WordsBetween(c, from, to) == word(c, from) - word(c, to)

\* The map of gap g, prefilled from its chunks'.
GapMap(c, g, left, right) ==
    merge(merge(NewMap(c, GapValues(c, g)), left, WordsBetween(c, RunOrigin(c, g), GapOrigin(c, g))),
          right, WordsBetween(c, RunOrigin(c, g + 1), GapOrigin(c, g)))

-------------------------------------------------------------------------------
(* ChunkOf: the chunk of a bucket, by a table of every 2^shift-th bucket.  *)

TrailingZeros(x) == CHOOSE s \in 0 .. 16 : x % 2 ^ s = 0 /\ x % 2 ^ (s + 1) # 0
\* Fault: the shift of the widest start.
ShiftWidest(c) == Max({0} \cup {TrailingZeros(Starts(c)[i]) : i \in 2 .. Chunks(c)})
Shift(c) == Min({16} \cup {TrailingZeros(Starts(c)[i]) : i \in 2 .. Chunks(c)})
Table(c) == [i \in 0 .. CeilDiv(Buckets(c), 2 ^ Shift(c)) - 1 |->
                Cardinality({j \in 2 .. Chunks(c) : Starts(c)[j] <= i * 2 ^ Shift(c)})]

-------------------------------------------------------------------------------
(* group_by_bucket: each thread scatters a range of buckets.               *)

bucket_of(c, h) == (h * c.buckets) \div KeyHash
Before(c, b)    == Cardinality({i \in DOMAIN c.hs : bucket_of(c, c.hs[i]) < b})
per(c)          == Max({CeilDiv(c.buckets, Max({c.threads, 1})), MinShard})
\* Fault: the slots of a thread's buckets are not rebased onto its part.
SlotUnbased(c, i, b0) ==
    Before(c, bucket_of(c, c.hs[i]))
    + Cardinality({j \in 1 .. i - 1 : bucket_of(c, c.hs[j]) = bucket_of(c, c.hs[i])})
\* Where the thread whose first bucket is b0 puts key i of its part.
Slot(c, i, b0) ==
    Before(c, bucket_of(c, c.hs[i])) - Before(c, b0)
    + Cardinality({j \in 1 .. i - 1 : bucket_of(c, c.hs[j]) = bucket_of(c, c.hs[i])})
\* The part of the thread whose first bucket is b0: none where a slot is written twice or past it.
Part(c, b0) ==
    LET b1   == Min({b0 + per(c), c.buckets})
        mine == {i \in DOMAIN c.hs : bucket_of(c, c.hs[i]) \in b0 .. b1 - 1}
    IN  [s \in 1 .. Before(c, b1) - Before(c, b0) |->
            LET at == {i \in mine : Slot(c, i, b0) = s - 1}
            IN  IF Cardinality(at) = 1 THEN c.hs[CHOOSE i \in at : TRUE] ELSE -1]
group_by_bucket(c) ==
    FlattenSeq([t \in 1 .. CeilDiv(c.buckets, per(c)) |-> Part(c, (t - 1) * per(c))])

-------------------------------------------------------------------------------
Chunk(c) == 0 .. Chunks(c) - 1
Gap(c)   == 0 .. Chunks(c) - 2
\* What a run and a gap can reach: from the first value of their first bucket to the end of the
\* slice that starts last.
RunReach(c, k) == [from |-> lo(c, first_of(c, k)), to |-> hi(c, run_end(c, k) - 1) + c.slice]
GapReach(c, g) == [from |-> lo(c, run_end(c, g)), to |-> hi(c, end_of(c, g) - 1) + c.slice]
Disjoint(a, b) == a.to <= b.from \/ b.to <= a.from

\* No value can be taken by two runs, by two gaps, or by a gap and a run that is not one of its
\* two chunks: build_level searches the runs apart and a gap against its two chunks' maps alone.
PiecesApart(c) ==
    /\ \A j, k \in Chunk(c) : j < k => Disjoint(RunReach(c, j), RunReach(c, k))
    /\ \A g, h \in Gap(c) : g < h => Disjoint(GapReach(c, g), GapReach(c, h))
    /\ \A g \in Gap(c) : \A k \in Chunk(c) \ {g, g + 1} : Disjoint(GapReach(c, g), RunReach(c, k))

\* Every value a piece can take, and every value held back for the gap before a run, is on the
\* piece's map, with the window read from it; and a run wraps to the level's start only where its
\* map begins there (the comment on limit in seed_bucket).
MapsSuffice(c) ==
    /\ \A k \in Chunk(c) :
        LET m == NewMap(c, RunValues(c, k))
            top == RunReach(c, k).to - 1 - RunOrigin(c, k)
        IN  /\ RunReach(c, k).to > c.n => RunOrigin(c, k) = 0
            /\ RunReach(c, k).to <= c.n => top < RunValues(c, k)
            /\ WindowInside(m, (Min({top, RunValues(c, k) - 1})) \div stride(c))
            /\ \A v \in Reserved(c, k) : v >= 0 /\ v < RunValues(c, k)
    /\ \A g \in Gap(c) :
        LET top == GapReach(c, g).to - 1 - GapOrigin(c, g) IN
        /\ GapReach(c, g).to <= c.n
        /\ top < GapValues(c, g)

\* What a run leaves taken, in a pattern that tells neighbouring values and words apart.
Marks(c, r, origin) == {v - origin : v \in {v \in r.from .. r.to - 1 : (v * v) % 7 \in {0, 1, 4} /\ v < c.n}}
RunMap(c, k) == Set(c, NewMap(c, RunValues(c, k)), Marks(c, RunReach(c, k), RunOrigin(c, k)))

\* A gap's map holds exactly what its two chunks took of the values the gap can reach, and the
\* level's map exactly what its pieces took, although the maps are merged word by word; and the
\* holes of the level's map are the values nobody took, in order.
MergesExactly(c) ==
    /\ \A g \in Gap(c) :
        LET m == GapMap(c, g, RunMap(c, g), RunMap(c, g + 1)) IN
        \A v \in GapReach(c, g).from .. GapReach(c, g).to - 1 :
            Get(c, m, v - GapOrigin(c, g)) <=>
                \E k \in {g, g + 1} : v - RunOrigin(c, k) \in Marks(c, RunReach(c, k), RunOrigin(c, k))
    /\ LET merged == FoldFunction(LAMBDA k, m : merge(m, RunMap(c, k), word(c, RunOrigin(c, k))),
                                  NewMap(c, c.n), [k \in Chunk(c) |-> k])
           took   == UNION {{v + RunOrigin(c, k) : v \in Marks(c, RunReach(c, k), RunOrigin(c, k))} : k \in Chunk(c)}
       IN  holes(c, merged, c.n) = SelectSeq([i \in 1 .. c.n |-> i - 1], LAMBDA v : v \notin took)

\* Keys in any order find their chunk by the table (ChunkOf::of).
ChunksAreFound(c) ==
    \A b \in 0 .. Buckets(c) - 1 :
        LET k == Table(c)[b \div 2 ^ Shift(c)] IN first_of(c, k) <= b /\ b < end_of(c, k)

\* However many threads group the keys of a later level, each key is written once, in bucket order
\* and inside a bucket in the order they came (group_by_bucket).
GroupedWhateverTheThreads(c) ==
    group_by_bucket(c) = FlattenSeq([b \in 1 .. c.buckets |->
        SelectSeq(c.hs, LAMBDA h : bucket_of(c, h) = b - 1)])
================================================================================
