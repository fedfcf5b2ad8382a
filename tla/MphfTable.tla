------------------------------- MODULE MphfTable -------------------------------
(***************************************************************************)
(* A minimal perfect hash as a table of levels (src/src/mphf.rs, V2): how  *)
(* it is built level by level from whatever seeds the placement finds, how *)
(* a hash is looked up alone and in a batch, and how it is written to a    *)
(* blob and read back.                                                     *)
(*                                                                         *)
(* The placement itself is LevelPlacement and the search SeedSearch; here  *)
(* a level may come out with any seeds that land the keys they place on    *)
(* distinct values. mix is one bijection of the hashes.                    *)
(***************************************************************************)
EXTENDS Integers, Sequences, FiniteSets, SequencesExt

CONSTANTS
    HashBits, SeedBits,  \* bits of a hash, and of a seed: 64 and 8
    NumBits,             \* bits of a number of keys, entries or values: 64
    FieldBits,           \* bits between the offset fields of two modes: 8
    MODE_BITS, STRIDE, SLICE, ShortSlice,
    PerBucket,           \* LAMBDA, keys a bucket
    TAIL_KEYS, MAX_LEVELS,
    SEED_AHEAD, RETRY_LEAD, BATCH_BLOCK, STAGE_GAP,
    MaxKeys              \* bound: keys built in

R == INSTANCE Remap WITH WordBits <- 2, BLOCK <- 2, SUPER <- 4, SELECT_WORDS <- 2,
                         SubMax <- 100, MaxLen <- 0, MaxU <- 0

VARIABLES
    phase,   \* "start", "levels", "tail", "table", then "read" once a blob was read back
    keys,    \* the keys built in
    left,    \* remaining: the keys no level has placed yet
    levels,  \* the bumping levels so far
    maps,    \* the values each level's keys took
    table,   \* the table, or what reading a blob gave
    blob     \* the blob the table was written to, or one with one field changed

vars == <<phase, keys, left, levels, maps, table, blob>>

Hash          == 0 .. 2 ^ HashBits - 1
Seed          == 0 .. 2 ^ SeedBits - 1
scale(x, k)   == (x * k) \div 2 ^ HashBits
bucket_of(h, buckets) == scale(h, buckets)
mix(x)        == (3 * x + 5) % 2 ^ HashBits
level_hash(h, lv) == mix((h + 3 * lv) % 2 ^ HashBits)
CeilDiv(a, b) == (a + b - 1) \div b
ilog2(x)      == CHOOSE i \in 0 .. x : 2 ^ i <= x /\ x < 2 ^ (i + 1)
Larger(a, b)  == IF a < b THEN b ELSE a
Smaller(a, b) == IF a < b THEN a ELSE b
Least(S)      == CHOOSE x \in S : \A y \in S : x <= y

-------------------------------------------------------------------------------
(* A level, and where it puts a hash.                                      *)

slice_for(n) == IF n >= SLICE THEN SLICE ELSE ShortSlice
stride_for(slice, mode_bits) ==
    IF mode_bits = 0 THEN Smaller(Larger(slice \div 2 ^ SeedBits, 1), STRIDE)
    ELSE slice \div 2 ^ (SeedBits - mode_bits)
of(n, buckets, slice, mode_bits) ==
    [n |-> n, buckets |-> buckets, slice |-> slice, mode_bits |-> mode_bits,
     shift |-> ilog2(stride_for(slice, mode_bits)), seeds |-> <<>>]
shape(n)    == of(n, Larger(CeilDiv(n, PerBucket), 1), slice_for(n), MODE_BITS)
SHIPPED     == of(0, 1, SLICE, MODE_BITS)
shipped(l)  == l.mode_bits = MODE_BITS /\ l.slice = SLICE
bumping_all == [SHIPPED EXCEPT !.seeds = <<0>>]

seed_of(l, h) == l.seeds[bucket_of(h, l.buckets) + 1]
wrapped(v, n) == IF v >= n THEN v - n ELSE v

\* value_in: the seed's mode picks the offset, its shift moves it, wrapped inside the slice, from
\* the slice's start, wrapped inside the range.
value(l, h, seed) ==
    LET bits == SeedBits - l.mode_bits
        t    == seed % 2 ^ bits
        mode == seed \div 2 ^ bits
        moved == ((h \div 2 ^ (FieldBits * mode)) + t * 2 ^ l.shift) % 2 ^ HashBits
    IN  wrapped(scale(h, l.n) + (moved % l.slice), l.n)

\* SEED_READS: a seed's offset field, and its shift moved up to that field on a shipped level and
\* stored over 2 ^ Held. Held is two in the code, and no more than the shipped stride's bits.
Held         == 1
ReadField(seed) == FieldBits * (seed \div 2 ^ (SeedBits - MODE_BITS))
ReadStep(seed)  ==
    (seed % 2 ^ (SeedBits - MODE_BITS)) * 2 ^ (SHIPPED.shift + ReadField(seed) - Held)

\* shipped_value: the step is added to the hash before the field is cut out of it.
shipped_value(l, h, seed) ==
    LET moved == (h + ReadStep(seed) * 2 ^ Held) % 2 ^ HashBits
    IN  wrapped(scale(h, l.n) + ((moved \div 2 ^ ReadField(seed)) % SLICE), l.n)

\* Fault: the step is not moved from the shipped stride to the level's.
later_valueAsShipped(l, h, seed) ==
    LET moved == (h + ReadStep(seed) * 2 ^ Held) % 2 ^ HashBits
    IN  wrapped(scale(h, l.n) + ((moved \div 2 ^ ReadField(seed)) % l.slice), l.n)

\* later_value: the step moved from the shipped stride to the level's.
later_value(l, h, seed) ==
    IF l.mode_bits # MODE_BITS THEN value(l, h, seed)
    ELSE LET step  == (ReadStep(seed) * 2 ^ l.shift) \div 2 ^ (SHIPPED.shift - Held)
             moved == (h + step) % 2 ^ HashBits
         IN  wrapped(scale(h, l.n) + ((moved \div 2 ^ ReadField(seed)) % l.slice), l.n)

\* Where the tail puts a hash under a seed.
position(h, seed, range) == scale(mix((h + seed * 3) % 2 ^ HashBits), range)
EmptyTail == [keys |-> 0, buckets |-> 0, range |-> 0, seed |-> 0, seeds |-> <<>>]

-------------------------------------------------------------------------------
(* Lookup.                                                                 *)

\* of_levels: the first level is read inline only when it has the shipped geometry.
of_levels(n, ls, tail, remap) ==
    LET inline == ls # <<>> /\ shipped(ls[1]) IN
    [n |-> n,
     placing     |-> IF inline THEN ls[1] ELSE bumping_all,
     other_first |-> IF ls # <<>> /\ ~inline THEN <<ls[1]>> ELSE <<>>,
     rest        |-> IF ls = <<>> THEN <<>> ELSE Tail(ls),
     tail        |-> tail,
     remap       |-> remap]

first(t) == IF t.placing.n # 0 THEN <<t.placing>> ELSE t.other_first
AllLevels(t) == first(t) \o t.rest

\* Fault: the values of the levels passed over are not counted.
RECURSIVE bumped_valueFrom0(_, _, _, _)
bumped_valueFrom0(t, h, i, shift) ==
    IF i > Len(t.rest)
    THEN IF t.tail.buckets = 0 THEN -1
         ELSE LET ht == mix((h + t.tail.seed) % 2 ^ HashBits)
              IN  shift + position(ht, t.tail.seeds[scale(ht, t.tail.buckets) + 1], t.tail.range)
    ELSE LET hi == level_hash(h, i) seed == seed_of(t.rest[i], hi)
         IN  IF seed # 0 THEN shift + later_value(t.rest[i], hi, seed)
             ELSE bumped_valueFrom0(t, h, i + 1, shift)

\* bumped_value: the first further level that places it, after every earlier level's values, or
\* its place in the tail; -1 when the tail is empty.
RECURSIVE bumped_value(_, _, _, _)
bumped_value(t, h, i, shift) ==
    IF i > Len(t.rest)
    THEN IF t.tail.buckets = 0 THEN -1
         ELSE LET ht == mix((h + t.tail.seed) % 2 ^ HashBits)
              IN  shift + position(ht, t.tail.seeds[scale(ht, t.tail.buckets) + 1], t.tail.range)
    ELSE LET hi == level_hash(h, i) seed == seed_of(t.rest[i], hi)
         IN  IF seed # 0 THEN shift + later_value(t.rest[i], hi, seed)
             ELSE bumped_value(t, h, i + 1, shift + t.rest[i].n)

\* Fault: a hash that reaches an empty tail answers the number of keys.
RemappedPast(t, v) == IF v = -1 THEN t.n ELSE R!get(t.remap, v)

Remapped(t, v) == IF v = -1 THEN 0 ELSE R!get(t.remap, v)

index_bumped(t, h) ==
    IF t.other_first # <<>> /\ seed_of(t.other_first[1], h) # 0
    THEN later_value(t.other_first[1], h, seed_of(t.other_first[1], h))
    ELSE Remapped(t, bumped_value(t, h, 1, 0))

index(t, h) ==
    IF seed_of(t.placing, h) # 0
    THEN shipped_value(t.placing, h, seed_of(t.placing, h))
    ELSE index_bumped(t, h)

-------------------------------------------------------------------------------
(* index_all: a block of keys through the first level, their seeds' buckets *)
(* kept in a ring a lead ahead, then the keys it bumped.                    *)

\* answer_block, key by key from the i-th of the batch to the `end`-th.
RECURSIVE answer_block(_, _, _, _, _, _, _)
answer_block(l, hs, i, end, lead, ring, done) ==
    IF i = end THEN [ring |-> ring, done |-> done]
    ELSE LET at    == ring[i % SEED_AHEAD]
             ring2 == IF i + lead < Len(hs)
                      THEN [ring EXCEPT ![(i + lead) % SEED_AHEAD] = bucket_of(hs[i + lead + 1], l.buckets)]
                      ELSE ring
             seed  == l.seeds[at + 1]
         IN  answer_block(l, hs, i + 1, end, lead, ring2,
                 Append(done, [bumped |-> seed = 0, answer |-> value(l, hs[i + 1], seed)]))

\* resolve_bumped: three stages a gap apart over the bumped keys of a block; a stage is
\* [at |-> what bumped_value gave each, out |-> the answers].
RECURSIVE resolve_bumped(_, _, _, _, _, _)
resolve_bumped(t, hs, bumped, i, at, out) ==
    IF i = Len(bumped) + 2 * STAGE_GAP THEN out
    ELSE LET found == i - STAGE_GAP
             ended == i - 2 * STAGE_GAP
             at2   == IF found \in 0 .. Len(bumped) - 1
                      THEN [at EXCEPT ![found + 1] = bumped_value(t, hs[bumped[found + 1]], 1, 0)] ELSE at
             out2  == IF ended \in 0 .. Len(bumped) - 1
                      THEN [out EXCEPT ![bumped[ended + 1]] = Remapped(t, at2[ended + 1])] ELSE out
         IN  resolve_bumped(t, hs, bumped, i + 1, at2, out2)

RECURSIVE batch(_, _, _, _, _)
batch(t, l, hs, ring, out) ==
    IF Len(out) = Len(hs) THEN out
    ELSE LET base == Len(out)
             end  == Smaller(base + BATCH_BLOCK, Len(hs))
             lead == ring.lead
             b    == answer_block(l, hs, base, end, lead, ring.buckets, <<>>)
             bumped == SelectSeq([k \in 1 .. end - base |-> base + k],
                                 LAMBDA k : b.done[k - base].bumped)
             answers == out \o [k \in DOMAIN b.done |-> b.done[k].answer]
         IN  batch(t, l, hs, [ring EXCEPT !.buckets = b.ring],
                   resolve_bumped(t, hs, bumped, 0, [i \in DOMAIN bumped |-> -1], answers))

\* Fault: the ring starts from a retrying batch's keys whatever the lead.
StartRingShort(l, hs, lead) ==
    [lead |-> lead,
     buckets |-> [s \in 0 .. SEED_AHEAD - 1 |->
         IF s < RETRY_LEAD /\ s < Len(hs) THEN bucket_of(hs[s + 1], l.buckets) ELSE 0]]

StartRing(l, hs, lead) ==
    [lead |-> lead,
     buckets |-> [s \in 0 .. SEED_AHEAD - 1 |->
         IF s < lead /\ s < Len(hs) THEN bucket_of(hs[s + 1], l.buckets) ELSE 0]]

index_all_from(t, hs, prefetch, retry) ==
    IF first(t) = <<>> \/ Len(first(t)[1].seeds) < prefetch
    THEN [i \in DOMAIN hs |-> index(t, hs[i])]
    ELSE LET l == first(t)[1]
             lead == IF Len(l.seeds) >= retry THEN RETRY_LEAD ELSE SEED_AHEAD
         IN  batch(t, l, hs, StartRing(l, hs, lead), <<>>)

-------------------------------------------------------------------------------
(* Building.                                                               *)

Init ==
    /\ phase = "start" /\ keys = {} /\ left = {}
    /\ levels = <<>> /\ maps = <<>> /\ table = <<>> /\ blob = <<>>

Start ==
    /\ phase = "start"
    /\ \E S \in {S \in SUBSET Hash : Cardinality(S) <= MaxKeys} : keys' = S /\ left' = S
    /\ phase' = "levels"
    /\ UNCHANGED <<levels, maps, table, blob>>

\* What the level numbered lv sees of a key.
Seen(lv, h) == IF lv = 0 THEN h ELSE level_hash(h, lv)
Bumped(l, lv) == {h \in left : seed_of(l, Seen(lv, h)) = 0}
Placed(l, lv) == left \ Bumped(l, lv)
ValueOf(l, lv, h) == value(l, Seen(lv, h), seed_of(l, Seen(lv, h)))

\* One bumping level over the keys left, under any seeds that place the keys of their buckets on
\* distinct values; the first is over more keys than the tail takes or not built at all.
Level ==
    /\ phase = "levels" /\ Cardinality(left) > TAIL_KEYS /\ Len(levels) < MAX_LEVELS
    /\ LET lv == Len(levels) blank == shape(Cardinality(left)) IN
       \E seeds \in [1 .. blank.buckets -> Seed] :
         LET l == [blank EXCEPT !.seeds = seeds] IN
         /\ \A g, h \in Placed(l, lv) : ValueOf(l, lv, g) = ValueOf(l, lv, h) => g = h
         /\ IF lv > 0 /\ Placed(l, lv) = {}
            THEN phase' = "tail" /\ UNCHANGED <<left, levels, maps>>
            ELSE /\ left' = Bumped(l, lv)
                 /\ levels' = Append(levels, l)
                 /\ maps' = Append(maps, {ValueOf(l, lv, h) : h \in Placed(l, lv)})
                 /\ UNCHANGED phase
    /\ UNCHANGED <<keys, table, blob>>

\* The remap: the values of the levels below the first and of the tail, in order, take the holes
\* the first level left, in order; a value no key landed on takes its predecessor's, or the first.
Takes(free, taken, v) ==
    LET before == Cardinality({w \in taken : w <= v}) IN free[Larger(before, 1)]
\* The ranges of the values below the first level, one after another.
RECURSIVE Spread(_, _, _)
Spread(i, ls, at) ==
    IF i > Len(ls) THEN {}
    ELSE {at + v : v \in maps[i]} \cup Spread(i + 1, ls, at + ls[i].n)
RECURSIVE RangeOf(_, _)
RangeOf(i, ls) == IF i > Len(ls) THEN 0 ELSE ls[i].n + RangeOf(i + 1, ls)
Holes == SetToSortSeq({v \in 0 .. Cardinality(keys) - 1 : maps = <<>> \/ v \notin maps[1]},
                      LAMBDA a, b : a < b)

\* build_tail, under any hash seed and bucket seeds that land its keys on distinct positions, and
\* then the remap.
BuildTail ==
    /\ \/ phase = "tail"
       \/ phase = "levels" /\ (Cardinality(left) <= TAIL_KEYS \/ Len(levels) = MAX_LEVELS)
    /\ LET k       == Cardinality(left)
           buckets == IF k = 0 THEN 0 ELSE CeilDiv(k, PerBucket)
           range   == IF k = 0 THEN 0 ELSE k + 1
       IN  \E seed \in 0 .. 1, seeds \in [1 .. buckets -> 0 .. 1] :
            LET tail == IF k = 0 THEN EmptyTail
                        ELSE [keys |-> k, buckets |-> buckets, range |-> range, seed |-> seed, seeds |-> seeds]
                ht(h) == mix((h + seed) % 2 ^ HashBits)
                at(h) == position(ht(h), seeds[scale(ht(h), buckets) + 1], range)
                below == IF levels = <<>> THEN 0 ELSE RangeOf(2, levels)
                taken == Spread(2, levels, 0) \cup {below + at(h) : h \in left}
                entries == below + tail.range
            IN  /\ k = 0 => seed = 0
                /\ \A g, h \in left : at(g) = at(h) => g = h
                /\ table' = of_levels(Cardinality(keys), levels, tail,
                       R!encode([i \in 1 .. entries |->
                                    IF Holes = <<>> THEN 0 ELSE Takes(Holes, taken, i - 1)],
                                Cardinality(keys)))
    /\ phase' = "table"
    /\ UNCHANGED <<keys, left, levels, maps, blob>>

-------------------------------------------------------------------------------
(* The blob: a header of scalars and level rows, then the sections.        *)

to_bytes(t) ==
    LET ls == AllLevels(t) IN
    [n |-> t.n, mode_bits |-> MODE_BITS, tail |-> [t.tail EXCEPT !.seeds = <<>>],
     low_bits |-> t.remap.low_bits,
     rows |-> [i \in DOMAIN ls |-> [n |-> ls[i].n, buckets |-> ls[i].buckets, slice |-> ls[i].slice]],
     seeds |-> FlattenSeq([i \in DOMAIN ls |-> ls[i].seeds]),
     tail_seeds |-> t.tail.seeds,
     low |-> t.remap.low, lowLen |-> t.remap.lowLen,
     high |-> t.remap.high,
     highLen |-> IF t.remap.len = 0 THEN 0 ELSE t.remap.highLen - R!held_words(1, 0),
     supers |-> t.remap.supers, subs |-> t.remap.subs]

Refused == [refused |-> TRUE]
RECURSIVE RowSum(_, _, _)
RowSum(rows, from, what) ==
    IF from > Len(rows) THEN 0 ELSE rows[from][what] + RowSum(rows, from + 1, what)

PowersOfTwo == {2 ^ i : i \in 0 .. NumBits - 1}
MaxNum == 2 ^ NumBits - 1
\* Fault: a slice longer than the level passes.
ShapedLoose(b, i) ==
    LET r == b.rows[i] IN
    /\ r.n # 0 /\ r.buckets # 0
    /\ r.slice \in PowersOfTwo /\ r.slice <= MaxNum - r.n
    /\ b.mode_bits > 0 => r.slice \div 2 ^ (SeedBits - b.mode_bits) # 0
    /\ i = 1 => r.n = b.n

\* A level row a lookup stays inside of: a slice fits in the range, a value and an offset in its
\* slice in a number, and the slice holds a stride.
Shaped(b, i) ==
    LET r == b.rows[i] IN
    /\ r.n # 0 /\ r.buckets # 0
    /\ r.slice \in PowersOfTwo /\ r.slice <= r.n /\ r.slice <= MaxNum - r.n
    /\ b.mode_bits > 0 => r.slice \div 2 ^ (SeedBits - b.mode_bits) # 0
    /\ i = 1 => r.n = b.n

Entries(b) == RowSum(b.rows, 2, "n") + b.tail.range
\* Every section is as long as the header says: the lengths are not in the blob, so this is the
\* check of the blob's length. The code adds them up checked; a sum past a number is no blob's length.
Long(b) ==
    /\ Len(b.seeds) = RowSum(b.rows, 1, "buckets")
    /\ Len(b.tail_seeds) = b.tail.buckets
    /\ b.lowLen = R!low_words(Entries(b), b.low_bits)
    /\ b.highLen = R!high_words(Entries(b), b.n, b.low_bits)
    /\ Len(b.supers) = R!super_count(Entries(b)) /\ Len(b.subs) = R!sub_count(Entries(b))

RemapOf(b) ==
    [len |-> Entries(b), low_bits |-> b.low_bits, low |-> b.low, lowLen |-> b.lowLen,
     high |-> b.high, highLen |-> R!held_words(Entries(b), b.highLen),
     supers |-> b.supers, subs |-> b.subs]

\* Fault: every level's seeds are read from the section's start.
LevelsOfStart(b) ==
    [i \in DOMAIN b.rows |->
        [of(b.rows[i].n, b.rows[i].buckets, b.rows[i].slice, b.mode_bits) EXCEPT
            !.seeds = SubSeq(b.seeds, 1, b.rows[i].buckets)]]

LevelsOf(b) ==
    [i \in DOMAIN b.rows |->
        [of(b.rows[i].n, b.rows[i].buckets, b.rows[i].slice, b.mode_bits) EXCEPT
            !.seeds = LET at == RowSum(SubSeq(b.rows, 1, i - 1), 1, "buckets")
                      IN  SubSeq(b.seeds, at + 1, at + b.rows[i].buckets)]]

from_bytes(b) ==
    IF b.mode_bits \notin {0, MODE_BITS} \/ Len(b.rows) > MAX_LEVELS THEN Refused
    ELSE IF b.n = 0
    THEN IF b.rows # <<>> \/ b.tail # EmptyTail \/ b.low_bits # 0 \/ ~Long(b) THEN Refused
         ELSE of_levels(0, <<>>, EmptyTail, R!encode(<<>>, 0))
    ELSE IF (\E i \in DOMAIN b.rows : ~Shaped(b, i))
            \/ ((b.tail.buckets = 0) # (b.tail.range = 0)) \/ ((b.tail.buckets = 0) # (b.tail.keys = 0))
            \/ b.low_bits >= NumBits \/ ~Long(b)
    THEN Refused
    ELSE IF ~R!validate(RemapOf(b), b.n) THEN Refused
    ELSE of_levels(b.n, LevelsOf(b), [b.tail EXCEPT !.seeds = b.tail_seeds], RemapOf(b))

Write ==
    /\ phase = "table"
    /\ blob' = to_bytes(table)
    /\ phase' = "written"
    /\ UNCHANGED <<keys, left, levels, maps, table>>

\* A blob with one thing changed, its check recomputed.
Changed(b) ==
    {[b EXCEPT !.n = x] : x \in {b.n - 1, b.n + 1} \cap Nat}
    \cup {[b EXCEPT !.mode_bits = 0]} \cup {[b EXCEPT !.low_bits = x] : x \in {b.low_bits + 1, NumBits}}
    \cup {[b EXCEPT !.tail.range = x] : x \in {0, b.tail.range + 1}}
    \cup UNION {{[b EXCEPT !.rows[i].slice = x] : x \in {1, 2, 3, 4, 8}} : i \in DOMAIN b.rows}
    \cup UNION {{[b EXCEPT !.rows[i].n = x] : x \in {b.rows[i].n - 1, b.rows[i].n + 1, MaxNum}} : i \in DOMAIN b.rows}
    \cup {[b EXCEPT !.high = (b.high \ {p}) \cup ({p} \ b.high)] : p \in 0 .. b.highLen * 2 - 1}
    \cup {[b EXCEPT !.low = (b.low \ {p}) \cup ({p} \ b.low)] : p \in 0 .. b.lowLen * 2 - 1}
    \cup {[b EXCEPT !.subs[i] = b.subs[i] + 1] : i \in DOMAIN b.subs}
    \cup {[b EXCEPT !.seeds[i] = (b.seeds[i] + 1) % 2 ^ SeedBits] : i \in DOMAIN b.seeds}

Read ==
    /\ phase = "written"
    /\ \E b \in {blob} \cup Changed(blob) :
        /\ blob' = b
        /\ table' = from_bytes(b)
        /\ phase' = IF b = blob THEN "read" ELSE "changed"
    /\ UNCHANGED <<keys, left, levels, maps>>

Next == Start \/ Level \/ BuildTail \/ Write \/ Read

-------------------------------------------------------------------------------
\* Whatever seeds the placement finds, the keys built in take the ids 0 .. n - 1, one each: what
\* the levels below the first and the tail hand out fills exactly the first level's holes.
Minimal ==
    phase = "table" =>
        /\ {index(table, h) : h \in keys} = 0 .. Cardinality(keys) - 1

\* A hash that was never built in still gets an id below n (callers index arrays by it), and 0 of
\* an empty table.
ForeignInside ==
    phase = "table" => \A h \in Hash : index(table, h) \in 0 .. Larger(Cardinality(keys) - 1, 0)

\* The two compiled decodes of a seed give the value the general one gives, for every hash and
\* seed on every level that reads them (SEED_READS).
DecodesAgree ==
    phase = "table" =>
        \A i \in DOMAIN levels : \A h \in Hash, seed \in Seed :
            /\ later_value(levels[i], h, seed) = value(levels[i], h, seed)
            /\ shipped(levels[i]) => shipped_value(levels[i], h, seed) = value(levels[i], h, seed)

\* A batch answers what the single lookup answers, key by key, at either lead: the ring gives each
\* key its own bucket, and a bumped key its own answer (index_all).
Batch == [i \in 1 .. 2 ^ HashBits |-> (5 * i) % 2 ^ HashBits]
BatchAgrees ==
    phase = "table" =>
        \A retry \in {0, 100} :
            index_all_from(table, Batch, 0, retry) = [i \in DOMAIN Batch |-> index(table, Batch[i])]

\* A table read from the blob it was written to is refused by none of the checks, writes that
\* very blob again and still gives its keys the ids 0 .. n - 1 (write_into against from_bytes).
ReadsBack ==
    phase = "read" =>
        /\ table # Refused
        /\ to_bytes(table) = blob
        /\ {index(table, h) : h \in keys} = 0 .. Cardinality(keys) - 1

\* A blob with a field changed, when it is accepted at all, answers inside its own image for every
\* hash, with every remap read inside the tables (from_bytes and validate stand for the unchecked
\* reads of a lookup).
AcceptedStaysInside ==
    phase = "changed" /\ table # Refused =>
        \A h \in Hash :
            LET v == bumped_value(table, h, 1, 0) IN
            /\ index(table, h) \in 0 .. Larger(table.n - 1, 0)
            /\ v # -1 => v < table.remap.len /\ R!ReadsInside(table.remap, v)
================================================================================
