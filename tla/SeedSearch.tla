------------------------------- MODULE SeedSearch -------------------------------
(***************************************************************************)
(* The search for a bucket's seed (src/src/mphf.rs, seed_run, seed_bucket, *)
(* seed_bucket_lanes, seed_bucket_wide): which bucket is searched next,    *)
(* and which seed of all those that place its keys on distinct free values *)
(* is taken.                                                               *)
(*                                                                         *)
(* A machine word of shifts is the set of the shifts whose bits are set.   *)
(* A level's form l is [n, slice, stride, modes, shifts, word, origin]:    *)
(* `word` is the bits of a machine word, 64 in the code, and `origin` the  *)
(* value that is bit 0 of the map of a run.                                *)
(***************************************************************************)
EXTENDS Integers, Sequences, FiniteSets, SequencesExt

CONSTANTS
    HashBits,   \* bits of a hash
    FieldBits,  \* bits between the offset fields of two modes: 8
    PROD_C,     \* added to each position before its logarithm is taken
    LOG2,       \* log2 of 1, 2, .. in fixed point, rounded: 16.16 in the code
    LANES,      \* the keys of a bucket the lanes are written for: 16
    MAX_BUCKET  \* the keys of a bucket that is searched at all: 64

Hash        == 0 .. 2 ^ HashBits - 1
scale(x, k) == (x * k) \div 2 ^ HashBits
CeilDiv(a, b) == (a + b - 1) \div b
Least(S)    == CHOOSE x \in S : \A y \in S : x <= y
SumOf(f)    == FoldLeft(LAMBDA x, y : x + y, 0, f)
MapS(Op(_), s) == [i \in DOMAIN s |-> Op(s[i])]

-------------------------------------------------------------------------------
(* A bucket's keys under a level's form.                                   *)

start(l, h)        == scale(h, l.n) - l.origin
limit(l)           == l.n - l.origin
fold(l, v)         == IF v >= limit(l) THEN v - limit(l) ELSE v
offset(l, h, mode) == (h \div 2 ^ (FieldBits * mode)) % l.slice
\* The position in its slice of a key at offset o under shift t.
Position(l, o, t)  == (o + t * l.stride) % l.slice
\* The shift at which a key at offset o wraps to its slice's start.
cut(l, o)          == CeilDiv(l.slice - o, l.stride)
value(l, h, mode, t) == fold(l, start(l, h) + Position(l, offset(l, h, mode), t))
slow(l, h)         == start(l, h) + l.slice > limit(l)
period(l)          == l.slice \div l.stride

Modes(l)  == 0 .. l.modes - 1
Shifts(l) == 0 .. l.shifts - 1
Word(l)   == 0 .. l.word - 1

\* Map::window: a word of the plane of value v, from the bit `by` on from v's.
window(l, taken, v, by) ==
    {j \in Word(l) : (v % l.stride) + (v \div l.stride + by + j) * l.stride \in taken}

\* The product of the keys' positions, as the sum of their logarithms.
score(l, ks, mode, t) == SumOf(MapS(LAMBDA h : LOG2[Position(l, offset(l, h, mode), t) + PROD_C], ks))
SumAt(l, ks, mode, t) == SumOf(MapS(LAMBDA h : Position(l, offset(l, h, mode), t), ks))
Apart(l, ks, mode, t) == IsInjective(MapS(LAMBDA h : value(l, h, mode, t), ks))

None == [found |-> FALSE, score |-> 0, mode |-> 0, t |-> 0]
Seed(s, mode, t) == [found |-> TRUE, score |-> s, mode |-> mode, t |-> t]

-------------------------------------------------------------------------------
(* seed_bucket: a mode's shifts that some key rules out, as one word.       *)

BucketWord(l, ks, taken, mode) ==
    LET ruledOutBy(h) ==
            LET o == offset(l, h, mode)
                v == fold(l, start(l, h) + o)
                c == cut(l, o)
            IN  IF slow(l, h) THEN {t \in Shifts(l) : value(l, h, mode, t) \in taken}
                ELSE {t \in window(l, taken, v, 0) : t < c}
                     \cup {t + c : t \in {t \in window(l, taken, v, c - period(l)) : t + c < l.word}}
    IN  UNION {ruledOutBy(ks[i]) : i \in DOMAIN ks}
        \cup (IF mode = 0 THEN {0} ELSE {})
        \cup (Word(l) \ Shifts(l))

\* Fault: a mode's first free shift is its only candidate.
WrapsNone(l, ks, mode) == {}

Wraps(l, ks, mode) ==
    {c \in {cut(l, offset(l, ks[i], mode)) : i \in DOMAIN ks} : c < l.shifts}

\* The first free shift at or after shift 0 and each wrap, the lowest score kept; one whose
\* values fold onto one another is struck out and its wrap tried again.
RECURSIVE Candidates(_, _, _, _, _, _)
Candidates(l, ks, mode, from, u, best) ==
    IF from = {} THEN best
    ELSE LET c    == Least(from)
             free == {t \in Word(l) \ u : t >= c}
         IN  IF free = {} THEN best
             ELSE LET t == Least(free) IN
                  IF best.found /\ best.score <= score(l, ks, mode, t)
                  THEN Candidates(l, ks, mode, from \ {c}, u, best)
                  ELSE IF ~Apart(l, ks, mode, t)
                  THEN Candidates(l, ks, mode, from, u \cup {t}, best)
                  ELSE Candidates(l, ks, mode, from \ {c}, u, Seed(score(l, ks, mode, t), mode, t))

RECURSIVE SearchModes(_, _, _, _, _)
SearchModes(l, ks, taken, mode, best) ==
    IF mode = l.modes THEN best
    ELSE SearchModes(l, ks, taken, mode + 1,
             IF ~Apart(l, ks, mode, 0) THEN best
             ELSE Candidates(l, ks, mode, Wraps(l, ks, mode) \cup {0},
                             BucketWord(l, ks, taken, mode), best))

\* A bucket of more keys is bumped outright.
seed_bucket(l, ks, taken) ==
    IF Len(ks) > MAX_BUCKET THEN None ELSE SearchModes(l, ks, taken, 0, None)

-------------------------------------------------------------------------------
(* seed_bucket_lanes: the same seed, all of a mode's candidates out of one  *)
(* addition. Only for keys whose slices end inside the range.               *)

Num(S)    == SumOf([i \in 1 .. Cardinality(S) |-> 2 ^ SetToSeq(S)[i]])
Bits(l, x) == {j \in Word(l) : (x \div 2 ^ j) % 2 = 1}
rotate_left(l, S, c) == {(j + c) % l.word : j \in S}
\* Shifts a .. b - 1.
span(a, b) == a .. b - 1

\* Fault: two keys a slice apart are told apart by their residue alone.
MeetAlways(l, vi, vj, ci, cj) == IF vi = vj THEN Word(l) ELSE {}

\* The shifts under which two keys meet, by their values under shift 0 and their wraps.
Meet(l, vi, vj, ci, cj) ==
    IF vi = vj THEN Word(l)
    ELSE IF vi - vj = l.slice THEN span(ci, cj)
    ELSE IF vj - vi = l.slice THEN span(cj, ci)
    ELSE {}

LaneWord(l, ks, taken, mode) ==
    LET o == MapS(LAMBDA h : offset(l, h, mode), ks)
        c == MapS(LAMBDA x : cut(l, x), o)
        v == [j \in DOMAIN ks |-> start(l, ks[j]) + o[j]]
        mates == {p \in (DOMAIN ks) \X (DOMAIN ks) : p[1] < p[2] /\ v[p[1]] % l.word = v[p[2]] % l.word}
        twice == \E i, j \in DOMAIN ks : i < j /\ v[i] % l.slice = v[j] % l.slice
    IN  (IF mode = 0 THEN {0} ELSE {})
        \cup UNION {rotate_left(l, window(l, taken, v[j], c[j] - l.word), c[j]) : j \in DOMAIN ks}
        \cup (IF twice THEN UNION {Meet(l, v[p[1]], v[p[2]], c[p[1]], c[p[2]]) : p \in mates} ELSE {})

\* Fault: the carry is not masked by the shifts ruled out.
CarriesLoose(l, wraps, u) == (wraps \ u) \cup Bits(l, (Num(u) + Num(wraps \cap u)) % 2 ^ l.word)

\* The first free shift at or after each wrap is where a carry from the wrap's bit stops.
Carries(l, wraps, u) ==
    (wraps \ u) \cup (Bits(l, (Num(u) + Num(wraps \cap u)) % 2 ^ l.word) \ u)

LaneCandidates(l, ks, taken, mode) ==
    Carries(l, {0} \cup {cut(l, offset(l, ks[i], mode)) % l.word : i \in DOMAIN ks},
            LaneWord(l, ks, taken, mode))

Lowest(l, seeds) ==
    IF seeds = {} THEN None
    ELSE CHOOSE s \in seeds : \A r \in seeds :
            \/ s.score < r.score
            \/ s.score = r.score /\ s.mode * l.shifts + s.t <= r.mode * l.shifts + r.t

Laned(l, ks) == l.shifts = l.word /\ Len(ks) <= LANES /\ \A i \in DOMAIN ks : ~slow(l, ks[i])

seed_bucket_lanes(l, ks, taken) ==
    Lowest(l, UNION {{Seed(score(l, ks, mode, t), mode, t) : t \in LaneCandidates(l, ks, taken, mode)}
                     : mode \in Modes(l)})

-------------------------------------------------------------------------------
(* seed_bucket_wide: more shifts a mode than a word holds; interval by      *)
(* interval between the wraps, from the last, scored by the sum.            *)

WideWord(l, ks, taken, mode, t0, to) ==
    LET ruledOutBy(h) ==
            LET o == offset(l, h, mode)
                back == IF cut(l, o) <= t0 THEN period(l) ELSE 0
            IN  IF slow(l, h)
                THEN {j \in Word(l) : value(l, h, mode, t0 + j) \in taken}
                ELSE window(l, taken, fold(l, start(l, h) + o), t0 - back)
    IN  UNION {ruledOutBy(ks[i]) : i \in DOMAIN ks}
        \cup (IF t0 = 0 /\ mode = 0 THEN {0} ELSE {})
        \cup {j \in Word(l) : j >= to - t0}

\* The first shift in from .. to - 1 that places the bucket, or -1.
RECURSIVE first_feasible(_, _, _, _, _, _)
first_feasible(l, ks, taken, mode, from, to) ==
    IF from >= to THEN -1
    ELSE LET free == {j \in Word(l) \ WideWord(l, ks, taken, mode, from, to) :
                         Apart(l, ks, mode, from + j)}
         IN  IF free # {} THEN from + Least(free)
             ELSE first_feasible(l, ks, taken, mode, from + l.word, to)

\* Fault: an interval's last shift is never scanned.
StopShort(best, floor, from, to, step) ==
    IF ~best.found THEN to - 1
    ELSE IF floor >= best.score THEN from
    ELSE Least({to, from + CeilDiv(best.score - floor, step)}) - 1

\* How far into an interval a seed can still be lower than the best.
Stop(best, floor, from, to, step) ==
    IF ~best.found THEN to
    ELSE IF floor >= best.score THEN from
    ELSE Least({to, from + CeilDiv(best.score - floor, step)})

Better(best, sum, mode, t) ==
    ~best.found \/ sum < best.score
    \/ (sum = best.score /\ (mode < best.mode \/ (mode = best.mode /\ t < best.t)))

\* The intervals before the j-th cut of the sorted cuts, and the one after it.
RECURSIVE Intervals(_, _, _, _, _, _, _, _, _, _)
Intervals(l, ks, taken, mode, cuts, j, from, floor, to, best) ==
    LET step == Len(ks) * l.stride
        stop == Stop(best, floor, from, to, step)
        t    == IF from < to THEN first_feasible(l, ks, taken, mode, from, stop) ELSE -1
        sum  == floor + step * (t - from)
        best2 == IF t >= 0 /\ Better(best, sum, mode, t) THEN Seed(sum, mode, t) ELSE best
        prev == IF j <= 1 THEN 0 ELSE cuts[j - 1]
    IN  IF j = 0 THEN best2
        ELSE Intervals(l, ks, taken, mode, cuts, j - 1, prev,
                       floor + l.slice - step * (from - prev), from, best2)

Cuts(l, ks, mode) ==
    SortSeq(SelectSeq(MapS(LAMBDA h : cut(l, offset(l, h, mode)), ks), LAMBDA c : c < l.shifts),
            LAMBDA a, b : a < b)

RECURSIVE WideModes(_, _, _, _, _)
WideModes(l, ks, taken, mode, best) ==
    IF mode = l.modes THEN best
    ELSE LET cuts == Cuts(l, ks, mode)
             from == IF cuts = <<>> THEN 0 ELSE cuts[Len(cuts)]
         IN  WideModes(l, ks, taken, mode + 1,
                 IF ~Apart(l, ks, mode, 0) THEN best
                 ELSE Intervals(l, ks, taken, mode, cuts, Len(cuts), from,
                                SumAt(l, ks, mode, from), l.shifts, best))

seed_bucket_wide(l, ks, taken) ==
    IF Len(ks) > MAX_BUCKET THEN None ELSE WideModes(l, ks, taken, 0, None)

-------------------------------------------------------------------------------
(* seed_run: the order the buckets of a run are searched in. A class is a   *)
(* bucket's number of keys; its term, in units of Unit a bucket of index,   *)
(* is ahead of its index.                                                   *)

CONSTANTS Unit,   \* 1024
          Terms,  \* the priority term of each class
          Window  \* WINDOW: buckets the order may look ahead

Classes   == Len(Terms)
\* A remainder that is never negative, and the quotient that goes with it.
rem_euclid(a) == ((a % Unit) + Unit) % Unit
div_euclid(a) == (a - rem_euclid(a)) \div Unit
lag(c)    == div_euclid(-Terms[c])
Rank(c)   == Cardinality({d \in 1 .. Classes : Terms[d] < Terms[c] \/ (Terms[d] = Terms[c] /\ d < c)})
\* A class's place in a slot: the remainder of its term, then its rank by term.
Place(c)  == Cardinality({d \in 1 .. Classes :
                 \/ rem_euclid(-Terms[d]) < rem_euclid(-Terms[c])
                 \/ rem_euclid(-Terms[d]) = rem_euclid(-Terms[c]) /\ Rank(d) < Rank(c)})
back(c)   == lag(c) - Least({lag(d) : d \in 1 .. Classes})
\* Fault: the class's place in a slot is its number.
BitByNumber(b, c) == (b + back(c)) * Classes + c - 1
\* The queue's bit for bucket b of class c.
Bit(b, c) == (b + back(c)) * Classes + Place(c)

Class(sizes, b) == Least({sizes[b + 1], Classes})
Filled(sizes)   == {b \in 0 .. Len(sizes) - 1 : sizes[b + 1] > 0}

\* The buckets in the order they are searched: the queue holds those pushed and not yet searched,
\* and every bucket with keys below the front's window is pushed before one is taken.
RECURSIVE Order(_, _)
Order(sizes, left) ==
    IF left = {} THEN <<>>
    ELSE LET front  == Least(left)
             queued == {b \in left : b < front + Window}
             b == CHOOSE b \in queued : \A d \in queued :
                      Bit(b, Class(sizes, b)) <= Bit(d, Class(sizes, d))
         IN  <<b>> \o Order(sizes, left \ {b})

-------------------------------------------------------------------------------
CONSTANTS Narrow, Wide, Free, MaxKeys, MaxSize, RunLen

Buckets(l) == {SetToSeq(S) : S \in {S \in SUBSET {h \in Hash : start(l, h) >= 0} :
                                       S # {} /\ Cardinality(S) <= MaxKeys}}
Taken(l) == SUBSET {v \in Free : v < limit(l)}
\* A bucket that is not searched is asked for on a free map only.
Searches(kind, l) ==
    {c \in [kind : {kind}, l : {l}, ks : Buckets(l), taken : Taken(l)] :
        Len(c.ks) > MAX_BUCKET => c.taken = {}}
Cases ==
    UNION {Searches("bucket", l) : l \in Narrow} \cup UNION {Searches("wide", l) : l \in Wide}
    \cup {[kind |-> "run", sizes |-> s] : s \in [1 .. RunLen -> 0 .. MaxSize]}

\* The seeds that place a bucket: every key on a free value, no two on one, and not the seed 0 -
\* of the modes the search tries, which are those whose shift 0 already sets the keys apart.
Feasible(l, ks, taken) ==
    {s \in Modes(l) \X Shifts(l) :
        /\ s # <<0, 0>>
        /\ Apart(l, ks, s[1], 0) /\ Apart(l, ks, s[1], s[2])
        /\ \A i \in DOMAIN ks : value(l, ks[i], s[1], s[2]) \notin taken}

\* The seed taken is the first of the lowest score among ALL that place the bucket's keys, and
\* none is taken only when there is none or the bucket is past the largest searched: scoring only
\* the first free shift at each wrap loses nothing (seed_bucket).
TakesTheLowest(c) ==
    c.kind = "bucket" =>
        seed_bucket(c.l, c.ks, c.taken) =
            IF Len(c.ks) > MAX_BUCKET THEN None
            ELSE Lowest(c.l, {Seed(score(c.l, c.ks, s[1], s[2]), s[1], s[2]) : s \in Feasible(c.l, c.ks, c.taken)})

\* Where the lanes are used they give the seed seed_bucket gives, so that the blob does not depend
\* on which of the two searched (seed_bucket_lanes).
LanesAgree(c) ==
    c.kind = "bucket" /\ Laned(c.l, c.ks) =>
        seed_bucket_lanes(c.l, c.ks, c.taken) = seed_bucket(c.l, c.ks, c.taken)

\* The interval search finds a seed of the least sum of all that place the bucket, although it
\* skips the intervals that cannot hold it (seed_bucket_wide).
WideTakesTheLeast(c) ==
    c.kind = "wide" =>
        LET s == seed_bucket_wide(c.l, c.ks, c.taken)
            F == Feasible(c.l, c.ks, c.taken)
        IN  /\ s.found <=> F # {} /\ Len(c.ks) <= MAX_BUCKET
            /\ s.found => /\ <<s.mode, s.t>> \in F
                          /\ \A r \in F : SumAt(c.l, c.ks, s.mode, s.t) <= SumAt(c.l, c.ks, r[1], r[2])

\* The order of the bitmap queue is the priority order: of the buckets within the window of the
\* first one left, the highest term less its index, the lower bucket between two equal (seed_run).
Priority(sizes, b) == Terms[Class(sizes, b)] - Unit * b
RECURSIVE ByPriority(_, _)
ByPriority(sizes, left) ==
    IF left = {} THEN <<>>
    ELSE LET queued == {b \in left : b < Least(left) + Window}
             top    == {b \in queued : \A d \in queued : Priority(sizes, d) <= Priority(sizes, b)}
         IN  <<Least(top)>> \o ByPriority(sizes, left \ {Least(top)})
SearchedByPriority(c) ==
    c.kind = "run" => Order(c.sizes, Filled(c.sizes)) = ByPriority(c.sizes, Filled(c.sizes))
================================================================================
