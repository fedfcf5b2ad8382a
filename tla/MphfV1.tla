--------------------------------- MODULE MphfV1 ---------------------------------
(***************************************************************************)
(* The minimal perfect hash as release 1.0 wrote it (src/src/mphf.rs, V1): *)
(* which blobs are read and what a lookup on one reads. The scalars of the *)
(* header come from a blob nobody vouches for, so they are machine words   *)
(* and their products and sums wrap.                                       *)
(***************************************************************************)
EXTENDS Integers, Sequences, FiniteSets

CONSTANTS
    WordMax,      \* u64::MAX
    Shift,        \* the largest shift of a pilot, 63
    Align,        \* what a stride is a multiple of, 64
    Modes,        \* the window bases a pilot picks from, 4
    REMAP_BLOCK,  \* remap entries a block base, 256
    HashBits,
    Numbers       \* bound: the values header scalars take

Hash          == 0 .. 2 ^ HashBits - 1
scale(x, k)   == (x * k) \div 2 ^ HashBits
\* spread, and the multiplier of window base j: bijections of the hashes.
spread(h, seed)  == (3 * ((h + seed) % 2 ^ HashBits)) % 2 ^ HashBits
Times(h, j)      == ((2 * j + 1) * h) % 2 ^ HashBits
rotate_left(h)   == ((2 * h) % 2 ^ HashBits) + h \div 2 ^ (HashBits - 1)

\* Fault: the sparse buckets start one past the dense ones.
bucket_in_partPast(hb, buckets, dense) ==
    LET hl == rotate_left(hb) IN
    IF dense = 0 THEN scale(hl, buckets)
    ELSE IF hl < ((2 ^ HashBits - 1) \div 5) * 3 THEN scale(rotate_left(hl), dense)
    ELSE dense + 1 + scale(rotate_left(hl), buckets - dense)

\* 60 % of the hashes into the dense buckets.
bucket_in_part(hb, buckets, dense) ==
    LET hl == rotate_left(hb) IN
    IF dense = 0 THEN scale(hl, buckets)
    ELSE IF hl < ((2 ^ HashBits - 1) \div 5) * 3 THEN scale(rotate_left(hl), dense)
    ELSE dense + scale(rotate_left(hl), buckets - dense)

Part(t, h)   == scale(spread(h, t.seed), t.parts)
Bucket(t, h) == Part(t, h) * t.buckets_per_part
                + bucket_in_part(spread(h, t.seed), t.buckets_per_part, t.dense)
Slot(t, h, pilot) ==
    Part(t, h) * t.stride + scale(Times(h, pilot[1]), t.slots_per_part) + pilot[2]

CeilDiv(a, b) == (a + b - 1) \div b
Entries(t)    == t.slots - t.n
Wraps(x)      == x % (WordMax + 1)

\* Fault: the room a part needs is added up in a word that wraps.
WindowFitsWrapped(t) == t.stride % Align = 0 /\ t.stride >= Wraps(t.slots_per_part + Shift)

\* The checked add of the loader: a window past the word is refused.
WindowFits(t) ==
    /\ t.slots_per_part + Shift <= WordMax
    /\ t.stride % Align = 0 /\ t.stride >= t.slots_per_part + Shift

\* from_bytes, up to the sections: the shapes it accepts.
Accepts(t) ==
    IF t.n = 0
    THEN t.slots = 0 /\ t.parts = 0 /\ t.buckets_per_part = 0 /\ t.slots_per_part = 0
         /\ t.stride = 0 /\ t.dense = 0
    ELSE /\ t.parts # 0 /\ t.buckets_per_part # 0 /\ t.slots_per_part # 0
         /\ t.dense < t.buckets_per_part
         /\ WindowFits(t)
         /\ t.stride * t.parts <= WordMax /\ t.stride * t.parts = t.slots /\ t.n <= t.slots
         /\ t.parts * t.buckets_per_part <= WordMax

Headers == [n : Numbers, slots : Numbers, parts : {0, 1, 2}, buckets_per_part : {0, 1, 3},
            slots_per_part : {0, 2, 5, WordMax}, stride : Numbers, dense : {0, 1, 3}, seed : {0, 1}]
Cases == {t \in Headers : Accepts(t)}

\* Every read of a lookup on an accepted table is inside it, for every hash and whatever pilot a
\* bucket holds: the pilot's bucket, and the id or the remap entry of its slot (index stands on
\* the geometry from_bytes checked, the wrap of the window included).
ReadsInside(t) ==
    t.n # 0 => \A h \in Hash :
        /\ Part(t, h) < t.parts
        /\ Bucket(t, h) < t.parts * t.buckets_per_part
        /\ \A pilot \in (0 .. Modes - 1) \X (0 .. Shift) :
            LET s == Slot(t, h, pilot) IN
            s >= t.n => /\ s - t.n < Entries(t)
                        /\ (s - t.n) \div REMAP_BLOCK < CeilDiv(Entries(t), REMAP_BLOCK)
================================================================================
