------------------------------- MODULE HashedDict -------------------------------
(***************************************************************************)
(* HashedDictIndex (src/src/hashed_dict.rs): a hash sidecar over a         *)
(* dictionary. The build from the dictionary's walk, the bit-packed table  *)
(* of ranks and fingerprints, the lookups with and without them, and the   *)
(* framing of a blob.                                                      *)
(*                                                                         *)
(* The dictionary is its keys by rank. A key is <<h, full, name>>: its two *)
(* hashes and what tells it from the keys that share both. A packed number *)
(* is the set of the positions of its bits, as in CompactHash, whose slots,*)
(* table and side probe this index uses.                                   *)
(***************************************************************************)
EXTENDS Integers, Sequences, FiniteSets, SequencesExt, FiniteSetsExt

CONSTANTS
    Byte, WordBytes, HashHigh, HashLow, FpBits, MaxParts, PartFloor, SlotOrder,   \* CompactHash's
    MAX_FP_BITS,     \* the widest fingerprint, 32 in the code
    MaxKeys          \* the most keys, u32::MAX in the code

C == INSTANCE CompactHash

SIDE_ENTRY == 24
Refused == [refused |-> TRUE]
NoId    == C!NoId

rank_bits(n)            == Min({b \in 1 .. C!Word : n <= 2 ^ b})
table_len(count, width) == C!fp_table_len(count, width)
LOCAL Num(v) == FoldSet(LAMBDA b, sum : sum + 2 ^ b, 0, v)

-------------------------------------------------------------------------------
(* The build. *)

Empty(dict, fp_bits) ==
    [refused |-> FALSE, dict |-> dict, n |-> 0, H |-> {}, fp_bits |-> fp_bits,
     width |-> rank_bits(0) + fp_bits, ranks |-> C!Zeroed(0, 1), side |-> <<>>]

Shared(pairs, i) == \E j \in DOMAIN pairs : j < i /\ pairs[j][1] = pairs[i][1]
refuse_equal_hash_pairs(pairs) ==
    \E i, j \in DOMAIN pairs : i < j /\ pairs[i][1] = pairs[j][1] /\ pairs[i][2] = pairs[j][2]

Before(p, q) == C!Less(p, q) \/ (p[1] = q[1] /\ p[2] = q[2] /\ p[3] < q[3])
\* Every key of a shared hash but the lowest-ranked, with its rank.
SideOf(pairs) ==
    LET late == SelectSeq([i \in DOMAIN pairs |-> i], LAMBDA i : Shared(pairs, i))
    IN  SortSeq([j \in DOMAIN late |-> <<pairs[late[j]][1], pairs[late[j]][2], late[j] - 1>>], Before)

Slots(pairs, H) ==
    [i \in DOMAIN pairs |-> IF Shared(pairs, i) THEN C!NO_SLOT ELSE C!index(H, pairs[i][1])]

\* The rank above the fingerprint.
ValueOf(rank, full, fp_bits) ==
    {fp_bits + b : b \in C!BitsOf(rank)} \cup (IF fp_bits = 0 THEN {} ELSE C!fp_mask(C!BitsOf(full), fp_bits))

\* The table filled in rank order; none where a slot is past the table or taken.
Filled(pairs, slots, m, fp_bits, width) ==
    FoldLeft(LAMBDA at, i :
                IF at.bad \/ slots[i] = C!NO_SLOT THEN at
                ELSE IF slots[i] >= m \/ slots[i] \in at.seen THEN [at EXCEPT !.bad = TRUE]
                ELSE [at EXCEPT !.seen = @ \cup {slots[i]},
                                !.t = C!write_fp(@, slots[i], width, ValueOf(i - 1, pairs[i][2], fp_bits))],
             [t |-> C!Zeroed(m, width), seen |-> {}, bad |-> FALSE], [i \in DOMAIN pairs |-> i])

LOCAL Sidecar(dict, H, fp_bits, width, filled) ==
    IF filled.bad THEN Refused
    ELSE [refused |-> FALSE, dict |-> dict, n |-> Len(dict), H |-> H, fp_bits |-> fp_bits, width |-> width,
          ranks |-> filled.t, side |-> SideOf(dict)]
LOCAL Over(dict, H, fp_bits, width) ==
    Sidecar(dict, H, fp_bits, width, Filled(dict, Slots(dict, H), Cardinality(H), fp_bits, width))
from_pairs(dict, fp_bits) ==
    IF dict = <<>> THEN Empty(dict, fp_bits)
    ELSE IF refuse_equal_hash_pairs(dict) THEN Refused
    ELSE Over(dict, C!HashesOf(dict), fp_bits, rank_bits(Len(dict)) + fp_bits)

\* walked: the keys the dictionary's walk gives before it ends.
from_shared_dict(dict, walked, fp_bits) ==
    IF fp_bits > MAX_FP_BITS \/ Len(dict) > MaxKeys \/ walked # Len(dict) THEN Refused
    ELSE from_pairs(dict, fp_bits)

-------------------------------------------------------------------------------
(* The lookups. *)

value_at_the_end(x, slot) ==
    LET v == C!read_fp(x.ranks, slot, x.width) IN IF v = C!Absent THEN {} ELSE v[2]

\* One load, where the table has a word's bytes left and no value leaves the word.
value(x, slot) ==
    LET bit == slot * x.width
        at  == bit \div Byte
    IN  IF at + WordBytes <= x.ranks.len /\ x.width <= C!Word - Byte + 1
        THEN C!fp_mask({b - (bit % Byte) : b \in {b \in C!Bytes(x.ranks, at, at + WordBytes) : b >= bit % Byte}},
                       x.width)
        ELSE value_at_the_end(x, slot)

RankIn(x, v) == Num({b - x.fp_bits : b \in {b \in v : b >= x.fp_bits}})

checked(x, slot, full) ==
    LET v == value(x, slot)
    IN  IF C!fp_mask(v, x.fp_bits) = C!fp_mask(C!BitsOf(full), x.fp_bits) /\ RankIn(x, v) < x.n
        THEN RankIn(x, v) ELSE NoId

\* Fault: the side table is asked for what the rank table does not answer.
id_with_sideLast(x, key) ==
    LET rank == IF x.H = {} THEN NoId ELSE checked(x, C!index(x.H, key[1]), key[2])
    IN  IF rank # NoId THEN rank ELSE C!side_lookup(x, key)

id_with_side(x, key) ==
    IF C!side_lookup(x, key) # NoId THEN C!side_lookup(x, key)
    ELSE IF x.H = {} THEN NoId ELSE checked(x, C!index(x.H, key[1]), key[2])

\* The dictionary's own search.
exact_id(x, key) == LET at == {i \in DOMAIN x.dict : x.dict[i] = key} IN IF at = {} THEN NoId ELSE Min(at) - 1

id(x, key) ==
    IF x.fp_bits = 0 THEN exact_id(x, key)
    ELSE IF x.side # <<>> THEN id_with_side(x, key)
    ELSE IF x.H = {} THEN NoId ELSE checked(x, C!index(x.H, key[1]), key[2])

closed_rank(x, h) ==
    IF x.H = {} THEN 0
    ELSE Min({RankIn(x, value(x, C!index(x.H, h))), x.n - 1})

unchecked_with_side(x, key) ==
    IF C!side_lookup(x, key) # NoId THEN C!side_lookup(x, key) ELSE closed_rank(x, key[1])

id_unchecked(x, key) == IF x.side # <<>> THEN unchecked_with_side(x, key) ELSE closed_rank(x, key[1])

\* The hashes of all, the slots of all, then the values.
ids_of_with(x, keys) ==
    LET slots == [i \in DOMAIN keys |-> C!index(x.H, keys[i][1])]
    IN  IF x.fp_bits = 0 THEN [i \in DOMAIN keys |-> exact_id(x, keys[i])]
        ELSE IF x.H = {} THEN [i \in DOMAIN keys |-> NoId]
        ELSE IF x.side # <<>> THEN [i \in DOMAIN keys |-> id_with_side(x, keys[i])]
        ELSE [i \in DOMAIN keys |-> checked(x, slots[i], keys[i][2])]

-------------------------------------------------------------------------------
(* The framing of a blob: its header's fields, the dictionary and the table behind their regions, *)
(* the bits set past the table, the entries at its end, and its bytes past the header.            *)

serialized_len(x, dict_len, mph_len) == dict_len + mph_len + x.ranks.len + SIDE_ENTRY * Len(x.side)

to_bytes(x, dict_len, mph_len) ==
    [magic |-> "BHD2", header_ok |-> TRUE, payload_ok |-> TRUE, n |-> x.n, fp_bits |-> x.fp_bits,
     dict_len |-> dict_len, dict_ok |-> TRUE, dict |-> x.dict,
     mph_len |-> IF x.n = 0 THEN 0 ELSE mph_len, mph_ok |-> TRUE, H |-> x.H,
     on |-> x.ranks.on, side |-> x.side,
     len |-> serialized_len(x, dict_len, IF x.n = 0 THEN 0 ELSE mph_len)]

parse_frame(f, verify) ==
    LET rows == table_len(f.n - Len(f.side), rank_bits(f.n) + f.fp_bits)
    IN  /\ f.magic = "BHD2" /\ f.header_ok
        /\ f.n <= MaxKeys /\ f.fp_bits <= MAX_FP_BITS
        /\ Len(f.side) < Max({f.n, 1})
        /\ (f.n = 0) <=> (f.mph_len = 0)
        /\ f.len = f.dict_len + f.mph_len + rows + SIDE_ENTRY * Len(f.side)
        /\ verify => f.payload_ok
        /\ \A j \in DOMAIN f.side : f.side[j][3] < f.n

from_shared(f, verify) ==
    LET width == rank_bits(f.n) + f.fp_bits
        rows  == table_len(f.n - Len(f.side), width)
    IN  IF /\ parse_frame(f, verify)
           /\ f.dict_ok /\ Len(f.dict) = f.n
           /\ f.n = 0 \/ (f.mph_ok /\ Cardinality(f.H) = f.n - Len(f.side))
        THEN [refused |-> FALSE, dict |-> f.dict, n |-> f.n, H |-> IF f.n = 0 THEN {} ELSE f.H,
              fp_bits |-> f.fp_bits, width |-> width,
              ranks |-> [len |-> rows, on |-> {b \in f.on : b < rows * Byte}],
              side |-> SortSeq(f.side, Before)]
        ELSE Refused

-------------------------------------------------------------------------------
(* The properties, of a case c. *)

LOCAL Below(x, i)   == i \in 0 .. Max({0, x.n - 1})
LOCAL SameBits(x, k, q) == C!fp_mask(C!BitsOf(k[2]), x.fp_bits) = C!fp_mask(C!BitsOf(q[2]), x.fp_bits)
\* A stranger answered is one whose bits are those of the key it is taken for, or both its hashes.
LOCAL Stranger(x, q) ==
    LET i == id(x, q)
    IN  i # NoId => /\ x.fp_bits > 0 /\ i < x.n
                    /\ SameBits(x, x.dict[i + 1], q)
LOCAL BatchAgrees(x, keys) == ids_of_with(x, keys) = [i \in DOMAIN keys |-> id(x, keys[i])]
LOCAL Ranked(x, c) ==
    IF c.walked # Len(c.dict) \/ refuse_equal_hash_pairs(c.dict) THEN x.refused
    ELSE /\ ~ x.refused
         /\ \A i \in DOMAIN c.dict : id(x, c.dict[i]) = i - 1 /\ id_unchecked(x, c.dict[i]) = i - 1
         /\ \A q \in ToSet(c.asked) \ ToSet(c.dict) : Stranger(x, q) /\ Below(x, id_unchecked(x, q))
         /\ BatchAgrees(x, c.asked \o c.dict)
         /\ from_shared(to_bytes(x, 7, 5), TRUE) = x
\* Every key's id, checked and unchecked, is its rank in the dictionary, hashes shared or not, at
\* every width; a stranger is answered only for the bits of the key whose rank it gets, and at no
\* width 0; keys that share both hashes are refused; and the index written reads back.
KeysAreRanked(c) == Ranked(from_shared_dict(c.dict, c.walked, c.fp_bits), c)

LOCAL Inside(x, asked) ==
    /\ \A q \in ToSet(asked) : (id(x, q) = NoId \/ id(x, q) \in 0 .. x.n - 1) /\ Below(x, id_unchecked(x, q))
    /\ BatchAgrees(x, asked)
\* A blob that loads, its checksums read or not, answers ranks below its count.
LoadedRanksInside(c) == from_shared(c.blob, c.verify).refused \/ Inside(from_shared(c.blob, c.verify), c.asked)
=================================================================================
