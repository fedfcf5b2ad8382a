------------------------------ MODULE CompactHash ------------------------------
(***************************************************************************)
(* CompactHashIndex (src/src/compact_hash.rs): sorting the pairs on        *)
(* threads, the slots of the pairs, the packed table of fingerprints, the  *)
(* lookups with and without a side table, and the framing of a blob.       *)
(*                                                                         *)
(* A key is the pair <<h, fp>> of its two hashes. A number is the set of   *)
(* the positions of its bits where it is packed. The perfect hash is an    *)
(* order of the hashes; MphfTable is its model.                            *)
(***************************************************************************)
EXTENDS Integers, Sequences, FiniteSets, SequencesExt, FiniteSetsExt

CONSTANTS
    Byte,        \* bits of a byte, 8 in the code
    WordBytes,   \* bytes of a word, 8 in the code
    HashHigh,    \* 2^(the high bits of a hash sort_run partitions by)
    HashLow,     \* 2^(the low bits)
    FpBits,      \* bits of a second hash
    MaxParts,    \* parts of a sort, 256 in the code
    PartFloor,   \* least pairs a part, 4096 in the code
    SlotOrder    \* every hash once: the order of their slots

Word    == Byte * WordBytes
NO_SLOT == HashHigh * HashLow
NoId    == -1

Less(p, q)  == p[1] < q[1] \/ (p[1] = q[1] /\ p[2] < q[2])
Swap(s, i, j) == [s EXCEPT ![i] = s[j], ![j] = s[i]]
Least(a, b) == IF a < b THEN a ELSE b

-------------------------------------------------------------------------------
(* sort_run. *)

sort_unstable(s) == SortSeq(s, Less)

part(h, parts) == ((h \div HashLow) * parts) \div HashHigh
\* Where the parts start; the last entry is the run's end.
Start(run, parts) == [p \in 0 .. parts |->
    Cardinality({i \in DOMAIN run : part(run[i][1], parts) < p})]

\* Fault: the pair that arrives in a place is not examined.
FlagPassOnce(run, parts) ==
    LET start == Start(run, parts)
        next == [p \in 0 .. parts - 1 |-> start[p] + 1]
        Pass[i \in 0 .. Len(run)] ==
            IF i = 0 THEN [run |-> run, next |-> next]
            ELSE LET st == Pass[i - 1]
                     d  == part(st.run[i][1], parts)
                 IN  IF st.next[d] > i /\ st.next[d] <= start[d + 1]
                     THEN [run |-> Swap(st.run, i, st.next[d]), next |-> [st.next EXCEPT ![d] = @ + 1]]
                     ELSE st
    IN  Pass[Len(run)].run

\* The American-flag pass: a pair met in another part's range is swapped to the next free place
\* of its own, and what arrives is examined next.
RECURSIVE FlagFrom(_, _, _, _, _)
FlagFrom(run, next, start, parts, p) ==
    IF p = parts THEN run
    ELSE IF next[p] = start[p + 1] THEN FlagFrom(run, next, start, parts, p + 1)
    ELSE LET i == next[p]
             d == part(run[i + 1][1], parts)
         IN  IF d = p THEN FlagFrom(run, [next EXCEPT ![p] = @ + 1], start, parts, p)
             ELSE FlagFrom(Swap(run, i + 1, next[d] + 1), [next EXCEPT ![d] = @ + 1], start, parts, p)

FlagPass(run, parts) ==
    LET start == Start(run, parts)
    IN  FlagFrom(run, [p \in 0 .. parts - 1 |-> start[p]], start, parts, 0)

\* Every part is sorted on a thread of its own.
sort_run(run, threads) ==
    LET parts == Least(threads, MaxParts)
        start == Start(run, parts)
        split == FlagPass(run, parts)
    IN  IF parts <= 1 \/ Len(run) < parts * PartFloor THEN sort_unstable(run)
        ELSE FlattenSeq([p \in 1 .. parts |->
                             sort_unstable(SubSeq(split, start[p - 1] + 1, start[p]))])

dedup(s) == LET at == SelectSeq([i \in DOMAIN s |-> i], LAMBDA i : i = 1 \/ s[i - 1] # s[i])
            IN  [j \in DOMAIN at |-> s[at[j]]]

-------------------------------------------------------------------------------
(* The slots. *)

Rep(s, i) == i = 1 \/ s[i - 1][1] # s[i][1]
Reps(s)   == SelectSeq([i \in DOMAIN s |-> i], LAMBDA i : Rep(s, i))
Late(s)   == SelectSeq([i \in DOMAIN s |-> i], LAMBDA i : ~ Rep(s, i))
HashesOf(s) == {s[i][1] : i \in DOMAIN s}

Place(h)    == CHOOSE i \in DOMAIN SlotOrder : SlotOrder[i] = h
\* The perfect hash over the hashes H: its slots are 0 .. |H| - 1, whatever is asked.
index(H, h) == Cardinality({g \in H : Place(g) < Place(h)}) % Cardinality(H)

\* Fault: a chunk's first pair is always a representative.
joinsNever(s, c, chunk) == FALSE

\* Whether the first pair of chunk c continues the chunk before it.
joins(s, c, chunk) == c > 0 /\ s[c * chunk][1] = s[c * chunk + 1][1]

\* A thread a chunk: a same-hash follower gets no slot.
slots_in_place(s, H, threads) ==
    LET parts == IF threads <= 1 \/ Len(s) < threads * PartFloor THEN 1 ELSE threads
        chunk == Max({1, (Len(s) + parts - 1) \div parts})
    IN  [i \in DOMAIN s |->
            LET c     == (i - 1) \div chunk
                first == i = c * chunk + 1
                after == IF first THEN parts > 1 /\ joins(s, c, chunk) ELSE s[i - 1][1] = s[i][1]
            IN  <<IF after THEN NO_SLOT ELSE index(H, s[i][1]), s[i][2]>>]

-------------------------------------------------------------------------------
(* The packed fingerprints: a table is its bytes and the bits of it that are set. *)

fp_table_len(count, bits) == (count * bits + Byte - 1) \div Byte
fp_mask(fp, bits)         == {b \in fp : b < bits}
BitsOf(v)                 == {b \in 0 .. FpBits - 1 : (v \div 2 ^ b) % 2 = 1}
Zeroed(count, bits)       == [len |-> fp_table_len(count, bits), on |-> {}]

\* Fault: the bits that leave the word are lost.
SpillNone(fp, byte, off, bits) == {}

\* The byte past the word, when the shifted fingerprint leaves it.
Spill(fp, byte, off, bits) ==
    IF off > 0 /\ off + bits > Word
    THEN {(byte + WordBytes) * Byte + b - (Word - off) : b \in {b \in fp : b >= Word - off}}
    ELSE {}

\* write_fp: a copy at a byte-aligned width; else the shifted word or-ed in, less the bytes past
\* the table's end, and the byte past the word.
write_fp(t, slot, bits, fp) ==
    LET at      == slot * bits
        byte    == at \div Byte
        off     == at % Byte
        shifted == {byte * Byte + off + b : b \in {b \in fp : off + b < Word}}
    IN  IF bits % Byte = 0
        THEN [t EXCEPT !.on = (@ \ (at .. at + bits - 1)) \cup {at + b : b \in fp}]
        ELSE [t EXCEPT !.on = @ \cup {b \in shifted : b \div Byte < t.len}
                                \cup Spill(fp, byte, off, bits)]

Bytes(t, from, to) == {b - from * Byte : b \in {b \in t.on : b \div Byte \in from .. to - 1}}
Absent == <<"none">>
Some(v) == <<"some", v>>

read_fp_bits(t, slot, bits) ==
    LET at   == slot * bits
        byte == at \div Byte
        off  == at % Byte
        last == (at + bits - 1) \div Byte
        past == IF off + bits <= Word THEN {}
                ELSE {b + Word : b \in Bytes(t, byte + WordBytes, byte + WordBytes + 1)}
        v    == IF byte + WordBytes <= t.len
                THEN Bytes(t, byte, byte + WordBytes) \cup past
                ELSE Bytes(t, byte, last + 1)
    IN  IF (IF byte + WordBytes <= t.len /\ off + bits <= Word THEN byte + WordBytes ELSE last + 1)
             > t.len
        THEN Absent
        ELSE Some(fp_mask({b - off : b \in {b \in v : b >= off}}, bits))

\* read_fp: a byte-aligned width that is a power of two is one load.
read_fp(t, slot, bits) ==
    LET k == bits \div Byte
    IN  IF bits % Byte = 0 /\ \E e \in 0 .. WordBytes : k = 2 ^ e
        THEN IF slot * k + k > t.len THEN Absent ELSE Some(Bytes(t, slot * k, slot * k + k))
        ELSE read_fp_bits(t, slot, bits)

RECURSIVE Fill(_, _, _, _)
\* The fingerprints of `fps`, written in the order of their slots given.
Fill(t, bits, order, fps) ==
    IF order = <<>> THEN t
    ELSE Fill(write_fp(t, Head(order), bits, fps[Head(order)]), bits, Tail(order), fps)

-------------------------------------------------------------------------------
(* The index. *)

Empty(bits) == [n |-> 0, m |-> 0, H |-> {}, bits |-> bits, fps |-> Zeroed(0, bits), side |-> <<>>]
\* The build's answer to a slot that is taken: no index.
NotPerfect(bits) == [Empty(bits) EXCEPT !.n = -1]

LOCAL Firsts(slots) == SelectSeq([i \in DOMAIN slots |-> i], LAMBDA i : slots[i][1] # NO_SLOT)
LOCAL FpsOf(slots, at, bits) ==
    [x \in {slots[at[i]][1] : i \in DOMAIN at} |->
        fp_mask(BitsOf(slots[CHOOSE i \in DOMAIN slots : slots[i][1] = x][2]), bits)]
LOCAL SideOf(s, late, m) == [j \in DOMAIN late |-> <<s[late[j]][1], s[late[j]][2], m + j - 1>>]
LOCAL IndexOf(s, H, slots, at, fps, bits) ==
    IF Cardinality(DOMAIN fps) # Len(at) THEN NotPerfect(bits)
    ELSE [n |-> Len(s), m |-> Cardinality(H), H |-> H, bits |-> bits,
          fps |-> Fill(Zeroed(Cardinality(H), bits), bits, [i \in DOMAIN at |-> slots[at[i]][1]], fps),
          side |-> SideOf(s, Late(s), Cardinality(H))]
LOCAL Printed(s, H, slots, at, bits) == IndexOf(s, H, slots, at, FpsOf(slots, at, bits), bits)
LOCAL Slotted(s, H, slots, bits) == Printed(s, H, slots, Firsts(slots), bits)
LOCAL BuiltOver(s, H, bits, threads) ==
    IF s = <<>> THEN Empty(bits) ELSE Slotted(s, H, slots_in_place(s, H, threads), bits)
LOCAL BuiltOf(s, bits, threads) == BuiltOver(s, HashesOf(s), bits, threads)
\* build_from_pairs: a slot and a fingerprint a distinct hash, tail ids for the other pairs.
build_from_pairs(pairs, bits, threads) == BuiltOf(dedup(sort_run(pairs, threads)), bits, threads)

\* Fault: the low bits of the second hash decide, as in the table.
side_lookupMasked(x, key) ==
    LET found == {j \in DOMAIN x.side : /\ x.side[j][1] = key[1]
                                        /\ fp_mask(BitsOf(x.side[j][2]), x.bits)
                                             = fp_mask(BitsOf(key[2]), x.bits)}
    IN  IF found = {} THEN NoId ELSE x.side[Min(found)][3]

\* The entries from the partition point of the hash on, while they have it.
side_lookup(x, key) ==
    LET start == Cardinality({j \in DOMAIN x.side : x.side[j][1] < key[1]})
        found == {j \in start + 1 .. Len(x.side) : /\ \A i \in start + 1 .. j : x.side[i][1] = key[1]
                                                   /\ x.side[j][2] = key[2]}
    IN  IF found = {} THEN NoId ELSE x.side[Min(found)][3]

fp_matches(x, slot, key) ==
    read_fp(x.fps, slot, x.bits) = Some(fp_mask(BitsOf(key[2]), x.bits))

FromTable(x, key) ==
    IF x.m = 0 THEN NoId
    ELSE LET slot == index(x.H, key[1]) IN IF fp_matches(x, slot, key) THEN slot ELSE NoId

id_with_side(x, key) == IF side_lookup(x, key) # NoId THEN side_lookup(x, key) ELSE FromTable(x, key)

id_bytes(x, key) == IF x.side = <<>> THEN FromTable(x, key) ELSE id_with_side(x, key)

id_unchecked(x, key) ==
    IF x.side # <<>> /\ side_lookup(x, key) # NoId THEN side_lookup(x, key)
    ELSE IF x.m = 0 THEN 0 ELSE index(x.H, key[1])

\* The batch resolves the keys it hashed together; with a side table, one at a time.
ids_of_with(x, keys) ==
    IF x.m = 0 THEN [i \in DOMAIN keys |-> NoId]
    ELSE IF x.side # <<>> THEN [i \in DOMAIN keys |-> id_with_side(x, keys[i])]
    ELSE LET slots == [i \in DOMAIN keys |-> index(x.H, keys[i][1])]
         IN  [i \in DOMAIN keys |-> IF fp_matches(x, slots[i], keys[i]) THEN slots[i] ELSE NoId]

-------------------------------------------------------------------------------
(* The framing of a blob: [n, bits, mph, mph_n, side, len] is its header, the keys its perfect *)
(* hash says it has, the entries at its end, and its bytes past the header.                    *)

SIDE_ENTRY == 20

to_bytes(x, mph) ==
    [n |-> x.n, bits |-> x.bits, mph |-> mph, mph_n |-> x.m, side |-> x.side,
     len |-> mph + x.fps.len + SIDE_ENTRY * Len(x.side)]

Refused == [refused |-> TRUE]

\* Fault: the side ids are held to be below n and distinct.
TailIdsBelow(f) == {f.side[j][3] : j \in DOMAIN f.side} \subseteq 0 .. f.n - 1

TailIds(f) == {f.side[j][3] : j \in DOMAIN f.side} = f.n - Len(f.side) .. f.n - 1

\* parse_frame and from_shared.
from_shared(f) ==
    LET m          == f.n - Len(f.side)
        side_start == f.len - Len(f.side) * SIDE_ENTRY
    IN  IF /\ f.bits \in 1 .. Word
           /\ Len(f.side) <= f.n /\ (Len(f.side) = f.n => f.n = 0)
           /\ side_start >= 0
           /\ f.mph <= side_start
           /\ TailIds(f)
           /\ side_start - f.mph = fp_table_len(m, f.bits)
           /\ f.n = 0 \/ f.mph_n = m
        THEN [refused |-> FALSE, n |-> f.n, m |-> m, bits |-> f.bits,
              side |-> sort_unstable(f.side), rows |-> side_start - f.mph]
        ELSE Refused

-------------------------------------------------------------------------------
(* The properties, of a case c. *)

\* A run is sorted to the same sequence on any number of threads.
SortsOnAnyThreads(c) ==
    sort_run(c.run, c.threads) = sort_unstable(c.run)

\* A fingerprint read back is the one written at that slot, whatever the width, whatever order
\* the slots were written in; and a table put together from segments that start on a byte, as
\* the file build's is, is the table written whole.
FingerprintsReadBack(c) ==
    LET count    == Len(c.fps)
        first    == Least(Byte, count)
        Slots(k) == [i \in 1 .. k |-> i - 1]
        fps      == [s \in 0 .. count - 1 |-> c.fps[s + 1]]
        whole    == Fill(Zeroed(count, c.bits), c.bits, Slots(count), fps)
        lower    == Fill(Zeroed(first, c.bits), c.bits, Slots(first), fps)
        upper    == Fill(Zeroed(count - first, c.bits), c.bits, Slots(count - first),
                         [s \in 0 .. count - first - 1 |-> fps[s + first]])
    IN  /\ \A s \in DOMAIN fps : read_fp(whole, s, c.bits) = Some(fps[s])
        /\ whole = Fill(Zeroed(count, c.bits), c.bits, Reverse(Slots(count)), fps)
        /\ whole.len = lower.len + upper.len
        /\ whole.on = lower.on \cup {b + lower.len * Byte : b \in upper.on}

LOCAL IdOfItsBits(x, keys, q, i) ==
    i # NoId => \E k \in keys : /\ id_bytes(x, k) = i
                                /\ fp_mask(BitsOf(k[2]), x.bits) = fp_mask(BitsOf(q[2]), x.bits)
LOCAL Strangers(x, keys, pairs, q) ==
    /\ ids_of_with(x, <<q>> \o pairs) = [i \in 1 .. Len(pairs) + 1 |-> id_bytes(x, (<<q>> \o pairs)[i])]
    /\ q \notin keys => IdOfItsBits(x, keys, q, id_bytes(x, q))
    /\ id_unchecked(x, q) \in 0 .. Max({0, x.n - 1})
LOCAL Resolve(x, keys, c) ==
    /\ x = build_from_pairs(sort_unstable(c.pairs), c.bits, 1)
    /\ {id_bytes(x, k) : k \in keys} = 0 .. x.n - 1
    /\ x.n = Cardinality(keys)
    /\ \A k \in keys : id_unchecked(x, k) = id_bytes(x, k)
    /\ \A q \in c.asked : Strangers(x, keys, c.pairs, q)
\* Every key of an index resolves to an id of its own below n, whatever the threads that built
\* it; a key it has not answers only with the id of a slot whose stored bits are its own; and
\* the batch and, for the index's keys, the unchecked lookup answer as the lookup does.
KeysResolve(c) == Resolve(build_from_pairs(c.pairs, c.bits, c.threads), ToSet(c.pairs), c)

\* A blob that was written is loaded; and one that is loaded, whatever its header and side table
\* say, gives every side entry an id of its own past the slots, and has a row for every slot.
LoadedAnswersInside(c) ==
    LET f == from_shared(c.blob)
    IN  /\ c.written => ~ f.refused
        /\ ~ f.refused =>
             /\ {f.side[j][3] : j \in DOMAIN f.side} \cup (0 .. f.m - 1) = 0 .. f.n - 1
             /\ Cardinality({f.side[j][3] : j \in DOMAIN f.side}) = Len(f.side)
             /\ f.rows * Byte \in f.m * f.bits .. f.m * f.bits + Byte - 1
=============================================================================
