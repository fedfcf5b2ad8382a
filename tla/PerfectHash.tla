------------------------------- MODULE PerfectHash ------------------------------
(***************************************************************************)
(* PerfectHashIndex (src/src/perfect_hash.rs) and hash.rs's split of the   *)
(* colliding keys: the in-memory build, with and without a collision, the  *)
(* lookups, and the framing of a blob.                                     *)
(*                                                                         *)
(* A key is a record [name, hash, fp, len]: names order the keys as their  *)
(* bytes do, fp is the second hash, fp % FpByte the byte of it an arena    *)
(* with fingerprints keeps. The arena is the sequence of its keys, the     *)
(* perfect hash the order of the hashes in SlotOrder; Arena and MphfTable  *)
(* are their models.                                                       *)
(***************************************************************************)
EXTENDS Integers, Sequences, FiniteSets, SequencesExt, FiniteSetsExt

CONSTANTS
    SlotOrder,   \* every hash once: the order of their slots
    FpByte       \* how many values the stored byte of a second hash takes, 256 in the code

NoId == -1

Before(a, b) == a.name < b.name
ByHash(a, b) == a[1] < b[1] \/ (a[1] = b[1] /\ a[2] < b[2])

\* The items sorted, each once.
Distinct(items) ==
    LET s  == SortSeq(items, Before)
        at == SelectSeq([i \in DOMAIN s |-> i], LAMBDA i : i = 1 \/ s[i] # s[i - 1])
    IN  [j \in DOMAIN at |-> s[at[j]]]

-------------------------------------------------------------------------------
(* The perfect hash over the set H of hashes. *)

InSlots(H)  == SelectSeq(SlotOrder, LAMBDA h : h \in H)
\* A hash it was not built over lands on a slot all the same.
index(H, h) == IF h \in H THEN (CHOOSE i \in DOMAIN InSlots(H) : InSlots(H)[i] = h) - 1
               ELSE h % Cardinality(H)

-------------------------------------------------------------------------------
(* The builds. *)

\* The first key of each hash stands for it; the others, in their order, get the tail ids.
split_collisions(hashes) ==
    LET reps == {i \in DOMAIN hashes : \A j \in 1 .. i - 1 : hashes[j] # hashes[i]}
    IN  [H |-> ToSet(hashes), reps |-> reps,
         extras |-> SelectSeq([i \in DOMAIN hashes |-> i], LAMBDA i : i \notin reps)]

\* Where each key goes: its representative's slot, or m + j for the j-th extra.
SlotOf(hashes) ==
    LET split == split_collisions(hashes)
        m     == Cardinality(split.H)
    IN  [i \in DOMAIN hashes |->
            IF i \in split.reps THEN index(split.H, hashes[i])
            ELSE m + (CHOOSE j \in DOMAIN split.extras : split.extras[j] = i) - 1]

\* (hash, id) of every extra, by hash.
SideOf(hashes) ==
    LET split == split_collisions(hashes)
    IN  SortSeq([j \in DOMAIN split.extras |->
                    <<hashes[split.extras[j]], Cardinality(split.H) + j - 1>>], ByHash)

\* The keys by slot.
ArenaOf(keys, slot_of) == [s \in DOMAIN keys |-> keys[CHOOSE i \in DOMAIN keys : slot_of[i] = s - 1]]

\* Fault: the keys are not sorted first.
build_withAsGiven(items, fingerprints) ==
    LET at     == SelectSeq([i \in DOMAIN items |-> i], LAMBDA i : \A j \in 1 .. i - 1 : items[j] # items[i])
        keys   == [j \in DOMAIN at |-> items[at[j]]]
        hashes == [i \in DOMAIN keys |-> keys[i].hash]
    IN  [n |-> Len(keys), H |-> ToSet(hashes), arena |-> ArenaOf(keys, SlotOf(hashes)),
         fingerprints |-> fingerprints, side |-> SideOf(hashes)]

\* build_with; build_with_collisions is the case of a side table that is not empty.
build_with(items, fingerprints) ==
    LET keys   == Distinct(items)
        hashes == [i \in DOMAIN keys |-> keys[i].hash]
    IN  [n |-> Len(keys), H |-> ToSet(hashes), arena |-> ArenaOf(keys, SlotOf(hashes)),
         fingerprints |-> fingerprints, side |-> SideOf(hashes)]

-------------------------------------------------------------------------------
(* The lookups. *)

holds(x, slot, key) == slot + 1 \in DOMAIN x.arena /\ x.arena[slot + 1] = key
\* Past the byte of the second hash the stored key still decides.
holds_matching(x, slot, key, fp) ==
    slot + 1 \in DOMAIN x.arena /\ x.arena[slot + 1].fp % FpByte = fp /\ x.arena[slot + 1] = key

\* Fault: only the first entry of the hash is compared.
side_lookupFirst(x, h, key) ==
    LET start == Cardinality({j \in DOMAIN x.side : x.side[j][1] < h}) + 1
    IN  IF start \in DOMAIN x.side /\ x.side[start][1] = h /\ holds(x, x.side[start][2], key)
        THEN x.side[start][2] ELSE NoId

\* From the partition point of the hash, while the entries have it: the first whose row is the key.
side_lookup(x, h, key) ==
    LET start == Cardinality({j \in DOMAIN x.side : x.side[j][1] < h}) + 1
        found == {j \in start .. Len(x.side) : /\ \A i \in start .. j : x.side[i][1] = h
                                               /\ holds(x, x.side[j][2], key)}
    IN  IF found = {} THEN NoId ELSE x.side[Min(found)][2]

\* None only for an empty index.
slot_for(x, h) == IF x.H = {} THEN NoId ELSE index(x.H, h)

absent_or_collided(x, key) == IF x.side = <<>> THEN NoId ELSE side_lookup(x, key.hash, key)

id(x, key) ==
    LET slot == slot_for(x, key.hash)
    IN  IF slot = NoId THEN NoId
        ELSE IF (IF x.fingerprints THEN holds_matching(x, slot, key, key.fp % FpByte)
                 ELSE holds(x, slot, key))
        THEN slot ELSE absent_or_collided(x, key)

\* Three passes over the batch: hashes, slots and spans, and the compare; a span is none where
\* the fingerprints say so.
ids_of(x, keys) ==
    LET slots == [i \in DOMAIN keys |-> slot_for(x, keys[i].hash)]
        spans == [i \in DOMAIN keys |->
                    IF slots[i] + 1 \in DOMAIN x.arena
                       /\ (x.fingerprints => x.arena[slots[i] + 1].fp % FpByte = keys[i].fp % FpByte)
                    THEN {x.arena[slots[i] + 1]} ELSE {}]
    IN  IF x.H = {} THEN [i \in DOMAIN keys |-> NoId]
        ELSE [i \in DOMAIN keys |->
                IF keys[i] \in spans[i] THEN slots[i]
                ELSE IF x.side # <<>> THEN side_lookup(x, keys[i].hash, keys[i])
                ELSE NoId]

id_unchecked(x, key) ==
    IF x.side # <<>> /\ side_lookup(x, key.hash, key) # NoId THEN side_lookup(x, key.hash, key)
    ELSE IF slot_for(x, key.hash) = NoId THEN 0 ELSE slot_for(x, key.hash)

\* key(id): the row, or none past the last.
key(x, i) == IF i + 1 \in DOMAIN x.arena THEN {x.arena[i + 1]} ELSE {}

-------------------------------------------------------------------------------
(* The framing of a blob: [n, mph_len, mph_n, side, rows, len] is its header's counts, the keys *)
(* its perfect hash says it has, the entries at its end, the rows its arena has (-1: it is none) *)
(* and its bytes past the header.                                                               *)

SIDE_ENTRY == 12

serialized_len(x, mph, arena) == mph + arena + SIDE_ENTRY * Len(x.side)

to_bytes(x, mph, arena) ==
    [n |-> x.n, mph_len |-> mph, mph_n |-> Cardinality(x.H), side |-> x.side, rows |-> x.n,
     len |-> serialized_len(x, mph, arena)]

Refused == [refused |-> TRUE]

\* Fault: the ids are below n, and that is all.
TailIdsBelow(f) == {f.side[j][2] : j \in DOMAIN f.side} \subseteq 0 .. f.n - 1

\* Sorted, the ids are exactly m, m + 1, ..., n - 1.
TailIds(f) == /\ {f.side[j][2] : j \in DOMAIN f.side} = f.n - Len(f.side) .. f.n - 1
              /\ IsInjective([j \in DOMAIN f.side |-> f.side[j][2]])

\* parse_frame, then from_shared: the side table is sorted again whatever its order was.
from_shared(f) ==
    LET side_start == f.len - SIDE_ENTRY * Len(f.side)
    IN  IF /\ Len(f.side) <= f.n /\ (Len(f.side) = f.n => f.n = 0)
           /\ side_start >= 0 /\ f.mph_len <= side_start
           /\ TailIds(f)
           /\ f.rows = f.n
           /\ f.n = 0 \/ f.mph_n = f.n - Len(f.side)
        THEN [refused |-> FALSE, n |-> f.n, m |-> f.n - Len(f.side), side |-> SortSeq(f.side, ByHash)]
        ELSE Refused

-------------------------------------------------------------------------------
(* The properties, of a case c. *)

LOCAL Match(x, keys, batch, asked) ==
    /\ x.n = Cardinality(keys)
    /\ {id(x, k) : k \in keys} = 0 .. x.n - 1
    /\ \A k \in keys : key(x, id(x, k)) = {k} /\ id_unchecked(x, k) = id(x, k)
    /\ \A q \in ToSet(asked) \ keys : id(x, q) = NoId /\ id_unchecked(x, q) \in 0 .. Max({0, x.n - 1})
    /\ ids_of(x, batch) = [i \in DOMAIN batch |-> id(x, batch[i])]
    /\ key(x, x.n) = {}
\* Every key of an index built from items has an id of its own below n, the row of which is the
\* key; a stranger has none, its hash and its fingerprint byte being those of a key or not; the
\* batch answers as the lookups do, whether fingerprints are kept or not; and the unchecked
\* lookup is right on the keys and inside the table on a stranger.
IdsAndKeysMatch(c) ==
    Match(build_with(c.items, c.fingerprints), ToSet(c.items), c.items \o c.asked, c.asked)

LOCAL SameIds(x, y, keys) == \A k \in keys : id(x, k) = id(y, k)
\* The ids are the key set's: neither the order the items come in, nor a repeat of one, nor the
\* fingerprints move any.
IdsAreTheSets(c) ==
    SameIds(build_with(c.items, c.fingerprints),
            build_with(Reverse(c.items) \o c.items, ~ c.fingerprints), ToSet(c.items))

\* A blob an index wrote loads; and one that loads, whatever its counts and entries, has a row for
\* every slot and a tail row of its own for every entry, found by the search for its hash.
LoadedRowsExist(c) ==
    LET f == from_shared(c.blob)
    IN  /\ c.written => ~ f.refused
        /\ ~ f.refused =>
             /\ {f.side[j][2] : j \in DOMAIN f.side} \cup (0 .. f.m - 1) = 0 .. f.n - 1
             /\ Cardinality({f.side[j][2] : j \in DOMAIN f.side}) = Len(f.side)
             /\ \A i, j \in DOMAIN f.side : i < j => f.side[i][1] <= f.side[j][1]
=============================================================================
