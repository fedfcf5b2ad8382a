------------------------------- MODULE ClosedHash -------------------------------
(***************************************************************************)
(* ClosedHashIndex (src/src/closed_hash.rs): the perfect hash and nothing  *)
(* else. The build over hashed pairs, the build straight to a file, whose  *)
(* two passes over the merged pairs may each end in an error, the lookups, *)
(* and the framing of a blob.                                              *)
(*                                                                         *)
(* A key is the pair <<h, second>> of its two hashes. The sort, the slots  *)
(* and the side probe are CompactHash's, which this index calls or repeats;*)
(* the merged file is the sorted distinct pairs, which CompactStream shows.*)
(***************************************************************************)
EXTENDS Integers, Sequences, FiniteSets, SequencesExt, FiniteSetsExt

CONSTANTS
    Byte, WordBytes, HashHigh, HashLow, FpBits, MaxParts, PartFloor, SlotOrder,   \* CompactHash's
    MaxKeys      \* the most keys an id can tell apart, u32::MAX in the code

C == INSTANCE CompactHash

SIDE_ENTRY == 20
Refused == [refused |-> TRUE]

-------------------------------------------------------------------------------
(* The build in memory. An index is its keys' count, the hashes of its table and its side. *)

Empty == [refused |-> FALSE, n |-> 0, H |-> {}, side |-> <<>>]

\* The pairs of a hash met before, with the ids past the slots.
SideOf(s, m) == LET late == C!Late(s) IN [j \in DOMAIN late |-> <<s[late[j]][1], s[late[j]][2], m + j - 1>>]

\* One slot below m a representative, and no slot twice.
IsPerfect(slots, m) ==
    LET own == SelectSeq(slots, LAMBDA p : p[1] # C!NO_SLOT)
    IN  /\ \A i \in DOMAIN own : own[i][1] < m
        /\ IsInjective([i \in DOMAIN own |-> own[i][1]])

LOCAL IndexOf(s, H, threads) ==
    IF Len(s) > MaxKeys THEN Refused
    ELSE IF s = <<>> THEN Empty
    ELSE IF ~ IsPerfect(C!slots_in_place(s, H, threads), Cardinality(H)) THEN Refused
    ELSE [refused |-> FALSE, n |-> Len(s), H |-> H, side |-> SideOf(s, Cardinality(H))]
LOCAL Indexed(s, threads) == IndexOf(s, C!HashesOf(s), threads)
build_from_pairs(pairs, threads) == Indexed(C!dedup(C!sort_run(pairs, threads)), threads)

to_bytes(x, mph_len) ==
    [magic |-> "BCL3", header_ok |-> TRUE, payload_ok |-> TRUE, n |-> x.n, mph_ok |-> TRUE, H |-> x.H,
     mph_len |-> IF x.n = 0 THEN 0 ELSE mph_len, side |-> x.side,
     len |-> (IF x.n = 0 THEN 0 ELSE mph_len) + SIDE_ENTRY * Len(x.side)]

-------------------------------------------------------------------------------
(* The build to a file. fails = <<where, after>> says where it meets an error: the input's own, *)
(* the pass for the table once `after` hashes are read, the pass over all pairs once `after` of *)
(* them are, or the caller's last word before the rename; "none" is a build that meets none.    *)

\* What a pass reads, and whether it ends before its last.
Read(s, fails, pass) == IF fails[1] = pass THEN SubSeq(s, 1, Min({fails[2], Len(s)})) ELSE s
Errs(s, fails, pass) == fails[1] = pass /\ fails[2] < Len(s)

\* The second pass: the first pair of a hash takes its slot, the rest go to the side.
Walked(s, H) ==
    FoldLeft(LAMBDA at, p :
                IF at.bad THEN at
                ELSE IF at.last = p[1]
                THEN [at EXCEPT !.side = Append(@, <<p[1], p[2], Cardinality(H) + Len(@)>>)]
                ELSE [at EXCEPT !.last = p[1], !.seen = @ \cup {C!index(H, p[1])},
                                !.bad = C!index(H, p[1]) \in at.seen],
             [last |-> -1, side |-> <<>>, seen |-> {}, bad |-> FALSE], s)

\* all.error, and the check of the slots.
PassFails(s, fails, walk) == walk.bad \/ Errs(s, fails, "all")

LOCAL Written(s, H, fails, mph_len, walk) ==
    IF PassFails(s, fails, walk) \/ fails[1] = "write" THEN Refused
    ELSE [refused |-> FALSE,
          blob |-> to_bytes([n |-> Len(s), H |-> H, side |-> walk.side], mph_len)]
LOCAL StreamedOf(s, H, fails, mph_len) ==
    IF fails[1] = "input" \/ Len(s) > MaxKeys THEN Refused
    ELSE IF Errs(C!Reps(s), fails, "reps") THEN Refused
    ELSE Written(s, H, fails, mph_len, Walked(Read(s, fails, "all"), H))
LOCAL Streamed(s, fails, mph_len) == StreamedOf(s, C!HashesOf(s), fails, mph_len)
build_to_file_with(pairs, fails, mph_len) == Streamed(C!dedup(C!sort_unstable(pairs)), fails, mph_len)

-------------------------------------------------------------------------------
(* The lookups. *)

slot_for(x, h) == IF x.H = {} THEN 0 ELSE C!index(x.H, h)

id_with_side(x, key) ==
    IF C!side_lookup(x, key) # C!NoId THEN C!side_lookup(x, key) ELSE slot_for(x, key[1])

id_bytes(x, key) == IF x.side = <<>> THEN slot_for(x, key[1]) ELSE id_with_side(x, key)

\* The hashes first, then their slots in one batch; with a side table, one at a time.
ids_of_with(x, keys) ==
    LET hashes == [i \in DOMAIN keys |-> keys[i][1]]
    IN  IF x.side # <<>> THEN [i \in DOMAIN keys |-> id_with_side(x, keys[i])]
        ELSE [i \in DOMAIN keys |-> slot_for(x, hashes[i])]

-------------------------------------------------------------------------------
(* The framing of a blob. A blob is its header's fields, the table behind the region its header  *)
(* gives the perfect hash, the entries at its end, and its bytes past the header.                *)

LEGACY_MAGICS == {"BCL1", "BCL2"}
Before(p, q) == C!Less(p, q) \/ (p[1] = q[1] /\ p[2] = q[2] /\ p[3] < q[3])

\* Sorted, the ids are exactly m, m + 1, ..., n - 1.
TailIds(f) == /\ {f.side[j][3] : j \in DOMAIN f.side} = f.n - Len(f.side) .. f.n - 1
              /\ IsInjective([j \in DOMAIN f.side |-> f.side[j][3]])

parses(f) ==
    LET side_start == f.len - SIDE_ENTRY * Len(f.side)
    IN  /\ f.magic \notin LEGACY_MAGICS /\ f.magic = "BCL3"
        /\ f.header_ok /\ f.payload_ok
        /\ f.n <= MaxKeys
        /\ Len(f.side) <= f.n /\ (Len(f.side) = f.n => f.n = 0)
        /\ side_start >= 0 /\ f.mph_len = side_start
        /\ TailIds(f)

\* The table of an empty index is not read.
from_bytes(f) ==
    IF parses(f) /\ (f.n = 0 \/ (f.mph_ok /\ Cardinality(f.H) = f.n - Len(f.side)))
    THEN [refused |-> FALSE, n |-> f.n, H |-> IF f.n = 0 THEN {} ELSE f.H, side |-> SortSeq(f.side, Before)]
    ELSE Refused

-------------------------------------------------------------------------------
(* The properties, of a case c. *)

LOCAL Below(x, i) == i \in 0 .. Max({0, x.n - 1})
LOCAL BatchAgrees(x, keys) == ids_of_with(x, keys) = [i \in DOMAIN keys |-> id_bytes(x, keys[i])]
LOCAL Members(x, keys, c) ==
    IF Cardinality(keys) > MaxKeys THEN x.refused
    ELSE /\ ~ x.refused /\ x.n = Cardinality(keys)
         /\ {id_bytes(x, k) : k \in keys} = 0 .. x.n - 1
         /\ \A q \in ToSet(c.asked) : Below(x, id_bytes(x, q))
         /\ BatchAgrees(x, c.asked \o c.pairs)
         /\ from_bytes(to_bytes(x, 5)) = x
\* The keys of an index take the ids 0 .. n - 1, one each, hashes shared or not; any other text
\* gets an id below n; a batch answers as the lookups do; and the index written reads back.
MembersNumbered(c) == Members(build_from_pairs(c.pairs, c.threads), ToSet(c.pairs), c)

LOCAL Published(x, y, c) ==
    /\ ~ y.refused => ~ x.refused /\ y.blob = to_bytes(x, 5)
    /\ c.fails[1] = "none" => y.refused = x.refused
\* A file a streaming build publishes is the one the build in memory writes, whatever read of
\* either pass, or whichever of the caller's words, failed on the way.
FileIsTheBuild(c) == Published(build_from_pairs(c.pairs, c.threads), build_to_file_with(c.pairs, c.fails, 5), c)

LOCAL Inside(x, asked) ==
    /\ \A q \in ToSet(asked) : Below(x, id_bytes(x, q))
    /\ {x.side[j][3] : j \in DOMAIN x.side} \cup (0 .. Cardinality(x.H) - 1) = 0 .. x.n - 1
    /\ BatchAgrees(x, asked)
\* A blob that loads, whatever it says, answers below its count, the batch as the lookup.
LoadedIdsInside(c) == from_bytes(c.blob).refused \/ Inside(from_bytes(c.blob), c.asked)
=================================================================================
