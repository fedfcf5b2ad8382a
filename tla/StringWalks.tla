------------------------------ MODULE StringWalks -------------------------------
(***************************************************************************)
(* StringIndex over its transducer (src/src/string_index.rs): the build,   *)
(* the queries in key order and in rank order, the character-wise          *)
(* subsequence automaton (src/src/subsequence.rs), and the loads, with the *)
(* check of a transducer from elsewhere as a graph.                        *)
(***************************************************************************)
EXTENDS FstWalk

LOCAL Told(f) == f @@ <<>>

\* Keys order by their bytes.
Before(a, b) ==
    \/ Len(a) < Len(b) /\ IsPrefix(a, b)
    \/ \E i \in 1 .. Min({Len(a), Len(b)}) : a[i] < b[i] /\ SubSeq(a, 1, i - 1) = SubSeq(b, 1, i - 1)
LOCAL Place(S, k) == Cardinality({x \in S : Before(x, k)})
Ranked(S) == Told([i \in 1 .. Cardinality(S) |-> CHOOSE k \in S : Place(S, k) = i - 1])

-------------------------------------------------------------------------------
(* Building. *)

Refused == [len |-> None]
RanksOf(S) == Told([k \in S |-> Place(S, k)])
Blob(map) == [magic |-> TRUE] @@ map
build(items) == Blob(MapOf(3, RanksOf(ToSet(items))))

\* A key equal to the last is dropped; fst's builder refuses one below it.
insert_sorted(items) ==
    LET taken(at, k) == IF at.keys # <<>> /\ Last(at.keys) = k THEN at
                        ELSE IF at.keys # <<>> /\ Before(k, Last(at.keys)) THEN [at EXCEPT !.ok = FALSE]
                        ELSE [at EXCEPT !.keys = Append(@, k)]
    IN  FoldLeft(LAMBDA at, k : IF at.ok THEN taken(at, k) ELSE at, [ok |-> TRUE, keys |-> <<>>], items)
LOCAL BuiltFrom(at) ==
    IF at.ok THEN Blob(MapOf(3, Told([k \in ToSet(at.keys) |-> (CHOOSE i \in DOMAIN at.keys : at.keys[i] = k) - 1])))
    ELSE Refused
build_sorted(items) == BuiltFrom(insert_sorted(items))

-------------------------------------------------------------------------------
(* Queries. What fst's streams yield is x.stream, filtered. *)

id(x, key) == get(x.layout, x.bytes, key)

\* The transition of the subtree that holds an id: the last whose lowest rank is not above it.
RECURSIVE Halved(_, _, _, _, _)
LOCAL Halves(n, acc, want, lo, hi, mid) ==
    IF Sum(acc, n.trans[mid + 1].out) # None /\ acc + n.trans[mid + 1].out <= want
    THEN Halved(n, acc, want, mid + 1, hi) ELSE Halved(n, acc, want, lo, mid)
Halved(n, acc, want, lo, hi) == IF lo < hi THEN Halves(n, acc, want, lo, hi, (lo + hi) \div 2) ELSE lo

NoKey == <<None>>
RECURSIVE RankWalkFrom(_, _, _, _, _)
LOCAL RankWalkOn(x, t, acc, key, want) ==
    IF Sum(acc, t.out) = None THEN NoKey ELSE RankWalkFrom(x, t.to, acc + t.out, Append(key, t.inp), want)
LOCAL RankWalkTake(x, n, acc, key, want, lo) == IF lo = 0 THEN NoKey ELSE RankWalkOn(x, n.trans[lo], acc, key, want)
LOCAL RankWalkAt(x, n, acc, key, want) ==
    IF n.final # None /\ Sum(acc, n.final) = want THEN IF IsText(key) THEN key ELSE NoKey
    ELSE RankWalkTake(x, n, acc, key, want, Halved(n, acc, want, 0, Len(n.trans)))
RankWalkFrom(x, addr, acc, key, want) == RankWalkAt(x, node(x.layout, x.bytes, addr), acc, key, want)
rank_walk(x, want) == RankWalkFrom(x, x.layout.root, 0, <<>>, want)

for_each_common_prefix(x, query) == common_prefixes(x.layout, x.bytes, x.table, query)
\* The same walk through fst's own decoder.
RECURSIVE ByNodes(_, _, _, _, _)
LOCAL NodesOn(x, query, i, acc, n, at) ==
    (IF n.final # None /\ Sum(acc, n.final) # None /\ is_char_boundary(query, i) THEN <<<<i, acc + n.final>>>> ELSE <<>>) \o
      IF at = {} THEN <<>>
      ELSE LET t == n.trans[Min(at)]
           IN  IF Sum(acc, t.out) = None THEN <<>> ELSE ByNodes(x, query, i + 1, t.to, acc + t.out)
LOCAL NodesAt(x, query, i, acc, n) ==
    NodesOn(x, query, i, acc, n, IF i = Len(query) THEN {} ELSE {j \in DOMAIN n.trans : n.trans[j].inp = query[i + 1]})
ByNodes(x, query, i, addr, acc) == NodesAt(x, query, i, acc, node(x.layout, x.bytes, addr))
for_each_common_prefix_by_nodes(x, query) == ByNodes(x, query, 0, x.layout.root, 0)
longest_prefix(x, query) ==
    LET found == for_each_common_prefix(x, query) IN IF found = <<>> THEN <<None, None>> ELSE Last(found)

iter(x) == x.stream
prefix_iter(x, prefix) == SelectSeq(x.stream, LAMBDA e : IsPrefix(prefix, e[1]))
LOCAL FromGe(x, query) == SelectSeq(x.stream, LAMBDA e : ~Before(e[1], query))
iter_after(x, after_) == SelectSeq(x.stream, LAMBDA e : Before(after_, e[1]))
range_iter(x, lo, hi) == SelectSeq(x.stream, LAMBDA e : ~Before(e[1], lo) /\ Before(e[1], hi))

NoEntry == <<NoKey, None>>
successor(x, query) == IF FromGe(x, query) = <<>> THEN NoEntry ELSE FromGe(x, query)[1]
LOCAL BelowRank(x, rank) == IF rank = 0 \/ rank_walk(x, rank - 1) = NoKey THEN NoEntry ELSE <<rank_walk(x, rank - 1), rank - 1>>
\* An absent key's predecessor is the key of the rank below the first key above it.
predecessor(x, query) ==
    IF id(x, query) # None THEN <<query, id(x, query)>>
    ELSE BelowRank(x, IF iter_after(x, query) = <<>> THEN x.len ELSE iter_after(x, query)[1][2])

rank_of_first_ge(x, query) == IF FromGe(x, query) = <<>> THEN x.len ELSE FromGe(x, query)[1][2]
lower_bound(x, query) == rank_of_first_ge(x, query)
range_count(x, lo, hi) == Max({0, lower_bound(x, hi) - lower_bound(x, lo)})
\* The first key without a prefix is not below the prefix with its last byte raised.
RECURSIVE PrefixEnd(_, _)
PrefixEnd(x, upper) ==
    IF upper = <<>> THEN x.len
    ELSE IF Last(upper) = 255 THEN PrefixEnd(x, Front(upper))
    ELSE rank_of_first_ge(x, Append(Front(upper), Last(upper) + 1))
prefix_id_range(x, prefix) ==
    LET start == rank_of_first_ge(x, prefix) IN <<start, Max({start, PrefixEnd(x, prefix)})>>
prefix_count(x, prefix) == prefix_id_range(x, prefix)[2] - prefix_id_range(x, prefix)[1]

\* The automaton's state is how many bytes of the query have matched; a character that fails to
\* match in the middle is matched anew.
char_start(query, pos) == Max({0} \cup {s \in 0 .. pos : ~Continues(query[s + 1])})
accept(query, state, byte) ==
    IF state = Len(query) THEN state ELSE IF byte = query[state + 1] THEN state + 1 ELSE char_start(query, state)
subsequence(x, query) ==
    SelectSeq(x.stream, LAMBDA e : FoldLeft(LAMBDA state, byte : accept(query, state, byte), 0, e[1]) = Len(query))

-------------------------------------------------------------------------------
(* A transducer from elsewhere, checked as a graph. *)

\* One byte of a UTF-8 decoder of eight states; 0 is a character's end.
utf8_step(state, b) ==
    CASE (state = 0 /\ b < 128) \/ (state = 1 /\ b \in 128 .. 191) -> 0
      [] \/ state = 0 /\ b \in 194 .. 223
         \/ state = 2 /\ b \in 160 .. 191
         \/ state = 3 /\ b \in 128 .. 191
         \/ state = 4 /\ b \in 128 .. 159 -> 1
      [] state = 0 /\ b = 224 -> 2
      [] \/ state = 0 /\ b \in (225 .. 236) \cup (238 .. 239)
         \/ state = 5 /\ b \in 144 .. 191
         \/ state = 6 /\ b \in 128 .. 191
         \/ state = 7 /\ b \in 128 .. 143 -> 3
      [] state = 0 /\ b = 237 -> 4
      [] state = 0 /\ b = 240 -> 5
      [] state = 0 /\ b \in 241 .. 243 -> 6
      [] state = 0 /\ b = 244 -> 7
      [] OTHER -> None

Verdict(ok, panics, states) == [ok |-> ok, panics |-> panics, states |-> states]
LOCAL No == Verdict(FALSE, FALSE, <<>>)
\* Parents first: where each node is reached in the decoding of a character.
RECURSIVE Downwards(_, _, _)
LOCAL Reach(states, n, from) ==
    LET more == {t.to : t \in ToSet(n.trans)}
        via(a) == {utf8_step(s, t.inp) : s \in from, t \in {u \in ToSet(n.trans) : u.to = a}}
    IN  Told([a \in DOMAIN states \cup more |-> (IF a \in DOMAIN states THEN states[a] ELSE {})
                                                  \cup (IF a \in more THEN via(a) ELSE {})])
LOCAL GoDown(x, states, below) == IF below = {} THEN Verdict(TRUE, FALSE, states) ELSE Downwards(x, states, Max(below))
LOCAL LowerThan(x, states, addr) == GoDown(x, states, {a \in DOMAIN states : a < addr})
LOCAL DownAt(x, states, addr, n) ==
    IF ~n.ok THEN Verdict(FALSE, TRUE, <<>>)
    ELSE IF \/ n.final # None /\ states[addr] # {0}
            \/ \E t \in ToSet(n.trans) : t.to >= addr \/ \E s \in states[addr] : utf8_step(s, t.inp) = None
    THEN No
    ELSE LowerThan(x, Reach(states, n, states[addr]), addr)
Downwards(x, states, addr) ==
    IF ~node_fits(x.layout, x.bytes, addr) THEN No
    ELSE DownAt(x, states, addr, node(x.layout, x.bytes, addr))

\* Fault: a final node's own output is not looked at.
ranks_fit_any(n) == \A i \in 1 .. Len(n.trans) - 1 : n.trans[i].inp < n.trans[i + 1].inp
ranks_fit(n) == n.final \in {None, 0} /\ \A i \in 1 .. Len(n.trans) - 1 : n.trans[i].inp < n.trans[i + 1].inp
\* The sizes of the reached nodes, by address: a transition's output is how many keys come before it.
index(reached, addr) == Cardinality({a \in reached : a < addr}) + 1
RECURSIVE KeysUnder(_, _, _, _)
LOCAL CountsTo(keys, t, below) == IF t.out # keys THEN None ELSE Sum(keys, below)
\* The keys below the transitions, added to those before them, a half at a time.
KeysUnder(reached, size, trans, keys) ==
    IF keys = None \/ trans = <<>> THEN keys
    ELSE IF Len(trans) = 1 THEN CountsTo(keys, trans[1], size[index(reached, trans[1].to)])
    ELSE KeysUnder(reached, size, SubSeq(trans, (Len(trans) \div 2) + 1, Len(trans)),
                   KeysUnder(reached, size, SubSeq(trans, 1, Len(trans) \div 2), keys))
LOCAL SizeAt(reached, size, n) == IF ranks_fit(n) THEN KeysUnder(reached, size, n.trans, IF n.final = None THEN 0 ELSE 1) ELSE None
RECURSIVE Upwards(_, _, _, _)
LOCAL UpOn(x, reached, size, left, keys) == IF keys = None THEN None ELSE Upwards(x, reached, Append(size, keys), left)
Upwards(x, reached, size, left) ==
    IF left = {} THEN Last(size)
    ELSE UpOn(x, reached, size, left \ {Min(left)}, SizeAt(reached, size, node(x.layout, x.bytes, Min(left))))
LOCAL Validated(x, down) ==
    IF ~down.ok THEN down
    ELSE IF Upwards(x, DOMAIN down.states, <<>>, DOMAIN down.states) = x.len THEN down ELSE No
validate(x) ==
    IF x.layout.root = None THEN No ELSE Validated(x, Downwards(x, x.layout.root :> {0}, x.layout.root))

-------------------------------------------------------------------------------
(* Loading. *)

\* The first value is 0 and the last rank is some key's: a sample of the ranks, not all of them.
verify_ranks(x) == x.len = 0 \/ (x.stream # <<>> /\ x.stream[1][2] = 0 /\ rank_walk(x, x.len - 1) # NoKey)
verify(b) == version(b.bytes) > 2 /\ b.sum = b.bytes
from_map(b) ==
    IF root_addr(b.bytes) = None THEN Refused
    ELSE [layout |-> LayoutOf(b.bytes), bytes |-> b.bytes, len |-> map_len(b.bytes)]
\* The streams of an index: for one whose walks end.
WithStreams(x) == [stream |-> Streamed(x.layout, x.bytes, x.layout.root, <<>>, 0), table |-> derive(x.layout, x.bytes)] @@ x
LOCAL RanksVerified(x) == IF verify_ranks(x) THEN x ELSE Refused
LOCAL Verified(b, x) == IF x = Refused \/ ~verify(b) THEN Refused ELSE RanksVerified(WithStreams(x))
from_shared(b, verified) ==
    IF ~b.magic \/ ~MapNew(b.bytes) THEN Refused ELSE IF verified THEN Verified(b, from_map(b)) ELSE from_map(b)
LOCAL Untrusted(b, x, verdict) == IF verdict.ok /\ verify(b) THEN WithStreams(x) ELSE Refused
LOCAL ValidatedUntrusted(b, x) == IF x = Refused THEN Refused ELSE Untrusted(b, x, validate(x))
from_shared_untrusted(b) == ValidatedUntrusted(b, from_shared(b, FALSE))
Loads == {"from_bytes", "load", "load_mmap", "load_mmap_verified", "load_untrusted", "load_mmap_untrusted"}
LOCAL Mapped(x) == IF x = Refused THEN Refused ELSE WithStreams(x)
load(b, how) ==
    IF how \in {"load_untrusted", "load_mmap_untrusted"} THEN from_shared_untrusted(b)
    ELSE IF how = "load_mmap" THEN Mapped(from_shared(b, FALSE)) ELSE from_shared(b, TRUE)

-------------------------------------------------------------------------------
(* What is promised. *)

\* Every query by walk, by rank and by stream says the same of the sorted keys.
LOCAL Entries(keys, Test(_)) == LET at == SelectSeq([i \in DOMAIN keys |-> <<keys[i], i - 1>>], LAMBDA e : Test(e[1])) IN at
LOCAL Below(keys, q) == Cardinality({i \in DOMAIN keys : Before(keys[i], q)})
LOCAL PrefixesOf(keys, q) == Entries(keys, LAMBDA k : IsPrefix(k, q))
RECURSIVE IsSubsequence(_, _)
LOCAL Chars(s) == {i \in 1 .. Len(s) : ~Continues(s[i])}
LOCAL CharAt(s, i) == SubSeq(s, i, i + len_utf8(s[i]) - 1)
IsSubsequence(q, s) ==
    q = <<>> \/ \E i \in Chars(s) : /\ CharAt(s, i) = CharAt(q, 1)
                                    /\ IsSubsequence(SubSeq(q, len_utf8(q[1]) + 1, Len(q)), SubSeq(s, i + len_utf8(s[i]), Len(s)))
LOCAL PointsAgree(keys, x, q) ==
    LET rank == Below(keys, q)
    IN  /\ id(x, q) = IF q \in ToSet(keys) THEN rank ELSE None
        /\ successor(x, q) = IF rank = Len(keys) THEN NoEntry ELSE <<keys[rank + 1], rank>>
        /\ predecessor(x, q) = IF q \in ToSet(keys) THEN <<q, rank>> ELSE IF rank = 0 THEN NoEntry ELSE <<keys[rank], rank - 1>>
        /\ lower_bound(x, q) = rank
LOCAL PrefixesAgree(keys, x, q, found) ==
    /\ found = [i \in DOMAIN PrefixesOf(keys, q) |-> <<Len(PrefixesOf(keys, q)[i][1]), PrefixesOf(keys, q)[i][2]>>]
    /\ found = for_each_common_prefix_by_nodes(x, q)
    /\ longest_prefix(x, q) = IF found = <<>> THEN <<None, None>> ELSE Last(found)
LOCAL RangesAgree(keys, x, q) ==
    LET under == Entries(keys, LAMBDA k : IsPrefix(q, k))
    IN  /\ prefix_iter(x, q) = under /\ prefix_count(x, q) = Len(under)
        /\ under # <<>> => prefix_id_range(x, q)[1] = under[1][2]
        /\ iter_after(x, q) = Entries(keys, LAMBDA k : Before(q, k))
        /\ subsequence(x, q) = Entries(keys, LAMBDA k : IsSubsequence(q, k))
LOCAL KeysAgree(keys, x) ==
    /\ x.len = Len(keys) /\ iter(x) = Entries(keys, LAMBDA k : TRUE)
    /\ \A i \in 0 .. Len(keys) + 1 : rank_walk(x, i) = IF i < Len(keys) THEN keys[i + 1] ELSE NoKey
LOCAL Answers(keys, x, queries) ==
    /\ KeysAgree(keys, x)
    /\ \A q \in queries :
         /\ PointsAgree(keys, x, q) /\ PrefixesAgree(keys, x, q, for_each_common_prefix(x, q)) /\ RangesAgree(keys, x, q)
         /\ range_count(x, keys[1], q) = Len(range_iter(x, keys[1], q))
LOCAL AtVersion(S, v) == Blob(MapOf(v, RanksOf(S)))
LOCAL AnswersAt(keys, S, v, queries) ==
    MapNew(AtVersion(S, v).bytes) => Answers(keys, WithStreams(from_shared(AtVersion(S, v), FALSE)), queries)
\* A sorted build answers what a build of the same keys in any order does, and loads either way.
LOCAL LoadsAgree(b) == \A how \in Loads : load(b, how) # Refused /\ load(b, how) = load(b, "load")
LOCAL BuildsAgree(keys) ==
    /\ build_sorted(<<keys[1]>> \o keys) = build(Reverse(keys) \o keys) /\ LoadsAgree(build(keys))
    /\ Len(keys) > 1 => build_sorted(Reverse(keys)) = Refused
WalksAnswer(c, queries) ==
    /\ AnswersAt(Ranked(c.keys), c.keys, c.version, queries)
    /\ BuildsAgree(Ranked(c.keys))

\* A map of any values, to byte strings that need not be text, is walked as fst walks it.
LOCAL ForeignAgree(f, x, queries) ==
    /\ \A k \in DOMAIN f : get(x.layout, x.bytes, k) = f[k]
    /\ \A q \in queries : IsText(q) => for_each_common_prefix(x, q) = for_each_common_prefix_by_nodes(x, q)
ForeignWalksAgree(c, queries) == ForeignAgree(c.map, WithStreams(from_map(MapOf(3, c.map))), queries)

\* Of any changed bytes, the check never meets a node it cannot decode; what it lets through
\* streams its ranks in order, spells text, and is walked without a read past the bytes.
LOCAL Ascends(stream) == \A i \in 1 .. Len(stream) - 1 : Before(stream[i][1], stream[i + 1][1])
LOCAL Held(x) ==
    /\ Ascends(x.stream) /\ x.len = Len(x.stream)
    /\ \A i \in DOMAIN x.stream : x.stream[i][2] = i - 1 /\ IsText(x.stream[i][1]) /\ rank_walk(x, i - 1) = x.stream[i][1]
    /\ \A i \in DOMAIN x.stream : Outside \notin {e[1] : e \in ToSet(for_each_common_prefix(x, x.stream[i][1]))}
LOCAL LoadIsTotal(b) ==
    LET x == from_shared(b, FALSE)
    IN  /\ x # Refused => ~validate(x).panics
        /\ from_shared_untrusted(b) # Refused => Held(from_shared_untrusted(b))
LOCAL Changed(bytes, at, to, len) ==
    LET b == [bytes EXCEPT ![at] = to] IN IF len = 0 THEN b ELSE [b EXCEPT ![Len(b) - 2 * WORD - SUM + 1] = len]
LOCAL UntrustedHoldsOf(bytes, c) ==
    c.at \in DOMAIN bytes =>
      /\ LoadIsTotal(Blob(Summed(Changed(bytes, c.at, c.to, c.len))))
      /\ c.to # bytes[c.at] => from_shared([magic |-> TRUE, bytes |-> Changed(bytes, c.at, c.to, 0), sum |-> bytes], TRUE) = Refused
UntrustedHolds(c) == UntrustedHoldsOf(build(Ranked(c.keys)).bytes, c)
\* Keys are counted by the nodes they share; more than a value holds are refused.
DoublingCounted(n) == LET x == from_map(Doubling(n)) IN validate(x).ok = (2 ^ n <= ValueMax)

\* The decoder ends a character where from_utf8 ends one, and nowhere else.
LOCAL Decoded(s) == FoldLeft(LAMBDA at, b : IF at = None THEN None ELSE utf8_step(at, b), 0, s)
Utf8Agrees(b, bytes) ==
    /\ (Decoded(<<b>>) = 0) = IsChar(<<b>>)
    /\ utf8_step(0, b) > 0 => \A b2 \in bytes :
         /\ (Decoded(<<b, b2>>) = 0) = IsChar(<<b, b2>>)
         /\ Decoded(<<b, b2>>) > 0 => \A b3 \in bytes :
              /\ (Decoded(<<b, b2, b3>>) = 0) = IsChar(<<b, b2, b3>>)
              /\ Decoded(<<b, b2, b3>>) > 0 => \A b4 \in bytes : (Decoded(<<b, b2, b3, b4>>) = 0) = IsChar(<<b, b2, b3, b4>>)
         /\ Decoded(<<b, b2>>) = None => \A b3 \in bytes : ~IsChar(<<b, b2, b3>>) /\ \A b4 \in bytes : ~IsChar(<<b, b2, b3, b4>>)
    /\ utf8_step(0, b) = None => \A b2 \in bytes : ~IsChar(<<b, b2>>) /\ \A b3, b4 \in {128, 191} : ~IsChar(<<b, b2, b3>>) /\ ~IsChar(<<b, b2, b3, b4>>)
================================================================================
