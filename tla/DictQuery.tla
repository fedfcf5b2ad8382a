-------------------------------- MODULE DictQuery --------------------------------
(***************************************************************************)
(* Loading a dictionary index and asking it                                *)
(* (src/src/dict_index/format.rs, query.rs): the checks of a load, the     *)
(* rank of a query, prefixes, batches in lockstep, keys by their rank off  *)
(* a staircase of entries, batches of keys off one walk, and the iterator. *)
(*                                                                         *)
(* A query is a sequence of characters.  Where an index has no character   *)
(* code its keys are spelled as they are; under a code a character is its  *)
(* place in the code, and its raw bytes are itself or, outside ASCII, a    *)
(* lead and itself, so that raw samples hold fewer characters.             *)
(***************************************************************************)
EXTENDS DictRoute

CONSTANTS
    STAIRS,   \* entries a climb can stack
    LANES     \* searches in lockstep

-------------------------------------------------------------------------------
(* Loading. *)

\* nm: the microblock starts a blob of these sizes holds.
StartsOf(n, block, micro) ==
    LET nb   == DivCeil(n, block)
        each == DivCeil(block, micro)
    IN  IF nb = 0 \/ each = 1 THEN 0
        ELSE (nb - 1) * each + DivCeil(Min({n - (nb - 1) * block, block}), micro)

\* from_shared: the section lengths add up.
Framed(x) ==
    /\ Len(x.heads) = DivCeil(x.n, x.block)
    /\ Len(x.blocks) = Len(x.heads) /\ Len(x.micros) = StartsOf(x.n, x.block, x.micro)
    /\ LET shards == Max({DivCeil(Len(x.heads), shard_blocks_for(x.block)), 1})
       IN  Len(x.codecs) = shards /\ Len(x.codes) = shards

\* check_layout.
check_layout(x) ==
    IF x.heads = <<>> THEN x.data = <<>>
    ELSE /\ \A b \in 1 .. Len(x.ends) : x.ends[b] >= (IF b = 1 THEN 0 ELSE x.ends[b - 1])
         /\ x.ends[Len(x.ends)] = Len(Cat(x.heads))
         /\ \A b \in 0 .. blocks_len(x) - 1 :
              LET starts == <<x.blocks[b + 1]>> \o [j \in 1 .. micros_in(x, b) |-> micro_start(x, b, j - 1)]
                              \o <<block_end(x, b)>>
              IN  \A i \in 2 .. Len(starts) : starts[i - 1] <= starts[i]
         /\ x.blocks[1] = 0 /\ block_end(x, blocks_len(x) - 1) = Len(x.data)
         /\ x.g <= common_head(x.heads)

\* A character's UTF-8, and a key's.
Utf8(c) == IF c \in High THEN <<Base - 1, c>> ELSE <<c>>
Bytes(key) == Cat([i \in DOMAIN key |-> Utf8(key[i])])

\* spelled, CharCode::decode_into: a stored key as the caller spells it.
spelled_key(x, stored) == IF x.code = NoCode THEN stored ELSE Told([i \in DOMAIN stored |-> x.code[stored[i]]])

\* raw_route: over the decoded heads, where they tie no more blocks than the coded ones.
NoRaw == <<>>
TiesIn(words) == Cardinality({i \in 2 .. Len(words) : words[i - 1] = words[i]})
raw_route(x) ==
    LET heads == Told([b \in DOMAIN x.heads |-> Bytes(spelled_key(x, x.heads[b]))])
        g     == common_head(heads)
        words == Told([b \in DOMAIN heads |-> sample_at(heads[b], g)])
    IN  IF x.code = NoCode \/ x.heads = <<>> \/ TiesIn(words) > TiesIn(x.samples) THEN NoRaw
        ELSE <<[prefix |-> SubSeq(heads[1], 1, g), g |-> g, samples |-> words]>>

\* from_shared and, where `routed`, route_microblocks.
Load(idx, routed) ==
    LET x == idx @@ [samples |-> Told([b \in DOMAIN idx.heads |-> sample_at(idx.heads[b], idx.g)]),
                     routed |-> routed]
    IN  x @@ [raw |-> raw_route(x)]

-------------------------------------------------------------------------------
(* A query as the keys are spelled. *)

Spells(code, c) == \E i \in DOMAIN code : code[i] = c

\* bump: the least bytes above all these are a prefix of, <<>> where there are none.
bump(bytes) ==
    LET upto == Max({0} \cup {i \in DOMAIN bytes : bytes[i] # Base - 1})
    IN  IF upto = 0 THEN <<>> ELSE [SubSeq(bytes, 1, upto) EXCEPT ![upto] = @ + 1]

\* probe_into: exact, or a stand-in for a query with a character the code does not spell, or past all.
probe(x, query) ==
    LET code  == x.code
        upto  == Cardinality({i \in DOMAIN query : \A j \in 1 .. i : Spells(code, query[j])})
        front == spell(code, SubSeq(query, 1, upto))
        next  == Cardinality({i \in DOMAIN code : code[i] < query[upto + 1]}) + 1
    IN  IF code = NoCode THEN [kind |-> "Exact", bytes |-> query]
        ELSE IF upto = Len(query) THEN [kind |-> "Exact", bytes |-> front]
        ELSE IF next <= Len(code) THEN [kind |-> "Absent", bytes |-> Append(front, next)]
        ELSE IF bump(front) # <<>> THEN [kind |-> "Absent", bytes |-> bump(front)]
        ELSE [kind |-> "Last", bytes |-> <<>>]

\* sample_range over the raw samples: <<lo, hi>>.
sample_range(samples, s) == LET lo == Below(samples, s) IN <<lo, past_equal(samples, lo, s)>>

RawRange(x, raw, bytes) ==
    LET fixed == IF raw.g = 0 THEN -1 ELSE place_prefix(raw.prefix, blocks_len(x), bytes)
    IN  IF fixed # -1 THEN <<fixed, fixed>> ELSE sample_range(raw.samples, sample_at(bytes, raw.g))

LOCAL InRange(x, bytes, range) == locate_in(x, head_boundary(x, bytes, range[1], range[2]), bytes)
LOCAL ByRoute(x, bytes, query) ==
    IF x.raw = NoRaw THEN locate(x, bytes) ELSE InRange(x, bytes, RawRange(x, x.raw[1], Bytes(query)))
LOCAL Ranked(got, p) == <<got[1], got[2] /\ p.kind = "Exact">>
LOCAL LocateProbe(x, p, query) ==
    IF p.kind = "Last" THEN <<x.n, FALSE>> ELSE Ranked(ByRoute(x, p.bytes, query), p)
\* locate_query: the keys below the query, and whether it is one.
locate_query(x, query) == LocateProbe(x, probe(x, query), query)

None == -1
LOCAL IdAt(at) == IF at[2] THEN at[1] ELSE None
id(x, key)           == IdAt(locate_query(x, key))
lower_bound(x, key)  == locate_query(x, key)[1]
LOCAL SpanOf(at) == Max({at[2] - at[1], 0})
LOCAL Bounds(x, queries) == Told([i \in DOMAIN queries |-> lower_bound(x, queries[i])])
range_count(x, lo, hi) == SpanOf(Bounds(x, <<lo, hi>>))

\* prefix_id_range: up to the first key past the prefix, a last byte at its limit carried off.
LOCAL Span(start, end) == <<start, Max({end, start})>>
LOCAL EndOf(x, upper) == IF upper = <<>> THEN x.n ELSE locate(x, upper)[1]
LOCAL RangeOfProbe(x, p) ==
    IF p.kind = "Last" THEN <<x.n, x.n>>
    ELSE Span(locate(x, p.bytes)[1], IF p.kind = "Exact" THEN EndOf(x, bump(p.bytes)) ELSE 0)
prefix_id_range(x, prefix) == RangeOfProbe(x, probe(x, prefix))

-------------------------------------------------------------------------------
(* Keys by rank. *)

\* advance: the next entry of a run onto the key before it.
advance(entry, cur) == SubSeq(cur, 1, entry.l) \o decode(entry.units, All)
Advanced(entries, from, to, cur) ==
    LET at[i \in from .. to] == IF i = from THEN cur ELSE advance(entries[i], at[i - 1]) IN at[to]

\* The entries of a run that leave bytes in the key `steps` along it, or "deep" past the stack.
Deep == <<[l |-> -1, units |-> <<>>]>>
Stairs(entries, steps) ==
    LET at[i \in 0 .. steps] ==
            IF i = 0 THEN <<>>
            ELSE IF at[i - 1] = Deep THEN Deep
            ELSE LET kept == SelectSeq(at[i - 1], LAMBDA e : e.l < entries[i].l)
                 IN  IF Len(kept) = STAIRS THEN Deep ELSE Append(kept, entries[i])
    IN  at[steps]

\* An entry past the key so far is refused.
Emit(entry, cap, out) ==
    IF entry.l > Len(out) THEN out ELSE SubSeq(out, 1, entry.l) \o decode(entry.units, cap)

LOCAL Climbed(stairs, entries, steps, out) ==
    LET at[i \in 0 .. Len(stairs)] ==
            IF i = 0 THEN out
            ELSE Emit(stairs[i], IF i = Len(stairs) THEN All ELSE stairs[i + 1].l - stairs[i].l, at[i - 1])
    IN  IF stairs = Deep THEN Advanced(entries, 0, steps, out) ELSE at[Len(stairs)]
\* climb: each stair decoded as far as the next one leaves it, and every entry where they are too deep.
climb(entries, steps, out) == Climbed(Stairs(entries, steps), entries, steps, out)

BlockOf(x, at) == at \div x.block
MicroOf(x, at) == (at % x.block) \div x.micro
StepOf(x, at)  == (at % x.block) % x.micro

\* key_bytes_into: the restarts climbed to the microblock, the microblock to the key.
key_bytes(x, at) ==
    climb(Microblock(x, BlockOf(x, at), MicroOf(x, at)), StepOf(x, at),
          climb(Restarts(x, BlockOf(x, at)), MicroOf(x, at), head(x, BlockOf(x, at))))

NoKey == <<-1>>
key(x, at) == IF at >= x.n THEN NoKey ELSE spelled_key(x, key_bytes(x, at))

LOCAL MicroId(x, at) == <<BlockOf(x, at), MicroOf(x, at)>>
LOCAL More(x, ids, i) ==
    i < Len(ids) /\ ids[i + 1] > ids[i] /\ ids[i + 1] < x.n /\ MicroId(x, ids[i + 1]) = MicroId(x, ids[i])
LOCAL WalkedTo(w, x, cur, m, j) ==
    [out |-> Append(w.out, spelled_key(x, cur)), open |-> m, consumed |-> j, cur |-> cur]
LOCAL WalkOn(w, x, at, m, from) ==
    WalkedTo(w, x, Advanced(Microblock(x, m[1], m[2]), from.i, StepOf(x, at), from.cur), m, StepOf(x, at))
LOCAL Fresh(w, x, at) == w.open # MicroId(x, at) \/ StepOf(x, at) < w.consumed
\* One more id of a batch: a walk is open on a microblock, or opened where the next id is further
\* along it.
NextKey(w, x, ids, i) ==
    IF ids[i] >= x.n THEN [w EXCEPT !.out = Append(@, NoKey)]
    ELSE IF Fresh(w, x, ids[i]) /\ ~More(x, ids, i)
    THEN [w EXCEPT !.out = Append(@, key(x, ids[i])), !.open = <<>>]
    ELSE WalkOn(w, x, ids[i], MicroId(x, ids[i]),
              IF Fresh(w, x, ids[i]) THEN [i |-> 0, cur |-> key_bytes(x, ids[i] - StepOf(x, ids[i]))]
              ELSE [i |-> w.consumed, cur |-> w.cur])

keys_of(x, ids) ==
    LET at[i \in 0 .. Len(ids)] ==
            IF i = 0 THEN [out |-> <<>>, open |-> <<>>, consumed |-> 0, cur |-> <<>>]
            ELSE NextKey(at[i - 1], x, ids, i)
    IN  at[Len(ids)].out

\* iter_from: a block opened on its head or resumed at a key, then a restart a microblock and an
\* entry a key.
iter_from(x, start) ==
    LET Opened_at(i) ==
            LET restart == Advanced(Restarts(x, BlockOf(x, i)), 0, MicroOf(x, i), head(x, BlockOf(x, i)))
            IN  [restart |-> restart,
                 cur |-> Advanced(Microblock(x, BlockOf(x, i), MicroOf(x, i)), 0, StepOf(x, i), restart)]
        at[i \in start .. x.n - 1] ==
            IF i = start \/ i % x.block = 0 THEN Opened_at(i)
            ELSE IF StepOf(x, i) = 0
            THEN LET restart == advance(Restarts(x, BlockOf(x, i))[MicroOf(x, i)], at[i - 1].restart)
                 IN  [restart |-> restart, cur |-> restart]
            ELSE [at[i - 1] EXCEPT !.cur =
                    advance(Microblock(x, BlockOf(x, i), MicroOf(x, i))[StepOf(x, i)], @)]
    IN  [i \in 1 .. Max({x.n - start, 0}) |-> spelled_key(x, at[start + i - 1].cur)]

\* What follows from where locate_query puts a query, `at`.
successor(x, at)   == key(x, at[1])

LOCAL KeyBefore(x, i) == IF i < 0 THEN NoKey ELSE key(x, i)
LOCAL LastTo(at) == IF at[2] THEN at[1] ELSE at[1] - 1
predecessor(x, at) == KeyBefore(x, LastTo(at))

LOCAL FirstPast(at) == at[1] + (IF at[2] THEN 1 ELSE 0)
iter_after(x, at) == iter_from(x, FirstPast(at))

Taken(keys, While(_)) ==
    SubSeq(keys, 1, Cardinality({i \in DOMAIN keys : \A j \in 1 .. i : While(keys[j])}))
prefix_iter(x, at, prefix) == Taken(iter_from(x, at[1]), LAMBDA k : IsPrefix(prefix, k))

range_iter(x, at, hi) == Taken(iter_from(x, at), LAMBDA k : Less(k, hi))

\* common_prefix: under a code, up to the first character it does not spell.
LOCAL SpeltTo(x, query) ==
    IF x.code = NoCode THEN Len(query)
    ELSE Cardinality({i \in DOMAIN query : \A j \in 1 .. i : Spells(x.code, query[j])})
LOCAL FrontId(x, front) == IF x.code = NoCode THEN id(x, front) ELSE IdAt(locate(x, spell(x.code, front)))
common_prefix(x, query) == {FrontId(x, SubSeq(query, 1, end)) : end \in 0 .. SpeltTo(x, query)} \ {None}
longest_prefix(common) == Max({None} \cup common)

-------------------------------------------------------------------------------
(* Batches. *)

\* Rounds of halving enough for nb samples.
Rounds(nb) == Cardinality({i \in 0 .. 30 : 2 ^ i <= nb}) + 1

\* The first sample not below s after the rounds.
Halved(samples, s) ==
    LET at[r \in 0 .. Rounds(Len(samples))] ==
            IF r = 0 THEN <<0, Len(samples)>>
            ELSE LET lo == at[r - 1][1]
                     len == at[r - 1][2]
                     half == len \div 2
                 IN  IF len = 0 THEN at[r - 1]
                     ELSE IF Sample(samples, lo + half) < s THEN <<lo + half + 1, len - half - 1>>
                     ELSE <<lo, half>>
    IN  at[Rounds(Len(samples))][1]

LOCAL LaneTied(x, bytes, lo, s, root) ==
    IF root.p # -1 THEN boundary(x, root, bytes).l ELSE head_boundary(x, bytes, lo, past_equal(x.samples, lo, s))
LOCAL LaneAt(x, bytes, lo, s) ==
    IF Sample(x.samples, lo) # s THEN lo
    ELSE LaneTied(x, bytes, lo, s, IF Sample(x.samples, lo + MIN_RUN - 1) = s THEN Root(x, lo) ELSE NoNode)
LOCAL LaneOf(x, bytes, s) == LaneAt(x, bytes, Halved(x.samples, s), s)
LOCAL LaneOff(x, bytes, fixed) == IF fixed # -1 THEN fixed ELSE LaneOf(x, bytes, sample_at(bytes, x.g))
\* spelled_into: a lane.
LaneId(x, bytes) ==
    IF x.n = 0 THEN None ELSE IdAt(locate_in(x, LaneOff(x, bytes, OfPrefix(x, bytes)), bytes))

\* ids_of: a group of lanes spelled into one arena, which a key the code does not spell leaves as it
\* was: it is looked up as the empty probe and its answer dropped.
LOCAL InArena(x, got, arena, ends) ==
    Told([j \in DOMAIN got |->
        IF got[j].kind = "Exact" THEN LaneId(x, SubSeq(arena, ends[j] - Len(got[j].bytes) + 1, ends[j])) ELSE None])
LOCAL SpeltBytes(got) == Told([j \in DOMAIN got |-> IF got[j].kind = "Exact" THEN got[j].bytes ELSE <<>>])
LOCAL Spelt_into(x, got, spans) ==
    InArena(x, got, Cat(spans), Told([j \in DOMAIN spans |-> Len(Cat(SubSeq(spans, 1, j)))]))
LOCAL GroupIds(x, got) == Spelt_into(x, got, SpeltBytes(got))
LOCAL GroupsIds(x, groups) ==
    Cat(Told([c \in DOMAIN groups |-> GroupIds(x, Told([j \in DOMAIN groups[c] |-> probe(x, groups[c][j])]))]))
ids_of(x, keys) == GroupsIds(x, Chunks(keys, LANES))

-------------------------------------------------------------------------------
(* What is promised of the index of a case [items, layout, threads, routed]. *)

\* Each key and what is near it: short of its last character, past it, and past the alphabet.
Near(k) ==
    LET front == SubSeq(k, 1, Len(k) - 1)
    IN  <<k, front, Append(k, 0), Append(front, 1), Append(k, Base - 2), <<Base - 2>>>>
Queries(keys) == Cat([i \in DOMAIN keys |-> Near(keys[i])]) \o Near(<<>>)

\* Ids that run along a microblock, fall back in it, leave it and pass the last key.
IdBatch(n) ==
    SelectSeq(<<0, 1, 3, 2, 2, 3, n, 4, 6, 7, 5, 1, n - 1, n - 2, 0, n - 1>>, LAMBDA i : i >= 0)

RankOf(keys, q) == Cardinality({i \in DOMAIN keys : Less(keys[i], q)})

LOCAL Covers(range, with) ==
    range[2] - range[1] = Cardinality(with) /\ \A i \in with : i - 1 \in range[1] .. range[2] - 1
LOCAL Located(x, keys, q, at, rank, hit, with) ==
    LET At(r) == IF r \in 0 .. Len(keys) - 1 THEN keys[r + 1] ELSE NoKey
        past  == rank + (IF hit THEN 1 ELSE 0)
    IN  /\ at = <<rank, hit>>
        /\ successor(x, at) = At(rank) /\ predecessor(x, at) = At(past - 1)
        /\ prefix_iter(x, at, q) = SubSeq(keys, rank + 1, rank + Cardinality(with))
        /\ iter_after(x, at) = Past(keys, past)
LOCAL Fronts(common, within) ==
    common = {i - 1 : i \in within} /\ longest_prefix(common) = Max({0} \cup within) - 1

\* Each query by what it means over the sorted keys.
AnswersQuery(x, keys, q) ==
    LET with == {i \in DOMAIN keys : IsPrefix(q, keys[i])}
    IN  /\ Located(x, keys, q, locate_query(x, q), RankOf(keys, q), q \in ToSet(keys), with)
        /\ Covers(prefix_id_range(x, q), with)
        /\ Fronts(common_prefix(x, q), {i \in DOMAIN keys : IsPrefix(keys[i], q)})

\* Batches, ranges and walks over the same keys.
LOCAL Between(x, keys, at, lo, hi) ==
    LET ranks == <<RankOf(keys, lo), RankOf(keys, hi)>>
    IN  /\ SpanOf(at) = Max({ranks[2] - ranks[1], 0})
        /\ range_iter(x, at[1], hi) = SubSeq(keys, ranks[1] + 1, ranks[2])
AnswersBatches(x, keys, queries, ids) ==
    LET Id(q) == LET r == RankOf(keys, q) IN IF r < Len(keys) /\ keys[r + 1] = q THEN r ELSE None
    IN  /\ ids_of(x, queries) = [i \in DOMAIN queries |-> Id(queries[i])]
        /\ keys_of(x, ids) = [i \in DOMAIN ids |-> IF ids[i] < x.n THEN keys[ids[i] + 1] ELSE NoKey]
        /\ iter_from(x, 0) = keys
        /\ \A at \in 0 .. x.n : key(x, at) = IF at < x.n THEN keys[at + 1] ELSE NoKey
        /\ \A i \in 2 .. Len(queries) :
             Between(x, keys, Bounds(x, <<queries[i - 1], queries[i]>>), queries[i - 1], queries[i])

LOCAL Answers(x, keys, queries) ==
    /\ \A q \in ToSet(queries) : AnswersQuery(x, keys, q)
    /\ AnswersBatches(x, keys, queries, IdBatch(Len(keys)))
LOCAL Holds(idx, keys, routed) ==
    Framed(idx) /\ check_layout(idx) /\ Answers(Load(idx, routed), keys, Queries(keys))
IndexAnswers(c) == Holds(build_with(c.items, c.layout, c.threads), InOrder(ToSet(c.items)), c.routed)
=================================================================================
