------------------------------- MODULE DictBuild --------------------------------
(***************************************************************************)
(* Building a dictionary index.  The labels it may name past its phrases   *)
(* (src/src/labels.rs): the edges of the trie over the sorted keys,        *)
(* counted over keys in memory or over two walks of a key stream; the      *)
(* admitted ones parsed block by block; and those that pay kept, flat or   *)
(* nested.  Then the build (src/src/dict_index/build.rs, encode.rs):       *)
(* the keys sorted and their duplicates dropped on threads, a symbol table *)
(* trained for each shard of blocks, and the blocks front-coded, from keys *)
(* in memory a range of shards a thread, or from a key stream walked in    *)
(* passes a block at a time.                                               *)
(*                                                                         *)
(* A key is a sequence of bytes.  Block data is a sequence of cells: a     *)
(* header <<lcp, units>> of an entry, then the entry's units, each <<s>>   *)
(* with s the bytes it stands for.  Training, mining and the header codes  *)
(* are functions of what the code hands them.                              *)
(***************************************************************************)
EXTENDS Integers, Sequences, FiniteSets, FiniteSetsExt, SequencesExt

CONSTANTS
    MayPay,                       \* the lengths a label can pay at: from five to LABEL_MAX
    Inline, Reference, Nested, Entry,  \* what a byte inline, a reference, a byte nested and an entry cost
    PhraseMax,                    \* bytes of the longest phrase, phrase::MAX
    FlatReads,                    \* reads a flat entry takes
    SeenSlots                     \* places of a label in the filter of a first pass

Less(a, b) ==
    \E i \in 0 .. Len(a) :
        /\ i < Len(b) /\ SubSeq(a, 1, i) = SubSeq(b, 1, i)
        /\ i = Len(a) \/ a[i + 1] < b[i + 1]
lcp(a, b)  == Max({i \in 0 .. Min({Len(a), Len(b)}) : SubSeq(a, 1, i) = SubSeq(b, 1, i)})
Past(s, k) == SubSeq(s, k + 1, Len(s))
DivCeil(a, b) == (a + b - 1) \div b
\* The keys of a chunk of `size`, from 0.
Chunk(keys, size, c) == SubSeq(keys, c * size + 1, Min({(c + 1) * size, Len(keys)}))
\* A sequence with its elements worked out.
Told(s) == s \o <<>>
InOrder(S) ==
    Told([i \in 1 .. Cardinality(S) |-> CHOOSE k \in S : Cardinality({j \in S : Less(j, k)}) = i - 1])

-------------------------------------------------------------------------------
(* The edges: `open` holds the depths on the path of the last key, from the root's 0. *)

\* The edges below where the next key leaves the path end there.
close_edges(open, last, shared) ==
    LET up    == SelectSeq(open, LAMBDA d : d <= shared)
        gone  == Past(open, Len(up))
        From(i) == IF i = 1 THEN shared ELSE gone[i - 1]
    IN  [open |-> IF Last(up) = shared THEN up ELSE Append(up, shared),
         edges |-> [i \in DOMAIN gone |-> SubSeq(last, From(i) + 1, gone[i])]]

open_key(open, len) == IF Last(open) < len THEN Append(open, len) ELSE open

\* A walk of the keys from an open path, the edges it closes in turn.
Walk(keys, open) ==
    LET at[i \in 0 .. Len(keys)] ==
            IF i = 0 THEN [open |-> open, last |-> <<>>, edges |-> <<>>]
            ELSE LET w == at[i - 1]
                     c == close_edges(w.open, w.last, lcp(w.last, keys[i]))
                 IN  [open |-> open_key(c.open, Len(keys[i])), last |-> keys[i],
                      edges |-> w.edges \o c.edges]
    IN  at[Len(keys)]

LOCAL WithLast(w) == w.edges \o close_edges(w.open, w.last, 0).edges
\* A walk and the edges its last key leaves open.
Edges(keys) == WithLast(Walk(keys, <<0>>))

may_pay(label) == Len(label) \in MayPay
pays(len, count) == count * (Inline * len - Reference) > Nested * len + Entry
Times(s, x) == Cardinality({i \in DOMAIN s : s[i] = x})

\* The filter: the places a label was seen at once, and those it was seen at again.
places(label) == {(Len(label) + FoldLeft(+, 0, label)) % SeenSlots, (Len(label) + Last(label)) % SeenSlots}
add(seen, label) ==
    [once |-> seen.once \cup places(label),
     twice |-> seen.twice \cup (IF places(label) \subseteq seen.once THEN places(label) ELSE {})]
Sift(labels) == FoldLeft(add, [once |-> {}, twice |-> {}], SelectSeq(labels, may_pay))

LOCAL Tally(kept) == {<<l, Times(kept, l)>> : l \in ToSet(kept)}
LOCAL SeenTwice(edges, seen) == SelectSeq(edges, LAMBDA l : may_pay(l) /\ places(l) \subseteq seen.twice)
\* EdgeCount: one walk sifts the labels that occur once, one counts the others.
EdgeCount(keys) == Tally(SeenTwice(Edges(keys), Sift(Edges(keys))))

\* The count over keys in memory.
Counted(keys) == Tally(SelectSeq(Edges(keys), may_pay))

\* The most used first, ties in byte order.
MostUsed(S) ==
    LET Before(a, b) == a[2] > b[2] \/ (a[2] = b[2] /\ Less(a[1], b[1]))
    IN  Told([i \in 1 .. Cardinality(S) |-> CHOOSE k \in S : Cardinality({j \in S : Before(j, k)}) = i - 1])

admitted(counts, phrases, room) ==
    LET kept == MostUsed({c \in counts : pays(Len(c[1]), c[2]) /\ c[1] \notin phrases})
    IN  [i \in 1 .. Min({Len(kept), room}) |-> kept[i][1]]

-------------------------------------------------------------------------------
(* The parse of the blocks. *)

\* The cheapest coding of a suffix, the longest name first: its units in turn, a byte where none fits.
Spelling(suffix, names) ==
    LET Fits(at) == {l \in names : SubSeq(suffix, at + 1, Min({at + Len(l), Len(suffix)})) = l}
        to[at \in 0 .. Len(suffix)] ==
            IF at = Len(suffix) THEN <<>>
            ELSE LET l == IF Fits(at) = {} THEN <<suffix[at + 1]>>
                          ELSE CHOOSE l \in Fits(at) : \A k \in Fits(at) : Len(k) <= Len(l)
                 IN  <<l>> \o to[at + Len(l)]
    IN  to[0]

LOCAL PicksIn(units, names) ==
    {<<FoldLeft(+, 0, [k \in 1 .. u - 1 |-> Len(units[k])]), units[u]>> : u \in {u \in DOMAIN units : units[u] \in names}}
\* phrase::picks: where a parse names a phrase or label.
picks(suffix, names) == PicksIn(Spelling(suffix, names), names)

\* One block: the picks of each entry and the keys of its scope that read them.
ParseBlock(keys, micro, names) ==
    LET Shares(i) == lcp(keys[i - 1], keys[i])
        Restart(i) == (i - 1) % micro = 0
        shared(i) == IF Restart(i) THEN Min({Shares(k) : k \in i + 1 - micro .. i}) ELSE Shares(i)
        scope(i) == IF Restart(i) THEN Len(keys) ELSE Min({((i - 1) \div micro + 1) * micro, Len(keys)})
        reads(i, depth) ==
            1 + Cardinality({k \in i + 1 .. scope(i) : \A m \in i + 1 .. k : Shares(m) > depth})
    IN  UNION {{<<p[2], i, p[1], reads(i, shared(i) + p[1])>> : p \in picks(Past(keys[i], shared(i)), names)} :
                    i \in 2 .. Len(keys)}

\* Every block's, tagged with it.
Tagged(b, uses) == {<<b>> \o u : u \in uses}

\* A range of blocks a thread.
usage(keys, block, micro, names, threads) ==
    LET blocks == DivCeil(Len(keys), block)
    IN  UNION {UNION {Tagged(b, ParseBlock(Chunk(keys, block, b), micro, names)) :
                          b \in (blocks * t) \div threads .. (blocks * (t + 1)) \div threads - 1} :
                   t \in 0 .. threads - 1}

LOCAL WithLastBlock(w, b, micro, names) == w.uses \cup Tagged(b, ParseBlock(w.buffer, micro, names))
LOCAL Streamed(keys, block, micro, names) ==
    LET at[i \in 0 .. Len(keys)] ==
            IF i = 0 THEN [buffer |-> <<>>, uses |-> {}]
            ELSE LET w == at[i - 1]
                 IN  IF (i - 1) % block = 0 /\ i > 1
                     THEN [buffer |-> <<keys[i]>>, uses |-> WithLastBlock(w, (i - 1) \div block - 1, micro, names)]
                     ELSE [w EXCEPT !.buffer = Append(@, keys[i])]
    IN  at[Len(keys)]
\* A block at a time off the stream: a block is parsed when the next opens, the last at the end.
usage_of_stream(keys, block, micro, names) ==
    IF keys = <<>> THEN {}
    ELSE WithLastBlock(Streamed(keys, block, micro, names), (Len(keys) - 1) \div block, micro, names)

-------------------------------------------------------------------------------
(* The labels kept. *)

NoLabels == [flat |-> <<>>, nested |-> <<>>]

\* A nested label as stored, reversed, and as spelled again.
Stored(l) == Reverse(l)
spelled(s) == Reverse(s)

earns_flat(len, reads) == len <= PhraseMax /\ reads >= FlatReads

LOCAL InOrderSpelled(rest) == [i \in DOMAIN rest |-> spelled(rest[i])]
LOCAL Split(used, Flat(_)) ==
    [flat |-> Told([i \in DOMAIN SelectSeq(used, Flat) |-> SelectSeq(used, Flat)[i][1]]),
     nested |-> InOrderSpelled(InOrder({Stored(used[i][1]) : i \in {i \in DOMAIN used : ~Flat(used[i])}}))]
selected_from(kept, uses) ==
    LET Picks(l) == {u \in uses : u[2] = l}
        Reads(l) == MapThenSumSet(LAMBDA u : u[5], Picks(l))
    IN  Split(MostUsed({<<l, Cardinality(Picks(l))>> :
                           l \in {l \in ToSet(kept) : pays(Len(l), Cardinality(Picks(l)))}}),
              LAMBDA e : earns_flat(Len(e[1]), Reads(e[1])))

LOCAL KeptOf(kept, uses) == IF kept = <<>> THEN NoLabels ELSE selected_from(kept, uses)
LOCAL SelectKept(kept, keys, phrases, block, micro, threads) ==
    KeptOf(kept, usage(keys, block, micro, phrases \cup ToSet(kept), threads))
\* select: over keys in memory.
select(keys, phrases, room, block, micro, threads) ==
    IF Len(keys) < 2 \/ room = 0 THEN NoLabels
    ELSE SelectKept(admitted(Counted(keys), phrases, room), keys, phrases, block, micro, threads)

LOCAL SelectStreamed(kept, keys, phrases, block, micro) ==
    KeptOf(kept, usage_of_stream(keys, block, micro, phrases \cup ToSet(kept)))
\* EdgeCount::select: over a stream already walked twice.
select_stream(keys, phrases, room, block, micro) ==
    IF room = 0 THEN NoLabels
    ELSE SelectStreamed(admitted(EdgeCount(keys), phrases, room), keys, phrases, block, micro)

-------------------------------------------------------------------------------
(* What the module promises of a case [keys, phrases, room, block, micro, threads]. *)

\* The edges by the definition: every node but the root closes one, from the node above it.
EdgesByDefinition(keys) ==
    LET K == ToSet(keys)
        Node(p) == p \in K \/ p = <<>>
                   \/ \E a, b \in K : lcp(a, b) = Len(p) /\ IsPrefix(p, a) /\ IsPrefix(p, b)
        nodes == {p \in UNION {{SubSeq(k, 1, i) : i \in 0 .. Len(k)} : k \in K} : Node(p)}
        Up(p) == Max({Len(q) : q \in {q \in nodes : IsStrictPrefix(q, p)}})
    IN  {<<p, Past(p, Up(p))>> : p \in nodes \ {<<>>}}

LOCAL Same(edges, defined) ==
    \A l \in ToSet(edges) \cup {e[2] : e \in defined} :
        Times(edges, l) = Cardinality({e \in defined : e[2] = l})
EdgesOnce(c) == Same(Edges(c.keys), EdgesByDefinition(c.keys))

StreamSelectsTheSame(c) ==
    select(c.keys, c.phrases, c.room, c.block, c.micro, c.threads)
        = select_stream(c.keys, c.phrases, c.room, c.block, c.micro)

-------------------------------------------------------------------------------
(* The build: keys, shards and blocks. *)

CONSTANTS
    TrainPieces, TrainRun,   \* pieces of a shard's sample, keys of a run of it
    ShardKeys,               \* keys of a shard
    MicroFrom, MicroTo,      \* the sizes a microblock is looked for in: 16 and 32 in the code
    MaxBlock,
    MineMin,                 \* keys from which phrases are mined
    Margin,                  \* per cent a tier must save
    IdsMax,                  \* ids of phrases and labels
    High,                    \* bytes outside ASCII
    TableShare,              \* of what a character code saves, its table may be one in so many: 20
    MaxShared                \* longest prefix the heads are known to share, u16::MAX

Cat(ss) == FlattenSeq(ss)
Increasing(S) ==
    Told([i \in 1 .. Cardinality(S) |-> CHOOSE x \in S : Cardinality({y \in S : y < x}) = i - 1])
Size(keys, threads) == Max({1, DivCeil(Len(keys), threads)})
Isqrt(n) == CHOOSE r \in 0 .. n : r * r <= n /\ (r + 1) * (r + 1) > n

-------------------------------------------------------------------------------
(* The keys in order, each once. *)

Chunks(keys, size) == Told([c \in 1 .. DivCeil(Len(keys), size) |-> Chunk(keys, size, c - 1)])

in_ranges(keys, threads) ==
    IF threads <= 1 \/ Len(keys) <= 1 THEN <<keys>> ELSE Chunks(keys, DivCeil(Len(keys), threads))

Ascends(range) == \A i \in 2 .. Len(range) : Less(range[i - 1], range[i])

\* Fault: the ranges are not compared with one another.
strictly_ascendingApart(keys, threads) ==
    LET ranges == in_ranges(keys, threads) IN \A r \in DOMAIN ranges : Ascends(ranges[r])

\* Each range on a thread, and each range's last key against the next one's first.
strictly_ascending(keys, threads) ==
    LET ranges == in_ranges(keys, threads)
        size == Size(keys, Max({threads, 1}))
    IN  /\ \A r \in DOMAIN ranges : Ascends(ranges[r])
        /\ \A i \in 1 .. Len(keys) - 1 : i % size = 0 => Less(keys[i], keys[i + 1])

Swapped(s, i, j) == [s EXCEPT ![i] = s[j], ![j] = s[i]]

\* In place: a permutation of the keys where one is below its predecessor.
dedup_ascending(keys) ==
    LET at[i \in 0 .. Len(keys)] ==
            IF i = 0 THEN [ok |-> TRUE, keys |-> keys, kept |-> 0]
            ELSE LET w == at[i - 1]
                 IN  IF ~w.ok \/ (w.kept > 0 /\ w.keys[i] = w.keys[w.kept]) THEN w
                     ELSE IF w.kept > 0 /\ Less(w.keys[i], w.keys[w.kept]) THEN [w EXCEPT !.ok = FALSE]
                     ELSE [w EXCEPT !.kept = @ + 1, !.keys = Swapped(@, w.kept + 1, i)]
        w == at[Len(keys)]
    IN  [ok |-> w.ok, keys |-> IF w.ok THEN SubSeq(w.keys, 1, w.kept) ELSE w.keys]

distinct_ascending(keys, threads) ==
    IF strictly_ascending(keys, threads) THEN [ok |-> TRUE, keys |-> keys] ELSE dedup_ascending(keys)

\* A bag of keys in order.
Sorted(keys) ==
    LET distinct == InOrder(ToSet(keys))
    IN  Cat([i \in DOMAIN distinct |-> [j \in 1 .. Times(keys, distinct[i]) |-> distinct[i]]])

\* merge_into: the least of the parts' next keys, the first part's of equals, as many as the parts hold.
merge_into(parts) ==
    LET n == Len(Cat(parts))
        at[i \in 0 .. n] ==
            IF i = 0 THEN [out |-> <<>>, next |-> [p \in DOMAIN parts |-> 1]]
            ELSE LET w == at[i - 1]
                     open == {p \in DOMAIN parts : w.next[p] <= Len(parts[p])}
                     least == CHOOSE p \in open : \A q \in open :
                                  ~Less(parts[q][w.next[q]], parts[p][w.next[p]])
                                  /\ (parts[q][w.next[q]] = parts[p][w.next[p]] => p <= q)
                 IN  [out |-> Append(w.out, parts[least][w.next[least]]),
                      next |-> [w.next EXCEPT ![least] = @ + 1]]
    IN  at[n].out

LOCAL CutIn(run, j, threads, sample) ==
    IF j = 0 THEN 0 ELSE IF j = threads THEN Len(run)
    ELSE Cardinality({i \in DOMAIN run : Less(run[i], sample[(j * Len(sample)) \div threads + 1])})
LOCAL PartOf(runs, j, threads, sample) ==
    [r \in DOMAIN runs |-> SubSeq(runs[r], CutIn(runs[r], j - 1, threads, sample) + 1, CutIn(runs[r], j, threads, sample))]
LOCAL Merged(runs, threads, sample) ==
    Cat([j \in 1 .. threads |-> merge_into(PartOf(runs, j, threads, sample))])
LOCAL AtSplitters(runs, threads) ==
    Merged(runs, threads,
           Sorted(Cat([r \in DOMAIN runs |->
                       [i \in 1 .. threads |-> runs[r][((i - 1) * Len(runs[r])) \div threads + 1]]])))
LOCAL SortedRuns(ranges) == Told([c \in DOMAIN ranges |-> Sorted(ranges[c])])
LOCAL SortWith(keys, threads) ==
    IF threads = 1 THEN Sorted(keys) ELSE AtSplitters(SortedRuns(Chunks(keys, Size(keys, threads))), threads)
\* A range a thread sorted, cut at splitters drawn from every range, each part merged by a thread.
sort_on(keys, wanted) == SortWith(keys, Max({1, Min({wanted, Isqrt(Len(keys))})}))

LOCAL SortUnless(checked, threads) ==
    IF checked.ok THEN checked.keys ELSE dedup_ascending(sort_on(checked.keys, threads)).keys
sort_distinct(keys, threads) == SortUnless(distinct_ascending(keys, threads), threads)

-------------------------------------------------------------------------------
(* Layout and character code. *)

micro_for(block) ==
    LET from == Min({MicroTo, Max({MicroFrom, Isqrt(block)})})
        Divides(S) == {d \in S : block % d = 0}
    IN  IF Divides(from .. MicroTo) # {} THEN Min(Divides(from .. MicroTo))
        ELSE IF Divides(2 .. MicroTo) # {} THEN Max(Divides(2 .. MicroTo))
        ELSE block

\* DictLayout::sizes: micro is 0 where none was asked for.
sizes(layout) ==
    [block |-> layout.block, micro |-> IF layout.micro = 0 THEN micro_for(layout.block) ELSE layout.micro]
Sized(layout) ==
    layout.block \in 1 .. MaxBlock /\ (layout.micro # 0 => layout.block % layout.micro = 0)

shard_blocks_for(block) == Max({1, ShardKeys \div block})

worth_counting(bytes, high) == 2 * high > bytes
HighBytes(key) == Cardinality({i \in DOMAIN key : key[i] \in High})
Sum(ss) == FoldLeft(+, 0, ss)
NoCode == <<>>

\* Over(F, keys): F of every key, summed.
Over(F(_), keys) == Sum([i \in DOMAIN keys |-> F(keys[i])])

\* Tally: what the keys weigh in UTF-8, two bytes a character outside ASCII, and the characters they hold.
Tallied(keys) ==
    [bytes |-> Over(Len, keys) + Over(HighBytes, keys), chars |-> Over(Len, keys),
     alphabet |-> UNION {ToSet(keys[i]) : i \in DOMAIN keys}]
merge(tallies) ==
    [bytes |-> Sum([r \in DOMAIN tallies |-> tallies[r].bytes]),
     chars |-> Sum([r \in DOMAIN tallies |-> tallies[r].chars]),
     alphabet |-> UNION {tallies[r].alphabet : r \in DOMAIN tallies}]

\* Under a code a character is a byte, and its table a byte a character: the keys have to come out a
\* tenth smaller, table included, and a share of what is saved has to cover the table.
Pays(tally) ==
    LET table == Cardinality(tally.alphabet)
    IN  /\ (tally.chars + table) * 10 <= tally.bytes * 9
        /\ table * TableShare <= tally.bytes - tally.chars

\* The code of a tally is its characters in order, or there is none.
choose(tally) == IF tally.alphabet # {} /\ Pays(tally) THEN Increasing(tally.alphabet) ELSE NoCode

\* Counted a range a thread.
choose_code(keys, threads) ==
    LET ranges == in_ranges(keys, threads)
        Ranges(F(_)) == Sum([r \in DOMAIN ranges |-> Over(F, ranges[r])])
    IN  IF ~ worth_counting(Ranges(Len), Ranges(HighBytes)) THEN NoCode
        ELSE choose(merge([r \in DOMAIN ranges |-> Tallied(ranges[r])]))

spell(code, key) ==
    IF code = NoCode THEN key
    ELSE Told([i \in DOMAIN key |-> CHOOSE c \in DOMAIN code : code[c] = key[i]])
Spelt(code, keys) == Told([i \in DOMAIN keys |-> spell(code, keys[i])])

\* The prefix the first and the last head share, and so all of them.
common_head(heads) ==
    IF heads = <<>> THEN 0 ELSE Min({MaxShared, lcp(heads[1], Last(heads))})

-------------------------------------------------------------------------------
(* Training. *)

train(sample) == {s \in ToSet(sample) : Len(s) = 2}
Trained(samples) == Told([s \in DOMAIN samples |-> train(samples[s])])

\* mine_phrases: spans of the samples that repeat.
NoPhrases == [flat |-> {}, labels |-> {}]
Names(phrases) == phrases.flat \cup phrases.labels
mine_phrases(samples, n) ==
    IF n < MineMin THEN NoPhrases
    ELSE [NoPhrases EXCEPT !.flat =
            {s \in ToSet(Cat(samples)) : Len(s) >= 2 /\ Times(Cat(samples), s) >= 2}]

\* labelled, labelled_from: the labels selected past the phrases, or none.
Labelled(phrases, got) ==
    [flat |-> phrases.flat \cup ToSet(got.flat), labels |-> ToSet(got.nested)]

\* A sample of each shard's pieces: runs of TrainRun keys a stride apart, each key past the one it is
\* coded against; `dense` is the stride, 0 to choose it.
build_pieces(keys, block, micro, dense) ==
    LET n == Len(keys)
        shard == shard_blocks_for(block)
        span == shard * block
        start(s) == s * span
        end(s) == Min({(s + 1) * span, n})
        step(s) == IF dense > 0 THEN dense ELSE Max({1, (end(s) - start(s)) \div TrainPieces})
        taken(s) == {i \in start(s) .. end(s) - 1 :
                        (i - start(s)) % (TrainRun * step(s)) < TrainRun /\ i % block # 0}
        against(i) == keys[IF (i % block) % micro = 0 THEN i - micro + 1 ELSE i]
        Piece(i) == Past(keys[i + 1], lcp(against(i), keys[i + 1]))
        Pieces(s) == LET order == Increasing(taken(s)) IN Told([k \in DOMAIN order |-> Piece(order[k])])
    IN  Told([s \in 1 .. Max({1, DivCeil(DivCeil(n, block), shard)}) |-> Pieces(s - 1)])

\* write_sorted's second pass: the same samples off the stream, the restart and the last key carried.
StreamPieces(keys, block, micro) ==
    LET n == Len(keys)
        shard == shard_blocks_for(block)
        span == shard * block
        Stride(i) == Max({1, Min({n - i, span}) \div TrainPieces})
        at[m \in 0 .. n] ==
            IF m = 0 THEN [step |-> Max({1, Min({span, n}) \div TrainPieces}), restart |-> <<>>, prev |-> <<>>,
                           spans |-> [s \in 1 .. Max({1, DivCeil(DivCeil(n, block), shard)}) |-> <<>>]]
            ELSE LET w == at[m - 1]
                     i == m - 1
                     off == i % block
                     key == keys[m]
                     step == IF off = 0 /\ i % span = 0 THEN Stride(i) ELSE w.step
                     opens == off % micro = 0
                     take == ((i % span) \div TrainRun) % step = 0 /\ off # 0
                     piece == Past(key, lcp(IF opens THEN w.restart ELSE w.prev, key))
                 IN  [step |-> step, prev |-> key, restart |-> IF opens THEN key ELSE w.restart,
                      spans |-> IF take THEN [w.spans EXCEPT ![i \div span + 1] = Append(@, piece)] ELSE w.spans]
    IN  at[n].spans
=================================================================================
