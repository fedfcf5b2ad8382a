------------------------------- MODULE DictEncode -------------------------------
(***************************************************************************)
(* Encoding a dictionary index (src/src/dict_index/encode.rs, build.rs):   *)
(* a shard's blocks collected, its cheapest codec settled, its data and    *)
(* starts written; from_vocabulary over ranges of shards on threads, and   *)
(* Frame::encode off a key stream, which must write the same index.        *)
(***************************************************************************)
EXTENDS DictBuild

-------------------------------------------------------------------------------
(* A shard collected: a block's runs, the restart run first. *)

push(prev, key, table) ==
    LET l == lcp(prev, key) IN [l |-> l, raw |-> Past(key, l), coded |-> Spelling(Past(key, l), table)]

\* Each microblock's first key past the first is coded against the one before; then its entries.
collect_block(keys, micro, table) ==
    LET micros == Chunks(keys, micro)
        Entries(m) == Told([i \in 1 .. Len(m) - 1 |-> push(m[i], m[i + 1], table)])
    IN  <<Told([j \in 1 .. Len(micros) - 1 |-> push(micros[j][1], micros[j + 1][1], table)])>>
            \o [j \in DOMAIN micros |-> Entries(micros[j])]

Symbols(table) == [kind |-> "symbols", table |-> table]
Packed == [kind |-> "packed", table |-> {}]
Tiered(table) == [kind |-> "tiered", table |-> table]

\* An entry's units under a codec.
UnitsOf(codec, names, e) ==
    CASE codec.kind = "symbols" -> e.coded
      [] codec.kind = "packed" -> [i \in DOMAIN e.raw |-> <<e.raw[i]>>]
      [] codec.kind = "tiered" -> Spelling(e.raw, names \cup codec.table)

\* The pairs a shard's restart runs and its microblocks hold, and what they cost under a codec.
Pairs(codec, names, run) == [i \in DOMAIN run |-> <<run[i].l, Len(UnitsOf(codec, names, run[i]))>>]
HeaderCodes(collected, codec, names) ==
    LET Of(runs) == UNION {ToSet(Pairs(codec, names, runs[r])) : r \in DOMAIN runs}
        blocks == DOMAIN collected
    IN  [micro |-> UNION {Of(Tail(collected[b])) : b \in blocks},
         restart |-> UNION {Of(<<Head(collected[b])>>) : b \in blocks}]

\* The codes of a byte packed: one where the shard's suffixes hold no more than two, else two.
Packing(collected) ==
    LET bytes == UNION {UNION {UNION {ToSet(collected[b][r][i].raw) : i \in DOMAIN collected[b][r]} :
                        r \in DOMAIN collected[b]} : b \in DOMAIN collected}
    IN  IF Cardinality(bytes) <= 2 THEN 1 ELSE 2

price(collected, codec, names) ==
    LET codes == HeaderCodes(collected, codec, names)
        UnitsIn(run) == Sum([i \in DOMAIN run |-> Len(UnitsOf(codec, names, run[i]))])
        RunCost(run) == IF codec.kind = "packed" THEN DivCeil(UnitsIn(run) * Packing(collected), 2)
                        ELSE UnitsIn(run)
    IN  Cardinality(codes.micro) + Cardinality(codes.restart)
          + Sum([b \in DOMAIN collected |->
                    Sum([r \in DOMAIN collected[b] |-> RunCost(collected[b][r]) + Len(collected[b][r])])])

LOCAL Tier(collected, table, names, flat) ==
    IF /\ names # {} /\ Cat(Cat(collected)) # <<>>
       /\ price(collected, Tiered(table), names) * 100 < price(collected, flat, names) * (100 - Margin)
    THEN Tiered(table) ELSE flat
LOCAL Flat_codec(collected, table, names) ==
    IF price(collected, Packed, names) < price(collected, Symbols(table), names) THEN Packed ELSE Symbols(table)
LOCAL SettledOn(collected, best, names) == [codec |-> best, codes |-> HeaderCodes(collected, best, names)]
LOCAL SettleNames(collected, table, names) ==
    SettledOn(collected, Tier(collected, table, names, Flat_codec(collected, table, names)), names)
\* The symbols, or the packing where it is cheaper, or the tier where it saves a margin of the best.
settle(collected, table, phrases) == SettleNames(collected, table, Names(phrases))

-------------------------------------------------------------------------------
(* A shard written. *)

\* write_run: a run of no entries is no bytes.
write_run(codec, names, run) ==
    Cat([i \in DOMAIN run |->
            LET units == UnitsOf(codec, names, run[i])
            IN  <<<<run[i].l, Len(units)>>>> \o [u \in DOMAIN units |-> <<units[u]>>]])

LOCAL Laid(data, starts) ==
    [data   |-> Cat(Told([b \in DOMAIN data |-> Cat(data[b])])),
     blocks |-> starts,
     micros |-> Cat([b \in DOMAIN data |->
                    [j \in 1 .. Len(data[b]) - 1 |-> starts[b] + Len(Cat(SubSeq(data[b], 1, j)))]])]
LOCAL LaidAt(at, data) ==
    Laid(data, Told([b \in DOMAIN data |-> at + Sum([c \in 1 .. b - 1 |-> Len(Cat(data[c]))])]))
\* The blocks' data, each with where it and each microblock of it starts.
Write(at, collected, codec, names) ==
    LaidAt(at, Told([b \in DOMAIN collected |->
                   Told([r \in DOMAIN collected[b] |-> write_run(codec, names, collected[b][r])])]))

rebase_micros(micros, blocks, per) ==
    Told([i \in DOMAIN micros |-> micros[i] - blocks[(i - 1) \div per + 1]])

\* Ends of heads laid end to end.
Ends(heads) == Told([b \in DOMAIN heads |-> Sum([c \in 1 .. b |-> Len(heads[c])])])

\* The dictionary is kept if some shard bought it.
Kept(codecs, phrases) ==
    IF \E s \in DOMAIN codecs : codecs[s].kind = "tiered" THEN phrases ELSE NoPhrases

-------------------------------------------------------------------------------
(* From keys in memory. *)

LOCAL ShardWith(at, chunks, collected, settled, names) ==
    Write(at, collected, settled.codec, names) @@ settled @@ [heads |-> [b \in DOMAIN chunks |-> chunks[b][1]]]
LOCAL ShardOf(at, chunks, collected, table, phrases) ==
    ShardWith(at, chunks, collected, settle(collected, table, phrases), Names(phrases))
LOCAL ShardCut(at, chunks, micro, table, phrases) ==
    ShardOf(at, chunks, Told([b \in DOMAIN chunks |-> collect_block(chunks[b], micro, table)]), table, phrases)
\* A shard of a range, its data at `at` of the range's.
EncodeShard(span, at, block, micro, table, phrases) == ShardCut(at, Chunks(span, block), micro, table, phrases)

LOCAL NoPart == [heads |-> <<>>, blocks |-> <<>>, micros |-> <<>>, data |-> <<>>, codes |-> <<>>, codecs |-> <<>>]
LOCAL With(part, got) ==
    [heads |-> part.heads \o got.heads, blocks |-> part.blocks \o got.blocks,
     micros |-> part.micros \o got.micros, data |-> part.data \o got.data,
     codes |-> Append(part.codes, got.codes), codecs |-> Append(part.codecs, got.codec)]
LOCAL WithShard(part, span, block, micro, table, phrases) ==
    With(part, EncodeShard(span, Len(part.data), block, micro, table, phrases))
LOCAL RangeOver(spans, first, block, micro, tables, phrases) ==
    LET at[s \in 0 .. Len(spans)] ==
            IF s = 0 THEN NoPart
            ELSE WithShard(at[s - 1], spans[s], block, micro, tables[Min({first + s, Len(tables)})], phrases)
    IN  at[Len(spans)]
\* A range of whole shards; its starts count from the range's own.
encode_range(keys, block, micro, tables, phrases, shard, first_block) ==
    RangeOver(Chunks(keys, shard * block), first_block \div shard, block, micro, tables, phrases)

\* A range covers whole shards.
RangeOfKeys(span, shard, nb, threads, block) == Max({1, span * DivCeil(DivCeil(nb, threads), shard)})

\* An index with its dictionary and its routing prefix, the microblock starts counted from their block's.
Index(n, block, micro, heads, blocks, micros, data, codecs, codes, phrases, code) ==
    LET per == DivCeil(block, micro)
    IN  [n |-> n, block |-> block, micro |-> micro, heads |-> heads, ends |-> Ends(heads),
         g |-> common_head(heads), blocks |-> blocks,
         micros |-> IF per = 1 THEN <<>> ELSE rebase_micros(micros, blocks, per),
         data |-> data, codecs |-> codecs, codes |-> codes, dict |-> Kept(codecs, phrases), code |-> code]

LOCAL Moved(s, by) == Told([i \in DOMAIN s |-> s[i] + by])
LOCAL PartsLaid(parts, at, n, block, micro, tables, phrases, code) ==
    Index(n, block, micro, Cat(Told([c \in DOMAIN parts |-> parts[c].heads])),
          Cat(Told([c \in DOMAIN parts |-> Moved(parts[c].blocks, at[c])])),
          Cat(Told([c \in DOMAIN parts |-> Moved(parts[c].micros, at[c])])),
          Cat(Told([c \in DOMAIN parts |-> parts[c].data])),
          IF n = 0 THEN <<Symbols(tables[1])>> ELSE Cat(Told([c \in DOMAIN parts |-> parts[c].codecs])),
          IF n = 0 THEN <<[micro |-> {}, restart |-> {}]>> ELSE Cat(Told([c \in DOMAIN parts |-> parts[c].codes])),
          phrases, code)
LOCAL PartsEnded(parts, n, block, micro, tables, phrases, code) ==
    PartsLaid(parts, Told([c \in DOMAIN parts |-> Sum([d \in 1 .. c - 1 |-> Len(parts[d].data)])]),
              n, block, micro, tables, phrases, code)
LOCAL InRanges(ranges, run, shard, n, block, micro, tables, phrases, code) ==
    PartsEnded(Told([c \in DOMAIN ranges |->
                   encode_range(ranges[c], block, micro, tables, phrases, shard, ((c - 1) * run) \div block)]),
               n, block, micro, tables, phrases, code)
LOCAL InRuns(keys, run, shard, block, micro, tables, phrases, code) ==
    InRanges(Chunks(keys, run), run, shard, Len(keys), block, micro, tables, phrases, code)
\* The ranges encoded on threads and their parts laid end to end.
from_vocabulary(keys, block, micro, threads, tables, phrases, code) ==
    LET shard == shard_blocks_for(block)
    IN  InRuns(keys, RangeOfKeys(shard * block, shard, DivCeil(Len(keys), block), threads, block),
               shard, block, micro, tables, phrases, code)

serialized_len(idx) ==
    Len(Cat(idx.heads)) + Len(idx.ends) + Len(idx.blocks) + Len(idx.micros) + Len(idx.data)
      + Sum([s \in DOMAIN idx.codecs |-> 1 + Sum([t \in 1 .. Cardinality(idx.codecs[s].table) |-> 2])])
      + Sum([s \in DOMAIN idx.codes |-> Cardinality(idx.codes[s].micro) + Cardinality(idx.codes[s].restart)])
      + MapThenSumSet(LAMBDA l : Len(l) + 2, idx.dict.flat) + MapThenSumSet(LAMBDA l : Len(l) + 1, idx.dict.labels)

\* A labelled index is kept where it names a label, flat or nested, and is the smaller.
Smaller(labelled, plain, mined) ==
    /\ labelled.dict.labels # {} \/ Cardinality(labelled.dict.flat) > mined
    /\ serialized_len(labelled) < serialized_len(plain)

Chosen(plain, labelled, phrases) ==
    IF Smaller(labelled, plain, Cardinality(phrases.flat)) THEN labelled ELSE plain

\* The dictionaries an index may be built over: the plain one, and the one with labels where any are.
LOCAL Dictionaries(phrases, got) == {phrases} \cup (IF got = NoLabels THEN {} ELSE {Labelled(phrases, got)})
LOCAL OfDictionaries(built, phrases, got) ==
    IF got = NoLabels THEN built[phrases] ELSE Chosen(built[phrases], built[Labelled(phrases, got)], phrases)

LOCAL WithLabels(x, got, lay, threads) ==
    OfDictionaries([p \in Dictionaries(x.phrases, got) |->
                       from_vocabulary(x.spelt, lay.block, lay.micro, threads, x.tables, p, x.code)] @@ <<>>,
                   x.phrases, got)

LOCAL LabelsOf(x, flat, lay, threads) ==
    select(x.spelt, flat, IdsMax - Cardinality(flat), lay.block, lay.micro, threads)
LOCAL BuiltOn(x, layout, lay, threads) ==
    WithLabels(x, IF layout.labels /\ x.code = NoCode THEN LabelsOf(x, x.phrases.flat, lay, threads) ELSE NoLabels,
               lay, threads)

\* What a build learns of the keys before it encodes them.
LOCAL Learned(spelt, pieces, code) ==
    [spelt |-> spelt, tables |-> Trained(pieces), phrases |-> mine_phrases(pieces, Len(spelt)), code |-> code]
LOCAL BuiltSpelt(spelt, code, layout, lay, threads) ==
    BuiltOn(Learned(spelt, build_pieces(spelt, lay.block, lay.micro, 0), code), layout, lay, threads)
LOCAL BuiltInCode(keys, code, layout, threads) ==
    BuiltSpelt(Spelt(code, keys), code, layout, sizes(layout), threads)
LOCAL BuiltOf(keys, layout, threads) == BuiltInCode(keys, choose_code(keys, threads), layout, threads)
\* build_with, build: over items in any order.
build_with(items, layout, threads) == BuiltOf(sort_distinct(items, threads), layout, threads)

-------------------------------------------------------------------------------
(* From a stream of sorted keys. *)

Opened(table) ==
    [i |-> 0, keys |-> <<>>, collected |-> <<>>, shard |-> 1, table |-> table,
     blocks |-> <<>>, micros |-> <<>>, data |-> <<>>, codecs |-> <<>>, codes |-> <<>>]

\* The buffered block is collected.
Collect(st, micro) ==
    [st EXCEPT !.collected = Append(@, collect_block(st.keys, micro, st.table)), !.keys = <<>>]

LOCAL SettledInto(st, settled, got) ==
    [st EXCEPT !.blocks = @ \o got.blocks, !.micros = @ \o got.micros, !.data = @ \o got.data,
               !.codecs = Append(@, settled.codec), !.codes = Append(@, settled.codes),
               !.collected = <<>>]
LOCAL SettledWith(st, settled, names) ==
    SettledInto(st, settled, Write(Len(st.data), st.collected, settled.codec, names))
\* The collected shard is settled with its table and written.
Settle(st, tables, phrases) == SettledWith(st, settle(st.collected, tables[st.shard], phrases), Names(phrases))

LOCAL CloseShard(st, span, tables, phrases) ==
    IF st.i % span = 0 /\ st.i > 0
    THEN [Settle(st, tables, phrases) EXCEPT !.shard = st.i \div span + 1, !.table = tables[st.i \div span + 1]]
    ELSE st
LOCAL Buffer(st, key) == [st EXCEPT !.keys = Append(@, key), !.i = @ + 1]
\* A key: the block before it collected, the shard before it settled, and then it buffered.
Take(st, key, block, span, micro, tables, phrases) ==
    Buffer(CloseShard(IF st.i % block = 0 /\ st.i > 0 THEN Collect(st, micro) ELSE st, span, tables, phrases), key)

LOCAL Closed(st, n, heads, block, micro, phrases, code) ==
    Index(n, block, micro, heads, st.blocks, st.micros, st.data, st.codecs, st.codes, phrases, code)
LOCAL LastShard(st, micro, tables, phrases) ==
    Settle(IF st.keys = <<>> THEN st ELSE Collect(st, micro), tables, phrases)
LOCAL TakeAll(keys, block, span, micro, tables, phrases) ==
    LET at[i \in 0 .. Len(keys)] ==
            IF i = 0 THEN Opened(tables[1]) ELSE Take(at[i - 1], keys[i], block, span, micro, tables, phrases)
    IN  at[Len(keys)]
\* Frame::encode: the last block and shard are closed after the walk.
Encode(keys, n, heads, block, micro, tables, phrases, code) ==
    Closed(LastShard(TakeAll(keys, block, shard_blocks_for(block) * block, micro, tables, phrases),
                     micro, tables, phrases),
           n, heads, block, micro, phrases, code)

LOCAL StreamLabelled(x, heads, got, lay) ==
    OfDictionaries([p \in Dictionaries(x.phrases, got) |->
                       Encode(x.spelt, Len(x.spelt), heads, lay.block, lay.micro, x.tables, p, x.code)] @@ <<>>,
                   x.phrases, got)

LOCAL StreamLabels(x, flat, lay) ==
    select_stream(x.spelt, flat, IdsMax - Cardinality(flat), lay.block, lay.micro)
LOCAL StreamOn(x, heads, layout, lay) ==
    StreamLabelled(x, heads,
        IF layout.labels /\ x.code = NoCode THEN StreamLabels(x, x.phrases.flat, lay) ELSE NoLabels, lay)

LOCAL StreamSpelt(keys, spelt, code, layout, lay) ==
    StreamOn(Learned(spelt, StreamPieces(spelt, lay.block, lay.micro), code),
             Told([b \in 1 .. DivCeil(Len(keys), lay.block) |-> spell(code, keys[(b - 1) * lay.block + 1])]),
             layout, lay)
LOCAL StreamInCode(keys, code, layout) == StreamSpelt(keys, Spelt(code, keys), code, layout, sizes(layout))
\* build_to_file_runs, write_sorted: `keys` is the sorted stream of distinct keys its runs merge to.
write_sorted(keys, layout) ==
    StreamInCode(keys,
        IF worth_counting(Over(Len, keys), Over(HighBytes, keys)) THEN choose(Tallied(keys)) ELSE NoCode, layout)

-------------------------------------------------------------------------------
(* What is promised of a case [items, layout, threads]. *)

SortsOnAnyThreads(c) == sort_distinct(c.items, c.threads) = InOrder(ToSet(c.items))

\* The same index from memory on any threads, on one, and off the stream.
OneIndex(c) ==
    /\ build_with(c.items, c.layout, c.threads) = write_sorted(InOrder(ToSet(c.items)), c.layout)
    /\ build_pieces(InOrder(ToSet(c.items)), sizes(c.layout).block, sizes(c.layout).micro, 0)
         = StreamPieces(InOrder(ToSet(c.items)), sizes(c.layout).block, sizes(c.layout).micro)
=================================================================================
