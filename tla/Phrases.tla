-------------------------------- MODULE Phrases ---------------------------------
(***************************************************************************)
(* The phrases a blob shares (src/src/phrase.rs): their dictionary, the    *)
(* codes a shard spends to name them, the trie a parse walks, the cheapest *)
(* parse, and the split a shard settles on; the decoder and the comparison *)
(* over symbols, phrases and labels (dict_index/codec.rs); and the miner:  *)
(* rounds of parsing the shards' samples and counting windows of tokens,   *)
(* in pools of shards and partitions of spans, merged on threads.  A span  *)
(* is its own key: that two spans share a 64-bit one is left out.          *)
(***************************************************************************)
EXTENDS Fsst

CONSTANTS
    MAX,            \* the longest phrase, 32
    LABEL_MAX,      \* the longest label, and how far a parse looks ahead, 255
    SYMBOLS         \* the symbols a shard may keep, <<127, 191, 223, 239, 254>>

GROUP == 2 ^ Byte
ENDS  == GROUP + 1
Ceil(a, b) == (a + b - 1) \div b
SumOf(s)   == FoldSeq(+, 0, s)
Zeroes(n)  == [k \in 1 .. n |-> 0] \o <<>>

-------------------------------------------------------------------------------
(* Splits of the byte codes: symbols, narrow prefixes, wide prefixes, the escape. *)

NoSplit == [symbols |-> MAX_SYMBOLS, wide |-> 0]
prefixes(split) == MAX_SYMBOLS - split.symbols
narrow(split)   == prefixes(split) - split.wide
two(split)      == narrow(split) * GROUP
limit(split)    == two(split) + split.wide * GROUP ^ 2

split_read(symbols, wide) ==
    IF symbols > 0 /\ symbols < ESCAPE /\ wide <= prefixes([symbols |-> symbols, wide |-> wide])
    THEN Some([symbols |-> symbols, wide |-> wide]) ELSE None

\* The phrase named at a place in a stream and the bytes that name it.
read_at(split, stream, at) ==
    LET class == stream[at + 1] - split.symbols
        Byte2 == stream[at + 2]
        Byte3 == stream[at + 3]
    IN  IF at >= Len(stream) \/ stream[at + 1] < split.symbols \/ stream[at + 1] = ESCAPE THEN None
        ELSE IF class < narrow(split)
        THEN IF at + 1 >= Len(stream) THEN None ELSE Some(<<class * GROUP + Byte2, 2>>)
        ELSE IF at + 2 >= Len(stream) THEN None
        ELSE Some(<<two(split) + (class - narrow(split)) * GROUP ^ 2 + Byte2 * GROUP + Byte3, 3>>)

write(split, id) ==
    LET above == id - two(split)
    IN  IF id < two(split) THEN <<split.symbols + (id \div GROUP), id % GROUP>>
        ELSE <<split.symbols + narrow(split) + (above \div GROUP ^ 2), (above \div GROUP) % GROUP, above % GROUP>>

\* Each symbol count with no wide prefix, and with the fewest that reach the whole dictionary.
family(phrases) ==
    LET Reaching(q) == {j \in 0 .. q : (q - j) * GROUP + j * GROUP ^ 2 >= phrases}
        Wide(q) == IF Reaching(q) = {} THEN q ELSE Min(Reaching(q))
        Splits(k) == LET q == MAX_SYMBOLS - SYMBOLS[k]
                     IN  [w \in 1 .. 2 |-> [symbols |-> SYMBOLS[k], wide |-> IF w = 1 THEN 0 ELSE Wide(q)]]
        Once(out, split) == IF split \in ToSet(out) THEN out ELSE Append(out, split)
    IN  FoldLeft(Once, <<>>, FlattenSeq([k \in DOMAIN SYMBOLS |-> Splits(k)]))

-------------------------------------------------------------------------------
(* The dictionary: a count, a base a group, the ends in each group, the bytes, and at least MAX   *)
(* bytes more. A cell stands for the two or four bytes of an end or a base.                       *)

\* The dictionary at the start of raw, `section` cells of it; the rest runs on past it.
OnRaw(raw, section, labels) ==
    LET groups == Ceil(raw[1], GROUP)
    IN  [raw |-> raw, count |-> raw[1], bases |-> SubSeq(raw, 2, groups + 1), ends |-> groups + 1,
         bytes |-> groups + 1 + groups * ENDS, used |-> section - (groups + 1 + groups * ENDS), labels |-> labels]

flat(phrases) ==
    LET groups == Ceil(Len(phrases), GROUP)
        Group(g) == SubSeq(phrases, (g - 1) * GROUP + 1, Least(g * GROUP, Len(phrases)))
        Size(ps) == Len(FlattenSeq(ps))
        End(g, k) == IF k > Len(Group(g)) THEN 0 ELSE Size(SubSeq(Group(g), 1, k))
    IN  <<Len(phrases)>> \o [g \in 1 .. groups |-> Size(SubSeq(phrases, 1, (g - 1) * GROUP))]
          \o FlattenSeq([g \in 1 .. groups |-> [k \in 1 .. ENDS |-> End(g, k - 1)]]) \o FlattenSeq(phrases)
dict_of(phrases, labels) == OnRaw(flat(phrases) \o Zeroes(MAX), Len(flat(phrases)), labels)

\* Where a phrase starts and ends among the bytes.
span(dict, id) ==
    LET g  == id \div GROUP
        at == dict.ends + ENDS * g + (id % GROUP)
    IN  IF id >= dict.count THEN None
        ELSE Some(<<dict.bases[g + 1] + dict.raw[at + 1], dict.bases[g + 1] + dict.raw[at + 2]>>)

at(dict, id) ==
    LET s == span(dict, id)
    IN  IF s = None \/ s.it[1] > s.it[2] \/ s.it[2] > dict.used THEN None
        ELSE Some(SubSeq(dict.raw, dict.bytes + s.it[1] + 1, dict.bytes + s.it[2]))

\* MAX bytes from where a phrase starts, and how many are its own.
chunk(dict, id) ==
    LET s == span(dict, id)
        from == dict.bytes + s.it[1]
    IN  IF s = None \/ s.it[1] > s.it[2] \/ from + MAX > Len(dict.raw) THEN None
        ELSE Some(<<SubSeq(dict.raw, from + 1, from + MAX), s.it[2] - s.it[1]>>)

\* Fault: a phrase may be longer than a decoder's store.
PhraseLong(p) == p # None /\ Len(p.it) >= 1
PhraseFits(p) == p # None /\ Len(p.it) \in 1 .. MAX

\* The dictionary a section holds, over the bytes that follow it in its blob or a padded copy.
dict_read(section, after, labels) ==
    LET groups == Ceil(section[1], GROUP)
        raw    == section \o (IF Len(after) >= MAX THEN after ELSE Zeroes(MAX))
        dict   == OnRaw(raw, Len(section), labels)
    IN  IF section = <<>> \/ Len(section) < 1 + groups + groups * ENDS THEN None
        ELSE IF \A id \in 0 .. dict.count - 1 : PhraseFits(at(dict, id)) THEN Some(dict) ELSE None

has_labels(dict) == dict.labels # <<>>
\* Label of an id past the phrases.
label(dict, id) ==
    LET rank == id - dict.count IN IF rank \in 0 .. Len(dict.labels) - 1 THEN Some(dict.labels[rank + 1]) ELSE None

-------------------------------------------------------------------------------
(* The trie of the phrases, a double array; a node is known by the bytes that lead to it. *)

VACANT == [base |-> 0, check |-> -1, phrase |-> 0]
SlotAt(trie, s) == IF s \in DOMAIN trie.slots THEN trie.slots[s] ELSE VACANT

\* The first slot a child may take on any byte.
Lowest == 2 ^ Byte

RECURSIVE Place(_, _, _, _)
Place(phrases, slots, order, k) ==
    LET node    == order[k][1]
        parent  == order[k][2]
        below   == {p \in ToSet(phrases) : Len(p) > Len(node) /\ IsPrefix(node, p)}
        kids    == {p[Len(node) + 1] : p \in below}
        first   == Min(kids)
        past    == Max(DOMAIN slots) + Lowest + 1
        f       == Min({s \in Lowest .. past : \A b \in kids : s + b - first \notin DOMAIN slots})
        Ends(p) == {j \in DOMAIN phrases : phrases[j] = p}
        Id(p)   == IF Ends(p) = {} THEN 0 ELSE Max(Ends(p))
        child   == [s \in {f + b - first : b \in kids} |->
                       [base |-> 0, check |-> parent, phrase |-> Id(Append(node, s - f + first))]]
        placed  == SortSeq(ListOf({<<Append(node, b), f + b - first>> : b \in kids}), LAMBDA x, y : x[2] < y[2])
    IN  IF k > Len(order) THEN slots
        ELSE IF kids = {} THEN Place(phrases, slots, order, k + 1)
        ELSE Place(phrases, child @@ [slots EXCEPT ![parent].base = f - first], order \o placed, k + 1)

\* Every node at the lowest base where its children's slots are free, breadth first; padded so that
\* a step from any base is in range.
trie_of(phrases) ==
    LET slots == Place(phrases, 0 :> VACANT, <<<<<<>>, 0>>>>, 1)
    IN  [slots |-> slots, len |-> Max({Max(DOMAIN slots) + 1, Max({slots[s].base : s \in DOMAIN slots}) + 2 ^ Byte})]

\* The phrases that start a string, as the trie's walk meets them, each its length and id plus one.
RECURSIVE HitsFrom(_, _, _, _)
HitsFrom(trie, s, k, node) ==
    LET next == SlotAt(trie, node).base + s[k]
        here == SlotAt(trie, next)
    IN  IF k > Least(Len(s), LABEL_MAX) \/ here.check # node THEN <<>>
        ELSE (IF here.phrase = 0 THEN <<>> ELSE <<[len |-> k, id |-> here.phrase]>>) \o HitsFrom(trie, s, k + 1, next)
hits(trie, s) == HitsFrom(trie, s, 1, 0)

-------------------------------------------------------------------------------
(* The cheapest coding, in bits. *)

prices(split) == [two |-> two(split), limit |-> limit(split)]
MINING    == [two |-> GROUP ^ 3, limit |-> GROUP ^ 3]
NoPrices  == [two |-> 0, limit |-> 0]
bytes_for(price, id) == IF id < price.two THEN 2 ELSE 3

Pick(kind, id, len, bits) == [kind |-> kind, id |-> id, len |-> len, bits |-> bits]
\* The first of the cheapest.
Cheapest(picks) == picks[Min({k \in DOMAIN picks : \A j \in DOMAIN picks : picks[k].bits <= picks[j].bits})]

\* What is picked at each byte of s from i on, and at the end; the word at i comes of the one at i + 1.
RECURSIVE ParseFrom(_, _, _, _, _)
ParseFrom(s, i, table, trie, price) ==
    LET rest == ParseFrom(s, i + 1, table, trie, price)
        word == <<s[i + 1]>> \o SubSeq(rest.word, 1, MAX_LEN - 1)
        e    == step(table, word, Len(s) - i)
        own  == IF e[1] = ESCAPE THEN Pick("raw", 0, 1, 16 + rest.picks[1].bits)
                ELSE Pick("symbol", e[1], e[2], 8 + rest.picks[e[2]].bits)
        named == SelectSeq(hits(trie, Drop(s, i)), LAMBDA h : h.id <= price.limit)
        others == [k \in DOMAIN named |->
                      Pick("phrase", named[k].id - 1, named[k].len,
                           8 * bytes_for(price, named[k].id - 1) + rest.picks[named[k].len].bits)]
    IN  IF i = Len(s) THEN [word |-> word_of(<<>>), picks |-> <<Pick("end", 0, 0, 0)>>]
        ELSE [word |-> word, picks |-> <<Cheapest(<<own>> \o others)>> \o rest.picks]
parse(s, table, trie, price) == ParseFrom(s, 0, table, trie, price).picks

RECURSIVE TokensFrom(_, _)
TokensFrom(picks, i) ==
    IF picks[i + 1].kind = "end" THEN <<>> ELSE <<picks[i + 1] @@ [start |-> i]>> \o TokensFrom(picks, i + picks[i + 1].len)
tokens(picks) == TokensFrom(picks, 0)

encode_into(s, table, trie, split) ==
    LET Emit(t) == CASE t.kind = "symbol" -> <<t.id>>
                     [] t.kind = "phrase" -> write(split, t.id)
                     [] t.kind = "raw" -> <<ESCAPE, s[t.start + 1]>>
        Emits(ts) == FlattenSeq([k \in DOMAIN ts |-> Emit(ts[k])])
    IN  Emits(tokens(parse(s, table, trie, IF split = NoSplit THEN NoPrices ELSE prices(split))))

price_of(pieces, table, trie, price) ==
    SumOf([k \in DOMAIN pieces |-> parse(pieces[k], table, trie, price)[1].bits \div 8])

\* What a parse under a split left to the symbols.
residue(pieces, table, trie, split) ==
    LET Between(p, ts) ==
            LET From(k) == IF k = 1 THEN 0 ELSE ts[k - 1].start + ts[k - 1].len
                To(k)   == IF k > Len(ts) THEN Len(p) ELSE ts[k].start
            IN  [k \in 1 .. Len(ts) + 1 |-> SubSeq(p, From(k) + 1, To(k))]
        Named(p) == SelectSeq(tokens(parse(p, table, trie, prices(split))), LAMBDA t : t.kind = "phrase")
    IN  SelectSeq(FlattenSeq([k \in DOMAIN pieces |-> Between(pieces[k], Named(pieces[k]))]), LAMBDA r : r # <<>>)

\* A piece's steps and hits walked once, and its price under them (Memo).
Memo(s, table, trie) ==
    [steps |-> [k \in DOMAIN s |-> step(table, word_at(s, k - 1), Len(s) - k + 1)] \o <<>>,
     hits  |-> [k \in DOMAIN s |-> hits(trie, Drop(s, k - 1))] \o <<>>]
RECURSIVE MemoFrom(_, _, _, _)
MemoFrom(memo, n, k, price) ==
    LET rest  == MemoFrom(memo, n, k + 1, price)
        e     == memo.steps[k]
        own   == IF e[1] = ESCAPE THEN 16 + rest[1] ELSE 8 + rest[e[2]]
        named == {h \in ToSet(memo.hits[k]) : h.id <= price.limit}
    IN  IF k > n THEN <<0>>
        ELSE <<Min({own} \cup {8 * bytes_for(price, h.id - 1) + rest[h.len] : h \in named})>> \o rest
memo_price(s, table, trie, price) == MemoFrom(Memo(s, table, trie), Len(s), 1, price)[1]

\* What a shard comes to under a split with a table, or with the table alone.
Under(pieces, table, trie, split) ==
    LET price == IF split = NoSplit THEN NoPrices ELSE prices(split)
    IN  [split |-> split, table |-> table,
         bytes |-> SumOf([k \in DOMAIN pieces |-> memo_price(pieces[k], table, trie, price) \div 8])]
LeastBytes(rows) == rows[Min({j \in DOMAIN rows : \A i \in DOMAIN rows : rows[j].bytes <= rows[i].bytes})]

\* The table refitted to what the phrases leave, if that comes to less.
Refit(pieces, won, trie, refit) ==
    IF price_of(pieces, refit, trie, prices(won.split)) < won.bytes THEN refit ELSE won.table
Refitted(pieces, won, trie) ==
    [split |-> won.split,
     table |-> IF won.split = NoSplit THEN won.table
               ELSE Refit(pieces, won, trie, train_to(residue(pieces, won.table, trie, won.split), won.split.symbols))]

\* The split a shard is cheapest under and the table to read it with, refitted to what it leaves.
settle(pieces, table, trie, phrases) ==
    LET tries == <<NoSplit>> \o (IF phrases = 0 THEN <<>> ELSE family(phrases))
    IN  Refitted(pieces, LeastBytes([j \in DOMAIN tries |->
                             Under(pieces, head(table, tries[j].symbols), trie, tries[j])] \o <<>>), trie)

-------------------------------------------------------------------------------
(* Decoding: stores of a word, of a whole chunk, or of one byte, in the room asked for. *)

RoomFor(bytes, wanted) == Least(bytes * (MAX \div 2), wanted + MAX)

\* A stretch without labels, from byte i of the stream into a room of its own.
RECURSIVE StretchFrom(_, _, _, _, _, _, _), NameNext(_, _, _, _, _, _, _, _, _), TokenNext(_, _, _, _, _, _, _, _)
\* A name, whose phrase is stored as a whole chunk, or which is a label's.
NameNext(codec, dict, packed, i, o, room, wanted, ref, phr) ==
    IF ~phr.ok THEN IF has_labels(dict) THEN Some([o |-> o, i |-> i + ref[2], label |-> ref[1]]) ELSE None
    ELSE IF ~Stored(o, MAX, room) \/ phr.it[2] > MAX THEN Outside
    ELSE StretchFrom(codec, dict, packed, i + ref[2], o \o SubSeq(phr.it[1], 1, phr.it[2]), room, wanted)
TokenNext(codec, dict, packed, i, o, room, wanted, ref) ==
    LET code == packed[i + 1]
    IN  IF ref.ok THEN NameNext(codec, dict, packed, i, o, room, wanted, ref.it, chunk(dict, ref.it[1]))
        ELSE IF code = ESCAPE
        THEN IF i + 1 >= Len(packed) THEN None
             ELSE IF ~Stored(o, 1, room) THEN Outside
             ELSE StretchFrom(codec, dict, packed, i + 2, Append(o, packed[i + 2]), room, wanted)
        ELSE IF code >= Len(codec.table) THEN None
        ELSE IF ~Stored(o, MAX_LEN, room) THEN Outside
        ELSE StretchFrom(codec, dict, packed, i + 1, o \o codec.table[code + 1], room, wanted)
StretchFrom(codec, dict, packed, i, o, room, wanted) ==
    IF i >= Len(packed) \/ Len(o) >= wanted THEN Some([o |-> o, i |-> i, label |-> -1])
    ELSE TokenNext(codec, dict, packed, i, o, room, wanted, read_at(codec.split, packed, i))

RECURSIVE LabelledFrom(_, _, _, _, _, _), LabelNext(_, _, _, _, _, _)
\* A stretch that came to a label, which is copied out behind it.
LabelNext(codec, dict, packed, out, cap, got) ==
    IF ~got.ok THEN got
    ELSE IF got.it.label < 0 THEN Some(out \o got.it.o)
    ELSE IF ~label(dict, got.it.label).ok THEN None
    ELSE LabelledFrom(codec, dict, packed, got.it.i, out \o got.it.o \o label(dict, got.it.label).it, cap)
LabelledFrom(codec, dict, packed, i, out, cap) ==
    LET wanted == Max({cap - Len(out), 0})
    IN  LabelNext(codec, dict, packed, out, cap,
                  StretchFrom(codec, dict, packed, i, <<>>, RoomFor(Len(packed) - i, wanted), wanted))

\* Codec::decode_into; a tiered stream is a labelled one of a single stretch.
decode_into(codec, dict, packed, cap) ==
    IF codec.split = NoSplit THEN decode(codec.table, packed, cap) ELSE LabelledFrom(codec, dict, packed, 0, <<>>, cap)

-------------------------------------------------------------------------------
(* Comparing what a stream stands for with the rest of a key, a word at a time. *)

Rest(key, from) == [key |-> key, at |-> from, tail |-> word_of(Drop(key, Max({Len(key) - MAX_LEN, 0})))]
rest_len(rest)  == Len(rest.key) - rest.at

\* Fault: the tail is shifted by how far it is into the key.
rest_word_whole(rest, c) ==
    LET i == rest.at + c
    IN  IF i + MAX_LEN <= Len(rest.key) THEN SubSeq(rest.key, i + 1, i + MAX_LEN) ELSE word_of(Drop(rest.tail, Least(i, MAX_LEN)))

\* The word at c, the key's tail shifted down where no whole word is left.
rest_word(rest, c) ==
    LET i     == rest.at + c
        shift == i - Max({Len(rest.key) - MAX_LEN, 0})
    IN  IF i + MAX_LEN <= Len(rest.key) THEN SubSeq(rest.key, i + 1, i + MAX_LEN) ELSE word_of(Drop(rest.tail, Least(shift, MAX_LEN)))

Cmp(a, b) == IF a < b THEN "less" ELSE IF a > b THEN "greater" ELSE "equal"
Answer(c, ord) == [done |-> TRUE, c |-> c, ord |-> ord]
Going(c)       == [done |-> FALSE, c |-> c, ord |-> "equal"]
\* A stream that ends at c is the rest, or less than it.
Ended(rest, c) == Answer(c, IF c = rest_len(rest) THEN "equal" ELSE "less")

\* `m` bytes of a word and of the rest's at c.
CompareBytes(word, theirs, len, m, c) ==
    LET differ == {d \in 1 .. m : word[d] # theirs[d]}
        d      == Min(differ)
    IN  IF differ # {} THEN Answer(c + d - 1, Cmp(word[d], theirs[d]))
        ELSE IF m < len THEN Answer(c + m, "greater") ELSE Going(c + m)
compare_word(word, len, rest, c) ==
    CompareBytes(word, rest_word(rest, c), len, Least(len, rest_len(rest) - c), c)

\* The first `len` of some padded bytes, a word at a time.
RECURSIVE compare_words(_, _, _, _), WordNext(_, _, _, _)
WordNext(padded, len, rest, r) ==
    IF r.done THEN r ELSE compare_words(Drop(padded, MAX_LEN), len - MAX_LEN, rest, r.c)
compare_words(padded, len, rest, c) ==
    IF len <= 0 THEN Going(c)
    ELSE WordNext(padded, len, rest, compare_word(word_of(padded), Least(len, MAX_LEN), rest, c))

\* A label's first byte is told from the rest before any more of it is decoded.
LabelAgainst(bytes, theirs, rest, c) ==
    IF c = rest_len(rest) THEN Answer(c, "greater")
    ELSE IF bytes[1] # theirs[1] THEN Answer(c, Cmp(bytes[1], theirs[1]))
    ELSE compare_words(bytes, Len(bytes), rest, c)
compare_label(bytes, rest, c) == LabelAgainst(bytes, rest_word(rest, c), rest, c)

\* How a phrase or a label behind a name, or nothing, compares.
CompareNamed(dict, phr, name, rest, c) ==
    IF phr.ok THEN compare_words(phr.it[1], phr.it[2], rest, c)
    ELSE IF name.ok THEN compare_label(name.it, rest, c) ELSE Ended(rest, c)
CompareName(codec, dict, ref, rest, c) ==
    IF ~ref.ok THEN <<Ended(rest, c), 1>>
    ELSE <<CompareNamed(dict, chunk(dict, ref.it[1]), label(dict, ref.it[1]), rest, c), ref.it[2]>>
\* The comparison with the token at byte i, and the bytes it takes.
CompareToken(codec, dict, packed, i, rest, c) ==
    LET code == packed[i + 1]
    IN  IF code < Least(Len(codec.table), codec.split.symbols)
        THEN <<compare_word(word_of(codec.table[code + 1]), Len(codec.table[code + 1]), rest, c), 1>>
        ELSE IF code # ESCAPE THEN CompareName(codec, dict, read_at(codec.split, packed, i), rest, c)
        ELSE IF i + 1 >= Len(packed) THEN <<Ended(rest, c), 1>>
        ELSE <<compare_word(word_of(<<packed[i + 2]>>), 1, rest, c), 2>>

RECURSIVE CompareFrom(_, _, _, _, _, _), CompareNext(_, _, _, _, _, _)
CompareNext(codec, dict, packed, i, rest, r) ==
    IF r[1].done THEN <<r[1].c, r[1].ord>> ELSE CompareFrom(codec, dict, packed, i + r[2], rest, r[1].c)
CompareFrom(codec, dict, packed, i, rest, c) ==
    CompareNext(codec, dict, packed, i, rest,
                IF i >= Len(packed) THEN <<Ended(rest, c), 1>> ELSE CompareToken(codec, dict, packed, i, rest, c))
\* How many bytes of the rest a stream agrees with, and its order to it.
compare(codec, dict, packed, rest) == CompareFrom(codec, dict, packed, 0, rest, 0)

-------------------------------------------------------------------------------
(* What is promised of a case [sample, phrases, labels, strings], strings to train on, names, and *)
(* strings to code.                                                                               *)

LOCAL Names(c)     == c.phrases \o c.labels
LOCAL Splits(c)    == ToSet(family(Len(Names(c)))) \cup {NoSplit}
LOCAL PriceOf(split) == IF split = NoSplit THEN NoPrices ELSE prices(split)
LOCAL Shared(a, b) == Max({n \in 0 .. Least(Len(a), Len(b)) : SubSeq(a, 1, n) = SubSeq(b, 1, n)})
\* The comparison by definition.
LOCAL Order(a, b) ==
    LET n == Shared(a, b)
    IN  <<n, IF n = Len(a) /\ n = Len(b) THEN "equal" ELSE IF n = Len(a) THEN "less"
             ELSE IF n = Len(b) THEN "greater" ELSE Cmp(a[n + 1], b[n + 1])>>

\* The least bits of any sequence of tokens, trying the name behind every id at every byte.
RECURSIVE LeastBits(_, _, _, _, _)
LOCAL LeastBits(s, i, table, names, price) ==
    LET e      == step(table, word_at(s, i), Len(s) - i)
        fit    == {id \in 0 .. Len(names) - 1 : id < price.limit /\ IsPrefix(names[id + 1], Drop(s, i))}
        After(n) == LeastBits(s, i + n, table, names, price)
    IN  IF i >= Len(s) THEN 0
        ELSE Min({(IF e[1] = ESCAPE THEN 16 ELSE 8) + After(e[2])}
                 \cup {8 * bytes_for(price, id) + After(Len(names[id + 1])) : id \in fit})

LOCAL DecodesBack(got, s, cap) == got.ok /\ IsPrefix(got.it, s) /\ Len(got.it) >= Least(cap, Len(s))
LOCAL WrittenReadsBack(c, codec, dict, s, packed) ==
    /\ \A cap \in 0 .. Len(s) + 1 : DecodesBack(decode_into(codec, dict, packed, cap), s, cap)
    /\ \A key \in ToSet(c.strings) : \A from \in 0 .. Least(Len(key), 2) :
         compare(codec, dict, packed, Rest(key, from)) = Order(s, Drop(key, from))
LOCAL CodingReadsBack(c, codec, dict, trie, s, packed) ==
    /\ {8 * Len(packed)} =
         {parse(s, codec.table, trie, PriceOf(codec.split))[1].bits,
          LeastBits(s, 0, codec.table, Names(c), PriceOf(codec.split)),
          memo_price(s, codec.table, trie, PriceOf(codec.split))}
    /\ WrittenReadsBack(c, codec, dict, s, packed)
LOCAL Coded(c, dict, trie, trained) ==
    \A split \in Splits(c) : \A s \in ToSet(c.strings) :
      CodingReadsBack(c, [split |-> split, table |-> head(trained, split.symbols)], dict, trie, s,
                      encode_into(s, head(trained, split.symbols), trie, split))

\* The parse finds the cheapest coding there is with the symbols the encoder steps by; what it is
\* reckoned to cost, walked once or memoised, is what is written; and what is written decodes, to its
\* end or up to a cap, and compares with any key as the string itself does.
CodingsReadBack(c) ==
    Coded(c, dict_of(c.phrases, c.labels), trie_of(Names(c)), train_to(c.sample, MAX_SYMBOLS))

LOCAL WalkStaysInside(trie) ==
    \A n \in DOMAIN trie.slots : trie.slots[n].base + 2 ^ Byte - 1 < trie.len
LOCAL NamesStarting(names, s) ==
    {<<Len(names[id]), id>> : id \in {j \in DOMAIN names : IsPrefix(names[j], s)}}
LOCAL WalkMeetsNames(trie, c) ==
    /\ WalkStaysInside(trie)
    /\ \A s \in ToSet(c.strings) : {<<h.len, h.id>> : h \in ToSet(hits(trie, s))} = NamesStarting(Names(c), s)
LOCAL DictHolds(got, phrases) ==
    /\ got.ok
    /\ \A id \in DOMAIN phrases :
         LET p == chunk(got.it, id - 1)
         IN  p.ok /\ SubSeq(p.it[1], 1, p.it[2]) = phrases[id] /\ at(got.it, id - 1) = Some(phrases[id])
LOCAL NameReadsBack(split, id, ref) ==
    /\ Len(ref) = bytes_for(prices(split), id)
    /\ read_at(split, ref, 0) = Some(<<id, Len(ref)>>)
    /\ \A k \in 0 .. Len(ref) - 1 : read_at(split, SubSeq(ref, 1, k), 0) = None

\* A step from any base of the trie stays in its slots; the walk meets the names that start a string
\* and no others; and the dictionary reads back from its section, whatever follows it.
NamesReadBack(c) ==
    /\ WalkMeetsNames(trie_of(Names(c)), c)
    /\ \A after \in {<<>>, <<1, 2>>, [k \in 1 .. MAX |-> k % 2 ^ Byte] \o <<>>} :
         DictHolds(dict_read(flat(c.phrases), after, c.labels), c.phrases)
    /\ \A split \in ToSet(family(Len(Names(c)))) : \A id \in 0 .. Least(limit(split), Len(Names(c)) + GROUP) - 1 :
         NameReadsBack(split, id, write(split, id))

LOCAL SizeUnder(c, trie, table, split) ==
    SumOf([k \in DOMAIN c.strings |-> Len(encode_into(c.strings[k], table, trie, split))])
LOCAL Settled(c, trie, trained, got) ==
    /\ Len(got.table) <= got.split.symbols
    /\ \A split \in IF Names(c) = <<>> THEN {NoSplit} ELSE Splits(c) :
         SizeUnder(c, trie, got.table, got.split) <= SizeUnder(c, trie, head(trained, split.symbols), split)
LOCAL SettledFrom(c, trie, trained) == Settled(c, trie, trained, settle(c.strings, trained, trie, Len(Names(c))))

\* A shard that settles spends no more than under any split it could have taken, or under none, and
\* keeps no symbol whose code names a phrase.
SettlesOnTheCheapest(c) == SettledFrom(c, trie_of(Names(c)), train_to(c.sample, MAX_SYMBOLS))

LOCAL StaysInside(got, whole, cap) ==
    /\ got # Outside
    /\ whole.ok => got.ok /\ IsPrefix(got.it, whole.it) /\ Len(got.it) >= Least(cap, Len(whole.it))
LOCAL ClaimStaysInside(codec, dict, packed, most, whole) ==
    /\ \A cap \in {0, 1, 2, MAX_LEN, MAX - 1, MAX, MAX + 1, most} :
         StaysInside(decode_into(codec, dict, packed, cap), whole, cap)
    /\ whole.ok => \A key \in {<<>>, whole.it, Append(whole.it, 0), <<0, 1, 1>>} :
         compare(codec, dict, packed, Rest(key, 0)) = Order(whole.it, key)
LOCAL CodecStaysInside(c, codec, dict) ==
    LET most == LABEL_MAX * Len(c.packed)
    IN  dict.ok => ClaimStaysInside(codec, dict.it, c.packed, most, decode_into(codec, dict.it, c.packed, most))

\* Whatever a section, a table and a stream claim, a decoder stores inside its room, and a stream it
\* reads to the end compares as what it decodes to (a case [section, split, table, labels, packed]).
ClaimsStayInside(c) ==
    CodecStaysInside(c, [split |-> c.split, table |-> c.table], dict_read(c.section, c.packed, c.labels))

-------------------------------------------------------------------------------
(* The miner. *)

CONSTANTS
    WINDOW,             \* adjacent tokens a window spans, 3
    MINE_ROUNDS,        \* 3
    PROBE_SHARDS, PROBE_PIECES, SCOUT_PIECES, PIECES,   \* what probes and samples hold
    MARGIN,             \* per cent a split has to win by, 3
    CAP, GAIN_CAP,      \* candidates a round carries on, and a pool holds
    PIECES_PER_PHRASE, POOLS, STRICT

StepBy(s, n) == [k \in 1 .. Ceil(Len(s), n) |-> s[(k - 1) * n + 1]] \o <<>>
AtLeastOne(n) == Max({n, 1})
Chunks(s, n) == [k \in 1 .. Ceil(Len(s), n) |-> SubSeq(s, (k - 1) * n + 1, Least(k * n, Len(s)))] \o <<>>

-------------------------------------------------------------------------------
(* A round over one pool: what each span saves, in a map a partition. *)

NoGains == <<>>
Gain(map, s) == IF s \in DOMAIN map THEN map[s] ELSE 0
part_of(s, parts) == (s[1] % parts) + 1

\* The windows of a piece's tokens with what coding each as one phrase would save.
Windows(p, ts, table, trie) ==
    LET Bytes_(a, b) == SumOf([k \in a .. b |-> ts[k].len])
        Span(a, b) == SubSeq(p, ts[a].start + 1, ts[a].start + Bytes_(a, b))
        Cost(a, b) == SumOf([k \in a .. b |-> IF ts[k].kind = "symbol" THEN 1 ELSE 2])
        Saves(a, b) ==
            IF a # b THEN IF Bytes_(a, b) >= 3 THEN Cost(a, b) - 2 ELSE 0
            ELSE IF ts[a].kind # "phrase" THEN 0
            ELSE Max({parse(Span(a, a), table, trie, NoPrices)[1].bits \div 8 - 2, 0})
    IN  {[at |-> <<a, b>>, of |-> Span(a, b), saving |-> Saves(a, b)] :
            <<a, b>> \in {w \in (DOMAIN ts) \X (DOMAIN ts) : w[1] <= w[2] /\ w[2] < w[1] + WINDOW
                                                         /\ Bytes_(w[1], w[2]) <= MAX}}

\* The windows of each piece of a shard that save anything.
Savings(shard, trie) ==
    [k \in DOMAIN shard.sample |->
        LET p == shard.sample[k]
        IN  {w \in Windows(p, tokens(parse(p, shard.table, trie, MINING)), shard.table, trie) : w.saving > 0}] \o <<>>

\* A shard's windows added to the maps.
Counted(maps, wins) ==
    LET new  == UNION {{w.of : w \in wins[k]} : k \in DOMAIN wins}
        Saved(s) == SumOf([k \in DOMAIN wins |-> MapThenSumSet(LAMBDA w : w.saving, {w \in wins[k] : w.of = s})])
    IN  [p \in DOMAIN maps |->
            [s \in DOMAIN maps[p] \cup {t \in new : part_of(t, Len(maps)) = p} |-> Gain(maps[p], s) + Saved(s)] @@ <<>>] \o <<>>

\* The spans above the median.
Halved(maps) ==
    LET gains == SortSeq(FlattenSeq([p \in DOMAIN maps |-> FoldFunction(LAMBDA g, s : Append(s, g), <<>>, maps[p])]), <)
        median == gains[Len(gains) \div 2 + 1]
    IN  [p \in DOMAIN maps |-> [s \in {t \in DOMAIN maps[p] : maps[p][t] > median} |-> maps[p][s]] @@ <<>>] \o <<>>

\* Halved once there are more than the pool holds.
Shed(maps, held) ==
    IF SumOf([p \in DOMAIN maps |-> Cardinality(DOMAIN maps[p])]) > held THEN Halved(maps) ELSE maps

RECURSIVE CountedAll(_, _, _, _)
CountedAll(maps, share, trie, held) ==
    IF share = <<>> THEN maps
    ELSE CountedAll(Shed(Counted(maps, Savings(share[1], trie)), held), Tail(share), trie, held)
round(share, trie, held, parts) == CountedAll([p \in 1 .. parts |-> NoGains], share, trie, held)

-------------------------------------------------------------------------------
(* The first of the candidates by what they save and then by their bytes. *)

Lex(a, b) == \/ IsStrictPrefix(a, b)
             \/ \E d \in (DOMAIN a) \cap (DOMAIN b) : a[d] < b[d] /\ SubSeq(a, 1, d - 1) = SubSeq(b, 1, d - 1)
rank(x, y) == x.gain > y.gain \/ (x.gain = y.gain /\ Lex(x.of, y.of))
InRank(S)  == SortSeq(ListOf(S), rank)

\* One partition of every pool's maps, summed and cut to what it can add to the round's first.
merge(maps, take) ==
    LET all == InRank({[of |-> s, gain |-> SumOf([k \in DOMAIN maps |-> Gain(maps[k], s)])] :
                          s \in UNION {DOMAIN maps[k] : k \in DOMAIN maps}})
    IN  SubSeq(all, 1, Least(take, Len(all)))

\* Fault: a partition hands out its sorted lead and no more.
RankedLead(cands, lead) == SubSeq(cands, 1, Least(lead, Len(cands)))
\* A partition as it is handed out: its lead, and the rest sorted only if it comes to that.
Ranked(cands, lead) == InRank(ToSet(SubSeq(cands, 1, Least(lead, Len(cands)))))
                         \o InRank(ToSet(Drop(cands, Least(lead, Len(cands)))))

\* The first `take` of the partitions' union, the leader of all next.
RECURSIVE first_of(_, _)
first_of(parts, take) ==
    LET live == {p \in DOMAIN parts : parts[p] # <<>>}
        best == CHOOSE p \in live : \A q \in live \ {p} : rank(parts[p][1], parts[q][1])
    IN  IF take = 0 \/ live = {} THEN <<>>
        ELSE <<parts[best][1]>> \o first_of([parts EXCEPT ![best] = Tail(@)], take - 1)

\* The candidates that clear what storing them takes.
Cleared(cands, scale) ==
    LET kept == SelectSeq(cands, LAMBDA x : x.gain * scale > (Len(x.of) + 3) * STRICT)
    IN  [k \in DOMAIN kept |-> kept[k].of] \o <<>>

-------------------------------------------------------------------------------
(* Whether to mine at all. *)

\* Whether what half of a probe settled on is cheaper by a margin on the other half.
Wins(got, held, table, trie) ==
    /\ got.split # NoSplit
    /\ price_of(held, got.table, trie, prices(got.split)) * 100
         < price_of(held, table, trie, NoPrices) * (100 - MARGIN)
Buys(probe, table, trie, phrases) ==
    Wins(settle(StepBy(probe, 2), table, trie, phrases), StepBy(Drop(probe, 1), 2), table, trie)

\* Whether any of a spread of shards would buy the phrases.
worth(pairs, phrases) ==
    \E shard \in ToSet(StepBy(pairs, AtLeastOne(Ceil(Len(pairs), PROBE_SHARDS)))) :
        Buys(StepBy(shard.sample, AtLeastOne(Ceil(Len(shard.sample), PROBE_PIECES))),
             shard.table, trie_of(phrases), Len(phrases))

Thinned(pairs, every) ==
    SelectSeq([k \in DOMAIN pairs |-> [pairs[k] EXCEPT !.sample = StepBy(@, every)]], LAMBDA s : s.sample # <<>>)
Pieces(pairs) == SumOf([k \in DOMAIN pairs |-> Len(pairs[k].sample)])

FoundWorth(pairs, found) == found # <<>> /\ worth(pairs, found)

\* Whether a round over a fraction of the pieces finds phrases any shard would buy.
scout(pairs, keys, take, held) ==
    LET every == AtLeastOne(Ceil(Pieces(pairs), SCOUT_PIECES))
        small == Thinned(pairs, every)
        scale == AtLeastOne(keys \div Pieces(small))
    IN  \/ every = 1 \/ Pieces(small) = 0
        \/ FoundWorth(pairs, Cleared(merge(round(small, trie_of(<<>>), held, 1), take), scale))

-------------------------------------------------------------------------------
(* The rounds. *)

\* Fault: there are as many pools as threads.
PoolsOfThreads(threads) == threads
PoolsFor(threads) == POOLS

\* Every pool's maps, counted in its thread.
CountPools(pools, trie, parts) == [k \in DOMAIN pools |-> round(pools[k], trie, GAIN_CAP, parts)] \o <<>>
CountGroups(groups, share, trie, parts) ==
    FlattenSeq([g \in DOMAIN groups |-> CountPools(Chunks(groups[g], share), trie, parts)])
PoolMaps(pairs, share, per_thread, trie, parts) ==
    CountGroups(Chunks(pairs, share * per_thread), share, trie, parts)

\* The first of them, every partition merged in its own thread.
Best(maps, parts, take) ==
    first_of([p \in 1 .. parts |->
                 Ranked(merge([m \in DOMAIN maps |-> maps[m][p]], take), 2 * Ceil(take, parts))] \o <<>>, take)

\* One round's phrases.
Round(pairs, phrases, r, threads, scale, pool, cap) ==
    LET share == AtLeastOne(Ceil(Len(pairs), PoolsFor(threads)))
        pools == Ceil(Len(pairs), share)
        parts == AtLeastOne(Least(pools, AtLeastOne(threads)))
        per_thread == AtLeastOne(Ceil(pools, AtLeastOne(threads)))
        take  == IF r = MINE_ROUNDS THEN pool ELSE cap
    IN  Cleared(Best(PoolMaps(pairs, share, per_thread, trie_of(phrases), parts), parts, take), scale)

RECURSIVE RoundsFrom(_, _, _, _, _, _, _), RoundDone(_, _, _, _, _, _, _)
RoundDone(pairs, next, r, threads, scale, pool, cap) ==
    IF next = <<>> \/ (r = 1 /\ ~worth(pairs, next)) THEN <<>>
    ELSE RoundsFrom(pairs, next, r + 1, threads, scale, pool, cap)
RoundsFrom(pairs, phrases, r, threads, scale, pool, cap) ==
    IF r > MINE_ROUNDS THEN phrases
    ELSE RoundDone(pairs, Round(pairs, phrases, r, threads, scale, pool, cap), r, threads, scale, pool, cap)

mine(shards, keys, pool, threads) ==
    LET every == AtLeastOne(Ceil(Pieces(shards), PIECES))
        pairs == Thinned(shards, every)
        room  == AtLeastOne(Pieces(pairs) \div PIECES_PER_PHRASE)
        scale == AtLeastOne(keys \div AtLeastOne(Pieces(pairs)))
    IN  IF pairs = <<>> \/ ~scout(pairs, keys, Least(CAP, room), GAIN_CAP) THEN <<>>
        ELSE RoundsFrom(pairs, <<>>, 1, threads, scale, Least(pool, room), Least(CAP, room))

-------------------------------------------------------------------------------
(* What is promised of a case [samples, keys, pool], a sample of each shard. *)

\* One list of phrases that a dictionary holds and a pool has room for.
LOCAL Vocabulary(mined, pool) ==
    \A phrases \in mined :
      /\ mined = {phrases}
      /\ IsInjective(phrases) /\ Len(phrases) <= pool
      /\ \A k \in DOMAIN phrases : Len(phrases[k]) \in 2 .. MAX
      /\ dict_read(flat(phrases), <<>>, <<>>).ok

\* The vocabulary does not follow the machine: any number of threads mines the same phrases in the
\* same order, which are distinct, no more than were asked for, and such as a dictionary holds.
MinesOnAnyThreads(c) ==
    LET shards == [k \in DOMAIN c.samples |-> [sample |-> c.samples[k], table |-> train_to(c.samples[k], MAX_SYMBOLS)]] \o <<>>
    IN  Vocabulary({mine(shards, c.keys, c.pool, threads) : threads \in 1 .. Len(shards) + 1}, c.pool)
=================================================================================
