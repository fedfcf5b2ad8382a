--------------------------------- MODULE Arena ----------------------------------
(***************************************************************************)
(* The arena the indexes keep their keys in (src/src/arena.rs): its         *)
(* layouts, the cheapest for the keys' lengths, the superstring layout     *)
(* where that is smaller still, the load, and the reads of a slot.         *)
(*                                                                         *)
(* A blob is a sequence of cells, a field or a byte of a key each:          *)
(* [number of offsets, tag] table, data, overflow table, its length. Prices *)
(* are in bytes. A fingerprint is 0 where a slot has none.                  *)
(***************************************************************************)
EXTENDS Superstring

CONSTANTS
    B_U8, B_U16,               \* slots of a block of one-byte and of two-byte offsets
    MostU8, MostU16,           \* what those offsets reach
    NARROW, WIDE,              \* bytes of a base
    NARROW_LIMIT,              \* what a narrow one reaches
    HEADER, PARAMS, TRAILER, SLOT_LEN,   \* bytes of these parts of a blob
    Byte, WordBytes,           \* bits of a byte, bytes of the word an entry is read from
    PREFLIGHT_KEYS, DRAWN      \* keys a draw is worth, and one slot in so many of the largest draw

MAX_WIDTH == Byte * WordBytes - Byte + 1
PAD       == WordBytes - 1
Ceil(a, b) == (a + b - 1) \div b
Bits(x)    == CHOOSE b \in 0 .. 30 : 2 ^ b > x /\ (b = 0 \/ 2 ^ (b - 1) <= x)
SumOf(lens) == FoldSeq(+, 0, lens)

-------------------------------------------------------------------------------
(* Layouts. *)

\* A tag: the encoding and its bits.
Tag(kind, wide, overflow, fp) == [kind |-> kind, wide |-> wide, overflow |-> overflow, fp |-> fp]
Slots(tag) == IF tag.kind = "u16" THEN B_U16 ELSE B_U8
Most(tag)  == IF tag.kind = "u16" THEN MostU16 ELSE MostU8
LOCAL Told(f) == f @@ <<>>
LOCAL CountIf(S, Test(_)) == Cardinality({x \in S : Test(x)})
LOCAL One(b) == IF b THEN 1 ELSE 0

\* What a layout's fields take: bytes on disk, or cells here.
InBytes(tag) == [head |-> HEADER, base |-> IF tag.wide THEN WIDE ELSE NARROW,
                 width |-> IF tag.kind = "u16" THEN 2 ELSE 1,
                 flat |-> IF tag.kind = "flat8" THEN WIDE ELSE NARROW]
InCells == [head |-> 2, base |-> 1, width |-> 1, flat |-> 1]

block_bytes(slots, size, fp) == size.base + (slots + 1) * size.width + slots * One(fp)
prefix_len(tag, n, size) ==
    size.head + (IF tag.kind \in {"u8", "u16"} THEN Ceil(n, Slots(tag)) * block_bytes(Slots(tag), size, tag.fp)
                 ELSE n * (size.flat + One(tag.fp)) + size.flat)
overflow_entry_bytes(tag, size) ==
    IF tag.kind = "merged" THEN 2 * size.base ELSE (Slots(tag) + 1) * size.base

LOCAL Chunk(lens, slots, j) == SubSeq(lens, (j - 1) * slots + 1, Min({Len(lens), j * slots}))
\* Runs whose keys its offsets do not reach across.
Overflowing(lens, tag) ==
    CountIf(1 .. Ceil(Len(lens), Slots(tag)), LAMBDA j : SumOf(Chunk(lens, Slots(tag), j)) > Most(tag))

LOCAL Blocked(lens, tag, over) ==
    [bytes |-> Ceil(Len(lens), Slots(tag)) * block_bytes(Slots(tag), InBytes(tag), tag.fp)
                 + over * overflow_entry_bytes(tag, InBytes(tag)) + (IF over > 0 THEN TRAILER ELSE 0),
     tag |-> [tag EXCEPT !.overflow = over > 0]]
LOCAL Priced(lens, tag) == Blocked(lens, tag, Overflowing(lens, tag))
LOCAL Flat(lens, wide, fp) ==
    [bytes |-> (Len(lens) + 1) * (IF wide THEN WIDE ELSE NARROW) + Len(lens) * One(fp),
     tag |-> Tag(IF wide THEN "flat8" ELSE "flat4", FALSE, FALSE, fp)]
LOCAL Cheaper(a, b) == IF b.bytes < a.bytes THEN b ELSE a
LOCAL TagOf(lens, u8, wide, fp) ==
    IF ~u8.tag.overflow THEN u8.tag
    ELSE Cheaper(Cheaper(u8, Priced(lens, Tag("u16", wide, FALSE, fp))), Flat(lens, wide, fp)).tag
\* One-byte offsets wherever they reach; else the cheapest, ties to the narrower.
tag_for(lens, data_len, fp, limit) ==
    TagOf(lens, Priced(lens, Tag("u8", data_len > limit, FALSE, fp)), data_len > limit, fp)

LOCAL BlockedAs(lens, data_len, tag) ==
    prefix_len(tag, Len(lens), InBytes(tag)) + data_len
      + (IF tag.overflow THEN Overflowing(lens, tag) * overflow_entry_bytes(tag, InBytes(tag)) + TRAILER ELSE 0)
blocked_len(lens, data_len, fp, limit) == BlockedAs(lens, data_len, tag_for(lens, data_len, fp, limit))

-------------------------------------------------------------------------------
(* A blocked or flat arena. *)

Mark == -1      \* the all-ones first offset of a block whose offsets are in the overflow table

\* A base-wide word wraps where it is narrow, an offset where its width ends.
Word(tag, x) == IF tag.wide \/ tag.kind = "flat8" THEN x ELSE x % (NARROW_LIMIT + 1)

\* slots + 1 cumulative offsets, those past the last key repeating the total.
LOCAL Offs(chunk, slots) == [k \in 1 .. slots + 1 |-> SumOf(SubSeq(chunk, 1, Min({k - 1, Len(chunk)})))]

LOCAL Row(tag, chunk, index) ==
    IF SumOf(chunk) > Most(tag) THEN <<Mark, Word(tag, index)>> \o [k \in 1 .. Slots(tag) - 1 |-> 0]
    ELSE [k \in 1 .. Slots(tag) + 1 |-> Offs(chunk, Slots(tag))[k] % (Most(tag) + 1)]
LOCAL FpRow(tag, fps, j) ==
    IF tag.fp THEN [k \in 1 .. Slots(tag) |-> LET i == (j - 1) * Slots(tag) + k
                                              IN  IF i <= Len(fps) THEN fps[i] ELSE 0]
    ELSE <<>>
LOCAL BlockCells(tag, lens, fps, j) ==
    <<Word(tag, SumOf(SubSeq(lens, 1, (j - 1) * Slots(tag))))>>
      \o Row(tag, Chunk(lens, Slots(tag), j), Overflowing(SubSeq(lens, 1, (j - 1) * Slots(tag)), tag))
      \o FpRow(tag, fps, j)
LOCAL FlatCells(tag, lens, fps) ==
    [i \in 1 .. Len(lens) + 1 |-> Word(tag, SumOf(SubSeq(lens, 1, i - 1)))] \o (IF tag.fp THEN fps ELSE <<>>)
LOCAL Entry(tag, chunk) ==
    IF SumOf(chunk) <= Most(tag) THEN <<>>
    ELSE [k \in 1 .. Slots(tag) + 1 |-> Word(tag, Offs(chunk, Slots(tag))[k])]
LOCAL Tail_of(over) == over \o <<Len(over)>>
LOCAL Each(n, F(_)) == FlattenSeq([j \in 1 .. n |-> F(j)])

\* The table, and the tail behind the data.
write_offsets(tag, lens, fps) ==
    IF tag.kind \in {"flat4", "flat8"} THEN [table |-> FlatCells(tag, lens, fps), tail |-> <<>>]
    ELSE [table |-> Each(Ceil(Len(lens), Slots(tag)), LAMBDA j : BlockCells(tag, lens, fps, j)),
          tail  |-> IF ~tag.overflow THEN <<>>
                    ELSE Tail_of(Each(Ceil(Len(lens), Slots(tag)),
                                      LAMBDA j : Entry(tag, Chunk(lens, Slots(tag), j))))]

NoBlob == <<>>
LOCAL Laid(items, tag, put) == <<Len(items) + 1, tag>> \o put.table \o FlattenSeq(items) \o put.tail
LOCAL LensOf(items) == [i \in DOMAIN items |-> Len(items[i])]
LOCAL LaidAs(items, lens, fp, fps, tag) == Laid(items, tag, write_offsets(tag, lens, fps))
\* assemble, lay_out_blocked: none where the iterator is not the n strings it was said to be, or the
\* fingerprints not one each. The tag is of the bytes written.
lay_out_blocked(items, n, fp, fps, limit) ==
    IF (fp /\ Len(fps) # n) \/ Len(items) # n THEN NoBlob
    ELSE LaidAs(items, LensOf(items), fp, fps, tag_for(LensOf(items), SumOf(LensOf(items)), fp, limit))
build_exact(items, n, fp, fps, limit) ==
    LET first == lay_out_blocked(items, n, fp, fps, limit)
    IN  IF first # NoBlob THEN first ELSE lay_out_blocked(items, Len(items), fp, fps, limit)

\* prefix_for_lengths: the same from the lengths, for bytes put in place later.
LOCAL PrefixAs(lens, tag, put) ==
    [prefix |-> <<Len(lens) + 1, tag>> \o put.table, data_len |-> SumOf(lens), tag |-> tag, tail |-> put.tail]
LOCAL PrefixTagged(lens, fps, tag) == PrefixAs(lens, tag, write_offsets(tag, lens, fps))
prefix_for_lengths(lens, fp, fps, limit) == PrefixTagged(lens, fps, tag_for(lens, SumOf(lens), fp, limit))
-------------------------------------------------------------------------------
(* The merged arena. *)

NoShape == [bytes |-> -1]

\* Fault: a length as long as the escape is taken to fit the field.
need_bitsFull(lens, least) ==
    Told([b \in 0 .. 33 |-> CountIf(DOMAIN lens, LAMBDA i : Bits(lens[i] - least) = b)])

\* need[b]: the lengths whose excess takes a field of b bits, all ones of it kept for an escape.
need_bits(lens, least) ==
    Told([b \in 0 .. 33 |-> CountIf(DOMAIN lens, LAMBDA i : Bits(lens[i] - least + 1) = b)])

LOCAL ShapeAt(bits, escaped, n, least, start_bits, data_len, fp) ==
    [min_len |-> least, len_bits |-> bits, start_bits |-> start_bits, width |-> start_bits + bits, escaped |-> escaped,
     bytes |-> HEADER + PARAMS + PAD + n * One(fp) + Ceil(n * (start_bits + bits), Byte) + data_len
                 + (IF escaped > 0 THEN escaped * SLOT_LEN + TRAILER ELSE 0)]
LOCAL LeastShape(shapes) ==
    IF shapes = {} THEN NoShape
    ELSE CHOOSE s \in shapes : \A o \in shapes : s.bytes < o.bytes \/ (s.bytes = o.bytes /\ s.len_bits <= o.len_bits)
\* The length field that makes the whole least; no bits hold one length and no escape.
from_need(need, n, least, start_bits, data_len, fp) ==
    LET widest == Max({0} \cup {b \in DOMAIN need : b > 0 /\ need[b] > 0})
        past(bits) == IF bits = 0 THEN 0 ELSE MapThenSumSet(LAMBDA b : need[b], bits + 1 .. 33)
    IN  IF widest = 0 THEN NoShape
        ELSE LeastShape({ShapeAt(bits, past(bits), n, least, start_bits, data_len, fp) :
                           bits \in {b \in 0 .. widest : (b = 0 => widest = 1) /\ start_bits + b <= MAX_WIDTH}})
\* MergedShape::of, over <<start, length>> a slot.
ShapeOf(spans, data_len, fp) ==
    LET lens  == [i \in DOMAIN spans |-> spans[i][2]]
        least == Min(ToSet(lens))
    IN  from_need(need_bits(lens, least), Len(spans), least,
                  Max({1, Bits(Max({spans[i][1] : i \in DOMAIN spans}))}), data_len, fp)

\* The entries' bits laid end to end, as bytes.
LOCAL BitAt(entries, width, p) == (entries[p \div width + 1] \div 2 ^ (p % width)) % 2
PackEntries(entries, width) ==
    [j \in 1 .. Ceil(Len(entries) * width, Byte) |->
        MapThenSumSet(LAMBDA p : IF p >= Len(entries) * width THEN 0
                                 ELSE BitAt(entries, width, p) * 2 ^ (p - (j - 1) * Byte),
                      (j - 1) * Byte .. j * Byte - 1)]

LOCAL Escapes(shape, len) == shape.len_bits > 0 /\ len - shape.min_len >= 2 ^ shape.len_bits - 1
LOCAL Field(shape, len) == IF Escapes(shape, len) THEN 2 ^ shape.len_bits - 1 ELSE len - shape.min_len
LOCAL EntriesOf(spans, shape) ==
    Told([i \in DOMAIN spans |-> Field(shape, spans[i][2]) + spans[i][1] * 2 ^ shape.len_bits])
LOCAL Escaped(spans, shape) ==
    Each(Len(spans), LAMBDA i : IF Escapes(shape, spans[i][2]) THEN <<i - 1, spans[i][2]>> ELSE <<>>)
lay_out_merged(data, spans, fp, fps, shape) ==
    <<Len(spans) + 1, Tag("merged", FALSE, shape.escaped > 0, fp), shape.min_len, shape.len_bits, shape.start_bits,
      Len(data)>>
      \o (IF fp THEN fps ELSE <<>>) \o PackEntries(EntriesOf(spans, shape), shape.width) \o [i \in 1 .. PAD |-> 0]
      \o data \o (IF shape.escaped > 0 THEN Tail_of(Escaped(spans, shape)) ELSE <<>>)

LOCAL MergedAs(got, spans, fp, fps, beat, shape) ==
    IF shape = NoShape \/ shape.bytes >= beat THEN NoBlob ELSE lay_out_merged(got.data, spans, fp, fps, shape)
LOCAL MergedSpans(got, spans, fp, fps, beat) ==
    MergedAs(got, spans, fp, fps, beat, ShapeOf(spans, Len(got.data), fp))
LOCAL MergedFrom(got, keys, order, fp, fps, beat) ==
    IF ~got.some THEN NoBlob
    ELSE MergedSpans(got, Told([i \in DOMAIN order |-> <<got.starts[order[i]], Len(keys[order[i]])>>]), fp, fps, beat)
merged(keys, order, threads, fp, fps, beat) ==
    IF fp /\ Len(fps) # Len(order) THEN NoBlob
    ELSE MergedFrom(merge(keys, order, threads), keys, order, fp, fps, beat)

-------------------------------------------------------------------------------
(* Whether to merge at all. *)

long_keys_hold_too_much(lens, data_len) ==
    SumOf(SelectSeq(lens, LAMBDA l : l > 16 * (data_len \div Len(lens)))) > data_len \div 16

prefix_contained_bytes(keys) ==
    MapThenSumSet(LAMBDA i : IF IsPrefix(keys[i], keys[i + 1]) THEN Len(keys[i]) ELSE 0, 1 .. Len(keys) - 1)

\* Every every-th slot's key, in the keys' order.
draw_of(keys, order, every) ==
    LET picked == {order[i] : i \in {j \in DOMAIN order : (j - 1) % every = 0}}
    IN  Told([k \in 1 .. Cardinality(picked) |->
                keys[CHOOSE p \in picked : CountIf(picked, LAMBDA q : q < p) = k - 1]])

LOCAL Scaled(draw, every, len) ==
    IF len = -1 THEN -1
    ELSE (SumOf(LensOf(draw)) - prefix_contained_bytes(draw) - len) * every
\* What a merge saves on a draw, scaled; -1 where it cannot be merged or `stop` is seen.
rest_of_draw(draw, every, stop) ==
    Scaled(draw, every, merge_len(draw, Told([i \in 1 .. Len(draw) |-> i]), 1, stop))

\* What the answer is worked out from.
LOCAL Facts(keys, lens, data_len, fp, blocked) ==
    [need |-> need_bits(lens, Min(ToSet(lens))), n |-> Len(keys), least |-> Min(ToSet(lens)),
     longest |-> Max(ToSet(lens)), data_len |-> data_len, fp |-> fp, blocked |-> blocked,
     contained |-> prefix_contained_bytes(keys)]
LOCAL Wins(f, data) ==
    LET shape == from_need(f.need, f.n, f.least, Max({1, Bits(Max({0, data - f.longest}))}), data, f.fp)
    IN  shape = NoShape \/ shape.bytes < f.blocked
\* Whether the merge would win if it saved `rest` beyond the keys that are prefixes of the next.
WinsWith(f, rest) == Wins(f, Max({0, f.data_len - f.contained - rest}))
LOCAL UnlessWon(f, rest) == IF rest = -1 \/ WinsWith(f, (rest * 9) \div 5) THEN -1 ELSE rest
unpromising(f, draw, every, stop) == UnlessWon(f, rest_of_draw(draw, every, stop))

\* Two draws on two threads: either ends first, and one that is no longer wanted may see it.
LOCAL Either(a, b) == {<<a, b>>} \cup (IF a = -1 THEN {<<a, -1>>} ELSE {}) \cup (IF b = -1 THEN {<<-1, b>>} ELSE {})
TwoDraws(f, keys, order) ==
    Either(unpromising(f, draw_of(keys, order, 2 * DRAWN), 2 * DRAWN, FALSE),
           unpromising(f, draw_of(keys, order, DRAWN), DRAWN, FALSE))

LOCAL OnLine(f, line) == ~WinsWith(f, line + line \div 8)
LOCAL FromTwo(f, sixteenth, eighth) ==
    /\ sixteenth # -1 /\ eighth # -1
    /\ OnLine(f, eighth + 2 * (DRAWN - 1) * Max({0, eighth - sixteenth}))
LOCAL FromOne(f, keys, order, first) ==
    IF first = -1 THEN {FALSE}
    ELSE IF ~WinsWith(f, first * 4 * DRAWN + (first * 4 * DRAWN) \div 8) THEN {TRUE}
    ELSE {FromTwo(f, two[1], two[2]) : two \in TwoDraws(f, keys, order)}
LOCAL FromDraws(f, keys, order) ==
    FromOne(f, keys, order, unpromising(f, draw_of(keys, order, 4 * DRAWN), 4 * DRAWN, FALSE))
\* The answers the threads' timing leaves open.
merge_cannot_win(keys, order, lens, data_len, fp, blocked) ==
    IF Len(keys) < PREFLIGHT_KEYS \/ long_keys_hold_too_much(lens, data_len) THEN {FALSE}
    ELSE FromDraws(Facts(keys, lens, data_len, fp, blocked), keys, order)

LOCAL Smallest(items, fp, fps, limit, got) ==
    IF got # NoBlob THEN got ELSE build_exact(items, Len(items), fp, fps, limit)
LOCAL CheapestOf(keys, order, threads, fp, fps, items, limit, blocked) ==
    {Smallest(items, fp, fps, limit, IF hopeless THEN NoBlob ELSE merged(keys, order, threads, fp, fps, blocked)) :
        hopeless \in merge_cannot_win(keys, order, LensOf(items), SumOf(LensOf(items)), fp, blocked)}
LOCAL CheapestItems(keys, order, threads, fp, fps, items, limit) ==
    CheapestOf(keys, order, threads, fp, fps, items, limit,
               blocked_len(LensOf(items), SumOf(LensOf(items)), fp, limit))
\* The arenas a build may come to over sorted keys in a slot order; a tie keeps the blocked layout.
build_cheapest(keys, order, threads, fp, fps, limit) ==
    CheapestItems(keys, order, threads, fp, fps, Told([i \in DOMAIN order |-> keys[order[i]]]), limit)
-------------------------------------------------------------------------------
(* Reading a slot. *)

NoSpan == [lo |-> -1, hi |-> -1]
AnyFp  == -1      \* a read that asks for no fingerprint

LOCAL RuledOut(tag, want, fp) == tag.fp /\ want # AnyFp /\ want # fp
span_from(base, lo, hi) == IF hi < lo THEN NoSpan ELSE [lo |-> base + lo, hi |-> base + hi]

\* A marked block's slot k, in the overflow table.
overflow_span(over, index, slots, k, base) ==
    LET start == index * (slots + 1)
    IN  IF start + slots + 1 > Len(over) THEN NoSpan ELSE span_from(base, over[start + k + 1], over[start + k + 2])

LOCAL InBlockAt(block, over, tag, slots, k, want) ==
    IF tag.fp /\ RuledOut(tag, want, block[slots + 3 + k]) THEN NoSpan
    ELSE IF block[2] = 0 THEN span_from(block[1], block[2 + k], block[3 + k])
    ELSE overflow_span(over, block[3], slots, k, block[1])
in_block(block, over, tag, i, want) == InBlockAt(block, over, tag, Slots(tag), i % Slots(tag), want)

\* Where the cells a slot is read from start, and how many they are.
offsets_start(tag, i) ==
    InCells.head + (IF tag.kind \in {"u8", "u16"} THEN (i \div Slots(tag)) * block_bytes(Slots(tag), InCells, tag.fp)
                    ELSE i)
LOCAL Taken_from(tag) == IF tag.kind \in {"u8", "u16"} THEN block_bytes(Slots(tag), InCells, tag.fp) ELSE 2

LOCAL FlatEntry(b, tag, n, i, want) ==
    LET row == InCells.head + n + 1 + i
    IN  IF tag.fp /\ row >= Len(b) THEN NoSpan
        ELSE IF tag.fp /\ RuledOut(tag, want, b[row + 1]) THEN NoSpan
        ELSE span_from(0, b[offsets_start(tag, i) + 1], b[offsets_start(tag, i) + 2])
\* entry_of: a slot's span in the data of a blocked or flat arena.
entry_of(b, over, tag, n, i, want) ==
    IF offsets_start(tag, i) + Taken_from(tag) > Len(b) THEN NoSpan
    ELSE IF tag.kind \in {"u8", "u16"}
    THEN in_block(SubSeq(b, offsets_start(tag, i) + 1, offsets_start(tag, i) + Taken_from(tag)), over, tag, i, want)
    ELSE FlatEntry(b, tag, n, i, want)

LOCAL Half_way(table, i, at) ==
    IF at[1] = at[2] THEN at
    ELSE IF table[2 * ((at[1] + at[2]) \div 2) + 1] < i THEN <<(at[1] + at[2]) \div 2 + 1, at[2]>>
    ELSE <<at[1], (at[1] + at[2]) \div 2>>
LOCAL Found(table, i, at) == IF at < Len(table) \div 2 /\ table[2 * at + 1] = i THEN table[2 * at + 2] ELSE -1
\* The length of a slot whose field escaped, by halving; -1 where the table has none.
escaped_len(table, i) ==
    LET at[d \in 0 .. Len(table)] ==
            IF d = 0 THEN <<0, Len(table) \div 2>> ELSE Half_way(table, i, at[d - 1])
    IN  Found(table, i, at[Len(table)][1])

LOCAL EntryAt(x, i) == (i * x.width) \div Byte
\* The word an entry is in, past the fingerprints, and the entry in it.
LOCAL Raw(x, at) == MapThenSumSet(LAMBDA j : (x.b[at + j] % 2 ^ Byte) * 2 ^ (Byte * (j - 1)), 1 .. WordBytes)
LOCAL EntryBits(x, i) == (Raw(x, x.table + EntryAt(x, i)) \div 2 ^ ((i * x.width) % Byte)) % 2 ^ x.width
LOCAL HeldToData(x, start, len) ==
    IF len = -1 \/ start + len > x.data_len THEN NoSpan ELSE [lo |-> start, hi |-> start + len]
LOCAL LenOf(x, i, field) ==
    IF x.len_bits > 0 /\ field = 2 ^ x.len_bits - 1 THEN escaped_len(x.over, i) ELSE x.min_len + field
LOCAL MergedRead(x, i, word) ==
    HeldToData(x, word \div 2 ^ x.len_bits, LenOf(x, i, word % 2 ^ x.len_bits))
merged_entry(x, i, want) ==
    IF RuledOut(x.tag, want, IF x.tag.fp THEN x.b[7 + i] ELSE 0) THEN NoSpan ELSE MergedRead(x, i, EntryBits(x, i))

LOCAL InData(x, span) == IF span.hi > x.data_len THEN NoSpan ELSE span
\* entry, span: where slot i's key is in the data.
span(x, i, want) ==
    IF i >= x.n THEN NoSpan
    ELSE IF x.tag.kind = "merged" THEN merged_entry(x, i, want)
    ELSE InData(x, entry_of(x.b, x.over, x.tag, x.n, i, want))

Missing == <<-1>>
LOCAL BytesOf(x, at) == IF at = NoSpan THEN Missing ELSE SubSeq(x.b, x.data_start + at.lo + 1, x.data_start + at.hi)
get(x, i, want) == BytesOf(x, span(x, i, want))

-------------------------------------------------------------------------------
(* The load. *)

Refused == [n |-> -1]
LOCAL Geometry(b, tag) ==
    IF tag.kind = "merged" /\ Len(b) >= 6
    THEN [min_len |-> b[3], len_bits |-> b[4], width |-> b[5] + b[4], said |-> b[6]]
    ELSE [min_len |-> 0, len_bits |-> 0, width |-> 0, said |-> -1]
\* A tag this format has, its entries' geometry one that a word reads.
Known(b, tag, g) ==
    /\ tag.kind \in {"flat4", "flat8"} => ~tag.wide /\ ~tag.overflow
    /\ tag.kind = "merged" => /\ ~tag.wide /\ Len(b) >= 6 /\ g.width <= MAX_WIDTH
                              /\ (g.width = 0 => b[1] = 1)
TableAt(tag, n) == 6 + n * One(tag.fp)
LOCAL DataStart(tag, n, g) ==
    IF tag.kind = "merged" THEN TableAt(tag, n) + Ceil(n * g.width, Byte) + PAD ELSE prefix_len(tag, n, InCells)

LOCAL Loaded(b, tag, n, g, start, end, over) ==
    [b |-> b, n |-> n, tag |-> tag, data_start |-> start, data_len |-> end - start, over |-> over,
     min_len |-> g.min_len, len_bits |-> g.len_bits, width |-> g.width, table |-> TableAt(tag, n)]
\* The first key starts the data and the last one ends it; a merged arena's header says how long it is.
LOCAL Ends(x) ==
    IF x.n = 0 THEN [lo |-> 0, hi |-> 0, read |-> TRUE]
    ELSE LET first == entry_of(x.b, x.over, x.tag, x.n, 0, AnyFp)
             last  == entry_of(x.b, x.over, x.tag, x.n, x.n - 1, AnyFp)
         IN  [lo |-> first.lo, hi |-> last.hi, read |-> first # NoSpan /\ last # NoSpan]
LOCAL Spanning(x, g) ==
    IF x.tag.kind = "merged" THEN (IF g.said = x.data_len THEN x ELSE Refused)
    ELSE IF Ends(x) = [lo |-> 0, hi |-> x.data_len, read |-> TRUE] THEN x ELSE Refused
LOCAL WithTail(b, tag, n, g, start, trailer) ==
    IF ~tag.overflow THEN Spanning(Loaded(b, tag, n, g, start, Len(b), <<>>), g)
    ELSE IF trailer < start THEN Refused
    ELSE IF b[Len(b)] \notin 0 .. trailer - start \/ b[Len(b)] % overflow_entry_bytes(tag, InCells) # 0 THEN Refused
    ELSE Spanning(Loaded(b, tag, n, g, start, trailer - b[Len(b)], SubSeq(b, trailer - b[Len(b)] + 1, trailer)), g)
LOCAL LoadAs(b, tag, n, g, start) ==
    IF Len(b) < start THEN Refused ELSE WithTail(b, tag, n, g, start, Len(b) - 1)
LOCAL LoadTagged(b, tag, n, g) == IF Known(b, tag, g) THEN LoadAs(b, tag, n, g, DataStart(tag, n, g)) ELSE Refused
\* from_shared.
from_shared(b) ==
    IF Len(b) < 2 THEN Refused
    ELSE IF b[1] = 0 THEN Refused ELSE LoadTagged(b, b[2], b[1] - 1, Geometry(b, b[2]))

\* span_at: a slot's span read off the prefix and the tail alone.
span_at(p, i) ==
    entry_of(p.prefix, SubSeq(p.tail, 1, Max({0, Len(p.tail) - 1})), p.tag, p.prefix[1] - 1, i, AnyFp)

-------------------------------------------------------------------------------
(* What is promised of a case [keys, order, fp, limit]. *)

FpOf(key) == 1 + ((Len(key) + (IF key = <<>> THEN 0 ELSE key[1])) % 2)
LOCAL Reads(x, items, fps) ==
    /\ x # Refused /\ x.n = Len(items) /\ get(x, x.n, AnyFp) = Missing
    /\ \A i \in DOMAIN items :
         /\ get(x, i - 1, AnyFp) = items[i] /\ get(x, i - 1, fps[i]) = items[i]
         /\ x.tag.fp => get(x, i - 1, 3 - fps[i]) = Missing
\* What a blob takes on disk.
SizeOf(x) ==
    (IF x.tag.kind = "merged" THEN HEADER + PARAMS + PAD + x.n * One(x.tag.fp) + Ceil(x.n * x.width, Byte)
     ELSE prefix_len(x.tag, x.n, InBytes(x.tag)))
      + x.data_len
      + (IF ~x.tag.overflow THEN 0
         ELSE TRAILER + (Len(x.over) \div overflow_entry_bytes(x.tag, InCells))
                          * (IF x.tag.kind = "merged" THEN SLOT_LEN ELSE overflow_entry_bytes(x.tag, InBytes(x.tag))))

LOCAL PrefixReads(p, items, b) ==
    /\ p.prefix \o FlattenSeq(items) \o p.tail = b
    /\ \A i \in DOMAIN items :
         span_at(p, i - 1) = [lo |-> SumOf(LensOf(SubSeq(items, 1, i - 1))), hi |-> SumOf(LensOf(SubSeq(items, 1, i)))]
LOCAL BlockedReads(c, items, fps, b) ==
    /\ Reads(from_shared(b), items, fps)
    /\ SizeOf(from_shared(b)) = blocked_len(LensOf(items), SumOf(LensOf(items)), c.fp, c.limit)
    /\ PrefixReads(prefix_for_lengths(LensOf(items), c.fp, fps, c.limit), items, b)
LOCAL CheapestReads(c, items, fps, built, blocked) ==
    /\ Cardinality(built) = 1
    /\ \A b \in built : LET x == from_shared(b) IN Reads(x, items, fps) /\ SizeOf(x) <= SizeOf(blocked)
LOCAL ReadsOf(c, items, fps) ==
    LET b == build_exact(items, Len(items), c.fp, fps, c.limit)
    IN  /\ BlockedReads(c, items, fps, b)
        /\ \A hint \in {0, Len(items) + 1} : build_exact(items, hint, c.fp, fps, c.limit) = b
        /\ CheapestReads(c, items, fps, build_cheapest(c.keys, c.order, 2, c.fp, fps, c.limit), from_shared(b))
\* Every slot reads its key back, under every layout, with its fingerprint or none and not with
\* another, off a wrong hint, and off a prefix alone; a blob is as long as priced, the smallest is
\* one whatever the threads, and none longer than the blocked one.
SlotsReadBack(c) ==
    LET items == Told([i \in DOMAIN c.order |-> c.keys[c.order[i]]])
    IN  ReadsOf(c, items, Told([i \in DOMAIN items |-> FpOf(items[i])]))

LOCAL Tampered(b, at, cell) == [b EXCEPT ![at] = cell]
\* A blob with one cell changed or its end gone is refused, or every read of it stays in it: the
\* cells a slot is read from lie before the data, and its span in the data.
LOCAL StaysInside(x) ==
    x # Refused =>
        /\ x.data_start + x.data_len <= Len(x.b)
        /\ \A i \in 0 .. x.n - 1 :
             /\ IF x.tag.kind = "merged" THEN x.table + EntryAt(x, i) + WordBytes <= x.data_start
                ELSE offsets_start(x.tag, i) + Taken_from(x.tag) <= x.data_start
             /\ \A want \in {AnyFp, 1} : span(x, i, want).hi <= x.data_len
LOCAL TamperedInside(c, b) ==
    StaysInside(from_shared(
        IF c.at > Len(b) THEN b
        ELSE IF c.at = 0 THEN SubSeq(b, 1, Len(b) - c.cell)
        ELSE Tampered(b, c.at, IF c.at # 2 THEN c.cell ELSE [b[2] EXCEPT !.overflow = c.cell = 1, !.wide = c.cell = 2,
                                                             !.fp = c.cell = 3, !.kind = IF c.cell > 3 THEN "u16" ELSE @])))
TamperedStaysInside(c) ==
    LET items == Told([i \in DOMAIN c.order |-> c.keys[c.order[i]]])
        fps == Told([i \in DOMAIN items |-> FpOf(items[i])])
    IN  \A b \in build_cheapest(c.keys, c.order, 1, c.fp, fps, c.limit) : TamperedInside(c, b)
=================================================================================
