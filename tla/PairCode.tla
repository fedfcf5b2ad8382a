-------------------------------- MODULE PairCode --------------------------------
(***************************************************************************)
(* The code of a front-coded run's pairs, of a shared prefix's length and  *)
(* a suffix's (src/src/paircode.rs): a frame of reference a run, or a      *)
(* table a group, whichever is smaller; the codes at a fixed width, their  *)
(* all-ones value an escape that continues as two varints in the suffixes. *)
(* Of the suffixes only these varints are here.                            *)
(***************************************************************************)
EXTENDS Integers, Sequences, FiniteSets, FiniteSetsExt, SequencesExt

CONSTANTS
    Byte,           \* bits of a byte, 8 in the code; half of them a nibble
    WordBytes,      \* bytes of a word, 8 in the code
    Usize,          \* bits of a length, 64
    FRAME_MAX,      \* the widest field of a frame, 15: a nibble
    TABLE_MAX,      \* the widest index of a table, 10
    PROLOGUE_MAX, OFFSET_MAX    \* bits of a run's prologue and of an offset in it: 56, 32

FIELD_MAX    == 2 ^ Byte - 1
Nibble       == 2 ^ (Byte \div 2)
Carry        == 2 ^ (Byte - 1)
TABLE_HEADER == 4
None         == <<>>

Ceil(a, b)  == (a + b - 1) \div b
Least(a, b) == IF a < b THEN a ELSE b
Sum(f)      == FoldFunction(+, 0, f)
\* The function with each of its values worked out once.
Told(f)     == f @@ <<>>
top(w)      == 2 ^ w - 1
\* Bits an offset needs.
bits_of(d)  == Min({b \in 0 .. Usize : d < 2 ^ b})

-------------------------------------------------------------------------------
(* Bytes. *)

RECURSIVE put_varint(_)
put_varint(v) == IF v < Carry THEN <<v>> ELSE <<(v % Carry) + Carry>> \o put_varint(v \div Carry)
varint_len(v) == Min({n \in 1 .. Usize : v < Carry ^ n})

RECURSIVE VarintFrom(_, _, _)
VarintFrom(data, at, shift) ==
    IF at >= Len(data) THEN None
    ELSE LET b    == data[at + 1]
             more == VarintFrom(data, at + 1, shift + Byte - 1)
         IN  IF shift >= Usize \/ (b % Carry) * 2 ^ shift >= 2 ^ Usize THEN None
             ELSE IF b < Carry THEN <<b * 2 ^ shift, at + 1>>
             ELSE IF more = None THEN None
             ELSE <<(b % Carry) * 2 ^ shift + more[1], more[2]>>
\* The varint at `at` and where it ends.
varint_at(data, at) == VarintFrom(data, at, 0)

\* Little-endian values at their bits, as bytes.
Bits(v, at)  == {b \in at .. at + Usize : (v \div 2 ^ (b - at)) % 2 = 1}
InBytes(on, bits) ==
    [j \in 1 .. Ceil(bits, Byte) |-> MapThenSumSet(LAMBDA b : 2 ^ (b % Byte), {b \in on : b \div Byte = j - 1})]
\* The word at a byte, padded with zeroes past the end (tail_word).
WordAt(data, byte) ==
    Sum([j \in 1 .. WordBytes |-> IF byte + j <= Len(data) THEN data[byte + j] * 2 ^ (Byte * (j - 1)) ELSE 0])

-------------------------------------------------------------------------------
(* A run's frame. *)

bases(pairs) == <<Min({pairs[i][1] : i \in DOMAIN pairs}), Min({pairs[i][2] : i \in DOMAIN pairs})>>
escape_len(p) == varint_len(p[1]) + varint_len(p[2])
Escapes(pairs, I) == MapThenSumSet(LAMBDA i : escape_len(pairs[i]), I)

\* Whether two offsets fit the widths without landing on the escape.
frame_fits(dl, dn, wl, wn) == dl <= top(wl) /\ dn <= top(wn) /\ <<dl, dn>> # <<top(wl), top(wn)>>

\* The first of the cheapest, a row at a time.
FirstCheapest(cost) ==
    LET cheapest == {w \in DOMAIN cost : \A v \in DOMAIN cost : cost[w] <= cost[v]}
        row == Min({w[1] : w \in cheapest})
    IN  <<row, Min({w[2] : w \in {v \in cheapest : v[1] = row}})>>

\* Fault: the pairs whose offsets spell the escape are taken to fit.
CornerFits(pairs, need, w) == 0

\* Escape bytes of the pairs whose offsets are both all ones at the widths w.
Corner(pairs, need, w) ==
    LET lo == bases(pairs)
        AllOnes(d) == d + 1 = 2 ^ bits_of(d)
    IN  Escapes(pairs, {i \in DOMAIN pairs :
                           need[i] = w /\ AllOnes(pairs[i][1] - lo[1]) /\ AllOnes(pairs[i][2] - lo[2])})

\* The bits that each pair's offsets need.
Needs(pairs, lo) ==
    Told([i \in DOMAIN pairs |-> [k \in 1 .. 2 |-> Least(bits_of(pairs[i][k] - lo[k]), FRAME_MAX + 1)] \o <<>>])

\* The escape bytes at each pair of widths that may be the cheapest.
EscapesAt(pairs, need) ==
    LET Widest(k) == Least(Max({need[i][k] : i \in DOMAIN pairs}) + 1, FRAME_MAX)
        Past(w) == {i \in DOMAIN pairs : need[i][1] > w[1] \/ need[i][2] > w[2]}
    IN  Told([w \in (0 .. Widest(1)) \X (0 .. Widest(2)) |-> Escapes(pairs, Past(w)) + Corner(pairs, need, w)])

\* The cheapest widths, given what escapes at each, and the escape bytes they leave.
WidthsFor(pairs, esc) ==
    LET best == FirstCheapest(Told([w \in DOMAIN esc |-> Ceil(Len(pairs) * (w[1] + w[2]), Byte) + esc[w]]))
    IN  <<best[1], best[2], esc[best]>>
frame_widths(pairs) == WidthsFor(pairs, EscapesAt(pairs, Needs(pairs, bases(pairs))))

FitOf(pairs, w) == [lo |-> bases(pairs) \o <<w[1], w[2]>>, esc |-> w[3], n |-> Len(pairs)]
fit_run(pairs) == FitOf(pairs, frame_widths(pairs))

\* A group's frames: the least base and width of each field, and the bits of the offsets to a run's.
NONE == [lo |-> <<0, 0, 0, 0>>, p |-> <<0, 0, 0, 0>>]
new(lo, p) == IF Sum(p) > PROLOGUE_MAX \/ p[1] > OFFSET_MAX \/ p[2] > OFFSET_MAX THEN None
              ELSE [lo |-> lo, p |-> p]
over(fits) ==
    LET Field(k) == {fits[r].lo[k] : r \in DOMAIN fits}
    IN  IF fits = <<>> THEN None
        ELSE new([k \in 1 .. 4 |-> Min(Field(k))], [k \in 1 .. 4 |-> bits_of(Max(Field(k)) - Min(Field(k)))])

sh(f, k)   == Sum([j \in 1 .. k - 1 |-> f.p[j]])
FrameLen(f) == varint_len(f.lo[1]) + varint_len(f.lo[2]) + 4
cost(f, fits) ==
    FrameLen(f) + Sum([r \in DOMAIN fits |->
                       Ceil(Sum(f.p) + fits[r].n * (fits[r].lo[3] + fits[r].lo[4]), Byte) + fits[r].esc])

-------------------------------------------------------------------------------
(* A group's table, and the choice between the two. *)

Frame(f)    == [kind |-> "frame", f |-> f]
Table(w, t) == [kind |-> "table", w |-> w, pairs |-> t]

Namable(p) == p[1] <= FIELD_MAX /\ p[2] <= FIELD_MAX
\* The pairs a table may hold, those that save most first.
RankedPairs(all) ==
    LET named == {p \in ToSet(all) : Namable(p)}
        Saved(p) == Cardinality({i \in DOMAIN all : all[i] = p}) * escape_len(p)
        Before(p, q) == \/ Saved(p) > Saved(q)
                        \/ Saved(p) = Saved(q) /\ (p[1] < q[1] \/ (p[1] = q[1] /\ p[2] < q[2]))
    IN  Told([i \in 1 .. Cardinality(named) |->
                 CHOOSE p \in named : Cardinality({q \in named : Before(q, p)}) = i - 1])

SlotsOf(ranked, w) == SubSeq(ranked, 1, Least(top(w), Len(ranked)))
\* What the codes, the escapes and the table come to at each width.
TablePrices(all, ranked) ==
    Told([w \in 1 .. TABLE_MAX |->
        Ceil(Len(all) * w, Byte) + Escapes(all, {i \in DOMAIN all : all[i] \notin ToSet(SlotsOf(ranked, w))})
          + TABLE_HEADER + 2 * Len(SlotsOf(ranked, w))])
CheapestTable(ranked, price) ==
    LET best == Min({w \in DOMAIN price : \A v \in DOMAIN price : price[w] <= price[v]})
    IN  <<Table(best, SlotsOf(ranked, best)), price[best]>>
TableFor(all, ranked) == CheapestTable(ranked, TablePrices(all, ranked))
best_table(runs) ==
    LET all == FlattenSeq(runs) IN IF all = <<>> THEN None ELSE TableFor(all, RankedPairs(all))

Full(runs) == SelectSeq(runs, LAMBDA r : r # <<>>)
FitsOf(full) == Told([r \in DOMAIN full |-> fit_run(full[r])])
Cheaper(table, f, fits) ==
    IF table # None /\ (f = None \/ table[2] < cost(f, fits)) THEN table
    ELSE IF f # None THEN <<Frame(f), cost(f, fits)>>
    ELSE <<Frame(NONE), 0>>
CheaperOf(table, fits) == Cheaper(table, over(fits), fits)

\* The cheaper code of a group's runs, and what it is reckoned to cost.
choose_cost(runs) == CheaperOf(best_table(runs), FitsOf(Full(runs)))

-------------------------------------------------------------------------------
(* The code in a blob. *)

\* A pair is the low byte and the high byte of a table's entry.
write_to(code) ==
    IF code.kind = "frame"
    THEN <<0>> \o put_varint(code.f.lo[1]) \o put_varint(code.f.lo[2])
           \o <<code.f.lo[3] * Nibble + code.f.lo[4], code.f.p[1], code.f.p[2], code.f.p[3] * Nibble + code.f.p[4]>>
    ELSE <<1, code.w, Len(code.pairs) % 2 ^ Byte, Len(code.pairs) \div 2 ^ Byte>>
           \o FlattenSeq([i \in DOMAIN code.pairs |-> <<code.pairs[i][2], code.pairs[i][1]>>])

ReadFrames(bytes) ==
    LET bl == varint_at(bytes, 1)
        bn == varint_at(bytes, bl[2])
        at == bn[2]
        f  == new(<<bl[1], bn[1], bytes[at + 1] \div Nibble, bytes[at + 1] % Nibble>>,
                  <<bytes[at + 2], bytes[at + 3], bytes[at + 4] \div Nibble, bytes[at + 4] % Nibble>>)
    IN  IF bl = None \/ bn = None \/ at + 4 > Len(bytes) \/ f = None THEN None ELSE <<Frame(f), at + 4>>
ReadTable(bytes) ==
    LET w     == bytes[2]
        count == bytes[3] + bytes[4] * 2 ^ Byte
    IN  IF Len(bytes) < TABLE_HEADER \/ w = 0 \/ w > TABLE_MAX \/ count > top(w) \/ TABLE_HEADER + 2 * count > Len(bytes)
        THEN None
        ELSE <<Table(w, [i \in 1 .. count |-> <<bytes[4 + 2 * i], bytes[3 + 2 * i]>>]), TABLE_HEADER + 2 * count>>
\* The code at the start of the bytes, and where it ends.
read(bytes) ==
    IF bytes = <<>> THEN None
    ELSE IF bytes[1] = 0 THEN ReadFrames(bytes) ELSE IF bytes[1] = 1 THEN ReadTable(bytes) ELSE None

-------------------------------------------------------------------------------
(* A run written. *)

\* What the group's fields hold of a run's frame, cut to their bits.
Offsets(f, lo) == Told([k \in 1 .. 4 |-> Least(Max({lo[k] - f.lo[k], 0}), top(f.p[k]))])

\* Whether a code names a pair, and the code it then is; any other is the escape's.
Names(code, lo, p) ==
    IF code.kind = "frame" THEN frame_fits(p[1] - lo[1], p[2] - lo[2], lo[3], lo[4])
    ELSE Namable(p) /\ p \in ToSet(code.pairs)
CodeOf(code, lo, p) ==
    IF code.kind = "frame" THEN (p[1] - lo[1]) * 2 ^ lo[4] + p[2] - lo[2]
    ELSE Max({i \in DOMAIN code.pairs : code.pairs[i] = p}) - 1

\* A prologue's bits and the codes, to a whole byte; then the varints of the pairs that escape.
Written(code, pairs, prologue, start, lo, width) ==
    LET Coded(p) == IF Names(code, lo, p) THEN CodeOf(code, lo, p) ELSE top(width)
        codes    == UNION {Bits(Coded(pairs[i]), start + (i - 1) * width) : i \in DOMAIN pairs}
        Spelt(p) == IF Names(code, lo, p) THEN <<>> ELSE put_varint(p[1]) \o put_varint(p[2])
    IN  InBytes(prologue \cup codes, start + Len(pairs) * width)
          \o FlattenSeq([i \in DOMAIN pairs |-> Spelt(pairs[i])])
WriteFramed(code, pairs, d) ==
    LET lo == Told([k \in 1 .. 4 |-> code.f.lo[k] + d[k]])
    IN  Written(code, pairs, UNION {Bits(d[k], sh(code.f, k)) : k \in DOMAIN d}, Sum(code.f.p), lo, lo[3] + lo[4])
write_run(code, pairs) ==
    IF pairs = <<>> THEN <<>>
    ELSE IF code.kind = "frame" THEN WriteFramed(code, pairs, Offsets(code.f, fit_run(pairs).lo))
    ELSE Written(code, pairs, {}, 0, <<>>, code.w)

-------------------------------------------------------------------------------
(* A run read. *)

\* A run's header, unless its codes run past the data.
Header(data, count, start, width, lo) ==
    LET end == Ceil(start + count * width, Byte)
    IN  IF end > Len(data) THEN None ELSE [bit |-> start, width |-> width, lo |-> lo, hdr_end |-> end]
FramedHeader(data, count, start, lo) ==
    IF Len(data) * Byte < start \/ lo[3] > FRAME_MAX \/ lo[4] > FRAME_MAX THEN None
    ELSE Header(data, count, start, lo[3] + lo[4], lo)
\* The group's fields and the offsets to them in a word.
RunFields(f, word) == Told([k \in 1 .. 4 |-> f.lo[k] + ((word \div 2 ^ sh(f, k)) % 2 ^ f.p[k])])
\* Reader::of: the first code's bit, the codes' width, the run's frame, and where its suffixes begin.
of(code, data, count) ==
    IF code.kind = "frame" THEN FramedHeader(data, count, Sum(code.f.p), RunFields(code.f, WordAt(data, 0)))
    ELSE Header(data, count, 0, code.w, <<>>)

\* The code of entry i, the first 0, off the word its first bit opens.
next_code(r, data, i) ==
    LET bit == r.bit + i * r.width
    IN  (WordAt(data, bit \div Byte) \div 2 ^ (bit % Byte)) % 2 ^ r.width

\* The pair a code stands for; None is the escape, or an index past a table's end.
pair_as(code, r, c) ==
    IF code.kind = "frame"
    THEN IF c = top(r.width) THEN None ELSE <<r.lo[1] + c \div 2 ^ r.lo[4], r.lo[2] + (c % 2 ^ r.lo[4])>>
    ELSE IF c < Len(code.pairs) THEN code.pairs[c + 1] ELSE None

\* The run's pairs, each escape off the cursor in the suffixes; they end at the first that is cut short.
EntriesFrom(code, data, count, r) ==
    LET From[i \in 0 .. count] ==
            IF i = 0 THEN [pairs |-> <<>>, at |-> r.hdr_end]
            ELSE LET before == From[i - 1]
                     named  == pair_as(code, r, next_code(r, data, i - 1))
                     lcp    == varint_at(data, before.at)
                     len    == varint_at(data, lcp[2])
                 IN  IF Len(before.pairs) < i - 1 THEN before
                     ELSE IF named # None THEN [before EXCEPT !.pairs = Append(@, named)]
                     ELSE IF lcp = None \/ len = None THEN before
                     ELSE [pairs |-> Append(before.pairs, <<lcp[1], len[1]>>), at |-> len[2]]
    IN  IF r = None THEN None ELSE From[count].pairs
Entries(code, data, count) == EntriesFrom(code, data, count, of(code, data, count))

-------------------------------------------------------------------------------
(* What is promised of a case [runs], a group's runs. *)

\* The code chosen, and the two it was chosen from.
LOCAL TheCodes(table, f, chosen) ==
    {chosen} \cup (IF f = None THEN {} ELSE {Frame(f)}) \cup (IF table = None THEN {} ELSE {table[1]})
LOCAL Codes(runs) == TheCodes(best_table(runs), over(FitsOf(Full(runs))), choose_cost(runs)[1])

\* Off one walk the search for a frame's widths answers as trying each width on each pair does, tie
\* for tie.
WidthsAreTheSearchs(c) ==
    \A r \in ToSet(Full(c.runs)) :
        LET lo == bases(r)
            Escaping(w) == {i \in DOMAIN r : ~frame_fits(r[i][1] - lo[1], r[i][2] - lo[2], w[1], w[2])}
            esc  == Told([w \in (0 .. FRAME_MAX) \X (0 .. FRAME_MAX) |-> Escapes(r, Escaping(w))])
            best == FirstCheapest(Told([w \in DOMAIN esc |-> Ceil(Len(r) * (w[1] + w[2]), Byte) + esc[w]]))
        IN  frame_widths(r) = <<best[1], best[2], esc[best]>>

\* No table of any width and of any pairs is cheaper than the one of the pairs that save most.
TableIsCheapest(c) ==
    LET all == FlattenSeq(c.runs)
        Cost(w, T) == TABLE_HEADER + 2 * Cardinality(T) + Ceil(Len(all) * w, Byte)
                        + Escapes(all, {i \in DOMAIN all : all[i] \notin T})
        got == best_table(c.runs)[2]
    IN  all # <<>> =>
            \A w \in 1 .. TABLE_MAX : \A T \in SUBSET {p \in ToSet(all) : Namable(p)} :
                Cardinality(T) <= top(w) => got <= Cost(w, T)

LOCAL PriceIsLength(runs, price, written) ==
    IF price[1].kind = "frame" THEN written = price[2] + 1
    ELSE written - price[2] \in 0 .. Len(Full(runs)) - 1
LOCAL LengthOf(code, runs) == Len(write_to(code)) + Sum([r \in DOMAIN runs |-> Len(write_run(code, runs[r]))])
LOCAL Priced(runs, price) == Full(runs) # <<>> => PriceIsLength(runs, price, LengthOf(price[1], runs))

\* What a code is reckoned to cost is what is written: a frame's but for the byte that tells it from
\* a table, a table's but for less than a byte a run.
PricesAreLengths(c) == Priced(c.runs, choose_cost(c.runs))

LOCAL CodeReadsBack(code, blob) ==
    /\ read(blob \o <<7>>) = <<code, Len(blob)>>
    /\ \A k \in 0 .. Len(blob) - 1 : read(SubSeq(blob, 1, k)) = None
LOCAL RunReadsBack(code, r, data) ==
    /\ Entries(code, data \o <<FIELD_MAX>>, Len(r)) = r
    /\ \A k \in 0 .. of(code, data, Len(r)).hdr_end - 1 : of(code, SubSeq(data, 1, k), Len(r)) = None

\* A code and its runs read back as written, and neither is read when cut short.
PairsReadBack(c) ==
    \A code \in Codes(c.runs) :
        /\ CodeReadsBack(code, write_to(code))
        /\ \A r \in ToSet(Full(c.runs)) : RunReadsBack(code, r, write_run(code, r))
=================================================================================
