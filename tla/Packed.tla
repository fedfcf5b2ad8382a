--------------------------------- MODULE Packed ---------------------------------
(***************************************************************************)
(* Values of a fixed width in a stream of bits. The suffixes of a shard    *)
(* (src/src/packed.rs): the alphabet over byte frequencies, the codes of a *)
(* run, and decoding and comparing out of it, a code at a time where the   *)
(* alphabet escapes and a word of codes at a time where it does not.       *)
(* Offsets (src/src/offsets.rs): a non-decreasing array as a base every    *)
(* 2^shift entries and a delta of one width an entry, and an array of one  *)
(* width with no bases, read through a window of one word at a byte        *)
(* offset. A stream is its bytes and the set of its bits.                  *)
(***************************************************************************)
EXTENDS Integers, Sequences, FiniteSets, FiniteSetsExt, SequencesExt

CONSTANTS
    Byte,       \* bits of a byte, 8 in the code
    WordBytes   \* bytes of a word, 8 in the code

Word   == Byte * WordBytes
WIDTHS == 1 .. Byte
Bytes  == 0 .. 2 ^ Byte - 1
Ceil(a, b) == (a + b - 1) \div b

Value(S) == MapThenSumSet(LAMBDA b : 2 ^ b, S)
\* The bits from a place on, as a number.
Cut(S, from, width) == Value({b - from : b \in {b \in S : b \in from .. from + width - 1}})

Least(a, b) == IF a < b THEN a ELSE b

top(width)       == 2 ^ width - 1
raw_codes(width) == 2 + Ceil(Byte, width)

-------------------------------------------------------------------------------
(* The alphabet. *)

\* The bytes seen, by frequency and then by byte.
ranked(freq) ==
    LET seen == {b \in DOMAIN freq : freq[b] > 0}
        Before(a, b) == freq[a] > freq[b] \/ (freq[a] = freq[b] /\ a < b)
    IN  [i \in 1 .. Cardinality(seen) |->
            CHOOSE b \in seen : Cardinality({a \in seen : Before(a, b)}) = i - 1]

SumOf(freq, r, from, to) ==
    FoldFunctionOnSet(+, 0, [i \in DOMAIN r |-> freq[r[i]]], {i \in DOMAIN r : i \in from .. to})

\* What the bytes cost in bits at a width.
BitsAt(freq, r, width) ==
    IF Len(r) <= 2 ^ width THEN SumOf(freq, r, 1, Len(r)) * width
    ELSE LET k == top(width)
         IN  (SumOf(freq, r, 1, k) + 2 * SumOf(freq, r, k + 1, 2 * k)
                + SumOf(freq, r, 2 * k + 1, Len(r)) * raw_codes(width)) * width

\* Fault: the all-ones code names a byte though it escapes.
splitFull(r, width) ==
    [width |-> width, one |-> SubSeq(r, 1, Least(2 ^ width, Len(r))),
     two |-> SubSeq(r, 2 ^ width + 1, Least(Len(r), 2 ^ width + top(width)))]

\* The bytes behind a code and those behind an escape; no escape when all fit.
split(r, width) ==
    IF Len(r) <= 2 ^ width THEN [width |-> width, one |-> r, two |-> <<>>]
    ELSE [width |-> width, one |-> SubSeq(r, 1, top(width)),
          two |-> SubSeq(r, top(width) + 1, Least(2 * top(width), Len(r)))]

\* The cheapest width, the narrowest of equals.
of(freq) ==
    LET r == ranked(freq)
        w == CHOOSE w \in WIDTHS : \A v \in WIDTHS :
                 BitsAt(freq, r, w) < BitsAt(freq, r, v)
                 \/ (BitsAt(freq, r, w) = BitsAt(freq, r, v) /\ w <= v)
    IN  split(r, w)

At(s, b)       == {i \in DOMAIN s : s[i] = b}
CodeOf(s, b)   == (CHOOSE i \in At(s, b) : TRUE) - 1
Digits(b, width) == [i \in 1 .. Ceil(Byte, width) |-> (b \div 2 ^ (width * (i - 1))) % 2 ^ width]

\* The codes of a byte: its own, an escape and its own, or two escapes and its bits.
CodesOf(a, b) ==
    IF At(a.two, b) # {} THEN <<top(a.width), CodeOf(a.two, b)>>
    ELSE IF At(a.one, b) # {} THEN <<CodeOf(a.one, b)>>
    ELSE <<top(a.width), top(a.width)>> \o Digits(b, a.width)

encode(a, s)    == FlattenSeq([i \in DOMAIN s |-> CodesOf(a, s[i])])
codes_for(a, s) == Len(encode(a, s))

-------------------------------------------------------------------------------
(* The stream: bytes and the bits of them that are set; drained to a whole byte. *)

Stream(codes, width) ==
    [len |-> Ceil(Len(codes) * width, Byte),
     on  |-> {p \in 0 .. Len(codes) * width - 1 :
                 (codes[p \div width + 1] \div 2 ^ (p % width)) % 2 = 1}]

\* An entry's codes in a run's stream.
Codes(t, start, width, len) == [t |-> t, start |-> start, width |-> width, len |-> len]

Past == -1

\* Codes::at: the check is left out where a whole word opens at the code's byte.
CodeAt(c, i) ==
    LET bit == c.start + i * c.width
    IN  IF i >= c.len \/ (bit \div Byte + WordBytes > c.t.len /\ bit + c.width > c.t.len * Byte)
        THEN Past ELSE Cut(c.t.on, bit, c.width)

NoByte == <<Past, 0>>

RECURSIVE Raw(_, _, _)
Raw(c, at, left) ==
    IF left = 0 THEN 0
    ELSE LET rest == Raw(c, at + 1, left - 1)
         IN  IF CodeAt(c, at) = Past \/ rest = Past THEN Past ELSE CodeAt(c, at) + rest * 2 ^ c.width

\* byte_at: the byte at code `at` and the codes it took.
byte_at(a, c, at) ==
    LET first == CodeAt(c, at)
        per   == Ceil(Byte, a.width)
    IN  IF first = Past THEN NoByte
        ELSE IF a.two = <<>> \/ first # top(a.width)
        THEN IF first < Len(a.one) THEN <<a.one[first + 1], 1>> ELSE NoByte
        ELSE LET second == CodeAt(c, at + 1)
             IN  IF second = Past THEN NoByte
                 ELSE IF second # top(a.width)
                 THEN IF second < Len(a.two) THEN <<a.two[second + 1], 2>> ELSE NoByte
                 ELSE IF Raw(c, at + 2, per) = Past THEN NoByte
                 ELSE <<Raw(c, at + 2, per) % 2 ^ Byte, 2 + per>>

\* Fault: the bits shifted out of the first byte are counted.
HaveUnshifted(c, i) ==
    LET bit == c.start + i * c.width IN Least(Word, (c.t.len - bit \div Byte) * Byte)

\* Bits of the stream in the word code i opens.
Have(c, i) ==
    LET bit == c.start + i * c.width
    IN  IF bit \div Byte + WordBytes <= c.t.len THEN Word - (bit % Byte)
        ELSE Max({0, (c.t.len - bit \div Byte) * Byte - (bit % Byte)})

\* What the shifted word holds of code i, j codes on from the one that opened it; 0 past the word.
InWord(c, open, j) ==
    LET bit == c.start + open * c.width
        end == (bit \div Byte) * Byte + Word
    IN  Value({b - bit - j * c.width : b \in {b \in c.t.on :
                 b \in bit + j * c.width .. Least(bit + (j + 1) * c.width, end) - 1}})

RECURSIVE spread(_, _, _, _)
\* The bytes of `want` codes, a word of them at a time; or Past.
spread(a, c, want, done) ==
    IF done >= want THEN <<>>
    ELSE LET take  == Least(Have(c, done) \div a.width, want - done)
             codes == [j \in 1 .. take |-> InWord(c, done, j - 1)]
         IN  IF take = 0 \/ \E j \in 1 .. take : codes[j] >= Len(a.one) THEN <<Past>>
             ELSE [j \in 1 .. take |-> a.one[codes[j] + 1]] \o spread(a, c, want, done + take)

RECURSIVE Walk(_, _, _, _)
Walk(a, c, at, left) ==
    IF at >= c.len \/ left = 0 THEN <<>>
    ELSE LET b == byte_at(a, c, at)
         IN  IF b = NoByte THEN <<Past>> ELSE <<b[1]>> \o Walk(a, c, at + b[2], left - 1)

\* decode_into: at most cap bytes; a stream nobody wrote ends in Past.
decode_into(a, c, cap) ==
    LET want == Least(c.len, cap)
    IN  IF a.two = <<>> THEN spread(a, c, want, 0) ELSE Walk(a, c, 0, want)

Order(b, theirs) == IF b < theirs THEN -1 ELSE 1
Ended(n, rest)   == <<n, IF n = Len(rest) THEN 0 ELSE -1>>

RECURSIVE CompareFrom(_, _, _, _, _)
CompareFrom(a, c, rest, at, n) ==
    LET b == byte_at(a, c, at)
    IN  IF at >= c.len \/ b = NoByte THEN Ended(n, rest)
        ELSE IF n = Len(rest) THEN <<n, 1>>
        ELSE IF b[1] # rest[n + 1] THEN <<n, Order(b[1], rest[n + 1])>>
        ELSE CompareFrom(a, c, rest, at + b[2], n + 1)

RECURSIVE spread_cmp(_, _, _, _)
\* The same over words of codes: the compare is bounded by what is left of `rest`.
spread_cmp(a, c, rest, n) ==
    LET take  == Least(Have(c, n) \div a.width, c.len - n)
        m     == Least(take, Len(rest) - n)
        code(j) == InWord(c, n, j)
        odd   == {j \in 0 .. m - 1 : code(j) >= Len(a.one) \/ a.one[code(j) + 1] # rest[n + j + 1]}
    IN  IF n >= c.len \/ take <= 0 THEN Ended(n, rest)
        ELSE IF odd # {}
        THEN LET j == Min(odd)
             IN  IF code(j) >= Len(a.one) THEN Ended(n + j, rest)
                 ELSE <<n + j, Order(a.one[code(j) + 1], rest[n + j + 1])>>
        ELSE IF m < take
        THEN IF code(m) >= Len(a.one) THEN Ended(n + m, rest) ELSE <<n + m, 1>>
        ELSE spread_cmp(a, c, rest, n + m)

compare(a, c, rest) ==
    IF a.two = <<>> THEN spread_cmp(a, c, rest, 0) ELSE CompareFrom(a, c, rest, 0, 0)

-------------------------------------------------------------------------------
(* A table in a blob: [width, one, two]. *)

Refused == [width |-> 0, one |-> <<>>, two |-> <<>>]

\* Fault: the all-ones code may be a byte's and the escape's.
NamesOneByteLoose(t) == Len(t.one) <= 2 ^ t.width

NamesOneByte(t) ==
    /\ Len(t.one) <= 2 ^ t.width /\ Len(t.two) <= top(t.width)
    /\ t.two # <<>> => Len(t.one) = top(t.width)

read(t) == IF /\ t.width \in WIDTHS
              /\ NamesOneByte(t)
              /\ IsInjective(t.one \o t.two)
           THEN t ELSE Refused

-------------------------------------------------------------------------------
(* Offsets. *)

MAX_WIDTH == Word - Byte
Bits(v)   == {b \in 0 .. Word - 1 : (v \div 2 ^ b) % 2 = 1}
\* Bits of the widest of the values.
Wide(S)   == Max({0} \cup {Max({0} \cup {b + 1 : b \in Bits(v)}) : v \in S})

Base(i, shift)     == (i \div 2 ^ shift) * 2 ^ shift
bases_len(n, shift) == Ceil(n, 2 ^ shift) * WordBytes
\* Fault: no tail past the last delta.
deltas_lenExact(n, width) == Ceil(n * width, Byte)
\* The tail lets the last delta be read as a whole word.
deltas_len(n, width) == IF n = 0 THEN 0 ELSE Ceil(n * width, Byte) + WordBytes
section_len(n, width, shift) == bases_len(n, shift) + deltas_len(n, width)

\* Entry i of a sequence, counted from 0.
Of(values, i) == values[i + 1]
LastOf(values, i, shift) == Min({Base(i, shift) + 2 ^ shift, Len(values)}) - 1

\* Fault: the last group is measured only when it is full.
width_ofFull(values, shift) ==
    Wide({Of(values, LastOf(values, i, shift)) - Of(values, i) :
             i \in {i \in 0 .. Len(values) - 1 : /\ i = Base(i, shift)
                                                 /\ i + 2 ^ shift <= Len(values)}})

width_of(values, shift) ==
    Wide({Of(values, LastOf(values, i, shift)) - Of(values, i) :
             i \in {i \in 0 .. Len(values) - 1 : i = Base(i, shift)}})

packed_width_of(values) == Wide({values[i] : i \in DOMAIN values})

\* Entry i or-ed in where it starts, through the word of the byte it starts in.
Or(values, width) ==
    [len |-> deltas_len(Len(values), width),
     on  |-> UNION {{i * width + b : b \in {b \in Bits(Of(values, i)) : ((i * width) % Byte) + b < Word}} :
                        i \in 0 .. Len(values) - 1}]

Deltas(values, shift) == [i \in DOMAIN values |-> values[i] - Of(values, Base(i - 1, shift))]

pack(values, shift, width) ==
    [bases  |-> [j \in 0 .. Ceil(Len(values), 2 ^ shift) - 1 |-> Of(values, j * 2 ^ shift)],
     deltas |-> Or(Deltas(values, shift), width), width |-> width, shift |-> shift]

packed_pack(values, width) == Or(values, width)

-------------------------------------------------------------------------------
\* The word at the byte of a bit, shifted to the bit.
Window(t, bit) == {b - bit : b \in {b \in t.on : b \in bit .. (bit \div Byte) * Byte + Word - 1}}
Inside(t, bit) == bit \div Byte + WordBytes <= t.len

\* Packed::at and Packed::pair.
PackedAt(t, width, i) == Cut(Window(t, i * width), 0, width)
Meet(width)           == 2 * width + Byte - 1 <= Word
PackedPair(t, width, i) ==
    IF ~ Meet(width) THEN <<PackedAt(t, width, i), PackedAt(t, width, i + 1)>>
    ELSE LET w == Window(t, i * width) IN <<Cut(w, 0, width), Cut(w, width, width)>>

\* Offsets::at: the sum wraps.
at(x, i) == (x.bases[i \div 2 ^ x.shift] + PackedAt(x.deltas, x.width, i)) % 2 ^ Word

\* Fault: neighbours share a base.
SecondBaseShared(x, i) == x.bases[i \div 2 ^ x.shift]

SecondBase(x, i) == x.bases[(i + 1) \div 2 ^ x.shift]

\* Offsets::pair: two deltas out of one word, when two can meet in one.
pair(x, i) ==
    IF ~ Meet(x.width) THEN <<at(x, i), at(x, i + 1)>>
    ELSE LET two == PackedPair(x.deltas, x.width, i)
         IN  <<(x.bases[i \div 2 ^ x.shift] + two[1]) % 2 ^ Word,
               (SecondBase(x, i) + two[2]) % 2 ^ Word>>

-------------------------------------------------------------------------------
(* The properties of codes, of a case c. *)

Common(s, t) == Cardinality({n \in 1 .. Least(Len(s), Len(t)) : SubSeq(s, 1, n) = SubSeq(t, 1, n)})
Compared(s, t) ==
    LET n == Common(s, t)
    IN  <<n, IF n = Len(s) /\ n = Len(t) THEN 0
             ELSE IF n = Len(s) THEN -1
             ELSE IF n = Len(t) THEN 1 ELSE Order(s[n + 1], t[n + 1])>>

\* c: [alphabet, before, s, after, rest]. An entry in the middle of a run, which starts and ends
\* inside a byte, decodes to what was written, whole or capped, and compares with any bytes as
\* what was written does.
CodesReadBack(c) ==
    LET a  == c.alphabet
        cs == Codes(Stream(encode(a, c.before \o c.s \o c.after), a.width),
                    codes_for(a, c.before) * a.width, a.width, codes_for(a, c.s))
    IN  /\ \A cap \in 0 .. Len(c.s) + 1 : decode_into(a, cs, cap) = SubSeq(c.s, 1, Least(cap, Len(c.s)))
        /\ compare(a, cs, c.rest) = Compared(c.s, c.rest)

\* c: [freq]. The width chosen codes the bytes counted in no more bits than any other would, and
\* what it reckoned with is what their codes take.
CheapestWidth(c) ==
    LET a == of(c.freq)
        Cost(x) == x.width * FoldFunctionOnSet(+, 0,
                       [b \in DOMAIN c.freq |-> c.freq[b] * Len(CodesOf(x, b))], DOMAIN c.freq)
    IN  /\ \A w \in WIDTHS : Cost(a) <= Cost(split(ranked(c.freq), w))
        /\ Cost(a) = BitsAt(c.freq, ranked(c.freq), a.width)
        /\ read(a) = a

\* c: [table]. A table that is accepted reads every byte's codes back as that byte.
AcceptedIsInverse(c) ==
    LET a == read(c.table)
    IN  a # Refused => \A b \in Bytes :
            (a.two # <<>> \/ At(a.one, b) # {}) =>
                decode_into(a, Codes(Stream(encode(a, <<b>>), a.width), 0, a.width, codes_for(a, <<b>>)), 1)
                  = <<b>>

-------------------------------------------------------------------------------
(* The properties of offsets, of a case c: [values, shift, width], packed at that width or at the *)
(* one width_of gives, whichever is wider.                                                        *)

\* Every entry reads back, alone and with the one after it, on each side of a base, out of a
\* window that lies inside the section, at every width a blob may declare.
OffsetsReadBack(c) ==
    LET width == Max({width_of(c.values, c.shift), c.width})
        x     == pack(c.values, c.shift, width)
        n     == Len(c.values)
    IN  width <= MAX_WIDTH =>
            /\ \A i \in 0 .. n - 1 : /\ at(x, i) = Of(c.values, i)
                                     /\ Inside(x.deltas, i * width)
            /\ \A i \in 0 .. n - 2 : pair(x, i) = <<Of(c.values, i), Of(c.values, i + 1)>>
            /\ section_len(n, width, c.shift)
                 = Cardinality(DOMAIN x.bases) * WordBytes + x.deltas.len

\* So does every entry of an array with no bases, in any order.
PackedReadsBack(c) ==
    LET values == c.values
        width  == Max({packed_width_of(values), c.width})
        t      == packed_pack(values, width)
    IN  width <= MAX_WIDTH =>
            /\ \A i \in 0 .. Len(values) - 1 : /\ PackedAt(t, width, i) = Of(values, i)
                                               /\ Inside(t, i * width)
            /\ \A i \in 0 .. Len(values) - 2 :
                 PackedPair(t, width, i) = <<Of(values, i), Of(values, i + 1)>>
=============================================================================
