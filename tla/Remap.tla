--------------------------------- MODULE Remap ---------------------------------
(***************************************************************************)
(* The remap of the minimal perfect hash (src/src/mphf.rs, Remap): an      *)
(* Elias-Fano sequence whose j-th value is counted to from the sample of   *)
(* its block, over a window of words and then word by word; how it is laid *)
(* out, checked when a blob is read, and converted from an MPH2 blob.      *)
(*                                                                         *)
(* A bit stream is the set of its set positions together with its length   *)
(* in words, of WordBits bits (64 in the code).                            *)
(***************************************************************************)
EXTENDS Integers, Sequences, FiniteSets, SequencesExt

CONSTANTS
    WordBits,      \* 64
    BLOCK,         \* values a sample covers, 64
    SUPER,         \* values a super-sample covers, 2048
    SELECT_WORDS,  \* words a lookup counts through from its sample, 4
    SubMax         \* the most a sample holds above its super-sample: u16::MAX

CeilDiv(a, b) == (a + b - 1) \div b
RECURSIVE ilog2(_)
ilog2(x) == IF x <= 1 THEN 0 ELSE 1 + ilog2(x \div 2)

low_words(len, low_bits) == CeilDiv(len * low_bits, WordBits)
\* Fault: the words of the values' high parts alone.
high_wordsShort(len, u, low_bits) ==
    IF len = 0 THEN 0 ELSE CeilDiv((IF u = 0 THEN 0 ELSE u - 1) \div 2 ^ low_bits + 1, WordBits)
\* Every one lies at its value's high part plus its index.
high_words(len, u, low_bits) ==
    IF len = 0 THEN 0 ELSE CeilDiv((IF u = 0 THEN 0 ELSE u - 1) \div 2 ^ low_bits + len, WordBits)
held_words(len, stored) == IF len = 0 THEN 0 ELSE stored + SELECT_WORDS
super_count(len) == CeilDiv(len, SUPER)
sub_count(len)   == CeilDiv(len, BLOCK)
natural_low_bits(len, u) ==
    IF len = 0 \/ u \div len = 0 THEN 0 ELSE ilog2(u \div len)

WordOf(bits, w)  == {p \in bits : p \div WordBits = w}
\* select_in_word: the position of the r-th set bit, from 0.
Select(bits, r)  == CHOOSE p \in bits : Cardinality({q \in bits : q < p}) = r
\* A field of `width` bits at position `at`, read from the one or two words it lies in.
Field(bits, at, width) ==
    LET bit(i) == IF at + i \in bits THEN 2 ^ i ELSE 0
    IN  FoldLeft(LAMBDA x, y : x + y, 0, [i \in 1 .. width |-> bit(i - 1)])
Bits(x, at, width) == {at + i : i \in {i \in 0 .. width - 1 : (x \div 2 ^ i) % 2 = 1}}

Span == [error |-> "SPAN"]

-------------------------------------------------------------------------------
\* encode: `values` non-decreasing and below u.
High(values, low_bits, j) == values[j + 1] \div 2 ^ low_bits + j
Laid(values, u, low_bits) ==
    LET len == Len(values) IN
    [len      |-> len,
     low_bits |-> low_bits,
     low      |-> UNION {Bits(values[j + 1], j * low_bits, low_bits) : j \in 0 .. len - 1},
     lowLen   |-> low_words(len, low_bits),
     high     |-> {High(values, low_bits, j) : j \in 0 .. len - 1},
     highLen  |-> held_words(len, high_words(len, u, low_bits)),
     supers   |-> [s \in 1 .. super_count(len) |-> High(values, low_bits, (s - 1) * SUPER)],
     subs     |-> [b \in 1 .. sub_count(len) |->
                      LET j == (b - 1) * BLOCK
                      IN  High(values, low_bits, j) - High(values, low_bits, (j \div SUPER) * SUPER)]]
encode(values, u) ==
    LET laid == Laid(values, u, natural_low_bits(Len(values), u))
    IN  IF \E b \in DOMAIN laid.subs : laid.subs[b] > SubMax THEN Span ELSE laid

-------------------------------------------------------------------------------
\* beyond: word by word past the window; past the stream's end, some position.
beyond(r, w, skip) ==
    LET past == {p \in r.high : p \div WordBits >= w}
    IN  IF skip < Cardinality(past) THEN Select(past, skip) ELSE 0

Sample(r, j) == r.supers[j \div SUPER + 1] + r.subs[j \div BLOCK + 1]

\* Fault: the first word of the window is read without masking the ones before the sample.
FirstUnmasked(r, s) == WordOf(r.high, s \div WordBits)

\* The window's first word, from its sample on.
First(r, s) == {p \in WordOf(r.high, s \div WordBits) : p >= s}

\* The position of the j-th one: the window's words are counted, the counts compared with the
\* ones to skip, and the bit found inside its word.
OneOf(r, j) ==
    LET s      == Sample(r, j)
        w0     == s \div WordBits
        skip   == j % BLOCK
        word   == [w \in 0 .. SELECT_WORDS - 1 |->
                       IF w = 0 THEN First(r, s) ELSE WordOf(r.high, w0 + w)]
        before == [w \in 0 .. SELECT_WORDS |->
                       Cardinality(UNION {word[i] : i \in 0 .. w - 1})]
        w      == Cardinality({i \in 1 .. SELECT_WORDS - 1 : before[i] <= skip})
    IN  IF skip < before[SELECT_WORDS]
        THEN Select(word[w], skip - before[w])
        ELSE beyond(r, w0 + SELECT_WORDS, skip - before[SELECT_WORDS])

\* get, get_portable
get(r, j) ==
    IF j >= r.len THEN 0
    ELSE (OneOf(r, j) - j) * 2 ^ r.low_bits + Field(r.low, j * r.low_bits, r.low_bits)

\* What get reads unchecked lies inside the tables.
ReadsInside(r, j) ==
    /\ j \div SUPER < Len(r.supers) /\ j \div BLOCK < Len(r.subs)
    /\ Sample(r, j) \div WordBits + SELECT_WORDS <= r.highLen
    /\ r.low_bits > 0 => ((j + 1) * r.low_bits - 1) \div WordBits < r.lowLen

-------------------------------------------------------------------------------
Shaped(r, u) ==
    /\ r.lowLen = low_words(r.len, r.low_bits)
    /\ r.highLen = held_words(r.len, high_words(r.len, u, r.low_bits))
    /\ Len(r.supers) = super_count(r.len)
    /\ Len(r.subs) = sub_count(r.len)
    /\ \A p \in r.high : p \div WordBits < r.highLen - SELECT_WORDS

\* Fault: a super-sample need not sit on its own block's one.
SampledLoosely(r) ==
    \A j \in 0 .. r.len - 1 : j % BLOCK = 0 => Sample(r, j) = Select(r.high, j)

\* Every block's sample is on its first one, and a super-sample on its own block's.
Sampled(r) ==
    \A j \in 0 .. r.len - 1 :
        j % BLOCK = 0 => /\ Sample(r, j) = Select(r.high, j)
                         /\ j % SUPER = 0 => r.supers[j \div SUPER + 1] = Select(r.high, j)

\* validate
validate(r, u) ==
    /\ Shaped(r, u)
    /\ Cardinality(r.high) = r.len
    /\ Sampled(r)
    /\ \A j \in 0 .. r.len - 1 : get(r, j) < u

-------------------------------------------------------------------------------
\* from_v2: the occupancy bits over the values, `set`, and the Elias-Fano list of the holes.
Hole(v, j) == (Select(v.high, j) - j) * 2 ^ v.low_bits + Field(v.low, j * v.low_bits, v.low_bits)
Holes(v)   == [j \in 1 .. Cardinality(v.high) |-> Hole(v, j - 1)]
Bad        == [error |-> "BAD"]
Backwards  == [error |-> "BACKWARDS"]
Disagree   == [error |-> "disagree"]
\* Fault: a value no key landed on takes the hole after its predecessor's.
ValueOfNext(v, i) ==
    LET taken == Cardinality({k \in v.set : k < i}) + 1
    IN  IF taken > Len(Holes(v)) THEN 0 ELSE Holes(v)[taken]
\* A value no key landed on takes its predecessor's hole, or the value 0.
ValueOf(v, i) ==
    LET taken == Cardinality({k \in v.set : k <= i})
    IN  IF taken = 0 THEN 0 ELSE Holes(v)[taken]
from_v2(v, u) ==
    LET h == Holes(v) IN
    IF Len(h) # v.holes \/ \E j \in DOMAIN h : h[j] >= u THEN Bad
    ELSE IF \E j \in 2 .. Len(h) : h[j] < h[j - 1] THEN Backwards
    ELSE IF Cardinality(v.set) # Len(h) THEN Disagree
    ELSE encode([i \in 1 .. v.entries |-> ValueOf(v, i - 1)], u)

-------------------------------------------------------------------------------
(* The cases the properties are evaluated on.                              *)

CONSTANTS MaxLen, MaxU

Rising(n, u) == {s \in [1 .. n -> 0 .. u - 1] : \A i \in 1 .. n - 1 : s[i] <= s[i + 1]}
SequenceCases ==
    UNION {{[kind |-> "sequence", values |-> s, u |-> u] : s \in UNION {Rising(n, u) : n \in 0 .. MaxLen}}
           : u \in 1 .. MaxU}

\* Tables as a blob may hold them: any bits and samples, of the right lengths or one sample off.
BlobCases ==
    UNION {{[kind |-> "blob", u |-> u,
             r |-> [len |-> len, low_bits |-> lb, low |-> low, lowLen |-> low_words(len, lb),
                    high |-> high, highLen |-> held_words(len, high_words(len, u, lb)),
                    supers |-> sp, subs |-> sb]] :
             low \in {{}, 0 .. len * lb - 1, {0} \cap 0 .. len * lb - 1},
             high \in SUBSET (0 .. high_words(len, u, lb) * WordBits - 1),
             sp \in [1 .. super_count(len) -> 0 .. 2],
             sb \in [1 .. sub_count(len) -> 0 .. 2]}
           : len \in 0 .. 3, lb \in 0 .. 1, u \in {3}}

V2Cases ==
    {[kind |-> "v2", u |-> u,
      v |-> [set |-> set, entries |-> 4, low |-> {}, low_bits |-> 0, high |-> high, holes |-> holes]] :
      set \in SUBSET (0 .. 3), high \in SUBSET (0 .. 4), holes \in 0 .. 2, u \in {3}}

Cases == SequenceCases \cup BlobCases \cup V2Cases

\* What an Elias-Fano sequence means, told from the bits alone.
ValueAt(r, j) == (Select(r.high, j) - j) * 2 ^ r.low_bits + Field(r.low, j * r.low_bits, r.low_bits)

\* A laid-out remap gives every value back, whatever lies past the window a lookup counts through
\* (get against encode), is one validate accepts, and every unchecked read is inside its tables.
DecodesWhatItEncodes(c) ==
    c.kind = "sequence" =>
        LET r == encode(c.values, c.u) IN
        r # Span => /\ validate(r, c.u)
                    /\ \A j \in 0 .. r.len - 1 : get(r, j) = c.values[j + 1] /\ ReadsInside(r, j)

\* A blob's remap that validate accepts is exact and inside the image for every j, reads nothing
\* outside its tables, and is the one layout its values have at those low bits, padding aside.
AcceptedIsExact(c) ==
    c.kind = "blob" /\ validate(c.r, c.u) =>
        LET values == [j \in 1 .. c.r.len |-> ValueAt(c.r, j - 1)] IN
        /\ \A j \in 0 .. c.r.len - 1 :
            get(c.r, j) = values[j + 1] /\ get(c.r, j) < c.u /\ ReadsInside(c.r, j)
        /\ c.r = Laid(values, c.u, c.r.low_bits)

\* A converted MPH2 remap answers, for every value, the hole the MPH2 lookup would have selected:
\* the one ranked by the occupied values up to it (from_v2).
ConvertedAgrees(c) ==
    c.kind = "v2" /\ "error" \notin DOMAIN from_v2(c.v, c.u) =>
        \A i \in c.v.set :
            get(from_v2(c.v, c.u), i) = Hole(c.v, Cardinality({k \in c.v.set : k < i}))
================================================================================
