---------------------------------- MODULE Fsst ----------------------------------
(***************************************************************************)
(* The symbol table of a shard's suffixes (src/src/fsst.rs): its training  *)
(* by the encoder's own parse, the greedy encoder with its slots of a few  *)
(* symbols, decoding by stores wider than the symbols, and the table in a  *)
(* blob. A symbol is the sequence of its bytes, a word is zero-padded.     *)
(***************************************************************************)
EXTENDS Integers, Sequences, FiniteSets, FiniteSetsExt, SequencesExt

CONSTANTS
    Byte,           \* bits of a byte, 8 in the code
    MAX_LEN,        \* bytes of a word and of the longest symbol, 8
    MAX_SYMBOLS,    \* 255: every code but the escape's
    ROUNDS,         \* rounds of training, 4
    SLOTS, WAYS     \* the encoder's slots, 1024, and the symbols of three bytes or more in each, 2

Bytes  == 0 .. 2 ^ Byte - 1
ESCAPE == 2 ^ Byte - 1

Least(a, b) == IF a < b THEN a ELSE b
ListOf(S)   == FoldSet(LAMBDA x, s : Append(s, x), <<>>, S)
Drop(s, n)  == SubSeq(s, n + 1, Len(s))

-------------------------------------------------------------------------------
(* Words. *)

word_of(s) == [k \in 1 .. MAX_LEN |-> IF k <= Len(s) THEN s[k] ELSE 0] \o <<>>

\* Fault: the last word is shifted by the bytes that are left, not by those that are gone.
word_at_turned(s, i) ==
    IF i + MAX_LEN <= Len(s) THEN SubSeq(s, i + 1, i + MAX_LEN)
    ELSE IF Len(s) >= MAX_LEN /\ i < Len(s) THEN word_of(Drop(Drop(s, Len(s) - MAX_LEN), Len(s) - i))
    ELSE word_of(Drop(s, i))

\* The word at s[i..]: whole, the last one shifted down, or gathered.
word_at(s, i) ==
    IF i + MAX_LEN <= Len(s) THEN SubSeq(s, i + 1, i + MAX_LEN)
    ELSE IF Len(s) >= MAX_LEN /\ i < Len(s) THEN word_of(Drop(Drop(s, Len(s) - MAX_LEN), i + MAX_LEN - Len(s)))
    ELSE word_of(Drop(s, i))

\* A hash of a word's first three bytes.
slot_of(word) == (word[1] + 2 * word[2] + 3 * word[3]) % SLOTS

-------------------------------------------------------------------------------
(* The encoder over a table of symbols; the code of table[c + 1] is c. *)

Escaped == <<ESCAPE, 1>>
Entry(table, c) == <<c, Len(table[c + 1])>>
Codes(table, s) == {c \in 0 .. Len(table) - 1 : table[c + 1] = s}

\* The codes of a slot's symbols, the longest first and of equals the first; the rest found no room.
slot(table, h) ==
    LET held == {c \in 0 .. Len(table) - 1 : Len(table[c + 1]) >= 3 /\ slot_of(word_of(table[c + 1])) = h}
        Before(c, d) == Len(table[c + 1]) > Len(table[d + 1]) \/ (Len(table[c + 1]) = Len(table[d + 1]) /\ c < d)
        sorted == SortSeq(ListOf(held), Before)
    IN  SubSeq(sorted, 1, Least(WAYS, Len(sorted)))

\* What stands for the last byte of a string, and for a prefix of two bytes: a symbol of two if
\* there is one, else of one.
single(table, b) == IF Codes(table, <<b>>) = {} THEN Escaped ELSE Entry(table, Max(Codes(table, <<b>>)))
short(table, b, second) ==
    IF Codes(table, <<b, second>>) # {} THEN Entry(table, Max(Codes(table, <<b, second>>)))
    ELSE IF Codes(table, <<b>>) # {} THEN Entry(table, Min(Codes(table, <<b>>)))
    ELSE Escaped

\* The code emitted at a position and the bytes it covers.
step(table, word, rem) ==
    LET fits == SelectSeq(slot(table, slot_of(word)),
                          LAMBDA c : Len(table[c + 1]) <= rem /\ IsPrefix(table[c + 1], word))
    IN  IF fits # <<>> THEN Entry(table, fits[1])
        ELSE IF rem >= 2 THEN short(table, word[1], word[2])
        ELSE single(table, word[1])

\* The pieces a string is cut into, each with its code.
RECURSIVE PiecesFrom(_, _, _), PieceAnd(_, _, _, _)
PieceAnd(table, s, i, e) ==
    <<[code |-> e[1], of |-> SubSeq(s, i + 1, i + e[2])]>> \o PiecesFrom(table, s, i + e[2])
PiecesFrom(table, s, i) ==
    IF i >= Len(s) THEN <<>> ELSE PieceAnd(table, s, i, step(table, word_at(s, i), Len(s) - i))

Emitted(pieces) ==
    FlattenSeq([k \in DOMAIN pieces |->
        IF pieces[k].code = ESCAPE THEN <<ESCAPE, pieces[k].of[1]>> ELSE <<pieces[k].code>>])
encode(table, s) == Emitted(PiecesFrom(table, s, 0))

-------------------------------------------------------------------------------
(* Training. *)

\* Fault: a slot takes one symbol more than the encoder looks for.
reachableFull(ranked, max) ==
    LET most == Least(max, MAX_SYMBOLS)
        Take(t, s) ==
            IF Len(t) = most \/ (Len(s) >= 3 /\ Cardinality({k \in DOMAIN t : Len(t[k]) >= 3 /\
                                     slot_of(word_of(t[k])) = slot_of(word_of(s))}) > WAYS)
            THEN t ELSE Append(t, s)
    IN  FoldLeft(Take, <<>>, ranked)

\* The first `max` of the ranked that the encoder can reach.
reachable(ranked, max) ==
    LET most == Least(max, MAX_SYMBOLS)
        Take(t, s) ==
            IF Len(t) = most \/ (Len(s) >= 3 /\ Cardinality({k \in DOMAIN t : Len(t[k]) >= 3 /\
                                     slot_of(word_of(t[k])) = slot_of(word_of(s))}) = WAYS)
            THEN t ELSE Append(t, s)
    IN  FoldLeft(Take, <<>>, ranked)

head(table, k) == SubSeq(table, 1, Least(k, Len(table)))

Count(s, x) == Cardinality({k \in DOMAIN s : s[k] = x})

\* The pieces each string of a sample is cut into.
Spelt(pieces) == [k \in DOMAIN pieces |-> pieces[k].of] \o <<>>
CutBy(table, sample) == [j \in DOMAIN sample |-> Spelt(PiecesFrom(table, sample[j], 0))] \o <<>>

\* What the candidates earn: the pieces of the sample, single bytes wherever they stand, and
\* adjacent pieces up to a word, by the bytes covered and one more a use.
Gains(cut) ==
    LET all   == FlattenSeq(cut)
        inner == FlattenSeq(SelectSeq(all, LAMBDA p : Len(p) > 1))
        Joined(p, k) == IF k < Len(p) THEN p[k] \o p[k + 1] ELSE <<>>
        pairs == SelectSeq(FlattenSeq([j \in DOMAIN cut |-> [k \in DOMAIN cut[j] |-> Joined(cut[j], k)]]),
                           LAMBDA p : Len(p) \in 2 .. MAX_LEN)
        Uses(c) == Count(all, c) + Count(pairs, c) + (IF Len(c) = 1 THEN Count(inner, c[1]) ELSE 0)
    IN  [c \in ToSet(all) \cup ToSet(pairs) \cup {<<b>> : b \in ToSet(inner)} |-> Uses(c) * (Len(c) + 1)]

\* By gain, then by the bytes of the padded word, then by length.
ranked(gains) ==
    LET key == [c \in DOMAIN gains |-> word_of(c)] @@ <<>>
        Below(v, w) == \E k \in 1 .. MAX_LEN : v[k] < w[k] /\ SubSeq(v, 1, k - 1) = SubSeq(w, 1, k - 1)
        Before(c, d) == \/ gains[c] > gains[d]
                        \/ gains[c] = gains[d] /\ (Below(key[c], key[d]) \/ (key[c] = key[d] /\ Len(c) < Len(d)))
    IN  SortSeq(ListOf(DOMAIN gains), Before)

RECURSIVE TrainFrom(_, _, _, _), Retrained(_, _, _, _, _)
Retrained(next, table, sample, max, rounds) ==
    IF next = table THEN table ELSE TrainFrom(next, sample, max, rounds - 1)
TrainFrom(table, sample, max, rounds) ==
    IF rounds = 0 THEN table
    ELSE Retrained(reachable(ranked(Gains(CutBy(table, sample)) @@ <<>>), max), table, sample, max, rounds)
train_to(sample, max) == TrainFrom(<<>>, sample, max, ROUNDS)

-------------------------------------------------------------------------------
(* Decoding, and the table in a blob. *)

None    == [ok |-> FALSE, why |-> "refused"]
\* A store past the room, or a byte of it taken that was never stored.
Outside == [ok |-> FALSE, why |-> "outside"]
Some(v) == [ok |-> TRUE, it |-> v]

\* Fault: the room is the cap, and a symbol is stored as wide as a word.
RoomTight(packed, cap) == Least(Len(packed) * MAX_LEN, cap)
\* Bytes asked for past the end of the output.
RoomOf(packed, cap) == Least(Len(packed) * MAX_LEN, cap + MAX_LEN - 1)

\* Whether a store of a width fits the room behind what is there.
Stored(o, width, room) == Len(o) + width <= room

RECURSIVE DecodeFrom(_, _, _, _, _)
DecodeFrom(table, packed, i, o, cap) ==
    LET room == RoomOf(packed, cap)
        code == packed[i + 1]
    IN  IF i >= Len(packed) \/ Len(o) >= cap THEN Some(o)
        ELSE IF code = ESCAPE
        THEN IF i + 1 >= Len(packed) THEN None
             ELSE IF ~Stored(o, 1, room) THEN Outside
             ELSE DecodeFrom(table, packed, i + 2, Append(o, packed[i + 2]), cap)
        ELSE IF code >= Len(table) THEN None
        ELSE IF ~Stored(o, MAX_LEN, room) THEN Outside
        ELSE DecodeFrom(table, packed, i + 1, o \o table[code + 1], cap)
\* The bytes a stream stands for, up to the symbol that reaches the cap.
decode(table, packed, cap) == DecodeFrom(table, packed, 0, <<>>, cap)

table_bytes(table) ==
    <<Len(table)>> \o [k \in DOMAIN table |-> Len(table[k])] \o FlattenSeq(table)

\* The table that is exactly these bytes.
from_bytes(bytes) ==
    LET count == bytes[1]
        lens  == SubSeq(bytes, 2, count + 1)
        From(k) == count + 1 + FoldSeq(+, 0, SubSeq(lens, 1, k - 1))
    IN  IF bytes = <<>> THEN None
        ELSE IF count >= Len(bytes) THEN None
        ELSE IF \E k \in DOMAIN lens : lens[k] \notin 1 .. MAX_LEN THEN None
        ELSE IF From(count + 1) # Len(bytes) THEN None
        ELSE Some([k \in 1 .. count |-> SubSeq(bytes, From(k) + 1, From(k) + lens[k])] \o <<>>)

-------------------------------------------------------------------------------
(* What is promised of a case [sample, max, strings] of strings to train on and to encode. *)

LOCAL Fitting(t, s, i) == {j \in DOMAIN t : IsPrefix(t[j], Drop(s, i))}
LOCAL Longest(t, fit, e) ==
    IF fit = {} THEN e = Escaped
    ELSE e[1] + 1 \in fit /\ e[2] = Len(t[e[1] + 1]) /\ \A j \in fit : Len(t[j]) <= e[2]
LOCAL Reached(t, strings) ==
    /\ \A i \in DOMAIN t : step(t, word_of(t[i]), Len(t[i])) = <<i - 1, Len(t[i])>>
    /\ \A s \in ToSet(strings) : \A i \in 0 .. Len(s) - 1 :
         Longest(t, Fitting(t, s, i), step(t, word_at(s, i), Len(s) - i))
LOCAL HeadsReached(t, c) ==
    /\ Len(t) <= c.max /\ IsInjective(t)
    /\ \A k \in 0 .. Len(t) : Reached(head(t, k), c.strings)

\* A trained table, and each of its heads, has the encoder take the longest symbol at any position,
\* so that every symbol is emitted for itself, and holds no symbol twice.
SymbolsAreReached(c) == HeadsReached(train_to(c.sample, c.max), c)

\* A decode of a string under a cap: a beginning of it that reaches the cap.
LOCAL Decoded(got, s, cap) ==
    got.ok /\ IsPrefix(got.it, s) /\ Len(got.it) \in Least(cap, Len(s)) .. cap + MAX_LEN - 1
LOCAL StringReadsBack(t, s, packed) == \A cap \in 0 .. Len(s) + 1 : Decoded(decode(t, packed, cap), s, cap)
LOCAL TableReadsBack(t, bytes) ==
    /\ from_bytes(bytes) = Some(t)
    /\ from_bytes(Append(bytes, 1)) = None
    /\ \A k \in 0 .. Len(bytes) - 1 : from_bytes(SubSeq(bytes, 1, k)) = None
LOCAL ReadsBack(t, strings) ==
    /\ \A s \in ToSet(strings) : StringReadsBack(t, s, encode(t, s))
    /\ TableReadsBack(t, table_bytes(t))

\* What is encoded decodes to itself, and under a cap to a beginning of itself that reaches it; the
\* table reads back from its bytes and from no part of them.
SymbolsReadBack(c) == ReadsBack(train_to(c.sample, c.max), c.strings)

\* Whatever bytes claim to be a table and a stream, the decoder stores inside the room it asked for,
\* and refuses the stream or goes as far as the cap or its end (a case [bytes, packed]).
StoresFit(c) ==
    LET t == from_bytes(c.bytes)
    IN  t.ok => \A cap \in 0 .. MAX_LEN * Len(c.packed) + 1 :
                  LET got   == decode(t.it, c.packed, cap)
                      whole == decode(t.it, c.packed, MAX_LEN * Len(c.packed) + 1)
                  IN  /\ got # Outside
                      /\ whole.ok => got.ok /\ IsPrefix(got.it, whole.it) /\ Len(got.it) >= Least(cap, Len(whole.it))
=================================================================================
