------------------------------- MODULE MCIndexes --------------------------------
(***************************************************************************)
(* The indexes' builds, lookups and blobs for TLC: each on every case of a *)
(* bounded set, one step away from a start state of its kind.              *)
(***************************************************************************)
EXTENDS Integers, Sequences, FiniteSets, FiniteSetsExt, SequencesExt

VARIABLE case

SeqsUpTo(S, n) == UNION {[1 .. m -> S] : m \in 0 .. n}
\* Four hashes, whose slots are in no order.
SlotOrder == <<2, 0, 3, 1>>

-------------------------------------------------------------------------------
H == INSTANCE CompactHash WITH
        Byte <- 4, WordBytes <- 2, HashHigh <- 4, HashLow <- 1, FpBits <- 2, MaxParts <- 3,
        PartFloor <- 1, SlotOrder <- SlotOrder

\* Fingerprints of a width: none, every, the lowest and the highest bit set.
Values(b) == {{}, 0 .. b - 1, {0}, {b - 1}}
Fingerprints(b) ==
    SeqsUpTo(Values(b), 4) \cup {[i \in 1 .. 6 |-> IF i % 2 = 1 THEN 0 .. b - 1 ELSE v] : v \in Values(b)}
\* Three keys of one hash, two of another, one alone.
Pairs == SeqsUpTo({<<0, 0>>, <<0, 1>>, <<0, 2>>, <<1, 1>>, <<2, 0>>, <<2, 3>>}, 4)
CompactCases(k) ==
    CASE k = "compactRun" ->
            [kind : {k}, run : SeqsUpTo((0 .. 3) \X {0, 1}, 4), threads : 1 .. 4]
      [] k = "compactFp" ->
            UNION {[kind : {k}, bits : {b}, fps : Fingerprints(b)] : b \in 1 .. 8}
      [] k = "compactKeys" ->
            [kind : {k}, pairs : Pairs, bits : {1, 2}, threads : {1, 2, 3},
             asked : {{<<0, 3>>, <<3, 0>>, <<2, 2>>, <<1, 3>>}}]
      [] k = "compactBlob" ->
            {[kind |-> k, written |-> TRUE, blob |-> H!to_bytes(H!build_from_pairs(p, b, 1), 3)] :
                p \in Pairs, b \in {1, 2}}
            \cup [kind : {k}, written : {FALSE},
                  blob : [n : 0 .. 3, bits : {0, 1, 3}, mph : 0 .. 2, mph_n : 0 .. 3,
                          side : SeqsUpTo({<<1, 0, i>> : i \in 0 .. 3}, 2),
                          len : {0, 1, 2, 3, 21, 22, 23, 41, 42, 43, 44}]]

-------------------------------------------------------------------------------
E == INSTANCE PerfectHash WITH SlotOrder <- SlotOrder, FpByte <- 2

\* Three keys of one hash, two of another; strangers with a key's hash, its byte, or neither.
Key(name, hash, fp) == [name |-> name, hash |-> hash, fp |-> fp, len |-> name % 3]
Keys  == {Key(0, 0, 1), Key(1, 0, 3), Key(2, 0, 2), Key(3, 1, 0), Key(4, 2, 2), Key(5, 2, 1)}
Asked == <<Key(6, 0, 1), Key(7, 3, 3), Key(8, 2, 0), Key(9, 1, 2)>>
PerfectCases(k) ==
    CASE k = "perfectKeys" ->
            [kind : {k}, items : SeqsUpTo(Keys, 4), fingerprints : BOOLEAN, asked : {Asked}]
      [] k = "perfectBlob" ->
            {[kind |-> k, written |-> TRUE, blob |-> E!to_bytes(E!build_with(s, FALSE), mph, 4)] :
                s \in SeqsUpTo(Keys, 3), mph \in {1, 2}}
            \cup [kind : {k}, written : {FALSE},
                  blob : [n : 0 .. 3, mph_len : {0, 2}, mph_n : 0 .. 3, rows : -1 .. 3,
                          side : SeqsUpTo((0 .. 1) \X (0 .. 3), 2), len : {0, 3, 12, 14, 25}]]

-------------------------------------------------------------------------------
(* The dictionary: characters 2 and 3 are outside ASCII; blocks, shards, samples, tries and stacks are
   small enough that a dozen keys overflow each of them. *)

D == INSTANCE DictQuery WITH
        MayPay <- 2 .. 3, Inline <- 2, Reference <- 2, Nested <- 1, Entry <- 1, PhraseMax <- 2,
        FlatReads <- 3, SeenSlots <- 4,
        TrainPieces <- 2, TrainRun <- 1, ShardKeys <- 4, MicroFrom <- 2, MicroTo <- 3, MaxBlock <- 6,
        MineMin <- 8, Margin <- 2, IdsMax <- 3, High <- {2, 3}, TableShare <- 2, MaxShared <- 3,
        Base <- 5, Word <- 3, MIN_RUN <- 4, MAX_DEPTH <- 2, STAIRS <- 2, LANES <- 2

\* The pool's subsets of these sizes, each in order.
Picks(pool, sizes) ==
    LET s == D!InOrder(pool)
    IN  UNION {{SelectSeq(s, LAMBDA k : k \in K) : K \in kSubset(n, pool)} : n \in sizes}
Layout(bm) == [block |-> bm[1], micro |-> bm[2], labels |-> TRUE]

\* Labels: keys that share, phrases that compete with them, two blocks' shapes.
Branching ==
    {<<>>, <<0>>, <<0, 0, 1>>, <<0, 1>>, <<0, 1, 0, 1>>, <<1>>, <<1, 0, 1>>, <<1, 0, 1, 1>>, <<1, 1, 0>>,
     <<1, 1, 0, 1>>}
LabelCases ==
    {[kind |-> "labels", keys |-> K, phrases |-> p, room |-> 2, block |-> bm[1], micro |-> bm[2], threads |-> t] :
        K \in Picks(Branching, {0, 1, 2, 4, 5}), p \in {{}, {<<0, 1>>}}, bm \in {<<4, 2>>, <<2, 2>>}, t \in {1, 2}}

SortCases ==
    {[kind |-> "sort", items |-> s, threads |-> t] :
        s \in UNION {[1 .. n -> {<<0>>, <<0, 1>>, <<1>>}] : n \in 0 .. 6}, t \in {2, 3}}

\* Trained that repeat, one character outside ASCII in three or four keys.
Repeating ==
    {<<>>, <<0, 0, 1, 1>>, <<0, 1>>, <<0, 1, 0, 1, 1>>, <<0, 2, 2>>, <<1>>, <<1, 0, 1, 1>>, <<1, 2, 2>>,
     <<1, 2, 2, 2>>}
BuildCases ==
    {[kind |-> "build", items |-> K, layout |-> [Layout(bm) EXCEPT !.labels = l], threads |-> t] :
        K \in Picks(Repeating, {0, 1, 3, 5, 7, 8, 9}), t \in {1, 2}, l \in BOOLEAN,
        bm \in {<<2, 1>>, <<4, 2>>, <<1, 1>>, <<3, 0>>, <<2, 2>>}}

\* Heads that tie over several words, and keys mostly outside ASCII.
Tying ==
    {<<1>>} \cup {<<0, 0, 1>> \o s : s \in {<<>>, <<0>>, <<0, 1>>, <<0, 1, 0>>, <<1>>, <<1, 1, 1>>, <<1, 1, 1, 1>>,
                                         <<1, 1, 1, 2>>, <<1, 1, 1, 2, 0>>, <<2>>}}
Zeros ==
    {<<0, 0, 0, 0>>, <<0, 0, 0, 0, 0>>, <<0, 0, 0, 0, 0, 0>>, <<0, 0, 0, 0, 1>>, <<0, 0, 0, 1>>, <<0, 0, 0, 1, 0, 0>>,
     <<0, 0, 1, 0>>, <<0, 0, 1>>, <<0, 0>>, <<0, 0, 0>>, <<0, 0, 0, 1, 0, 0, 1>>}
Wide == {<<2, 2, 3>>, <<2, 2, 3, 3>>, <<2, 3>>, <<3, 3>>, <<2, 2, 2, 3>>, <<2>>, <<2, 0, 3>>, <<2, 2>>}
AskCases(pool) ==
    LET K == CASE pool = "askRepeating" -> Picks(Repeating, {0, 8, 9})
               [] pool = "askTying" -> Picks(Tying, {10, 11})
               [] pool = "askZeros" -> Picks(Zeros, {10, 11})
               [] pool = "askWide" -> Picks(Wide, {7, 8})
    IN  {[kind |-> "ask", items |-> k, layout |-> Layout(bm), threads |-> 1, routed |-> r] : k \in K, r \in BOOLEAN,
            bm \in {<<1, 1>>, <<2, 1>>, <<4, 2>>, <<6, 2>>, <<6, 1>>, <<6, 6>>}}

DictKinds == {"labels", "sort", "build", "askRepeating", "askTying", "askZeros", "askWide"}
DictCases_of(k) ==
    CASE k = "labels" -> LabelCases
      [] k = "sort" -> SortCases
      [] k = "build" -> BuildCases
      [] OTHER -> AskCases(k)

-------------------------------------------------------------------------------
(* A three-bit byte in a six-bit word for the suffix codes, a two-bit byte *)
(* in an eight-bit word for the offsets.                                   *)

O == INSTANCE Packed WITH Byte <- 2, WordBytes <- 4
P == INSTANCE Packed WITH Byte <- 3, WordBytes <- 2

\* Offsets up to the widest a window reads, equal, apart and far apart.
Entries == {0, 1, 3, 7, 8, 21, 40, 63}
Sorted(v) == \A i \in 1 .. Len(v) - 1 : v[i] <= v[i + 1]
OffsetValues == {v \in SeqsUpTo(Entries, 5) : Sorted(v)} \cup SeqsUpTo(Entries, 3)
OffsetCases == [kind : {"offsets"}, values : OffsetValues, shift : {1, 2}, width : {0, 3, 5, 6}]

\* One to eight bytes, all as frequent or more so the higher, at one to three bits a code.
Alphabets ==
    {P!split(P!ranked([b \in 0 .. n - 1 |-> IF flat THEN 1 ELSE b + 1]), w) :
        n \in 1 .. 8, w \in 1 .. 3, flat \in BOOLEAN}
\* The last byte of each kind of code: alone, behind an escape, spelt out.
Picked(a) ==
    {Last(a.one)} \cup (IF a.two = <<>> THEN {a.one[1]} ELSE {Last(a.two), 7})
Rests == {<<>>, <<7>>, <<0, 3>>, <<6, 7, 0>>}
CodeCases ==
    UNION {UNION {{[kind |-> "codes", alphabet |-> a, before |-> b, s |-> s, after |-> t,
                    rest |-> r] :
                      b \in {<<>>, <<a.one[1]>>}, t \in {<<>>, <<a.one[1], a.one[1], a.one[1]>>},
                      r \in Rests \cup {s \o <<7>>, s}} :
                   s \in SeqsUpTo(Picked(a), 3)} : a \in Alphabets}

FrequencyCases ==
    UNION {{[kind |-> "frequencies", freq |-> f] : f \in [0 .. n -> {1, 2, 9}]} : n \in 0 .. 4}
    \cup {[kind |-> "frequencies", freq |-> [b \in 0 .. n |-> b + d]] : n \in 0 .. 7, d \in {0, 1, 5}}

\* Tables a blob may declare: of one byte twice, of more codes than fit, with bytes in both rows.
TableCases ==
    {[kind |-> "table",
      table |-> [width |-> w, one |-> [i \in 1 .. n |-> i % 8],
                 two |-> [i \in 1 .. k |-> (n + i - d) % 8]]] :
        w \in 0 .. 4, n \in 1 .. 8, k \in 0 .. 3, d \in 0 .. 1}

\* Pairs of front coding in bytes of four bits: apart in both fields, past a table's, alike in runs.
C == INSTANCE PairCode WITH
        Byte <- 4, WordBytes <- 3, Usize <- 9, FRAME_MAX <- 3, TABLE_MAX <- 3, PROLOGUE_MAX <- 8,
        OFFSET_MAX <- 5
Apart == {<<0, 1>>, <<1, 0>>, <<3, 1>>, <<7, 5>>, <<15, 1>>, <<9, 40>>, <<70, 2>>}
Alike == {<<0, 14>>, <<14, 0>>, <<1, 1>>}
TwoOf(p, n, run) == [i \in 1 .. n |-> p[((i \div run) % 2) + 1]] \o <<>>
PairCases ==
    [kind : {"pairs"},
     runs : {<<r>> : r \in SeqsUpTo(Apart \cup {<<2, 3>>}, 3)}
            \cup SeqsUpTo({<<>>} \cup [1 .. 2 -> Apart \ {<<0, 1>>}], 2)
            \cup {<<TwoOf(p, 8, 1), TwoOf(p, n, 2)>> : p \in [1 .. 2 -> Apart \cup Alike], n \in {0, 3, 5}}
            \cup {<<s \o <<a, a, b, b>>>> : s \in [1 .. 4 -> Alike], a, b \in Alike}]

-------------------------------------------------------------------------------
(* Symbols, phrases and the miner: bytes of three bits, four of them in a word, phrases of up to two *)
(* words, tables of seven symbols with two to a slot, pools of at most two shards.                   *)

M == INSTANCE Phrases WITH
        Byte <- 3, MAX_LEN <- 4, MAX_SYMBOLS <- 7, ROUNDS <- 3, SLOTS <- 2, WAYS <- 2,
        MAX <- 8, LABEL_MAX <- 10, SYMBOLS <- <<3, 5, 6>>,
        WINDOW <- 3, MINE_ROUNDS <- 2, PROBE_SHARDS <- 2, PROBE_PIECES <- 4, SCOUT_PIECES <- 6, PIECES <- 16,
        MARGIN <- 3, CAP <- 8, GAIN_CAP <- 10, PIECES_PER_PHRASE <- 1, POOLS <- 4, STRICT <- 2

\* Trained that repeat at every length, one of bytes that are a code's and the escape's.
Trained ==
    {<<>>, <<0>>, <<0, 0>>, <<0, 0, 0, 0, 0>>, <<2, 1, 0, 0>>, <<6, 7, 6, 7>>, <<0, 1, 0, 1, 0, 1>>,
     <<0, 1, 2, 0, 1, 2, 3>>, <<1, 2, 0, 1, 2, 0, 2>>, <<1, 2, 3, 1, 2, 3, 1, 2>>, <<0, 1, 2, 1, 0, 1, 2, 1, 1>>}
SymbolCases ==
    {[kind |-> "symbols", sample |-> s, max |-> n, strings |-> s \o <<<<0, 1, 2, 3, 4, 0>>, <<0, 1, 0>>>>] :
        s \in SeqsUpTo(Trained, 2), n \in {2, 5, 7}}
    \cup [kind : {"symbolStream"}, packed : SeqsUpTo({0, 1, 2, 7}, 4),
          bytes : {<<0>>, <<1, 0>>, <<1, 1, 3>>, <<1, 5, 1, 1, 1, 1, 1>>, <<2, 4, 1, 0, 1, 2, 3, 3>>,
                   <<3, 1, 2, 3, 0, 0, 1, 2, 1, 0>>}]

\* Phrases that start and hold each other, past one group of them; and labels longer than any.
PhraseNames ==
    <<<<0, 1, 2, 0, 1>>, <<1, 2, 3>>, <<6, 7>>, <<0, 0, 0, 0>>, <<1, 2, 0, 1, 2, 0>>, <<0, 1, 0>>, <<2, 1, 0, 0>>,
      <<3, 1, 2, 3, 1, 2>>, <<0, 1, 2, 1, 0, 1, 2, 1>>, <<1, 1>>, <<0, 1, 2>>>>
LabelNames == <<<<0, 0, 0, 0, 0, 1, 2, 0, 1, 3>>, <<1, 2, 3, 1, 2>>>>
PhraseCases ==
    {[kind |-> "phrases", sample |-> <<p, q>>, phrases |-> SubSeq(PhraseNames, 1, n), labels |-> l,
      strings |-> <<p \o q, <<0, 1, 2, 1, 0, 1, 2, 1, 0>>, <<1, 1, 6, 7>>, <<0, 0, 0, 0, 0, 1, 2, 0, 1, 3, 1>>, <<>>>>] :
        p \in {<<>>, <<0, 0>>, <<6, 7, 6, 7>>, <<1, 2, 0, 1, 2, 0, 2>>, <<0, 1, 2, 0, 1, 2, 3>>},
        q \in {<<0, 1, 0, 1, 0>>, <<1, 2, 3, 1, 2, 3, 1, 2>>, <<2, 1, 0, 0, 0>>},
        n \in {0, 2, 9, 11}, l \in {<<>>, LabelNames}}

\* Dictionaries with a cell changed or cut short, and streams that cut a name, or name none.
PhraseSections ==
    LET nine == M!flat(SubSeq(PhraseNames, 1, 9))
        five == M!flat(SubSeq(PhraseNames, 1, 5))
    IN  {nine, <<>>, SubSeq(nine, 1, 23)}
          \cup {[five EXCEPT ![k] = v] : k \in 1 .. 8, v \in {0, 1, 4, 6, 8, 9, 12, 19, 20}}
PhraseStreams ==
    SeqsUpTo({0, 1, 3, 7}, 2)
      \cup {<<s, c, s, d>> : s \in {3, 5}, c, d \in {0, 3, 4, 5}}
      \cup {<<3, 7, 3, 7>>, <<5, 0, 5, 0>>, <<3, 0, 3, 1>>, <<6, 0, 2, 0, 0>>, <<6, 0, 5, 6, 0, 1>>,
            <<3, 2, 3, 3, 7, 1>>, <<7, 7>>, <<3, 1, 5>>}
ClaimCases ==
    [kind : {"phraseStream"}, section : PhraseSections, packed : PhraseStreams, labels : {<<>>, LabelNames},
     split : {[symbols |-> 3, wide |-> 0], [symbols |-> 5, wide |-> 1], [symbols |-> 3, wide |-> 3]},
     table : {<<<<0, 1, 2, 3>>>>, <<<<1>>, <<0, 1>>>>}]

\* Shards that share long spans, few or none, and empty ones.
Sharing(last) == [k \in 1 .. 3 |-> <<0, 1, 2, 3, 4, 5, 6, k - 1>>] \o <<last>>
Turned  == <<<<2, 1, 2, 3, 4, 5, 6, 0>>, <<6, 5, 4, 3, 2, 1>>, <<3, 6, 5, 4, 3, 2, 1>>>>
Twins   == <<<<6, 5, 4, 3, 2, 1, 0>>, <<6, 5, 4, 3, 2, 1, 1>>>>
Nothing == <<<<0, 1, 0, 1, 0, 1>>, <<2, 2, 3, 3, 2, 2>>>>
MineCases ==
    LET S == Sharing(<<1, 1, 2, 3, 4, 5, 6, 2>>)
    IN  [kind : {"mine"}, keys : {10, 100, 400}, pool : {2, 8},
         samples : {<<S, Turned, Nothing, Twins>>, <<S, S>>, <<Twins, Turned, Twins, S, Nothing>>, <<Nothing>>,
                    <<<<>>, S, Turned>>, <<Turned, Turned, Twins>>, <<S, <<>>, Twins, Twins, S>>}]

-------------------------------------------------------------------------------
(* Keys of two bytes, blocks of four and eight slots, and sets from none to more than fill a
   narrow base; a few are of mostly short keys with one or two that no block's offsets reach across. *)

A == INSTANCE Arena WITH
        Half <- 8, RunGroup <- 2, StepsShare <- 3, StepsMost <- 4, MaxNodes <- 60,
        B_U8 <- 4, B_U16 <- 8, MostU8 <- 10, MostU16 <- 28, NARROW <- 4, WIDE <- 6, NARROW_LIMIT <- 60,
        HEADER <- 1, PARAMS <- 1, TRAILER <- 1, SLOT_LEN <- 2, Byte <- 2, WordBytes <- 5,
        PREFLIGHT_KEYS <- 5, DRAWN <- 2

BitsUpTo(n) == UNION {[1 .. m -> {0, 1}] : m \in 0 .. n}

Forward(n)  == [i \in 1 .. n |-> i] \o <<>>
Backward(n) == [i \in 1 .. n |-> n + 1 - i] \o <<>>
Strided(n)  == [i \in 1 .. n |-> (2 * i) % (n + 1)] \o <<>>
Orders(n) == {Forward(n), Backward(n)} \cup (IF n % 2 = 0 THEN {Strided(n)} ELSE {})

\* Keys inside keys, prefixes of the next, and overlaps that tie.
Overlapping ==
    {<<>>, <<0>>, <<0, 0>>, <<0, 1, 0>>, <<1, 0, 0>>, <<1, 0, 1, 1>>, <<0, 1, 1, 0, 0>>, <<1>>, <<1, 1, 0, 1, 0>>}
Small == {D!InOrder(K) : K \in UNION {kSubset(n, Overlapping) : n \in 0 .. 4}}
MergeCases ==
    UNION {{[kind |-> "merge", keys |-> K, order |-> o] : o \in Orders(Len(K))} :
             K \in Small \cup {D!InOrder(K) : K \in kSubset(7, Overlapping)}}

\* Short keys, and long ones that overflow a one-byte run, or a two-byte one.
LongKey(n, b) == [i \in 1 .. n |-> IF i = n THEN b ELSE 0]
Mixed ==
    {D!InOrder(BitsUpTo(m) \cup longs) :
        m \in {2, 3}, longs \in {{}, {LongKey(7, 1)}, {LongKey(16, 1)}, {LongKey(9, 0), LongKey(7, 1)}, {LongKey(16, 0), LongKey(17, 1)}}}
    \cup {D!InOrder(BitsUpTo(2) \cup {<<a, b, 0>> : a, b \in {0, 1}} \cup {LongKey(25, 1)}),
          D!InOrder(BitsUpTo(4) \cup {LongKey(5, 1)}), D!InOrder(BitsUpTo(4) \cup {LongKey(30, 1)})}
ArenaCases ==
    UNION {{[kind |-> "arena", keys |-> K, order |-> o, fp |-> fp, limit |-> l] :
              o \in Orders(Len(K)), fp \in BOOLEAN, l \in {60, 8}} : K \in Small}
    \cup UNION {{[kind |-> "arena", keys |-> K, order |-> o, fp |-> fp, limit |-> 60] :
                   o \in Orders(Len(K)), fp \in BOOLEAN} : K \in Mixed}

\* One cell of a blob changed, or its end gone.
TamperCases ==
    UNION {{[kind |-> "tamper", keys |-> K, order |-> Forward(Len(K)), fp |-> fp, limit |-> l, at |-> at, cell |-> cell] :
              fp \in BOOLEAN, l \in {60, 4}, at \in 0 .. 14, cell \in {0, 1, 2, 3, 7}} :
             K \in {D!InOrder(K) : K \in {{<<>>}, {<<0>>}, {<<0, 1>>, <<1, 0>>}, {<<0, 0>>, <<0, 0, 1>>, <<1, 1>>},
                                      {<<0>>, LongKey(8, 1), <<1, 1>>}, BitsUpTo(2)}}}
ArenaKinds == {"merge", "arena", "tamper"}
ArenaCases_of(k) ==
    CASE k = "merge" -> MergeCases [] k = "arena" -> ArenaCases [] k = "tamper" -> TamperCases

-------------------------------------------------------------------------------
CompactKinds == {"compactRun", "compactFp", "compactKeys", "compactBlob"}
PerfectKinds == {"perfectKeys", "perfectBlob"}

CasesOf(k) ==
    CASE k \in CompactKinds -> CompactCases(k)
      [] k \in PerfectKinds -> PerfectCases(k)
      [] k = "offsets" -> OffsetCases
      [] k = "codes" -> CodeCases
      [] k = "frequencies" -> FrequencyCases
      [] k = "table" -> TableCases
      [] k = "pairs" -> PairCases
      [] k = "symbols" -> SymbolCases
      [] k = "phrases" -> PhraseCases
      [] k = "claims" -> ClaimCases
      [] k = "mine" -> MineCases
      [] k \in DictKinds -> DictCases_of(k)
      [] k \in ArenaKinds -> ArenaCases_of(k)
Kinds == CompactKinds \cup PerfectKinds \cup DictKinds \cup ArenaKinds \cup
    {"offsets", "codes", "frequencies", "table", "pairs", "symbols", "phrases", "claims", "mine"}

Init == case \in [kind : {"start"}, of : Kinds]
Next == case.kind = "start" /\ case' \in CasesOf(case.of)

\* A run is sorted to one sequence on any number of threads; a fingerprint reads back as written, in
\* a table written whole or in segments; every key resolves to an id of its own, whatever threads
\* built the index; and a loaded index has a row for every slot and every side entry (sort_run,
\* write_fp, read_fp, id_bytes, parse_frame).
CompactAnswers ==
    /\ case.kind = "compactRun" => H!SortsOnAnyThreads(case)
    /\ case.kind = "compactFp" => H!FingerprintsReadBack(case)
    /\ case.kind = "compactKeys" => H!KeysResolve(case)
    /\ case.kind = "compactBlob" => H!LoadedAnswersInside(case)

\* Every key has an id of its own whose row is the key, and no stranger has one; the ids depend on
\* the set of the keys alone; and a loaded index has a row for every slot and every side entry (id,
\* ids_of, build_with, parse_frame).
PerfectAnswers ==
    /\ case.kind = "perfectKeys" => E!IdsAndKeysMatch(case) /\ E!IdsAreTheSets(case)
    /\ case.kind = "perfectBlob" => E!LoadedRowsExist(case)

\* Packed offsets read back, alone and in pairs, at every width, and so do values in no order,
\* packed with no bases; a suffix out of the middle of a stream decodes and compares as written,
\* under the cheapest width; a table a load accepts decodes what it encodes; and the pairs of front
\* coding read back under a frame or a table that no other of its kind undercuts, at the price it was
\* chosen for (pack, at, pair, decode_into, compare, Alphabet::of, read, choose_cost, next_code).
\* A trained symbol is emitted for itself, in a table and in its heads; symbols, phrases and labels
\* read back and compare as the string they code, the parse is the cheapest there is, a shard settles
\* on a split no other undercuts, and no stream stores outside the room a decoder asked for; and the
\* phrases mined are the same on any threads (train_to, encode, parse, settle, decode_into, mine).
CodesReadBack ==
    /\ case.kind = "offsets" =>
         /\ Sorted(case.values) => O!OffsetsReadBack(case)
         /\ O!PackedReadsBack(case)
    /\ case.kind = "codes" => P!CodesReadBack(case)
    /\ case.kind = "frequencies" => P!CheapestWidth(case)
    /\ case.kind = "table" => P!AcceptedIsInverse(case)
    /\ case.kind = "pairs" =>
         /\ C!WidthsAreTheSearchs(case)
         /\ C!TableIsCheapest(case)
         /\ C!PricesAreLengths(case)
         /\ C!PairsReadBack(case)
    /\ case.kind = "symbols" => M!SymbolsAreReached(case) /\ M!SymbolsReadBack(case)
    /\ case.kind = "symbolStream" => M!StoresFit(case)
    /\ case.kind = "phrases" =>
         /\ M!CodingsReadBack(case)
         /\ M!NamesReadBack(case)
         /\ M!SettlesOnTheCheapest(case)
    /\ case.kind = "phraseStream" => M!ClaimsStayInside(case)
    /\ case.kind = "mine" => M!MinesOnAnyThreads(case)

\* One dictionary index of a set of keys: whatever order they come in, on any threads, from memory or
\* off a sorted stream, with the labels of one walk over the keys or of two over a stream
\* (sort_distinct, build_with, write_sorted, select, select_stream).
DictBuildsOneIndex ==
    /\ case.kind = "labels" => D!EdgesOnce(case) /\ D!StreamSelectsTheSame(case)
    /\ case.kind = "sort" => D!SortsOnAnyThreads(case)
    /\ case.kind = "build" => D!OneIndex(case)

\* A dictionary index a build wrote passes the load's checks, and answers every query with the rank
\* the sorted keys give it, whichever way it is routed, one at a time, in lockstep or off a walk
\* (check_layout, locate_query, ids_of, prefix_id_range, climb, keys_of, iter_from).
DictAnswers == case.kind = "ask" => D!IndexAnswers(case)

\* The arena of a set of keys reads every slot's key back under each of its layouts, no smaller one
\* having been passed over; the keys it may lay over each other are merged as greedily as can be,
\* whatever threads merge them; and an arena with a field changed never reads outside its blob
\* (build_cheapest, tag_for, lay_out_merged, merge_cannot_win, from_shared, entry_of, chain).
ArenaHoldsTheKeys ==
    /\ case.kind = "merge" => A!MergesGreedily(case)
    /\ case.kind = "arena" => A!SlotsReadBack(case)
    /\ case.kind = "tamper" => A!TamperedStaysInside(case)
=================================================================================
