-------------------------------- MODULE FstWalk ---------------------------------
(***************************************************************************)
(* The walks that follow one path of a transducer over its own bytes      *)
(* (src/src/fst_walk.rs): a node stepped over without being decoded whole, *)
(* the table of first characters, and the check that a node fits the bytes *)
(* it is read from (src/src/fst_bounds.rs).                                *)
(*                                                                         *)
(* fst itself is external: how it writes a transducer, and how its own     *)
(* decoder reads a node. Bytes are numbers counted from 0; a key is its    *)
(* bytes. A checksum is what it was computed over.                         *)
(***************************************************************************)
EXTENDS Integers, Sequences, FiniteSets, SequencesExt, FiniteSetsExt, TLC

CONSTANTS
    WORD,       \* bytes of a u64 of the blob
    SUM,        \* bytes of its checksum
    INDEXED,    \* above so many transitions a node has an index of 256
    TableMax,   \* what a u32 of the table of first characters holds
    COMMON_INPUTS

LOCAL Told(f) == f @@ <<>>

None     == -1
Outside  == -2       \* a read past the bytes: a panic
EMPTY    == 0        \* the address of the final node nothing leaves
ValueMax == 256 ^ WORD - 1

cell(bytes, i) == IF i \in 0 .. Len(bytes) - 1 THEN bytes[i + 1] ELSE Outside
\* checked_add
Sum(a, b) == IF a = None \/ b = None \/ a + b > ValueMax THEN None ELSE a + b

-------------------------------------------------------------------------------
(* fst's writer. A node is the map from what is left of its keys to what is left of their values. *)

Digits(v, n) == Told([i \in 1 .. n |-> (v \div 256 ^ (i - 1)) % 256])
SizeOf(v) == Min({n \in 1 .. WORD : v < 256 ^ n})
LOCAL ByteOrder == Told([i \in 1 .. 256 |-> i - 1])
LOCAL Heads(f) == LET S == {s[1] : s \in DOMAIN f \ {<<>>}} IN SelectSeq(ByteOrder, LAMBDA b : b \in S)
LOCAL Lowest(f) == IF DOMAIN f = {} THEN 0 ELSE Min({f[s] : s \in DOMAIN f})
LOCAL Left(f, b) ==
    LET S == {Tail(s) : s \in {k \in DOMAIN f : k # <<>> /\ k[1] = b}} IN Told([s \in S |-> f[<<b>> \o s]])
LOCAL Less(f, v) == Told([s \in DOMAIN f |-> f[s] - v])

\* The parts one after another, joined a half at a time: a node may have 256 transitions.
RECURSIVE Joined(_)
LOCAL JoinedAt(parts, half) == Joined(SubSeq(parts, 1, half)) \o Joined(SubSeq(parts, half + 1, Len(parts)))
Joined(parts) ==
    CASE Len(parts) = 0 -> <<>>
      [] Len(parts) = 1 -> parts[1]
      [] OTHER -> JoinedAt(parts, Len(parts) \div 2)
LOCAL Reversed(parts) == Joined(Reverse(parts))
LOCAL InputIndex(inputs) ==
    [b \in 1 .. 256 |-> LET at == {i \in DOMAIN inputs : inputs[i] = b - 1} IN IF at = {} THEN 255 ELSE Min(at) - 1]
\* A node's bytes from start on: trans is its transitions in order, final its own output or None.
AnyCells(start, version, final, trans) ==
    LET delta(t) == IF t.to = EMPTY THEN 0 ELSE start - t.to
        outs  == {t.out : t \in ToSet(trans)} \cup {IF final = None THEN 0 ELSE final}
        osize == IF outs = {0} THEN 0 ELSE SizeOf(Max(outs))
        tsize == IF trans = <<>> THEN 0 ELSE SizeOf(Max({delta(t) : t \in ToSet(trans)}))
        inputs == [i \in DOMAIN trans |-> trans[i].inp]
    IN  (IF final = None THEN <<>> ELSE Digits(final, osize))
          \o Reversed([i \in DOMAIN trans |-> Digits(trans[i].out, osize)])
          \o Reversed([i \in DOMAIN trans |-> Digits(delta(trans[i]), tsize)]) \o Reverse(inputs)
          \o (IF version >= 2 /\ Len(trans) > INDEXED THEN InputIndex(inputs) ELSE <<>>)
          \o <<16 * tsize + osize>>
          \o (IF Len(trans) \in 1 .. 63 THEN <<>> ELSE <<IF Len(trans) = 256 THEN 1 ELSE Len(trans)>>)
          \o <<(IF final = None THEN 0 ELSE 64) + (IF Len(trans) \in 1 .. 63 THEN Len(trans) ELSE 0)>>
\* One transition out of a node that is not final: its input in the state byte if it is common.
LOCAL OneCells(start, last, t) ==
    LET common == {i \in DOMAIN COMMON_INPUTS : COMMON_INPUTS[i] = t.inp}
        low    == IF common = {} THEN 0 ELSE Min(common)
        input  == IF common = {} THEN <<t.inp>> ELSE <<>>
        delta  == IF t.to = EMPTY THEN 0 ELSE start - t.to
        osize  == IF t.out = 0 THEN 0 ELSE SizeOf(t.out)
    IN  IF t.out = 0 /\ t.to = last THEN input \o <<192 + low>>
        ELSE Digits(t.out, osize) \o Digits(delta, SizeOf(delta)) \o <<16 * SizeOf(delta) + osize>> \o input \o <<128 + low>>

LOCAL Placed(at, f, cells) ==
    [cells |-> at.cells \o cells, last |-> Len(at.cells) + Len(cells) - 1,
     addr |-> (f :> (Len(at.cells) + Len(cells) - 1)) @@ at.addr]
LOCAL NodePlaced(at, version, f, trans, final) ==
    IF trans = <<>> /\ final = 0 THEN [at EXCEPT !.addr = (f :> EMPTY) @@ @]
    ELSE IF Len(trans) = 1 /\ final = None THEN Placed(at, f, OneCells(Len(at.cells), at.last, trans[1]))
    ELSE Placed(at, f, AnyCells(Len(at.cells), version, final, trans))
LOCAL Out(f, b) == Lowest(Left(f, b))
LOCAL Child(f, b) == Less(Left(f, b), Out(f, b))
LOCAL NodeOver(at, version, f) ==
    NodePlaced(at, version, f, Told([i \in DOMAIN Heads(f) |->
                 [inp |-> Heads(f)[i], out |-> Out(f, Heads(f)[i]), to |-> at.addr[Child(f, Heads(f)[i])]]]),
               IF <<>> \in DOMAIN f THEN f[<<>>] ELSE None)
RECURSIVE Compiled(_, _, _), CompiledAll(_, _, _, _)
\* The children under the bytes bs, a half at a time: what is asked of `at` first is that it is there.
CompiledAll(at, version, f, bs) ==
    IF at.cells = <<>> \/ bs = <<>> THEN at
    ELSE IF Len(bs) = 1 THEN Compiled(at, version, Child(f, bs[1]))
    ELSE CompiledAll(CompiledAll(at, version, f, SubSeq(bs, 1, Len(bs) \div 2)),
                     version, f, SubSeq(bs, (Len(bs) \div 2) + 1, Len(bs)))
Compiled(at, version, f) ==
    IF f \in DOMAIN at.addr THEN at
    ELSE NodeOver(CompiledAll(at, version, f, Heads(f)), version, f)

Footed(version, len, root, cells) ==
    cells \o Digits(len, WORD) \o Digits(root, WORD) \o (IF version > 2 THEN Digits(0, SUM) ELSE <<>>)
Summed(bytes) == [bytes |-> bytes, sum |-> bytes]
LOCAL Headed(version) == Digits(version, WORD) \o Digits(0, WORD)
LOCAL WrittenTo(at, version, f) == Summed(Footed(version, Cardinality(DOMAIN f), at.addr[f], at.cells))
\* The transducer of a map from keys to values.
MapOf(version, f) == WrittenTo(Compiled([cells |-> Headed(version), addr |-> <<>>, last |-> None], version, f), version, f)
\* A transducer of n nodes, each with two transitions to the one before it: 2^n keys.
Doubling(n) ==
    LET cells[i \in 0 .. n] ==
          IF i = 0 THEN [cells |-> Headed(3), last |-> EMPTY, keys |-> 1]
          ELSE LET grown(at) ==
                     LET more == AnyCells(Len(at.cells), 3, None, <<[inp |-> 97, out |-> 0, to |-> at.last],
                                              [inp |-> 98, out |-> at.keys % (ValueMax + 1), to |-> at.last]>>)
                     IN  [cells |-> at.cells \o more, last |-> Len(at.cells) + Len(more) - 1, keys |-> 2 * at.keys]
               IN  grown(cells[i - 1])
    IN  Summed(Footed(3, cells[n].keys % (ValueMax + 1), cells[n].last, cells[n].cells))

-------------------------------------------------------------------------------
(* Reading the bytes. *)

LOCAL Value(bytes, at, n) == FoldSeq(LAMBDA i, sum : bytes[at + i] * 256 ^ (i - 1) + sum, 0, [i \in 1 .. n |-> i])
uint(bytes, at, n) ==
    IF n = 0 THEN 0 ELSE IF at < 0 \/ at + n > Len(bytes) THEN Outside ELSE Value(bytes, at, Min({n, WORD}))
target(bytes, at, size, end) ==
    LET d == uint(bytes, at, size) IN IF d \in {EMPTY, Outside} THEN d ELSE end - d

version(bytes) == uint(bytes, 0, WORD)
root_addr(bytes) ==
    IF Len(bytes) < 4 * WORD + SUM THEN None
    ELSE LET root == uint(bytes, Len(bytes) - WORD - (IF version(bytes) <= 2 THEN 0 ELSE SUM), WORD)
         IN  IF root < Len(bytes) THEN root ELSE None
LOCAL HeldLen(bytes) == uint(bytes, Len(bytes) - 2 * WORD - (IF version(bytes) <= 2 THEN 0 ELSE SUM), WORD)
map_len(bytes) == HeldLen(bytes)

\* Fst::new, as validate describes it: a root is held against the length only when it is EMPTY.
MapNew(bytes) ==
    /\ Len(bytes) >= 4 * WORD + SUM /\ version(bytes) \in 1 .. 3
    /\ root_addr(bytes) = EMPTY => Len(bytes) = 4 * WORD + SUM

LayoutOf(bytes) ==
    [root |-> root_addr(bytes), indexed_above |-> IF version(bytes) >= 2 THEN INDEXED ELSE 256]

\* The input of a node with one transition, and the bytes it takes.
one_input(bytes, addr, state) ==
    IF state % 64 = 0 THEN [inp |-> cell(bytes, addr - 1), len |-> 1]
    ELSE [inp |-> COMMON_INPUTS[state % 64], len |-> 0]
position(bytes, at, n, b) ==
    IF at < 0 THEN Outside
    ELSE LET hits == {p \in 0 .. n - 1 : cell(bytes, at + p) = b} IN IF hits = {} THEN None ELSE Min(hits)

\* Where the parts of a node are, of one transition and of any number.
LOCAL OneAt(bytes, sizes, byte) ==
    [sizes |-> byte, tsize |-> byte \div 16, osize |-> byte % 16, tat |-> sizes - (byte \div 16),
     end |-> sizes - (byte \div 16) - (byte % 16)]
LOCAL OneParts(bytes, sizes) == OneAt(bytes, sizes, cell(bytes, sizes))
LOCAL AnyAt(layout, state, n, sizes, byte) ==
    LET index   == IF n > layout.indexed_above THEN 256 ELSE 0
        inputs  == sizes - index - n
        outputs == inputs - n * (byte \div 16)
    IN  [final |-> (state \div 64) % 2 = 1, ntrans |-> n, at |-> sizes, sizes |-> byte, index |-> index,
         tsize |-> byte \div 16, osize |-> byte % 16, inputs |-> inputs, outputs |-> outputs]
LOCAL AnyParts(layout, bytes, addr, state) ==
    IF state % 64 # 0 THEN AnyAt(layout, state, state % 64, addr - 1, cell(bytes, addr - 1))
    ELSE LET n == cell(bytes, addr - 1)
         IN  AnyAt(layout, state, IF n = 1 THEN 256 ELSE n, addr - 2, cell(bytes, addr - 2))

Panics == [fin |-> Outside, to |-> Outside, out |-> Outside]
LOCAL Answer(fin, to, out) == IF Outside \in {fin, to, out} THEN Panics ELSE [fin |-> fin, to |-> to, out |-> out]
LOCAL Nowhere(fin) == Answer(fin, None, None)

\* Fault: transitions are taken in the order their inputs are stored.
FoundForward(p, at) == at
\* Inputs are stored last to first.
Found(p, at) == IF at < 0 THEN at ELSE p.ntrans - at - 1
LOCAL Indexed(p, at) == IF at < p.ntrans THEN at ELSE None
LOCAL TransitionAt(bytes, p, b) ==
    IF p.index # 0 THEN Indexed(p, cell(bytes, p.at - 256 + b)) ELSE Found(p, position(bytes, p.inputs, p.ntrans, b))
LOCAL AnyTarget(bytes, p, i) ==
    target(bytes, p.inputs - (i + 1) * p.tsize, p.tsize, p.outputs - p.ntrans * p.osize - (IF p.final THEN p.osize ELSE 0))
LOCAL AnyOut(bytes, p, i) == uint(bytes, p.outputs - (i + 1) * p.osize, p.osize)
LOCAL FinalOut(bytes, p) == uint(bytes, p.outputs - (p.ntrans + 1) * p.osize, p.osize)
LOCAL AnyTaken(bytes, p, fin, i) ==
    IF i = Outside THEN Panics ELSE IF i = None THEN Nowhere(fin) ELSE Answer(fin, AnyTarget(bytes, p, i), AnyOut(bytes, p, i))
LOCAL AnyStep(bytes, p, input, wants) ==
    LET fin == IF wants /\ p.final THEN FinalOut(bytes, p) ELSE None
    IN  IF Outside \in {p.sizes, p.ntrans} THEN Panics
        ELSE IF input = None THEN Nowhere(fin) ELSE AnyTaken(bytes, p, fin, TransitionAt(bytes, p, input))
LOCAL OneStep(bytes, p) ==
    IF p.sizes = Outside THEN Panics ELSE Answer(None, target(bytes, p.tat, p.tsize, p.end), uint(bytes, p.end, p.osize))
LOCAL OneTaken(bytes, addr, kind, one, input) ==
    IF one.inp = Outside THEN Panics
    ELSE IF input # one.inp THEN Nowhere(None)
    ELSE IF kind = 3 THEN Answer(None, addr - one.len - 1, 0)
    ELSE OneStep(bytes, OneParts(bytes, addr - one.len - 1))
\* What a node answers of one input, and of ending at it if that is asked.
step(layout, bytes, addr, input, wants) ==
    LET state == cell(bytes, addr)
    IN  IF addr = EMPTY THEN Nowhere(0)
        ELSE IF state = Outside THEN Panics
        ELSE IF state >= 128 THEN OneTaken(bytes, addr, state \div 64, one_input(bytes, addr, state), input)
        ELSE AnyStep(bytes, AnyParts(layout, bytes, addr, state), input, wants)

-------------------------------------------------------------------------------
(* fst's own decoder: a node whole, its transitions in order. *)

NoNode == [final |-> None, trans |-> <<>>, ok |-> FALSE]
LOCAL Whole(n) ==
    IF n.final = Outside \/ \E i \in DOMAIN n.trans : Outside \in {n.trans[i].inp, n.trans[i].out} \/ n.trans[i].to < 0
    THEN NoNode ELSE n
LOCAL Trans(inp, out, to) == [inp |-> inp, out |-> out, to |-> to]
LOCAL AnyNode(bytes, p) ==
    IF Outside \in {p.sizes, p.ntrans} THEN NoNode
    ELSE Whole([final |-> IF p.final THEN FinalOut(bytes, p) ELSE None,
                trans |-> Told([i \in 1 .. p.ntrans |-> Trans(cell(bytes, p.inputs + p.ntrans - i),
                                                             AnyOut(bytes, p, i - 1), AnyTarget(bytes, p, i - 1))]),
                ok    |-> TRUE])
LOCAL OneNode(one, taken) == Whole([final |-> None, trans |-> <<Trans(one.inp, taken.out, taken.to)>>, ok |-> TRUE])
node(layout, bytes, addr) ==
    LET state == cell(bytes, addr)
    IN  IF addr = EMPTY THEN [final |-> 0, trans |-> <<>>, ok |-> TRUE]
        ELSE IF state = Outside THEN NoNode
        ELSE IF state >= 128
        THEN OneNode(one_input(bytes, addr, state),
                     OneTaken(bytes, addr, state \div 64, one_input(bytes, addr, state), one_input(bytes, addr, state).inp))
        ELSE AnyNode(bytes, AnyParts(layout, bytes, addr, state))
\* The keys under a node with their values, in order.
RECURSIVE Streamed(_, _, _, _, _)
LOCAL Ending(n, key, acc) == IF n.final = None THEN <<>> ELSE <<<<key, acc + n.final>>>>
LOCAL StreamedAt(layout, bytes, n, key, acc) ==
    Ending(n, key, acc) \o Joined([i \in DOMAIN n.trans |->
        Streamed(layout, bytes, n.trans[i].to, Append(key, n.trans[i].inp), acc + n.trans[i].out)])
Streamed(layout, bytes, addr, key, acc) == StreamedAt(layout, bytes, node(layout, bytes, addr), key, acc)

-------------------------------------------------------------------------------
(* A node is measured before fst is given its address. *)

unpack(bytes, at, n) == uint(bytes, at, n)
deltas_fit(bytes, first, count, size, end) ==
    \A i \in 0 .. count - 1 :
      LET delta == unpack(bytes, first - i * size, size)
      IN  first - i * size >= 0 /\ delta # Outside /\ (delta = EMPTY \/ delta <= end)
LOCAL SizesFit(p, n) == p.sizes # Outside /\ (n > 0 => p.tsize \in 1 .. WORD) /\ p.osize <= WORD
LOCAL OneFits(bytes, p) == SizesFit(p, 1) /\ p.end >= 0 /\ deltas_fit(bytes, p.tat, 1, p.tsize, p.end)
LOCAL AnyFits(bytes, p) ==
    LET end == p.at - p.ntrans - p.ntrans * p.tsize - p.index - p.ntrans * p.osize - (IF p.final THEN p.osize ELSE 0)
    IN  /\ p.ntrans # Outside /\ SizesFit(p, p.ntrans) /\ end >= 0
        /\ p.ntrans = 0 \/ deltas_fit(bytes, p.at - p.index - p.ntrans - p.tsize, p.ntrans, p.tsize, end)
node_fits(layout, bytes, addr) ==
    LET state == cell(bytes, addr)
        input == IF state % 64 = 0 THEN 1 ELSE 0
    IN  \/ addr = EMPTY
        \/ /\ state # Outside
           /\ CASE state >= 192 -> addr > input
                [] state \in 128 .. 191 -> OneFits(bytes, OneParts(bytes, addr - input - 1))
                [] OTHER -> AnyFits(bytes, AnyParts(layout, bytes, addr, state))

-------------------------------------------------------------------------------
(* Characters. *)

Continues(b) == b \in 128 .. 191
is_char_boundary(q, i) == i = 0 \/ i = Len(q) \/ (i < Len(q) /\ ~Continues(q[i + 1]))
\* The bytes the character a byte leads takes.
len_utf8(b) == IF b < 128 THEN 1 ELSE IF b < 224 THEN 2 ELSE IF b < 240 THEN 3 ELSE 4
\* The code point a character's bytes encode.
code_point(s) ==
    CASE Len(s) = 1 -> s[1]
      [] Len(s) = 2 -> (s[1] % 32) * 64 + (s[2] % 64)
      [] Len(s) = 3 -> (s[1] % 16) * 4096 + (s[2] % 64) * 64 + (s[3] % 64)
      [] Len(s) = 4 -> (s[1] % 8) * 262144 + (s[2] % 64) * 4096 + (s[3] % 64) * 64 + (s[4] % 64)
\* from_utf8 of one character: no longer than its code point needs, no surrogate, none past the last.
IsChar(s) ==
    /\ s # <<>> /\ s[1] \in (0 .. 127) \cup (192 .. 247) /\ Len(s) = len_utf8(s[1])
    /\ \A i \in 2 .. Len(s) : Continues(s[i])
    /\ code_point(s) >= <<0, 128, 2048, 65536>>[Len(s)]
    /\ code_point(s) \notin 55296 .. 57343 /\ code_point(s) <= 1114111
RECURSIVE IsText(_)
IsText(s) == s = <<>> \/ (IsChar(SubSeq(s, 1, Min({Len(s), len_utf8(s[1])}))) /\ IsText(SubSeq(s, len_utf8(s[1]) + 1, Len(s))))

-------------------------------------------------------------------------------
(* The table of first characters: the state past each of the plane's characters keys start with. *)

NoTable  == [states |-> None]
PageSize == 64
LOCAL TooWide == <<[cp |-> None, addr |-> None, sum |-> None]>>
RECURSIVE descend(_, _, _, _, _, _)
LOCAL FoundChar(spelled, addr, sum) ==
    IF ~IsChar(spelled) THEN <<>> ELSE IF addr > TableMax \/ sum > TableMax THEN TooWide
    ELSE <<[cp |-> code_point(spelled), addr |-> addr, sum |-> sum]>>
LOCAL DescendNode(layout, bytes, n, sum, spelled, want) ==
    Joined([i \in DOMAIN n.trans |->
        IF ~Continues(n.trans[i].inp) \/ Sum(sum, n.trans[i].out) = None THEN <<>>
        ELSE descend(layout, bytes, n.trans[i].to, sum + n.trans[i].out, Append(spelled, n.trans[i].inp), want)])
descend(layout, bytes, addr, sum, spelled, want) ==
    IF Len(spelled) = want THEN FoundChar(spelled, addr, sum)
    ELSE DescendNode(layout, bytes, node(layout, bytes, addr), sum, spelled, want)

LOCAL Pages(root, found) ==
    LET at(p) == {i \in DOMAIN found : found[i].cp \div PageSize = p}
        pages == 1 .. (IF found = <<>> THEN 0 ELSE found[Len(found)].cp \div PageSize + 1)
    IN  [root   |-> root.final,
         bits   |-> Told([p \in pages |-> {found[i].cp % PageSize : i \in at(p - 1)}]),
         base   |-> Told([p \in pages |-> IF at(p - 1) = {} THEN 0 ELSE Min(at(p - 1)) - 1]),
         states |-> Told([i \in DOMAIN found |-> [to |-> found[i].addr, sum |-> found[i].sum]])]
LOCAL TableOf(root, found) == IF TooWide[1] \in ToSet(found) THEN NoTable ELSE Pages(root, found)
LOCAL DeriveAt(layout, bytes, root) ==
    TableOf(root, Joined([i \in DOMAIN root.trans |->
        LET b == root.trans[i].inp
        IN  IF b \in (0 .. 127) \cup (194 .. 239)
            THEN descend(layout, bytes, root.trans[i].to, root.trans[i].out, <<b>>, len_utf8(b)) ELSE <<>>]))
derive(layout, bytes) == DeriveAt(layout, bytes, node(layout, bytes, layout.root))

\* A character no key starts with is NoState; one past the plane is Unknown, left to the walk.
NoState == [to |-> None, sum |-> None]
Unknown == [to |-> Outside, sum |-> None]
after(table, cp) ==
    LET page == cp \div PageSize + 1
        bits == IF page \in DOMAIN table.bits THEN table.bits[page] ELSE {}
    IN  IF cp > 65535 THEN Unknown
        ELSE IF cp % PageSize \notin bits THEN NoState
        ELSE table.states[table.base[page] + Cardinality({o \in bits : o < cp % PageSize}) + 1]

-------------------------------------------------------------------------------
(* The walks. *)

Panicked == <<<<Outside, Outside>>>>
RECURSIVE WalkFrom(_, _, _, _, _, _)
LOCAL Reported(q, i, v) == IF v = None \/ ~is_char_boundary(q, i) THEN <<>> ELSE <<<<i, v>>>>
LOCAL WalkOn(layout, bytes, q, i, acc, at) ==
    IF at = Panics THEN Panicked
    ELSE Reported(q, i, Sum(acc, at.fin)) \o
           IF at.to = None \/ Sum(acc, at.out) = None \/ i = Len(q) THEN <<>>
           ELSE WalkFrom(layout, bytes, q, i + 1, at.to, acc + at.out)
WalkFrom(layout, bytes, q, i, addr, acc) ==
    WalkOn(layout, bytes, q, i, acc, step(layout, bytes, addr, IF i < Len(q) THEN q[i + 1] ELSE None, TRUE))

LOCAL FromTable(layout, bytes, table, q, past) ==
    IF past = Unknown THEN WalkFrom(layout, bytes, q, 0, layout.root, 0)
    ELSE (IF table.root = None THEN <<>> ELSE <<<<0, table.root>>>>) \o
           IF past = NoState THEN <<>> ELSE WalkFrom(layout, bytes, q, len_utf8(q[1]), past.to, past.sum)
\* Every key that is a prefix of the query, as <<its length, its value>>, shortest first.
common_prefixes(layout, bytes, table, q) ==
    IF table = NoTable \/ q = <<>> THEN WalkFrom(layout, bytes, q, 0, layout.root, 0)
    ELSE FromTable(layout, bytes, table, q, after(table, code_point(SubSeq(q, 1, len_utf8(q[1])))))

RECURSIVE GetFrom(_, _, _, _, _, _)
LOCAL GetOn(layout, bytes, key, i, acc, at) ==
    IF at = Panics THEN Outside
    ELSE IF i = Len(key) THEN Sum(acc, at.fin)
    ELSE IF at.to = None \/ Sum(acc, at.out) = None THEN None
    ELSE GetFrom(layout, bytes, key, i + 1, at.to, acc + at.out)
GetFrom(layout, bytes, key, i, addr, acc) ==
    GetOn(layout, bytes, key, i, acc,
          step(layout, bytes, addr, IF i < Len(key) THEN key[i + 1] ELSE None, i = Len(key)))
get(layout, bytes, key) == GetFrom(layout, bytes, key, 0, layout.root, 0)
================================================================================
