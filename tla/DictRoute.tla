------------------------------- MODULE DictRoute --------------------------------
(***************************************************************************)
(* Placing a probe in a dictionary index (src/src/dict_index/route.rs,     *)
(* codec.rs, src/src/ties.rs): a sample of each block's head past the      *)
(* prefix they share, tries over runs of samples that tie, a route over    *)
(* the restarts of a block, and the scan of one microblock.                *)
(*                                                                         *)
(* `x` is an index as loaded: its blob, the samples, whether its           *)
(* microblocks are routed, and the raw route of a coded one.               *)
(***************************************************************************)
EXTENDS DictEncode

CONSTANTS
    Base,       \* bytes are below it
    Word,       \* bytes of a sample, 8 in the code
    MIN_RUN,    \* blocks of a run that is given a trie
    MAX_DEPTH   \* levels of one

-------------------------------------------------------------------------------
(* The parts of the index. *)

head(x, b)     == x.heads[b + 1]
blocks_len(x)  == Len(x.heads)
per(x)         == DivCeil(x.block, x.micro)
count_in(x, b) == Min({x.n - b * x.block, x.block})
micros_in(x, b) == IF b + 1 < blocks_len(x) THEN per(x) ELSE DivCeil(count_in(x, b), x.micro)
micro_count(x, b, j) == Min({Max({count_in(x, b) - j * x.micro, 0}), x.micro})
codec_of(x, b) == x.codecs[b \div shard_blocks_for(x.block) + 1]
micro_start(x, b, j) == x.blocks[b + 1] + (IF per(x) = 1 THEN 0 ELSE x.micros[b * per(x) + j + 1])
block_end(x, b) == IF b + 1 < blocks_len(x) THEN x.blocks[b + 2] ELSE Len(x.data)
Cells(x, start, end) == SubSeq(x.data, start + 1, end)
restart_data(x, b) == Cells(x, x.blocks[b + 1], micro_start(x, b, 0))
micro_data(x, b, j) ==
    Cells(x, micro_start(x, b, j),
          IF j + 1 < micros_in(x, b) THEN micro_start(x, b, j + 1) ELSE block_end(x, b))

\* Entries::of: a run's entries off its cells, all but the first of `count` keys.
Entries(cells, count) ==
    LET at[i \in 0 .. Max({count - 1, 0})] ==
            IF i = 0 THEN [reach |-> 1, got |-> <<>>]
            ELSE LET w == at[i - 1]
                     header == cells[w.reach]
                     Unit(u) == cells[w.reach + u][1]
                 IN  [reach |-> w.reach + 1 + header[2],
                      got |-> Append(w.got, [l |-> header[1], units |-> [u \in 1 .. header[2] |-> Unit(u)]])]
    IN  at[Max({count - 1, 0})].got
Restarts(x, b) == Entries(restart_data(x, b), micros_in(x, b))
Microblock(x, b, j) == Entries(micro_data(x, b, j), micro_count(x, b, j))

-------------------------------------------------------------------------------
(* Samples. *)

Byte(key, i) == IF i < Len(key) THEN key[i + 1] ELSE 0

\* Word bytes from g, zeros past the end, as a number.
sample_at(key, g) == FoldLeft(LAMBDA w, i : w * Base + Byte(key, g + i - 1), 0, [i \in 1 .. Word |-> i])
Sample(words, i) == IF i \in 0 .. Len(words) - 1 THEN words[i + 1] ELSE -1
Below(words, s) == Cardinality({i \in DOMAIN words : words[i] < s})

\* Fault: the gallop stops at its last step.
past_equalShort(samples, lo, s) ==
    LET gallop[hi \in lo + 1 .. Len(samples), step \in 1 .. 2 * Len(samples)] ==
            IF Sample(samples, hi + step - 1) = s THEN gallop[hi + step, 2 * step] ELSE hi
    IN  IF Sample(samples, lo) # s THEN lo ELSE gallop[lo + 1, 1]

\* The end of the samples equal to s from lo on, by doubling steps and then a bisection.
past_equal(samples, lo, s) ==
    LET gallop[hi \in lo + 1 .. Len(samples), step \in 1 .. 2 * Len(samples)] ==
            IF Sample(samples, hi + step - 1) = s THEN gallop[hi + step, 2 * step]
            ELSE hi + Cardinality({i \in hi .. Min({hi + step - 1, Len(samples)}) - 1 : Sample(samples, i) <= s})
    IN  IF Sample(samples, lo) # s THEN lo ELSE gallop[lo + 1, 1]

\* place_prefix: the blocks below a probe that leaves the prefix every head shares, or -1.
place_prefix(prefix, blocks, probe) ==
    LET front == SubSeq(probe, 1, Min({Len(prefix), Len(probe)}))
    IN  IF front = prefix THEN -1
        ELSE IF Less(front, prefix) THEN 0 ELSE blocks

\* head_boundary: heads up to the probe, among those from l and below r.
head_boundary(x, probe, l, r) ==
    l + Cardinality({b \in l .. r - 1 : ~Less(probe, head(x, b))})

-------------------------------------------------------------------------------
(* Ties: a trie over a run of blocks whose samples tie.  A node is the prefix its blocks' heads *)
(* share and the run; its edges are the words past the prefix.                                  *)

\* -1 where the words past the shared prefix do not split the heads.
splits(first, last) ==
    LET p == lcp(first, last) IN IF sample_at(first, p) # sample_at(last, p) THEN p ELSE -1

Node(x, lo, hi, depth) == [p |-> splits(head(x, lo), head(x, hi - 1)), lo |-> lo, hi |-> hi, depth |-> depth]
NoNode == [p |-> -1, lo |-> 0, hi |-> 0, depth |-> 0]

\* The edges of a node in order, each with the blocks its word covers.
Edges_of(x, node) ==
    LET Of(b) == sample_at(head(x, b), node.p)
        starts == Increasing({b \in node.lo .. node.hi - 1 : b = node.lo \/ Of(b) # Of(b - 1)})
    IN  Told([j \in DOMAIN starts |->
            [word |-> Of(starts[j]), start |-> starts[j],
             end |-> IF j = Len(starts) THEN node.hi ELSE starts[j + 1]]])

\* A kid: NoNode where the edge's blocks are one, or too deep, or do not split.
Kid(x, node, edge) ==
    IF edge.end - edge.start = 1 \/ node.depth >= MAX_DEPTH THEN NoNode
    ELSE LET kid == Node(x, edge.start, edge.end, node.depth + 1) IN IF kid.p = -1 THEN NoNode ELSE kid

\* Ties::derive: the root of the run of samples that starts at lo, where it is long enough and splits.
Root(x, lo) ==
    LET hi == CHOOSE h \in lo + 1 .. Len(x.samples) :
                  /\ \A b \in lo .. h - 1 : Sample(x.samples, b) = Sample(x.samples, lo)
                  /\ Sample(x.samples, h) # Sample(x.samples, lo)
    IN  IF hi - lo < MIN_RUN \/ (lo > 0 /\ Sample(x.samples, lo - 1) = Sample(x.samples, lo)) THEN NoNode
        ELSE Node(x, lo, hi, 1)

\* Where the probe's word falls among a node's edges.
EdgeAt(edges, word) == Cardinality({j \in DOMAIN edges : edges[j].word < word}) + 1

RECURSIVE Descend(_, _, _)
LOCAL Missed(node, l) ==
    [kind |-> "at", lo |-> l, hi |-> l, node |-> node, at |-> IF l > node.lo THEN l - 1 ELSE node.lo]
LOCAL Ended(node, edge) ==
    [kind |-> IF edge.end - edge.start = 1 THEN "leaf" ELSE "flat",
     lo |-> edge.start, hi |-> edge.end, node |-> node, at |-> edge.start]
LOCAL Led(x, node, edge, kid, probe) ==
    IF kid = NoNode THEN Ended(node, edge) ELSE Descend(x, kid, probe)
LOCAL Among(x, node, edges, word, j, probe) ==
    IF j \in DOMAIN edges /\ edges[j].word = word THEN Led(x, node, edges[j], Kid(x, node, edges[j]), probe)
    ELSE Missed(node, IF j \in DOMAIN edges THEN edges[j].start ELSE node.hi)
LOCAL AtEdges(x, node, edges, word, probe) == Among(x, node, edges, word, EdgeAt(edges, word), probe)
\* Down to where the probe's words lead, whatever it shares of the prefixes: the blocks it is among
\* and the one block to compare it with.
Descend(x, node, probe) == AtEdges(x, node, Edges_of(x, node), sample_at(probe, node.p), probe)

RECURSIVE Correct(_, _, _, _, _)
LOCAL Side(below, lo, hi) == IF below THEN lo ELSE hi
LOCAL LedBack(x, edge, kid, probe, shared, below) ==
    IF kid = NoNode THEN Side(below, edge.start, edge.end) ELSE Correct(x, kid, probe, shared, below)
LOCAL BackAmong(x, node, edges, word, j, probe, shared, below) ==
    IF j \notin DOMAIN edges THEN Side(below, node.lo, node.hi)
    ELSE IF edges[j].word # word THEN Side(below, node.lo, node.hi)
    ELSE LedBack(x, edges[j], Kid(x, node, edges[j]), probe, shared, below)
LOCAL BackAt(x, node, edges, word, probe, shared, below) ==
    BackAmong(x, node, edges, word, EdgeAt(edges, word), probe, shared, below)
\* correct: again from the root, for a probe that shares less than the last node's prefix: it is below
\* or above the whole run of the first node it leaves.
Correct(x, node, probe, shared, below) ==
    IF node.p > shared THEN Side(below, node.lo, node.hi)
    ELSE BackAt(x, node, Edges_of(x, node), sample_at(probe, node.p), probe, shared, below)

\* No head compared.
Unknown == <<-1, -1>>

LOCAL Placed(x, root, probe, end, shared, below) ==
    IF shared < end.node.p THEN Correct(x, root, probe, shared, below)
    ELSE CASE end.kind = "at" -> end.lo
           [] end.kind = "leaf" -> end.lo + (IF below THEN 0 ELSE 1)
           [] end.kind = "flat" -> head_boundary(x, probe, end.lo, end.hi)
LOCAL Known(l, end, h, shared) == [l |-> l, known |-> IF l = end.at + 1 THEN <<shared, Len(h)>> ELSE Unknown]
LOCAL Compared(x, root, probe, end, h, shared) ==
    Known(Placed(x, root, probe, end, shared, Less(probe, h)), end, h, shared)
LOCAL Against(x, root, probe, end, h) == Compared(x, root, probe, end, h, lcp(probe, h))
LOCAL AtEnd(x, root, probe, end) == Against(x, root, probe, end, head(x, end.at))
\* boundary: the blocks whose heads are up to the probe, and what it shares with the last of them
\* where that is the head it was compared with.
boundary(x, root, probe) == AtEnd(x, root, probe, Descend(x, root, probe))

LOCAL FlatTies(x, probe, s, lo) ==
    [l |-> head_boundary(x, probe, lo, past_equal(x.samples, lo, s)), known |-> Unknown]
LOCAL Tied(x, root, probe, s, lo) == IF root.p # -1 THEN boundary(x, root, probe) ELSE FlatTies(x, probe, s, lo)
\* sample_boundary: from the first sample not below the probe's.
SampleBoundary(x, probe, s, lo) ==
    IF Sample(x.samples, lo) # s THEN [l |-> lo, known |-> Unknown]
    ELSE Tied(x, IF Sample(x.samples, lo + MIN_RUN - 1) = s THEN Root(x, lo) ELSE NoNode, probe, s, lo)

-------------------------------------------------------------------------------
(* A block's restarts as words. *)

\* decode_into: the bytes of the units, no more units than `cap` bytes take.
decode(units, cap) ==
    LET Until(u) == Sum([v \in 1 .. u |-> Len(units[v])])
        taken == {u \in DOMAIN units : Until(u - 1) < cap}
    IN  Cat(SubSeq(units, 1, Cardinality(taken)))
All == 1000

NoRoute == <<>>
Orders(words) == \A i \in 2 .. Len(words) : words[i - 1] <= words[i]

\* restart_words: the prefix o every restart shares with the head, and each restart's word past it.
restart_words(x, b) ==
    LET restarts == Restarts(x, b)
        o == Min({Len(head(x, b))} \cup {restarts[i].l : i \in DOMAIN restarts})
        need == o + Word
        cur[i \in 0 .. Len(restarts)] ==
            IF i = 0 THEN head(x, b)
            ELSE IF restarts[i].l < need
            THEN SubSeq(cur[i - 1], 1, restarts[i].l) \o decode(restarts[i].units, need - restarts[i].l)
            ELSE cur[i - 1]
        words == Told([i \in DOMAIN restarts |-> sample_at(cur[i], o)])
    IN  IF restarts = <<>> \/ ~Orders(words) THEN NoRoute ELSE <<o, words>>

\* Whether the bytes before the word's trailing zeros are fewer than i.
may_end_before(w, i) ==
    LET zeros == Cardinality({z \in 1 .. Word : w % Base ^ z = 0}) IN Word - zeros < i

\* Bytes two words agree on from the front.
Agree(v, w) == Max({i \in 0 .. Word : v \div Base ^ (Word - i) = w \div Base ^ (Word - i)})

LOCAL Whole(matched) == [from |-> 0, shared |-> matched, tied |-> TRUE]
LOCAL PastWords(o, words, s, j, tied, i, matched) ==
    IF j = 0 THEN [from |-> 0, shared |-> matched, tied |-> tied]
    ELSE IF may_end_before(words[j], i) THEN Whole(matched)
    ELSE [from |-> j, shared |-> o + i, tied |-> tied]
LOCAL BelowWords(o, words, s, j, matched) ==
    PastWords(o, words, s, j, j < Len(words) /\ words[j + 1] = s, Agree(words[j], s), matched)
LOCAL AmongWords(o, words, s, matched) == BelowWords(o, words, s, Below(words, s), matched)
LOCAL Routed(route, r, probe, matched) ==
    IF route = NoRoute THEN Whole(matched)
    ELSE IF matched < route[1] THEN [from |-> r - 1, shared |-> matched, tied |-> FALSE]
    ELSE AmongWords(route[1], route[2], sample_at(probe, route[1]), matched)
\* micro_routed: the microblock, or the restart to scan from, what the probe shares with its first
\* key, and whether to scan the restarts.
micro_routed(x, b, r, probe, matched) ==
    Routed(IF x.routed THEN restart_words(x, b) ELSE NoRoute, r, probe, matched)

-------------------------------------------------------------------------------
(* A scan. *)

\* compare: bytes an entry's suffix shares with the rest of the probe, and its order to it.
compare(raw, rest) ==
    LET c == lcp(raw, rest)
    IN  <<c, IF raw = rest THEN "equal" ELSE IF c < Len(raw) /\ (c = Len(rest) \/ raw[c + 1] > rest[c + 1])
             THEN "greater" ELSE "less">>

\* scan_with: the last key of the run not above the probe, what it shares with it, and whether it is it.
scan_with(entries, probe, matched) ==
    LET count == Len(entries) + 1
        at[j \in 1 .. count, m \in 0 .. Len(probe)] ==
            IF j = count THEN [k |-> count - 1, shared |-> m, hit |-> FALSE]
            ELSE LET e   == entries[j]
                     got == compare(decode(e.units, All), Past(probe, m))
                 IN  IF e.l < m THEN [k |-> j - 1, shared |-> m, hit |-> FALSE]
                     ELSE IF e.l > m THEN at[j + 1, m]
                     ELSE CASE got[2] = "equal" -> [k |-> j, shared |-> m + got[1], hit |-> TRUE]
                            [] got[2] = "greater" -> [k |-> j - 1, shared |-> m, hit |-> FALSE]
                            [] got[2] = "less" -> at[j + 1, m + got[1]]
    IN  at[1, matched]

LOCAL MicroAt(x, b, j) == b * x.block + j * x.micro
LOCAL LastAt(at, last) == <<at + last.k + (IF last.hit THEN 0 ELSE 1), last.hit>>
LOCAL InMicro(x, b, probe, to) ==
    LastAt(MicroAt(x, b, to.j), scan_with(Microblock(x, b, to.j), probe, to.shared))
LOCAL At_micro(x, b, probe, to) ==
    IF to.hit THEN <<MicroAt(x, b, to.j), TRUE>> ELSE InMicro(x, b, probe, to)
LOCAL AtRestart(from, found) == [j |-> from + found.k, shared |-> found.shared, hit |-> found.hit]
LOCAL ToMicro(x, b, probe, to) ==
    IF to.tied THEN AtRestart(to.from, scan_with(Past(Restarts(x, b), to.from), probe, to.shared))
    ELSE [j |-> to.from, shared |-> to.shared, hit |-> FALSE]
\* locate_past: below a block's head the probe is not equal to.
locate_past(x, b, probe, matched) ==
    At_micro(x, b, probe,
        IF micros_in(x, b) = 1 THEN [j |-> 0, shared |-> matched, hit |-> FALSE]
        ELSE ToMicro(x, b, probe, micro_routed(x, b, micros_in(x, b), probe, matched)))

\* Among the first l blocks, the probe sharing known[1] of the last one's head of known[2] bytes.
LOCAL InBlock(x, l, probe, known) ==
    IF l = 0 THEN <<0, FALSE>>
    ELSE IF known = <<Len(probe), Len(probe)>> THEN <<(l - 1) * x.block, TRUE>>
    ELSE locate_past(x, l - 1, probe, known[1])
LOCAL HeadOf(h, probe) == <<lcp(h, probe), Len(h)>>
LOCAL Located(x, probe, at) ==
    InBlock(x, at.l, probe,
        IF at.known = Unknown /\ at.l > 0 THEN HeadOf(head(x, at.l - 1), probe) ELSE at.known)
locate_in(x, l, probe) == Located(x, probe, [l |-> l, known |-> Unknown])

LOCAL Bounded(x, probe, s) == SampleBoundary(x, probe, s, Below(x.samples, s))
LOCAL OffPrefix(x, probe, fixed) ==
    IF fixed # -1 THEN [l |-> fixed, known |-> Unknown] ELSE Bounded(x, probe, sample_at(probe, x.g))
\* The blocks a probe leaves the prefix of every head below, or -1.
OfPrefix(x, probe) ==
    IF x.g = 0 THEN -1 ELSE place_prefix(SubSeq(head(x, 0), 1, x.g), blocks_len(x), probe)
\* locate: the keys below the probe and whether it is a key.
locate(x, probe) ==
    IF x.n = 0 THEN <<0, FALSE>> ELSE Located(x, probe, OffPrefix(x, probe, OfPrefix(x, probe)))
=================================================================================
