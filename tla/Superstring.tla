------------------------------ MODULE Superstring -------------------------------
(***************************************************************************)
(* The greedy merge of a key set into one string every key occurs in: the  *)
(* keys' trie numbered level by level, its failure links, the keys inside  *)
(* other keys, and the chains of overlaps, longest first.                  *)
(*                                                                         *)
(* Keys are 1 .. n in sorted order and 0 is no key; nodes are numbered     *)
(* from the root, 0. A loop that threads share point by point is a         *)
(* function; threads that cut the keys or the chains into runs are a       *)
(* parameter.                                                              *)
(***************************************************************************)
EXTENDS Integers, Sequences, FiniteSets, SequencesExt, FiniteSetsExt, TLC

CONSTANTS
    Half,        \* a child run's low half counts modulo this (2^16)
    RunGroup,    \* nodes a base of the runs covers (256)
    StepsShare,  \* one node in this many may have a row of steps
    StepsMost,   \* and no more than this many
    MaxNodes     \* a trie of this many nodes has no id for one of them

NONE == 0

\* A function whose values TLC has computed.
LOCAL Told(f) == f @@ <<>>
LOCAL CountIf(S, Test(_)) == Cardinality({x \in S : Test(x)})

-------------------------------------------------------------------------------
(* The trie. *)

common_prefix(a, b) ==
    Max({m \in 0 .. Min({Len(a), Len(b)}) : SubSeq(a, 1, m) = SubSeq(b, 1, m)})

shared_prefixes(text) ==
    Told([i \in 1 .. Len(text) |-> IF i = 1 THEN 0 ELSE common_prefix(text[i - 1], text[i])])

longest(text) == Max({Len(text[i]) : i \in 1 .. Len(text)})

\* Key i makes a node of every depth past the prefix it shares with the key before it.
Makes(text, lcp, i, d) == lcp[i] < d /\ d <= Len(text[i])

\* level[d] is the first node of depth d; the last entry is the node count.
levels(text, lcp) ==
    LET width(d) == CountIf(1 .. Len(text), LAMBDA i : Makes(text, lcp, i, d))
        start[d \in 0 .. longest(text) + 1] ==
            IF d = 0 THEN 0 ELSE IF d = 1 THEN 1 ELSE start[d - 1] + width(d - 1)
    IN  Told(start)

Nodes(level) == 0 .. level[Max(DOMAIN level)] - 1
depth(level, v) == Max({d \in DOMAIN level : level[d] <= v})

\* The nodes the runs of `per` keys lay down, each run behind the ranges of the runs before it, and
\* each key's own node.
LOCAL LayRuns(text, lcp, level, per) ==
    LET opens(d, first) == level[d] + CountIf(1 .. first - 1, LAMBDA j : Makes(text, lcp, j, d))
        before(last, i, d) == IF (i - 1) % per = 0 THEN opens(d, i) - 1 ELSE last[d]
        Next_(last, i) == Told([d \in 0 .. longest(text) |->
                            IF d = 0 THEN 0
                            ELSE before(last, i, d) + (IF Makes(text, lcp, i, d) THEN 1 ELSE 0)])
        at[i \in 0 .. Len(text)] == IF i = 0 THEN <<>> ELSE Next_(at[i - 1], i)
    IN  Told(at)
LOCAL LaidAt(text, lcp, at) ==
    [laid |-> UNION {{[node |-> at[i][d], byte |-> text[i][d], parent |-> at[i][d - 1]] :
                        d \in lcp[i] + 1 .. Len(text[i])} : i \in 1 .. Len(text)},
     term |-> Told([i \in 1 .. Len(text) |-> at[i][Len(text[i])]])]
lay_nodes(text, lcp, level, threads) ==
    LaidAt(text, lcp, LayRuns(text, lcp, level, Max({1, (Len(text) + threads - 1) \div threads})))

-------------------------------------------------------------------------------
(* Where each node's children start: a base a group and a low half a node. *)

of_parents(parent, nodes) ==
    LET start(v) == 1 + CountIf(nodes \ {0}, LAMBDA u : parent[u] < v)
        count == Cardinality(nodes)
    IN  [base |-> Told([g \in 0 .. count \div RunGroup |-> start(g * RunGroup)]),
         low  |-> Told([v \in 0 .. count |-> (IF v = count THEN count ELSE start(v)) % Half])]

\* The first child of v, or where it would be, and how many it has.
of(runs, v) ==
    LET base == runs.base[v \div RunGroup]
    IN  [first |-> base + ((runs.low[v] - base) % Half),
         count |-> (runs.low[v + 1] - runs.low[v]) % Half]

Kids(runs, v) == of(runs, v).first .. of(runs, v).first + of(runs, v).count - 1

-------------------------------------------------------------------------------
(* The failure links. *)

child(label, runs, v, c) ==
    LET hits == {w \in Kids(runs, v) : label[w] = c} IN IF hits = {} THEN NONE ELSE Min(hits)

\* Whole levels from the root down have a row of steps, as many as fit.
shallow_nodes(level, nodes) ==
    LET most == Max({1, Min({Cardinality(nodes) \div StepsShare, StepsMost})})
    IN  Max({level[d] : d \in {e \in DOMAIN level : level[e] <= most}})

\* A row is the row of the node's link, under the node's own children.
fill_row(label, runs, v, row) ==
    [c \in DOMAIN row |-> IF child(label, runs, v, c) = NONE THEN row[c] ELSE child(label, runs, v, c)]

RECURSIVE step(_, _, _, _, _, _)
step(label, runs, fail, steps, v, c) ==
    IF v \in DOMAIN steps THEN steps[v][c]
    ELSE IF child(label, runs, v, c) # NONE THEN child(label, runs, v, c)
    ELSE step(label, runs, fail, steps, fail[v], c)

\* The level from `start` to `end`, of whose nodes `fail` holds the parents: a link reads the levels
\* above it alone.
link_level(label, runs, fail, steps, start, end) ==
    Told([v \in DOMAIN fail |->
            IF v \in start .. end - 1 THEN step(label, runs, fail, steps, fail[fail[v]], label[v])
            ELSE fail[v]])

fill_steps(label, runs, fail, steps, shallow, from, to) ==
    Told([v \in DOMAIN steps \cup (from .. Min({to, shallow}) - 1) |->
            IF v \in DOMAIN steps THEN steps[v]
            ELSE fill_row(label, runs, v, steps[fail[v]])])

LOCAL LinkOf(label, runs, w, d, level) ==
    IF d = 1 THEN w.fail ELSE link_level(label, runs, w.fail, w.steps, level[d], level[d + 1])
LOCAL Linked(label, runs, fail, steps, shallow, from, to) ==
    [fail |-> fail, steps |-> fill_steps(label, runs, fail, steps, shallow, from, to)]
LOCAL LinkLevel(label, runs, w, shallow, d, level) ==
    Linked(label, runs, LinkOf(label, runs, w, d, level), w.steps, shallow, level[d], level[d + 1])
\* A level after the other; every link of depth 1 is the root, which is also the parent there.
links(label, runs, parent, level, bytes) ==
    LET shallow == shallow_nodes(level, DOMAIN parent)
        at[d \in 0 .. Max(DOMAIN level) - 1] ==
            IF d = 0 THEN [fail |-> parent, steps |-> 0 :> fill_row(label, runs, 0, [c \in bytes |-> 0])]
            ELSE LinkLevel(label, runs, at[d - 1], shallow, d, level)
    IN  at[Max(DOMAIN level) - 1].fail

-------------------------------------------------------------------------------
(* The keys inside other keys. *)

\* The first node in node order whose link ends a key is where that key is placed; no key is inside
\* another of its own length.
find(text, level, fail, key_at) ==
    LET from == IF \A i \in 1 .. Len(text) : Len(text[i]) = longest(text) \/ 2 \notin DOMAIN level
                THEN Cardinality(DOMAIN fail) ELSE level[2]
        linking(k) == {u \in DOMAIN fail : u >= from /\ fail[u] \in DOMAIN key_at /\ key_at[fail[u]] = k}
    IN  Told([k \in 1 .. Len(text) |-> IF linking(k) = {} THEN NONE ELSE Min(linking(k))])

RECURSIVE leftmost(_, _, _)
leftmost(runs, key_at, v) ==
    IF v \in DOMAIN key_at THEN key_at[v] ELSE leftmost(runs, key_at, of(runs, v).first)

\* A key is inside the smallest key under the node that places it; a proper prefix of another is
\* inside the key right after it.
contained(text, lcp, level, runs, key_at, placed) ==
    Told([k \in 1 .. Len(text) |->
            IF k < Len(text) /\ lcp[k + 1] = Len(text[k]) THEN [key |-> k + 1, offset |-> 0]
            ELSE IF placed[k] = NONE THEN [key |-> NONE, offset |-> 0]
            ELSE [key |-> leftmost(runs, key_at, placed[k]),
                  offset |-> depth(level, placed[k]) - Len(text[k])]])

LOCAL SwepAt(text, lcp, level, lay, runs, fail, key_at) ==
    [some |-> Cardinality(DOMAIN fail) < MaxNodes, term |-> lay.term, lcp |-> lcp, level |-> level,
     runs |-> runs, fail |-> fail,
     inside |-> contained(text, lcp, level, runs, key_at, find(text, level, fail, key_at))]
LOCAL SwepEnds(text, lcp, level, lay, runs, fail, ends) ==
    SwepAt(text, lcp, level, lay, runs, fail,
           Told([u \in {lay.term[i] : i \in ends} |-> CHOOSE i \in ends : lay.term[i] = u]))
LOCAL SwepLinks(text, lcp, level, lay, label, parent, runs) ==
    SwepEnds(text, lcp, level, lay, runs,
             links(label, runs, parent, level, UNION {ToSet(text[i]) : i \in 1 .. Len(text)}),
             {i \in 1 .. Len(text) : text[i] # <<>>})
LOCAL SwepRuns(text, lcp, level, lay, label, parent) ==
    SwepLinks(text, lcp, level, lay, label, parent, of_parents(parent, DOMAIN parent))
LOCAL SwepLaid(text, lcp, level, lay, node) ==
    SwepRuns(text, lcp, level, lay, Told([u \in DOMAIN node \ {0} |-> node[u].byte]),
             Told([u \in DOMAIN node |-> node[u].parent]))
LOCAL NodesOf(laid, nodes) ==
    Told([u \in nodes |-> IF u = 0 THEN [node |-> 0, byte |-> 0, parent |-> 0]
                          ELSE CHOOSE x \in laid : x.node = u])
LOCAL SwepLay(text, lcp, level, lay) == SwepLaid(text, lcp, level, lay, NodesOf(lay.laid, Nodes(level)))
LOCAL SwepLevels(text, lcp, level, threads) == SwepLay(text, lcp, level, lay_nodes(text, lcp, level, threads))
LOCAL SwepOver(text, lcp, threads) == SwepLevels(text, lcp, levels(text, lcp), threads)
\* The keys' trie laid on threads, its links, and the key each is inside of.
sweep(text, threads) == SwepOver(text, shared_prefixes(text), threads)

-------------------------------------------------------------------------------
(* The chains. *)

Free(sw, k) == sw.inside[k].key = NONE

\* The keys under each node of the deepest level a key waits at: each key that reaches it either
\* makes the next node or shares the last.
ranges_from_keys(text, sw, d) ==
    LET reach == {k \in 1 .. Len(text) : Len(text[k]) >= d}
        node(k) == sw.level[d] - 1 + CountIf({j \in reach : j <= k}, LAMBDA j : sw.lcp[j] < d)
        under(v) == {k \in reach : node(k) = v}
    IN  Told([v \in sw.level[d] .. sw.level[d + 1] - 1 |-> <<Min(under(v)), Max(under(v)) + 1>>])

\* The keys under each node of the level above: its children's, which are the next of the level
\* below, behind the key that ends at the node.
ranges_from_level(text, sw, d, below) ==
    LET nodes == sw.level[d] .. sw.level[d + 1] - 1
        ending(v) == {k \in 1 .. Len(text) : sw.term[k] = v}
        first(v) == sw.level[d + 1] + MapThenSumSet(LAMBDA u : of(sw.runs, u).count, sw.level[d] .. v - 1)
        last(v)  == first(v) + of(sw.runs, v).count - 1
    IN  Told([v \in nodes |->
                IF ending(v) # {}
                THEN <<Min(ending(v)),
                       IF first(v) <= last(v) THEN below[last(v)][2] ELSE Min(ending(v)) + 1>>
                ELSE <<below[first(v)][1], below[last(v)][2]>>])

\* The first key at or past k that `next` leads to and that leads nowhere, halving the path.
RECURSIVE first_open(_, _)
first_open(next, k) ==
    IF next[k] = k THEN [next |-> next, key |-> k]
    ELSE first_open([next EXCEPT ![k] = next[next[k]]], next[next[k]])

LOCAL Within(got, end) == [got EXCEPT !.key = IF got.key < end THEN got.key ELSE NONE]
LOCAL TakePast(one, end, forbidden) ==
    Within(IF one.key = forbidden THEN first_open(one.next, one.key + 1) ELSE one, end)
\* The first key of the range that is open and is not the head of the chain the taker ends.
take(under, next, forbidden) == TakePast(first_open(next, under[1]), under[2], forbidden)

LOCAL Join(w, k, t, d, head, tail) ==
    [w EXCEPT !.link[k] = [key |-> t, overlap |-> d], !.next[t] = t + 1, !.waits[k] = 0,
              !.other_end = [w.other_end EXCEPT ![head] = tail, ![tail] = head]]
LOCAL Taken_by(w, k, t, d, fail) ==
    IF t # NONE THEN Join(w, k, t, d, w.other_end[k], w.other_end[t]) ELSE [w EXCEPT !.waits[k] = fail[@]]
LOCAL ServeAt(w, k, d, took, fail) == Taken_by([w EXCEPT !.next = took.next], k, took.key, d, fail)
\* One key's turn at depth d: it takes a key and their chains become one, or waits at its link.
serve(sw, here, d, k, w) == ServeAt(w, k, d, take(here[w.waits[k]], w.next, w.other_end[k]), sw.fail)

LOCAL Turn(sw, here, d, k, w) ==
    IF w.waits[k] = 0 \/ depth(sw.level, w.waits[k]) # d THEN w ELSE serve(sw, here, d, k, w)
RECURSIVE Served(_, _, _, _, _)
\* The turns in slot order, a half at a time: what is asked of w first is that it is there.
Served(sw, here, d, order, w) ==
    IF w.link = <<>> \/ order = <<>> THEN w
    ELSE IF Len(order) = 1 THEN Turn(sw, here, d, order[1], w)
    ELSE Served(sw, here, d, SubSeq(order, (Len(order) \div 2) + 1, Len(order)),
                Served(sw, here, d, SubSeq(order, 1, Len(order) \div 2), w))
LOCAL Turns(sw, here, d, order, w) == [w |-> Served(sw, here, d, order, w), ranges |-> here]

LOCAL TurnsBelow(text, sw, d, order, below) ==
    Turns(sw, ranges_from_level(text, sw, d, below.ranges), d, order, below.w)
LOCAL TurnsFrom(text, sw, order, first, deepest) ==
    LET level[d \in 1 .. deepest] ==
            IF d = deepest THEN Turns(sw, ranges_from_keys(text, sw, d), d, order, first)
            ELSE TurnsBelow(text, sw, d, order, level[d + 1])
    IN  IF deepest = 0 THEN first.link ELSE level[1].w.link

LOCAL ChainFrom(text, sw, order, first) ==
    TurnsFrom(text, sw, order, first, Max({0} \cup {depth(sw.level, first.waits[k]) : k \in DOMAIN first.waits}))
\* The keys waiting at a depth are served in slot order, the deepest depth first. A key turned away
\* waits at a shallower depth.
chain(text, sw, order) ==
    ChainFrom(text, sw, order,
        [link |-> Told([k \in 1 .. Len(text) |-> [key |-> NONE, overlap |-> 0]]),
         other_end |-> Told([k \in 1 .. Len(text) |-> k]),
         next |-> Told([k \in 1 .. Len(text) + 1 |-> IF k <= Len(text) /\ ~Free(sw, k) THEN k + 1 ELSE k]),
         waits |-> Told([k \in 1 .. Len(text) |-> IF Free(sw, k) THEN sw.fail[sw.term[k]] ELSE 0])])

-------------------------------------------------------------------------------
(* The string. *)

\* The bytes of the chains: every free key, less what each link overlaps.
chained_len(text, sw, link) ==
    MapThenSumSet(LAMBDA k : (IF Free(sw, k) THEN Len(text[k]) ELSE 0)
                               - (IF link[k].key # NONE THEN link[k].overlap ELSE 0), 1 .. Len(text))

\* A chain's bytes from `pos` on: each key once, less its overlap with the one before.
RECURSIVE write(_, _, _, _)
LOCAL Before(key, at, overlap, rest) ==
    [data |-> key \o SubSeq(rest.data, overlap + 1, Len(rest.data)), starts |-> rest.starts \cup {at}]
write(text, link, k, at) ==
    IF link[k].key = NONE THEN [data |-> text[k], starts |-> {<<k, at>>}]
    ELSE Before(text[k], <<k, at>>, link[k].overlap,
                write(text, link, link[k].key, at + Len(text[k]) - link[k].overlap))

RECURSIVE place(_, _, _)
place(sw, starts, k) ==
    IF k \in DOMAIN starts THEN starts[k]
    ELSE place(sw, starts, sw.inside[k].key) + sw.inside[k].offset

LOCAL Written(sw, n, chains) ==
    [data |-> FlattenSeq(Told([j \in DOMAIN chains |-> chains[j].data])),
     starts |-> LET put == UNION {chains[j].starts : j \in DOMAIN chains}
                    free == Told([k \in {p[1] : p \in put} |-> (CHOOSE p \in put : p[1] = k)[2]])
                IN  Told([k \in 1 .. n |-> place(sw, free, k)])]
\* A thread writes, from its share of the bytes on, the chains that start in it.
LOCAL WriteCut(text, sw, link, heads, starts, total, threads) ==
    LET cut(g) == IF g = threads THEN Len(heads)
                  ELSE Min({Len(heads), CountIf(0 .. Len(heads), LAMBDA j : starts[j] < (total * g) \div threads)})
        thread(g) == [j \in 1 .. cut(g) - cut(g - 1) |->
                        write(text, link, heads[cut(g - 1) + j], starts[cut(g - 1) + j - 1])]
    IN  Written(sw, Len(text), FlattenSeq([g \in 1 .. threads |-> thread(g)]))
LOCAL ChainLen(text, link, k) == Len(write(text, link, k, 0).data)
LOCAL WriteHeads(text, sw, link, heads, total, threads) ==
    LET at[j \in 0 .. Len(heads)] == IF j = 0 THEN 0 ELSE at[j - 1] + ChainLen(text, link, heads[j])
    IN  WriteCut(text, sw, link, heads, Told(at), total, threads)
\* The chains in the slot order of their heads.
lay_out(text, sw, link, order, threads) ==
    WriteHeads(text, sw, link,
               SelectSeq(order, LAMBDA k : Free(sw, k) /\ k \notin {link[j].key : j \in DOMAIN link}),
               chained_len(text, sw, link), threads)

NoMerge == [link |-> <<>>, data |-> <<>>, starts |-> <<>>, some |-> FALSE]

LOCAL MergeChained(text, sw, link, order, threads) == [link |-> link, some |-> TRUE] @@ lay_out(text, sw, link, order, threads)
LOCAL MergeSwept(text, sw, order, threads) ==
    IF text = <<>> \/ ~sw.some THEN NoMerge ELSE MergeChained(text, sw, chain(text, sw, order), order, threads)
merge(text, order, threads) == MergeSwept(text, sweep(text, threads), order, threads)

LOCAL LenSwept(text, sw, order) == IF sw.some THEN chained_len(text, sw, chain(text, sw, order)) ELSE -1
\* The length alone; none where merge has none, or once a phase ends with `stop` set.
merge_len(text, order, threads, stop) ==
    IF text = <<>> \/ stop THEN -1 ELSE LenSwept(text, sweep(text, threads), order)

-------------------------------------------------------------------------------
(* What is promised of a case [keys, order]. *)

Occurs(key, within) ==
    \E at \in 0 .. Len(within) - Len(key) : SubSeq(within, at + 1, at + Len(key)) = key
Loose(text) == {k \in DOMAIN text : \A j \in DOMAIN text \ {k} : ~Occurs(text[k], text[j])}

RECURSIVE LastOf(_, _)
LastOf(link, k) == IF link[k].key = NONE THEN k ELSE LastOf(link, link[k].key)

\* The greedy of the definition: every overlap from the longest down, the keys in order at each, and
\* a key takes the least key not yet taken whose front is its back and whose chain it does not end.
GreedyTurn(text, loose, link, d, k) ==
    LET open == {t \in loose : /\ Len(text[t]) >= d /\ LastOf(link, t) # k
                               /\ \A j \in DOMAIN link : link[j].key # t
                               /\ SubSeq(text[t], 1, d) = SubSeq(text[k], Len(text[k]) - d + 1, Len(text[k]))}
    IN  IF k \notin loose \/ link[k].key # NONE \/ Len(text[k]) <= d \/ open = {} THEN link
        ELSE [link EXCEPT ![k] = [key |-> Min(open), overlap |-> d]]
Greedy(text, order) ==
    LET n == Len(text)
        most == Max({0} \cup {Len(text[i]) : i \in 1 .. n})
        turn(i) == <<most - (i - 1) \div n, order[((i - 1) % n) + 1]>>
        at[i \in 0 .. n * most] ==
            IF i = 0 THEN Told([k \in 1 .. n |-> [key |-> NONE, overlap |-> 0]])
            ELSE GreedyTurn(text, Loose(text), at[i - 1], turn(i)[1], turn(i)[2])
    IN  at[n * most]

LOCAL Merged(c, got, all) ==
    /\ \A t \in DOMAIN got : got[t] = got[1]
    /\ got[1].some = (c.keys # <<>> /\ Cardinality(all) + 1 < MaxNodes)
    /\ merge_len(c.keys, c.order, 2, FALSE) = IF got[1].some THEN Len(got[1].data) ELSE -1
    /\ got[1].some =>
         /\ \A k \in DOMAIN c.keys :
              SubSeq(got[1].data, got[1].starts[k] + 1, got[1].starts[k] + Len(c.keys[k])) = c.keys[k]
         /\ got[1].link = Greedy(c.keys, c.order)
\* On any number of threads the merge is the one greedy superstring: every key is where its start
\* says, and the links are those of taking the longest overlap there is at each step.
MergesGreedily(c) ==
    Merged(c, Told([t \in 1 .. 3 |-> merge(c.keys, c.order, t)]),
           UNION {{SubSeq(c.keys[i], 1, d) : d \in 1 .. Len(c.keys[i])} : i \in DOMAIN c.keys})
=================================================================================
