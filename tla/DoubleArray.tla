------------------------------ MODULE DoubleArray -------------------------------
(***************************************************************************)
(* The character-wise double-array trie (src/src/double_array.rs): labels   *)
(* by frequency, the trie's rows placed at unique bases behind floors and   *)
(* a window, the walks that read a slot a character, and the load that     *)
(* lets them read without a bounds check.                                  *)
(*                                                                         *)
(* A character is its code point; a slot's fields are a record; hashes are *)
(* perfect. Slots count from 0, nodes and keys from 1, ids from 0.         *)
(***************************************************************************)
EXTENDS Integers, Sequences, FiniteSets, SequencesExt, FiniteSetsExt, TLC

CONSTANTS
    OneByte, BMP, CodePoints,   \* code points below these take a byte, are in the table, exist
    WordBits, CHUNK,            \* slots of a word of the occupancy, words a search tests together
    WINDOW, WindowLabels,       \* slots under the top, or so many alphabets, a wide row looks through
    SEARCH_CAP,                 \* words a search crosses before it goes on at the window
    MAX_SLOTS, MAX_KEYS, MAX_ALPHABET

LOCAL Told(f) == f @@ <<>>
LOCAL CountIf(S, Test(_)) == Cardinality({x \in S : Test(x)})

-------------------------------------------------------------------------------
(* Characters. *)

\* decode: how far a character's bytes reach.
Width(cp) == IF cp < OneByte THEN 1 ELSE IF cp < BMP THEN 3 ELSE 4
BytesOfText(text) == FoldSeq(LAMBDA cp, sum : Width(cp) + sum, 0, text)

\* UTF-8 bytes order as code points do.
Before(a, b) ==
    \/ Len(a) < Len(b) /\ IsPrefix(a, b)
    \/ \E i \in 1 .. Min({Len(a), Len(b)}) : a[i] < b[i] /\ SubSeq(a, 1, i - 1) = SubSeq(b, 1, i - 1)

Sorted(S) ==
    LET at(k) == CountIf(S, LAMBDA x : Before(x, k)) + 1
    IN  Told([i \in 1 .. Cardinality(S) |-> CHOOSE k \in S : at(k) = i])
\* build sorts and dedups the keys that do not ascend strictly.
Ranked(items) ==
    IF \A i \in 1 .. Len(items) - 1 : Before(items[i], items[i + 1]) THEN items ELSE Sorted(ToSet(items))

\* Label 1 is the most frequent character's, ties to the lower code point.
labels_of(keys) ==
    LET held == UNION {ToSet(keys[i]) : i \in DOMAIN keys}
        freq == Told([cp \in held |-> MapThenSumSet(LAMBDA i : CountIf(DOMAIN keys[i], LAMBDA j : keys[i][j] = cp),
                                                    DOMAIN keys)])
        ahead(a, b) == freq[a] > freq[b] \/ (freq[a] = freq[b] /\ a < b)
    IN  Told([cp \in held |-> 1 + CountIf(held, LAMBDA o : ahead(o, cp))])

-------------------------------------------------------------------------------
(* The trie, breadth first from node 1. *)

NO_WORD == -1
kids(t, v) == t.first[v] .. t.first[v + 1] - 1

\* Children in label order; the key a node spells is the first of the keys under it.
LOCAL Children(keys, lo, hi, d) ==
    LET under(c) == {i \in lo .. hi : keys[i][d + 1] = c}
        found == {keys[i][d + 1] : i \in lo .. hi}
        c(k) == CHOOSE x \in found : CountIf(found, LAMBDA y : y < x) = k - 1
    IN  Told([k \in 1 .. Cardinality(found) |->
                [label |-> c(k), lo |-> Min(under(c(k))), hi |-> Max(under(c(k))), depth |-> d + 1]])
LOCAL Opened(t, v, spells, children) ==
    [label |-> t.label \o [k \in DOMAIN children |-> children[k].label],
     word  |-> [t.word EXCEPT ![v] = spells] \o [k \in DOMAIN children |-> NO_WORD],
     first |-> Append(t.first, Len(t.label) + 1),
     span  |-> t.span \o children]
RECURSIVE Grow(_, _, _)
LOCAL GrowAt(keys, t, v, at) ==
    IF at.lo <= at.hi /\ Len(keys[at.lo]) = at.depth
    THEN Opened(t, v, at.lo - 1, Children(keys, at.lo + 1, at.hi, at.depth))
    ELSE Opened(t, v, NO_WORD, Children(keys, at.lo, at.hi, at.depth))
Grow(keys, t, v) ==
    IF v > Len(t.label) THEN [t EXCEPT !.first = Append(@, Len(t.label) + 1)]
    ELSE Grow(keys, GrowAt(keys, t, v, t.span[v]), v + 1)
Trie_build(keys, first_key) ==
    Grow(keys, [label |-> <<0>>, word |-> <<NO_WORD>>, first |-> <<>>,
                span |-> <<[label |-> 0, lo |-> first_key, hi |-> Len(keys), depth |-> 0]>>], 1)

-------------------------------------------------------------------------------
(* Placement. *)

Full == -1      \* too_many

\* The first word from w on with a free slot.
open_from(used, w) ==
    LET past == (Max({0} \cup used) \div WordBits) + 1
        open == {j \in w .. past : \E s \in j * WordBits .. (j + 1) * WordBits - 1 : s \notin used}
    IN  IF open = {} THEN w ELSE Min(open)

\* Slots of the words from w0 on that a first child labelled c0 could take: free, their base no row's.
candidates(o, w0, c0) ==
    {s \in w0 * WordBits .. (w0 + CHUNK) * WordBits - 1 : s \notin o.used /\ s - c0 \notin o.taken}

LOCAL FitOf(o, from, row, upto) ==
    {s \in from : \A k \in 2 .. upto : s - row[1] + row[k] \notin o.used}

\* The floors a row's labels have: of the first, of the first two, of all of more.
Pair(row) == <<row[1], row[2]>>
LOCAL Known(f, x) == IF x \in DOMAIN f THEN f[x] ELSE 0
floors_get(o, row) ==
    [one |-> o.first[row[1]],
     two |-> IF Len(row) > 1 THEN Known(o.pair, Pair(row)) ELSE 0,
     all |-> IF Len(row) > 2 THEN Known(o.all, row) ELSE 0]

\* Fault: a search that started above the first label's floor raises it.
learnsAlways(e, f, lo, from, wide) == [one |-> TRUE, two |-> wide]
\* A floor is learned only by a search that started at or below it.
learns(e, f, lo, from, wide) ==
    [one |-> e = Max({lo, f.one}), two |-> wide /\ e = Max({lo, f.one, f.two, from})]

\* A chunk of words after the other; a search too long goes on at the window, and learns no more.
RECURSIVE search(_, _, _, _, _, _)
LOCAL Learned(o, row, cand, two, learn) ==
    [o EXCEPT !.first = IF learn.one /\ cand # {} THEN [@ EXCEPT ![row[1]] = Min(cand)] ELSE @,
              !.pair = IF learn.two /\ two # {} THEN (Pair(row) :> Min(two)) @@ @ ELSE @]
LOCAL FoundIn(o, row, start, reach, learn, w0, cand, two, fit) ==
    IF fit # {} THEN [o |-> Learned(o, row, cand, two, learn), slot |-> Min(fit)]
    ELSE search(Learned(o, row, cand, two, learn), row, start, reach,
                (w0 + CHUNK) * WordBits, [one |-> learn.one /\ cand = {}, two |-> learn.two /\ two = {}])
LOCAL TestChunk(o, row, start, reach, learn, w0, cand) ==
    FoundIn(o, row, start, reach, learn, w0, cand, FitOf(o, cand, row, Min({2, Len(row)})), FitOf(o, cand, row, Len(row)))
LOCAL SearchFrom(o, row, start, reach, e, learn, w0) ==
    IF w0 > (MAX_SLOTS - o.max_label) \div WordBits THEN [o |-> o, slot |-> Full]
    ELSE TestChunk(o, row, start, reach, learn, w0, {s \in candidates(o, w0, row[1]) : s >= e})
search(o, row, start, reach, e, learn) ==
    IF Len(row) > 1 /\ e < reach /\ e - start > WordBits * SEARCH_CAP
    THEN SearchFrom([o EXCEPT !.exact = FALSE], row, start, reach, reach, [one |-> FALSE, two |-> FALSE],
                    open_from(o.used, reach \div WordBits))
    ELSE SearchFrom(o, row, start, reach, e, learn, open_from(o.used, e \div WordBits))

LOCAL TakeRow(o, row, v, slot, singles) ==
    IF slot = Full \/ slot - row[1] + o.max_label >= MAX_SLOTS THEN [o EXCEPT !.full = TRUE]
    ELSE [o EXCEPT !.all = IF Len(row) > 2 THEN (row :> slot) @@ @ ELSE @,
                   !.taken = @ \cup {slot - row[1]},
                   !.used = @ \cup {slot - row[1] + row[k] : k \in DOMAIN row},
                   !.base[v] = slot - row[1], !.singles = singles]
LOCAL TakeFound(got, row, v, singles) == TakeRow(got.o, row, v, got.slot, singles)
LOCAL SearchRow(o, row, v, f, lo, reach, from, e) ==
    TakeFound(search(o, row, e, reach, e, learns(e, f, lo, from, Len(row) > 1)), row, v,
              o.singles - (IF Len(row) > 1 THEN 0 ELSE 1))
LOCAL RowFrom(o, row, v, f, lo, reach, from) ==
    SearchRow(IF from > lo THEN [o EXCEPT !.exact = FALSE] ELSE o, row, v, f, lo, reach, from,
              Max({lo, f.one, f.two, f.all, from}))
\* A wide row stays within the window under the top while few slots under it are free.
place_row(o, row, v) ==
    LET top   == Max({0} \cup (o.used \ o.root))
        lo    == Min((0 .. Max(o.used) + 1) \ o.used)
        reach == IF Len(row) > 1 THEN Max({0, top - Max({WINDOW, WindowLabels * o.max_label})}) ELSE 0
        free  == Max({0, top + 1 - Cardinality(o.used)})
    IN  RowFrom(o, row, v, floors_get(o, row), lo, reach, IF 2 * free < o.singles THEN reach ELSE 0)

LOCAL RowOf(t, v) == Told([k \in 1 .. t.first[v + 1] - t.first[v] |-> t.label[t.first[v] + k - 1]])
\* The rows with the most children first, ties to the first node; each takes its place after the last.
LOCAL RowsInOrder(t) ==
    LET inner == {v \in 2 .. Len(t.label) : kids(t, v) # {}}
        size(v) == Cardinality(kids(t, v))
        at(v) == 1 + CountIf(inner, LAMBDA u : size(u) > size(v) \/ (size(u) = size(v) /\ u < v))
    IN  Told([i \in 1 .. Cardinality(inner) |-> CHOOSE v \in inner : at(v) = i])
LOCAL RootTaken(t, max_label, root) ==
    [used |-> root, root |-> root, taken |-> {0}, max_label |-> max_label, full |-> FALSE, exact |-> TRUE,
     first |-> [c \in 0 .. max_label |-> c], pair |-> <<>>, all |-> <<>>,
     base |-> [v \in DOMAIN t.label |-> 0],
     singles |-> CountIf(2 .. Len(t.label), LAMBDA v : Cardinality(kids(t, v)) = 1)]
LOCAL PlaceNext(o, t, v) == IF o.full THEN o ELSE place_row(o, RowOf(t, v), v)
LOCAL PlaceAll(t, first, rows) ==
    LET at[i \in 0 .. Len(rows)] == IF i = 0 THEN first ELSE PlaceNext(at[i - 1], t, rows[i])
    IN  Told(at)
\* The occupancy after each row, the rows in their order.
place(t, max_label) ==
    PlaceAll(t, RootTaken(t, max_label, {0} \cup {t.label[k] : k \in kids(t, 1)}), RowsInOrder(t))

-------------------------------------------------------------------------------
(* The blob. *)

NoId    == -1
Refused == [n |-> -1]
SlotOf(label, word, leaf, base, id) == [label |-> label, word |-> word, leaf |-> leaf, base |-> base, id |-> id]
EmptySlot == SlotOf(0, FALSE, FALSE, 0, 0)

LOCAL SlotOfNode(t, base, k) ==
    SlotOf(t.label[k], t.word[k] # NO_WORD, kids(t, k) = {}, IF kids(t, k) = {} THEN 0 ELSE base[k],
           IF t.word[k] = NO_WORD THEN 0 ELSE t.word[k])
\* Slot b + c is the child along c of the node at base b.
slots_of(t, base, n_slots) ==
    LET held == [k \in 2 .. Len(t.label) |-> base[CHOOSE v \in DOMAIN t.label : k \in kids(t, v)] + t.label[k]]
        filled == Told([s \in {held[k] : k \in DOMAIN held} |->
                          SlotOfNode(t, base, CHOOSE k \in DOMAIN held : held[k] = s)])
    IN  Told([s \in 1 .. n_slots |-> IF s - 1 \in DOMAIN filled THEN filled[s - 1] ELSE EmptySlot])

LOCAL TableOf(label, past) == Told([cp \in 1 .. past |-> IF cp - 1 \in DOMAIN label THEN label[cp - 1] ELSE 0])
LOCAL SuppOf(label) ==
    LET far == {cp \in DOMAIN label : cp >= BMP}
    IN  Told([i \in 1 .. Cardinality(far) |->
                LET cp == CHOOSE x \in far : CountIf(far, LAMBDA y : y < x) = i - 1 IN <<cp, label[cp]>>])
LOCAL Sections(slots, table, supp) == [slots |-> slots, table |-> table, supp |-> supp]
LOCAL BlobOf(n, empty, max_label, body) ==
    [n |-> n, empty |-> empty, n_slots |-> Len(body.slots), table_len |-> Len(body.table),
     supp_len |-> Len(body.supp), max_label |-> max_label, payload |-> body, body |-> body]

\* Every slot as slots_malformed holds it: a base, an id, a flag only where a build sets one.
SlotFits(slot, n, last_base) ==
    /\ slot.leaf => slot.word
    /\ slot.label = 0 => ~slot.word
    /\ IF slot.word THEN n > 0 /\ slot.id <= n - 1 ELSE slot.id = 0
    /\ slot.base <= IF ~slot.leaf /\ slot.label # 0 THEN last_base ELSE 0
slots_malformed(slots, n, max_label, n_slots) ==
    \E i \in DOMAIN slots : ~SlotFits(slots[i], n, Max({0, n_slots - (max_label + 1)}))

LOCAL HeaderFits(b) ==
    /\ b.n \in 0 .. MAX_KEYS /\ (b.empty = NoId \/ b.empty < b.n)
    /\ b.n_slots <= MAX_SLOTS /\ b.table_len <= BMP /\ b.supp_len <= CodePoints - BMP
    /\ b.max_label <= MAX_ALPHABET /\ (b.max_label = 0) = (b.n_slots = 0) /\ b.max_label < Max({1, b.n_slots})
\* The sections are the lengths the header says, so that they meet the blob's end.
LOCAL SectionsFit(b) ==
    b.n_slots = Len(b.body.slots) /\ b.table_len = Len(b.body.table) /\ b.supp_len = Len(b.body.supp)
LOCAL CharactersFit(b) ==
    /\ \A i \in DOMAIN b.body.table : b.body.table[i] <= b.max_label
    /\ \A i \in DOMAIN b.body.supp :
         /\ b.body.supp[i][1] \in BMP .. CodePoints - 1 /\ b.body.supp[i][2] \in 1 .. b.max_label
         /\ i > 1 => b.body.supp[i - 1][1] < b.body.supp[i][1]
from_shared(b, verify_payload) ==
    IF /\ HeaderFits(b) /\ SectionsFit(b) /\ (verify_payload => b.payload = b.body) /\ CharactersFit(b)
       /\ ~slots_malformed(b.body.slots, b.n, b.max_label, b.n_slots)
    THEN [n |-> b.n, empty |-> b.empty] @@ b.body ELSE Refused

NoBlob == [n_slots |-> Full]
LOCAL BlobPlaced(keys, label, t, o, n_slots) ==
    IF o.full \/ n_slots > MAX_SLOTS THEN NoBlob
    ELSE BlobOf(Len(keys), IF keys # <<>> /\ keys[1] = <<>> THEN 0 ELSE NoId, Cardinality(DOMAIN label),
                Sections(slots_of(t, o.base, n_slots), TableOf(label, Max({0} \cup {cp + 1 : cp \in {x \in DOMAIN label : x < BMP}})),
                         SuppOf(label)))
LOCAL BlobFrom(keys, label, t, o) ==
    BlobPlaced(keys, label, t, o, IF DOMAIN label = {} THEN 0 ELSE Max(ToSet(o.base)) + Cardinality(DOMAIN label) + 1)
LOCAL AtLast(at) == at[Max(DOMAIN at)]
LOCAL BlobGrown(keys, label, t) == BlobFrom(keys, label, t, AtLast(place(t, Cardinality(DOMAIN label))))
LOCAL LabelledKeys(keys, label) == Told([i \in DOMAIN keys |-> Told([j \in DOMAIN keys[i] |-> label[keys[i][j]]])])
TrieOf(keys, label) == Trie_build(LabelledKeys(keys, label), IF keys # <<>> /\ keys[1] = <<>> THEN 2 ELSE 1)
LOCAL BuildLabelled(keys, label) ==
    IF Cardinality(DOMAIN label) > MAX_ALPHABET THEN NoBlob ELSE BlobGrown(keys, label, TrieOf(keys, label))
build_ranked(keys) == IF Len(keys) > MAX_KEYS THEN NoBlob ELSE BuildLabelled(keys, labels_of(keys))
build(items) == build_ranked(Ranked(items))

-------------------------------------------------------------------------------
(* The walks. *)

\* The label of a character, 0 where no key holds it.
label_past_table(x, cp) ==
    LET hits == {i \in DOMAIN x.supp : x.supp[i][1] = cp} IN IF hits = {} THEN 0 ELSE x.supp[Min(hits)][2]
label(x, cp) == IF cp < Len(x.table) THEN x.table[cp + 1] ELSE label_past_table(x, cp)

\* A read past the slots, which a load has to rule out.
Outside == [label |-> -1]
slot(x, s) == IF s < Len(x.slots) THEN x.slots[s + 1] ELSE Outside

\* Walks answer every match as <<characters, id>>; one that reads outside answers that.
Strays == <<<<Full, Full>>>>
RECURSIVE matches(_, _, _, _)
LOCAL WordAt(v, i) == IF v.word THEN <<<<i, v.id>>>> ELSE <<>>
LOCAL AtSlot(x, text, base, i, c, v) ==
    IF v = Outside THEN Strays
    ELSE IF v.label # c THEN <<>>
    ELSE WordAt(v, i) \o (IF v.leaf THEN <<>> ELSE matches(x, text, v.base, i + 1))
LOCAL AtLabel(x, text, base, i, c) == IF c = 0 THEN <<>> ELSE AtSlot(x, text, base, i, c, slot(x, base + c))
matches(x, text, base, i) == IF i > Len(text) THEN <<>> ELSE AtLabel(x, text, base, i, label(x, text[i]))

\* Ends in bytes.
InBytes(text, found) == [k \in DOMAIN found |-> <<BytesOfText(SubSeq(text, 1, found[k][1])), found[k][2]>>]
for_each_common_prefix(x, query) ==
    (IF x.empty # NoId THEN <<<<0, x.empty>>>> ELSE <<>>) \o InBytes(query, matches(x, query, 0, 1))
longest_prefix(x, query) ==
    LET found == for_each_common_prefix(x, query) IN IF found = <<>> THEN <<0, NoId>> ELSE Last(found)

LOCAL IdAt(key, found) ==
    IF found = <<>> THEN NoId ELSE IF Last(found)[1] = Len(key) THEN Last(found)[2] ELSE NoId
id(x, key) == IF key = <<>> THEN x.empty ELSE IdAt(key, matches(x, key, 0, 1))

LOCAL OccurrencesAt(x, text, p, start) ==
    LET found == matches(x, text, 0, p + 1)
    IN  [k \in DOMAIN found |->
            [chars |-> <<p, found[k][1]>>, bytes |-> <<start, BytesOfText(SubSeq(text, 1, found[k][1]))>>, id |-> found[k][2]]]
\* Every key that occurs in a text, from each character on.
occurrences(x, text) ==
    FlattenSeq([p \in 1 .. Len(text) |-> OccurrencesAt(x, text, p - 1, BytesOfText(SubSeq(text, 1, p - 1)))])

-------------------------------------------------------------------------------
(* What is promised. *)

\* Every row but the root's takes the lowest base no row has where its slots are free, as long as
\* no search has kept to the window; a base is one row's, a slot one node's.
LOCAL LowestAt(o, next, v, row) ==
    next.exact => /\ next.full \/ \A b \in 0 .. next.base[v] - 1 :
                        b \in o.taken \/ \E k \in DOMAIN row : b + row[k] \in o.used
LOCAL RowsPlaced(t, at, rows) ==
    \A i \in DOMAIN rows : at[i - 1].full \/
        /\ LowestAt(at[i - 1], at[i], rows[i], RowOf(t, rows[i]))
        /\ at[i].full \/ /\ at[i].base[rows[i]] \notin at[i - 1].taken
                         /\ \A k \in DOMAIN RowOf(t, rows[i]) : at[i].base[rows[i]] + RowOf(t, rows[i])[k] \notin at[i - 1].used
LOCAL PlacedOf(t, max_label) == RowsPlaced(t, place(t, max_label), RowsInOrder(t))
LOCAL Placed(keys, label_) == PlacedOf(TrieOf(keys, label_), Cardinality(DOMAIN label_))

LOCAL RankOf(keys, k) == IF k \in ToSet(keys) THEN (CHOOSE i \in DOMAIN keys : keys[i] = k) - 1 ELSE NoId
LOCAL PrefixesOf(keys, query) ==
    LET ends == {e \in 0 .. Len(query) : SubSeq(query, 1, e) \in ToSet(keys)}
    IN  {<<BytesOfText(SubSeq(query, 1, e)), RankOf(keys, SubSeq(query, 1, e))>> : e \in ends}
LOCAL Ascends(pairs) == \A i \in 1 .. Len(pairs) - 1 : pairs[i][1] < pairs[i + 1][1]
LOCAL PrefixesAgree(keys, x, query, found) ==
    /\ ToSet(found) = PrefixesOf(keys, query) /\ Ascends(found)
    /\ longest_prefix(x, query) = IF found = <<>> THEN <<0, NoId>> ELSE found[Len(found)]
LOCAL OccursAgree(keys, text, found) ==
    /\ \A k \in 1 .. Len(found) - 1 : LET a == found[k].chars b == found[k + 1].chars
                                      IN  a[1] < b[1] \/ (a[1] = b[1] /\ a[2] < b[2])
    /\ {<<found[k].chars, found[k].id>> : k \in DOMAIN found} =
         {<<<<r[1], r[2]>>, RankOf(keys, SubSeq(text, r[1] + 1, r[2]))>> :
            r \in {q \in (0 .. Len(text)) \X (1 .. Len(text)) : q[1] < q[2] /\ SubSeq(text, q[1] + 1, q[2]) \in ToSet(keys)}}
LOCAL TextsAgree(keys, x, texts) ==
    \A text \in texts : /\ id(x, text) = RankOf(keys, text)
                         /\ PrefixesAgree(keys, x, text, for_each_common_prefix(x, text))
                         /\ OccursAgree(keys, text, occurrences(x, text))
LOCAL Texts(keys) ==
    LET chars == {0, CodePoints - 1} \cup UNION {ToSet(keys[i]) : i \in DOMAIN keys}
    IN  ToSet(keys) \cup UNION {[1 .. m -> chars] : m \in 0 .. 2} \cup {Reverse(keys[i]) \o keys[1] : i \in DOMAIN keys}
         \cup {FlattenSeq(keys), FlattenSeq([i \in DOMAIN keys |-> <<CodePoints - 1>> \o keys[i]])}
LOCAL Answered(keys, b) ==
    b # NoBlob => /\ from_shared(b, TRUE) # Refused
                  /\ TextsAgree(keys, from_shared(b, TRUE), Texts(keys))
\* The rows are placed lowest first; and the loaded trie answers of any text what the keys do.
TrieAnswers(c) ==
    LET keys == Ranked(c.items) IN Answered(keys, build(c.items)) /\ Placed(keys, labels_of(keys))

\* A blob with one field changed is refused, or every walk stays in the slots and answers ids below n.
LOCAL StaysIn(x, texts) ==
    x # Refused => \A text \in texts : LET found == matches(x, text, 0, 1)
                                       IN  \A k \in DOMAIN found : found[k][2] \in 0 .. x.n - 1
LOCAL Changed(b, c) ==
    CASE c.part = "head" -> [b EXCEPT ![c.field] = c.to]
      [] c.part = "slot" -> IF c.at \notin DOMAIN b.body.slots THEN b
                            ELSE [b EXCEPT !.body.slots[c.at][c.field] =
                                    IF c.field \in {"word", "leaf"} THEN ~@ ELSE c.to]
      [] c.part = "table" -> IF c.at \notin DOMAIN b.body.table THEN b ELSE [b EXCEPT !.body.table[c.at] = c.to]
      [] c.part = "supp" -> IF c.at \notin DOMAIN b.body.supp THEN b
                            ELSE [b EXCEPT !.body.supp[c.at] = IF c.field = "cp" THEN <<c.to, @[2]>> ELSE <<@[1], c.to>>]
TamperedTrieStays(c) ==
    LET b == build(c.items)
    IN  b # NoBlob => /\ StaysIn(from_shared(Changed(b, c), FALSE), Texts(Ranked(c.items)))
                      /\ Changed(b, c).body # b.body => from_shared(Changed(b, c), TRUE) = Refused
=================================================================================
