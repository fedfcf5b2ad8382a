----------------------------- MODULE OverlayProofs -----------------------------
(***************************************************************************)
(* What an Overlay promises, proved for any finite set of keys, any hashes *)
(* however they collide, any base, any word of tombstones and any number   *)
(* of edits, saves, reloads and compactions: ids and keys are inverse, a   *)
(* save is loaded back as it was, what a compaction streams are the live   *)
(* keys, its remap carries every id, and an id once issued is stable.      *)
(*                                                                         *)
(* The layout: lemmas about what the model's operators give (the additions *)
(* pushed, the tombstones, the ids, the blob, the merge of the stream),    *)
(* each for any overlay that is OverlayOK; then that the steps keep OInv;  *)
(* then what follows from it.  What a recursive function gives is found by *)
(* Counting: the numbers it holds for are all of them.                     *)
(***************************************************************************)
EXTENDS Overlay, FiniteSetTheorems, SequenceTheorems, WellFoundedInduction, TLAPS

\* A set of numbers has a least one.
LEMMA LeastOf ==
    ASSUME NEW T, T \subseteq Nat, T # {}
    PROVE  \E n \in T : \A m \in T : n <= m
  <1>1. PICK x \in T : \A y \in T : ~ (<<y, x>> \in OpToRel(<, Nat))
    BY NatLessThanWellFounded, WFMin
  <1>2. \A y \in T : x <= y
    <2> TAKE y \in T
    <2>1. ~ (y < x)
      BY <1>1 DEF OpToRel
    <2> QED
      BY <2>1
  <1> QED
    BY <1>2

\* Induction, over the set of the numbers that have a property.
LEMMA Counting ==
    ASSUME NEW S, 0 \in S, \A n \in Nat : n \in S => n + 1 \in S
    PROVE  Nat \subseteq S
  <1> SUFFICES ASSUME Nat \ S # {} PROVE FALSE
    OBVIOUS
  <1>1. PICK n \in Nat \ S : \A m \in Nat \ S : n <= m
    BY LeastOf
  <1>2. n # 0 /\ n - 1 \in Nat
    BY <1>1
  <1> QED
    BY <1>1, <1>2

LEMMA Dividing ==
    ASSUME NEW w \in Nat \ {0}, NEW i \in Nat
    PROVE  /\ i \div w \in Nat /\ i % w \in 0 .. w - 1
           /\ i = w * (i \div w) + (i % w)
  OBVIOUS

LEMMA Divided ==
    ASSUME NEW w \in Nat \ {0}, NEW q \in Nat, NEW r \in 0 .. w - 1
    PROVE  (q * w + r) \div w = q /\ (q * w + r) % w = r
  OBVIOUS

LEMMA Padded ==
    ASSUME NEW T, NEW s \in Seq(T), NEW e \in T, NEW n \in Nat,
           NEW t, t = s \o [i \in 1 .. n |-> e]
    PROVE  /\ t \in Seq(T) /\ Len(t) = Len(s) + n
           /\ \A i \in 1 .. Len(t) : t[i] = IF i <= Len(s) THEN s[i] ELSE e
  <1> DEFINE more == [i \in 1 .. n |-> e]
  <1>1. more \in Seq(T) /\ Len(more) = n
    BY IsASeq
  <1>2. \A i \in 1 .. n : more[i] = e
    OBVIOUS
  <1> HIDE DEF more
  <1>3. t = s \o more
    BY DEF more
  <1> QED
    BY <1>1, <1>2, <1>3, ConcatProperties, LenProperties

LEMMA Changed ==
    ASSUME NEW T, NEW s \in Seq(T), NEW e \in T, NEW n \in 1 .. Len(s),
           NEW t, t = [s EXCEPT ![n] = e]
    PROVE  /\ t \in Seq(T) /\ Len(t) = Len(s)
           /\ \A i \in 1 .. Len(s) : t[i] = IF i = n THEN e ELSE s[i]
  BY ExceptSeq, LenProperties

-------------------------------------------------------------------------------
(* The additions pushed. *)

\* f is the overlay after each addition.
Pushes(b, s, f) ==
    f = [n \in 0 .. Len(s) |-> IF n = 0 THEN New(b) ELSE PushAdded(f[n - 1], s[n])]

LEMMA PushesExist ==
    ASSUME NEW b, NEW s \in Seq(Keys)
    PROVE  \E f : Pushes(b, s, f) /\ Pushed(b, s) = f[Len(s)]
  <1> DEFINE To(m, f) ==
                 f = [n \in 0 .. m |-> IF n = 0 THEN New(b) ELSE PushAdded(f[n - 1], s[n])]
             S == {m \in Nat : \E f : To(m, f)}
  <1>1. 0 \in S
    <2>1. To(0, [n \in 0 .. 0 |-> New(b)])
      OBVIOUS
    <2> QED
      BY <2>1
  <1>2. ASSUME NEW m \in Nat, m \in S
        PROVE  m + 1 \in S
    <2>1. PICK f : To(m, f)
      BY <1>2
    <2> DEFINE g == [n \in 0 .. m + 1 |-> IF n = m + 1 THEN PushAdded(f[m], s[m + 1]) ELSE f[n]]
    <2>2. \A n \in 0 .. m + 1 :
              g[n] = IF n = 0 THEN New(b) ELSE PushAdded(g[n - 1], s[n])
      <3> TAKE n \in 0 .. m + 1
      <3>1. CASE n = m + 1
        BY <3>1
      <3>2. CASE n \in 0 .. m
        BY <2>1, <3>2
      <3> QED
        BY <3>1, <3>2
    <2>3. To(m + 1, g)
      BY <2>2
    <2> QED
      <3> HIDE DEF To
      <3> QED
        BY <2>3
  <1>3. Nat \subseteq S
    <2> HIDE DEF S
    <2> QED
      BY <1>1, <1>2, Counting
  <1>4. Len(s) \in S
    BY <1>3
  <1> QED
    BY <1>4 DEF Pushed, Pushes

\* Pushing one more addition is a push on top of the others.
LEMMA PushedMore ==
    ASSUME NEW b, NEW s \in Seq(Keys), NEW k \in Keys
    PROVE  Pushed(b, Append(s, k)) = PushAdded(Pushed(b, s), k)
  <1>1. PICK f : Pushes(b, s, f) /\ Pushed(b, s) = f[Len(s)]
    BY PushesExist
  <1>2. PICK g : Pushes(b, Append(s, k), g) /\ Pushed(b, Append(s, k)) = g[Len(s) + 1]
    <2>1. Append(s, k) \in Seq(Keys) /\ Len(Append(s, k)) = Len(s) + 1
      OBVIOUS
    <2> QED
      BY <2>1, PushesExist
  <1>3. \A n \in 0 .. Len(s) : f[n] = g[n]
    <2> DEFINE S == {n \in Nat : n <= Len(s) => f[n] = g[n]}
    <2>1. 0 \in S
      BY <1>1, <1>2 DEF Pushes
    <2>2. ASSUME NEW n \in Nat, n \in S
          PROVE  n + 1 \in S
      BY <2>2, <1>1, <1>2 DEF Pushes
    <2>3. Nat \subseteq S
      <3> HIDE DEF S
      <3> QED
        BY <2>1, <2>2, Counting
    <2> QED
      BY <2>3
  <1>4. g[Len(s) + 1] = PushAdded(g[Len(s)], k)
    BY <1>2 DEF Pushes
  <1> QED
    BY <1>1, <1>2, <1>3, <1>4

LEMMA PushedNone ==
    ASSUME NEW b
    PROVE  Pushed(b, <<>>) = New(b)
  <1>1. <<>> \in Seq(Keys) /\ Len(<<>>) = 0
    OBVIOUS
  <1>2. PICK f : Pushes(b, <<>>, f) /\ Pushed(b, <<>>) = f[0]
    BY <1>1, PushesExist
  <1> QED
    BY <1>1, <1>2 DEF Pushes

-------------------------------------------------------------------------------
(* Tombstones. *)

\* An id is its word and its bit.
LEMMA Places ==
    /\ \A id \in Nat : WordOf(id) \in Nat /\ BitOf(id) \in 0 .. WordBits - 1
    /\ \A id \in Nat : id = WordBits * WordOf(id) + BitOf(id)
    /\ \A w \in Nat, b \in 0 .. WordBits - 1 :
           WordOf(WordBits * w + b) = w /\ BitOf(WordBits * w + b) = b
    /\ \A i, j \in Nat : WordOf(i) = WordOf(j) /\ BitOf(i) = BitOf(j) => i = j
  <1>1. \A id \in Nat : /\ WordOf(id) \in Nat /\ BitOf(id) \in 0 .. WordBits - 1
                        /\ id = WordBits * WordOf(id) + BitOf(id)
    BY Dividing, WordAssumption DEF WordOf, BitOf
  <1>2. \A w \in Nat, b \in 0 .. WordBits - 1 :
           WordOf(WordBits * w + b) = w /\ BitOf(WordBits * w + b) = b
    <2> TAKE w \in Nat, b \in 0 .. WordBits - 1
    <2>1. WordBits * w = w * WordBits
      BY WordAssumption
    <2> QED
      BY <2>1, Divided, WordAssumption DEF WordOf, BitOf
  <1> QED
    BY <1>1, <1>2

\* The bits of the words are the ids IsDead answers for.
LEMMA DeadBits ==
    ASSUME NEW o, o.dead \in Seq(Words)
    PROVE  /\ Tombstones(o.dead) \subseteq Nat
           /\ \A id \in Nat : IsDead(o, id) <=> id \in Tombstones(o.dead)
  <1>1. \A w \in 1 .. Len(o.dead) : o.dead[w] \subseteq 0 .. WordBits - 1
    BY DEF Words
  <1>2. ASSUME NEW id \in Tombstones(o.dead)
        PROVE  id \in Nat /\ IsDead(o, id)
    <2>0. PICK w \in 1 .. Len(o.dead) : \E b \in o.dead[w] : id = (w - 1) * WordBits + b
      BY DEF Tombstones
    <2>1. PICK b \in o.dead[w] : id = (w - 1) * WordBits + b
      BY <2>0
    <2>2. w - 1 \in Nat /\ b \in 0 .. WordBits - 1 /\ (w - 1) * WordBits = WordBits * (w - 1)
      BY <1>1, WordAssumption
    <2>3. id \in Nat
      <3>1. (w - 1) * WordBits \in Nat
        BY <2>2, WordAssumption
      <3> QED
        BY <2>1, <2>2, <3>1
    <2>4. WordOf(id) = w - 1 /\ BitOf(id) = b
      BY <2>1, <2>2, Places
    <2> QED
      BY <2>2, <2>3, <2>4 DEF IsDead
  <1>3. ASSUME NEW id \in Nat, IsDead(o, id)
        PROVE  id \in Tombstones(o.dead)
    <2>1. PICK v \in Nat : v = WordOf(id)
      BY Places
    <2>2. v < Len(o.dead) /\ BitOf(id) \in o.dead[v + 1]
      BY <1>3, <2>1 DEF IsDead
    <2>3. v + 1 \in 1 .. Len(o.dead) /\ v + 1 - 1 = v
      BY <2>1, <2>2, LenProperties
    <2>4. id = v * WordBits + BitOf(id)
      BY <2>1, Places, WordAssumption
    <2> QED
      BY <2>2, <2>3, <2>4 DEF Tombstones
  <1> QED
    BY <1>2, <1>3

\* set_dead changes one bit.
LEMMA DeadSet ==
    ASSUME NEW o, FieldsOK(o), NEW id \in Nat
    PROVE  /\ SetDead(o, id) = [o EXCEPT !.dead = SetDead(o, id).dead]
           /\ SetDead(o, id).dead \in Seq(Words)
           /\ \A i \in Nat : IsDead(SetDead(o, id), i) <=> IsDead(o, i) \/ i = id
  <1>1. PICK w \in Nat : w = WordOf(id)
    BY Places
  <1>2. BitOf(id) \in 0 .. WordBits - 1 /\ o.dead \in Seq(Words) /\ {} \in Words /\ Len(o.dead) \in Nat
    BY Places, LenProperties DEF FieldsOK, Words
  <1>3. PICK grown : grown = IF w < Len(o.dead) THEN o.dead
                             ELSE o.dead \o [i \in 1 .. w + 1 - Len(o.dead) |-> {}]
    OBVIOUS
  <1>4. /\ grown \in Seq(Words) /\ w + 1 \in 1 .. Len(grown) /\ Len(o.dead) <= Len(grown)
        /\ Len(grown) \in Nat
        /\ \A i \in 1 .. Len(grown) : grown[i] = IF i <= Len(o.dead) THEN o.dead[i] ELSE {}
    <2>1. CASE w < Len(o.dead)
      BY <1>1, <1>2, <1>3, <2>1
    <2>2. CASE ~ (w < Len(o.dead))
      <3>1. PICK n \in Nat : n = w + 1 - Len(o.dead)
        BY <1>1, <1>2, <2>2
      <3>2. grown = o.dead \o [i \in 1 .. n |-> {}]
        BY <1>3, <2>2, <3>1
      <3>4. Len(o.dead) + n = w + 1
        BY <1>1, <1>2, <3>1
      <3>3. /\ grown \in Seq(Words) /\ Len(grown) = w + 1
            /\ \A i \in 1 .. Len(grown) : grown[i] = IF i <= Len(o.dead) THEN o.dead[i] ELSE {}
        BY <1>2, <3>2, <3>4, Padded
      <3> QED
        BY <1>1, <1>2, <2>2, <3>3
    <2> QED
      BY <2>1, <2>2
  <1>5. grown[w + 1] \cup {BitOf(id)} \in Words
    BY <1>1, <1>2, <1>4 DEF Words
  <1>6. PICK set : set = [grown EXCEPT ![w + 1] = grown[w + 1] \cup {BitOf(id)}]
    OBVIOUS
  <1>7. /\ set \in Seq(Words) /\ Len(set) = Len(grown)
        /\ \A i \in 1 .. Len(grown) :
               set[i] = IF i = w + 1 THEN grown[w + 1] \cup {BitOf(id)} ELSE grown[i]
    BY <1>4, <1>5, <1>6, Changed
  <1>8. SetDead(o, id) = [o EXCEPT !.dead = set] /\ SetDead(o, id).dead = set
    BY <1>1, <1>3, <1>6 DEF SetDead, FieldsOK
  <1>9. ASSUME NEW i \in Nat
        PROVE  IsDead(SetDead(o, id), i) <=> IsDead(o, i) \/ i = id
    <2>1. PICK v \in Nat : v = WordOf(i)
      BY Places
    <2>2. i = id <=> v = w /\ BitOf(i) = BitOf(id)
      BY Places, <1>1, <2>1
    <2>3. IsDead(SetDead(o, id), i) <=> v < Len(grown) /\ BitOf(i) \in set[v + 1]
      BY <1>7, <1>8, <2>1 DEF IsDead
    <2>4. IsDead(o, i) <=> v < Len(o.dead) /\ BitOf(i) \in o.dead[v + 1]
      BY <2>1 DEF IsDead
    <2>5. v < Len(grown) => grown[v + 1] = IF v < Len(o.dead) THEN o.dead[v + 1] ELSE {}
      BY <1>2, <1>4
    <2>6. v < Len(grown) =>
              set[v + 1] = IF v = w THEN grown[v + 1] \cup {BitOf(id)} ELSE grown[v + 1]
      <3>1. v < Len(grown) => v + 1 \in 1 .. Len(grown) /\ (v + 1 = w + 1 <=> v = w)
        BY <1>1, <1>4, <2>1
      <3> QED
        BY <1>7, <3>1
    <2> QED
      BY <1>2, <1>4, <2>2, <2>3, <2>4, <2>5, <2>6
  <1> QED
    BY <1>7, <1>8, <1>9

LEMMA DeadCleared ==
    ASSUME NEW o, FieldsOK(o), NEW id \in Nat
    PROVE  /\ ClearDead(o, id) = [o EXCEPT !.dead = ClearDead(o, id).dead]
           /\ ClearDead(o, id).dead \in Seq(Words)
           /\ \A i \in Nat : IsDead(ClearDead(o, id), i) <=> IsDead(o, i) /\ i # id
  <1>1. PICK w \in Nat : w = WordOf(id)
    BY Places
  <1>2. o.dead \in Seq(Words) /\ Len(o.dead) \in Nat
    BY LenProperties DEF FieldsOK
  <1>3. CASE w < Len(o.dead)
    <2>1. w + 1 \in 1 .. Len(o.dead) /\ o.dead[w + 1] \ {BitOf(id)} \in Words
      BY <1>1, <1>2, <1>3 DEF Words
    <2>2. PICK clear : clear = [o.dead EXCEPT ![w + 1] = o.dead[w + 1] \ {BitOf(id)}]
      OBVIOUS
    <2>3. /\ clear \in Seq(Words) /\ Len(clear) = Len(o.dead)
          /\ \A i \in 1 .. Len(o.dead) :
                 clear[i] = IF i = w + 1 THEN o.dead[w + 1] \ {BitOf(id)} ELSE o.dead[i]
      BY <1>2, <2>1, <2>2, Changed
    <2>4. ClearDead(o, id) = [o EXCEPT !.dead = clear] /\ ClearDead(o, id).dead = clear
      BY <1>1, <1>3, <2>2 DEF ClearDead, FieldsOK
    <2>5. ASSUME NEW i \in Nat
          PROVE  IsDead(ClearDead(o, id), i) <=> IsDead(o, i) /\ i # id
      <3>1. PICK v \in Nat : v = WordOf(i)
        BY Places
      <3>2. i = id <=> v = w /\ BitOf(i) = BitOf(id)
        BY Places, <1>1, <3>1
      <3>3. IsDead(ClearDead(o, id), i) <=> v < Len(o.dead) /\ BitOf(i) \in clear[v + 1]
        BY <2>3, <2>4, <3>1 DEF IsDead
      <3>4. IsDead(o, i) <=> v < Len(o.dead) /\ BitOf(i) \in o.dead[v + 1]
        BY <3>1 DEF IsDead
      <3>5. v < Len(o.dead) =>
                clear[v + 1] = IF v = w THEN o.dead[v + 1] \ {BitOf(id)} ELSE o.dead[v + 1]
        <4>1. v < Len(o.dead) => v + 1 \in 1 .. Len(o.dead) /\ (v + 1 = w + 1 <=> v = w)
          BY <1>1, <1>2, <3>1
        <4> QED
          BY <2>3, <4>1
      <3> QED
        BY <3>2, <3>3, <3>4, <3>5
    <2> QED
      BY <2>3, <2>4, <2>5
  <1>4. CASE ~ (w < Len(o.dead))
    <2>1. ClearDead(o, id) = o /\ ~ IsDead(o, id)
      BY <1>1, <1>4 DEF ClearDead, IsDead
    <2>2. o = [o EXCEPT !.dead = o.dead]
      BY DEF FieldsOK
    <2> QED
      BY <1>2, <2>1, <2>2
  <1> QED
    BY <1>3, <1>4

-------------------------------------------------------------------------------
(* Ids and keys. *)

\* What the types say of the sizes and of the arena.
LEMMA Sizes ==
    ASSUME NEW o, BaseOK(o.base), FieldsOK(o)
    PROVE  /\ o.base.n \in Nat /\ Len(o.added) \in Nat
           /\ IdSpace(o) = o.base.n + Len(o.added) /\ IdSpace(o) \in Nat
           /\ DOMAIN o.added = 1 .. Len(o.added)
           /\ \A i \in 0 .. Len(o.added) - 1 : AddedKey(o, i) \in Keys /\ i + 1 \in 1 .. Len(o.added)
           /\ \A k \in Keys : o.base.id[k] = None \/ o.base.id[k] \in 0 .. o.base.n - 1
           /\ None \notin Nat /\ None \notin Keys
  <1>1. o.base.n \in Nat /\ o.added \in Seq(Keys) /\ None \notin Nat /\ None \notin Keys
    BY KeysAssumption DEF BaseOK, FieldsOK
  <1>2. Len(o.added) \in Nat /\ DOMAIN o.added = 1 .. Len(o.added)
    BY <1>1, LenProperties
  <1>3. \A i \in 0 .. Len(o.added) - 1 : AddedKey(o, i) \in Keys /\ i + 1 \in 1 .. Len(o.added)
    <2> TAKE i \in 0 .. Len(o.added) - 1
    <2>1. i + 1 \in 1 .. Len(o.added)
      BY <1>2
    <2> QED
      BY <1>1, <2>1, ElementOfSeq DEF AddedKey
  <1>4. \A k \in Keys : o.base.id[k] = None \/ o.base.id[k] \in 0 .. o.base.n - 1
    BY DEF BaseOK
  <1> QED
    BY <1>1, <1>2, <1>3, <1>4 DEF IdSpace

\* added_index finds the additions, and only them.
LEMMA Indexed ==
    ASSUME NEW o, BaseOK(o.base), FieldsOK(o), AddedOnce(o), AddedFound(o)
    PROVE  /\ \A i \in 0 .. Len(o.added) - 1 : AddedIndex(o, AddedKey(o, i)) = i
           /\ \A k \in Keys : AddedIndex(o, k) # None =>
                  /\ AddedIndex(o, k) \in 0 .. Len(o.added) - 1
                  /\ AddedKey(o, AddedIndex(o, k)) = k
  <1>1. \A i, j \in 0 .. Len(o.added) - 1 : AddedKey(o, i) = AddedKey(o, j) => i = j
    <2> TAKE i, j \in 0 .. Len(o.added) - 1
    <2>1. i + 1 \in DOMAIN o.added /\ j + 1 \in DOMAIN o.added /\ (i + 1 = j + 1 => i = j)
      BY Sizes
    <2> QED
      BY <2>1 DEF AddedKey, AddedOnce
  <1>2. ASSUME NEW k \in Keys, AddedIndex(o, k) # None
        PROVE  /\ AddedIndex(o, k) \in 0 .. Len(o.added) - 1
               /\ AddedKey(o, AddedIndex(o, k)) = k
    <2> DEFINE later == {c \in Range(o.collisions) : c.hash = HashOf[k] /\ AddedKey(o, c.index) = k}
    <2>1. HashOf[k] \in DOMAIN o.lookup
      BY <1>2 DEF AddedIndex
    <2>2. CASE AddedKey(o, o.lookup[HashOf[k]]) = k
      BY <2>1, <2>2 DEF AddedIndex, AddedFound
    <2>3. CASE AddedKey(o, o.lookup[HashOf[k]]) # k /\ later # {}
      <3>1. AddedIndex(o, k) = (CHOOSE c \in later : TRUE).index
        BY <2>1, <2>3 DEF AddedIndex
      <3>2. PICK c \in later : AddedIndex(o, k) = c.index
        BY <2>3, <3>1
      <3> QED
        BY <3>2 DEF AddedFound
    <2> QED
      BY <1>2, <2>1, <2>2, <2>3 DEF AddedIndex
  <1>3. ASSUME NEW i \in 0 .. Len(o.added) - 1
        PROVE  AddedIndex(o, AddedKey(o, i)) = i
    <2> DEFINE k == AddedKey(o, i)
               later == {c \in Range(o.collisions) : c.hash = HashOf[k] /\ AddedKey(o, c.index) = k}
    <2>1. k \in Keys /\ None \notin Nat
      BY Sizes
    <2>2. HashOf[k] \in DOMAIN o.lookup
      BY DEF AddedFound
    <2>3. AddedIndex(o, k) # None
      <3>1. CASE AddedKey(o, o.lookup[HashOf[k]]) = k
        BY <2>1, <2>2, <3>1 DEF AddedIndex, AddedFound
      <3>2. CASE AddedKey(o, o.lookup[HashOf[k]]) # k
        <4>1. later # {}
          BY <3>2 DEF AddedFound
        <4>2. AddedIndex(o, k) = (CHOOSE c \in later : TRUE).index
          BY <2>2, <3>2, <4>1 DEF AddedIndex
        <4>3. PICK c \in later : AddedIndex(o, k) = c.index
          BY <4>1, <4>2
        <4> QED
          BY <2>1, <4>3 DEF AddedFound
      <3> QED
        BY <3>1, <3>2
    <2> HIDE DEF k
    <2> QED
      BY <1>1, <1>2, <2>1, <2>3 DEF k
  <1> QED
    BY <1>2, <1>3

\* An id is issued for a key of the base, or for an addition, and then it is that key's.
LEMMA IssuedIds ==
    ASSUME NEW o, OverlayOK(o)
    PROVE  /\ \A i \in 0 .. Len(o.added) - 1 : IdIssued(o, AddedKey(o, i)) = o.base.n + i
           /\ \A k \in Keys : IdIssued(o, k) # None =>
                  \/ o.base.id[k] = IdIssued(o, k) /\ IdIssued(o, k) \in 0 .. o.base.n - 1
                  \/ \E i \in 0 .. Len(o.added) - 1 :
                         /\ IdIssued(o, k) = o.base.n + i /\ AddedKey(o, i) = k
                         /\ o.base.id[k] = None
           /\ \A k \in Keys : IdIssued(o, k) # None => IdIssued(o, k) \in 0 .. IdSpace(o) - 1
  <1>0. BaseOK(o.base) /\ FieldsOK(o) /\ AddedOnce(o) /\ AddedFound(o)
    BY DEF OverlayOK
  <1>1. ASSUME NEW i \in 0 .. Len(o.added) - 1
        PROVE  IdIssued(o, AddedKey(o, i)) = o.base.n + i
    <2>1. o.base.id[AddedKey(o, i)] = None
      BY <1>0, Sizes DEF AddedOnce, AddedKey
    <2>2. AddedIndex(o, AddedKey(o, i)) = i /\ i # None
      BY <1>0, Indexed, Sizes
    <2> QED
      BY <2>1, <2>2 DEF IdIssued
  <1>2. ASSUME NEW k \in Keys, IdIssued(o, k) # None
        PROVE  \/ o.base.id[k] = IdIssued(o, k) /\ IdIssued(o, k) \in 0 .. o.base.n - 1
               \/ \E i \in 0 .. Len(o.added) - 1 :
                      /\ IdIssued(o, k) = o.base.n + i /\ AddedKey(o, i) = k
                      /\ o.base.id[k] = None
    <2>1. CASE o.base.id[k] # None
      BY <1>0, <2>1, Sizes DEF IdIssued
    <2>2. CASE o.base.id[k] = None
      <3>1. AddedIndex(o, k) # None /\ IdIssued(o, k) = o.base.n + AddedIndex(o, k)
        BY <1>2, <2>2 DEF IdIssued
      <3> QED
        BY <1>0, <2>2, <3>1, Indexed
    <2> QED
      BY <2>1, <2>2
  <1>3. ASSUME NEW k \in Keys, IdIssued(o, k) # None
        PROVE  IdIssued(o, k) \in 0 .. IdSpace(o) - 1
    <2>1. o.base.n \in Nat /\ Len(o.added) \in Nat /\ IdSpace(o) = o.base.n + Len(o.added)
      BY <1>0, Sizes
    <2> QED
      BY <1>2, <1>3, <2>1
  <1> QED
    BY <1>1, <1>2, <1>3

-------------------------------------------------------------------------------
(* What every overlay that can be made keeps. *)

\* The live ids are finitely many of the issued ones.
LEMMA LiveFinite ==
    ASSUME NEW o, BaseOK(o.base), FieldsOK(o)
    PROVE  /\ IsFiniteSet(0 .. IdSpace(o) - 1) /\ Cardinality(0 .. IdSpace(o) - 1) = IdSpace(o)
           /\ IsFiniteSet(LiveIds(o)) /\ LiveIds(o) \subseteq 0 .. IdSpace(o) - 1
           /\ Cardinality(LiveIds(o)) \in Nat
  <1>1. IdSpace(o) \in Nat
    BY Sizes
  <1>2. IsFiniteSet(0 .. IdSpace(o) - 1) /\ Cardinality(0 .. IdSpace(o) - 1) = IdSpace(o)
    <2>1. 0 \in Int /\ IdSpace(o) - 1 \in Int
      BY <1>1
    <2>2. IF 0 > IdSpace(o) - 1 THEN IdSpace(o) = 0 ELSE IdSpace(o) - 1 - 0 + 1 = IdSpace(o)
      BY <1>1
    <2> QED
      BY <2>1, <2>2, FS_Interval
  <1>3. LiveIds(o) \subseteq 0 .. IdSpace(o) - 1
    BY DEF LiveIds
  <1> QED
    BY <1>2, <1>3, FS_Subset, FS_CardinalityType

LEMMA NewOK ==
    ASSUME NEW b, BaseOK(b)
    PROVE  /\ OverlayOK(New(b))
           /\ IdSpace(New(b)) = b.n /\ LiveIds(New(b)) = 0 .. b.n - 1
           /\ \A k \in Keys : AddedIndex(New(b), k) = None
           /\ \A id \in Nat : ~ IsDead(New(b), id)
  <1> DEFINE o == New(b)
  <1>1. /\ o.base = b /\ o.added = <<>> /\ o.collisions = <<>> /\ o.dead = <<>> /\ o.live = b.n
        /\ o.lookup = [h \in {} |-> 0] /\ DOMAIN o.lookup = {}
    BY DEF New
  <1>2. b.n \in Nat /\ Len(o.added) = 0 /\ IdSpace(o) = b.n
    BY <1>1 DEF BaseOK, IdSpace
  <1>3. FieldsOK(o)
    BY <1>1, <1>2 DEF FieldsOK, New
  <1>4. \A id \in Nat : ~ IsDead(o, id)
    <2>1. Len(o.dead) = 0
      BY <1>1
    <2> QED
      BY <2>1, Places DEF IsDead
  <1>5. AddedOnce(o) /\ AddedFound(o)
    <2>1. DOMAIN o.added = {} /\ Range(o.collisions) = {}
      BY <1>1 DEF Range
    <2> QED
      BY <1>1, <1>2, <2>1 DEF AddedOnce, AddedFound
  <1>6. Rebuilt(o)
    <2>1. Pushed(o.base, o.added) = o
      BY <1>1, PushedNone
    <2>2. o = [o EXCEPT !.dead = <<>>, !.live = o.base.n]
      BY <1>1 DEF New
    <2> QED
      BY <2>1, <2>2 DEF Rebuilt
  <1>7. LiveIds(o) = 0 .. b.n - 1
    BY <1>2, <1>4 DEF LiveIds
  <1>8. Counted(o)
    BY <1>1, <1>2, <1>3, <1>4, <1>7, DeadBits, LiveFinite DEF Counted, FieldsOK
  <1>9. \A k \in Keys : AddedIndex(o, k) = None
    BY <1>1 DEF AddedIndex
  <1> QED
    BY <1>1, <1>2, <1>3, <1>4, <1>5, <1>6, <1>7, <1>8, <1>9 DEF OverlayOK


\* The lookup and the collisions after a push of hash h at index n.
Slotted(l, h, n) == IF h \in DOMAIN l THEN l ELSE [g \in DOMAIN l \cup {h} |-> IF g = h THEN n ELSE l[g]]
Listed(l, c, h, n) == IF h \in DOMAIN l THEN Append(c, [hash |-> h, index |-> n]) ELSE c

\* push_added as a record.
LEMMA PushedFields ==
    ASSUME NEW o, NEW k,
           o = [base |-> o.base, added |-> o.added, lookup |-> o.lookup,
                collisions |-> o.collisions, dead |-> o.dead, live |-> o.live]
    PROVE  PushAdded(o, k) =
             [base |-> o.base, added |-> Append(o.added, k),
              lookup |-> Slotted(o.lookup, HashOf[k], Len(o.added)),
              collisions |-> Listed(o.lookup, o.collisions, HashOf[k], Len(o.added)),
              dead |-> o.dead, live |-> o.live]
  <1>1. CASE HashOf[k] \in DOMAIN o.lookup
    BY <1>1 DEF PushAdded, Slotted, Listed
  <1>2. CASE HashOf[k] \notin DOMAIN o.lookup
    <2>1. PICK l : l = Slotted(o.lookup, HashOf[k], Len(o.added))
      OBVIOUS
    <2>2. PushAdded(o, k) = [[o EXCEPT !.added = Append(@, k)] EXCEPT !.lookup = l]
      BY <1>2, <2>1 DEF PushAdded, Slotted
    <2>3. Listed(o.lookup, o.collisions, HashOf[k], Len(o.added)) = o.collisions
      BY <1>2 DEF Listed
    <2> QED
      BY <2>1, <2>2, <2>3
  <1> QED
    BY <1>1, <1>2

\* What Rebuilt compares with.
LEMMA Undone ==
    ASSUME NEW o,
           o = [base |-> o.base, added |-> o.added, lookup |-> o.lookup,
                collisions |-> o.collisions, dead |-> o.dead, live |-> o.live]
    PROVE  [o EXCEPT !.dead = <<>>, !.live = o.base.n] =
             [base |-> o.base, added |-> o.added, lookup |-> o.lookup,
              collisions |-> o.collisions, dead |-> <<>>, live |-> o.base.n]
  <1>1. PICK q : q = [o EXCEPT !.dead = <<>>, !.live = o.base.n]
    OBVIOUS
  <1>2. q = [base |-> o.base, added |-> o.added, lookup |-> o.lookup,
             collisions |-> o.collisions, dead |-> <<>>, live |-> o.base.n]
    BY <1>1
  <1> QED
    BY <1>1, <1>2

\* add of an unknown key.
LEMMA PushOK ==
    ASSUME NEW o, OverlayOK(o), NEW k \in Keys, IdIssued(o, k) = None,
           NEW p, p = [PushAdded(o, k) EXCEPT !.live = @ + 1]
    PROVE  /\ OverlayOK(p)
           /\ p.base = o.base /\ p.added = Append(o.added, k) /\ IdSpace(p) = IdSpace(o) + 1
           /\ LiveIds(p) = LiveIds(o) \cup {IdSpace(o)}
           /\ \A id \in Nat : IsDead(p, id) <=> IsDead(o, id)
  <1>0. BaseOK(o.base) /\ FieldsOK(o) /\ AddedOnce(o) /\ AddedFound(o) /\ Rebuilt(o) /\ Counted(o)
    BY DEF OverlayOK
  <1>n. PICK n : n = Len(o.added)
    OBVIOUS
  <1>h. PICK h : h = HashOf[k]
    OBVIOUS
  <1>w. PICK new : new = [hash |-> h, index |-> n]
    OBVIOUS
  <1>l. PICK l : l = Slotted(o.lookup, h, n)
    OBVIOUS
  <1>c. PICK c : c = Listed(o.lookup, o.collisions, h, n)
    OBVIOUS
  <1>e. /\ l = IF h \in DOMAIN o.lookup THEN o.lookup
              ELSE [g \in DOMAIN o.lookup \cup {h} |-> IF g = h THEN n ELSE o.lookup[g]]
        /\ c = IF h \in DOMAIN o.lookup THEN Append(o.collisions, new) ELSE o.collisions
    BY <1>w, <1>l, <1>c DEF Slotted, Listed
  <1>a. PICK a : a = Append(o.added, k)
    OBVIOUS
  <1>s. n \in Nat /\ o.base.n \in Nat /\ IdSpace(o) = o.base.n + n /\ IdSpace(o) \in Nat
    BY <1>0, <1>n, Sizes
  <1>1. /\ p.base = o.base /\ p.added = a /\ p.lookup = l /\ p.collisions = c
        /\ p.dead = o.dead /\ p.live = o.live + 1
        /\ p = [base |-> o.base, added |-> a, lookup |-> l, collisions |-> c,
                dead |-> o.dead, live |-> o.live + 1]
    <2>1. o = [base |-> o.base, added |-> o.added, lookup |-> o.lookup,
               collisions |-> o.collisions, dead |-> o.dead, live |-> o.live]
      BY <1>0 DEF FieldsOK
    <2>2. PushAdded(o, k) = [base |-> o.base, added |-> a, lookup |-> l, collisions |-> c,
                             dead |-> o.dead, live |-> o.live]
      BY <1>n, <1>h, <1>l, <1>c, <1>a, <2>1, PushedFields
    <2> QED
      BY <2>2
  <1>2. /\ a \in Seq(Keys) /\ Len(a) = n + 1 /\ a[n + 1] = k
        /\ \A i \in 1 .. n : a[i] = o.added[i]
        /\ DOMAIN a = 1 .. n + 1 /\ DOMAIN o.added = 1 .. n
    BY <1>0, <1>n, <1>a, AppendProperties, LenProperties DEF FieldsOK
  <1>3. IdSpace(p) = IdSpace(o) + 1
    BY <1>1, <1>2, <1>s DEF IdSpace
  <1>4. AddedKey(p, n) = k /\ \A i \in 0 .. n - 1 : AddedKey(p, i) = AddedKey(o, i)
    <2>1. /\ AddedKey(p, n) = a[n + 1]
          /\ \A i \in 0 .. n - 1 : AddedKey(p, i) = a[i + 1] /\ AddedKey(o, i) = o.added[i + 1]
      BY <1>1 DEF AddedKey
    <2>2. \A i \in 0 .. n - 1 : i + 1 \in 1 .. n
      BY <1>s
    <2> QED
      BY <1>2, <2>1, <2>2
  <1>5. o.base.id[k] = None /\ AddedIndex(o, k) = None
    <2>1. AddedIndex(o, k) # None => AddedIndex(o, k) \in Nat /\ o.base.n + AddedIndex(o, k) \in Nat
      BY <1>0, <1>n, <1>s, Indexed
    <2> QED
      BY <2>1, KeysAssumption DEF IdIssued
  <1>6. \A i \in 0 .. n - 1 : AddedKey(o, i) # k
    BY <1>0, <1>n, <1>5, Indexed, KeysAssumption
  <1>7. FieldsOK(p)
    <2>1. h \in Hashes /\ new \in [hash : Hashes, index : Nat]
      BY <1>s, <1>h, <1>w DEF Hashes
    <2>2. DOMAIN l \subseteq Hashes /\ l \in [DOMAIN l -> Nat]
      <3>1. CASE h \in DOMAIN o.lookup
        BY <1>0, <1>e, <3>1 DEF FieldsOK
      <3>2. CASE h \notin DOMAIN o.lookup
        <4>1. l = [g \in DOMAIN o.lookup \cup {h} |-> IF g = h THEN n ELSE o.lookup[g]]
          BY <1>e, <3>2
        <4>2. DOMAIN o.lookup \subseteq Hashes /\ \A g \in DOMAIN o.lookup : o.lookup[g] \in Nat
          BY <1>0 DEF FieldsOK
        <4> QED
          BY <1>s, <2>1, <4>1, <4>2
      <3> QED
        BY <3>1, <3>2
    <2>3. c \in Seq([hash : Hashes, index : Nat])
      BY <1>0, <1>e, <2>1, AppendProperties DEF FieldsOK
    <2>4. o.live + 1 \in Nat /\ o.dead \in Seq(Words)
      BY <1>0 DEF FieldsOK
    <2> QED
      BY <1>1, <1>2, <2>2, <2>3, <2>4 DEF FieldsOK
  <1>8. AddedOnce(p)
    <2>1. \A i \in 1 .. n : o.added[i] # k
      <3> TAKE i \in 1 .. n
      <3>1. i - 1 \in 0 .. n - 1 /\ i - 1 + 1 = i
        BY <1>s
      <3> QED
        BY <1>6, <3>1 DEF AddedKey
    <2>2. \A i \in 1 .. n + 1 : i \in 1 .. n \/ i = n + 1
      BY <1>s
    <2>3. \A i \in 1 .. n : o.base.id[o.added[i]] = None
      BY <1>0, <1>2 DEF AddedOnce
    <2>4. \A i, j \in 1 .. n : o.added[i] = o.added[j] => i = j
      BY <1>0, <1>2 DEF AddedOnce
    <2> QED
      BY <1>1, <1>2, <1>5, <2>1, <2>2, <2>3, <2>4 DEF AddedOnce
  <1>9. Range(p.collisions) = Range(o.collisions) \cup (IF h \in DOMAIN o.lookup THEN {new} ELSE {})
    <2>1. CASE h \in DOMAIN o.lookup
      <3>1. new \in [hash : Hashes, index : Nat]
        BY <1>s, <1>h, <1>w DEF Hashes
      <3>2. PICK d : d = o.collisions /\ d \in Seq([hash : Hashes, index : Nat])
        BY <1>0 DEF FieldsOK
      <3>3. /\ DOMAIN Append(d, new) = 1 .. Len(d) + 1 /\ DOMAIN d = 1 .. Len(d) /\ Len(d) \in Nat
            /\ Append(d, new)[Len(d) + 1] = new /\ \A i \in 1 .. Len(d) : Append(d, new)[i] = d[i]
        BY <3>1, <3>2, AppendProperties, LenProperties
      <3>4. Range(Append(d, new)) = Range(d) \cup {new}
        BY <3>3 DEF Range
      <3> QED
        BY <1>1, <1>e, <2>1, <3>2, <3>4
    <2> QED
      BY <1>1, <1>e, <2>1
  <1>10. AddedFound(p)
    <2>1. ASSUME NEW g \in DOMAIN p.lookup
          PROVE  p.lookup[g] \in 0 .. n /\ HashOf[AddedKey(p, p.lookup[g])] = g
      <3>1. CASE g \in DOMAIN o.lookup
        <4>1. p.lookup[g] = o.lookup[g] /\ o.lookup[g] \in 0 .. n - 1
          <5>1. g # h \/ h \in DOMAIN o.lookup
            BY <3>1
          <5> QED
            <6>1. p.lookup[g] = o.lookup[g]
              BY <1>1, <1>e, <3>1, <5>1
            <6>2. o.lookup[g] \in 0 .. n - 1
              BY <1>0, <1>n, <3>1 DEF AddedFound
            <6> QED
              BY <6>1, <6>2
        <4>2. HashOf[AddedKey(o, o.lookup[g])] = g
          BY <1>0, <3>1 DEF AddedFound
        <4>3. AddedKey(p, o.lookup[g]) = AddedKey(o, o.lookup[g])
          BY <1>4, <4>1
        <4>4. o.lookup[g] \in 0 .. n
          BY <1>s, <4>1
        <4> QED
          BY <4>1, <4>2, <4>3, <4>4
      <3>2. CASE g \notin DOMAIN o.lookup
        <4>1. g = h /\ p.lookup[g] = n
          BY <1>1, <1>e, <3>2
        <4> QED
          BY <1>h, <1>4, <1>s, <4>1
      <3> QED
        BY <3>1, <3>2
    <2>2. ASSUME NEW d \in Range(p.collisions)
          PROVE  d.index \in 0 .. n /\ HashOf[AddedKey(p, d.index)] = d.hash
      <3>1. CASE d \in Range(o.collisions)
        <4>1. d.index \in 0 .. n - 1
          BY <1>0, <1>n, <3>1 DEF AddedFound
        <4> QED
          BY <1>0, <1>4, <1>s, <3>1, <4>1 DEF AddedFound
      <3>2. CASE d = new
        BY <1>h, <1>w, <1>4, <1>s, <3>2
      <3> QED
        BY <1>9, <3>1, <3>2
    <2>3. ASSUME NEW i \in 0 .. n
          PROVE  LET g == HashOf[AddedKey(p, i)]
                 IN  /\ g \in DOMAIN p.lookup
                     /\ p.lookup[g] = i \/ \E d \in Range(p.collisions) : d.hash = g /\ d.index = i
      <3>1. CASE i = n
        <4>1. h \in DOMAIN o.lookup => new \in Range(p.collisions) /\ new.hash = h /\ new.index = n
          BY <1>w, <1>9
        <4>2. AddedKey(p, i) = k /\ HashOf[AddedKey(p, i)] = h
          BY <1>h, <1>4, <3>1
        <4>3. CASE h \in DOMAIN o.lookup
          BY <1>1, <1>e, <3>1, <4>1, <4>2, <4>3
        <4>4. CASE h \notin DOMAIN o.lookup
          <5>1. h \in DOMAIN p.lookup /\ p.lookup[h] = n
            BY <1>1, <1>e, <4>4
          <5> QED
            BY <3>1, <4>2, <5>1
        <4> QED
          BY <4>3, <4>4
      <3>2. CASE i \in 0 .. n - 1
        <4> DEFINE g == HashOf[AddedKey(o, i)]
        <4>1. /\ g \in DOMAIN o.lookup
              /\ o.lookup[g] = i \/ \E d \in Range(o.collisions) : d.hash = g /\ d.index = i
          BY <1>0, <1>n, <3>2 DEF AddedFound
        <4>2. g \in DOMAIN p.lookup /\ p.lookup[g] = o.lookup[g]
          BY <1>1, <1>e, <4>1
        <4> QED
          BY <1>4, <1>9, <3>2, <4>1, <4>2
      <3> QED
        BY <1>s, <3>1, <3>2
    <2>4. Len(p.added) - 1 = n
      BY <1>1, <1>2, <1>s
    <2> QED
      BY <2>1, <2>2, <2>3, <2>4 DEF AddedFound
  <1>11. Rebuilt(p)
    <2>1. PICK q : q = [o EXCEPT !.dead = <<>>, !.live = o.base.n]
      OBVIOUS
    <2>2. q = [base |-> o.base, added |-> o.added, lookup |-> o.lookup,
               collisions |-> o.collisions, dead |-> <<>>, live |-> o.base.n]
      BY <1>0, <2>1 DEF FieldsOK
    <2>3. PushAdded(q, k) = [base |-> o.base, added |-> a, lookup |-> l, collisions |-> c,
                             dead |-> <<>>, live |-> o.base.n]
      <3>1. PushAdded(q, k) =
             [base |-> q.base, added |-> Append(q.added, k),
              lookup |-> Slotted(q.lookup, HashOf[k], Len(q.added)),
              collisions |-> Listed(q.lookup, q.collisions, HashOf[k], Len(q.added)),
              dead |-> q.dead, live |-> q.live]
        <4>1. q = [base |-> q.base, added |-> q.added, lookup |-> q.lookup,
                   collisions |-> q.collisions, dead |-> q.dead, live |-> q.live]
          BY <2>2
        <4> QED
          BY <4>1, PushedFields
      <3>2. /\ q.base = o.base /\ q.added = o.added /\ q.lookup = o.lookup
            /\ q.collisions = o.collisions /\ q.dead = <<>> /\ q.live = o.base.n
        BY <2>2
      <3> QED
        BY <1>n, <1>h, <1>l, <1>c, <1>a, <3>1, <3>2
    <2>4. Pushed(o.base, a) = PushAdded(q, k)
      BY <1>0, <1>a, <2>1, PushedMore DEF Rebuilt, FieldsOK
    <2>5. [p EXCEPT !.dead = <<>>, !.live = p.base.n] =
             [base |-> o.base, added |-> a, lookup |-> l, collisions |-> c,
              dead |-> <<>>, live |-> o.base.n]
      <3>1. p = [base |-> p.base, added |-> p.added, lookup |-> p.lookup,
                 collisions |-> p.collisions, dead |-> p.dead, live |-> p.live]
        BY <1>1
      <3> QED
        BY <1>1, <3>1, Undone
    <2> QED
      BY <1>1, <2>3, <2>4, <2>5 DEF Rebuilt
  <1>12. \A id \in Nat : IsDead(p, id) <=> IsDead(o, id)
    BY <1>1 DEF IsDead
  <1>13. LiveIds(p) = LiveIds(o) \cup {IdSpace(o)} /\ IdSpace(o) \notin LiveIds(o)
    <2>1. ~ IsDead(o, IdSpace(o))
      BY <1>0, <1>s, DeadBits DEF Counted, FieldsOK
    <2> QED
      BY <1>3, <1>12, <1>s, <2>1 DEF LiveIds
  <1>14. Counted(p)
    <2>1. Cardinality(LiveIds(p)) = Cardinality(LiveIds(o)) + 1
      BY <1>0, <1>13, LiveFinite, FS_AddElement
    <2>2. Tombstones(p.dead) \subseteq 0 .. IdSpace(p) - 1
      BY <1>0, <1>1, <1>3, <1>s DEF Counted
    <2> QED
      BY <1>0, <1>1, <2>1, <2>2 DEF Counted
  <1> QED
    BY <1>0, <1>a, <1>1, <1>3, <1>7, <1>8, <1>10, <1>11, <1>12, <1>13, <1>14 DEF OverlayOK


\* A change of the tombstones and of the count alone.
LEMMA MarkedOK ==
    ASSUME NEW o, OverlayOK(o), NEW p,
           p = [base |-> o.base, added |-> o.added, lookup |-> o.lookup,
                collisions |-> o.collisions, dead |-> p.dead, live |-> p.live],
           p.dead \in Seq(Words), p.live \in Nat, p.live = Cardinality(LiveIds(p)),
           \A id \in Nat : IsDead(p, id) => id < IdSpace(o)
    PROVE  OverlayOK(p) /\ IdSpace(p) = IdSpace(o) /\ p.base = o.base /\ p.added = o.added
           /\ \A k \in Keys : IdIssued(p, k) = IdIssued(o, k)
  <1>0. BaseOK(o.base) /\ FieldsOK(o) /\ AddedOnce(o) /\ AddedFound(o) /\ Rebuilt(o) /\ Counted(o)
    BY DEF OverlayOK
  <1>2. /\ p.base = o.base /\ p.added = o.added /\ p.lookup = o.lookup
        /\ p.collisions = o.collisions
    OBVIOUS
  <1>3. IdSpace(p) = IdSpace(o)
    BY <1>2 DEF IdSpace
  <1>4. FieldsOK(p)
    BY <1>0, <1>2 DEF FieldsOK
  <1>6. AddedOnce(p) /\ AddedFound(p)
    <2>1. AddedOnce(p)
      BY <1>0, <1>2 DEF AddedOnce
    <2> QED
      BY <1>0, <1>2, <2>1 DEF AddedFound, AddedKey
  <1>7. Rebuilt(p)
    <2>1. [p EXCEPT !.dead = <<>>, !.live = p.base.n] = [o EXCEPT !.dead = <<>>, !.live = o.base.n]
      <3>1. p = [base |-> p.base, added |-> p.added, lookup |-> p.lookup,
                 collisions |-> p.collisions, dead |-> p.dead, live |-> p.live]
        BY <1>2
      <3> QED
        BY <1>0, <1>2, <3>1, Undone DEF FieldsOK
    <2> QED
      BY <1>0, <1>2, <2>1 DEF Rebuilt
  <1>8. Counted(p)
    <2>1. Tombstones(p.dead) \subseteq Nat /\ \A id \in Nat : IsDead(p, id) <=> id \in Tombstones(p.dead)
      BY <1>2, DeadBits
    <2>2. IdSpace(o) \in Nat
      BY <1>0, Sizes
    <2>3. Tombstones(p.dead) \subseteq 0 .. IdSpace(p) - 1
      BY <1>3, <2>1, <2>2
    <2> QED
      BY <1>2, <2>3 DEF Counted
  <1>9. \A k \in Keys : IdIssued(p, k) = IdIssued(o, k)
    BY <1>2 DEF IdIssued, AddedIndex, AddedKey
  <1> QED
    BY <1>0, <1>2, <1>3, <1>4, <1>6, <1>7, <1>8, <1>9 DEF OverlayOK

\* retire_id of an issued id that is live, and the revival of one that is not.
LEMMA RetireOK ==
    ASSUME NEW o, OverlayOK(o), NEW id \in Nat, NEW p, p = RetireId(o, id)
    PROVE  /\ OverlayOK(p) /\ IdSpace(p) = IdSpace(o) /\ p.base = o.base /\ p.added = o.added
           /\ \A k \in Keys : IdIssued(p, k) = IdIssued(o, k)
           /\ LiveIds(p) = LiveIds(o) \ {id}
  <1>0. BaseOK(o.base) /\ FieldsOK(o) /\ Counted(o) /\ IdSpace(o) \in Nat
    BY Sizes DEF OverlayOK
  <1>1. CASE id >= IdSpace(o) \/ IsDead(o, id)
    <2>1. p = o
      BY <1>1 DEF RetireId
    <2>2. id \notin LiveIds(o)
      BY <1>0, <1>1 DEF LiveIds
    <2> QED
      BY <2>1, <2>2
  <1>2. CASE ~ (id >= IdSpace(o) \/ IsDead(o, id))
    <2>1. PICK d : d = SetDead(o, id).dead
      OBVIOUS
    <2>2. d \in Seq(Words) /\ SetDead(o, id) = [o EXCEPT !.dead = d]
      BY <1>0, <2>1, DeadSet
    <2>3. p = [o EXCEPT !.dead = d, !.live = o.live - 1]
      <3>1. p = [SetDead(o, id) EXCEPT !.live = @ - 1]
        BY <1>2 DEF RetireId
      <3>2. [o EXCEPT !.dead = d].live = o.live
        BY <1>0 DEF FieldsOK
      <3> QED
        BY <1>0, <2>2, <3>1, <3>2 DEF FieldsOK
    <2>4. \A i \in Nat : IsDead(p, i) <=> IsDead(o, i) \/ i = id
      <3>1. p.dead = d /\ SetDead(o, id).dead = d
        BY <1>0, <2>1, <2>3 DEF FieldsOK
      <3> QED
        BY <1>0, <3>1, DeadSet DEF IsDead
    <2>5. LiveIds(p) = LiveIds(o) \ {id} /\ id \in LiveIds(o)
      <3>1. IdSpace(p) = IdSpace(o)
        BY <1>0, <2>3 DEF FieldsOK, IdSpace
      <3> QED
        BY <1>0, <1>2, <2>4, <3>1 DEF LiveIds
    <2>6. Cardinality(LiveIds(p)) = o.live - 1 /\ Cardinality(LiveIds(p)) \in Nat
      BY <1>0, <2>5, LiveFinite, FS_RemoveElement, FS_CardinalityType DEF Counted
    <2>7. \A i \in Nat : IsDead(p, i) => i < IdSpace(o)
      <3>1. \A i \in Nat : IsDead(o, i) => i < IdSpace(o)
        BY <1>0, DeadBits DEF Counted, FieldsOK
      <3> QED
        BY <1>0, <1>2, <2>4, <3>1
    <2>8. p.dead = d /\ p.live = Cardinality(LiveIds(p)) /\ p.live \in Nat
      BY <1>0, <2>3, <2>6 DEF FieldsOK
    <2>9. p = [base |-> o.base, added |-> o.added, lookup |-> o.lookup,
               collisions |-> o.collisions, dead |-> p.dead, live |-> p.live]
      BY <1>0, <2>3 DEF FieldsOK
    <2>10. /\ OverlayOK(p) /\ IdSpace(p) = IdSpace(o) /\ p.base = o.base /\ p.added = o.added
           /\ \A k \in Keys : IdIssued(p, k) = IdIssued(o, k)
      BY <2>2, <2>7, <2>8, <2>9, MarkedOK
    <2> QED
      BY <2>5, <2>10
  <1> QED
    BY <1>1, <1>2

LEMMA ReviveOK ==
    ASSUME NEW o, OverlayOK(o), NEW id \in 0 .. IdSpace(o) - 1, NEW p, p = Revive(o, id)
    PROVE  /\ OverlayOK(p) /\ IdSpace(p) = IdSpace(o) /\ p.base = o.base /\ p.added = o.added
           /\ \A k \in Keys : IdIssued(p, k) = IdIssued(o, k)
           /\ LiveIds(p) = LiveIds(o) \cup {id}
  <1>0. BaseOK(o.base) /\ FieldsOK(o) /\ Counted(o) /\ IdSpace(o) \in Nat /\ id \in Nat
    BY Sizes DEF OverlayOK
  <1>1. CASE ~ IsDead(o, id)
    <2>1. p = o
      BY <1>1 DEF Revive
    <2>2. id \in LiveIds(o)
      BY <1>0, <1>1 DEF LiveIds
    <2> QED
      BY <2>1, <2>2
  <1>2. CASE IsDead(o, id)
    <2>1. PICK d : d = ClearDead(o, id).dead
      OBVIOUS
    <2>2. d \in Seq(Words) /\ ClearDead(o, id) = [o EXCEPT !.dead = d]
      BY <1>0, <2>1, DeadCleared
    <2>3. p = [o EXCEPT !.dead = d, !.live = o.live + 1]
      <3>1. p = [ClearDead(o, id) EXCEPT !.live = @ + 1]
        BY <1>2 DEF Revive
      <3>2. [o EXCEPT !.dead = d].live = o.live
        BY <1>0 DEF FieldsOK
      <3> QED
        BY <1>0, <2>2, <3>1, <3>2 DEF FieldsOK
    <2>4. \A i \in Nat : IsDead(p, i) <=> IsDead(o, i) /\ i # id
      <3>1. p.dead = d /\ ClearDead(o, id).dead = d
        BY <1>0, <2>1, <2>3 DEF FieldsOK
      <3> QED
        BY <1>0, <3>1, DeadCleared DEF IsDead
    <2>5. LiveIds(p) = LiveIds(o) \cup {id} /\ id \notin LiveIds(o)
      <3>1. IdSpace(p) = IdSpace(o)
        BY <1>0, <2>3 DEF FieldsOK, IdSpace
      <3> QED
        BY <1>0, <1>2, <2>4, <3>1 DEF LiveIds
    <2>6. Cardinality(LiveIds(p)) = o.live + 1 /\ o.live + 1 \in Nat
      <3>1. o.live = Cardinality(LiveIds(o)) /\ o.live \in Nat
        BY <1>0 DEF Counted, FieldsOK
      <3>2. IsFiniteSet(LiveIds(o))
        BY <1>0, LiveFinite
      <3>3. Cardinality(LiveIds(o) \cup {id}) = Cardinality(LiveIds(o)) + 1
        BY <2>5, <3>2, FS_AddElement
      <3> QED
        BY <2>5, <3>1, <3>3
    <2>7. \A i \in Nat : IsDead(p, i) => i < IdSpace(o)
      BY <1>0, <2>4, DeadBits DEF Counted, FieldsOK
    <2>8. p.dead = d /\ p.live = Cardinality(LiveIds(p)) /\ p.live \in Nat
      BY <1>0, <2>3, <2>6 DEF FieldsOK
    <2>9. p = [base |-> o.base, added |-> o.added, lookup |-> o.lookup,
               collisions |-> o.collisions, dead |-> p.dead, live |-> p.live]
      BY <1>0, <2>3 DEF FieldsOK
    <2>10. /\ OverlayOK(p) /\ IdSpace(p) = IdSpace(o) /\ p.base = o.base /\ p.added = o.added
           /\ \A k \in Keys : IdIssued(p, k) = IdIssued(o, k)
      BY <2>2, <2>7, <2>8, <2>9, MarkedOK
    <2> QED
      BY <2>5, <2>10
  <1> QED
    BY <1>1, <1>2

-------------------------------------------------------------------------------
(* The blob. *)

\* The tombstones are the issued ids that are not live.
LEMMA DeadCounted ==
    ASSUME NEW o, OverlayOK(o)
    PROVE  /\ Tombstones(o.dead) = (0 .. IdSpace(o) - 1) \ LiveIds(o)
           /\ IdSpace(o) - Cardinality(Tombstones(o.dead)) = o.live
  <1>1. BaseOK(o.base) /\ FieldsOK(o) /\ Counted(o)
    BY DEF OverlayOK
  <1>2. o.dead \in Seq(Words) /\ o.live = Cardinality(LiveIds(o))
        /\ Tombstones(o.dead) \subseteq 0 .. IdSpace(o) - 1
    BY <1>1 DEF FieldsOK, Counted
  <1>3. IdSpace(o) \in Nat
    BY <1>1, Sizes
  <1>4. Tombstones(o.dead) = (0 .. IdSpace(o) - 1) \ LiveIds(o)
    BY <1>2, <1>3, DeadBits DEF LiveIds
  <1>5. /\ IsFiniteSet(0 .. IdSpace(o) - 1) /\ Cardinality(0 .. IdSpace(o) - 1) = IdSpace(o)
        /\ LiveIds(o) \subseteq 0 .. IdSpace(o) - 1 /\ Cardinality(LiveIds(o)) \in Nat
    BY <1>1, LiveFinite
  <1>6. (0 .. IdSpace(o) - 1) \cap LiveIds(o) = LiveIds(o)
    BY <1>5
  <1>7. Cardinality((0 .. IdSpace(o) - 1) \ LiveIds(o)) =
          Cardinality(0 .. IdSpace(o) - 1) - Cardinality((0 .. IdSpace(o) - 1) \cap LiveIds(o))
    BY <1>5, FS_Difference
  <1>8. Cardinality(Tombstones(o.dead)) = IdSpace(o) - o.live
    BY <1>2, <1>4, <1>5, <1>6, <1>7
  <1>9. o.live \in Nat
    BY <1>2, <1>5
  <1> QED
    BY <1>3, <1>4, <1>8, <1>9

\* What the blob of an overlay is assembled into is the overlay.
LEMMA AssembleOK ==
    ASSUME NEW o, OverlayOK(o)
    PROVE  Accepts(o.base.kind, Blob(o)) /\ Assemble(Blob(o)) = o
  <1>1. BaseOK(o.base) /\ FieldsOK(o) /\ AddedOnce(o) /\ Rebuilt(o) /\ Counted(o)
    BY DEF OverlayOK
  <1>2. PICK b : b = Blob(o)
    OBVIOUS
  <1>3. b.tag = o.base.kind /\ b.base = o.base /\ b.additions = o.added /\ b.words = o.dead
    BY <1>2 DEF Blob
  <1>4. IdSpace(o) = o.base.n + Len(o.added) /\ IdSpace(o) \in Nat
    BY <1>1, Sizes
  <1>5. Accepts(o.base.kind, b)
    <2>1. \A id \in Tombstones(o.dead) : id < o.base.n + Len(o.added)
      BY <1>1, <1>4 DEF Counted
    <2> QED
      BY <1>1, <1>3, <2>1 DEF Accepts, AddedOnce
  <1>6. o = [base |-> o.base, added |-> o.added, lookup |-> o.lookup,
             collisions |-> o.collisions, dead |-> o.dead, live |-> o.live]
    BY <1>1 DEF FieldsOK
  <1>7. PICK p : p = Pushed(o.base, o.added)
    OBVIOUS
  <1>8. p = [base |-> o.base, added |-> o.added, lookup |-> o.lookup,
             collisions |-> o.collisions, dead |-> <<>>, live |-> o.base.n]
    BY <1>1, <1>6, <1>7, Undone DEF Rebuilt
  <1>9. IdSpace(p) = IdSpace(o)
    BY <1>8 DEF IdSpace
  <1>10. PICK c : c = IdSpace(p) - Cardinality(Tombstones(o.dead))
    OBVIOUS
  <1>11. c = o.live
    BY <1>9, <1>10, DeadCounted
  <1>12. Assemble(b) = [p EXCEPT !.dead = o.dead, !.live = c]
    BY <1>3, <1>7, <1>10 DEF Assemble
  <1>13. PICK q : q = [p EXCEPT !.dead = o.dead, !.live = c]
    OBVIOUS
  <1>14. q = [base |-> o.base, added |-> o.added, lookup |-> o.lookup,
              collisions |-> o.collisions, dead |-> o.dead, live |-> c]
    BY <1>8, <1>13
  <1>15. q = o
    BY <1>6, <1>11, <1>14
  <1> QED
    BY <1>2, <1>5, <1>12, <1>13, <1>15

-------------------------------------------------------------------------------
(* Ids and keys. *)

\* A map of one set onto another, and one to one: as many elements.
LEMMA OneToOne ==
    ASSUME NEW S, NEW T, IsFiniteSet(S), NEW f \in [S -> T],
           \A a, b \in S : f[a] = f[b] => a = b, \A t \in T : \E a \in S : f[a] = t
    PROVE  IsFiniteSet(T) /\ Cardinality(T) = Cardinality(S)
  <1>1. f \in Surjection(S, T)
    BY DEF Surjection
  <1>2. f \in Injection(S, T)
    BY DEF Injection, IsInjective
  <1> QED
    BY <1>1, <1>2, FS_Surjection

\* One to one between sets of one size is onto.
LEMMA OntoAll ==
    ASSUME NEW S, NEW T, IsFiniteSet(T), NEW f \in [S -> T], Cardinality(S) = Cardinality(T),
           \A a, b \in S : f[a] = f[b] => a = b
    PROVE  \A t \in T : \E a \in S : f[a] = t
  <1>1. f \in Injection(S, T)
    BY DEF Injection, IsInjective
  <1>2. f \in Surjection(S, T)
    BY <1>1, FS_Injection
  <1> QED
    BY <1>2 DEF Surjection

\* Every base over a set of keys is one, of those keys.
LEMMA BasesOK ==
    ASSUME NEW kind \in Bases, NEW S \in SUBSET Keys, NEW b \in BasesOver(kind, S)
    PROVE  /\ BaseOK(b) /\ b.kind = kind /\ b.n = Cardinality(S)
           /\ \A i \in 0 .. b.n - 1 : b.key[i] \in S
           /\ \A k \in S : \E i \in 0 .. b.n - 1 : b.key[i] = k
  <1>1. IsFiniteSet(S) /\ Cardinality(S) \in Nat
    BY KeysAssumption, FS_Subset, FS_CardinalityType
  <1>2. PICK n \in Nat : n = Cardinality(S)
    BY <1>1
  <1>3. PICK f \in KeyTables(kind, S) :
            b \in {[kind |-> kind, n |-> Cardinality(S), key |-> f, id |-> g] : g \in IdTables(kind, f)}
    BY DEF BasesOver
  <1>4. PICK g \in IdTables(kind, f) : b = [kind |-> kind, n |-> Cardinality(S), key |-> f, id |-> g]
    BY <1>3
  <1>5. f \in Numberings(S) /\ (kind = "string" => Ascending(f))
    BY DEF KeyTables
  <1>6. f \in [0 .. n - 1 -> S] /\ \A i, j \in 0 .. n - 1 : f[i] = f[j] => i = j
    BY <1>2, <1>5 DEF Numberings
  <1>7. b.kind = kind /\ b.n = n /\ b.key = f /\ b.id = g
    BY <1>2, <1>4
  <1>8. /\ g \in [Keys -> (0 .. n - 1) \cup {None}]
        /\ \A i \in 0 .. n - 1 : g[f[i]] = i
        /\ Exact(kind) => \A k \in Keys : g[k] # None => f[g[k]] = k
    BY <1>6 DEF IdTables
  <1>9. BaseOK(b)
    BY <1>5, <1>6, <1>7, <1>8 DEF BaseOK
  <1>10. Cardinality(0 .. n - 1) = Cardinality(S)
    BY <1>2, FS_Interval
  <1>11. \A k \in S : \E i \in 0 .. n - 1 : f[i] = k
    BY <1>1, <1>6, <1>10, OntoAll
  <1> QED
    BY <1>2, <1>6, <1>7, <1>9, <1>11

\* Over a base with exact membership, id and key are inverse on the live ids.
LEMMA Inverses ==
    ASSUME NEW o, OverlayOK(o), Exact(o.base.kind)
    PROVE  /\ \A k \in Keys : Id(o, k) # None => Id(o, k) \in LiveIds(o) /\ Key(o, Id(o, k)) = k
           /\ \A id \in LiveIds(o) : Key(o, id) \in Keys /\ Id(o, Key(o, id)) = id
           /\ \A id \in Nat \ LiveIds(o) : Key(o, id) = None
  <1>1. BaseOK(o.base) /\ FieldsOK(o)
    BY DEF OverlayOK
  <1>2. o.base.n \in Nat /\ Len(o.added) \in Nat /\ IdSpace(o) = o.base.n + Len(o.added)
        /\ None \notin Nat /\ None \notin Keys
    BY <1>1, Sizes
  <1>3. /\ \A i \in 0 .. o.base.n - 1 : o.base.key[i] \in Keys /\ o.base.id[o.base.key[i]] = i
        /\ \A k \in Keys : o.base.id[k] # None => o.base.key[o.base.id[k]] = k
    BY <1>1 DEF BaseOK
  <1>4. ASSUME NEW k \in Keys, Id(o, k) # None
        PROVE  Id(o, k) \in LiveIds(o) /\ Key(o, Id(o, k)) = k
    <2>1. PICK id : id = IdIssued(o, k)
      OBVIOUS
    <2>2. Id(o, k) = id /\ id # None /\ ~ IsDead(o, id)
      BY <1>4, <2>1 DEF Id
    <2>3. id \in 0 .. IdSpace(o) - 1
      BY <2>1, <2>2, IssuedIds
    <2>4. Key(o, id) = k
      <3>1. CASE o.base.id[k] = id /\ id \in 0 .. o.base.n - 1
        BY <1>2, <1>3, <2>2, <2>3, <3>1 DEF Key
      <3>2. CASE \E i \in 0 .. Len(o.added) - 1 : id = o.base.n + i /\ AddedKey(o, i) = k
        <4>1. PICK i \in 0 .. Len(o.added) - 1 : id = o.base.n + i /\ AddedKey(o, i) = k
          BY <3>2
        <4>2. id - o.base.n = i /\ ~ (id < o.base.n)
          BY <1>2, <4>1
        <4> QED
          BY <1>2, <2>2, <2>3, <4>1, <4>2 DEF Key
      <3> QED
        BY <2>1, <2>2, <3>1, <3>2, IssuedIds
    <2> QED
      BY <2>2, <2>3, <2>4 DEF LiveIds
  <1>5. ASSUME NEW id \in LiveIds(o)
        PROVE  Key(o, id) \in Keys /\ Id(o, Key(o, id)) = id
    <2>1. id \in 0 .. IdSpace(o) - 1 /\ ~ IsDead(o, id)
      BY DEF LiveIds
    <2>2. CASE id < o.base.n
      <3>1. Key(o, id) = o.base.key[id] /\ id \in 0 .. o.base.n - 1
        BY <1>2, <2>1, <2>2 DEF Key
      <3>2. IdIssued(o, Key(o, id)) = id
        BY <1>2, <1>3, <3>1 DEF IdIssued
      <3> QED
        BY <1>2, <1>3, <2>1, <3>1, <3>2 DEF Id
    <2>3. CASE ~ (id < o.base.n)
      <3>1. PICK i \in 0 .. Len(o.added) - 1 : id = o.base.n + i /\ i = id - o.base.n
        <4>1. id - o.base.n \in 0 .. Len(o.added) - 1 /\ id = o.base.n + (id - o.base.n)
          BY <1>2, <2>1, <2>3
        <4> QED
          BY <4>1
      <3>2. Key(o, id) = AddedKey(o, i)
        BY <1>2, <2>1, <2>3, <3>1 DEF Key
      <3>3. AddedKey(o, i) \in Keys /\ IdIssued(o, AddedKey(o, i)) = id
        BY <1>1, <3>1, Sizes, IssuedIds
      <3> QED
        BY <1>2, <2>1, <3>2, <3>3 DEF Id
    <2> QED
      BY <2>2, <2>3
  <1>6. \A id \in Nat \ LiveIds(o) : Key(o, id) = None
    BY <1>2 DEF LiveIds, Key
  <1> QED
    BY <1>4, <1>5, <1>6

\* The live keys are those with an id, as many as the live ids.
LEMMA LiveKeysAre ==
    ASSUME NEW o, OverlayOK(o), Exact(o.base.kind)
    PROVE  /\ LiveKeys(o) = {Key(o, id) : id \in LiveIds(o)}
           /\ LiveKeys(o) = {k \in Keys : Id(o, k) # None}
           /\ Cardinality(LiveKeys(o)) = o.live
  <1>1. BaseOK(o.base) /\ FieldsOK(o) /\ Counted(o)
    BY DEF OverlayOK
  <1>2. None \notin Keys /\ None \notin Nat /\ LiveIds(o) \subseteq 0 .. IdSpace(o) - 1
        /\ IsFiniteSet(LiveIds(o)) /\ IdSpace(o) \in Nat
    BY <1>1, Sizes, LiveFinite
  <1>3. /\ \A k \in Keys : Id(o, k) # None => Id(o, k) \in LiveIds(o) /\ Key(o, Id(o, k)) = k
        /\ \A id \in LiveIds(o) : Key(o, id) \in Keys /\ Id(o, Key(o, id)) = id
        /\ \A id \in Nat \ LiveIds(o) : Key(o, id) = None
    BY Inverses
  <1>4. LiveKeys(o) = {Key(o, id) : id \in LiveIds(o)}
    BY <1>2, <1>3 DEF LiveKeys
  <1>5. LiveKeys(o) = {k \in Keys : Id(o, k) # None}
    BY <1>2, <1>3, <1>4
  <1>6. PICK f : f = [id \in LiveIds(o) |-> Key(o, id)]
    OBVIOUS
  <1>7. f \in [LiveIds(o) -> LiveKeys(o)]
    BY <1>4, <1>6
  <1>8. \A a, b \in LiveIds(o) : f[a] = f[b] => a = b
    BY <1>3, <1>6
  <1>9. \A k \in LiveKeys(o) : \E a \in LiveIds(o) : f[a] = k
    BY <1>4, <1>6
  <1>10. Cardinality(LiveKeys(o)) = Cardinality(LiveIds(o))
    BY <1>2, <1>7, <1>8, <1>9, OneToOne
  <1> QED
    BY <1>1, <1>4, <1>5, <1>10 DEF Counted

-------------------------------------------------------------------------------
(* The stream of a compaction. *)

\* s holds the keys at these ids, each once and by id.
ByIds(o, s, ids) ==
    /\ s \in Seq(Keys)
    /\ \A i \in 1 .. Len(s) : Id(o, s[i]) \in ids
    /\ \A i, j \in 1 .. Len(s) : i < j => Id(o, s[i]) < Id(o, s[j])
    /\ \A id \in ids : \E i \in 1 .. Len(s) : s[i] = Key(o, id)

\* The live ids from `first' up to `m'.
IdsBetween(o, first, m) == {id \in LiveIds(o) : first <= id /\ id < m}

\* f is what is streamed up to each id.
Streams(o, first, m, f) ==
    f = [id \in first .. m |->
            IF id = first THEN <<>>
            ELSE IF IsDead(o, id - 1) THEN f[id - 1]
            ELSE Append(f[id - 1], Key(o, id - 1))]

LEMMA StreamsExist ==
    ASSUME NEW o, NEW first \in Nat, NEW next \in Nat, first <= next
    PROVE  \E f : Streams(o, first, next, f) /\ LiveBetween(o, first, next) = f[next]
  <1> DEFINE S == {m \in Nat : \E f : Streams(o, first, first + m, f)}
  <1>1. 0 \in S
    <2>1. PICK f : f = [id \in first .. first |-> <<>>]
      OBVIOUS
    <2>2. Streams(o, first, first + 0, f)
      BY <2>1 DEF Streams
    <2> QED
      BY <2>2
  <1>2. ASSUME NEW m \in Nat, m \in S
        PROVE  m + 1 \in S
    <2>1. PICK f : Streams(o, first, first + m, f)
      BY <1>2
    <2>2. PICK e : e = IF IsDead(o, first + m) THEN f[first + m]
                       ELSE Append(f[first + m], Key(o, first + m))
      OBVIOUS
    <2>3. PICK g : g = [id \in first .. first + (m + 1) |-> IF id = first + m + 1 THEN e ELSE f[id]]
      OBVIOUS
    <2>4. \A id \in first .. first + (m + 1) :
              g[id] = IF id = first THEN <<>>
                      ELSE IF IsDead(o, id - 1) THEN g[id - 1]
                      ELSE Append(g[id - 1], Key(o, id - 1))
      <3> TAKE id \in first .. first + (m + 1)
      <3>1. CASE id = first + m + 1
        <4>1. id - 1 = first + m /\ first + m \in first .. first + (m + 1) /\ id # first
              /\ first + m # first + m + 1
          BY <3>1
        <4>2. g[id] = e /\ g[id - 1] = f[first + m]
          BY <2>3, <3>1, <4>1
        <4> QED
          BY <2>2, <4>1, <4>2
      <3>2. CASE id \in first .. first + m
        <4>1. f[id] = IF id = first THEN <<>>
                      ELSE IF IsDead(o, id - 1) THEN f[id - 1]
                      ELSE Append(f[id - 1], Key(o, id - 1))
          BY <2>1, <3>2 DEF Streams
        <4>2. g[id] = f[id] /\ (id # first => g[id - 1] = f[id - 1])
          BY <2>3, <3>2
        <4> QED
          BY <4>1, <4>2
      <3> QED
        BY <3>1, <3>2
    <2>5. Streams(o, first, first + (m + 1), g)
      <3>1. g = [id \in first .. first + (m + 1) |-> g[id]]
        BY <2>3
      <3> QED
        BY <2>4, <3>1 DEF Streams
    <2> QED
      BY <2>5
  <1>3. Nat \subseteq S
    <2> HIDE DEF S
    <2> QED
      BY <1>1, <1>2, Counting
  <1>4. next - first \in S
    BY <1>3
  <1>5. \E f : Streams(o, first, next, f)
    BY <1>4
  <1> QED
    BY <1>5 DEF LiveBetween, Streams

\* One more key, at an id past the others.
LEMMA OneMoreId ==
    ASSUME NEW o, OverlayOK(o), Exact(o.base.kind), NEW ids \in SUBSET Nat, NEW s, ByIds(o, s, ids),
           NEW id \in LiveIds(o), \A x \in ids : x < id
    PROVE  ByIds(o, Append(s, Key(o, id)), ids \cup {id})
  <1>1. Key(o, id) \in Keys /\ Id(o, Key(o, id)) = id
    BY Inverses
  <1>2. PICK k \in Keys : k = Key(o, id) /\ Id(o, k) = id
    BY <1>1
  <1>3. PICK t : t = Append(s, k)
    OBVIOUS
  <1>4. /\ s \in Seq(Keys) /\ Len(s) \in Nat
        /\ \A i \in 1 .. Len(s) : Id(o, s[i]) \in ids
        /\ \A i, j \in 1 .. Len(s) : i < j => Id(o, s[i]) < Id(o, s[j])
        /\ \A x \in ids : \E i \in 1 .. Len(s) : s[i] = Key(o, x)
    BY LenProperties DEF ByIds
  <1>5. /\ t \in Seq(Keys) /\ Len(t) = Len(s) + 1
        /\ \A i \in 1 .. Len(s) : t[i] = s[i]
        /\ t[Len(s) + 1] = k
    BY <1>3, <1>4, AppendProperties
  <1>6. \A i \in 1 .. Len(t) : Id(o, t[i]) \in ids \cup {id}
    BY <1>2, <1>4, <1>5
  <1>7. ASSUME NEW i \in 1 .. Len(t), NEW j \in 1 .. Len(t), i < j
        PROVE  Id(o, t[i]) < Id(o, t[j])
    <2>1. i \in 1 .. Len(s) /\ t[i] = s[i]
      BY <1>4, <1>5, <1>7
    <2>2. CASE j \in 1 .. Len(s)
      BY <1>4, <1>5, <1>7, <2>1, <2>2
    <2>3. CASE j = Len(s) + 1
      BY <1>2, <1>4, <1>5, <2>1, <2>3
    <2> QED
      BY <1>4, <1>5, <2>2, <2>3
  <1>8. ASSUME NEW x \in ids \cup {id}
        PROVE  \E i \in 1 .. Len(t) : t[i] = Key(o, x)
    <2>1. CASE x = id
      BY <1>2, <1>4, <1>5, <2>1
    <2>2. CASE x \in ids
      <3>1. PICK i \in 1 .. Len(s) : s[i] = Key(o, x)
        BY <1>4, <2>2
      <3> QED
        BY <1>4, <1>5, <3>1
    <2> QED
      BY <2>1, <2>2
  <1>9. ByIds(o, t, ids \cup {id})
    BY <1>5, <1>6, <1>7, <1>8 DEF ByIds
  <1> QED
    BY <1>2, <1>3, <1>9

\* LiveBetween is the live keys of the range, each once and by id.
LEMMA BetweenOK ==
    ASSUME NEW o, OverlayOK(o), Exact(o.base.kind),
           NEW first \in Nat, NEW next \in Nat, first <= next, next <= IdSpace(o)
    PROVE  ByIds(o, LiveBetween(o, first, next), IdsBetween(o, first, next))
  <1>1. PICK f : Streams(o, first, next, f) /\ LiveBetween(o, first, next) = f[next]
    BY StreamsExist
  <1>2. IdSpace(o) \in Nat /\ LiveIds(o) \subseteq Nat
    <2>1. BaseOK(o.base) /\ FieldsOK(o)
      BY DEF OverlayOK
    <2> QED
      BY <2>1, Sizes DEF LiveIds
  <1> DEFINE S == {m \in Nat : first + m <= next => ByIds(o, f[first + m], IdsBetween(o, first, first + m))}
  <1>3. 0 \in S
    <2>1. f[first + 0] = <<>>
      BY <1>1 DEF Streams
    <2>2. IdsBetween(o, first, first + 0) = {}
      BY <1>2 DEF IdsBetween
    <2>3. <<>> \in Seq(Keys) /\ Len(<<>>) = 0 /\ 1 .. Len(<<>>) = {}
      BY EmptySeq
    <2>4. ByIds(o, <<>>, {})
      BY <2>3 DEF ByIds
    <2> QED
      BY <2>1, <2>2, <2>4
  <1>4. ASSUME NEW m \in Nat, m \in S
        PROVE  m + 1 \in S
    <2> SUFFICES ASSUME first + (m + 1) <= next
                 PROVE  ByIds(o, f[first + (m + 1)], IdsBetween(o, first, first + (m + 1)))
      OBVIOUS
    <2>1. PICK id \in Nat : id = first + m
      OBVIOUS
    <2>2. id + 1 \in first .. next /\ id + 1 # first /\ (id + 1) - 1 = id /\ id < IdSpace(o)
          /\ first + (m + 1) = id + 1
      BY <1>2, <2>1
    <2>3. ByIds(o, f[id], IdsBetween(o, first, id))
      BY <1>4, <2>1
    <2>4. f[id + 1] = IF IsDead(o, id) THEN f[id] ELSE Append(f[id], Key(o, id))
      BY <1>1, <2>2 DEF Streams
    <2>5. CASE IsDead(o, id)
      <3>1. IdsBetween(o, first, id + 1) = IdsBetween(o, first, id)
        BY <1>2, <2>5 DEF IdsBetween, LiveIds
      <3> QED
        BY <2>2, <2>3, <2>4, <2>5, <3>1
    <2>6. CASE ~ IsDead(o, id)
      <3>1. id \in LiveIds(o)
        BY <1>2, <2>2, <2>6 DEF LiveIds
      <3>2. IdsBetween(o, first, id + 1) = IdsBetween(o, first, id) \cup {id}
        BY <1>2, <2>1, <3>1 DEF IdsBetween
      <3>3. IdsBetween(o, first, id) \in SUBSET Nat /\ \A x \in IdsBetween(o, first, id) : x < id
        BY <1>2 DEF IdsBetween
      <3>4. ByIds(o, Append(f[id], Key(o, id)), IdsBetween(o, first, id) \cup {id})
        BY <2>3, <3>1, <3>3, OneMoreId
      <3> QED
        BY <2>2, <2>4, <2>6, <3>2, <3>4
    <2> QED
      BY <2>5, <2>6
  <1>5. Nat \subseteq S
    <2> HIDE DEF S
    <2> QED
      BY <1>3, <1>4, Counting
  <1>6. next - first \in S /\ first + (next - first) = next
    BY <1>5
  <1> QED
    BY <1>1, <1>6

\* A finite set of keys can be put in order.
LEMMA CanBeSorted ==
    ASSUME NEW T \in SUBSET Keys, NEW n \in Nat, Cardinality(T) = n
    PROVE  \E t \in [1 .. n -> T] : Ascending(t)
  <1> DEFINE S == {m \in Nat : \A U \in SUBSET Keys :
                        Cardinality(U) = m => \E t \in [1 .. m -> U] : Ascending(t)}
  <1>1. 0 \in S
    <2> SUFFICES ASSUME NEW U \in SUBSET Keys
                 PROVE  \E t \in [1 .. 0 -> U] : Ascending(t)
      OBVIOUS
    <2>1. PICK t : t = [i \in 1 .. 0 |-> CHOOSE u \in U : TRUE]
      OBVIOUS
    <2>2. t \in [1 .. 0 -> U] /\ Ascending(t)
      BY <2>1 DEF Ascending
    <2> QED
      BY <2>2
  <1>2. ASSUME NEW m \in Nat, m \in S
        PROVE  m + 1 \in S
    <2> SUFFICES ASSUME NEW U \in SUBSET Keys, Cardinality(U) = m + 1
                 PROVE  \E t \in [1 .. m + 1 -> U] : Ascending(t)
      OBVIOUS
    <2>1. IsFiniteSet(U) /\ U \subseteq Nat
      BY KeysAssumption, FS_Subset
    <2>2. U # {}
      BY <2>1, FS_EmptySet
    <2>3. PICK x \in U : \A y \in U : x <= y
      BY <2>1, <2>2, LeastOf
    <2>4. Cardinality(U \ {x}) = m /\ U \ {x} \in SUBSET Keys
      <3>1. Cardinality(U \ {x}) = Cardinality(U) - 1
        BY <2>1, <2>3, FS_RemoveElement
      <3> QED
        BY <3>1
    <2>5. PICK r \in [1 .. m -> U \ {x}] : Ascending(r)
      BY <1>2, <2>4
    <2>6. PICK t : t = [i \in 1 .. m + 1 |-> IF i = 1 THEN x ELSE r[i - 1]]
      OBVIOUS
    <2>7. t \in [1 .. m + 1 -> U]
      <3>1. \A i \in 1 .. m + 1 : i # 1 => i - 1 \in 1 .. m
        OBVIOUS
      <3> QED
        BY <2>3, <2>5, <2>6, <3>1
    <2>8. Ascending(t)
      <3> SUFFICES ASSUME NEW i \in 1 .. m + 1, NEW j \in 1 .. m + 1, i < j
                   PROVE  t[i] < t[j]
        BY <2>6 DEF Ascending
      <3>1. j - 1 \in 1 .. m /\ t[j] = r[j - 1] /\ r[j - 1] \in U /\ r[j - 1] # x
        <4>1. j # 1 /\ j - 1 \in 1 .. m
          OBVIOUS
        <4>2. t[j] = r[j - 1]
          BY <2>6, <4>1
        <4>3. r[j - 1] \in U \ {x}
          BY <2>5, <4>1
        <4> QED
          BY <4>1, <4>2, <4>3
      <3>2. CASE i = 1
        <4>1. t[i] = x /\ x <= r[j - 1] /\ x \in Nat /\ r[j - 1] \in Nat
          BY <2>1, <2>3, <2>6, <3>1, <3>2
        <4> QED
          BY <3>1, <4>1
      <3>3. CASE i # 1
        <4>1. i - 1 \in 1 .. m /\ t[i] = r[i - 1] /\ i - 1 < j - 1
          BY <2>6, <3>3
        <4> QED
          BY <2>5, <3>1, <4>1 DEF Ascending
      <3> QED
        BY <3>2, <3>3
    <2> QED
      BY <2>7, <2>8
  <1>3. Nat \subseteq S
    <2> HIDE DEF S
    <2> QED
      BY <1>1, <1>2, Counting
  <1> QED
    BY <1>3

\* Sorted has the keys of a sequence that holds none twice, in order.
LEMMA SortedOK ==
    ASSUME NEW s \in Seq(Keys), \A i, j \in 1 .. Len(s) : s[i] = s[j] => i = j
    PROVE  /\ Sorted(s) \in Seq(Keys) /\ Len(Sorted(s)) = Len(s)
           /\ Ascending(Sorted(s))
           /\ \A i \in 1 .. Len(s) : \E j \in 1 .. Len(s) : Sorted(s)[i] = s[j]
           /\ \A i \in 1 .. Len(s) : \E j \in 1 .. Len(s) : Sorted(s)[j] = s[i]
  <1>1. Len(s) \in Nat /\ DOMAIN s = 1 .. Len(s) /\ s \in [1 .. Len(s) -> Keys]
    BY LenProperties
  <1>2. Range(s) \in SUBSET Keys /\ s \in [1 .. Len(s) -> Range(s)]
        /\ \A k \in Range(s) : \E i \in 1 .. Len(s) : s[i] = k
    BY <1>1 DEF Range
  <1>3. IsFiniteSet(1 .. Len(s)) /\ Cardinality(1 .. Len(s)) = Len(s)
    BY <1>1, FS_Interval
  <1>4. IsFiniteSet(Range(s)) /\ Cardinality(Range(s)) = Len(s)
    BY <1>2, <1>3, OneToOne
  <1>5. \E t \in [DOMAIN s -> Range(s)] : Ascending(t)
    BY <1>1, <1>2, <1>4, CanBeSorted
  <1>6. PICK t : t = Sorted(s)
    OBVIOUS
  <1>7. t \in [1 .. Len(s) -> Range(s)] /\ Ascending(t)
    BY <1>1, <1>5, <1>6 DEF Sorted
  <1>8. t \in Seq(Keys) /\ Len(t) = Len(s)
    BY <1>1, <1>2, <1>7
  <1>9. \A i, j \in 1 .. Len(s) : t[i] = t[j] => i = j
    <2> SUFFICES ASSUME NEW i \in 1 .. Len(s), NEW j \in 1 .. Len(s), i < j
                 PROVE  t[i] # t[j]
      BY <1>1
    <2>1. t[i] < t[j] /\ t[i] \in Nat /\ t[j] \in Nat
      BY <1>2, <1>7, KeysAssumption DEF Ascending
    <2> QED
      BY <2>1
  <1>10. \A k \in Range(s) : \E j \in 1 .. Len(s) : t[j] = k
    <2>1. Cardinality(1 .. Len(s)) = Cardinality(Range(s))
      BY <1>3, <1>4
    <2>2. IsFiniteSet(Range(s)) /\ t \in [1 .. Len(s) -> Range(s)]
      BY <1>4, <1>7
    <2> QED
      <3>1. PICK D : D = 1 .. Len(s)
        OBVIOUS
      <3>2. PICK R : R = Range(s)
        OBVIOUS
      <3>3. /\ IsFiniteSet(R) /\ t \in [D -> R] /\ Cardinality(D) = Cardinality(R)
            /\ \A i, j \in D : t[i] = t[j] => i = j
        BY <1>9, <2>1, <2>2, <3>1, <3>2
      <3>4. \A k \in R : \E j \in D : t[j] = k
        BY <3>3, OntoAll
      <3> QED
        BY <3>1, <3>2, <3>4
  <1>11. \A i \in 1 .. Len(s) : s[i] \in Range(s) /\ t[i] \in Range(s)
    BY <1>2, <1>7
  <1> QED
    BY <1>2, <1>6, <1>7, <1>8, <1>10, <1>11

\* w is the loop of the merge once it has taken from a and b this far: what it has written is in
\* order, holds what it has taken and nothing else, and is below what is left of either.
Merging(a, b, n, w) ==
    /\ w.i \in 0 .. Len(a) /\ w.j \in 0 .. Len(b) /\ w.i + w.j = n
    /\ w.out \in Seq(Keys) /\ Len(w.out) = n
    /\ \A p, q \in 1 .. n : p < q => w.out[p] < w.out[q]
    /\ \A p \in 1 .. n : \A q \in 1 .. Len(a) : w.i < q => w.out[p] < a[q]
    /\ \A p \in 1 .. n : \A q \in 1 .. Len(b) : w.j < q => w.out[p] < b[q]
    /\ \A p \in 1 .. n : \/ \E q \in 1 .. Len(a) : w.out[p] = a[q]
                         \/ \E q \in 1 .. Len(b) : w.out[p] = b[q]
    /\ \A q \in 1 .. Len(a) : q <= w.i => \E p \in 1 .. n : w.out[p] = a[q]
    /\ \A q \in 1 .. Len(b) : q <= w.j => \E p \in 1 .. n : w.out[p] = b[q]

\* Two sorted sequences of keys, none in both.
Mergeable(a, b) ==
    /\ a \in Seq(Keys) /\ b \in Seq(Keys) /\ Ascending(a) /\ Ascending(b)
    /\ \A p \in 1 .. Len(a), q \in 1 .. Len(b) : a[p] # b[q]

\* The step of the merge that takes a's head; the other one is the same with a and b swapped.
TakesFirst(a, b, w) == w.i < Len(a) /\ (w.j = Len(b) \/ a[w.i + 1] <= b[w.j + 1])

Merged(a, b, w) ==
    IF TakesFirst(a, b, w)
    THEN [i |-> w.i + 1, j |-> w.j, out |-> Append(w.out, a[w.i + 1])]
    ELSE [i |-> w.i, j |-> w.j + 1, out |-> Append(w.out, b[w.j + 1])]

LEMMA MergesOn ==
    ASSUME NEW a, NEW b, Mergeable(a, b), NEW n \in Nat, n < Len(a) + Len(b),
           NEW w, Merging(a, b, n, w)
    PROVE  Merging(a, b, n + 1, Merged(a, b, w))
  <1>1. /\ a \in Seq(Keys) /\ b \in Seq(Keys) /\ Len(a) \in Nat /\ Len(b) \in Nat
        /\ DOMAIN a = 1 .. Len(a) /\ DOMAIN b = 1 .. Len(b)
        /\ \A p \in 1 .. Len(a) : a[p] \in Keys /\ a[p] \in Nat
        /\ \A p \in 1 .. Len(b) : b[p] \in Keys /\ b[p] \in Nat
    BY KeysAssumption, LenProperties DEF Mergeable
  <1>2. /\ \A p, q \in 1 .. Len(a) : p < q => a[p] < a[q]
        /\ \A p, q \in 1 .. Len(b) : p < q => b[p] < b[q]
        /\ \A p \in 1 .. Len(a), q \in 1 .. Len(b) : a[p] # b[q]
    BY <1>1 DEF Mergeable, Ascending
  <1>3. /\ w.i \in 0 .. Len(a) /\ w.j \in 0 .. Len(b) /\ w.i + w.j = n
        /\ w.out \in Seq(Keys) /\ Len(w.out) = n
        /\ \A p, q \in 1 .. n : p < q => w.out[p] < w.out[q]
        /\ \A p \in 1 .. n : \A q \in 1 .. Len(a) : w.i < q => w.out[p] < a[q]
        /\ \A p \in 1 .. n : \A q \in 1 .. Len(b) : w.j < q => w.out[p] < b[q]
        /\ \A p \in 1 .. n : \/ \E q \in 1 .. Len(a) : w.out[p] = a[q]
                             \/ \E q \in 1 .. Len(b) : w.out[p] = b[q]
        /\ \A q \in 1 .. Len(a) : q <= w.i => \E p \in 1 .. n : w.out[p] = a[q]
        /\ \A q \in 1 .. Len(b) : q <= w.j => \E p \in 1 .. n : w.out[p] = b[q]
    BY DEF Merging
  <1>4. CASE TakesFirst(a, b, w)
    <2>1. w.i + 1 \in 1 .. Len(a) /\ (w.j = Len(b) \/ a[w.i + 1] <= b[w.j + 1])
      <3>1. w.i < Len(a) /\ (w.j = Len(b) \/ a[w.i + 1] <= b[w.j + 1])
        BY <1>4 DEF TakesFirst
      <3>2. w.i \in Nat /\ Len(a) \in Nat
        BY <1>1, <1>3
      <3> QED
        BY <3>1, <3>2
    <2>2. PICK k \in Keys : k = a[w.i + 1] /\ k \in Nat
      BY <1>1, <2>1
    <2>3. PICK t : t = Append(w.out, k)
      OBVIOUS
    <2>4. /\ t \in Seq(Keys) /\ Len(t) = n + 1
          /\ \A p \in 1 .. n : t[p] = w.out[p]
          /\ t[n + 1] = k
      BY <1>3, <2>3, AppendProperties
    <2>5. PICK v : v = Merged(a, b, w)
      OBVIOUS
    <2>6. v.i = w.i + 1 /\ v.j = w.j /\ v.out = t
      BY <1>4, <2>2, <2>3, <2>5 DEF Merged
    <2>7. v.i \in 0 .. Len(a) /\ v.j \in 0 .. Len(b) /\ v.i + v.j = n + 1
      BY <1>3, <2>1, <2>6
    <2>8. \A p \in 1 .. n : w.out[p] < k
      <3>1. w.i < w.i + 1
        BY <1>3
      <3> QED
        BY <1>3, <2>1, <2>2, <3>1
    <2>9. \A p, q \in 1 .. n + 1 : p < q => t[p] < t[q]
      <3> SUFFICES ASSUME NEW p \in 1 .. n + 1, NEW q \in 1 .. n + 1, p < q
                   PROVE  t[p] < t[q]
        OBVIOUS
      <3>1. p \in 1 .. n /\ t[p] = w.out[p]
        BY <2>4
      <3>2. CASE q = n + 1
        BY <2>4, <2>8, <3>1, <3>2
      <3>3. CASE q \in 1 .. n
        BY <1>3, <2>4, <3>1, <3>3
      <3> QED
        BY <3>2, <3>3
    <2>10. \A p \in 1 .. n + 1 : \A q \in 1 .. Len(a) : v.i < q => t[p] < a[q]
      <3> SUFFICES ASSUME NEW p \in 1 .. n + 1, NEW q \in 1 .. Len(a), w.i + 1 < q
                   PROVE  t[p] < a[q]
        BY <2>6
      <3>1. w.i < q
        BY <1>3
      <3>2. CASE p \in 1 .. n
        BY <1>3, <2>4, <3>1, <3>2
      <3>3. CASE p = n + 1
        BY <1>2, <2>1, <2>2, <2>4, <3>3
      <3> QED
        BY <3>2, <3>3
    <2>11. \A p \in 1 .. n + 1 : \A q \in 1 .. Len(b) : v.j < q => t[p] < b[q]
      <3> SUFFICES ASSUME NEW p \in 1 .. n + 1, NEW q \in 1 .. Len(b), w.j < q
                   PROVE  t[p] < b[q]
        BY <2>6
      <3>1. CASE p \in 1 .. n
        BY <1>3, <2>4, <3>1
      <3>2. CASE p = n + 1
        <4>1. w.j # Len(b) /\ w.j + 1 \in 1 .. Len(b) /\ (q = w.j + 1 \/ w.j + 1 < q)
          BY <1>1, <1>3
        <4>2. k <= b[w.j + 1] /\ k # b[w.j + 1]
          BY <1>2, <2>1, <2>2, <4>1
        <4>3. k < b[w.j + 1]
          BY <1>1, <2>2, <4>1, <4>2
        <4>4. b[w.j + 1] <= b[q]
          BY <1>1, <1>2, <4>1
        <4>5. b[w.j + 1] \in Nat /\ b[q] \in Nat
          BY <1>1, <4>1
        <4> QED
          BY <2>2, <2>4, <3>2, <4>3, <4>4, <4>5
      <3> QED
        BY <3>1, <3>2
    <2>12. \A p \in 1 .. n + 1 : \/ \E q \in 1 .. Len(a) : t[p] = a[q]
                                 \/ \E q \in 1 .. Len(b) : t[p] = b[q]
      <3> SUFFICES ASSUME NEW p \in 1 .. n + 1
                   PROVE  \/ \E q \in 1 .. Len(a) : t[p] = a[q]
                          \/ \E q \in 1 .. Len(b) : t[p] = b[q]
        OBVIOUS
      <3>1. CASE p \in 1 .. n
        <4>1. t[p] = w.out[p]
          BY <2>4, <3>1
        <4>2. (\E q \in 1 .. Len(a) : w.out[p] = a[q]) \/ (\E q \in 1 .. Len(b) : w.out[p] = b[q])
          BY <1>3, <3>1
        <4> QED
          BY <4>1, <4>2
      <3>2. CASE p = n + 1
        BY <2>1, <2>2, <2>4, <3>2
      <3> QED
        BY <3>1, <3>2
    <2>13. \A q \in 1 .. Len(a) : q <= v.i => \E p \in 1 .. n + 1 : t[p] = a[q]
      <3> SUFFICES ASSUME NEW q \in 1 .. Len(a), q <= w.i + 1
                   PROVE  \E p \in 1 .. n + 1 : t[p] = a[q]
        BY <2>6
      <3>1. CASE q <= w.i
        <4>1. PICK p \in 1 .. n : w.out[p] = a[q]
          BY <1>3, <3>1
        <4> QED
          BY <2>4, <4>1
      <3>2. CASE q = w.i + 1
        BY <2>2, <2>4, <3>2
      <3> QED
        BY <1>3, <3>1, <3>2
    <2>14. \A q \in 1 .. Len(b) : q <= v.j => \E p \in 1 .. n + 1 : t[p] = b[q]
      <3> SUFFICES ASSUME NEW q \in 1 .. Len(b), q <= w.j
                   PROVE  \E p \in 1 .. n + 1 : t[p] = b[q]
        BY <2>6
      <3>1. PICK p \in 1 .. n : w.out[p] = b[q]
        BY <1>3
      <3> QED
        BY <2>4, <3>1
    <2>15. Merging(a, b, n + 1, v)
      BY <2>4, <2>6, <2>7, <2>9, <2>10, <2>11, <2>12, <2>13, <2>14 DEF Merging
    <2> QED
      BY <2>5, <2>15
  <1>5. CASE ~ TakesFirst(a, b, w)
    <2>1. w.j + 1 \in 1 .. Len(b) /\ (w.i = Len(a) \/ b[w.j + 1] <= a[w.i + 1])
      <3>1. w.j # Len(b)
        BY <1>1, <1>3, <1>5 DEF TakesFirst
      <3>2. w.i = Len(a) \/ (w.i + 1 \in 1 .. Len(a) /\ ~ (a[w.i + 1] <= b[w.j + 1]))
        BY <1>1, <1>3, <1>5, <3>1 DEF TakesFirst
      <3>3. w.j + 1 \in 1 .. Len(b)
        BY <1>1, <1>3, <3>1
      <3> QED
        BY <1>1, <3>2, <3>3
    <2>2. PICK k \in Keys : k = b[w.j + 1] /\ k \in Nat
      BY <1>1, <2>1
    <2>3. PICK t : t = Append(w.out, k)
      OBVIOUS
    <2>4. /\ t \in Seq(Keys) /\ Len(t) = n + 1
          /\ \A p \in 1 .. n : t[p] = w.out[p]
          /\ t[n + 1] = k
      BY <1>3, <2>3, AppendProperties
    <2>5. PICK v : v = Merged(a, b, w)
      OBVIOUS
    <2>6. v.j = w.j + 1 /\ v.i = w.i /\ v.out = t
      BY <1>5, <2>2, <2>3, <2>5 DEF Merged
    <2>7. v.j \in 0 .. Len(b) /\ v.i \in 0 .. Len(a) /\ v.j + v.i = n + 1
      BY <1>3, <2>1, <2>6
    <2>8. \A p \in 1 .. n : w.out[p] < k
      <3>1. w.j < w.j + 1
        BY <1>3
      <3> QED
        BY <1>3, <2>1, <2>2, <3>1
    <2>9. \A p, q \in 1 .. n + 1 : p < q => t[p] < t[q]
      <3> SUFFICES ASSUME NEW p \in 1 .. n + 1, NEW q \in 1 .. n + 1, p < q
                   PROVE  t[p] < t[q]
        OBVIOUS
      <3>1. p \in 1 .. n /\ t[p] = w.out[p]
        BY <2>4
      <3>2. CASE q = n + 1
        BY <2>4, <2>8, <3>1, <3>2
      <3>3. CASE q \in 1 .. n
        BY <1>3, <2>4, <3>1, <3>3
      <3> QED
        BY <3>2, <3>3
    <2>10. \A p \in 1 .. n + 1 : \A q \in 1 .. Len(b) : v.j < q => t[p] < b[q]
      <3> SUFFICES ASSUME NEW p \in 1 .. n + 1, NEW q \in 1 .. Len(b), w.j + 1 < q
                   PROVE  t[p] < b[q]
        BY <2>6
      <3>1. w.j < q
        BY <1>3
      <3>2. CASE p \in 1 .. n
        BY <1>3, <2>4, <3>1, <3>2
      <3>3. CASE p = n + 1
        BY <1>2, <2>1, <2>2, <2>4, <3>3
      <3> QED
        BY <3>2, <3>3
    <2>11. \A p \in 1 .. n + 1 : \A q \in 1 .. Len(a) : v.i < q => t[p] < a[q]
      <3> SUFFICES ASSUME NEW p \in 1 .. n + 1, NEW q \in 1 .. Len(a), w.i < q
                   PROVE  t[p] < a[q]
        BY <2>6
      <3>1. CASE p \in 1 .. n
        BY <1>3, <2>4, <3>1
      <3>2. CASE p = n + 1
        <4>1. w.i # Len(a) /\ w.i + 1 \in 1 .. Len(a) /\ (q = w.i + 1 \/ w.i + 1 < q)
          <5>1. w.i < q /\ q <= Len(a)
            BY <1>1
          <5> QED
            BY <1>1, <1>3, <5>1
        <4>2. k <= a[w.i + 1] /\ k # a[w.i + 1]
          BY <1>2, <2>1, <2>2, <4>1
        <4>3. k < a[w.i + 1]
          BY <1>1, <2>2, <4>1, <4>2
        <4>4. a[w.i + 1] <= a[q]
          BY <1>1, <1>2, <4>1
        <4>5. a[w.i + 1] \in Nat /\ a[q] \in Nat
          BY <1>1, <4>1
        <4> QED
          BY <2>2, <2>4, <3>2, <4>3, <4>4, <4>5
      <3> QED
        BY <3>1, <3>2
    <2>12. \A p \in 1 .. n + 1 : \/ \E q \in 1 .. Len(b) : t[p] = b[q]
                                 \/ \E q \in 1 .. Len(a) : t[p] = a[q]
      <3> SUFFICES ASSUME NEW p \in 1 .. n + 1
                   PROVE  \/ \E q \in 1 .. Len(b) : t[p] = b[q]
                          \/ \E q \in 1 .. Len(a) : t[p] = a[q]
        OBVIOUS
      <3>1. CASE p \in 1 .. n
        <4>1. t[p] = w.out[p]
          BY <2>4, <3>1
        <4>2. (\E q \in 1 .. Len(b) : w.out[p] = b[q]) \/ (\E q \in 1 .. Len(a) : w.out[p] = a[q])
          BY <1>3, <3>1
        <4> QED
          BY <4>1, <4>2
      <3>2. CASE p = n + 1
        BY <2>1, <2>2, <2>4, <3>2
      <3> QED
        BY <3>1, <3>2
    <2>13. \A q \in 1 .. Len(b) : q <= v.j => \E p \in 1 .. n + 1 : t[p] = b[q]
      <3> SUFFICES ASSUME NEW q \in 1 .. Len(b), q <= w.j + 1
                   PROVE  \E p \in 1 .. n + 1 : t[p] = b[q]
        BY <2>6
      <3>1. CASE q <= w.j
        <4>1. PICK p \in 1 .. n : w.out[p] = b[q]
          BY <1>3, <3>1
        <4> QED
          BY <2>4, <4>1
      <3>2. CASE q = w.j + 1
        BY <2>2, <2>4, <3>2
      <3> QED
        BY <1>3, <3>1, <3>2
    <2>14. \A q \in 1 .. Len(a) : q <= v.i => \E p \in 1 .. n + 1 : t[p] = a[q]
      <3> SUFFICES ASSUME NEW q \in 1 .. Len(a), q <= w.i
                   PROVE  \E p \in 1 .. n + 1 : t[p] = a[q]
        BY <2>6
      <3>1. PICK p \in 1 .. n : w.out[p] = a[q]
        BY <1>3
      <3> QED
        BY <2>4, <3>1
    <2>15. Merging(a, b, n + 1, v)
      BY <2>4, <2>6, <2>7, <2>9, <2>10, <2>11, <2>12, <2>13, <2>14 DEF Merging
    <2> QED
      BY <2>5, <2>15
  <1> QED
    BY <1>4, <1>5

\* s, of n keys, has those of a and b in order.
MergeOf(a, b, s, n) ==
    /\ s \in Seq(Keys) /\ Len(s) = n
    /\ \A p, q \in 1 .. n : p < q => s[p] < s[q]
    /\ \A p \in 1 .. n : (\E q \in 1 .. Len(a) : s[p] = a[q]) \/ (\E q \in 1 .. Len(b) : s[p] = b[q])
    /\ \A q \in 1 .. Len(a) : \E p \in 1 .. n : s[p] = a[q]
    /\ \A q \in 1 .. Len(b) : \E p \in 1 .. n : s[p] = b[q]

\* The merge of two such sequences is their keys in order.
LEMMA MergeOK ==
    ASSUME NEW a, NEW b, Mergeable(a, b)
    PROVE  MergeOf(a, b, Merge(a, b), Len(a) + Len(b))
  <1>1. Len(a) \in Nat /\ Len(b) \in Nat
    BY LenProperties DEF Mergeable
  <1>2. PICK start : start = [i |-> 0, j |-> 0, out |-> <<>>]
    OBVIOUS
  <1>3. PICK f : /\ f = [n \in 0 .. Len(a) + Len(b) |-> IF n = 0 THEN start ELSE Merged(a, b, f[n - 1])]
                 /\ Merge(a, b) = f[Len(a) + Len(b)].out
    <2> DEFINE To(m, f) == f = [n \in 0 .. m |-> IF n = 0 THEN start ELSE Merged(a, b, f[n - 1])]
               S == {m \in Nat : \E f : To(m, f)}
    <2>1. 0 \in S
      <3>1. To(0, [n \in 0 .. 0 |-> start])
        OBVIOUS
      <3> QED
        BY <3>1
    <2>2. ASSUME NEW m \in Nat, m \in S
          PROVE  m + 1 \in S
      <3>1. PICK f : To(m, f)
        BY <2>2
      <3> DEFINE g == [n \in 0 .. m + 1 |-> IF n = m + 1 THEN Merged(a, b, f[m]) ELSE f[n]]
      <3>2. \A n \in 0 .. m + 1 : g[n] = IF n = 0 THEN start ELSE Merged(a, b, g[n - 1])
        <4> TAKE n \in 0 .. m + 1
        <4>1. CASE n = m + 1
          BY <4>1
        <4>2. CASE n \in 0 .. m
          BY <3>1, <4>2
        <4> QED
          BY <4>1, <4>2
      <3>3. To(m + 1, g)
        BY <3>2
      <3> QED
        <4> HIDE DEF To
        <4> QED
          BY <3>3
    <2>3. Nat \subseteq S
      <3> HIDE DEF S
      <3> QED
        BY <2>1, <2>2, Counting
    <2>4. Len(a) + Len(b) \in S
      BY <1>1, <2>3
    <2> QED
      <3>1. PICK c : c = CHOOSE f : To(Len(a) + Len(b), f)
        OBVIOUS
      <3>2. To(Len(a) + Len(b), c)
        <4> HIDE DEF To
        <4> QED
          BY <2>4, <3>1
      <3>3. Merge(a, b) = c[Len(a) + Len(b)].out
        BY <1>2, <3>1 DEF Merge, Merged, TakesFirst
      <3> QED
        BY <3>2, <3>3
  <1> DEFINE S == {n \in Nat : n <= Len(a) + Len(b) => Merging(a, b, n, f[n])}
  <1>4. 0 \in S
    <2>1. f[0] = start
      BY <1>1, <1>3
    <2>2. <<>> \in Seq(Keys) /\ Len(<<>>) = 0
      BY EmptySeq
    <2>3. start.i = 0 /\ start.j = 0 /\ start.out = <<>>
      BY <1>2
    <2>4. Merging(a, b, 0, start)
      BY <1>1, <2>2, <2>3 DEF Merging
    <2> QED
      BY <2>1, <2>4
  <1>5. ASSUME NEW n \in Nat, n \in S
        PROVE  n + 1 \in S
    <2> SUFFICES ASSUME n + 1 <= Len(a) + Len(b)
                 PROVE  Merging(a, b, n + 1, f[n + 1])
      OBVIOUS
    <2>1. n < Len(a) + Len(b) /\ Merging(a, b, n, f[n])
      BY <1>1, <1>5
    <2>2. f[n + 1] = Merged(a, b, f[n])
      <3>1. n + 1 \in 0 .. Len(a) + Len(b) /\ n + 1 # 0 /\ (n + 1) - 1 = n
        BY <1>1
      <3> QED
        BY <1>3, <3>1
    <2> QED
      BY <2>1, <2>2, MergesOn
  <1>6. Nat \subseteq S
    <2> HIDE DEF S
    <2> QED
      BY <1>4, <1>5, Counting
  <1>7. PICK w : w = f[Len(a) + Len(b)]
    OBVIOUS
  <1>8. Merging(a, b, Len(a) + Len(b), w)
    BY <1>1, <1>6, <1>7
  <1>9. w.i = Len(a) /\ w.j = Len(b)
    BY <1>1, <1>8 DEF Merging
  <1>10. Merge(a, b) = w.out
    BY <1>3, <1>7
  <1>11. PICK n \in Nat : n = Len(a) + Len(b)
    BY <1>1
  <1>12. /\ w.out \in Seq(Keys) /\ Len(w.out) = n
         /\ \A p, q \in 1 .. n : p < q => w.out[p] < w.out[q]
         /\ \A p \in 1 .. n : \/ \E q \in 1 .. Len(a) : w.out[p] = a[q]
                              \/ \E q \in 1 .. Len(b) : w.out[p] = b[q]
         /\ \A q \in 1 .. Len(a) : q <= w.i => \E p \in 1 .. n : w.out[p] = a[q]
         /\ \A q \in 1 .. Len(b) : q <= w.j => \E p \in 1 .. n : w.out[p] = b[q]
    BY <1>8, <1>11 DEF Merging
  <1>13. \A q \in 1 .. Len(a) : q <= w.i
    BY <1>1, <1>9
  <1>14. \A q \in 1 .. Len(b) : q <= w.j
    BY <1>1, <1>9
  <1>15. /\ \A q \in 1 .. Len(a) : \E p \in 1 .. n : w.out[p] = a[q]
         /\ \A q \in 1 .. Len(b) : \E p \in 1 .. n : w.out[p] = b[q]
    BY <1>12, <1>13, <1>14
  <1> QED
    <2>1. PICK s : s = w.out
      OBVIOUS
    <2>2. /\ s \in Seq(Keys) /\ Len(s) = n
          /\ \A p, q \in 1 .. n : p < q => s[p] < s[q]
      BY <1>12, <2>1
    <2>3. \A p \in 1 .. n : (\E q \in 1 .. Len(a) : s[p] = a[q]) \/ (\E q \in 1 .. Len(b) : s[p] = b[q])
      BY <1>12, <2>1
    <2>4. /\ \A q \in 1 .. Len(a) : \E p \in 1 .. n : s[p] = a[q]
          /\ \A q \in 1 .. Len(b) : \E p \in 1 .. n : s[p] = b[q]
      BY <1>15, <2>1
    <2>5. MergeOf(a, b, s, n)
      BY <2>2, <2>3, <2>4 DEF MergeOf
    <2> QED
      BY <1>10, <1>11, <2>1, <2>5

\* What a compaction streams: every live key, once, and in order for a sorted builder.
LEMMA StreamedOK ==
    ASSUME NEW o, OverlayOK(o), Exact(o.base.kind)
    PROVE  /\ Streamed(o) \in Seq(Keys)
           /\ Range(Streamed(o)) = LiveKeys(o) /\ Len(Streamed(o)) = o.live
           /\ o.base.kind = "string" =>
                  \A i, j \in 1 .. Len(Streamed(o)) : i < j => Streamed(o)[i] < Streamed(o)[j]
  <1>1. BaseOK(o.base) /\ FieldsOK(o)
    BY DEF OverlayOK
  <1>2. /\ o.base.n \in Nat /\ IdSpace(o) \in Nat /\ o.base.n <= IdSpace(o)
        /\ LiveIds(o) \subseteq 0 .. IdSpace(o) - 1 /\ Keys \subseteq Nat
    BY <1>1, Sizes, LiveFinite, KeysAssumption
  <1>3. PICK a : a = LiveBetween(o, 0, o.base.n)
    OBVIOUS
  <1>4. PICK c : c = LiveBetween(o, o.base.n, IdSpace(o))
    OBVIOUS
  <1>5. ByIds(o, a, IdsBetween(o, 0, o.base.n))
    BY <1>2, <1>3, BetweenOK
  <1>6. ByIds(o, c, IdsBetween(o, o.base.n, IdSpace(o)))
    BY <1>2, <1>4, BetweenOK
  <1>7. /\ \A x \in IdsBetween(o, 0, o.base.n) : x \in LiveIds(o) /\ x \in Nat /\ x < o.base.n
        /\ \A x \in IdsBetween(o, o.base.n, IdSpace(o)) : x \in LiveIds(o) /\ x \in Nat /\ o.base.n <= x
        /\ \A x \in LiveIds(o) : \/ x \in IdsBetween(o, 0, o.base.n)
                                 \/ x \in IdsBetween(o, o.base.n, IdSpace(o))
    BY <1>2 DEF IdsBetween
  <1>8. /\ a \in Seq(Keys) /\ Len(a) \in Nat /\ DOMAIN a = 1 .. Len(a)
        /\ c \in Seq(Keys) /\ Len(c) \in Nat /\ DOMAIN c = 1 .. Len(c)
        /\ \A i \in 1 .. Len(a) : a[i] \in Keys
        /\ \A i \in 1 .. Len(c) : c[i] \in Keys
    BY <1>5, <1>6, LenProperties DEF ByIds
  <1>9. /\ \A i \in 1 .. Len(a) : Id(o, a[i]) \in LiveIds(o) /\ Id(o, a[i]) \in Nat /\ Id(o, a[i]) < o.base.n
        /\ \A i \in 1 .. Len(c) : Id(o, c[i]) \in LiveIds(o) /\ Id(o, c[i]) \in Nat /\ o.base.n <= Id(o, c[i])
        /\ \A i, j \in 1 .. Len(a) : i < j => Id(o, a[i]) < Id(o, a[j])
        /\ \A i, j \in 1 .. Len(c) : i < j => Id(o, c[i]) < Id(o, c[j])
        /\ \A x \in LiveIds(o) : \/ \E i \in 1 .. Len(a) : a[i] = Key(o, x)
                                 \/ \E i \in 1 .. Len(c) : c[i] = Key(o, x)
    BY <1>5, <1>6, <1>7 DEF ByIds
  <1>10. \A i \in 1 .. Len(a), j \in 1 .. Len(c) : a[i] # c[j]
    BY <1>2, <1>9
  <1>11. PICK s : s = Streamed(o)
    OBVIOUS
  <1>12. /\ s \in Seq(Keys)
         /\ \A p \in 1 .. Len(s) : \/ \E q \in 1 .. Len(a) : s[p] = a[q]
                                   \/ \E q \in 1 .. Len(c) : s[p] = c[q]
         /\ \A q \in 1 .. Len(a) : \E p \in 1 .. Len(s) : s[p] = a[q]
         /\ \A q \in 1 .. Len(c) : \E p \in 1 .. Len(s) : s[p] = c[q]
         /\ \A p, q \in 1 .. Len(s) : s[p] = s[q] => p = q
         /\ o.base.kind = "string" => \A p, q \in 1 .. Len(s) : p < q => s[p] < s[q]
    <2>1. CASE o.base.kind = "string"
      <3>1. PICK d : d = Sorted(c)
        OBVIOUS
      <3>2. \A i, j \in 1 .. Len(c) : c[i] = c[j] => i = j
        <4> SUFFICES ASSUME NEW i \in 1 .. Len(c), NEW j \in 1 .. Len(c), i < j
                     PROVE  c[i] # c[j]
          BY <1>8
        <4>1. Id(o, c[i]) < Id(o, c[j]) /\ Id(o, c[i]) \in Nat
          BY <1>9
        <4> QED
          BY <4>1
      <3>3. /\ d \in Seq(Keys) /\ Len(d) = Len(c) /\ Ascending(d)
            /\ \A i \in 1 .. Len(c) : \E j \in 1 .. Len(c) : d[i] = c[j]
            /\ \A i \in 1 .. Len(c) : \E j \in 1 .. Len(c) : d[j] = c[i]
        BY <1>8, <3>1, <3>2, SortedOK
      <3>4. Ascending(a)
        <4> SUFFICES ASSUME NEW i \in 1 .. Len(a), NEW j \in 1 .. Len(a), i < j
                     PROVE  a[i] < a[j]
          BY <1>8 DEF Ascending
        <4>1. PICK x \in LiveIds(o) : x = Id(o, a[i]) /\ x < o.base.n /\ x \in Nat
          BY <1>9
        <4>2. PICK y \in LiveIds(o) : y = Id(o, a[j]) /\ y < o.base.n /\ y \in Nat
          BY <1>9
        <4>3. x < y
          BY <1>9, <4>1, <4>2
        <4>4. a[i] = Key(o, x) /\ a[j] = Key(o, y)
          <5>1. a[i] \in Keys /\ a[j] \in Keys
            BY <1>8
          <5>2. Id(o, a[i]) # None /\ Id(o, a[j]) # None
            BY <4>1, <4>2, KeysAssumption
          <5> QED
            BY <4>1, <4>2, <5>1, <5>2, Inverses
        <4>5. a[i] = o.base.key[x] /\ a[j] = o.base.key[y]
          <5>1. x \in 0 .. IdSpace(o) - 1 /\ ~ IsDead(o, x) /\ y \in 0 .. IdSpace(o) - 1 /\ ~ IsDead(o, y)
            BY DEF LiveIds
          <5> QED
            BY <1>2, <4>1, <4>2, <4>4, <5>1 DEF Key
        <4>6. x \in DOMAIN o.base.key /\ y \in DOMAIN o.base.key /\ Ascending(o.base.key)
          BY <1>1, <1>2, <2>1, <4>1, <4>2 DEF BaseOK
        <4> QED
          BY <4>3, <4>5, <4>6 DEF Ascending
      <3>5. Mergeable(a, d)
        BY <1>8, <1>10, <3>3, <3>4 DEF Mergeable
      <3>6. s = Merge(a, d)
        BY <1>3, <1>4, <1>11, <2>1, <3>1 DEF Streamed
      <3>7. PICK n \in Nat : n = Len(a) + Len(d)
        BY <1>8, <3>3
      <3>8. /\ s \in Seq(Keys) /\ Len(s) = n
            /\ \A p, q \in 1 .. n : p < q => s[p] < s[q]
            /\ \A p \in 1 .. n : \/ \E q \in 1 .. Len(a) : s[p] = a[q]
                                 \/ \E q \in 1 .. Len(d) : s[p] = d[q]
            /\ \A q \in 1 .. Len(a) : \E p \in 1 .. n : s[p] = a[q]
            /\ \A q \in 1 .. Len(d) : \E p \in 1 .. n : s[p] = d[q]
        <4>1. MergeOf(a, d, Merge(a, d), Len(a) + Len(d))
          BY <3>5, MergeOK
        <4>2. MergeOf(a, d, s, n)
          BY <3>6, <3>7, <4>1
        <4> QED
          BY <4>2 DEF MergeOf
      <3>9. \A p \in 1 .. n : \/ \E q \in 1 .. Len(a) : s[p] = a[q]
                              \/ \E q \in 1 .. Len(c) : s[p] = c[q]
        <4>1. \A i \in 1 .. Len(d) : \E j \in 1 .. Len(c) : d[i] = c[j]
          BY <3>3
        <4> SUFFICES ASSUME NEW p \in 1 .. n
                     PROVE  \/ \E q \in 1 .. Len(a) : s[p] = a[q]
                            \/ \E q \in 1 .. Len(c) : s[p] = c[q]
          OBVIOUS
        <4>2. CASE \E q \in 1 .. Len(d) : s[p] = d[q]
          <5>1. PICK q \in 1 .. Len(d) : s[p] = d[q]
            BY <4>2
          <5>2. PICK j \in 1 .. Len(c) : d[q] = c[j]
            BY <4>1
          <5> QED
            BY <5>1, <5>2
        <4> QED
          BY <3>8, <4>2
      <3>10. \A q \in 1 .. Len(c) : \E p \in 1 .. n : s[p] = c[q]
        BY <3>3, <3>8
      <3>11. \A p, q \in 1 .. n : s[p] = s[q] => p = q
        <4> SUFFICES ASSUME NEW p \in 1 .. n, NEW q \in 1 .. n, p < q
                     PROVE  s[p] # s[q]
          OBVIOUS
        <4>1. s[p] < s[q] /\ s[p] \in Nat
          <5>1. s[p] < s[q]
            BY <3>8
          <5>2. p \in 1 .. Len(s) /\ s \in Seq(Keys)
            BY <3>8
          <5>3. s[p] \in Keys
            BY <5>2, LenProperties
          <5> QED
            BY <5>1, <5>3, KeysAssumption
        <4> QED
          BY <4>1
      <3> QED
        BY <3>8, <3>9, <3>10, <3>11
    <2>2. CASE o.base.kind # "string"
      <3>1. s = a \o c
        BY <1>3, <1>4, <1>11, <2>2 DEF Streamed
      <3>2. /\ s \in Seq(Keys) /\ Len(s) = Len(a) + Len(c)
            /\ \A i \in 1 .. Len(a) + Len(c) : s[i] = IF i <= Len(a) THEN a[i] ELSE c[i - Len(a)]
        BY <1>8, <3>1, ConcatProperties
      <3>3. \A p \in 1 .. Len(s) : \/ p \in 1 .. Len(a) /\ s[p] = a[p]
                                   \/ p - Len(a) \in 1 .. Len(c) /\ s[p] = c[p - Len(a)]
        BY <1>8, <3>2
      <3>4. \A q \in 1 .. Len(a) : q \in 1 .. Len(s) /\ s[q] = a[q]
        BY <1>8, <3>2
      <3>5. \A q \in 1 .. Len(c) : Len(a) + q \in 1 .. Len(s) /\ s[Len(a) + q] = c[q]
        <4> SUFFICES ASSUME NEW q \in 1 .. Len(c)
                     PROVE  Len(a) + q \in 1 .. Len(s) /\ s[Len(a) + q] = c[q]
          OBVIOUS
        <4>1. /\ Len(a) + q \in 1 .. Len(a) + Len(c)
              /\ ~ (Len(a) + q <= Len(a)) /\ (Len(a) + q) - Len(a) = q
          BY <1>8
        <4> QED
          BY <3>2, <4>1
      <3>6. \A p, q \in 1 .. Len(s) : s[p] = s[q] => p = q
        <4> SUFFICES ASSUME NEW p \in 1 .. Len(s), NEW q \in 1 .. Len(s), p < q
                     PROVE  Id(o, s[p]) < Id(o, s[q]) /\ Id(o, s[p]) \in Nat
          BY <1>8, <3>2
        <4>1. CASE q \in 1 .. Len(a) /\ s[q] = a[q]
          BY <1>8, <1>9, <3>4, <4>1
        <4>2. CASE q - Len(a) \in 1 .. Len(c) /\ s[q] = c[q - Len(a)]
          <5>1. CASE p \in 1 .. Len(a) /\ s[p] = a[p]
            <6>1. Id(o, a[p]) \in Nat /\ Id(o, a[p]) < o.base.n
              BY <1>9, <5>1
            <6>2. Id(o, s[q]) \in Nat /\ o.base.n <= Id(o, s[q])
              BY <1>9, <4>2
            <6> QED
              BY <1>2, <5>1, <6>1, <6>2
          <5>2. CASE p - Len(a) \in 1 .. Len(c) /\ s[p] = c[p - Len(a)]
            <6>1. p - Len(a) < q - Len(a)
              BY <1>8
            <6> QED
              BY <1>9, <4>2, <5>2, <6>1
          <5> QED
            BY <3>3, <5>1, <5>2
        <4> QED
          BY <3>3, <4>1, <4>2
      <3> QED
        BY <2>2, <3>2, <3>3, <3>4, <3>5, <3>6
    <2> QED
      BY <2>1, <2>2
  <1>13. Range(s) = LiveKeys(o)
    <2>1. LiveKeys(o) = {Key(o, id) : id \in LiveIds(o)} /\ LiveKeys(o) = {k \in Keys : Id(o, k) # None}
      BY LiveKeysAre
    <2>2. DOMAIN s = 1 .. Len(s)
      BY <1>12, LenProperties
    <2>3. ASSUME NEW k \in LiveKeys(o)
          PROVE  k \in Range(s)
      <3>1. PICK id \in LiveIds(o) : k = Key(o, id)
        BY <2>1
      <3>2. \/ \E i \in 1 .. Len(a) : a[i] = k
            \/ \E i \in 1 .. Len(c) : c[i] = k
        BY <1>9, <3>1
      <3>3. \E p \in 1 .. Len(s) : s[p] = k
        BY <1>12, <3>2
      <3> QED
        BY <2>2, <3>3 DEF Range
    <2>4. ASSUME NEW k \in Range(s)
          PROVE  k \in LiveKeys(o)
      <3>1. PICK p \in 1 .. Len(s) : k = s[p]
        BY <2>2 DEF Range
      <3>2. \/ \E i \in 1 .. Len(a) : a[i] = k
            \/ \E i \in 1 .. Len(c) : c[i] = k
        BY <1>12, <3>1
      <3>3. k \in Keys /\ Id(o, k) \in Nat
        BY <1>8, <1>9, <3>2
      <3> QED
        BY <2>1, <3>3, KeysAssumption
    <2> QED
      BY <2>3, <2>4
  <1>14. Len(s) = o.live
    <2>1. s \in [1 .. Len(s) -> Range(s)] /\ Len(s) \in Nat
          /\ \A k \in Range(s) : \E i \in 1 .. Len(s) : s[i] = k
      <3>1. Len(s) \in Nat /\ s \in [1 .. Len(s) -> Keys] /\ DOMAIN s = 1 .. Len(s)
        BY <1>12, LenProperties
      <3>2. Range(s) = {s[i] : i \in 1 .. Len(s)}
        BY <3>1 DEF Range
      <3>3. \A i \in 1 .. Len(s) : s[i] \in Range(s)
        BY <3>2
      <3> QED
        BY <3>1, <3>2, <3>3
    <2>2. IsFiniteSet(1 .. Len(s)) /\ Cardinality(1 .. Len(s)) = Len(s)
      <3>1. Len(s) \in Nat
        BY <2>1
      <3>2. 1 \in Int /\ Len(s) \in Int
        BY <3>1
      <3>3. /\ IsFiniteSet(1 .. Len(s))
            /\ Cardinality(1 .. Len(s)) = IF 1 > Len(s) THEN 0 ELSE Len(s) - 1 + 1
        BY <3>2, FS_Interval
      <3> QED
        BY <3>1, <3>3
    <2>3. Cardinality(Range(s)) = Len(s)
      BY <1>12, <2>1, <2>2, OneToOne
    <2> QED
      BY <1>13, <2>3, LiveKeysAre
  <1> QED
    BY <1>11, <1>12, <1>13, <1>14

-------------------------------------------------------------------------------
(* The invariant. *)

LEMMA AddStays ==
    ASSUME NEW o, OverlayOK(o), NEW k \in Keys, NEW p, p = AddKey(o, k)
    PROVE  OverlayOK(p)
  <1>1. CASE IdIssued(o, k) = None
    <2>1. p = [PushAdded(o, k) EXCEPT !.live = @ + 1]
      BY <1>1 DEF AddKey
    <2> QED
      BY <1>1, <2>1, PushOK
  <1>2. CASE IdIssued(o, k) # None
    <2>1. IdIssued(o, k) \in 0 .. IdSpace(o) - 1
      BY <1>2, IssuedIds
    <2>2. p = Revive(o, IdIssued(o, k))
      BY <1>2 DEF AddKey
    <2> QED
      BY <2>1, <2>2, ReviveOK
  <1> QED
    BY <1>1, <1>2

LEMMA RemoveStays ==
    ASSUME NEW o, OverlayOK(o), Exact(o.base.kind), NEW k \in Keys, Id(o, k) # None,
           NEW p, p = RetireId(o, Id(o, k))
    PROVE  OverlayOK(p)
  <1>1. Id(o, k) \in LiveIds(o)
    BY Inverses
  <1>2. Id(o, k) \in Nat
    <2>1. BaseOK(o.base) /\ FieldsOK(o)
      BY DEF OverlayOK
    <2> QED
      BY <1>1, <2>1, Sizes DEF LiveIds
  <1> QED
    BY <1>2, RetireOK

\* Every base over the live keys makes a new overlay, whose ids are the live keys' own.
LEMMA CompactStays ==
    ASSUME NEW o, OverlayOK(o), Exact(o.base.kind), NEW b \in BasesOver(o.base.kind, LiveKeys(o))
    PROVE  /\ BaseOK(b) /\ OverlayOK(New(b)) /\ b.kind = o.base.kind /\ b.n = o.live
           /\ \A i \in 0 .. b.n - 1 : b.key[i] \in LiveKeys(o)
           /\ \A k \in LiveKeys(o) : \E i \in 0 .. b.n - 1 : b.key[i] = k
  <1>1. o.base.kind \in Bases
    BY DEF OverlayOK, BaseOK
  <1>2. LiveKeys(o) \in SUBSET Keys /\ Cardinality(LiveKeys(o)) = o.live
    BY LiveKeysAre
  <1> QED
    BY <1>1, <1>2, BasesOK, NewOK

LEMMA Starting == Init => OInv
  <1> SUFFICES ASSUME Init
               PROVE  OInv
    OBVIOUS
  <1>1. PICK kind \in Bases, S \in SUBSET Keys : \E b \in BasesOver(kind, S) : ov = New(b)
    BY DEF Init
  <1>2. PICK b \in BasesOver(kind, S) : ov = New(b)
    BY <1>1
  <1>3. OverlayOK(ov)
    BY <1>2, BasesOK, NewOK
  <1> QED
    BY <1>3 DEF Init, OInv, FileOK

\* Every step keeps an overlay such that all of its parts agree, and a file that one can be loaded
\* from: add, remove, retire_id, compact, compact_to_file, save and the loads.
LEMMA StepsKeep == OInv /\ [Next]_vars => OInv'
  <1> SUFFICES ASSUME OInv, [Next]_vars
               PROVE  OverlayOK(ov') /\ FileOK'
    BY DEF OInv
  <1>1. OverlayOK(ov) /\ FileOK
    BY DEF OInv
  <1>2. ASSUME UNCHANGED file
        PROVE  FileOK'
    BY <1>1, <1>2 DEF FileOK
  <1>3. CASE UNCHANGED vars
    BY <1>1, <1>2, <1>3 DEF vars
  <1>4. ASSUME NEW k \in Keys, Add(k)
        PROVE  OverlayOK(ov') /\ FileOK'
    BY <1>1, <1>2, <1>4, AddStays DEF Add
  <1>5. ASSUME NEW k \in Keys, RemoveKey(k)
        PROVE  OverlayOK(ov') /\ FileOK'
    <2>1. Exact(ov.base.kind) /\ UNCHANGED file
          /\ ov' = IF Id(ov, k) = None THEN ov ELSE RetireId(ov, Id(ov, k))
      BY <1>5 DEF RemoveKey
    <2>2. CASE Id(ov, k) = None
      BY <1>1, <1>2, <2>1, <2>2
    <2>3. CASE Id(ov, k) # None
      BY <1>1, <1>2, <2>1, <2>3, RemoveStays
    <2> QED
      BY <2>2, <2>3
  <1>6. ASSUME NEW id \in 0 .. IdSpace(ov), Retire(id)
        PROVE  OverlayOK(ov') /\ FileOK'
    <2>1. id \in Nat
      OBVIOUS
    <2> QED
      BY <1>1, <1>2, <1>6, <2>1, RetireOK DEF Retire
  <1>7. CASE Compact
    BY <1>1, <1>2, <1>7, CompactStays DEF Compact
  <1>8. CASE CompactToFile
    <2>1. PICK b \in BasesOver(ov.base.kind, Range(Streamed(ov))) : file' = [kind |-> "base", base |-> b]
      BY <1>8 DEF CompactToFile
    <2>2. Exact(ov.base.kind) /\ ov' = ov
      BY <1>8 DEF CompactToFile
    <2>3. Range(Streamed(ov)) = LiveKeys(ov)
      BY <1>1, <2>2, StreamedOK
    <2>4. BaseOK(b)
      BY <1>1, <2>1, <2>2, <2>3, CompactStays
    <2>5. file'.kind = "base" /\ file'.base = b
      BY <2>1
    <2> QED
      BY <1>1, <2>2, <2>4, <2>5 DEF FileOK
  <1>9. CASE Save
    <2>1. file' = [kind |-> "overlay", blob |-> Blob(ov)] /\ ov' = ov
      BY <1>9 DEF Save
    <2>2. file'.kind = "overlay" /\ file'.blob = Blob(ov)
      BY <2>1
    <2>3. Assemble(Blob(ov)) = ov
      BY <1>1, AssembleOK
    <2> QED
      BY <1>1, <2>1, <2>2, <2>3 DEF FileOK
  <1>10. CASE Load
    <2>1. file.kind = "overlay" /\ ov' = Assemble(file.blob) /\ UNCHANGED file
      BY <1>10 DEF Load
    <2>2. OverlayOK(Assemble(file.blob))
      BY <1>1, <2>1 DEF FileOK, NoFile
    <2> QED
      BY <1>2, <2>1, <2>2
  <1>11. CASE LoadBase
    <2>1. file.kind = "base" /\ ov' = New(file.base) /\ UNCHANGED file
      BY <1>11 DEF LoadBase
    <2>2. BaseOK(file.base)
      BY <1>1, <2>1 DEF FileOK, NoFile
    <2> QED
      BY <1>2, <2>1, <2>2, NewOK
  <1> QED
    BY <1>3, <1>4, <1>5, <1>6, <1>7, <1>8, <1>9, <1>10, <1>11 DEF Next

\* The overlay's struct and its file stay consistent (struct Overlay, save, compact_to_file).
THEOREM OverlayInvariant == Spec => []OInv
  <1> QED
    BY Starting, StepsKeep, PTL DEF Spec

-------------------------------------------------------------------------------
(* What follows from the invariant. *)

\* Live ids are counted, and id and key are inverse of each other: no duplicate addition, no
\* addition the base has, none lost to a hash collision (add, retire_id, id, key).
THEOREM IdsAgree == Spec => []IdsAndKeysAgree
  <1>1. OInv => IdsAndKeysAgree
    <2> SUFFICES ASSUME OInv
                 PROVE  IdsAndKeysAgree
      OBVIOUS
    <2>1. OverlayOK(ov)
      BY DEF OInv
    <2>2. BaseOK(ov.base) /\ FieldsOK(ov) /\ Counted(ov)
      BY <2>1 DEF OverlayOK
    <2>3. LiveCounted
      BY <2>2 DEF LiveCounted, Counted, LiveIds
    <2>4. IdSpace(ov) \in Nat
      BY <2>2, Sizes
    <2>5. ASSUME NEW id \in 0 .. IdSpace(ov) - 1, Exact(ov.base.kind), Key(ov, id) # None
          PROVE  Id(ov, Key(ov, id)) = id
      <3>1. id \in LiveIds(ov)
        BY <2>5, <2>4 DEF LiveIds, Key
      <3> QED
        BY <2>1, <2>5, <3>1, Inverses
    <2>6. \A k \in Keys : Exact(ov.base.kind) /\ Id(ov, k) # None => Key(ov, Id(ov, k)) = k
      BY <2>1, Inverses
    <2>7. \A i \in 0 .. Len(ov.added) - 1 : IdIssued(ov, AddedKey(ov, i)) = ov.base.n + i
      BY <2>1, IssuedIds
    <2> QED
      BY <2>3, <2>5, <2>6, <2>7 DEF IdsAndKeysAgree
  <1> QED
    BY <1>1, OverlayInvariant, PTL

\* What save writes at any time, load accepts, and gives back the overlay as it was (save,
\* from_bytes_with, assemble).
THEOREM SavesLoad == Spec => []SavedLoads
  <1>1. OInv => SavedLoads
    BY AssembleOK DEF OInv, SavedLoads
  <1> QED
    BY <1>1, OverlayInvariant, PTL

\* compact_to_file streams every live key once, in order where its builder needs it so
\* (rebuild_to_file, merge_sorted).
THEOREM StreamsAll == Spec => []StreamsLiveKeys
  <1>1. OInv => StreamsLiveKeys
    <2> SUFFICES ASSUME OInv, Exact(ov.base.kind)
                 PROVE  /\ Range(Streamed(ov)) = LiveKeys(ov)
                        /\ Len(Streamed(ov)) = ov.live
                        /\ ov.base.kind = "string" =>
                               \A i, j \in DOMAIN Streamed(ov) : i < j => Streamed(ov)[i] < Streamed(ov)[j]
      BY DEF StreamsLiveKeys
    <2>1. /\ Streamed(ov) \in Seq(Keys)
          /\ Range(Streamed(ov)) = LiveKeys(ov) /\ Len(Streamed(ov)) = ov.live
          /\ ov.base.kind = "string" =>
                 \A i, j \in 1 .. Len(Streamed(ov)) : i < j => Streamed(ov)[i] < Streamed(ov)[j]
      BY StreamedOK DEF OInv
    <2>2. DOMAIN Streamed(ov) = 1 .. Len(Streamed(ov))
      BY <2>1, LenProperties
    <2> QED
      BY <2>1, <2>2
  <1> QED
    BY <1>1, OverlayInvariant, PTL

\* The live keys and ids of an overlay over a base of the live keys of another.
LEMMA Recompacted ==
    ASSUME NEW o, OverlayOK(o), Exact(o.base.kind), NEW b \in BasesOver(o.base.kind, LiveKeys(o)),
           NEW p, p = New(b)
    PROVE  /\ OverlayOK(p) /\ Exact(p.base.kind)
           /\ IdSpace(p) = o.live /\ p.live = o.live /\ LiveIds(p) = 0 .. IdSpace(p) - 1
           /\ LiveKeys(p) = LiveKeys(o)
  <1>1. /\ BaseOK(b) /\ OverlayOK(p) /\ b.kind = o.base.kind /\ b.n = o.live
        /\ \A i \in 0 .. b.n - 1 : b.key[i] \in LiveKeys(o)
        /\ \A k \in LiveKeys(o) : \E i \in 0 .. b.n - 1 : b.key[i] = k
    BY CompactStays
  <1>2. p.base = b /\ p.live = b.n
    BY DEF New
  <1>3. /\ IdSpace(p) = b.n /\ LiveIds(p) = 0 .. b.n - 1 /\ \A id \in Nat : ~ IsDead(p, id)
    BY <1>1, NewOK
  <1>4. b.n \in Nat
    BY <1>1 DEF BaseOK
  <1>5. \A i \in 0 .. b.n - 1 : Key(p, i) = b.key[i]
    BY <1>2, <1>3, <1>4 DEF Key
  <1>6. LiveKeys(p) = {Key(p, id) : id \in LiveIds(p)}
    BY <1>1, <1>2, LiveKeysAre
  <1>7. LiveKeys(p) = LiveKeys(o)
    BY <1>1, <1>3, <1>5, <1>6
  <1> QED
    BY <1>1, <1>2, <1>3, <1>7

\* compact_with_remap carries every live id to the new id of its key, no two to the same, and
\* leaves no new id out.
THEOREM RemapsCarry == Spec => RemapCarries
  <1>1. OInv /\ Compact =>
          LET remap == Remap(ov, ov')
              alive == {id \in DOMAIN remap : ~IsDead(ov, id)}
          IN  /\ \A id \in alive : remap[id] # None /\ Key(ov', remap[id]) = Key(ov, id)
              /\ {remap[id] : id \in alive} = 0 .. IdSpace(ov') - 1
              /\ Cardinality(alive) = ov'.live
    <2> SUFFICES ASSUME OInv, Compact
                 PROVE  LET remap == Remap(ov, ov')
                            alive == {id \in DOMAIN remap : ~IsDead(ov, id)}
                        IN  /\ \A id \in alive : remap[id] # None /\ Key(ov', remap[id]) = Key(ov, id)
                            /\ {remap[id] : id \in alive} = 0 .. IdSpace(ov') - 1
                            /\ Cardinality(alive) = ov'.live
      OBVIOUS
    <2>1. PICK o : o = ov
      OBVIOUS
    <2>2. PICK p : p = ov'
      OBVIOUS
    <2>3. OverlayOK(o) /\ Exact(o.base.kind)
      BY <2>1 DEF OInv, Compact
    <2>4. PICK b \in BasesOver(o.base.kind, LiveKeys(o)) : p = New(b)
      BY <2>1, <2>2 DEF Compact
    <2>5. /\ OverlayOK(p) /\ Exact(p.base.kind)
          /\ p.live = o.live /\ LiveIds(p) = 0 .. IdSpace(p) - 1
          /\ LiveKeys(p) = LiveKeys(o)
      BY <2>3, <2>4, Recompacted
    <2>6. /\ LiveKeys(o) = {Key(o, id) : id \in LiveIds(o)} /\ LiveKeys(p) = {k \in Keys : Id(p, k) # None}
          /\ LiveKeys(p) = {Key(p, id) : id \in LiveIds(p)}
      BY <2>3, <2>5, LiveKeysAre
    <2>7. PICK remap : remap = Remap(o, p)
      OBVIOUS
    <2>8. DOMAIN remap = 0 .. IdSpace(o) - 1
      BY <2>7 DEF Remap
    <2>9. {id \in DOMAIN remap : ~IsDead(o, id)} = LiveIds(o)
      BY <2>8 DEF LiveIds
    <2>10. \A id \in LiveIds(o) : Key(o, id) \in LiveKeys(o) /\ Key(o, id) \in Keys
      BY <2>3, <2>6, Inverses
    <2>11. \A id \in LiveIds(o) : remap[id] = Id(p, Key(o, id))
      <3> SUFFICES ASSUME NEW id \in LiveIds(o)
                   PROVE  remap[id] = Id(p, Key(o, id))
        OBVIOUS
      <3>1. id \in 0 .. IdSpace(o) - 1
        BY DEF LiveIds
      <3>2. Key(o, id) # None
        BY <2>3, <2>10, Sizes DEF OverlayOK
      <3> QED
        BY <2>7, <3>1, <3>2 DEF Remap
    <2>12. \A id \in LiveIds(o) : /\ remap[id] # None /\ remap[id] \in LiveIds(p)
                                  /\ Key(p, remap[id]) = Key(o, id)
      <3> SUFFICES ASSUME NEW id \in LiveIds(o)
                   PROVE  remap[id] # None /\ remap[id] \in LiveIds(p) /\ Key(p, remap[id]) = Key(o, id)
        OBVIOUS
      <3>1. PICK k \in Keys : k = Key(o, id) /\ k \in LiveKeys(p)
        BY <2>5, <2>10
      <3>2. Id(p, k) # None
        BY <2>6, <3>1
      <3>3. Id(p, k) \in LiveIds(p) /\ Key(p, Id(p, k)) = k
        BY <2>5, <3>2, Inverses
      <3> QED
        BY <2>11, <3>1, <3>2, <3>3
    <2>13. ASSUME NEW i \in LiveIds(p)
           PROVE  \E id \in LiveIds(o) : remap[id] = i
      <3>1. Key(p, i) \in LiveKeys(o) /\ Id(p, Key(p, i)) = i
        BY <2>5, <2>6, Inverses
      <3>2. PICK id \in LiveIds(o) : Key(o, id) = Key(p, i)
        BY <2>6, <3>1
      <3> QED
        BY <2>11, <3>1, <3>2
    <2>14. {remap[id] : id \in LiveIds(o)} = 0 .. IdSpace(p) - 1
      BY <2>5, <2>12, <2>13
    <2>15. Cardinality(LiveIds(o)) = p.live
      BY <2>3, <2>5 DEF OverlayOK, Counted
    <2> QED
      BY <2>1, <2>2, <2>7, <2>9, <2>12, <2>14, <2>15
  <1>2. OInv /\ [Next]_vars =>
          [ov'.added = <<>> /\ Compact =>
              LET remap == Remap(ov, ov')
                  alive == {id \in DOMAIN remap : ~IsDead(ov, id)}
              IN  /\ \A id \in alive : remap[id] # None /\ Key(ov', remap[id]) = Key(ov, id)
                  /\ {remap[id] : id \in alive} = 0 .. IdSpace(ov') - 1
                  /\ Cardinality(alive) = ov'.live]_vars
    BY <1>1
  <1> QED
    BY <1>2, OverlayInvariant, PTL DEF Spec, RemapCarries

-------------------------------------------------------------------------------
(* The overlay implements StableIds. *)

\* The ids of keys, in full: the base's, the additions' after it, and none of any other key.
LEMMA IdsAre ==
    ASSUME NEW o, OverlayOK(o)
    PROVE  /\ \A k \in Keys : o.base.id[k] # None => IdIssued(o, k) = o.base.id[k]
           /\ \A i \in 1 .. Len(o.added) : /\ o.added[i] \in Keys /\ o.base.id[o.added[i]] = None
                                           /\ IdIssued(o, o.added[i]) = o.base.n - 1 + i
           /\ \A k \in Keys : o.base.id[k] = None /\ (\A i \in 1 .. Len(o.added) : o.added[i] # k)
                                  => IdIssued(o, k) = None
  <1>1. BaseOK(o.base) /\ FieldsOK(o) /\ AddedOnce(o)
    BY DEF OverlayOK
  <1>2. /\ o.base.n \in Nat /\ Len(o.added) \in Nat /\ DOMAIN o.added = 1 .. Len(o.added)
        /\ \A i \in 0 .. Len(o.added) - 1 : AddedKey(o, i) \in Keys
    BY <1>1, Sizes
  <1>3. \A k \in Keys : o.base.id[k] # None => IdIssued(o, k) = o.base.id[k]
    BY DEF IdIssued
  <1>4. ASSUME NEW i \in 1 .. Len(o.added)
        PROVE  /\ o.added[i] \in Keys /\ o.base.id[o.added[i]] = None
               /\ IdIssued(o, o.added[i]) = o.base.n - 1 + i
    <2>1. PICK j \in 0 .. Len(o.added) - 1 : j = i - 1 /\ j + 1 = i
      BY <1>2
    <2>2. AddedKey(o, j) = o.added[i]
      BY <2>1 DEF AddedKey
    <2>3. IdIssued(o, o.added[i]) = o.base.n + j
      BY <2>2, IssuedIds
    <2>4. o.base.n + j = o.base.n - 1 + i
      BY <1>2, <2>1
    <2> QED
      BY <1>1, <1>2, <2>2, <2>3, <2>4 DEF AddedOnce
  <1>5. ASSUME NEW k \in Keys, o.base.id[k] = None, \A i \in 1 .. Len(o.added) : o.added[i] # k,
               IdIssued(o, k) # None
        PROVE  FALSE
    <2>1. PICK j \in 0 .. Len(o.added) - 1 : AddedKey(o, j) = k
      <3>1. None \notin 0 .. o.base.n - 1
        BY KeysAssumption, <1>2
      <3> QED
        BY <1>5, <3>1, IssuedIds
    <2>2. j + 1 \in 1 .. Len(o.added) /\ o.added[j + 1] = k
      BY <1>2, <2>1 DEF AddedKey
    <2> QED
      BY <1>5, <2>2
  <1> QED
    BY <1>3, <1>4, <1>5

\* The ids a blob stands for are those of the overlay it was written from.
LEMMA BlobIds ==
    ASSUME NEW o, OverlayOK(o)
    PROVE  IdsIn(Blob(o)) = IdsOf(o)
  <1>1. BaseOK(o.base) /\ FieldsOK(o) /\ AddedOnce(o)
    BY DEF OverlayOK
  <1>2. PICK b : b = Blob(o)
    OBVIOUS
  <1>3. b.base = o.base /\ b.additions = o.added /\ b.words = o.dead
    BY <1>2 DEF Blob
  <1>4. /\ o.base.n \in Nat /\ Len(o.added) \in Nat /\ DOMAIN o.added = 1 .. Len(o.added)
        /\ IdSpace(o) = o.base.n + Len(o.added)
    BY <1>1, Sizes
  <1>5. {i \in DOMAIN b.additions : b.base.id[b.additions[i]] = None} = 1 .. Len(o.added)
    BY <1>1, <1>3, <1>4 DEF AddedOnce
  <1>6. ASSUME NEW k \in Keys
        PROVE  (IF \E i \in 1 .. Len(o.added) : o.added[i] = k
                THEN o.base.n - 1 + CHOOSE i \in 1 .. Len(o.added) : o.added[i] = k
                ELSE o.base.id[k]) = IdIssued(o, k)
    <2>1. CASE \E i \in 1 .. Len(o.added) : o.added[i] = k
      <3>1. PICK i \in 1 .. Len(o.added) : i = CHOOSE j \in 1 .. Len(o.added) : o.added[j] = k
        BY <2>1
      <3>2. o.added[i] = k
        BY <2>1, <3>1
      <3>3. IdIssued(o, k) = o.base.n - 1 + i
        BY <3>2, IdsAre
      <3> QED
        BY <2>1, <3>1, <3>3
    <2>2. CASE ~ \E i \in 1 .. Len(o.added) : o.added[i] = k
      <3>1. o.base.id[k] = IdIssued(o, k)
        BY <2>2, IdsAre
      <3> QED
        BY <2>2, <3>1
    <2> QED
      BY <2>1, <2>2
  <1>7. (0 .. IdSpace(o) - 1) \ Tombstones(o.dead) = LiveIds(o)
    BY <1>1, DeadCounted DEF LiveIds
  <1>8. IdsOf(o) = [idOf |-> [k \in Keys |-> IdIssued(o, k)], space |-> IdSpace(o), live |-> LiveIds(o)]
    BY DEF IdsOf, LiveIds
  <1>9. IdsIn(b) =
          [idOf |-> [k \in Keys |->
                        IF \E i \in 1 .. Len(o.added) : o.added[i] = k
                        THEN o.base.n - 1 + CHOOSE i \in 1 .. Len(o.added) : o.added[i] = k
                        ELSE o.base.id[k]],
           space |-> o.base.n + Len(o.added),
           live |-> (0 .. o.base.n + Len(o.added) - 1) \ Tombstones(o.dead)]
    BY <1>3, <1>5 DEF IdsIn
  <1>10. [k \in Keys |->
            IF \E i \in 1 .. Len(o.added) : o.added[i] = k
            THEN o.base.n - 1 + CHOOSE i \in 1 .. Len(o.added) : o.added[i] = k
            ELSE o.base.id[k]] = [k \in Keys |-> IdIssued(o, k)]
    BY <1>6
  <1>11. o.base.n + Len(o.added) = IdSpace(o)
         /\ (0 .. o.base.n + Len(o.added) - 1) \ Tombstones(o.dead) = LiveIds(o)
    BY <1>4, <1>7
  <1> QED
    BY <1>2, <1>8, <1>9, <1>10, <1>11

\* The fields of the ids of an overlay.
LEMMA IdsFields ==
    ASSUME NEW o, OverlayOK(o), NEW s, s = IdsOf(o)
    PROVE  /\ s.idOf = [k \in Keys |-> IdIssued(o, k)] /\ s.space = IdSpace(o) /\ s.live = LiveIds(o)
           /\ s = [idOf |-> s.idOf, space |-> s.space, live |-> s.live]
           /\ s.idOf \in [Keys -> (0 .. s.space - 1) \cup {None}]
  <1>1. s = [idOf |-> [k \in Keys |-> IdIssued(o, k)], space |-> IdSpace(o), live |-> LiveIds(o)]
    BY DEF IdsOf, LiveIds
  <1>2. \A k \in Keys : IdIssued(o, k) \in (0 .. IdSpace(o) - 1) \cup {None}
    BY IssuedIds
  <1> QED
    BY <1>1, <1>2

\* A new overlay has fresh ids.
LEMMA NewFresh ==
    ASSUME NEW b, BaseOK(b)
    PROVE  Stable!Fresh(IdsOf(New(b)))
  <1>1. PICK p : p = New(b)
    OBVIOUS
  <1>2. p.base = b
    BY <1>1 DEF New
  <1>3. OverlayOK(p) /\ IdSpace(p) = b.n /\ LiveIds(p) = 0 .. b.n - 1
    BY <1>1, NewOK
  <1>4. PICK s : s = IdsOf(p)
    OBVIOUS
  <1>5. /\ s.idOf = [k \in Keys |-> IdIssued(p, k)] /\ s.space = b.n /\ s.live = 0 .. b.n - 1
        /\ s.idOf \in [Keys -> (0 .. b.n - 1) \cup {None}]
    BY <1>3, <1>4, IdsFields
  <1>6. ASSUME NEW i \in 0 .. b.n - 1
        PROVE  \E k \in Keys : s.idOf[k] = i
    <2>1. PICK k \in Keys : k = b.key[i] /\ b.id[k] = i
      BY DEF BaseOK
    <2>2. i # None
      BY KeysAssumption DEF BaseOK
    <2>3. IdIssued(p, k) = i
      BY <1>2, <1>3, <2>1, <2>2, IdsAre
    <2> QED
      BY <1>5, <2>3
  <1>7. Stable!Fresh(s)
    BY <1>5, <1>6 DEF Stable!Fresh, Stable!Ids
  <1> QED
    BY <1>1, <1>4, <1>7

\* Adding a key: the ids change as WithKey says.
LEMMA AddIds ==
    ASSUME NEW o, OverlayOK(o), NEW k \in Keys, NEW p, p = AddKey(o, k)
    PROVE  IdsOf(p) = Stable!WithKey(IdsOf(o), k)
  <1>1. PICK s : s = IdsOf(o)
    OBVIOUS
  <1>2. PICK t : t = IdsOf(p)
    OBVIOUS
  <1>3. OverlayOK(p)
    BY AddStays
  <1>4. /\ s.idOf = [x \in Keys |-> IdIssued(o, x)] /\ s.space = IdSpace(o) /\ s.live = LiveIds(o)
        /\ s = [idOf |-> s.idOf, space |-> s.space, live |-> s.live]
    BY <1>1, IdsFields
  <1>5. /\ t.idOf = [x \in Keys |-> IdIssued(p, x)] /\ t.space = IdSpace(p) /\ t.live = LiveIds(p)
        /\ t = [idOf |-> t.idOf, space |-> t.space, live |-> t.live]
    BY <1>2, <1>3, IdsFields
  <1>6. BaseOK(o.base) /\ FieldsOK(o)
    BY DEF OverlayOK
  <1>7. o.base.n \in Nat /\ o.added \in Seq(Keys) /\ Len(o.added) \in Nat /\ IdSpace(o) = o.base.n + Len(o.added)
    BY <1>6, Sizes DEF FieldsOK
  <1>8. CASE IdIssued(o, k) = None
    <2>1. p = [PushAdded(o, k) EXCEPT !.live = @ + 1]
      BY <1>8 DEF AddKey
    <2>2. /\ p.base = o.base /\ p.added = Append(o.added, k) /\ IdSpace(p) = IdSpace(o) + 1
          /\ LiveIds(p) = LiveIds(o) \cup {IdSpace(o)}
      BY <1>8, <2>1, PushOK
    <2>3. /\ Len(p.added) = Len(o.added) + 1 /\ p.added[Len(o.added) + 1] = k
          /\ \A i \in 1 .. Len(o.added) : p.added[i] = o.added[i]
      BY <1>7, <2>2, AppendProperties
    <2>4. IdIssued(p, k) = IdSpace(o)
      <3>1. Len(o.added) + 1 \in 1 .. Len(p.added)
        BY <1>7, <2>3
      <3>2. IdIssued(p, k) = p.base.n - 1 + (Len(o.added) + 1)
        BY <1>3, <2>3, <3>1, IdsAre
      <3> QED
        BY <1>7, <2>2, <3>2
    <2>5. ASSUME NEW x \in Keys, x # k
          PROVE  IdIssued(p, x) = IdIssued(o, x)
      <3>1. CASE o.base.id[x] # None
        BY <1>3, <2>2, <3>1, IdsAre
      <3>2. CASE \E i \in 1 .. Len(o.added) : o.added[i] = x
        <4>1. PICK i \in 1 .. Len(o.added) : o.added[i] = x
          BY <3>2
        <4>2. i \in 1 .. Len(p.added) /\ p.added[i] = x
          BY <1>7, <2>3, <4>1
        <4>3. IdIssued(o, x) = o.base.n - 1 + i
          BY <4>1, IdsAre
        <4>4. IdIssued(p, x) = p.base.n - 1 + i
          BY <1>3, <4>2, IdsAre
        <4> QED
          BY <2>2, <4>3, <4>4
      <3>3. CASE o.base.id[x] = None /\ \A i \in 1 .. Len(o.added) : o.added[i] # x
        <4>1. \A i \in 1 .. Len(p.added) : p.added[i] # x
          BY <1>7, <2>3, <2>5, <3>3
        <4>2. p.base.id[x] = None
          BY <2>2, <3>3
        <4>3. IdIssued(o, x) = None
          BY <3>3, IdsAre
        <4>4. IdIssued(p, x) = None
          BY <1>3, <4>1, <4>2, IdsAre
        <4> QED
          BY <4>3, <4>4
      <3> QED
        BY <3>1, <3>2, <3>3
    <2>6. t.idOf = [s.idOf EXCEPT ![k] = s.space]
      <3>1. \A x \in Keys : [s.idOf EXCEPT ![k] = s.space][x] = IdIssued(p, x)
        BY <1>4, <2>4, <2>5
      <3> QED
        BY <1>4, <1>5, <3>1
    <2>7. Stable!WithKey(s, k) =
            [idOf |-> [s.idOf EXCEPT ![k] = s.space], space |-> s.space + 1, live |-> s.live \cup {s.space}]
      BY <1>4, <1>8 DEF Stable!WithKey
    <2> QED
      BY <1>1, <1>2, <1>4, <1>5, <2>2, <2>6, <2>7
  <1>9. CASE IdIssued(o, k) # None
    <2>1. IdIssued(o, k) \in 0 .. IdSpace(o) - 1
      BY <1>9, IssuedIds
    <2>2. p = Revive(o, IdIssued(o, k))
      BY <1>9 DEF AddKey
    <2>3. /\ IdSpace(p) = IdSpace(o) /\ LiveIds(p) = LiveIds(o) \cup {IdIssued(o, k)}
          /\ \A x \in Keys : IdIssued(p, x) = IdIssued(o, x)
      BY <2>1, <2>2, ReviveOK
    <2>4. t.idOf = s.idOf
      BY <1>4, <1>5, <2>3
    <2>5. s.idOf[k] = IdIssued(o, k)
      BY <1>4
    <2>6. Stable!WithKey(s, k) = [s EXCEPT !.live = @ \cup {s.idOf[k]}]
      BY <1>9, <2>5 DEF Stable!WithKey
    <2>7. PICK u : u = [s EXCEPT !.live = @ \cup {s.idOf[k]}]
      OBVIOUS
    <2>8. u = [idOf |-> s.idOf, space |-> s.space, live |-> s.live \cup {s.idOf[k]}]
      BY <1>4, <2>7
    <2> QED
      BY <1>1, <1>2, <1>4, <1>5, <2>3, <2>4, <2>5, <2>6, <2>7, <2>8
  <1> QED
    BY <1>8, <1>9

\* Retiring an id: a live one is not live any more, any other changes nothing.
LEMMA RetireIds ==
    ASSUME NEW o, OverlayOK(o), NEW id \in Nat, NEW p, p = RetireId(o, id)
    PROVE  \/ id \in LiveIds(o) /\ IdsOf(p) = [IdsOf(o) EXCEPT !.live = @ \ {id}]
           \/ id \notin LiveIds(o) /\ IdsOf(p) = IdsOf(o)
  <1>1. PICK s : s = IdsOf(o)
    OBVIOUS
  <1>2. PICK t : t = IdsOf(p)
    OBVIOUS
  <1>3. /\ OverlayOK(p) /\ IdSpace(p) = IdSpace(o)
        /\ \A k \in Keys : IdIssued(p, k) = IdIssued(o, k)
        /\ LiveIds(p) = LiveIds(o) \ {id}
    BY RetireOK
  <1>4. /\ s.idOf = [x \in Keys |-> IdIssued(o, x)] /\ s.space = IdSpace(o) /\ s.live = LiveIds(o)
        /\ s = [idOf |-> s.idOf, space |-> s.space, live |-> s.live]
    BY <1>1, IdsFields
  <1>5. /\ t.idOf = [x \in Keys |-> IdIssued(p, x)] /\ t.space = IdSpace(p) /\ t.live = LiveIds(p)
        /\ t = [idOf |-> t.idOf, space |-> t.space, live |-> t.live]
    BY <1>2, <1>3, IdsFields
  <1>6. t.idOf = s.idOf
    BY <1>3, <1>4, <1>5
  <1>7. PICK u : u = [s EXCEPT !.live = @ \ {id}]
    OBVIOUS
  <1>8. u = [idOf |-> s.idOf, space |-> s.space, live |-> s.live \ {id}]
    BY <1>4, <1>7
  <1>9. t = u
    BY <1>3, <1>4, <1>5, <1>6, <1>8
  <1>10. id \notin LiveIds(o) => t = s
    BY <1>3, <1>4, <1>5, <1>6
  <1> QED
    BY <1>1, <1>2, <1>7, <1>9, <1>10

\* A new base over the live keys renumbers them.
LEMMA CompactIds ==
    ASSUME NEW o, OverlayOK(o), Exact(o.base.kind), NEW b \in BasesOver(o.base.kind, LiveKeys(o))
    PROVE  Stable!Renumbers(IdsOf(o), IdsOf(New(b)))
  <1>1. PICK p : p = New(b)
    OBVIOUS
  <1>2. PICK s : s = IdsOf(o)
    OBVIOUS
  <1>3. PICK t : t = IdsOf(p)
    OBVIOUS
  <1>4. /\ OverlayOK(p) /\ Exact(p.base.kind) /\ IdSpace(p) = o.live
        /\ LiveIds(p) = 0 .. IdSpace(p) - 1 /\ LiveKeys(p) = LiveKeys(o)
    BY <1>1, Recompacted
  <1>5. s.idOf = [x \in Keys |-> IdIssued(o, x)] /\ s.live = LiveIds(o)
    BY <1>2, IdsFields
  <1>6. t.idOf = [x \in Keys |-> IdIssued(p, x)] /\ t.space = IdSpace(p) /\ t.live = LiveIds(p)
    BY <1>3, <1>4, IdsFields
  <1>7. Stable!Fresh(t)
    <2>1. BaseOK(b)
      BY CompactStays
    <2> QED
      BY <1>1, <1>3, <2>1, NewFresh
  <1>8. t.space = Cardinality(s.live)
    BY <1>4, <1>5, <1>6 DEF OverlayOK, Counted
  <1>9. ASSUME NEW k \in Keys
        PROVE  t.idOf[k] = None <=> s.idOf[k] \notin s.live
    <2>1. k \in LiveKeys(o) <=> IdIssued(o, k) \in LiveIds(o)
      <3>1. k \in LiveKeys(o) <=> Id(o, k) # None
        BY LiveKeysAre
      <3>2. Id(o, k) # None => IdIssued(o, k) \in LiveIds(o)
        <4>1. Id(o, k) # None => Id(o, k) \in LiveIds(o)
          BY Inverses
        <4> QED
          BY <4>1 DEF Id
      <3>3. IdIssued(o, k) \in LiveIds(o) => Id(o, k) # None
        <4>1. IdIssued(o, k) \in LiveIds(o) => ~ IsDead(o, IdIssued(o, k)) /\ IdIssued(o, k) # None
          <5>1. IdSpace(o) \in Nat /\ None \notin Nat
            BY Sizes DEF OverlayOK
          <5> QED
            BY <5>1 DEF LiveIds
        <4> QED
          BY <4>1 DEF Id
      <3> QED
        BY <3>1, <3>2, <3>3
    <2>2. k \in LiveKeys(p) <=> IdIssued(p, k) # None
      <3>1. k \in LiveKeys(p) <=> Id(p, k) # None
        BY <1>4, LiveKeysAre
      <3>2. IdIssued(p, k) # None => ~ IsDead(p, IdIssued(p, k))
        BY <1>4, IssuedIds DEF LiveIds
      <3> QED
        BY <3>1, <3>2 DEF Id
    <2>3. t.idOf[k] = IdIssued(p, k) /\ s.idOf[k] = IdIssued(o, k)
      BY <1>5, <1>6
    <2>4. k \in LiveKeys(p) <=> k \in LiveKeys(o)
      BY <1>4
    <2> QED
      BY <1>5, <2>1, <2>2, <2>3, <2>4
  <1>10. Stable!Renumbers(s, t)
    <2>1. Stable!Cardinality(s.live) = Cardinality(s.live)
      BY DEF Stable!Cardinality, Cardinality
    <2> QED
      BY <1>7, <1>8, <1>9, <2>1 DEF Stable!Renumbers
  <1> QED
    BY <1>1, <1>2, <1>3, <1>10


\* Every step of the overlay is a step of StableIds, or leaves the ids and the kept copy alone.
LEMMA StepsAreStable == OInv /\ [Next]_vars => [Stable!Next]_(Stable!vars)
  <1> SUFFICES ASSUME OInv, [Next]_vars
               PROVE  Stable!Next \/ UNCHANGED Stable!vars
    OBVIOUS
  <1>1. OverlayOK(ov) /\ FileOK
    BY DEF OInv
  <1>2. ASSUME UNCHANGED file
        PROVE  Kept(file') = Kept(file)
    BY <1>2
  <1>3. ASSUME IdsOf(ov') = IdsOf(ov), Kept(file') = Kept(file)
        PROVE  UNCHANGED Stable!vars
    BY <1>3 DEF Stable!vars
  <1>4. CASE UNCHANGED vars
    BY <1>3, <1>4 DEF vars
  <1>5. ASSUME NEW k \in Keys, Add(k)
        PROVE  Stable!Next
    <2>1. IdsOf(ov') = Stable!WithKey(IdsOf(ov), k)
      BY <1>1, <1>5, AddIds DEF Add
    <2>2. Stable!Add(k)
      BY <1>2, <1>5, <2>1 DEF Add, Stable!Add
    <2> QED
      BY <2>2 DEF Stable!Next
  <1>6. ASSUME NEW id \in Nat, ov' = RetireId(ov, id), UNCHANGED file
        PROVE  Stable!Next \/ UNCHANGED Stable!vars
    <2>1. CASE id \in LiveIds(ov) /\ IdsOf(ov') = [IdsOf(ov) EXCEPT !.live = @ \ {id}]
      <3>1. Stable!Retire(id)
        BY <1>2, <1>6, <2>1 DEF Stable!Retire
      <3>2. id \in IdsOf(ov).live
        BY <1>1, <2>1, IdsFields
      <3> QED
        BY <3>1, <3>2 DEF Stable!Next
    <2>2. CASE id \notin LiveIds(ov) /\ IdsOf(ov') = IdsOf(ov)
      BY <1>2, <1>3, <1>6, <2>2
    <2> QED
      BY <1>1, <1>6, <2>1, <2>2, RetireIds
  <1>7. ASSUME NEW k \in Keys, RemoveKey(k)
        PROVE  Stable!Next \/ UNCHANGED Stable!vars
    <2>1. Exact(ov.base.kind) /\ UNCHANGED file
          /\ ov' = IF Id(ov, k) = None THEN ov ELSE RetireId(ov, Id(ov, k))
      BY <1>7 DEF RemoveKey
    <2>2. CASE Id(ov, k) = None
      BY <1>2, <1>3, <2>1, <2>2
    <2>3. CASE Id(ov, k) # None
      <3>1. Id(ov, k) \in LiveIds(ov)
        BY <1>1, <2>1, <2>3, Inverses
      <3>2. Id(ov, k) \in Nat
        <4>1. IdSpace(ov) \in Nat
          BY <1>1, Sizes DEF OverlayOK
        <4> QED
          BY <3>1, <4>1 DEF LiveIds
      <3> QED
        BY <1>6, <2>1, <2>3, <3>2
    <2> QED
      BY <2>2, <2>3
  <1>8. ASSUME NEW id \in 0 .. IdSpace(ov), Retire(id)
        PROVE  Stable!Next \/ UNCHANGED Stable!vars
    <2>1. id \in Nat
      OBVIOUS
    <2> QED
      BY <1>6, <1>8, <2>1 DEF Retire
  <1>9. CASE Compact
    <2>1. PICK b \in BasesOver(ov.base.kind, LiveKeys(ov)) : ov' = New(b)
      BY <1>9 DEF Compact
    <2>2. Exact(ov.base.kind) /\ UNCHANGED file
      BY <1>9 DEF Compact
    <2>3. Stable!Renumbers(IdsOf(ov), IdsOf(ov'))
      BY <1>1, <2>1, <2>2, CompactIds
    <2>4. Stable!Renumber
      BY <1>2, <2>2, <2>3 DEF Stable!Renumber
    <2> QED
      BY <2>4 DEF Stable!Next
  <1>10. CASE CompactToFile
    <2>1. PICK b \in BasesOver(ov.base.kind, Range(Streamed(ov))) : file' = [kind |-> "base", base |-> b]
      BY <1>10 DEF CompactToFile
    <2>2. Exact(ov.base.kind) /\ ov' = ov
      BY <1>10 DEF CompactToFile
    <2>3. Range(Streamed(ov)) = LiveKeys(ov)
      BY <1>1, <2>2, StreamedOK
    <2>4. Stable!Renumbers(IdsOf(ov), IdsOf(New(b)))
      BY <1>1, <2>1, <2>2, <2>3, CompactIds
    <2>5. file'.kind = "base" /\ file'.base = b
      BY <2>1
    <2>6. Kept(file') = {IdsOf(New(b))}
      BY <2>5 DEF Kept
    <2>7. Stable!RenumberAside
      BY <2>2, <2>4, <2>6 DEF Stable!RenumberAside
    <2> QED
      BY <2>7 DEF Stable!Next
  <1>11. CASE Save
    <2>1. file' = [kind |-> "overlay", blob |-> Blob(ov)] /\ ov' = ov
      BY <1>11 DEF Save
    <2>2. file'.kind = "overlay" /\ file'.blob = Blob(ov)
      BY <2>1
    <2>3. Kept(file') = {IdsOf(ov)}
      BY <1>1, <2>2, BlobIds DEF Kept
    <2>4. Stable!Save
      BY <2>1, <2>3 DEF Stable!Save
    <2> QED
      BY <2>4 DEF Stable!Next
  <1>12. CASE Load
    <2>1. file.kind = "overlay" /\ ov' = Assemble(file.blob) /\ UNCHANGED file
      BY <1>12 DEF Load
    <2>2. OverlayOK(Assemble(file.blob)) /\ Blob(Assemble(file.blob)) = file.blob
      BY <1>1, <2>1 DEF FileOK, NoFile
    <2>3. IdsIn(file.blob) = IdsOf(ov')
      BY <2>1, <2>2, BlobIds
    <2>4. Kept(file) = {IdsOf(ov')}
      BY <2>1, <2>3 DEF Kept
    <2>5. Stable!Load
      BY <1>2, <2>1, <2>4 DEF Stable!Load
    <2> QED
      BY <2>5 DEF Stable!Next
  <1>13. CASE LoadBase
    <2>1. file.kind = "base" /\ ov' = New(file.base) /\ UNCHANGED file
      BY <1>13 DEF LoadBase
    <2>2. Kept(file) = {IdsOf(ov')}
      BY <2>1 DEF Kept
    <2>3. Stable!Load
      BY <1>2, <2>1, <2>2 DEF Stable!Load
    <2> QED
      BY <2>3 DEF Stable!Next
  <1> QED
    BY <1>4, <1>5, <1>7, <1>8, <1>9, <1>10, <1>11, <1>12, <1>13 DEF Next

\* The overlay implements StableIds: an id issued stays its key's and is never issued again, a
\* retired one is revived only by its key, and only a compaction renumbers, also for the holder of
\* a saved copy (struct Overlay's contract over add, retire_id, compact, save and load_with).
THEOREM KeepsStable == Spec => KeepsIdsStable
  <1>1. Init => Stable!Init
    <2> SUFFICES ASSUME Init
                 PROVE  Stable!Init
      OBVIOUS
    <2>1. PICK kind \in Bases, S \in SUBSET Keys : \E b \in BasesOver(kind, S) : ov = New(b)
      BY DEF Init
    <2>2. PICK b \in BasesOver(kind, S) : ov = New(b)
      BY <2>1
    <2>3. Stable!Fresh(IdsOf(ov))
      BY <2>2, BasesOK, NewFresh
    <2>4. Kept(file) = {}
      BY DEF Init, NoFile, Kept
    <2> QED
      BY <2>3, <2>4 DEF Stable!Init
  <1> QED
    BY <1>1, StepsAreStable, OverlayInvariant, PTL DEF Spec, KeepsIdsStable, Stable!Spec

===============================================================================
