----------------------------- MODULE ExtSortProofs -----------------------------
(***************************************************************************)
(* What a streaming build promises, proved for every finite set of keys,   *)
(* any budget, fan-in, number of walks and faults.  First what a merge of  *)
(* runs yields, and that dropping repeats from it sorts; then that the     *)
(* steps keep XInv, and what follows from it.                              *)
(***************************************************************************)
EXTENDS ExtSort, FiniteSetTheorems, SequenceTheorems, WellFoundedInduction, TLAPS

\* A set of numbers has a least one.
LEMMA LeastOf ==
    ASSUME NEW T, T \subseteq Nat, T # {}
    PROVE  \E n \in T : \A m \in T : n <= m
  <1>1. PICK x \in T : \A y \in T : ~ (<<y, x>> \in OpToRel(<, Nat))
    BY NatLessThanWellFounded, WFMin
  <1>2. \A y \in T : x <= y
    <2> TAKE y \in T
    <2>1. ~ (y < x)
      BY <1>1 DEF OpToRel
    <2> QED
      BY <2>1
  <1> QED
    BY <1>2

\* Induction, over the set of the numbers that have a property.
LEMMA Counting ==
    ASSUME NEW S, 0 \in S, \A n \in Nat : n \in S => n + 1 \in S
    PROVE  Nat \subseteq S
  <1> SUFFICES ASSUME Nat \ S # {} PROVE FALSE
    OBVIOUS
  <1>1. PICK n \in Nat \ S : \A m \in Nat \ S : n <= m
    BY LeastOf
  <1>2. n # 0 /\ n - 1 \in Nat
    BY <1>1
  <1> QED
    BY <1>1, <1>2

-------------------------------------------------------------------------------
(* Sorting. *)

Rising(s) == \A i, j \in 1 .. Len(s) : i < j => s[i] < s[j]

\* A map of one set onto another, and one to one: as many elements.
LEMMA OneToOne ==
    ASSUME NEW S, NEW T, IsFiniteSet(S), NEW f \in [S -> T],
           \A a, b \in S : f[a] = f[b] => a = b, \A t \in T : \E a \in S : f[a] = t
    PROVE  IsFiniteSet(T) /\ Cardinality(T) = Cardinality(S)
  <1>1. f \in Surjection(S, T)
    BY DEF Surjection
  <1>2. f \in Injection(S, T)
    BY DEF Injection, IsInjective
  <1> QED
    BY <1>1, <1>2, FS_Surjection

\* One to one between sets of one size is onto.
LEMMA OntoAll ==
    ASSUME NEW S, NEW T, IsFiniteSet(T), NEW f \in [S -> T], Cardinality(S) = Cardinality(T),
           \A a, b \in S : f[a] = f[b] => a = b
    PROVE  \A t \in T : \E a \in S : f[a] = t
  <1>1. f \in Injection(S, T)
    BY DEF Injection, IsInjective
  <1>2. f \in Surjection(S, T)
    BY <1>1, FS_Injection
  <1> QED
    BY <1>2 DEF Surjection

\* A finite set of keys can be put in order.
LEMMA CanBeSorted ==
    ASSUME NEW T \in SUBSET Keys, NEW n \in Nat, Cardinality(T) = n
    PROVE  \E t \in [1 .. n -> T] : \A i, j \in 1 .. n : i < j => t[i] < t[j]
  <1> DEFINE InOrder(t, m) == \A i, j \in 1 .. m : i < j => t[i] < t[j]
             S == {m \in Nat : \A U \in SUBSET Keys :
                        Cardinality(U) = m => \E t \in [1 .. m -> U] : InOrder(t, m)}
  <1>1. 0 \in S
    <2> SUFFICES ASSUME NEW U \in SUBSET Keys
                 PROVE  \E t \in [1 .. 0 -> U] : InOrder(t, 0)
      OBVIOUS
    <2>1. PICK t : t = [i \in 1 .. 0 |-> CHOOSE u \in U : TRUE]
      OBVIOUS
    <2>2. t \in [1 .. 0 -> U] /\ InOrder(t, 0)
      BY <2>1
    <2> QED
      BY <2>2
  <1>2. ASSUME NEW m \in Nat, m \in S
        PROVE  m + 1 \in S
    <2> SUFFICES ASSUME NEW U \in SUBSET Keys, Cardinality(U) = m + 1
                 PROVE  \E t \in [1 .. m + 1 -> U] : InOrder(t, m + 1)
      OBVIOUS
    <2>1. IsFiniteSet(U) /\ U \subseteq Nat
      BY KeysAssumption, FS_Subset
    <2>2. U # {}
      BY <2>1, FS_EmptySet
    <2>3. PICK x \in U : \A y \in U : x <= y
      BY <2>1, <2>2, LeastOf
    <2>4. Cardinality(U \ {x}) = m /\ U \ {x} \in SUBSET Keys
      <3>1. Cardinality(U \ {x}) = Cardinality(U) - 1
        BY <2>1, <2>3, FS_RemoveElement
      <3> QED
        BY <3>1
    <2>5. PICK r \in [1 .. m -> U \ {x}] : InOrder(r, m)
      BY <1>2, <2>4
    <2>6. PICK t : t = [i \in 1 .. m + 1 |-> IF i = 1 THEN x ELSE r[i - 1]]
      OBVIOUS
    <2>7. t \in [1 .. m + 1 -> U]
      <3>1. \A i \in 1 .. m + 1 : i # 1 => i - 1 \in 1 .. m
        OBVIOUS
      <3> QED
        BY <2>3, <2>5, <2>6, <3>1
    <2>8. InOrder(t, m + 1)
      <3> SUFFICES ASSUME NEW i \in 1 .. m + 1, NEW j \in 1 .. m + 1, i < j
                   PROVE  t[i] < t[j]
        OBVIOUS
      <3>1. j - 1 \in 1 .. m /\ t[j] = r[j - 1] /\ r[j - 1] \in U /\ r[j - 1] # x
        <4>1. j # 1 /\ j - 1 \in 1 .. m
          OBVIOUS
        <4>2. t[j] = r[j - 1]
          BY <2>6, <4>1
        <4>3. r[j - 1] \in U \ {x}
          BY <2>5, <4>1
        <4> QED
          BY <4>1, <4>2, <4>3
      <3>2. CASE i = 1
        <4>1. t[i] = x /\ x <= r[j - 1] /\ x \in Nat /\ r[j - 1] \in Nat
          BY <2>1, <2>3, <2>6, <3>1, <3>2
        <4> QED
          BY <3>1, <4>1
      <3>3. CASE i # 1
        <4>1. i - 1 \in 1 .. m /\ t[i] = r[i - 1] /\ i - 1 < j - 1
          BY <2>6, <3>3
        <4> QED
          BY <2>5, <3>1, <4>1
      <3> QED
        BY <3>2, <3>3
    <2> QED
      BY <2>7, <2>8
  <1>3. Nat \subseteq S
    <2> HIDE DEF S
    <2> QED
      BY <1>1, <1>2, Counting
  <1> QED
    BY <1>3

\* A sequence of keys by its places.
LEMMA RunIs ==
    ASSUME NEW s \in Seq(Keys)
    PROVE  /\ Len(s) \in Nat /\ DOMAIN s = 1 .. Len(s) /\ s \in [1 .. Len(s) -> Keys]
           /\ \A i \in 1 .. Len(s) : s[i] \in Keys /\ s[i] \in Nat /\ s[i] \in Range(s)
           /\ Range(s) = {s[i] : i \in 1 .. Len(s)} /\ Range(s) \subseteq Keys
           /\ \A k \in Range(s) : \E i \in 1 .. Len(s) : s[i] = k
           /\ IsFiniteSet(Range(s))
  <1>1. Len(s) \in Nat /\ DOMAIN s = 1 .. Len(s) /\ s \in [1 .. Len(s) -> Keys]
    BY LenProperties
  <1>2. Range(s) = {s[i] : i \in 1 .. Len(s)}
    BY <1>1 DEF Range
  <1>3. Range(s) \subseteq Keys
    BY <1>1, <1>2
  <1>4. IsFiniteSet(Range(s))
    BY <1>3, KeysAssumption, FS_Subset
  <1> QED
    BY <1>1, <1>2, <1>3, <1>4, KeysAssumption

\* Two rising sequences of the same keys are one.
LEMMA OneOrder ==
    ASSUME NEW s \in Seq(Keys), NEW t \in Seq(Keys), Rising(s), Rising(t), Range(s) = Range(t),
           Len(s) <= Len(t)
    PROVE  s = t
  <1>n. /\ Len(s) \in Nat /\ Len(t) \in Nat
        /\ \A i \in 1 .. Len(s) : s[i] \in Nat
        /\ \A i \in 1 .. Len(t) : t[i] \in Nat
    BY RunIs
  <1>r. /\ \A i, j \in 1 .. Len(s) : i < j => s[i] < s[j]
        /\ \A i, j \in 1 .. Len(t) : i < j => t[i] < t[j]
    BY DEF Rising
  <1>e. /\ \A i \in 1 .. Len(s) : \E j \in 1 .. Len(t) : t[j] = s[i]
        /\ \A i \in 1 .. Len(t) : \E j \in 1 .. Len(s) : s[j] = t[i]
    BY RunIs
  <1>1. \A i \in 1 .. Len(s) : s[i] = t[i]
    <2> DEFINE D == {i \in 1 .. Len(s) : s[i] # t[i]}
    <2> SUFFICES ASSUME D # {} PROVE FALSE
      OBVIOUS
    <2>1. PICK i \in D : \A j \in D : i <= j
      <3> HIDE DEF D
      <3>1. D \subseteq Nat
        BY <1>n DEF D
      <3> QED
        BY <3>1, LeastOf
    <2>2. i \in 1 .. Len(s) /\ i \in 1 .. Len(t) /\ s[i] # t[i]
      BY <2>1, <1>n
    <2>3. \A j \in 1 .. Len(s) : j < i => s[j] = t[j]
      BY <2>1, <1>n
    <2>4. CASE s[i] < t[i]
      <3>1. PICK j \in 1 .. Len(t) : t[j] = s[i]
        BY <2>2, <1>e
      <3>2. j \in Nat /\ i \in Nat /\ t[j] < t[i] /\ t[i] \in Nat /\ t[j] \in Nat
        BY <2>2, <2>4, <3>1, <1>n
      <3>3. ~ (i < j) /\ i # j
        BY <2>2, <3>1, <3>2, <1>r
      <3>4. j < i /\ j \in 1 .. Len(s)
        BY <3>2, <3>3, <2>2, <1>n
      <3>5. s[j] = t[j] /\ s[j] < s[i]
        BY <2>2, <2>3, <3>4, <1>r
      <3> QED
        BY <3>1, <3>2, <3>5
    <2>5. CASE t[i] < s[i]
      <3>1. PICK j \in 1 .. Len(s) : s[j] = t[i]
        BY <2>2, <1>e
      <3>2. j \in Nat /\ i \in Nat /\ s[j] < s[i] /\ s[i] \in Nat /\ s[j] \in Nat
        BY <2>2, <2>5, <3>1, <1>n
      <3>3. ~ (i < j) /\ i # j
        BY <2>2, <3>1, <3>2, <1>r
      <3>4. j < i /\ j \in 1 .. Len(t)
        BY <3>2, <3>3, <2>2, <1>n
      <3>5. s[j] = t[j] /\ t[j] < t[i]
        BY <2>2, <2>3, <3>1, <3>4, <1>r
      <3> QED
        BY <3>1, <3>2, <3>5
    <2>6. s[i] \in Nat /\ t[i] \in Nat
      BY <2>2, <1>n
    <2> QED
      BY <2>2, <2>4, <2>5, <2>6
  <1>2. Len(t) <= Len(s)
    <2> SUFFICES ASSUME Len(s) < Len(t) PROVE FALSE
      BY <1>n
    <2>1. Len(s) + 1 \in 1 .. Len(t)
      BY <1>n
    <2>2. PICK j \in 1 .. Len(s) : s[j] = t[Len(s) + 1]
      BY <2>1, <1>e
    <2>3. j \in 1 .. Len(t) /\ j < Len(s) + 1 /\ t[j] = s[j]
      BY <1>1, <1>n
    <2>4. t[j] < t[Len(s) + 1] /\ t[j] \in Nat
      BY <2>1, <2>3, <1>r, <1>n
    <2> QED
      BY <2>2, <2>3, <2>4
  <1> QED
    BY <1>1, <1>2, <1>n, SeqEqual

\* Sorted has the keys of a run, each once, in order.
LEMMA SortedOK ==
    ASSUME NEW r \in Seq(Keys)
    PROVE  Sorted(r) \in Seq(Keys) /\ Rising(Sorted(r)) /\ Range(Sorted(r)) = Range(r)
  <1>r. Range(r) \in SUBSET Keys /\ IsFiniteSet(Range(r))
    BY RunIs
  <1> DEFINE R == Range(r)
             n == Cardinality(R)
  <1>1. n \in Nat
    BY <1>r, FS_CardinalityType
  <1>2. \E t \in [1 .. n -> R] : \A i, j \in 1 .. n : i < j => t[i] < t[j]
    BY <1>r, <1>1, CanBeSorted
  <1>3. PICK t : t = Sorted(r)
    OBVIOUS
  <1>4. t \in [1 .. n -> R] /\ \A i, j \in 1 .. n : i < j => t[i] < t[j]
    <2>1. \A x \in [1 .. n -> R] : DOMAIN x = 1 .. n
      OBVIOUS
    <2>2. \E x \in [1 .. n -> R] : \A i, j \in DOMAIN x : i < j => x[i] < x[j]
      BY <1>2, <2>1
    <2>3. t \in [1 .. n -> R] /\ \A i, j \in DOMAIN t : i < j => t[i] < t[j]
      BY <1>3, <2>2 DEF Sorted
    <2> QED
      BY <2>1, <2>3
  <1>5. t \in Seq(Keys) /\ Len(t) = n
    BY <1>1, <1>4, <1>r
  <1>6. \A i, j \in 1 .. n : t[i] = t[j] => i = j
    <2> SUFFICES ASSUME NEW i \in 1 .. n, NEW j \in 1 .. n, i < j
                 PROVE  t[i] # t[j]
      BY <1>1
    <2>1. t[i] < t[j] /\ t[i] \in Nat /\ t[j] \in Nat
      BY <1>4, <1>r, KeysAssumption
    <2> QED
      BY <2>1
  <1>7. \A k \in R : \E i \in 1 .. n : t[i] = k
    <2>1. Cardinality(1 .. n) = n
      BY <1>1, FS_Interval
    <2>2. \A i, j \in 1 .. n : t[i] = t[j] => i = j
      BY <1>6
    <2>3. PICK D : D = 1 .. n
      OBVIOUS
    <2>4. PICK T : T = R
      OBVIOUS
    <2>5. /\ IsFiniteSet(T) /\ t \in [D -> T] /\ Cardinality(D) = Cardinality(T)
          /\ \A i, j \in D : t[i] = t[j] => i = j
      BY <1>r, <1>4, <2>1, <2>2, <2>3, <2>4
    <2>6. \A k \in T : \E i \in D : t[i] = k
      BY <2>5, OntoAll
    <2> QED
      BY <2>3, <2>4, <2>6
  <1>8. Range(t) = R
    BY <1>4, <1>5, <1>7 DEF Range
  <1> QED
    BY <1>3, <1>4, <1>5, <1>8 DEF Rising

\* It is the only such sequence.
LEMMA SortedIs ==
    ASSUME NEW r \in Seq(Keys), NEW s \in Seq(Keys), Rising(s), Range(s) = Range(r)
    PROVE  s = Sorted(r)
  <1>1. Sorted(r) \in Seq(Keys) /\ Rising(Sorted(r)) /\ Range(Sorted(r)) = Range(s)
    BY SortedOK
  <1>2. Len(s) \in Nat /\ Len(Sorted(r)) \in Nat
    BY <1>1, LenProperties
  <1>3. CASE Len(s) <= Len(Sorted(r))
    BY <1>1, <1>3, OneOrder
  <1>4. CASE Len(Sorted(r)) <= Len(s)
    BY <1>1, <1>4, OneOrder
  <1> QED
    BY <1>2, <1>3, <1>4

-------------------------------------------------------------------------------
(* What a merge of runs yields. *)

Climbing(s) == \A i, j \in 1 .. Len(s) : i < j => s[i] <= s[j]

\* Runs of keys in order, repeats allowed.
Mergeable(f) ==
    /\ f \in Seq(Seq(Keys))
    /\ \A slot \in 1 .. Len(f) : Climbing(f[slot])

\* The keys of all the runs.
KeysOf(f) == UNION {Range(f[slot]) : slot \in 1 .. Len(f)}

\* Entries are places in the runs, and each has a key.
LEMMA EntriesAre ==
    ASSUME NEW f, Mergeable(f)
    PROVE  /\ DOMAIN f = 1 .. Len(f) /\ Len(f) \in Nat
           /\ \A slot \in 1 .. Len(f) : f[slot] \in Seq(Keys) /\ Len(f[slot]) \in Nat
                                          /\ DOMAIN f[slot] = 1 .. Len(f[slot])
           /\ \A e \in Entries(f) : /\ e[1] \in 1 .. Len(f) /\ e[2] \in 1 .. Len(f[e[1]]) /\ e = <<e[1], e[2]>>
                                    /\ KeyAt(f, e) \in Keys /\ KeyAt(f, e) \in Nat
           /\ \A slot \in 1 .. Len(f) : \A i \in 1 .. Len(f[slot]) : <<slot, i>> \in Entries(f)
           /\ \A d, e \in Entries(f) : d[1] = e[1] /\ d[2] <= e[2] => KeyAt(f, d) <= KeyAt(f, e)
  <1>1. DOMAIN f = 1 .. Len(f) /\ Len(f) \in Nat /\ \A slot \in 1 .. Len(f) : f[slot] \in Seq(Keys)
    BY LenProperties DEF Mergeable
  <1>2. \A slot \in 1 .. Len(f) : /\ Len(f[slot]) \in Nat /\ DOMAIN f[slot] = 1 .. Len(f[slot])
                                  /\ \A i \in 1 .. Len(f[slot]) : f[slot][i] \in Keys /\ f[slot][i] \in Nat
    BY <1>1, RunIs
  <1>3. ASSUME NEW e \in Entries(f)
        PROVE  e[1] \in 1 .. Len(f) /\ e[2] \in 1 .. Len(f[e[1]]) /\ e = <<e[1], e[2]>>
    BY <1>1, <1>2 DEF Entries
  <1>4. \A e \in Entries(f) : KeyAt(f, e) \in Keys /\ KeyAt(f, e) \in Nat
    BY <1>2, <1>3 DEF KeyAt
  <1>5. \A slot \in 1 .. Len(f) : \A i \in 1 .. Len(f[slot]) : <<slot, i>> \in Entries(f)
    BY <1>1, <1>2 DEF Entries
  <1>6. ASSUME NEW d \in Entries(f), NEW e \in Entries(f), d[1] = e[1], d[2] <= e[2]
        PROVE  KeyAt(f, d) <= KeyAt(f, e)
    <2>1. \A i, j \in 1 .. Len(f[e[1]]) : i < j => f[e[1]][i] <= f[e[1]][j]
      BY <1>3 DEF Mergeable, Climbing
    <2>2. d[2] \in 1 .. Len(f[e[1]]) /\ e[2] \in 1 .. Len(f[e[1]]) /\ Len(f[e[1]]) \in Nat /\ d[2] \in Nat /\ e[2] \in Nat
      BY <1>2, <1>3, <1>6
    <2>3. CASE d[2] = e[2]
      BY <1>4, <1>6, <2>3 DEF KeyAt
    <2>4. CASE d[2] < e[2]
      BY <1>6, <2>1, <2>2, <2>4 DEF KeyAt
    <2> QED
      BY <1>6, <2>2, <2>3, <2>4
  <1> QED
    BY <1>1, <1>2, <1>3, <1>4, <1>5, <1>6

\* There are finitely many.
LEMMA EntriesFinite ==
    ASSUME NEW f, Mergeable(f)
    PROVE  IsFiniteSet(Entries(f))
  <1> DEFINE Of(slot) == {<<slot, i>> : i \in DOMAIN f[slot]}
             All == {Of(slot) : slot \in DOMAIN f}
  <1>1. DOMAIN f = 1 .. Len(f) /\ Len(f) \in Nat
        /\ \A slot \in 1 .. Len(f) : Len(f[slot]) \in Nat /\ DOMAIN f[slot] = 1 .. Len(f[slot])
    BY EntriesAre
  <1>2. IsFiniteSet(All)
    <2>1. IsFiniteSet(1 .. Len(f))
      BY <1>1, FS_Interval
    <2> DEFINE g == [slot \in 1 .. Len(f) |-> Of(slot)]
    <2>2. g \in Surjection(1 .. Len(f), All)
      <3>1. \A slot \in 1 .. Len(f) : Of(slot) \in All
        BY <1>1
      <3>2. \A T \in All : \E slot \in 1 .. Len(f) : Of(slot) = T
        BY <1>1
      <3> HIDE DEF All, Of
      <3>3. g \in [1 .. Len(f) -> All] /\ \A T \in All : \E slot \in 1 .. Len(f) : g[slot] = T
        BY <3>1, <3>2
      <3> QED
        BY <3>3 DEF Surjection
    <2> HIDE DEF g, All
    <2> QED
      BY <2>1, <2>2, FS_Surjection
  <1>3. ASSUME NEW slot \in 1 .. Len(f) PROVE IsFiniteSet(Of(slot))
    <2>1. PICK n \in Nat : n = Len(f[slot]) /\ DOMAIN f[slot] = 1 .. n
      BY <1>1
    <2>2. IsFiniteSet(1 .. n)
      BY FS_Interval
    <2> DEFINE g == [i \in 1 .. n |-> <<slot, i>>]
    <2>3. g \in Surjection(1 .. n, Of(slot))
      BY <2>1 DEF Surjection
    <2> HIDE DEF g, Of
    <2> QED
      BY <2>2, <2>3, FS_Surjection
  <1>4. \A T \in All : IsFiniteSet(T)
    BY <1>1, <1>3
  <1>5. IsFiniteSet(UNION All)
    <2> HIDE DEF All
    <2> QED
      BY <1>2, <1>4, FS_UNION
  <1> QED
    BY <1>5 DEF Entries

\* The key popped is one of those unread, and none of them is less.
LEMMA PopsLeast ==
    ASSUME NEW f, Mergeable(f), NEW U \in SUBSET Entries(f), U # {}
    PROVE  Popped(f, U) \in U /\ \A d \in U : KeyAt(f, Popped(f, U)) <= KeyAt(f, d)
  <1>e. /\ \A e \in U : e[1] \in Nat /\ e[2] \in Nat /\ e = <<e[1], e[2]>> /\ KeyAt(f, e) \in Nat
        /\ \A d, e \in U : d[1] = e[1] /\ d[2] <= e[2] => KeyAt(f, d) <= KeyAt(f, e)
    BY EntriesAre
  <1>h. ASSUME NEW d \in U
        PROVE  \E e \in Heads(U) : e[1] = d[1] /\ KeyAt(f, e) <= KeyAt(f, d)
    <2> DEFINE P == {e[2] : e \in {x \in U : x[1] = d[1]}}
    <2>1. P \subseteq Nat /\ P # {}
      BY <1>e
    <2>2. PICK i \in P : \A j \in P : i <= j
      <3> HIDE DEF P
      <3> QED
        BY <2>1, LeastOf
    <2>3. PICK e \in U : e[1] = d[1] /\ e[2] = i
      BY <2>2
    <2>4. e \in Heads(U)
      BY <2>2, <2>3 DEF Heads
    <2>5. e[2] <= d[2]
      BY <2>2, <2>3
    <2> QED
      BY <2>3, <2>4, <2>5, <1>e
  <1>1. \E e \in Heads(U) : \A d \in Heads(U) :
            KeyAt(f, e) < KeyAt(f, d) \/ (KeyAt(f, e) = KeyAt(f, d) /\ e[1] <= d[1])
    <2>u. Heads(U) \subseteq U
      BY DEF Heads
    <2> DEFINE K == {KeyAt(f, e) : e \in Heads(U)}
    <2>1. K \subseteq Nat /\ K # {}
      BY <2>u, <1>e, <1>h
    <2>2. PICK k \in K : \A j \in K : k <= j
      <3> HIDE DEF K
      <3> QED
        BY <2>1, LeastOf
    <2> DEFINE L == {e[1] : e \in {x \in Heads(U) : KeyAt(f, x) = k}}
    <2>3. L \subseteq Nat /\ L # {}
      BY <2>2, <2>u, <1>e
    <2>4. PICK l \in L : \A j \in L : l <= j
      <3> HIDE DEF L
      <3> QED
        BY <2>3, LeastOf
    <2>5. PICK e \in Heads(U) : KeyAt(f, e) = k /\ e[1] = l
      BY <2>4
    <2>6. ASSUME NEW d \in Heads(U)
          PROVE  KeyAt(f, e) < KeyAt(f, d) \/ (KeyAt(f, e) = KeyAt(f, d) /\ e[1] <= d[1])
      <3>1. KeyAt(f, d) \in Nat /\ KeyAt(f, e) \in Nat /\ k <= KeyAt(f, d)
        BY <2>2, <2>u, <1>e
      <3>2. KeyAt(f, d) = k => l <= d[1]
        BY <2>4
      <3> QED
        BY <3>1, <3>2, <2>5
    <2> QED
      BY <2>6
  <1>2. PICK p : p = Popped(f, U)
    OBVIOUS
  <1>3. p \in Heads(U) /\ \A d \in Heads(U) :
            KeyAt(f, p) < KeyAt(f, d) \/ (KeyAt(f, p) = KeyAt(f, d) /\ p[1] <= d[1])
    BY <1>1, <1>2 DEF Popped
  <1>4. p \in U
    BY <1>3 DEF Heads
  <1>5. ASSUME NEW d \in U PROVE KeyAt(f, p) <= KeyAt(f, d)
    <2>1. PICK e \in Heads(U) : KeyAt(f, e) <= KeyAt(f, d)
      BY <1>h
    <2>2. e \in U /\ KeyAt(f, e) \in Nat /\ KeyAt(f, d) \in Nat /\ KeyAt(f, p) \in Nat
      BY <1>4, <1>e DEF Heads
    <2> QED
      BY <1>3, <2>1, <2>2
  <1> QED
    BY <1>2, <1>4, <1>5


\* The function of Pulled: what is left of a set of entries comes after the one popped.
Pulls(f, pull) ==
    pull = [unread \in SUBSET Entries(f) |->
                IF unread = {} THEN <<>> ELSE <<Popped(f, unread)>> \o pull[unread \ {Popped(f, unread)}]]

\* There is one: each entry popped leaves one fewer.
LEMMA PullExists ==
    ASSUME NEW f, Mergeable(f)
    PROVE  \E pull : Pulls(f, pull)
  <1> DEFINE E == Entries(f)
             Small(m) == {U \in SUBSET E : Cardinality(U) <= m}
             From(m, p) == [U \in Small(m) |-> IF U = {} THEN <<>> ELSE <<Popped(f, U)>> \o p[U \ {Popped(f, U)}]]
             S == {m \in Nat : \E p : p = From(m, p)}
  <1>f. IsFiniteSet(E)
    BY EntriesFinite
  <1>c. ASSUME NEW U \in SUBSET E
        PROVE  /\ IsFiniteSet(U) /\ Cardinality(U) \in Nat /\ (Cardinality(U) = 0 <=> U = {})
               /\ U # {} => U \ {Popped(f, U)} \in SUBSET E
                            /\ Cardinality(U \ {Popped(f, U)}) = Cardinality(U) - 1
    <2>1. IsFiniteSet(U)
      BY <1>f, FS_Subset
    <2>2. Cardinality(U) \in Nat /\ (Cardinality(U) = 0 <=> U = {})
      BY <2>1, FS_CardinalityType, FS_EmptySet
    <2>3. ASSUME U # {} PROVE Cardinality(U \ {Popped(f, U)}) = Cardinality(U) - 1
      <3>1. Popped(f, U) \in U
        BY <2>3, PopsLeast
      <3> QED
        BY <2>1, <3>1, FS_RemoveElement
    <2> QED
      BY <2>1, <2>2, <2>3
  <1>n. \A U \in SUBSET E : Cardinality(U) \in Nat /\ (Cardinality(U) = 0 => U = {})
    BY <1>c
  <1>p. \A U \in SUBSET E : U # {} => U \ {Popped(f, U)} \in SUBSET E
                                     /\ Cardinality(U \ {Popped(f, U)}) = Cardinality(U) - 1
    BY <1>c
  <1>1. 0 \in S
    <2>1. PICK p : p = [U \in Small(0) |-> <<>>]
      OBVIOUS
    <2>2. ASSUME NEW U \in Small(0) PROVE U = {}
      <3>1. U \in SUBSET E /\ Cardinality(U) <= 0
        OBVIOUS
      <3>2. Cardinality(U) \in Nat /\ (Cardinality(U) = 0 => U = {})
        BY <3>1, <1>n
      <3> QED
        BY <3>1, <3>2
    <2>3. p = From(0, p)
      BY <2>1, <2>2
    <2> QED
      BY <2>3
  <1>2. ASSUME NEW m \in Nat, m \in S
        PROVE  m + 1 \in S
    <2>1. PICK p : p = From(m, p)
      BY <1>2
    <2>2. PICK q : q = From(m + 1, p)
      OBVIOUS
    <2>3. ASSUME NEW U \in Small(m) PROVE q[U] = p[U]
      <3>1. U \in Small(m + 1)
        <4>1. U \in SUBSET E /\ Cardinality(U) <= m
          OBVIOUS
        <4>2. Cardinality(U) \in Nat
          BY <4>1, <1>n
        <4> QED
          BY <4>1, <4>2
      <3>2. q[U] = IF U = {} THEN <<>> ELSE <<Popped(f, U)>> \o p[U \ {Popped(f, U)}]
        BY <2>2, <3>1
      <3>3. p[U] = IF U = {} THEN <<>> ELSE <<Popped(f, U)>> \o p[U \ {Popped(f, U)}]
        BY <2>1
      <3> QED
        BY <3>2, <3>3
    <2>4. ASSUME NEW U \in Small(m + 1), U # {} PROVE U \ {Popped(f, U)} \in Small(m)
      <3>1. U \in SUBSET E /\ Cardinality(U) <= m + 1
        OBVIOUS
      <3>2. Cardinality(U) \in Nat
        BY <3>1, <1>n
      <3>3. U \ {Popped(f, U)} \in SUBSET E /\ Cardinality(U \ {Popped(f, U)}) = Cardinality(U) - 1
        BY <2>4, <3>1, <1>p
      <3> QED
        BY <3>1, <3>2, <3>3
    <2>5. \A U \in Small(m + 1) : U # {} => q[U \ {Popped(f, U)}] = p[U \ {Popped(f, U)}]
      BY <2>3, <2>4
    <2>6. q = From(m + 1, q)
      <3> HIDE DEF Small
      <3> QED
        BY <2>2, <2>5
    <2> QED
      <3> HIDE DEF From
      <3> QED
        BY <2>6
  <1>3. Nat \subseteq S
    <2> HIDE DEF S
    <2> QED
      BY <1>1, <1>2, Counting
  <1>4. PICK m \in Nat : m = Cardinality(E)
    BY <1>c
  <1>5. \A U \in SUBSET E : Cardinality(U) <= m
    BY <1>f, <1>4, FS_Subset
  <1>6. PICK p : p = From(m, p)
    BY <1>3
  <1>7. Small(m) = SUBSET E
    BY <1>5
  <1>8. Pulls(f, p)
    BY <1>6, <1>7 DEF Pulls
  <1> QED
    BY <1>8

\* A merge yields every entry, in the order of the keys.
LEMMA PulledOK ==
    ASSUME NEW f, Mergeable(f)
    PROVE  /\ Pulled(f) \in Seq(Entries(f))
           /\ \A e \in Entries(f) : \E i \in 1 .. Len(Pulled(f)) : Pulled(f)[i] = e
           /\ \A i, j \in 1 .. Len(Pulled(f)) : i < j => KeyAt(f, Pulled(f)[i]) <= KeyAt(f, Pulled(f)[j])
  <1> DEFINE E == Entries(f)
             Good(U, s) == /\ s \in Seq(U)
                           /\ \A e \in U : \E i \in 1 .. Len(s) : s[i] = e
                           /\ \A i, j \in 1 .. Len(s) : i < j => KeyAt(f, s[i]) <= KeyAt(f, s[j])
  <1>1. PICK pull : Pulls(f, pull) /\ Pulled(f) = pull[E]
    <2>1. PICK pull : pull = CHOOSE x : Pulls(f, x)
      OBVIOUS
    <2>2. Pulls(f, pull)
      BY <2>1, PullExists
    <2>3. Pulled(f) = pull[E]
      BY <2>1 DEF Pulled, Pulls
    <2> QED
      BY <2>2, <2>3
  <1>2. /\ pull[{}] = <<>>
        /\ \A U \in SUBSET E : U # {} => pull[U] = <<Popped(f, U)>> \o pull[U \ {Popped(f, U)}]
    BY <1>1 DEF Pulls
  <1>f. IsFiniteSet(E)
    BY EntriesFinite
  <1> DEFINE S == {m \in Nat : \A U \in SUBSET E : Cardinality(U) = m => Good(U, pull[U])}
  <1>3. 0 \in S
    <2> SUFFICES ASSUME NEW U \in SUBSET E, Cardinality(U) = 0
                 PROVE  Good(U, pull[U])
      OBVIOUS
    <2>1. U = {}
      BY <1>f, FS_Subset, FS_EmptySet
    <2>2. pull[U] = <<>> /\ <<>> \in Seq(U) /\ Len(<<>>) = 0
      BY <1>2, <2>1
    <2>3. PICK s : s = pull[U]
      OBVIOUS
    <2>4. s \in Seq(U) /\ Len(s) = 0
      BY <2>2, <2>3
    <2>5. \A i \in 1 .. Len(s) : FALSE
      BY <2>4
    <2>6. Good(U, s)
      BY <2>1, <2>4, <2>5
    <2> QED
      BY <2>3, <2>6
  <1>4. ASSUME NEW m \in Nat, m \in S
        PROVE  m + 1 \in S
    <2> SUFFICES ASSUME NEW U \in SUBSET E, Cardinality(U) = m + 1
                 PROVE  Good(U, pull[U])
      OBVIOUS
    <2>1. IsFiniteSet(U) /\ U # {}
      BY <1>f, FS_Subset, FS_EmptySet
    <2>2. PICK e : e = Popped(f, U)
      OBVIOUS
    <2>3. e \in U /\ \A d \in U : KeyAt(f, e) <= KeyAt(f, d)
      BY <2>1, <2>2, PopsLeast
    <2>4. U \ {e} \in SUBSET E /\ Cardinality(U \ {e}) = m
      <3>1. Cardinality(U \ {e}) = Cardinality(U) - 1
        BY <2>1, <2>3, FS_RemoveElement
      <3> QED
        BY <3>1
    <2>5. PICK r : r = pull[U \ {e}]
      OBVIOUS
    <2>6. Good(U \ {e}, r)
      BY <1>4, <2>4, <2>5
    <2>7. pull[U] = <<e>> \o r
      BY <1>2, <2>1, <2>2, <2>5
    <2>8. r \in Seq(U) /\ Len(r) \in Nat /\ \A i \in 1 .. Len(r) : r[i] \in U
      BY <2>6
    <2>9. PICK s : s = <<e>> \o r
      OBVIOUS
    <2>10. s \in Seq(U) /\ Len(s) = Len(r) + 1
      BY <2>3, <2>8, <2>9
    <2>11. s[1] = e /\ \A i \in 2 .. Len(s) : i - 1 \in 1 .. Len(r) /\ s[i] = r[i - 1]
      BY <2>3, <2>8, <2>9
    <2>12. \A d \in U : \E i \in 1 .. Len(s) : s[i] = d
      <3> SUFFICES ASSUME NEW d \in U, d # e PROVE \E i \in 1 .. Len(s) : s[i] = d
        BY <2>8, <2>10, <2>11
      <3>1. PICK i \in 1 .. Len(r) : r[i] = d
        BY <2>6
      <3>2. i + 1 \in 2 .. Len(s) /\ s[i + 1] = r[i + 1 - 1] /\ i + 1 - 1 = i
        BY <2>8, <2>10, <2>11
      <3> QED
        BY <3>1, <3>2
    <2>13. \A i, j \in 1 .. Len(s) : i < j => KeyAt(f, s[i]) <= KeyAt(f, s[j])
      <3> SUFFICES ASSUME NEW i \in 1 .. Len(s), NEW j \in 1 .. Len(s), i < j
                   PROVE  KeyAt(f, s[i]) <= KeyAt(f, s[j])
        OBVIOUS
      <3>1. j \in 2 .. Len(s) /\ j - 1 \in 1 .. Len(r) /\ s[j] = r[j - 1] /\ s[j] \in U
        BY <2>8, <2>10, <2>11
      <3>2. CASE i = 1
        BY <3>1, <3>2, <2>3, <2>11
      <3>3. CASE i # 1
        <4>1. i \in 2 .. Len(s) /\ i - 1 \in 1 .. Len(r) /\ s[i] = r[i - 1] /\ i - 1 < j - 1
          BY <3>3, <2>8, <2>10, <2>11
        <4> QED
          BY <3>1, <4>1, <2>6
      <3> QED
        BY <3>2, <3>3
    <2> QED
      BY <2>7, <2>9, <2>10, <2>12, <2>13
  <1>5. Nat \subseteq S
    <2> HIDE DEF S
    <2> QED
      BY <1>3, <1>4, Counting
  <1>6. Cardinality(E) \in Nat
    BY <1>f, FS_CardinalityType
  <1>7. Good(E, pull[E])
    BY <1>5, <1>6
  <1> QED
    BY <1>1, <1>7

\* The keys of the entries, in the order of the merge.
Merged(f) == [i \in DOMAIN Pulled(f) |-> KeyAt(f, Pulled(f)[i])]

\* They are all the keys of the runs, in order.
LEMMA MergedOK ==
    ASSUME NEW f, Mergeable(f)
    PROVE  Merged(f) \in Seq(Keys) /\ Climbing(Merged(f)) /\ Range(Merged(f)) = KeysOf(f)
  <1>1. PICK p : p = Pulled(f)
    OBVIOUS
  <1>2. /\ p \in Seq(Entries(f)) /\ Len(p) \in Nat /\ DOMAIN p = 1 .. Len(p)
        /\ \A i \in 1 .. Len(p) : p[i] \in Entries(f)
        /\ \A i, j \in 1 .. Len(p) : i < j => KeyAt(f, p[i]) <= KeyAt(f, p[j])
    BY <1>1, PulledOK, LenProperties
  <1>e. \A e \in Entries(f) : \E i \in 1 .. Len(p) : p[i] = e
    BY <1>1, PulledOK
  <1>3. PICK m : m = Merged(f)
    OBVIOUS
  <1>4. m = [i \in 1 .. Len(p) |-> KeyAt(f, p[i])]
    BY <1>1, <1>2, <1>3 DEF Merged
  <1>5. \A i \in 1 .. Len(p) : KeyAt(f, p[i]) \in Keys
    BY <1>2, EntriesAre
  <1>6. m \in Seq(Keys) /\ Len(m) = Len(p) /\ DOMAIN m = 1 .. Len(p)
    BY <1>2, <1>4, <1>5
  <1>7. Climbing(m)
    BY <1>2, <1>4, <1>6 DEF Climbing
  <1>8. Range(m) \subseteq KeysOf(f)
    <2> SUFFICES ASSUME NEW i \in 1 .. Len(p) PROVE m[i] \in KeysOf(f)
      BY <1>6 DEF Range
    <2>1. PICK slot, n : slot = p[i][1] /\ n = p[i][2]
      OBVIOUS
    <2>2. slot \in 1 .. Len(f) /\ n \in 1 .. Len(f[slot]) /\ f[slot] \in Seq(Keys)
      BY <1>2, <2>1, EntriesAre
    <2>3. m[i] = f[slot][n]
      BY <1>4, <2>1 DEF KeyAt
    <2>4. f[slot][n] \in Range(f[slot])
      BY <2>2, RunIs
    <2> QED
      BY <2>2, <2>3, <2>4 DEF KeysOf
  <1>9. KeysOf(f) \subseteq Range(m)
    <2> SUFFICES ASSUME NEW slot \in 1 .. Len(f), NEW k \in Range(f[slot])
                 PROVE  k \in Range(m)
      BY DEF KeysOf
    <2>1. f[slot] \in Seq(Keys)
      BY EntriesAre
    <2>2. PICK n \in 1 .. Len(f[slot]) : f[slot][n] = k
      BY <2>1, RunIs
    <2>3. PICK i \in 1 .. Len(p) : p[i] = <<slot, n>>
      <3>1. <<slot, n>> \in Entries(f)
        BY EntriesAre
      <3> QED
        BY <3>1, <1>e
    <2>4. m[i] = k
      BY <1>4, <2>2, <2>3 DEF KeyAt
    <2> QED
      BY <1>6, <2>4 DEF Range
  <1> QED
    BY <1>3, <1>6, <1>7, <1>8, <1>9

-------------------------------------------------------------------------------
(* Dropping repeats. *)

\* The function of Distinct: what the first n keys leave.
Outs(keys, m, out) ==
    out = [n \in 0 .. m |-> IF n = 0 THEN <<>> ELSE Inserted(out[n - 1], keys[n])]

\* There is one, key by key.
LEMMA OutsExist ==
    ASSUME NEW keys, NEW m \in Nat
    PROVE  \E out : Outs(keys, m, out)
  <1> DEFINE S == {n \in Nat : \E out : Outs(keys, n, out)}
  <1>1. 0 \in S
    <2>1. PICK out : out = [n \in 0 .. 0 |-> <<>>]
      OBVIOUS
    <2>2. Outs(keys, 0, out)
      BY <2>1 DEF Outs
    <2> QED
      BY <2>2
  <1>2. ASSUME NEW n \in Nat, n \in S
        PROVE  n + 1 \in S
    <2>1. PICK out : Outs(keys, n, out)
      BY <1>2
    <2>2. PICK more : more = [i \in 0 .. n + 1 |-> IF i = 0 THEN <<>> ELSE Inserted(out[i - 1], keys[i])]
      OBVIOUS
    <2>3. \A i \in 0 .. n : more[i] = out[i]
      BY <2>1, <2>2 DEF Outs
    <2>4. \A i \in 0 .. n + 1 : i # 0 => i - 1 \in 0 .. n
      OBVIOUS
    <2>5. \A i \in 0 .. n + 1 : i # 0 => more[i - 1] = out[i - 1]
      BY <2>3, <2>4
    <2>6. Outs(keys, n + 1, more)
      BY <2>2, <2>5 DEF Outs
    <2> QED
      BY <2>6
  <1>3. Nat \subseteq S
    <2> HIDE DEF S
    <2> QED
      BY <1>1, <1>2, Counting
  <1> QED
    BY <1>3

\* s has the first n of the keys, each once, in order, and ends with the n-th.
Leaves(keys, n, s) ==
    /\ s \in Seq(Keys) /\ Rising(s)
    /\ n = 0 => s = <<>>
    /\ n > 0 => s # <<>> /\ s[Len(s)] = keys[n]
    /\ \A i \in 1 .. n : \E j \in 1 .. Len(s) : s[j] = keys[i]
    /\ \A j \in 1 .. Len(s) : \E i \in 1 .. n : s[j] = keys[i]

\* Another key, none before it greater: it is put after them, or is the last of them.
LEMMA OneMoreKey ==
    ASSUME NEW keys \in Seq(Keys), Climbing(keys), NEW n \in Nat, n < Len(keys), NEW s, Leaves(keys, n, s)
    PROVE  Leaves(keys, n + 1, Inserted(s, keys[n + 1]))
  <1>1. PICK k : k = keys[n + 1]
    OBVIOUS
  <1>2. /\ k \in Keys /\ k \in Nat /\ Len(keys) \in Nat /\ n + 1 \in 1 .. Len(keys)
        /\ \A i \in 1 .. Len(keys) : keys[i] \in Nat
    BY <1>1, RunIs
  <1>s. /\ s \in Seq(Keys) /\ Len(s) \in Nat
        /\ \A j \in 1 .. Len(s) : s[j] \in Nat /\ s[j] \in Keys
        /\ \A i, j \in 1 .. Len(s) : i < j => s[i] < s[j]
        /\ s # <<>> => Len(s) \in 1 .. Len(s)
    <2>1. s \in Seq(Keys) /\ Rising(s)
      BY DEF Leaves
    <2>2. /\ Len(s) \in Nat
          /\ \A j \in 1 .. Len(s) : s[j] \in Nat /\ s[j] \in Keys
      BY <2>1, RunIs
    <2>3. s # <<>> => Len(s) # 0
      BY <2>1, EmptySeq
    <2> QED
      BY <2>1, <2>2, <2>3 DEF Rising
  <1>e. /\ \A i \in 1 .. n : \E j \in 1 .. Len(s) : s[j] = keys[i]
        /\ \A j \in 1 .. Len(s) : \E i \in 1 .. n : s[j] = keys[i]
        /\ n = 0 => s = <<>>
        /\ n > 0 => s # <<>> /\ s[Len(s)] = keys[n]
    BY DEF Leaves
  <1>3. CASE s # <<>> /\ s[Len(s)] = k
    <2>1. Inserted(s, k) = s
      BY <1>3, <1>s DEF Inserted, Last
    <2>2. \A i \in 1 .. n + 1 : \E j \in 1 .. Len(s) : s[j] = keys[i]
      <3> SUFFICES ASSUME NEW i \in 1 .. n + 1 PROVE \E j \in 1 .. Len(s) : s[j] = keys[i]
        OBVIOUS
      <3>1. CASE i \in 1 .. n
        BY <3>1, <1>e
      <3>2. CASE i = n + 1
        BY <3>2, <1>1, <1>3, <1>s
      <3> QED
        BY <3>1, <3>2
    <2>3. \A j \in 1 .. Len(s) : \E i \in 1 .. n + 1 : s[j] = keys[i]
      <3>1. \A i \in 1 .. n : i \in 1 .. n + 1
        OBVIOUS
      <3> QED
        BY <1>e, <3>1
    <2>4. s \in Seq(Keys) /\ Rising(s)
      BY DEF Leaves
    <2>5. n + 1 # 0 /\ n + 1 > 0
      OBVIOUS
    <2>6. Leaves(keys, n + 1, s)
      BY <1>1, <1>3, <2>2, <2>3, <2>4, <2>5 DEF Leaves
    <2> QED
      BY <1>1, <2>1, <2>6
  <1>4. CASE ~ (s # <<>> /\ s[Len(s)] = k)
    <2>1. PICK t : t = Append(s, k)
      OBVIOUS
    <2>2. Inserted(s, k) = t
      BY <1>4, <1>s, <2>1 DEF Inserted, Last
    <2>3. t \in Seq(Keys) /\ Len(t) = Len(s) + 1 /\ t[Len(s) + 1] = k /\ t # <<>>
      BY <1>2, <1>s, <2>1
    <2>4. \A j \in 1 .. Len(s) : t[j] = s[j]
      BY <1>2, <1>s, <2>1
    <2>5. \A j \in 1 .. Len(s) : s[j] < k
      <3> SUFFICES ASSUME NEW j \in 1 .. Len(s) PROVE s[j] < k
        OBVIOUS
      <3>1. n > 0 /\ s # <<>>
        BY <1>e, <1>s
      <3>2. keys[n] <= k /\ n \in 1 .. Len(keys)
        BY <1>1, <1>2, <3>1 DEF Climbing
      <3>3. s[Len(s)] = keys[n] /\ keys[n] # k /\ keys[n] \in Nat
        BY <1>e, <1>4, <3>1, <3>2, <1>2
      <3>4. s[j] <= s[Len(s)]
        <4>1. CASE j = Len(s)
          BY <4>1, <1>s
        <4>2. CASE j < Len(s)
          <5>1. Len(s) \in 1 .. Len(s)
            BY <3>1, <1>s
          <5>2. s[j] < s[Len(s)]
            BY <4>2, <5>1, <1>s
          <5> QED
            BY <5>1, <5>2, <1>s
        <4> QED
          BY <4>1, <4>2, <1>s
      <3> QED
        BY <3>2, <3>3, <3>4, <1>s, <1>2
    <2>6. Rising(t)
      <3> SUFFICES ASSUME NEW i \in 1 .. Len(t), NEW j \in 1 .. Len(t), i < j
                   PROVE  t[i] < t[j]
        BY DEF Rising
      <3>1. i \in 1 .. Len(s) /\ t[i] = s[i]
        BY <1>s, <2>3, <2>4
      <3>2. CASE j \in 1 .. Len(s)
        BY <3>1, <3>2, <2>4, <1>s
      <3>3. CASE j = Len(s) + 1
        BY <3>1, <3>3, <2>3, <2>5
      <3> QED
        BY <3>2, <3>3, <2>3, <1>s
    <2>7. \A i \in 1 .. n + 1 : \E j \in 1 .. Len(t) : t[j] = keys[i]
      <3> SUFFICES ASSUME NEW i \in 1 .. n + 1 PROVE \E j \in 1 .. Len(t) : t[j] = keys[i]
        OBVIOUS
      <3>1. CASE i \in 1 .. n
        <4>1. PICK j \in 1 .. Len(s) : s[j] = keys[i]
          BY <3>1, <1>e
        <4>2. j \in 1 .. Len(t) /\ t[j] = keys[i]
          BY <4>1, <2>3, <2>4, <1>s
        <4> QED
          BY <4>2
      <3>2. CASE i = n + 1
        <4>1. Len(s) + 1 \in 1 .. Len(t)
          BY <2>3, <1>s
        <4> QED
          BY <3>2, <4>1, <1>1, <2>3
      <3> QED
        BY <3>1, <3>2
    <2>8. \A j \in 1 .. Len(t) : \E i \in 1 .. n + 1 : t[j] = keys[i]
      <3> SUFFICES ASSUME NEW j \in 1 .. Len(t) PROVE \E i \in 1 .. n + 1 : t[j] = keys[i]
        OBVIOUS
      <3>1. CASE j \in 1 .. Len(s)
        <4>1. PICK i \in 1 .. n : s[j] = keys[i]
          BY <3>1, <1>e
        <4>2. i \in 1 .. n + 1 /\ t[j] = keys[i]
          BY <3>1, <4>1, <2>4
        <4> QED
          BY <4>2
      <3>2. CASE j = Len(s) + 1
        <4>1. n + 1 \in 1 .. n + 1
          OBVIOUS
        <4> QED
          BY <3>2, <4>1, <1>1, <2>3
      <3> QED
        BY <3>1, <3>2, <2>3, <1>s
    <2>9. n + 1 # 0 /\ n + 1 > 0
      OBVIOUS
    <2>10. Leaves(keys, n + 1, t)
      BY <1>1, <2>3, <2>6, <2>7, <2>8, <2>9 DEF Leaves
    <2> QED
      BY <1>1, <2>2, <2>10
  <1> QED
    BY <1>3, <1>4

\* Of keys in order, dropping the repeats leaves each once, in order: they are sorted.
LEMMA DistinctOK ==
    ASSUME NEW keys \in Seq(Keys), Climbing(keys), NEW r \in Seq(Keys), Range(keys) = Range(r)
    PROVE  Distinct(keys) = Sorted(r)
  <1>n. PICK m \in Nat : m = Len(keys) /\ DOMAIN keys = 1 .. m
    BY LenProperties
  <1>1. PICK out : Outs(keys, m, out) /\ Distinct(keys) = out[m]
    <2>1. PICK out : out = CHOOSE x : Outs(keys, m, x)
      OBVIOUS
    <2>2. Outs(keys, m, out)
      BY <2>1, OutsExist
    <2>3. Distinct(keys) = out[m]
      BY <1>n, <2>1 DEF Distinct, Outs
    <2> QED
      BY <2>2, <2>3
  <1>2. out[0] = <<>> /\ \A n \in Nat : n < m => out[n + 1] = Inserted(out[n], keys[n + 1])
    <2>1. out[0] = <<>>
      BY <1>1 DEF Outs
    <2>2. ASSUME NEW n \in Nat, n < m PROVE out[n + 1] = Inserted(out[n], keys[n + 1])
      <3>1. n + 1 \in 0 .. m /\ n + 1 # 0 /\ (n + 1) - 1 = n
        BY <2>2
      <3> QED
        BY <1>1, <3>1 DEF Outs
    <2> QED
      BY <2>1, <2>2
  <1> DEFINE S == {n \in Nat : n <= m => Leaves(keys, n, out[n])}
  <1>3. 0 \in S
    <2>1. PICK s : s = <<>>
      OBVIOUS
    <2>2. s \in Seq(Keys) /\ Len(s) = 0
      BY <2>1
    <2>3. \A j \in 1 .. Len(s) : FALSE
      BY <2>2
    <2>4. Leaves(keys, 0, s)
      BY <2>1, <2>2, <2>3 DEF Leaves, Rising
    <2> QED
      BY <1>2, <2>1, <2>4
  <1>4. ASSUME NEW n \in Nat, n \in S
        PROVE  n + 1 \in S
    <2> SUFFICES ASSUME n + 1 <= m PROVE Leaves(keys, n + 1, out[n + 1])
      OBVIOUS
    <2>1. n < Len(keys) /\ Leaves(keys, n, out[n])
      BY <1>4, <1>n
    <2>2. Leaves(keys, n + 1, Inserted(out[n], keys[n + 1]))
      BY <2>1, OneMoreKey
    <2> QED
      BY <1>2, <1>n, <2>1, <2>2
  <1>5. Nat \subseteq S
    <2> HIDE DEF S
    <2> QED
      BY <1>3, <1>4, Counting
  <1>6. PICK s : s = out[m]
    OBVIOUS
  <1>7. Leaves(keys, m, s)
    BY <1>5, <1>6
  <1>8. s \in Seq(Keys) /\ Rising(s) /\ Range(s) = Range(keys)
    <2>1. s \in Seq(Keys) /\ Rising(s)
      BY <1>7 DEF Leaves
    <2>2. Range(s) = {s[j] : j \in 1 .. Len(s)} /\ Range(keys) = {keys[i] : i \in 1 .. m}
      BY <1>n, <2>1, RunIs
    <2>3. /\ \A i \in 1 .. m : \E j \in 1 .. Len(s) : s[j] = keys[i]
          /\ \A j \in 1 .. Len(s) : \E i \in 1 .. m : s[j] = keys[i]
      BY <1>7 DEF Leaves
    <2>4. Range(s) \subseteq Range(keys)
      BY <2>2, <2>3
    <2>5. Range(keys) \subseteq Range(s)
      BY <2>2, <2>3
    <2> QED
      BY <2>1, <2>4, <2>5
  <1> QED
    BY <1>1, <1>6, <1>8, SortedIs

-------------------------------------------------------------------------------
(* The inductive invariant. *)

Types ==
    /\ source.keys \in Seq(Keys) /\ source.raises \in BOOLEAN
    /\ at \in 0 .. Len(source.keys)
    /\ run \in Seq(Keys)
    /\ next \in Nat
    /\ DOMAIN disk \subseteq 0 .. next
    /\ \A id \in DOMAIN disk : disk[id] \in Seq(Keys) \cup {Torn}
    /\ dir \in BOOLEAN
    /\ there \in {"nothing", "ours", "theirs"}
    /\ walks \in Seq(Seq(Keys))
    /\ pc \in {"read", "last", "collapse", "pass", "publish", "drop", "ended"}
    /\ answer \in {"none", "ok", "err"}

OnceEach(s) == \A i, j \in 1 .. Len(s) : s[i] = s[j] => i = j

\* The run a group has been merged into, until the group is removed.
Newest == IF group = <<>> THEN {} ELSE {next - 1}
Listed == Range(live) \cup Range(todo) \cup Range(group)
\* The files that together have the keys that are not in memory.
Wanted == Range(live) \cup Range(todo) \cup Newest

\* No file is listed twice, and none has a name to come.
Lists ==
    /\ live \in Seq(Nat) /\ todo \in Seq(Nat) /\ group \in Seq(Nat)
    /\ OnceEach(live) /\ OnceEach(todo) /\ OnceEach(group)
    /\ Range(live) \cap Range(todo) = {}
    /\ Range(live) \cap Range(group) = {}
    /\ Range(todo) \cap Range(group) = {}
    /\ \A id \in Listed : id < next
    /\ group # <<>> => next - 1 \notin Listed

\* Every file listed is there, whole and in order.
Whole ==
    pc # "ended" =>
        \A id \in Listed \cup Newest : id \in DOMAIN disk /\ disk[id] \in Seq(Keys) /\ Climbing(disk[id])

\* There are no others, unless the build has failed.
NoOthers == pc \notin {"drop", "ended"} => DOMAIN disk \subseteq Listed \cup Newest

\* The keys in memory and in the files wanted are those the source has yielded.
Yielded == {source.keys[i] : i \in 1 .. at}
Covered == pc # "ended" => Yielded = Range(run) \cup UNION {Range(disk[id]) : id \in Wanted}

\* What is true at each stage of the build.
Stages ==
    /\ pc \in {"read", "last", "pass", "publish"} => todo = <<>> /\ group = <<>>
    /\ pc \in {"last", "collapse", "pass", "publish"} => at = Len(source.keys) /\ ~source.raises
    /\ pc = "collapse" => run = <<>>
    /\ pc = "pass" /\ live # <<>> => run = <<>>
    /\ pc = "publish" => Len(walks) = Passes

\* What was walked and what is published.
Outcome ==
    /\ \A i \in 1 .. Len(walks) : walks[i] = Sorted(source.keys)
    /\ pc \notin {"drop", "ended"} => target = Old /\ answer = "none"
    /\ target # Old => ~source.raises /\ target = Sorted(source.keys)
    /\ (answer = "ok") = (target # Old)

\* The directory is the build's own exactly when it made it.
DirOurs == pc # "ended" => (dir <=> there = "ours")

XInv == Types /\ Lists /\ Whole /\ NoOthers /\ Covered /\ Stages /\ Outcome /\ DirOurs

-------------------------------------------------------------------------------
(* Lists of files. *)

\* A list of names by its places.
LEMMA ListIs ==
    ASSUME NEW s \in Seq(Nat)
    PROVE  /\ Len(s) \in Nat /\ DOMAIN s = 1 .. Len(s)
           /\ \A i \in 1 .. Len(s) : s[i] \in Nat /\ s[i] \in Range(s)
           /\ Range(s) = {s[i] : i \in 1 .. Len(s)} /\ Range(s) \subseteq Nat
           /\ \A x \in Range(s) : \E i \in 1 .. Len(s) : s[i] = x
           /\ s = <<>> <=> Len(s) = 0
           /\ s = <<>> <=> Range(s) = {}
  <1>1. Len(s) \in Nat /\ DOMAIN s = 1 .. Len(s) /\ s \in [1 .. Len(s) -> Nat]
    BY LenProperties
  <1>2. Range(s) = {s[i] : i \in 1 .. Len(s)}
    BY <1>1 DEF Range
  <1>3. s = <<>> <=> Len(s) = 0
    BY EmptySeq
  <1>4. Range(s) = {} <=> Len(s) = 0
    <2>1. CASE Len(s) = 0
      <3>1. \A i \in 1 .. Len(s) : FALSE
        BY <2>1
      <3> QED
        BY <1>2, <2>1, <3>1
    <2>2. CASE Len(s) # 0
      <3>1. 1 \in 1 .. Len(s)
        BY <1>1, <2>2
      <3>2. s[1] \in Range(s)
        BY <1>2, <3>1
      <3> QED
        BY <2>2, <3>2
    <2> QED
      BY <2>1, <2>2
  <1> QED
    BY <1>1, <1>2, <1>3, <1>4

\* A list put after another that shares no name with it.
LEMMA Joined ==
    ASSUME NEW s \in Seq(Nat), NEW t \in Seq(Nat), OnceEach(s), OnceEach(t), Range(s) \cap Range(t) = {}
    PROVE  s \o t \in Seq(Nat) /\ OnceEach(s \o t) /\ Range(s \o t) = Range(s) \cup Range(t)
           /\ Len(s \o t) = Len(s) + Len(t)
  <1>1. PICK u : u = s \o t
    OBVIOUS
  <1>2. /\ Len(s) \in Nat /\ Len(t) \in Nat
        /\ \A i \in 1 .. Len(s) : s[i] \in Range(s)
        /\ \A i \in 1 .. Len(t) : t[i] \in Range(t)
        /\ \A x \in Range(s) : \E i \in 1 .. Len(s) : s[i] = x
        /\ \A x \in Range(t) : \E i \in 1 .. Len(t) : t[i] = x
    BY ListIs
  <1>3. u \in Seq(Nat) /\ Len(u) = Len(s) + Len(t)
    BY <1>1
  <1>4. /\ \A i \in 1 .. Len(s) : i \in 1 .. Len(u) /\ u[i] = s[i]
        /\ \A i \in 1 .. Len(t) : i + Len(s) \in 1 .. Len(u) /\ u[i + Len(s)] = t[i]
        /\ \A i \in 1 .. Len(u) : i \notin 1 .. Len(s) => i - Len(s) \in 1 .. Len(t) /\ u[i] = t[i - Len(s)]
    BY <1>1, <1>2, <1>3
  <1>5. /\ \A x \in Range(u) : \E i \in 1 .. Len(u) : u[i] = x
        /\ \A i \in 1 .. Len(u) : u[i] \in Range(u)
    BY <1>3, ListIs
  <1>6. Range(u) = Range(s) \cup Range(t)
    <2>1. Range(s) \subseteq Range(u)
      BY <1>2, <1>4, <1>5
    <2>2. ASSUME NEW x \in Range(t) PROVE x \in Range(u)
      <3>1. PICK i \in 1 .. Len(t) : t[i] = x
        BY <1>2
      <3>2. i + Len(s) \in 1 .. Len(u) /\ u[i + Len(s)] = x
        BY <1>4, <3>1
      <3> QED
        BY <1>5, <3>2
    <2>3. ASSUME NEW x \in Range(u) PROVE x \in Range(s) \cup Range(t)
      <3>1. PICK i \in 1 .. Len(u) : u[i] = x
        BY <1>5
      <3> QED
        BY <3>1, <1>2, <1>4
    <2> QED
      BY <2>1, <2>2, <2>3
  <1>7. OnceEach(u)
    <2> SUFFICES ASSUME NEW i \in 1 .. Len(u), NEW j \in 1 .. Len(u), u[i] = u[j]
                 PROVE  i = j
      BY DEF OnceEach
    <2>1. CASE i \in 1 .. Len(s) /\ j \in 1 .. Len(s)
      BY <2>1, <1>4 DEF OnceEach
    <2>2. CASE i \in 1 .. Len(s) /\ j \notin 1 .. Len(s)
      BY <2>2, <1>2, <1>4
    <2>3. CASE i \notin 1 .. Len(s) /\ j \in 1 .. Len(s)
      BY <2>3, <1>2, <1>4
    <2>4. CASE i \notin 1 .. Len(s) /\ j \notin 1 .. Len(s)
      <3>1. PICK m, n : m = i - Len(s) /\ n = j - Len(s)
        OBVIOUS
      <3>2. m \in 1 .. Len(t) /\ n \in 1 .. Len(t) /\ t[m] = t[n]
        BY <2>4, <3>1, <1>4
      <3>3. m = n
        BY <3>2 DEF OnceEach
      <3> QED
        BY <3>1, <3>3, <1>2, <1>3
    <2> QED
      BY <2>1, <2>2, <2>3, <2>4
  <1> QED
    BY <1>1, <1>3, <1>6, <1>7

\* A name put after a list without it.
LEMMA Appended ==
    ASSUME NEW s \in Seq(Nat), NEW x \in Nat, OnceEach(s), x \notin Range(s)
    PROVE  Append(s, x) \in Seq(Nat) /\ OnceEach(Append(s, x)) /\ Range(Append(s, x)) = Range(s) \cup {x}
  <1>1. PICK t : t = <<x>>
    OBVIOUS
  <1>2. t \in Seq(Nat) /\ Len(t) = 1 /\ t[1] = x
    BY <1>1
  <1>3. OnceEach(t) /\ Range(t) = {x}
    <2>1. Range(t) = {t[i] : i \in 1 .. 1}
      BY <1>2, ListIs
    <2> QED
      BY <1>2, <2>1 DEF OnceEach
  <1>4. Append(s, x) = s \o t
    BY <1>1
  <1> QED
    BY <1>2, <1>3, <1>4, Joined

\* A list cut in two.
LEMMA Cut ==
    ASSUME NEW s \in Seq(Nat), OnceEach(s), NEW n \in 1 .. Len(s)
    PROVE  LET a == SubSeq(s, 1, n)
               b == SubSeq(s, n + 1, Len(s))
           IN  /\ a \in Seq(Nat) /\ b \in Seq(Nat) /\ Len(a) = n
               /\ OnceEach(a) /\ OnceEach(b)
               /\ Range(a) \cup Range(b) = Range(s) /\ Range(a) \cap Range(b) = {}
  <1>1. PICK a, b : a = SubSeq(s, 1, n) /\ b = SubSeq(s, n + 1, Len(s))
    OBVIOUS
  <1>2. Len(s) \in Nat /\ n \in Nat /\ n <= Len(s)
    BY ListIs
  <1>3. a \in Seq(Nat) /\ Len(a) = n /\ \A i \in 1 .. n : a[i] = s[i]
    BY <1>1, <1>2
  <1>4. b \in Seq(Nat) /\ Len(b) = Len(s) - n /\ \A i \in 1 .. Len(s) - n : b[i] = s[i + n]
    <2>1. \A i \in n + 1 .. Len(s) : s[i] \in Nat
      BY <1>2, ListIs
    <2>2. PICK m, l : m = n + 1 /\ l = Len(s)
      OBVIOUS
    <2>3. m \in Int /\ l \in Int /\ \A i \in m .. l : s[i] \in Nat
      BY <1>2, <2>1, <2>2
    <2>4. /\ SubSeq(s, m, l) \in Seq(Nat)
          /\ Len(SubSeq(s, m, l)) = IF m <= l THEN l - m + 1 ELSE 0
          /\ \A i \in 1 .. l - m + 1 : SubSeq(s, m, l)[i] = s[m + i - 1]
      BY <2>3, SubSeqProperties
    <2>5. b = SubSeq(s, m, l) /\ l - m + 1 = Len(s) - n /\ (~ (m <= l) => Len(s) - n = 0)
      BY <1>1, <1>2, <2>2
    <2>6. Len(b) = Len(s) - n
      BY <1>2, <2>2, <2>4, <2>5
    <2>7. ASSUME NEW i \in 1 .. Len(s) - n PROVE b[i] = s[i + n]
      <3>1. m + i - 1 = i + n
        BY <1>2, <2>2
      <3> QED
        BY <2>4, <2>5, <3>1
    <2> QED
      BY <2>4, <2>5, <2>6, <2>7
  <1>5. Range(a) = {s[i] : i \in 1 .. n}
    <2>1. Range(a) = {a[i] : i \in 1 .. Len(a)}
      BY <1>3, ListIs
    <2> QED
      BY <1>3, <2>1
  <1>6. Range(b) = {s[i] : i \in n + 1 .. Len(s)}
    <2>1. Range(b) = {b[i] : i \in 1 .. Len(b)}
      BY <1>4, ListIs
    <2>2. \A i \in 1 .. Len(s) - n : i + n \in n + 1 .. Len(s) /\ b[i] = s[i + n]
      BY <1>2, <1>4
    <2>3. ASSUME NEW i \in n + 1 .. Len(s) PROVE i - n \in 1 .. Len(s) - n /\ s[i] = b[i - n]
      <3>1. i - n \in 1 .. Len(s) - n /\ (i - n) + n = i
        BY <1>2
      <3> QED
        BY <1>4, <3>1
    <2>4. \A x \in Range(b) : \E i \in n + 1 .. Len(s) : s[i] = x
      BY <1>4, <2>1, <2>2
    <2>5. \A i \in n + 1 .. Len(s) : s[i] \in Range(b)
      BY <1>4, <2>1, <2>3
    <2> QED
      BY <2>4, <2>5
  <1>7. Range(s) = {s[i] : i \in 1 .. Len(s)}
    BY ListIs
  <1>8. Range(a) \cup Range(b) = Range(s)
    <2>1. 1 .. Len(s) = (1 .. n) \cup (n + 1 .. Len(s))
      BY <1>2
    <2> QED
      BY <1>5, <1>6, <1>7, <2>1
  <1>9. Range(a) \cap Range(b) = {}
    <2> SUFFICES ASSUME NEW i \in 1 .. n, NEW j \in n + 1 .. Len(s), s[i] = s[j] PROVE FALSE
      BY <1>5, <1>6
    <2> QED
      BY <1>2 DEF OnceEach
  <1>10. OnceEach(a) /\ OnceEach(b)
    <2>1. OnceEach(a)
      <3> SUFFICES ASSUME NEW i \in 1 .. n, NEW j \in 1 .. n, s[i] = s[j] PROVE i = j
        BY <1>3 DEF OnceEach
      <3>1. i \in 1 .. Len(s) /\ j \in 1 .. Len(s)
        BY <1>2
      <3> QED
        BY <3>1 DEF OnceEach
    <2>2. OnceEach(b)
      <3> SUFFICES ASSUME NEW i \in 1 .. Len(b), NEW j \in 1 .. Len(b), b[i] = b[j] PROVE i = j
        BY DEF OnceEach
      <3>a. i \in 1 .. Len(s) - n /\ j \in 1 .. Len(s) - n /\ s[i + n] = s[j + n]
        BY <1>4
      <3>1. i + n \in 1 .. Len(s) /\ j + n \in 1 .. Len(s)
        BY <3>a, <1>2
      <3>2. i + n = j + n
        BY <3>a, <3>1 DEF OnceEach
      <3> QED
        BY <3>a, <3>2, <1>2
    <2> QED
      BY <2>1, <2>2
  <1> QED
    BY <1>1, <1>3, <1>4, <1>8, <1>9, <1>10

\* A list without its first name.
LEMMA Tailed ==
    ASSUME NEW s \in Seq(Nat), OnceEach(s), s # <<>>
    PROVE  /\ Tail(s) \in Seq(Nat) /\ OnceEach(Tail(s))
           /\ Head(s) \in Range(s) /\ Range(Tail(s)) = Range(s) \ {Head(s)}
  <1>1. Len(s) \in Nat /\ Len(s) >= 1
    BY ListIs
  <1>2. PICK a, b : a = SubSeq(s, 1, 1) /\ b = SubSeq(s, 2, Len(s))
    OBVIOUS
  <1>3. 1 \in 1 .. Len(s) /\ 1 + 1 = 2
    BY <1>1
  <1>4. /\ a \in Seq(Nat) /\ b \in Seq(Nat) /\ Len(a) = 1
        /\ OnceEach(b) /\ Range(a) \cup Range(b) = Range(s) /\ Range(a) \cap Range(b) = {}
    <2>1. PICK n : n = 1
      OBVIOUS
    <2>2. n \in 1 .. Len(s) /\ a = SubSeq(s, 1, n) /\ b = SubSeq(s, n + 1, Len(s))
      BY <1>2, <1>3, <2>1
    <2>3. /\ a \in Seq(Nat) /\ b \in Seq(Nat) /\ Len(a) = n
          /\ OnceEach(b) /\ Range(a) \cup Range(b) = Range(s) /\ Range(a) \cap Range(b) = {}
      BY <2>2, Cut
    <2> QED
      BY <2>1, <2>3
  <1>5. Tail(s) = b
    BY <1>1, <1>2
  <1>6. Head(s) = s[1] /\ a[1] = s[1]
    BY <1>1, <1>2
  <1>7. Range(a) = {Head(s)}
    <2>1. Range(a) = {a[i] : i \in 1 .. 1}
      BY <1>4, ListIs
    <2> QED
      BY <1>6, <2>1
  <1> QED
    BY <1>4, <1>5, <1>7

-------------------------------------------------------------------------------
(* What the build reads and writes. *)

\* The streams of files that are whole: in order, and, unless a reader failed, with all their keys.
LEMMA StreamsOK ==
    ASSUME NEW ids \in Seq(Nat),
           \A id \in Range(ids) : disk[id] \in Seq(Keys) /\ Climbing(disk[id]),
           NEW stream \in Streams(ids)
    PROVE  /\ stream.keys \in Seq(Keys) /\ stream.failed \in BOOLEAN
           /\ ~stream.failed => /\ Climbing(stream.keys)
                                /\ Range(stream.keys) = UNION {Range(disk[id]) : id \in Range(ids)}
  <1> DEFINE f == [slot \in DOMAIN ids |-> disk[ids[slot]]]
             p == Pulled(f)
             keys == [i \in DOMAIN p |-> KeyAt(f, p[i])]
             cuts == {m \in DOMAIN p : \E j \in m + 1 .. Len(p) : p[j][1] = p[m][1]}
             all == [keys |-> keys, failed |-> FALSE]
             part(m) == [keys |-> SubSeq(keys, 1, m), failed |-> TRUE]
  <1>1. stream = all \/ \E m \in cuts : stream = part(m)
    <2>1. Streams(ids) = {all} \cup IF "read" \in Faults THEN {part(m) : m \in cuts} ELSE {}
      BY DEF Streams
    <2> HIDE DEF all, part, cuts
    <2> QED
      BY <2>1
  <1>2. f = [slot \in DOMAIN ids |-> disk[ids[slot]]]
    OBVIOUS
  <1>3. keys = Merged(f) /\ DOMAIN p = DOMAIN keys
    BY DEF Merged
  <1> HIDE DEF f, p, keys
  <1>4. /\ Len(ids) \in Nat /\ DOMAIN ids = 1 .. Len(ids)
        /\ \A i \in 1 .. Len(ids) : ids[i] \in Range(ids)
        /\ \A x \in Range(ids) : \E i \in 1 .. Len(ids) : ids[i] = x
    BY ListIs
  <1>5. Mergeable(f) /\ Len(f) = Len(ids)
    <2>1. f \in [1 .. Len(ids) -> Seq(Keys)]
      BY <1>2, <1>4
    <2>2. f \in Seq(Seq(Keys)) /\ Len(f) = Len(ids)
      BY <1>4, <2>1
    <2> QED
      BY <1>2, <1>4, <2>2 DEF Mergeable
  <1>6. keys \in Seq(Keys) /\ Climbing(keys) /\ Range(keys) = KeysOf(f)
    BY <1>5, <1>3, MergedOK
  <1>7. KeysOf(f) = UNION {Range(disk[id]) : id \in Range(ids)}
    <2>1. \A slot \in 1 .. Len(ids) : f[slot] = disk[ids[slot]]
      BY <1>2, <1>4
    <2>2. KeysOf(f) \subseteq UNION {Range(disk[id]) : id \in Range(ids)}
      BY <1>4, <1>5, <2>1 DEF KeysOf
    <2>3. ASSUME NEW id \in Range(ids), NEW k \in Range(disk[id])
          PROVE  k \in KeysOf(f)
      <3>1. PICK slot \in 1 .. Len(ids) : ids[slot] = id
        BY <1>4
      <3> QED
        BY <1>5, <2>1, <3>1 DEF KeysOf
    <2> QED
      BY <2>2, <2>3
  <1>8. CASE stream = all
    BY <1>6, <1>7, <1>8
  <1>9. CASE \E m \in cuts : stream = part(m)
    <2>1. PICK m \in cuts : stream = part(m)
      BY <1>9
    <2>2. DOMAIN p = DOMAIN keys /\ DOMAIN keys = 1 .. Len(keys) /\ Len(keys) \in Nat
      BY <1>3, <1>6, RunIs
    <2>3. m \in 1 .. Len(keys)
      BY <2>2
    <2>4. \A i \in 1 .. m : keys[i] \in Keys
      BY <1>6, <2>2, <2>3, RunIs
    <2>5. SubSeq(keys, 1, m) \in Seq(Keys)
      BY <2>3, <2>4, SubSeqProperties
    <2> QED
      BY <2>1, <2>5
  <1> QED
    BY <1>1, <1>8, <1>9

\* The new file's keys are as written, and no other's have changed.
LEMMA Written ==
    ASSUME NEW keys, WriteRun(keys)
    PROVE  /\ DirMade /\ MakeDir /\ next' = next + 1
           /\ DOMAIN disk' = DOMAIN disk \cup {next}
           /\ disk'[next] = keys
           /\ \A id \in DOMAIN disk : id # next => disk'[id] = disk[id]
  BY DEF WriteRun

\* Making the directory makes it the build's own, or changes nothing.
LEMMA MakesDir ==
    ASSUME Types, DirOurs, pc # "ended", MakeDir
    PROVE  /\ dir' \in BOOLEAN /\ there' \in {"nothing", "ours", "theirs"}
           /\ dir' <=> there' = "ours"
           /\ there = "theirs" => there' = "theirs"
  BY DEF Types, DirOurs, MakeDir, DirMade

-------------------------------------------------------------------------------
(* The steps that keep to the files there are. *)

\* A step that touches neither the keys read nor the files.
LEMMA StoreKept ==
    ASSUME XInv, UNCHANGED <<source, at, run, store>>, pc # "ended", pc' # "ended",
           pc = "drop" => pc' = "drop"
    PROVE  Lists' /\ Whole' /\ NoOthers' /\ Covered' /\ DirOurs'
  <1>1. Newest' = Newest /\ Listed' = Listed /\ Wanted' = Wanted /\ Yielded' = Yielded
    BY DEF store, Newest, Listed, Wanted, Yielded
  <1>2. Lists' /\ DirOurs'
    BY <1>1 DEF XInv, Lists, DirOurs, store
  <1>3. Whole' /\ NoOthers'
    BY <1>1 DEF XInv, Whole, NoOthers, store
  <1>4. Covered'
    BY <1>1 DEF XInv, Covered, store
  <1> QED
    BY <1>2, <1>3, <1>4

\* A step that returns an error, with what was read and listed as it was, the files listed among
\* those that are there.
LEMMA Fails ==
    ASSUME XInv, Fail, pc \in {"read", "last", "collapse", "pass", "publish"},
           UNCHANGED <<source, at, run, live, todo, group, walks, target>>,
           next' \in Nat, group # <<>> => next' = next, next <= next',
           DOMAIN disk \subseteq DOMAIN disk', DOMAIN disk' \subseteq 0 .. next',
           \A id \in DOMAIN disk' : disk'[id] \in Seq(Keys) \cup {Torn},
           \A id \in DOMAIN disk : disk'[id] = disk[id],
           dir' \in BOOLEAN, there' \in {"nothing", "ours", "theirs"}, dir' <=> there' = "ours"
    PROVE  XInv'
  <1> USE DEF XInv
  <1>1. Newest' = Newest /\ Listed' = Listed /\ Wanted' = Wanted /\ Yielded' = Yielded
    BY DEF Newest, Listed, Wanted, Yielded
  <1>p. pc' = "drop" /\ answer' = "err"
    BY DEF Fail
  <1>2. Types'
    BY <1>p DEF Types
  <1>3. Lists'
    <2>1. \A id \in Listed : id < next'
      <3>1. Listed \subseteq Nat
        BY ListIs DEF Lists, Listed
      <3> QED
        BY <3>1 DEF Lists, Types
    <2> QED
      BY <1>1, <2>1 DEF Lists
  <1>4. Whole'
    BY <1>1 DEF Whole
  <1>5. NoOthers'
    BY <1>p DEF NoOthers
  <1>6. Covered'
    <2>1. Wanted \subseteq Listed \cup Newest
      BY DEF Wanted, Listed
    <2>2. \A id \in Wanted : disk'[id] = disk[id]
      BY <2>1 DEF Whole
    <2> QED
      BY <1>1, <2>2 DEF Covered
  <1>7. Stages'
    BY <1>p DEF Stages
  <1>8. Outcome'
    BY <1>p DEF Outcome
  <1>9. DirOurs'
    BY DEF DirOurs
  <1> QED
    BY <1>2, <1>3, <1>4, <1>5, <1>6, <1>7, <1>8, <1>9

\* The same, where nothing of the files has changed.
LEMMA FailsOnly ==
    ASSUME XInv, Fail, pc \in {"read", "last", "collapse", "pass", "publish"},
           UNCHANGED <<source, at, run, store, walks, target>>
    PROVE  XInv'
  <1>1. UNCHANGED <<live, todo, group, next, disk, dir, there>>
    BY DEF store
  <1>2. next \in Nat /\ next <= next
    BY DEF XInv, Types
  <1>3. dir \in BOOLEAN /\ there \in {"nothing", "ours", "theirs"} /\ (dir <=> there = "ours")
    BY DEF XInv, Types, DirOurs
  <1>4. DOMAIN disk \subseteq 0 .. next /\ \A id \in DOMAIN disk : disk[id] \in Seq(Keys) \cup {Torn}
    BY DEF XInv, Types
  <1> QED
    BY <1>1, <1>2, <1>3, <1>4, Fails

\* A run that cannot be written.
LEMMA WriteFails ==
    ASSUME XInv, WriteRunFails, pc \in {"read", "last", "collapse"},
           UNCHANGED <<source, at, run, live, todo, group, walks, target>>
    PROVE  XInv'
  <1>1. Fail /\ MakeDir /\ next' = next
    BY DEF WriteRunFails
  <1>2. dir' \in BOOLEAN /\ there' \in {"nothing", "ours", "theirs"} /\ (dir' <=> there' = "ours")
    BY <1>1, MakesDir DEF XInv
  <1>3. next \in Nat /\ DOMAIN disk \subseteq 0 .. next
        /\ \A id \in DOMAIN disk : disk[id] \in Seq(Keys) \cup {Torn}
    BY DEF XInv, Types
  <1>4. next \notin DOMAIN disk
    <2>1. DOMAIN disk \subseteq Listed \cup Newest
      BY DEF XInv, NoOthers
    <2>2. next \notin Listed /\ next \notin Newest
      BY <1>3 DEF XInv, Lists, Newest
    <2> QED
      BY <2>1, <2>2
  <1>5. /\ DOMAIN disk \subseteq DOMAIN disk' /\ DOMAIN disk' \subseteq 0 .. next
        /\ \A id \in DOMAIN disk' : disk'[id] \in Seq(Keys) \cup {Torn}
        /\ \A id \in DOMAIN disk : disk'[id] = disk[id]
    <2>1. CASE disk' = disk
      BY <2>1, <1>3
    <2>2. CASE disk' = [id \in DOMAIN disk \cup {next} |-> IF id = next THEN Torn ELSE disk[id]]
      BY <2>2, <1>3, <1>4
    <2> QED
      BY <2>1, <2>2 DEF WriteRunFails
  <1>6. pc \in {"read", "last", "collapse", "pass", "publish"} /\ next <= next'
        /\ next' \in Nat /\ (group # <<>> => next' = next) /\ DOMAIN disk' \subseteq 0 .. next'
    BY <1>1, <1>3, <1>5
  <1> QED
    BY <1>1, <1>2, <1>5, <1>6, Fails

-------------------------------------------------------------------------------
(* The steps. *)

\* A build begins with nothing in memory and no file.
LEMMA XInit == Init => XInv
  <1> SUFFICES ASSUME Init PROVE XInv
    OBVIOUS
  <1> USE DEF Init
  <1>1. source.keys \in Seq(Keys) /\ source.raises \in BOOLEAN
    OBVIOUS
  <1>2. Len(source.keys) \in Nat
    BY <1>1, LenProperties
  <1>3. DOMAIN disk = {} /\ Len(live) = 0 /\ Len(todo) = 0 /\ Len(group) = 0 /\ Len(walks) = 0
    OBVIOUS
  <1>4. live \in Seq(Nat) /\ todo \in Seq(Nat) /\ group \in Seq(Nat) /\ run \in Seq(Keys) /\ walks \in Seq(Seq(Keys))
    OBVIOUS
  <1>5. Range(live) = {} /\ Range(todo) = {} /\ Range(group) = {}
    BY <1>4, ListIs
  <1>6. Range(run) = {}
    BY DEF Range
  <1>7. Listed = {} /\ Newest = {} /\ Wanted = {} /\ Yielded = {}
    <2>1. 1 .. at = {}
      OBVIOUS
    <2> QED
      BY <1>5, <2>1 DEF Listed, Newest, Wanted, Yielded
  <1>8. Types
    <2>1. at \in 0 .. Len(source.keys) /\ next \in Nat
      BY <1>2
    <2>2. DOMAIN disk \subseteq 0 .. next /\ \A id \in DOMAIN disk : disk[id] \in Seq(Keys) \cup {Torn}
      BY <1>3
    <2>3. dir \in BOOLEAN /\ there \in {"nothing", "ours", "theirs"} /\ pc = "read" /\ answer = "none"
      OBVIOUS
    <2> HIDE DEF Init
    <2> QED
      BY <1>1, <1>4, <2>1, <2>2, <2>3 DEF Types
  <1>9. Lists
    <2>1. OnceEach(live) /\ OnceEach(todo) /\ OnceEach(group)
      BY <1>3 DEF OnceEach
    <2> QED
      BY <1>4, <1>5, <1>7, <2>1 DEF Lists
  <1>10. Whole /\ NoOthers /\ Covered
    BY <1>3, <1>6, <1>7 DEF Whole, NoOthers, Covered
  <1>11. Stages /\ Outcome /\ DirOurs
    BY <1>3 DEF Stages, Outcome, DirOurs
  <1> QED
    BY <1>8, <1>9, <1>10, <1>11 DEF XInv

\* A key more of the source.
LEMMA YieldsOne ==
    ASSUME Types, at < Len(source.keys), at' = at + 1, source' = source
    PROVE  /\ Yielded' = Yielded \cup {source.keys[at + 1]}
           /\ source.keys[at + 1] \in Keys /\ at + 1 \in 0 .. Len(source.keys)
  <1>1. Len(source.keys) \in Nat /\ \A i \in 1 .. Len(source.keys) : source.keys[i] \in Keys
    BY RunIs DEF Types
  <1>2. at \in Nat /\ at + 1 \in 1 .. Len(source.keys) /\ 1 .. at + 1 = (1 .. at) \cup {at + 1}
    BY <1>1 DEF Types
  <1> QED
    BY <1>1, <1>2 DEF Yielded

\* A key more in memory.
LEMMA RunGrows ==
    ASSUME NEW r \in Seq(Keys), NEW k \in Keys
    PROVE  Append(r, k) \in Seq(Keys) /\ Range(Append(r, k)) = Range(r) \cup {k}
  <1>1. PICK t : t = Append(r, k)
    OBVIOUS
  <1>2. Len(r) \in Nat /\ Range(r) = {r[i] : i \in 1 .. Len(r)}
    BY RunIs
  <1>3. t \in Seq(Keys) /\ Len(t) = Len(r) + 1 /\ t[Len(r) + 1] = k /\ \A i \in 1 .. Len(r) : t[i] = r[i]
    BY <1>1, <1>2
  <1>4. Range(t) = {t[i] : i \in 1 .. Len(r) + 1}
    BY <1>3, RunIs
  <1>5. 1 .. Len(r) + 1 = (1 .. Len(r)) \cup {Len(r) + 1}
    BY <1>2
  <1> QED
    BY <1>1, <1>2, <1>3, <1>4, <1>5

\* Push: a key more in memory, and one more yielded.
LEMMA PushKeeps == XInv /\ Push => XInv'
  <1> SUFFICES ASSUME XInv, Push PROVE XInv'
    OBVIOUS
  <1> USE DEF XInv
  <1>1. PICK k : k = source.keys[at + 1]
    OBVIOUS
  <1>2. /\ pc = "read" /\ run' = Append(run, k) /\ at' = at + 1 /\ at < Len(source.keys)
        /\ UNCHANGED <<source, live, todo, group, next, disk, dir, there, walks, target, pc, answer>>
    BY <1>1 DEF Push, store
  <1>3. Yielded' = Yielded \cup {k} /\ k \in Keys /\ at' \in 0 .. Len(source.keys)
    BY <1>1, <1>2, YieldsOne
  <1>4. run' \in Seq(Keys) /\ Range(run') = Range(run) \cup {k}
    BY <1>2, <1>3, RunGrows DEF Types
  <1>5. Newest' = Newest /\ Listed' = Listed /\ Wanted' = Wanted
    BY <1>2 DEF Newest, Listed, Wanted
  <1>6. Types'
    BY <1>2, <1>3, <1>4 DEF Types
  <1>7. Lists' /\ Whole' /\ NoOthers'
    BY <1>2, <1>5 DEF Lists, Whole, NoOthers
  <1>8. Covered'
    BY <1>2, <1>3, <1>4, <1>5 DEF Covered
  <1>9. Stages' /\ Outcome' /\ DirOurs'
    BY <1>2 DEF Stages, Outcome, DirOurs
  <1> QED
    BY <1>6, <1>7, <1>8, <1>9

\* TooLong: the build fails with nothing changed.
LEMMA TooLongKeeps == XInv /\ TooLong => XInv'
  BY FailsOnly DEF TooLong

\* A run spilled: one file more, with the keys of the run.
LEMMA Spills ==
    ASSUME XInv, pc \in {"read", "last"}, WriteRun(Sorted(run)), live' = Append(live, next),
           UNCHANGED <<todo, group>>, pc' # "ended"
    PROVE  /\ Lists' /\ Whole' /\ NoOthers' /\ DirOurs'
           /\ UNION {Range(disk'[id]) : id \in Wanted'} = Range(run) \cup UNION {Range(disk[id]) : id \in Wanted}
           /\ next' \in Nat /\ DOMAIN disk' \subseteq 0 .. next'
           /\ \A id \in DOMAIN disk' : disk'[id] \in Seq(Keys) \cup {Torn}
           /\ dir' \in BOOLEAN /\ there' \in {"nothing", "ours", "theirs"}
  <1> USE DEF XInv
  <1>1. todo = <<>> /\ group = <<>>
    BY DEF Stages
  <1>2. /\ next' = next + 1 /\ MakeDir
        /\ DOMAIN disk' = DOMAIN disk \cup {next}
        /\ disk'[next] = Sorted(run)
        /\ \A id \in DOMAIN disk : id # next => disk'[id] = disk[id]
    BY Written
  <1>3. Sorted(run) \in Seq(Keys) /\ Range(Sorted(run)) = Range(run) /\ Climbing(Sorted(run))
    <2>1. Sorted(run) \in Seq(Keys) /\ Rising(Sorted(run)) /\ Range(Sorted(run)) = Range(run)
      BY SortedOK DEF Types
    <2>2. \A i \in 1 .. Len(Sorted(run)) : Sorted(run)[i] \in Nat
      BY <2>1, RunIs
    <2> QED
      BY <2>1, <2>2 DEF Rising, Climbing
  <1>4. next \in Nat /\ DOMAIN disk \subseteq 0 .. next
        /\ \A id \in DOMAIN disk : disk[id] \in Seq(Keys) \cup {Torn}
    BY DEF Types
  <1>5. Range(todo) = {} /\ Range(group) = {} /\ live \in Seq(Nat) /\ todo \in Seq(Nat) /\ group \in Seq(Nat)
    BY <1>1, ListIs DEF Lists
  <1>6. Listed = Range(live) /\ Wanted = Range(live) /\ Newest = {}
    BY <1>1, <1>5 DEF Listed, Wanted, Newest
  <1>7. Range(live) \subseteq Nat /\ (\A id \in Range(live) : id < next) /\ next \notin Range(live)
    BY <1>4, <1>5, <1>6, ListIs DEF Lists
  <1>8. live' \in Seq(Nat) /\ OnceEach(live') /\ Range(live') = Range(live) \cup {next}
    BY <1>4, <1>5, <1>7, Appended DEF Lists
  <1>9. Listed' = Range(live) \cup {next} /\ Wanted' = Range(live) \cup {next} /\ Newest' = {}
    BY <1>1, <1>5, <1>8 DEF Listed, Wanted, Newest
  <1>10. \A id \in Range(live) : id \in DOMAIN disk /\ id # next /\ disk'[id] = disk[id]
                                 /\ disk[id] \in Seq(Keys) /\ Climbing(disk[id])
    BY <1>2, <1>6, <1>7 DEF Whole
  <1>11. Lists'
    <2>1. \A id \in Listed' : id < next'
      BY <1>2, <1>4, <1>7, <1>9
    <2> QED
      BY <1>1, <1>5, <1>8, <2>1 DEF Lists
  <1>12. Whole'
    BY <1>2, <1>3, <1>9, <1>10 DEF Whole
  <1>13. NoOthers'
    BY <1>2, <1>6, <1>9 DEF NoOthers
  <1>14. dir' \in BOOLEAN /\ there' \in {"nothing", "ours", "theirs"} /\ DirOurs'
    BY <1>2, MakesDir DEF DirOurs
  <1>15. UNION {Range(disk'[id]) : id \in Wanted'} = Range(run) \cup UNION {Range(disk[id]) : id \in Wanted}
    BY <1>2, <1>3, <1>6, <1>9, <1>10
  <1>16. /\ next' \in Nat /\ DOMAIN disk' \subseteq 0 .. next'
         /\ \A id \in DOMAIN disk' : disk'[id] \in Seq(Keys) \cup {Torn}
    BY <1>2, <1>3, <1>4
  <1> QED
    BY <1>11, <1>12, <1>13, <1>14, <1>15, <1>16

\* Spill: the run goes to a file, and the key that did not fit begins the next.
LEMMA SpillKeeps == XInv /\ Spill => XInv'
  <1> SUFFICES ASSUME XInv, Spill PROVE XInv'
    OBVIOUS
  <1>1. CASE WriteRunFails /\ UNCHANGED <<at, run, live>>
    BY <1>1, WriteFails DEF Spill
  <1>2. CASE /\ WriteRun(Sorted(run)) /\ live' = Append(live, next)
             /\ run' = <<source.keys[at + 1]>> /\ at' = at + 1 /\ UNCHANGED <<pc, answer>>
    <2> USE DEF XInv
    <2>1. PICK k : k = source.keys[at + 1]
      OBVIOUS
    <2>2. pc = "read" /\ pc' = "read" /\ at < Len(source.keys) /\ UNCHANGED <<source, todo, group, walks, target>>
      BY <1>2 DEF Spill
    <2>3. /\ Lists' /\ Whole' /\ NoOthers' /\ DirOurs'
          /\ UNION {Range(disk'[id]) : id \in Wanted'} = Range(run) \cup UNION {Range(disk[id]) : id \in Wanted}
          /\ next' \in Nat /\ DOMAIN disk' \subseteq 0 .. next'
          /\ \A id \in DOMAIN disk' : disk'[id] \in Seq(Keys) \cup {Torn}
          /\ dir' \in BOOLEAN /\ there' \in {"nothing", "ours", "theirs"}
      BY <1>2, <2>2, Spills
    <2>4. Yielded' = Yielded \cup {k} /\ k \in Keys /\ at' \in 0 .. Len(source.keys)
      BY <1>2, <2>1, <2>2, YieldsOne
    <2>5. run' \in Seq(Keys) /\ Range(run') = {k}
      <3>1. run' = <<k>>
        BY <1>2, <2>1
      <3>2. <<k>> \in Seq(Keys) /\ DOMAIN <<k>> = {1} /\ <<k>>[1] = k
        BY <2>4
      <3> QED
        BY <3>1, <3>2 DEF Range
    <2>6. Types'
      BY <1>2, <2>2, <2>3, <2>4, <2>5 DEF Types
    <2>7. Covered'
      BY <2>2, <2>3, <2>4, <2>5 DEF Covered
    <2>8. Stages' /\ Outcome'
      BY <1>2, <2>2 DEF Stages, Outcome
    <2> QED
      BY <2>3, <2>6, <2>7, <2>8
  <1> QED
    BY <1>1, <1>2 DEF Spill

\* Check: a source that raised fails the build before anything is walked.
LEMMA CheckKeeps == XInv /\ Check => XInv'
  <1> SUFFICES ASSUME XInv, Check PROVE XInv'
    OBVIOUS
  <1>1. CASE source.raises
    BY <1>1, FailsOnly DEF Check
  <1>2. CASE ~source.raises
    <2> USE DEF XInv
    <2>1. /\ pc = "read" /\ at = Len(source.keys) /\ pc' = (IF live = <<>> THEN "pass" ELSE "last")
          /\ UNCHANGED <<source, at, run, store, walks, target, answer>>
      BY <1>2 DEF Check
    <2>2. Lists' /\ Whole' /\ NoOthers' /\ Covered' /\ DirOurs'
      BY <2>1, StoreKept
    <2>3. Types' /\ Stages' /\ Outcome'
      BY <1>2, <2>1 DEF store, Types, Stages, Outcome
    <2> QED
      BY <2>2, <2>3
  <1> QED
    BY <1>1, <1>2

\* LastSpill: what is in memory goes to a file before the files are collapsed.
LEMMA LastSpillKeeps == XInv /\ LastSpill => XInv'
  <1> SUFFICES ASSUME XInv, LastSpill PROVE XInv'
    OBVIOUS
  <1>1. pc = "last" /\ UNCHANGED <<source, at, todo, group, walks, target>>
    BY DEF LastSpill
  <1>2. CASE run = <<>> /\ pc' = "collapse" /\ UNCHANGED <<run, live, next, disk, dir, there, answer>>
    <2> USE DEF XInv
    <2>1. Lists' /\ Whole' /\ NoOthers' /\ Covered' /\ DirOurs'
      BY <1>1, <1>2, StoreKept DEF store
    <2>2. Types' /\ Stages' /\ Outcome'
      BY <1>1, <1>2 DEF Types, Stages, Outcome
    <2> QED
      BY <2>1, <2>2
  <1>3. CASE /\ WriteRun(Sorted(run)) /\ live' = Append(live, next) /\ run' = <<>>
             /\ pc' = "collapse" /\ UNCHANGED answer
    <2> USE DEF XInv
    <2>1. /\ Lists' /\ Whole' /\ NoOthers' /\ DirOurs'
          /\ UNION {Range(disk'[id]) : id \in Wanted'} = Range(run) \cup UNION {Range(disk[id]) : id \in Wanted}
          /\ next' \in Nat /\ DOMAIN disk' \subseteq 0 .. next'
          /\ \A id \in DOMAIN disk' : disk'[id] \in Seq(Keys) \cup {Torn}
          /\ dir' \in BOOLEAN /\ there' \in {"nothing", "ours", "theirs"}
      BY <1>1, <1>3, Spills
    <2>2. run' \in Seq(Keys) /\ Range(run') = {}
      BY <1>3 DEF Range
    <2>3. Yielded' = Yielded
      BY <1>1 DEF Yielded
    <2>4. Types'
      BY <1>1, <1>3, <2>1, <2>2 DEF Types
    <2>5. Covered'
      BY <1>1, <1>3, <2>1, <2>2, <2>3 DEF Covered
    <2>6. Stages' /\ Outcome'
      BY <1>1, <1>3 DEF Stages, Outcome
    <2> QED
      BY <2>1, <2>4, <2>5, <2>6
  <1>4. CASE WriteRunFails /\ UNCHANGED <<run, live>>
    BY <1>1, <1>4, WriteFails
  <1> QED
    BY <1>2, <1>3, <1>4 DEF LastSpill

\* Round: the files move from one list to the other.
LEMMA RoundKeeps == XInv /\ Round => XInv'
  <1> SUFFICES ASSUME XInv, Round PROVE XInv'
    OBVIOUS
  <1> USE DEF XInv
  <1>1. /\ pc = "collapse" /\ todo = <<>> /\ group = <<>> /\ run = <<>>
        /\ UNCHANGED <<source, at, run, group, next, disk, dir, there, walks, target, answer>>
    BY DEF Round, RoundOver, Stages
  <1>2. CASE todo' = live /\ live' = <<>> /\ pc' = pc
    <2>1. live \in Seq(Nat) /\ todo \in Seq(Nat) /\ group \in Seq(Nat) /\ <<>> \in Seq(Nat) /\ Len(<<>>) = 0
      BY DEF Lists
    <2>2. Range(todo) = {} /\ Range(live') = {} /\ Range(todo') = Range(live) /\ Range(group) = {}
      BY <1>1, <1>2, <2>1, ListIs
    <2>3. Listed' = Listed /\ Newest' = Newest /\ Wanted' = Wanted /\ Yielded' = Yielded
      BY <1>1, <2>2 DEF Listed, Newest, Wanted, Yielded
    <2>4. OnceEach(live')
      BY <1>2, <2>1 DEF OnceEach
    <2>5. Lists'
      BY <1>1, <1>2, <2>1, <2>2, <2>3, <2>4 DEF Lists
    <2>6. Whole' /\ NoOthers' /\ Covered'
      BY <1>1, <1>2, <2>3 DEF Whole, NoOthers, Covered
    <2>7. Types' /\ Stages' /\ Outcome' /\ DirOurs'
      BY <1>1, <1>2 DEF Types, Stages, Outcome, DirOurs
    <2> QED
      BY <2>5, <2>6, <2>7
  <1>3. CASE pc' = "pass" /\ UNCHANGED <<todo, live>>
    <2>1. Lists' /\ Whole' /\ NoOthers' /\ Covered' /\ DirOurs'
      BY <1>1, <1>3, StoreKept DEF store
    <2>2. Types' /\ Stages' /\ Outcome'
      BY <1>1, <1>3 DEF Types, Stages, Outcome
    <2> QED
      BY <2>1, <2>2
  <1> QED
    BY <1>2, <1>3 DEF Round

\* The next group, and what comes after it.
LEMMA Grouped ==
    ASSUME Lists, Len(NextGroup) > 0
    PROVE  LET rest == SubSeq(todo, Len(NextGroup) + 1, Len(todo))
           IN  /\ NextGroup \in Seq(Nat) /\ rest \in Seq(Nat)
               /\ OnceEach(NextGroup) /\ OnceEach(rest)
               /\ Range(NextGroup) \cup Range(rest) = Range(todo) /\ Range(NextGroup) \cap Range(rest) = {}
  <1>1. todo \in Seq(Nat) /\ OnceEach(todo) /\ Len(todo) \in Nat
    BY ListIs DEF Lists
  <1>2. PICK n : n = IF Len(todo) < FanIn THEN Len(todo) ELSE FanIn
    OBVIOUS
  <1>3. NextGroup = SubSeq(todo, 1, n) /\ n \in Nat /\ n <= Len(todo)
    BY <1>1, <1>2, FanInAssumption DEF NextGroup, FirstOf
  <1>4. Len(NextGroup) = n
    <2>1. \A i \in 1 .. n : todo[i] \in Nat
      BY <1>1, <1>3, ListIs
    <2>2. Len(SubSeq(todo, 1, n)) = IF 1 <= n THEN n - 1 + 1 ELSE 0
      BY <1>3, <2>1, SubSeqProperties
    <2> QED
      BY <1>3, <2>2
  <1>5. n \in 1 .. Len(todo)
    BY <1>1, <1>3, <1>4
  <1> QED
    BY <1>1, <1>3, <1>4, <1>5, Cut

\* Carry: the last file of a round goes over as it is.
LEMMA CarryKeeps == XInv /\ Carry => XInv'
  <1> SUFFICES ASSUME XInv, Carry PROVE XInv'
    OBVIOUS
  <1> USE DEF XInv
  <1>1. PICK one, rest : one = NextGroup /\ rest = SubSeq(todo, Len(NextGroup) + 1, Len(todo))
    OBVIOUS
  <1>2. /\ pc = "collapse" /\ group = <<>> /\ Len(one) = 1 /\ live' = live \o one /\ todo' = rest
        /\ UNCHANGED <<source, at, run, group, next, disk, dir, there, walks, target, pc, answer>>
    BY <1>1 DEF Carry
  <1>3. /\ one \in Seq(Nat) /\ rest \in Seq(Nat) /\ OnceEach(one) /\ OnceEach(rest)
        /\ Range(one) \cup Range(rest) = Range(todo) /\ Range(one) \cap Range(rest) = {}
    BY <1>1, <1>2, Grouped
  <1>4. live' \in Seq(Nat) /\ OnceEach(live') /\ Range(live') = Range(live) \cup Range(one)
    <2>1. Range(live) \cap Range(one) = {}
      BY <1>3 DEF Lists
    <2> QED
      BY <1>2, <1>3, <2>1, Joined DEF Lists
  <1>5. Listed' = Listed /\ Newest' = Newest /\ Wanted' = Wanted /\ Yielded' = Yielded
    BY <1>2, <1>3, <1>4 DEF Listed, Newest, Wanted, Yielded
  <1>6. Lists'
    <2>1. Range(group) = {}
      BY <1>2, ListIs DEF Lists
    <2> QED
      BY <1>2, <1>3, <1>4, <1>5, <2>1 DEF Lists
  <1>7. Whole' /\ NoOthers' /\ Covered'
    BY <1>2, <1>5 DEF Whole, NoOthers, Covered
  <1>8. Types' /\ Stages' /\ Outcome' /\ DirOurs'
    BY <1>2 DEF Types, Stages, Outcome, DirOurs
  <1> QED
    BY <1>6, <1>7, <1>8

\* MergeGroup: the new file has the keys of the group, or the build has failed with the group listed.
LEMMA MergeGroupKeeps == XInv /\ MergeGroup => XInv'
  <1> SUFFICES ASSUME XInv, MergeGroup PROVE XInv'
    OBVIOUS
  <1> USE DEF XInv
  <1>1. PICK g, rest : g = NextGroup /\ rest = SubSeq(todo, Len(NextGroup) + 1, Len(todo))
    OBVIOUS
  <1>2. /\ pc = "collapse" /\ group = <<>> /\ Len(g) > 1
        /\ UNCHANGED <<source, at, run, live, walks, target>>
    BY <1>1 DEF MergeGroup
  <1>3. /\ g \in Seq(Nat) /\ rest \in Seq(Nat) /\ OnceEach(g) /\ OnceEach(rest)
        /\ Range(g) \cup Range(rest) = Range(todo) /\ Range(g) \cap Range(rest) = {} /\ g # <<>>
    <2>1. Len(NextGroup) > 0
      BY <1>1, <1>2
    <2>2. /\ g \in Seq(Nat) /\ rest \in Seq(Nat) /\ OnceEach(g) /\ OnceEach(rest)
          /\ Range(g) \cup Range(rest) = Range(todo) /\ Range(g) \cap Range(rest) = {}
      BY <1>1, <2>1, Grouped
    <2> QED
      BY <1>2, <2>2, ListIs
  <1>4. /\ next \in Nat /\ DOMAIN disk \subseteq 0 .. next /\ next \notin DOMAIN disk
        /\ \A id \in DOMAIN disk : disk[id] \in Seq(Keys) \cup {Torn}
    <2>1. /\ next \in Nat /\ DOMAIN disk \subseteq 0 .. next
          /\ \A id \in DOMAIN disk : disk[id] \in Seq(Keys) \cup {Torn}
      BY DEF Types
    <2>2. DOMAIN disk \subseteq Listed
      BY <1>2 DEF NoOthers, Newest
    <2> QED
      BY <2>1, <2>2 DEF Lists
  <1>5. ASSUME NEW stream \in Streams(g), WriteRun(stream.keys)
        PROVE  /\ stream.keys \in Seq(Keys)
               /\ ~stream.failed => Climbing(stream.keys)
                                    /\ Range(stream.keys) = UNION {Range(disk[id]) : id \in Range(g)}
               /\ next' = next + 1 /\ MakeDir
               /\ DOMAIN disk' = DOMAIN disk \cup {next} /\ disk'[next] = stream.keys
               /\ \A id \in DOMAIN disk : disk'[id] = disk[id]
               /\ DOMAIN disk' \subseteq 0 .. next'
               /\ \A id \in DOMAIN disk' : disk'[id] \in Seq(Keys) \cup {Torn}
               /\ dir' \in BOOLEAN /\ there' \in {"nothing", "ours", "theirs"} /\ (dir' <=> there' = "ours")
    <2>1. \A id \in Range(g) : disk[id] \in Seq(Keys) /\ Climbing(disk[id])
      BY <1>2, <1>3 DEF Whole, Listed
    <2>2. /\ stream.keys \in Seq(Keys)
          /\ ~stream.failed => Climbing(stream.keys)
                               /\ Range(stream.keys) = UNION {Range(disk[id]) : id \in Range(g)}
      BY <1>3, <1>5, <2>1, StreamsOK
    <2>3. /\ next' = next + 1 /\ MakeDir
          /\ DOMAIN disk' = DOMAIN disk \cup {next} /\ disk'[next] = stream.keys
          /\ \A id \in DOMAIN disk : disk'[id] = disk[id]
      BY <1>4, <1>5, Written
    <2>4. dir' \in BOOLEAN /\ there' \in {"nothing", "ours", "theirs"} /\ (dir' <=> there' = "ours")
      BY <1>2, <2>3, MakesDir
    <2>5. DOMAIN disk' \subseteq 0 .. next' /\ \A id \in DOMAIN disk' : disk'[id] \in Seq(Keys) \cup {Torn}
      BY <1>4, <2>2, <2>3
    <2> QED
      BY <2>2, <2>3, <2>4, <2>5
  <1>6. CASE \E stream \in Streams(g) :
                WriteRun(stream.keys) /\ stream.failed /\ Fail /\ UNCHANGED <<group, todo>>
    <2>1. PICK stream \in Streams(g) :
                WriteRun(stream.keys) /\ stream.failed /\ Fail /\ UNCHANGED <<group, todo>>
      BY <1>6
    <2>2. /\ next' = next + 1 /\ DOMAIN disk \subseteq DOMAIN disk' /\ DOMAIN disk' \subseteq 0 .. next'
          /\ \A id \in DOMAIN disk' : disk'[id] \in Seq(Keys) \cup {Torn}
          /\ \A id \in DOMAIN disk : disk'[id] = disk[id]
          /\ dir' \in BOOLEAN /\ there' \in {"nothing", "ours", "theirs"} /\ (dir' <=> there' = "ours")
      BY <1>5, <2>1
    <2>3. next' \in Nat /\ next <= next'
      BY <1>4, <2>2
    <2> QED
      BY <1>2, <2>1, <2>2, <2>3, Fails
  <1>7. CASE \E stream \in Streams(g) :
                WriteRun(stream.keys) /\ ~stream.failed /\ group' = g /\ todo' = rest /\ UNCHANGED <<pc, answer>>
    <2>1. PICK stream \in Streams(g) :
                WriteRun(stream.keys) /\ ~stream.failed /\ group' = g /\ todo' = rest /\ UNCHANGED <<pc, answer>>
      BY <1>7
    <2>2. /\ stream.keys \in Seq(Keys) /\ Climbing(stream.keys)
          /\ Range(stream.keys) = UNION {Range(disk[id]) : id \in Range(g)}
          /\ next' = next + 1
          /\ DOMAIN disk' = DOMAIN disk \cup {next} /\ disk'[next] = stream.keys
          /\ \A id \in DOMAIN disk : disk'[id] = disk[id]
          /\ DOMAIN disk' \subseteq 0 .. next'
          /\ \A id \in DOMAIN disk' : disk'[id] \in Seq(Keys) \cup {Torn}
          /\ dir' \in BOOLEAN /\ there' \in {"nothing", "ours", "theirs"} /\ (dir' <=> there' = "ours")
      BY <1>5, <2>1
    <2>3. Range(group) = {} /\ Newest = {} /\ live \in Seq(Nat)
      BY <1>2, ListIs DEF Newest, Lists
    <2>4. Listed = Range(live) \cup Range(todo) /\ Wanted = Range(live) \cup Range(g) \cup Range(rest)
      BY <1>3, <2>3 DEF Listed, Wanted
    <2>5. Newest' = {next}
      BY <1>3, <1>4, <2>1, <2>2 DEF Newest
    <2>6. Listed' = Listed /\ Wanted' = Range(live) \cup Range(rest) \cup {next}
      BY <1>2, <1>3, <2>1, <2>4, <2>5 DEF Listed, Wanted
    <2>7. Listed \subseteq Nat /\ (\A id \in Listed : id < next) /\ next \notin Listed
      BY <1>4, <2>4, ListIs DEF Lists
    <2>8. Lists'
      <3>1. \A id \in Listed' : id < next'
        BY <1>4, <2>2, <2>6, <2>7
      <3>2. next' - 1 \notin Listed'
        BY <1>4, <2>2, <2>6, <2>7
      <3>3. Range(live) \cap Range(rest) = {} /\ Range(live) \cap Range(g) = {}
        BY <1>3 DEF Lists
      <3>4. live' = live /\ todo' = rest /\ group' = g
        BY <1>2, <2>1
      <3> QED
        BY <1>3, <3>1, <3>2, <3>3, <3>4 DEF Lists
    <2>9. \A id \in Listed : id \in DOMAIN disk /\ disk[id] \in Seq(Keys) /\ Climbing(disk[id])
      BY <1>2 DEF Whole
    <2>10. Whole'
      BY <2>2, <2>5, <2>6, <2>9 DEF Whole
    <2>11. NoOthers'
      BY <1>2, <2>2, <2>3, <2>5, <2>6 DEF NoOthers
    <2>12. Covered'
      <3>1. UNION {Range(disk'[id]) : id \in Wanted'} = UNION {Range(disk[id]) : id \in Wanted}
        <4>1. \A id \in Range(live) \cup Range(rest) : disk'[id] = disk[id]
          BY <1>3, <2>2, <2>4, <2>9
        <4> QED
          BY <2>2, <2>4, <2>6, <4>1
      <3>2. Yielded' = Yielded /\ run' = run
        BY <1>2 DEF Yielded
      <3> QED
        BY <1>2, <2>1, <3>1, <3>2 DEF Covered
    <2>13. Types'
      BY <1>2, <1>4, <2>1, <2>2 DEF Types
    <2>14. Stages' /\ Outcome' /\ DirOurs'
      BY <1>2, <2>1, <2>2 DEF Stages, Outcome, DirOurs
    <2> QED
      BY <2>8, <2>10, <2>11, <2>12, <2>13, <2>14
  <1>8. CASE WriteRunFails /\ UNCHANGED <<group, todo>>
    BY <1>2, <1>8, WriteFails
  <1>9. CASE Fail /\ UNCHANGED <<group, todo, disk, next, dir, there>>
    BY <1>2, <1>9, FailsOnly DEF store
  <1> QED
    BY <1>1, <1>6, <1>7, <1>8, <1>9 DEF MergeGroup

\* Consume: a file of the group is removed, with its keys in the newest run.
LEMMA ConsumeKeeps == XInv /\ Consume => XInv'
  <1> SUFFICES ASSUME XInv, Consume PROVE XInv'
    OBVIOUS
  <1> USE DEF XInv
  <1>1. /\ pc = "collapse" /\ group # <<>>
        /\ UNCHANGED <<source, at, run, todo, next, dir, there, walks, target>>
    BY DEF Consume
  <1>2. CASE Fail /\ UNCHANGED <<disk, group, live>>
    BY <1>1, <1>2, FailsOnly DEF store
  <1>3. CASE /\ disk' = [id \in DOMAIN disk \ {Head(group)} |-> disk[id]]
             /\ group' = Tail(group)
             /\ live' = IF Tail(group) = <<>> THEN Append(live, next - 1) ELSE live
             /\ UNCHANGED <<pc, answer>>
    <2>1. PICK gone, left, new : gone = Head(group) /\ left = Tail(group) /\ new = next - 1
      OBVIOUS
    <2>2. left \in Seq(Nat) /\ OnceEach(left) /\ gone \in Range(group) /\ Range(left) = Range(group) \ {gone}
      BY <1>1, <2>1, Tailed DEF Lists
    <2>3. Newest = {new} /\ new \notin Listed /\ Wanted = Range(live) \cup Range(todo) \cup {new}
      BY <1>1, <2>1 DEF Newest, Lists, Wanted
    <2>4. new \in Nat /\ new < next /\ next \in Nat
      <3>1. new \in DOMAIN disk /\ next \in Nat
        BY <1>1, <2>3 DEF Whole, Types
      <3> QED
        BY <2>1, <3>1 DEF Types
    <2>5. DOMAIN disk' = DOMAIN disk \ {gone} /\ \A id \in DOMAIN disk' : disk'[id] = disk[id]
      BY <1>3, <2>1
    <2>6. gone \notin Range(live) /\ gone \notin Range(todo) /\ gone # new
      BY <2>2, <2>3 DEF Lists, Listed
    <2>7. live \in Seq(Nat) /\ OnceEach(live) /\ new \notin Range(live) /\ new \notin Range(todo) /\ new \notin Range(group)
      BY <2>3 DEF Lists, Listed
    <2>8. ASSUME left = <<>>
          PROVE  Lists' /\ Wanted' = Wanted /\ Listed' \cup Newest' = (Listed \cup Newest) \ {gone}
      <3>1. live' = Append(live, new) /\ group' = <<>> /\ group' = left
        BY <1>3, <2>1, <2>8
      <3>2. live' \in Seq(Nat) /\ OnceEach(live') /\ Range(live') = Range(live) \cup {new}
        BY <2>4, <2>7, <3>1, Appended
      <3>3. Range(left) = {} /\ Range(group') = {}
        BY <2>2, <2>8, <3>1, ListIs
      <3>4. Newest' = {} /\ Listed' = Range(live) \cup Range(todo) \cup {new} /\ Wanted' = Wanted
        BY <1>1, <2>3, <3>1, <3>2, <3>3 DEF Newest, Listed, Wanted
      <3>5. Lists'
        <4>1. \A id \in Listed' : id < next'
          BY <1>1, <2>4, <3>4 DEF Lists, Listed
        <4>2. Range(live') \cap Range(todo') = {}
          BY <1>1, <2>7, <3>2 DEF Lists
        <4> QED
          BY <1>1, <2>2, <3>1, <3>2, <3>3, <4>1, <4>2 DEF Lists
      <3>6. Listed' \cup Newest' = (Listed \cup Newest) \ {gone}
        BY <2>2, <2>3, <2>6, <3>3, <3>4 DEF Listed
      <3> QED
        BY <3>4, <3>5, <3>6
    <2>9. ASSUME left # <<>>
          PROVE  Lists' /\ Wanted' = Wanted /\ Listed' \cup Newest' = (Listed \cup Newest) \ {gone}
      <3>1. live' = live /\ group' = left
        BY <1>3, <2>1, <2>9
      <3>2. Newest' = {new} /\ Listed' = Listed \ {gone} /\ Wanted' = Wanted
        BY <1>1, <2>1, <2>2, <2>3, <2>6, <2>9, <3>1 DEF Newest, Listed, Wanted
      <3>3. Lists'
        <4>1. \A id \in Listed' : id < next'
          BY <1>1, <3>2 DEF Lists
        <4>2. next' - 1 \notin Listed'
          BY <1>1, <2>1, <2>3, <3>2
        <4> QED
          BY <1>1, <2>2, <3>1, <4>1, <4>2 DEF Lists
      <3>4. Listed' \cup Newest' = (Listed \cup Newest) \ {gone}
        BY <2>3, <2>6, <3>2
      <3> QED
        BY <3>2, <3>3, <3>4
    <2>10. Lists' /\ Wanted' = Wanted /\ Listed' \cup Newest' = (Listed \cup Newest) \ {gone}
      BY <2>8, <2>9
    <2>11. pc' = "collapse" /\ answer' = answer
      BY <1>1, <1>3
    <2>12. Whole'
      BY <1>1, <2>5, <2>10 DEF Whole
    <2>13. NoOthers'
      BY <1>1, <2>5, <2>10 DEF NoOthers
    <2>14. Covered'
      <3>1. Wanted \subseteq (Listed \cup Newest) \ {gone}
        BY <2>3, <2>6 DEF Listed
      <3>2. \A id \in Wanted : disk'[id] = disk[id]
        BY <1>1, <2>5, <3>1 DEF Whole
      <3>3. Yielded' = Yielded
        BY <1>1 DEF Yielded
      <3> QED
        BY <1>1, <2>10, <3>2, <3>3 DEF Covered
    <2>15. Types'
      BY <1>1, <2>5, <2>11 DEF Types
    <2>16. Stages' /\ Outcome' /\ DirOurs'
      BY <1>1, <2>11 DEF Stages, Outcome, DirOurs
    <2> QED
      BY <2>10, <2>12, <2>13, <2>14, <2>15, <2>16
  <1> QED
    BY <1>2, <1>3 DEF Consume

\* A walk that no reader ended sees every key of the source, each once, in order.
LEMMA WalkSeesAll ==
    ASSUME XInv, pc = "pass", NEW stream \in Walkable, ~stream.failed
    PROVE  Distinct(stream.keys) = Sorted(source.keys) /\ Sorted(source.keys) \in Seq(Keys)
  <1> USE DEF XInv
  <1>1. source.keys \in Seq(Keys) /\ run \in Seq(Keys) /\ live \in Seq(Nat) /\ todo = <<>> /\ group = <<>>
        /\ todo \in Seq(Nat) /\ at = Len(source.keys)
    BY DEF Types, Lists, Stages
  <1>2. Range(source.keys) = Range(run) \cup UNION {Range(disk[id]) : id \in Range(live)}
    <2>1. Range(source.keys) = Yielded
      BY <1>1, RunIs DEF Yielded
    <2>2. Wanted = Range(live)
      BY <1>1, ListIs DEF Wanted, Newest
    <2> QED
      BY <2>1, <2>2 DEF Covered
  <1>3. /\ stream.keys \in Seq(Keys) /\ Climbing(stream.keys)
        /\ Range(stream.keys) = Range(source.keys)
    <2>1. CASE live = <<>>
      <3>1. stream.keys = Sorted(run)
        BY <2>1 DEF Walkable
      <3>2. Sorted(run) \in Seq(Keys) /\ Rising(Sorted(run)) /\ Range(Sorted(run)) = Range(run)
        BY <1>1, SortedOK
      <3>3. \A i \in 1 .. Len(Sorted(run)) : Sorted(run)[i] \in Nat
        BY <3>2, RunIs
      <3>4. Climbing(Sorted(run))
        BY <3>2, <3>3 DEF Rising, Climbing
      <3>5. Range(live) = {}
        BY <1>1, <2>1, ListIs
      <3> QED
        BY <1>2, <3>1, <3>2, <3>4, <3>5
    <2>2. CASE live # <<>>
      <3>1. run = <<>> /\ Range(run) = {}
        BY <2>2 DEF Stages, Range
      <3>2. \A id \in Range(live) : disk[id] \in Seq(Keys) /\ Climbing(disk[id])
        BY DEF Whole, Listed
      <3>3. stream \in Streams(live)
        BY <2>2 DEF Walkable
      <3>4. /\ stream.keys \in Seq(Keys) /\ Climbing(stream.keys)
            /\ Range(stream.keys) = UNION {Range(disk[id]) : id \in Range(live)}
        BY <1>1, <3>2, <3>3, StreamsOK
      <3> QED
        BY <1>2, <3>1, <3>4
    <2> QED
      BY <2>1, <2>2
  <1> QED
    BY <1>1, <1>3, DistinctOK, SortedOK

\* Walk: what is walked is the corpus, sorted, or the build has failed.
LEMMA WalkKeeps == XInv /\ Walk => XInv'
  <1> SUFFICES ASSUME XInv, Walk PROVE XInv'
    OBVIOUS
  <1>1. pc = "pass" /\ UNCHANGED <<source, at, run, store, target>>
    BY DEF Walk
  <1>2. CASE Fail /\ UNCHANGED walks
    BY <1>1, <1>2, FailsOnly
  <1>3. CASE \E stream \in Walkable :
                /\ ~stream.failed
                /\ walks' = Append(walks, Distinct(stream.keys))
                /\ pc' = IF Len(walks') = Passes THEN "publish" ELSE IF live = <<>> THEN "pass" ELSE "collapse"
                /\ UNCHANGED answer
    <2> USE DEF XInv
    <2>1. PICK all : all = Sorted(source.keys)
      OBVIOUS
    <2>2. /\ all \in Seq(Keys) /\ walks' = Append(walks, all) /\ answer' = answer
          /\ pc' = IF Len(walks') = Passes THEN "publish" ELSE IF live = <<>> THEN "pass" ELSE "collapse"
      BY <1>1, <1>3, <2>1, WalkSeesAll
    <2>3. walks \in Seq(Seq(Keys)) /\ Len(walks) \in Nat
      BY LenProperties DEF Types
    <2>4. /\ walks' \in Seq(Seq(Keys)) /\ Len(walks') = Len(walks) + 1 /\ walks'[Len(walks) + 1] = all
          /\ \A i \in 1 .. Len(walks) : walks'[i] = walks[i]
      BY <2>2, <2>3
    <2>5. \A i \in 1 .. Len(walks') : walks'[i] = Sorted(source'.keys)
      <3> SUFFICES ASSUME NEW i \in 1 .. Len(walks') PROVE walks'[i] = all
        BY <1>1, <2>1
      <3>1. CASE i \in 1 .. Len(walks)
        BY <3>1, <2>1, <2>4 DEF Outcome
      <3>2. CASE i = Len(walks) + 1
        BY <3>2, <2>4
      <3> QED
        BY <3>1, <3>2, <2>3, <2>4
    <2>6. pc' \in {"publish", "pass", "collapse"}
      BY <2>2
    <2>7. Lists' /\ Whole' /\ NoOthers' /\ Covered' /\ DirOurs'
      BY <1>1, <2>6, StoreKept
    <2>8. Types'
      BY <1>1, <2>2, <2>4, <2>6 DEF store, Types
    <2>9. Stages'
      BY <1>1, <2>2 DEF store, Stages
    <2>10. Outcome'
      BY <1>1, <2>2, <2>5, <2>6 DEF Outcome
    <2> QED
      BY <2>7, <2>8, <2>9, <2>10
  <1> QED
    BY <1>2, <1>3 DEF Walk

\* No keys are what was at the path before.
LEMMA NotOld ==
    ASSUME NEW s \in Seq(Keys)
    PROVE  s # Old
  <1> SUFFICES ASSUME s = Old PROVE FALSE
    OBVIOUS
  <1>1. Len(s) = 1 /\ s[1] = -2
    BY DEF Old
  <1>2. s[1] \in Nat
    BY <1>1, RunIs
  <1> QED
    BY <1>1, <1>2

\* Publish: the last walk is what is at the path.
LEMMA PublishKeeps == XInv /\ Publish => XInv'
  <1> SUFFICES ASSUME XInv, Publish PROVE XInv'
    OBVIOUS
  <1>1. pc = "publish" /\ UNCHANGED <<source, at, run, store, walks>>
    BY DEF Publish
  <1>2. CASE Fail /\ UNCHANGED target
    BY <1>1, <1>2, FailsOnly
  <1>3. CASE target' = Last(walks) /\ pc' = "drop" /\ answer' = "ok"
    <2> USE DEF XInv
    <2>1. Lists' /\ Whole' /\ NoOthers' /\ Covered' /\ DirOurs'
      BY <1>1, <1>3, StoreKept
    <2>2. Types' /\ Stages'
      BY <1>1, <1>3 DEF store, Types, Stages
    <2>3. Len(walks) \in 1 .. Len(walks) /\ ~source.raises
      BY <1>1, FanInAssumption DEF Stages
    <2>4. target' = Sorted(source.keys)
      BY <1>3, <2>3 DEF Last, Outcome
    <2>5. Sorted(source.keys) \in Seq(Keys)
      BY SortedOK DEF Types
    <2>6. target' # Old
      BY <2>4, <2>5, NotOld
    <2>7. Outcome'
      BY <1>1, <1>3, <2>3, <2>4, <2>6 DEF Outcome
    <2> QED
      BY <2>1, <2>2, <2>7
  <1> QED
    BY <1>2, <1>3 DEF Publish

\* DropRuns: the files go, and what was walked and published stays.
LEMMA DropRunsKeeps == XInv /\ DropRuns => XInv'
  <1> SUFFICES ASSUME XInv, DropRuns PROVE XInv'
    OBVIOUS
  <1> USE DEF XInv
  <1>1. /\ pc = "drop" /\ pc' = "ended"
        /\ UNCHANGED <<source, at, run, live, todo, group, next, dir, walks, target, answer>>
    BY DEF DropRuns
  <1>2. there' \in {"nothing", "ours", "theirs"}
    BY DEF DropRuns, Types
  <1>3. DOMAIN disk' \subseteq DOMAIN disk /\ \A id \in DOMAIN disk' : disk'[id] = disk[id]
    BY DEF DropRuns
  <1>4. Types'
    BY <1>1, <1>2, <1>3 DEF Types
  <1>5. Lists'
    BY <1>1 DEF Lists, Listed
  <1>6. Whole' /\ NoOthers' /\ Covered' /\ DirOurs'
    BY <1>1 DEF Whole, NoOthers, Covered, DirOurs
  <1>7. Stages' /\ Outcome'
    BY <1>1 DEF Stages, Outcome
  <1> QED
    BY <1>4, <1>5, <1>6, <1>7

\* Nothing happens.
LEMMA XStutters == XInv /\ UNCHANGED vars => XInv'
  <1> SUFFICES ASSUME XInv, UNCHANGED vars PROVE XInv'
    OBVIOUS
  <1> USE DEF XInv
  <1>1. UNCHANGED <<source, at, run, live, todo, group, next, disk, dir, there, walks, target, pc, answer>>
    BY DEF vars, store
  <1>2. Newest' = Newest /\ Listed' = Listed /\ Wanted' = Wanted /\ Yielded' = Yielded
    BY <1>1 DEF Newest, Listed, Wanted, Yielded
  <1>3. Types' /\ Stages' /\ Outcome' /\ DirOurs'
    BY <1>1 DEF Types, Stages, Outcome, DirOurs
  <1>4. Lists' /\ Whole' /\ NoOthers' /\ Covered'
    BY <1>1, <1>2 DEF Lists, Whole, NoOthers, Covered
  <1> QED
    BY <1>3, <1>4

\* The invariant holds in every state the build reaches.
THEOREM ExtSortInvariant == Spec => []XInv
  <1>1. ASSUME XInv, [Next]_vars PROVE XInv'
    <2>1. CASE Build
      BY <1>1, <2>1, PushKeeps, TooLongKeeps, SpillKeeps, CheckKeeps, LastSpillKeeps, RoundKeeps, CarryKeeps,
         MergeGroupKeeps, ConsumeKeeps, WalkKeeps, PublishKeeps, DropRunsKeeps DEF Build
    <2>2. CASE UNCHANGED vars
      BY <1>1, <2>2, XStutters
    <2> QED
      BY <1>1, <2>1, <2>2 DEF Next, Ended
  <1> QED
    BY <1>1, XInit, PTL DEF Spec

-------------------------------------------------------------------------------
(* What follows from it. *)

\* Files listed one after another: as many as there are names.
LEMMA ManyListed ==
    ASSUME Lists
    PROVE  /\ Range(live \o todo \o group) = Listed
           /\ Cardinality(Listed) = Len(live) + Len(todo) + Len(group)
  <1>1. PICK s : s = live \o todo
    OBVIOUS
  <1>2. /\ s \in Seq(Nat) /\ OnceEach(s) /\ Range(s) = Range(live) \cup Range(todo)
        /\ Len(s) = Len(live) + Len(todo)
    BY <1>1, Joined DEF Lists
  <1>3. Range(s) \cap Range(group) = {}
    BY <1>2 DEF Lists
  <1>4. PICK t : t = s \o group
    OBVIOUS
  <1>5. /\ t \in Seq(Nat) /\ OnceEach(t) /\ Range(t) = Range(s) \cup Range(group)
        /\ Len(t) = Len(s) + Len(group)
    BY <1>2, <1>3, <1>4, Joined DEF Lists
  <1>6. Range(t) = Listed
    BY <1>2, <1>5 DEF Listed
  <1>7. PICK n \in Nat : n = Len(t)
    BY <1>5, ListIs
  <1>8. PICK D, T : D = 1 .. n /\ T = Range(t)
    OBVIOUS
  <1>9. /\ IsFiniteSet(D) /\ Cardinality(D) = n
    <2>1. IsFiniteSet(1 .. n) /\ Cardinality(1 .. n) = n
      BY FS_Interval
    <2> QED
      BY <1>8, <2>1
  <1>10. /\ t \in [D -> T] /\ \A i, j \in D : t[i] = t[j] => i = j
        /\ \A x \in T : \E i \in D : t[i] = x
    <2>1. DOMAIN t = D /\ (\A i \in D : t[i] \in T) /\ \A x \in T : \E i \in D : t[i] = x
      BY <1>5, <1>7, <1>8, ListIs
    <2>2. t \in [D -> Nat]
      BY <1>5, <1>7, <1>8, LenProperties
    <2> QED
      BY <1>5, <1>7, <1>8, <2>1, <2>2 DEF OnceEach
  <1>11. Cardinality(T) = n
    BY <1>9, <1>10, OneToOne
  <1> QED
    BY <1>1, <1>2, <1>4, <1>5, <1>6, <1>7, <1>8, <1>11

\* Every variable has its type, and every name still to be read is a whole file.
THEOREM TypesHold == Spec => []TypeOK
  <1>1. ASSUME XInv PROVE TypeOK
    <2>1. pc # "ended" => Range(live \o todo \o group) \subseteq {id \in DOMAIN disk : disk[id] # Torn}
      <3> SUFFICES ASSUME pc # "ended", NEW id \in Listed
                   PROVE  id \in DOMAIN disk /\ disk[id] # Torn
        BY <1>1, ManyListed DEF XInv
      <3>1. id \in DOMAIN disk /\ disk[id] \in Seq(Keys)
        BY <1>1 DEF XInv, Whole
      <3>2. PICK s \in Seq(Keys) : s = disk[id]
        BY <3>1
      <3>3. s # Torn
        <4> SUFFICES ASSUME s = Torn PROVE FALSE
          OBVIOUS
        <4>1. Len(s) = 1 /\ s[1] = -1
          BY DEF Torn
        <4>2. s[1] \in Nat
          BY <4>1, RunIs
        <4> QED
          BY <4>1, <4>2
      <3> QED
        BY <3>1, <3>2, <3>3
    <2> QED
      BY <1>1, <2>1 DEF XInv, Types, TypeOK
  <1> QED
    BY <1>1, ExtSortInvariant, PTL

\* What is published is the whole corpus, sorted, and nothing of a source that raised.
THEOREM Publishes == Spec => []PublishesTheCorpus
  <1>1. XInv => PublishesTheCorpus
    BY DEF XInv, Outcome, PublishesTheCorpus
  <1> QED
    BY <1>1, ExtSortInvariant, PTL

\* The walks agree, whatever is collapsed between them.
THEOREM WalksAllAgree == Spec => []WalksAgree
  <1>1. ASSUME XInv PROVE WalksAgree
    <2>1. DOMAIN walks = 1 .. Len(walks)
      BY <1>1, LenProperties DEF XInv, Types
    <2> QED
      BY <1>1, <2>1 DEF XInv, Outcome, WalksAgree
  <1> QED
    BY <1>1, ExtSortInvariant, PTL

\* No key the source has yielded is lost before the build drops its files, and a collapse takes the
\* space of one group more.
THEOREM KeysAreKept == Spec => []KeysKept
  <1>1. ASSUME XInv PROVE OneGroupMore
    <2>1. /\ Range(live \o todo \o group) = Listed
          /\ Cardinality(Listed) = Len(live) + Len(todo) + Len(group)
      BY <1>1, ManyListed DEF XInv
    <2>2. pc = "collapse" => DOMAIN disk \ Listed \subseteq Newest
      BY <1>1 DEF XInv, NoOthers
    <2> QED
      BY <2>1, <2>2 DEF OneGroupMore, Newest
  <1>2. ASSUME XInv, pc # "ended"
        PROVE  Range(SubSeq(source.keys, 1, at)) \subseteq Range(run) \cup UNION {Range(disk[id]) : id \in DOMAIN disk}
    <2>1. PICK keys, n, s : keys = source.keys /\ n = at /\ s = SubSeq(keys, 1, n)
      OBVIOUS
    <2>2. keys \in Seq(Keys) /\ n \in 0 .. Len(keys) /\ Len(keys) \in Nat
      BY <1>2, <2>1, LenProperties DEF XInv, Types
    <2>3. \A i \in 1 .. n : keys[i] \in Keys
      BY <2>2, RunIs
    <2>4. s \in Seq(Keys) /\ Len(s) = n /\ \A i \in 1 .. n : s[i] = keys[i]
      <3>1. /\ SubSeq(keys, 1, n) \in Seq(Keys)
            /\ Len(SubSeq(keys, 1, n)) = IF 1 <= n THEN n - 1 + 1 ELSE 0
            /\ \A i \in 1 .. n - 1 + 1 : SubSeq(keys, 1, n)[i] = keys[1 + i - 1]
        BY <2>2, <2>3, SubSeqProperties
      <3> QED
        BY <2>1, <2>2, <3>1
    <2>5. Range(s) = {s[i] : i \in 1 .. n}
      BY <2>4, RunIs
    <2>6. Range(s) = Yielded
      BY <2>1, <2>4, <2>5 DEF Yielded
    <2>7. Wanted \subseteq DOMAIN disk
      BY <1>2 DEF XInv, Whole, Wanted, Listed
    <2> QED
      BY <1>2, <2>1, <2>6, <2>7 DEF XInv, Covered
  <1>3. XInv => KeysKept
    BY <1>1, <1>2 DEF KeysKept
  <1> QED
    BY <1>3, ExtSortInvariant, PTL

\* The directory made for the runs is gone when the build is over, and one of another's is never touched.
THEOREM RunsAreRemoved == Spec => LeavesNoRuns
  <1> DEFINE Stays == /\ there = "theirs" => there' = "theirs"
                      /\ pc' = "ended" /\ "removeDir" \notin Faults => there' # "ours"
  <1>1. ASSUME XInv, [Next]_vars PROVE [Stays]_vars
    <2> SUFFICES ASSUME Build PROVE Stays
      BY <1>1 DEF Next, Ended
    <2>1. dir <=> there = "ours"
      <3>1. pc # "ended"
        BY DEF Build, Push, TooLong, Spill, Check, LastSpill, Round, Carry, MergeGroup, Consume, Walk, Publish, DropRuns
      <3> QED
        BY <1>1, <3>1 DEF XInv, DirOurs
    <2>2. CASE DropRuns
      BY <2>1, <2>2 DEF DropRuns
    <2>3. CASE MakeDir /\ pc' # "ended"
      BY <2>1, <2>3 DEF MakeDir, DirMade
    <2>4. CASE UNCHANGED there /\ pc' # "ended"
      BY <2>4
    <2>5. Push \/ TooLong \/ Check \/ Round \/ Carry \/ Consume \/ Walk \/ Publish
            => UNCHANGED there /\ pc' # "ended"
      BY DEF Push, TooLong, Check, Round, Carry, Consume, Walk, Publish, Fail, store
    <2>6. Spill \/ LastSpill \/ MergeGroup => (MakeDir \/ UNCHANGED there) /\ pc' # "ended"
      BY DEF Spill, LastSpill, MergeGroup, WriteRun, WriteRunFails, Fail
    <2> QED
      BY <2>2, <2>3, <2>4, <2>5, <2>6 DEF Build
  <1> QED
    BY <1>1, ExtSortInvariant, PTL DEF Spec, LeavesNoRuns
===============================================================================
