-------------------------- MODULE CompactStreamProofs --------------------------
(***************************************************************************)
(* What the streaming build of a CompactHashIndex publishes, proved for    *)
(* every stream of keys, any budget, number of threads, cuts and faults.   *)
(* First the order of pairs and what sorting, following and cutting come   *)
(* to; then that the steps keep CInv, and what follows from it.            *)
(***************************************************************************)
EXTENDS CompactStream, FiniteSetTheorems, SequenceTheorems, WellFoundedInduction, TLAPS

\* A set of numbers has a least one.
LEMMA LeastOf ==
    ASSUME NEW T, T \subseteq Nat, T # {}
    PROVE  \E n \in T : \A m \in T : n <= m
  <1>1. PICK x \in T : \A y \in T : ~ (<<y, x>> \in OpToRel(<, Nat))
    BY NatLessThanWellFounded, WFMin
  <1>2. \A y \in T : x <= y
    <2> TAKE y \in T
    <2>1. ~ (y < x)
      BY <1>1 DEF OpToRel
    <2> QED
      BY <2>1
  <1> QED
    BY <1>2

\* Induction, over the set of the numbers that have a property.
LEMMA Counting ==
    ASSUME NEW S, 0 \in S, \A n \in Nat : n \in S => n + 1 \in S
    PROVE  Nat \subseteq S
  <1> SUFFICES ASSUME Nat \ S # {} PROVE FALSE
    OBVIOUS
  <1>1. PICK n \in Nat \ S : \A m \in Nat \ S : n <= m
    BY LeastOf
  <1>2. n # 0 /\ n - 1 \in Nat
    BY <1>1
  <1> QED
    BY <1>1, <1>2

\* A map of one set onto another, and one to one: as many elements.
LEMMA OneToOne ==
    ASSUME NEW S, NEW T, IsFiniteSet(S), NEW f \in [S -> T],
           \A a, b \in S : f[a] = f[b] => a = b, \A t \in T : \E a \in S : f[a] = t
    PROVE  IsFiniteSet(T) /\ Cardinality(T) = Cardinality(S)
  <1>1. f \in Surjection(S, T)
    BY DEF Surjection
  <1>2. f \in Injection(S, T)
    BY DEF Injection, IsInjective
  <1> QED
    BY <1>1, <1>2, FS_Surjection

\* One to one between sets of one size is onto.
LEMMA OntoAll ==
    ASSUME NEW S, NEW T, IsFiniteSet(T), NEW f \in [S -> T], Cardinality(S) = Cardinality(T),
           \A a, b \in S : f[a] = f[b] => a = b
    PROVE  \A t \in T : \E a \in S : f[a] = t
  <1>1. f \in Injection(S, T)
    BY DEF Injection, IsInjective
  <1>2. f \in Surjection(S, T)
    BY <1>1, FS_Injection
  <1> QED
    BY <1>2 DEF Surjection

\* The first so many numbers.
LEMMA UpTo ==
    ASSUME NEW n \in Nat
    PROVE  /\ IsFiniteSet(1 .. n) /\ Cardinality(1 .. n) = n
           /\ IsFiniteSet(0 .. n - 1) /\ Cardinality(0 .. n - 1) = n
  <1> QED
    BY FS_Interval

\* One more, no, or fewer elements.
LEMMA Size ==
    ASSUME NEW S, IsFiniteSet(S)
    PROVE  /\ Cardinality(S) \in Nat /\ (Cardinality(S) = 0 <=> S = {})
           /\ \A T : T \subseteq S => IsFiniteSet(T) /\ Cardinality(T) \in Nat /\ Cardinality(T) <= Cardinality(S)
           /\ \A T : T \subseteq S /\ T # S => Cardinality(T) < Cardinality(S)
  <1>1. Cardinality(S) \in Nat /\ (Cardinality(S) = 0 <=> S = {})
    BY FS_CardinalityType, FS_EmptySet
  <1>2. ASSUME NEW T, T \subseteq S
        PROVE  IsFiniteSet(T) /\ Cardinality(T) \in Nat /\ Cardinality(T) <= Cardinality(S)
               /\ (T # S => Cardinality(T) < Cardinality(S))
    <2>1. T \in SUBSET S
      BY <1>2
    <2>2. IsFiniteSet(T) /\ Cardinality(T) <= Cardinality(S) /\ (Cardinality(S) = Cardinality(T) => S = T)
      BY <2>1, FS_Subset
    <2>3. Cardinality(T) \in Nat
      BY <2>2, FS_CardinalityType
    <2> QED
      BY <1>1, <2>2, <2>3
  <1> QED
    BY <1>1, <1>2

-------------------------------------------------------------------------------
(* Ranks in a finite total order. *)

Orders(R, S) ==
    /\ \A x, y, z \in S : <<x, y>> \in R /\ <<y, z>> \in R => <<x, z>> \in R
    /\ \A x \in S : <<x, x>> \notin R
    /\ \A x, y \in S : x # y => <<x, y>> \in R \/ <<y, x>> \in R

Below(R, S, x) == {y \in S : <<y, x>> \in R}

\* How many elements are below one is its own number, from none to all but one.
LEMMA Ranks ==
    ASSUME NEW S, IsFiniteSet(S), NEW R, Orders(R, S)
    PROVE  /\ \A x \in S : Cardinality(Below(R, S, x)) \in 0 .. Cardinality(S) - 1
           /\ \A x, y \in S : <<x, y>> \in R => Cardinality(Below(R, S, x)) < Cardinality(Below(R, S, y))
           /\ \A x, y \in S : Cardinality(Below(R, S, x)) = Cardinality(Below(R, S, y)) => x = y
           /\ \A k \in 0 .. Cardinality(S) - 1 : \E x \in S : Cardinality(Below(R, S, x)) = k
  <1>0. Cardinality(S) \in Nat
    BY Size
  <1>1. ASSUME NEW x \in S
        PROVE  Cardinality(Below(R, S, x)) \in 0 .. Cardinality(S) - 1
    <2>1. Below(R, S, x) \subseteq S /\ Below(R, S, x) # S
      BY <1>1 DEF Below, Orders
    <2>2. Cardinality(Below(R, S, x)) \in Nat /\ Cardinality(Below(R, S, x)) < Cardinality(S)
      BY <2>1, Size
    <2> QED
      BY <1>0, <2>2
  <1>2. ASSUME NEW x \in S, NEW y \in S, <<x, y>> \in R
        PROVE  Cardinality(Below(R, S, x)) < Cardinality(Below(R, S, y))
    <2>1. Below(R, S, y) \subseteq S
      BY DEF Below
    <2>2. IsFiniteSet(Below(R, S, y))
      BY <2>1, Size
    <2>3. Below(R, S, x) \subseteq Below(R, S, y) /\ Below(R, S, x) # Below(R, S, y)
      BY <1>2 DEF Below, Orders
    <2> QED
      BY <2>2, <2>3, Size
  <1>3. ASSUME NEW x \in S, NEW y \in S, Cardinality(Below(R, S, x)) = Cardinality(Below(R, S, y))
        PROVE  x = y
    <2>1. Cardinality(Below(R, S, x)) \in Int /\ Cardinality(Below(R, S, y)) \in Int
      BY <1>1
    <2>2. ~ (<<x, y>> \in R) /\ ~ (<<y, x>> \in R)
      BY <1>2, <1>3, <2>1
    <2> QED
      BY <2>2 DEF Orders
  <1>4. \A k \in 0 .. Cardinality(S) - 1 : \E x \in S : Cardinality(Below(R, S, x)) = k
    <2>1. PICK f : f = [x \in S |-> Cardinality(Below(R, S, x))]
      OBVIOUS
    <2>2. PICK T : T = 0 .. Cardinality(S) - 1
      OBVIOUS
    <2>3. f \in [S -> T]
      BY <1>1, <2>1, <2>2
    <2>4. IsFiniteSet(T) /\ Cardinality(T) = Cardinality(S)
      BY <1>0, <2>2, UpTo
    <2>5. \A a, b \in S : f[a] = f[b] => a = b
      BY <1>3, <2>1
    <2>6. \A t \in T : \E a \in S : f[a] = t
      BY <2>3, <2>4, <2>5, OntoAll
    <2> QED
      BY <2>1, <2>2, <2>6
  <1> QED
    BY <1>1, <1>2, <1>3, <1>4

\* A sequence of n elements has each at its rank; or it is in order and has them all.
AtRanks(R, S, n, t)   == t \in [1 .. n -> S] /\ \A i \in 1 .. n : Cardinality(Below(R, S, t[i])) = i - 1
Ascending(R, S, n, t) == /\ t \in [1 .. n -> S]
                         /\ \A i, j \in 1 .. n : i < j => <<t[i], t[j]>> \in R
                         /\ \A x \in S : \E i \in 1 .. n : t[i] = x

\* The elements by their ranks are in order, and all there.
LEMMA ByRank ==
    ASSUME NEW S, IsFiniteSet(S), NEW R, Orders(R, S), NEW n, n = Cardinality(S), NEW t, AtRanks(R, S, n, t)
    PROVE  Ascending(R, S, n, t)
  <1>0. n \in Nat
    BY Size
  <1>9. t \in [1 .. n -> S] /\ \A i \in 1 .. n : Cardinality(Below(R, S, t[i])) = i - 1
    BY DEF AtRanks
  <1>1. ASSUME NEW i \in 1 .. n, NEW j \in 1 .. n, i < j
        PROVE  <<t[i], t[j]>> \in R
    <2>1. t[i] \in S /\ t[j] \in S
      BY <1>1, <1>9
    <2>2. ~ (<<t[j], t[i]>> \in R)
      <3> SUFFICES ASSUME <<t[j], t[i]>> \in R PROVE FALSE
        OBVIOUS
      <3>1. Cardinality(Below(R, S, t[j])) < Cardinality(Below(R, S, t[i]))
        BY <2>1, Ranks
      <3>2. Cardinality(Below(R, S, t[j])) = j - 1 /\ Cardinality(Below(R, S, t[i])) = i - 1
        BY <1>1, <1>9
      <3> QED
        BY <3>1, <3>2, <1>1, <1>0
    <2>3. t[i] # t[j]
      <3> SUFFICES ASSUME t[i] = t[j] PROVE FALSE
        OBVIOUS
      <3>2. Cardinality(Below(R, S, t[j])) = j - 1 /\ Cardinality(Below(R, S, t[i])) = i - 1
        BY <1>1, <1>9
      <3>3. i - 1 = j - 1
        BY <3>2
      <3> QED
        BY <3>3, <1>1, <1>0
    <2> QED
      BY <2>1, <2>2, <2>3 DEF Orders
  <1>2. ASSUME NEW x \in S
        PROVE  \E i \in 1 .. n : t[i] = x
    <2>1. PICK k \in 0 .. n - 1 : k = Cardinality(Below(R, S, x))
      BY <1>2, Ranks
    <2>2. k + 1 \in 1 .. n /\ (k + 1) - 1 = k
      BY <1>0
    <2>3. t[k + 1] \in S /\ Cardinality(Below(R, S, t[k + 1])) = k
      BY <2>2, <1>9
    <2>4. t[k + 1] = x
      BY <2>1, <2>3, <1>2, Ranks
    <2> QED
      BY <2>2, <2>4
  <1> QED
    BY <1>1, <1>2, <1>9 DEF Ascending

\* Elements in order, each there, are at their ranks.
LEMMA RanksOf ==
    ASSUME NEW S, IsFiniteSet(S), NEW R, Orders(R, S), NEW n \in Nat, NEW s, Ascending(R, S, n, s)
    PROVE  n = Cardinality(S) /\ AtRanks(R, S, n, s)
  <1>0. /\ s \in [1 .. n -> S]
        /\ \A i, j \in 1 .. n : i < j => <<s[i], s[j]>> \in R
        /\ \A x \in S : \E i \in 1 .. n : s[i] = x
    BY DEF Ascending
  <1>1. \A i, j \in 1 .. n : s[i] = s[j] => i = j
    <2> SUFFICES ASSUME NEW i \in 1 .. n, NEW j \in 1 .. n, i # j, s[i] = s[j] PROVE FALSE
      OBVIOUS
    <2>1. i < j \/ j < i
      OBVIOUS
    <2>2. <<s[i], s[i]>> \in R /\ s[i] \in S
      BY <2>1, <1>0
    <2> QED
      BY <2>2 DEF Orders
  <1>2. n = Cardinality(S)
    <2>1. PICK D : D = 1 .. n
      OBVIOUS
    <2>2. IsFiniteSet(D) /\ Cardinality(D) = n
      BY <2>1, UpTo
    <2>3. s \in [D -> S] /\ (\A a, b \in D : s[a] = s[b] => a = b) /\ \A x \in S : \E a \in D : s[a] = x
      BY <1>0, <1>1, <2>1
    <2> QED
      BY <2>2, <2>3, OneToOne
  <1>3. ASSUME NEW i \in 1 .. n
        PROVE  Cardinality(Below(R, S, s[i])) = i - 1
    <2>1. PICK D : D = 1 .. i - 1
      OBVIOUS
    <2>2. i - 1 \in Nat
      OBVIOUS
    <2>3. IsFiniteSet(D) /\ Cardinality(D) = i - 1
      BY <2>1, <2>2, UpTo
    <2>4. PICK T : T = Below(R, S, s[i])
      OBVIOUS
    <2>5. PICK f : f = [j \in D |-> s[j]]
      OBVIOUS
    <2>6. \A j \in D : j \in 1 .. n /\ j < i
      BY <2>1
    <2>7. f \in [D -> T]
      BY <1>0, <2>4, <2>5, <2>6 DEF Below
    <2>8. \A a, b \in D : f[a] = f[b] => a = b
      BY <2>5, <2>6, <1>1
    <2>9. \A x \in T : \E a \in D : f[a] = x
      <3> SUFFICES ASSUME NEW x \in T PROVE \E a \in D : f[a] = x
        OBVIOUS
      <3>1. x \in S /\ <<x, s[i]>> \in R
        BY <2>4 DEF Below
      <3>2. PICK a \in 1 .. n : s[a] = x
        BY <3>1, <1>0
      <3>3. a # i /\ ~ (i < a)
        <4>1. <<s[a], s[i]>> \in R /\ s[i] \in S /\ s[a] \in S
          BY <3>1, <3>2, <1>0
        <4>2. a # i
          BY <4>1, <3>2 DEF Orders
        <4>3. ~ (<<s[i], s[a]>> \in R)
          BY <4>1 DEF Orders
        <4> QED
          BY <4>2, <4>3, <1>0
      <3>4. a \in D
        BY <2>1, <3>3
      <3> QED
        BY <3>2, <3>4, <2>5
    <2>10. Cardinality(T) = Cardinality(D)
      BY <2>3, <2>7, <2>8, <2>9, OneToOne
    <2> QED
      BY <2>3, <2>4, <2>10
  <1> QED
    BY <1>0, <1>2, <1>3 DEF AtRanks

-------------------------------------------------------------------------------
(* Pairs in order. *)

PairsBefore(S) == {e \in S \X S : Before(e[1], e[2])}

\* Pairs are ordered by their hashes, then their second hashes.
LEMMA PairsOrdered ==
    /\ IsFiniteSet(Pair)
    /\ \A p \in Pair : p = <<p[1], p[2]>> /\ p[1] \in 0 .. Hashes - 1 /\ p[2] \in 0 .. Fps - 1
    /\ \A p \in Pair : ~ Before(p, p)
    /\ \A p, q \in Pair : p = q \/ Before(p, q) \/ Before(q, p)
    /\ \A p, q, r \in Pair : Before(p, q) /\ Before(q, r) => Before(p, r)
  <1>1. Hashes \in Nat /\ Fps \in Nat
    BY StreamAssumption
  <1>2. IsFiniteSet(0 .. Hashes - 1) /\ IsFiniteSet(0 .. Fps - 1)
    BY <1>1, UpTo
  <1>3. IsFiniteSet(Pair)
    BY <1>2, FS_Product DEF Pair
  <1>4. \A p \in Pair : p = <<p[1], p[2]>> /\ p[1] \in 0 .. Hashes - 1 /\ p[2] \in 0 .. Fps - 1
    BY DEF Pair
  <1>5. \A p \in Pair : p[1] \in Int /\ p[2] \in Int
    BY <1>1, <1>4
  <1>6. \A p \in Pair : ~ Before(p, p)
    BY <1>5 DEF Before
  <1>7. ASSUME NEW p \in Pair, NEW q \in Pair
        PROVE  p = q \/ Before(p, q) \/ Before(q, p)
    <2>1. p[1] \in Int /\ p[2] \in Int /\ q[1] \in Int /\ q[2] \in Int
      BY <1>5
    <2>2. p = <<p[1], p[2]>> /\ q = <<q[1], q[2]>>
      BY <1>4
    <2>3. p[1] = q[1] /\ p[2] = q[2] => p = q
      BY <2>2
    <2> QED
      BY <2>1, <2>3 DEF Before
  <1>8. \A p, q, r \in Pair : Before(p, q) /\ Before(q, r) => Before(p, r)
    BY <1>5 DEF Before
  <1> QED
    BY <1>3, <1>4, <1>6, <1>7, <1>8

\* The order of pairs is one that sorting by counting works for.
LEMMA PairsBeforeOrders ==
    ASSUME NEW S, S \subseteq Pair
    PROVE  /\ IsFiniteSet(S) /\ Orders(PairsBefore(S), S)
           /\ \A p \in S : Below(PairsBefore(S), S, p) = {q \in S : Before(q, p)}
           /\ \A p, q \in S : <<p, q>> \in PairsBefore(S) <=> Before(p, q)
  <1>1. IsFiniteSet(S)
    BY PairsOrdered, FS_Subset
  <1>2. \A p, q \in S : <<p, q>> \in PairsBefore(S) <=> Before(p, q)
    BY DEF PairsBefore
  <1>3. Orders(PairsBefore(S), S)
    BY <1>2, PairsOrdered DEF Orders
  <1>4. \A p \in S : Below(PairsBefore(S), S, p) = {q \in S : Before(q, p)}
    BY <1>2 DEF Below
  <1> QED
    BY <1>1, <1>2, <1>3, <1>4

\* s has the pairs of S, each once, in order.
HasInOrder(s, S) ==
    /\ s \in [1 .. Cardinality(S) -> S]
    /\ \A i, j \in 1 .. Cardinality(S) : i < j => Before(s[i], s[j])
    /\ \A p \in S : \E i \in 1 .. Cardinality(S) : s[i] = p

\* Sorted sorts.
LEMMA SortedOK ==
    ASSUME NEW S, S \subseteq Pair
    PROVE  HasInOrder(Sorted(S), S)
  <1> DEFINE R == PairsBefore(S)
             n == Cardinality(S)
  <1>1. /\ IsFiniteSet(S) /\ Orders(R, S)
        /\ \A p \in S : Below(R, S, p) = {q \in S : Before(q, p)}
        /\ \A p, q \in S : <<p, q>> \in R <=> Before(p, q)
    BY PairsBeforeOrders
  <1>2. PICK t : t = Sorted(S)
    OBVIOUS
  <1>3. t = [i \in 1 .. n |-> CHOOSE p \in S : Cardinality({q \in S : Before(q, p)}) = i - 1]
    BY <1>2 DEF Sorted
  <1>4. ASSUME NEW i \in 1 .. n
        PROVE  t[i] \in S /\ Cardinality({q \in S : Before(q, t[i])}) = i - 1
    <2>1. n \in Nat
      BY <1>1, Size
    <2>2. i - 1 \in 0 .. n - 1
      BY <2>1
    <2> HIDE DEF R
    <2>3. \E p \in S : Cardinality(Below(R, S, p)) = i - 1
      BY ONLY <1>1, <2>1, <2>2, Ranks
    <2>4. \E p \in S : Cardinality({q \in S : Before(q, p)}) = i - 1
      BY <1>1, <2>3
    <2> QED
      BY <1>3, <2>4
  <1>5. t \in [1 .. n -> S]
    BY <1>3, <1>4
  <1> HIDE DEF R
  <1>6. AtRanks(R, S, n, t)
    BY <1>1, <1>4, <1>5 DEF AtRanks
  <1>7. Ascending(R, S, n, t)
    BY ONLY <1>1, <1>6, ByRank
  <1>8. \A i, j \in 1 .. n : i < j => Before(t[i], t[j])
    BY <1>1, <1>5, <1>7 DEF Ascending
  <1> QED
    BY <1>2, <1>5, <1>7, <1>8 DEF HasInOrder, Ascending

\* It is the only such sequence.
LEMMA SortedOnly ==
    ASSUME NEW S, S \subseteq Pair, NEW n \in Nat, NEW s \in [1 .. n -> S],
           \A i, j \in 1 .. n : i < j => Before(s[i], s[j]),
           \A p \in S : \E i \in 1 .. n : s[i] = p
    PROVE  s = Sorted(S) /\ n = Cardinality(S)
  <1>1. PICK R : R = PairsBefore(S)
    OBVIOUS
  <1>2. /\ IsFiniteSet(S) /\ Orders(R, S)
        /\ \A p \in S : Below(R, S, p) = {q \in S : Before(q, p)}
        /\ \A p, q \in S : <<p, q>> \in R <=> Before(p, q)
    BY <1>1, PairsBeforeOrders
  <1>0. n \in Nat
    OBVIOUS
  <1>3. Ascending(R, S, n, s)
    BY <1>2 DEF Ascending
  <1>4. n = Cardinality(S) /\ AtRanks(R, S, n, s)
    BY ONLY <1>0, <1>2, <1>3, RanksOf
  <1>5. PICK t : t = Sorted(S)
    OBVIOUS
  <1>6. HasInOrder(t, S)
    BY <1>5, SortedOK
  <1>7. Ascending(R, S, n, t)
    BY <1>2, <1>4, <1>6 DEF HasInOrder, Ascending
  <1>8. AtRanks(R, S, n, t)
    BY ONLY <1>0, <1>2, <1>7, RanksOf
  <1>9. \A i \in 1 .. n : s[i] = t[i]
    <2> TAKE i \in 1 .. n
    <2>1. s[i] \in S /\ t[i] \in S /\ Cardinality(Below(R, S, s[i])) = Cardinality(Below(R, S, t[i]))
      BY <1>4, <1>8 DEF AtRanks
    <2> QED
      BY ONLY <1>2, <2>1, Ranks
  <1> QED
    BY <1>4, <1>5, <1>8, <1>9 DEF AtRanks

\* A sorted sequence by its places.
LEMMA SortedIs ==
    ASSUME NEW S, S \subseteq Pair, NEW s, s = Sorted(S)
    PROVE  /\ s \in Seq(Pair) /\ Len(s) = Cardinality(S) /\ Len(s) \in Nat /\ DOMAIN s = 1 .. Len(s)
           /\ s \in [1 .. Len(s) -> S] /\ ToSet(s) = S
           /\ \A i, j \in 1 .. Len(s) : i < j => Before(s[i], s[j])
           /\ \A i, j \in 1 .. Len(s) : s[i] = s[j] => i = j
           /\ \A p \in S : \E i \in 1 .. Len(s) : s[i] = p
  <1>1. PICK n : n = Cardinality(S)
    OBVIOUS
  <1>2. n \in Nat
    BY <1>1, PairsBeforeOrders, Size
  <1>3. /\ s \in [1 .. n -> S]
        /\ \A i, j \in 1 .. n : i < j => Before(s[i], s[j])
        /\ \A p \in S : \E i \in 1 .. n : s[i] = p
    BY <1>1, SortedOK DEF HasInOrder
  <1>4. s \in Seq(Pair) /\ Len(s) = n /\ DOMAIN s = 1 .. n
    BY <1>2, <1>3
  <1>5. ToSet(s) = S
    BY <1>3, <1>4 DEF ToSet
  <1>6. \A i, j \in 1 .. n : s[i] = s[j] => i = j
    <2> SUFFICES ASSUME NEW i \in 1 .. n, NEW j \in 1 .. n, i # j, s[i] = s[j] PROVE FALSE
      OBVIOUS
    <2>1. i < j \/ j < i
      BY <1>2
    <2>2. Before(s[i], s[i]) /\ s[i] \in Pair
      BY <1>3, <2>1
    <2> QED
      BY <2>2, PairsOrdered
  <1> QED
    BY <1>1, <1>2, <1>3, <1>4, <1>5, <1>6

-------------------------------------------------------------------------------
(* Numbers in order. *)

\* A finite set of numbers in its order, and the only sequence in it.
LEMMA InOrderOK ==
    ASSUME NEW I, I \subseteq Int, IsFiniteSet(I), NEW s, s = InOrder(I)
    PROVE  /\ Len(s) = Cardinality(I) /\ Len(s) \in Nat /\ DOMAIN s = 1 .. Len(s) /\ s \in [1 .. Len(s) -> I]
           /\ \A i, j \in 1 .. Len(s) : i < j => s[i] < s[j]
           /\ \A k \in I : \E i \in 1 .. Len(s) : s[i] = k
  <1>0. IsFiniteSet(I)
    OBVIOUS
  <1>1. PICK R : R = {e \in I \X I : e[1] < e[2]}
    OBVIOUS
  <1>2. PICK n : n = Cardinality(I)
    OBVIOUS
  <1>3. n \in Nat
    BY <1>2, Size
  <1>4. \A k, i \in I : <<k, i>> \in R <=> k < i
    BY <1>1
  <1>5. Orders(R, I)
    BY <1>4 DEF Orders
  <1>6. \A i \in I : Below(R, I, i) = {k \in I : k < i}
    BY <1>4 DEF Below
  <1>7. s = [j \in 1 .. n |-> CHOOSE i \in I : Cardinality({k \in I : k < i}) = j - 1]
    BY <1>2 DEF InOrder
  <1>8. ASSUME NEW j \in 1 .. n
        PROVE  s[j] \in I /\ Cardinality({k \in I : k < s[j]}) = j - 1
    <2>1. j - 1 \in 0 .. n - 1
      BY <1>3
    <2>2. \E i \in I : Cardinality(Below(R, I, i)) = j - 1
      BY ONLY <1>2, <1>0, <1>3, <1>5, <2>1, Ranks
    <2>3. \E i \in I : Cardinality({k \in I : k < i}) = j - 1
      BY <1>6, <2>2
    <2> QED
      BY <1>7, <2>3
  <1>9. s \in [1 .. n -> I]
    BY <1>7, <1>8
  <1>10. AtRanks(R, I, n, s)
    BY <1>6, <1>8, <1>9 DEF AtRanks
  <1>11. Ascending(R, I, n, s)
    BY ONLY <1>0, <1>2, <1>5, <1>10, ByRank
  <1>12. \A i, j \in 1 .. n : i < j => s[i] < s[j]
    BY <1>4, <1>9, <1>11 DEF Ascending
  <1>13. Len(s) = n /\ DOMAIN s = 1 .. n
    BY <1>3, <1>9
  <1> QED
    BY <1>2, <1>3, <1>9, <1>11, <1>12, <1>13 DEF Ascending

-------------------------------------------------------------------------------
(* Leads and followers. *)

\* The pairs that lead: the least of each hash.
Lead(S) == {p \in S : \A q \in S : q[1] = p[1] => p[2] <= q[2]}

\* Each hash of the pairs has one that leads.
LEMMA HasLead ==
    ASSUME NEW S, S \subseteq Pair
    PROVE  /\ Lead(S) \subseteq S
           /\ \A h \in HashesOf(S) : \E p \in Lead(S) : p[1] = h
           /\ \A p \in Lead(S) : p[1] \in HashesOf(S)
           /\ \A p, q \in Lead(S) : p[1] = q[1] => p = q
  <1>0. \A p \in S : p = <<p[1], p[2]>> /\ p[2] \in Nat
    BY PairsOrdered, StreamAssumption
  <1>1. ASSUME NEW h \in HashesOf(S)
        PROVE  \E p \in Lead(S) : p[1] = h
    <2>1. PICK T : T = {p[2] : p \in {q \in S : q[1] = h}}
      OBVIOUS
    <2>2. T \subseteq Nat /\ T # {}
      BY <1>0, <1>1, <2>1 DEF HashesOf
    <2>3. PICK x \in T : \A y \in T : x <= y
      BY <2>2, LeastOf
    <2>4. PICK p \in S : p[1] = h /\ p[2] = x
      BY <2>1, <2>3
    <2>5. \A q \in S : q[1] = h => q[2] \in T
      BY <2>1
    <2> QED
      BY <2>3, <2>4, <2>5 DEF Lead
  <1>2. ASSUME NEW p \in Lead(S), NEW q \in Lead(S), p[1] = q[1]
        PROVE  p = q
    <2>1. p \in S /\ q \in S /\ p[2] <= q[2] /\ q[2] <= p[2]
      BY <1>2 DEF Lead
    <2>2. p[2] = q[2]
      BY <1>0, <2>1
    <2> QED
      BY <1>0, <1>2, <2>1, <2>2
  <1>3. Lead(S) \subseteq S /\ \A p \in Lead(S) : p[1] \in HashesOf(S)
    BY DEF Lead, HashesOf
  <1> QED
    BY <1>1, <1>2, <1>3

\* There are as many as hashes.
LEMMA HashesCounted ==
    ASSUME NEW S, S \subseteq Pair
    PROVE  /\ IsFiniteSet(Lead(S)) /\ IsFiniteSet(HashesOf(S))
           /\ Cardinality(HashesOf(S)) = Cardinality(Lead(S))
           /\ HashesOf(S) \subseteq 0 .. Hashes - 1
  <1>1. PICK L : L = Lead(S)
    OBVIOUS
  <1>2. PICK H : H = HashesOf(S)
    OBVIOUS
  <1>3. PICK f : f = [p \in L |-> p[1]]
    OBVIOUS
  <1>4. IsFiniteSet(L)
    BY <1>1, HasLead, PairsBeforeOrders, Size
  <1>5. f \in [L -> H] /\ (\A p, q \in L : f[p] = f[q] => p = q) /\ \A h \in H : \E p \in L : f[p] = h
    BY <1>1, <1>2, <1>3, HasLead
  <1>6. IsFiniteSet(H) /\ Cardinality(H) = Cardinality(L)
    BY ONLY <1>4, <1>5, OneToOne
  <1> QED
    BY <1>1, <1>2, <1>4, <1>6, PairsOrdered DEF HashesOf

\* In a sorted sequence the pairs that lead are those that follow no equal hash.
LEMMA LeadsAre ==
    ASSUME NEW S, S \subseteq Pair, NEW s, s = Sorted(S)
    PROVE  /\ \A i \in 1 .. Len(s) : i \in Leads(s) <=> s[i] \in Lead(S)
           /\ Leads(s) \subseteq 1 .. Len(s) /\ Followers(s) \subseteq 1 .. Len(s)
           /\ \A i \in 1 .. Len(s) : i \in Followers(s) <=> i \notin Leads(s)
           /\ \A p \in Lead(S) : \E i \in Leads(s) : s[i] = p
  <1>1. /\ Len(s) \in Nat /\ DOMAIN s = 1 .. Len(s)
        /\ \A i \in 1 .. Len(s) : s[i] \in S
        /\ \A i, j \in 1 .. Len(s) : i < j => Before(s[i], s[j])
        /\ \A p \in S : \E i \in 1 .. Len(s) : s[i] = p
    BY SortedIs
  <1>2. \A i \in 1 .. Len(s) : s[i][1] \in Nat /\ s[i][2] \in Nat
    BY <1>1, PairsOrdered, StreamAssumption
  <1>3. Leads(s) \subseteq 1 .. Len(s) /\ Followers(s) \subseteq 1 .. Len(s)
        /\ \A i \in 1 .. Len(s) : (i \in Followers(s) <=> i \notin Leads(s)) /\ (i \in Followers(s) <=> Follower(s, i))
    BY <1>1 DEF Leads, Followers
  <1>4. ASSUME NEW i \in 1 .. Len(s), Follower(s, i)
        PROVE  s[i] \notin Lead(S)
    <2>1. i - 1 \in 1 .. Len(s) /\ i - 1 < i /\ s[i - 1][1] = s[i][1]
      BY <1>1, <1>4 DEF Follower
    <2>2. Before(s[i - 1], s[i]) /\ s[i - 1] \in S
      BY <1>1, <2>1
    <2>3. ~ (s[i][2] <= s[i - 1][2])
      BY <1>2, <2>1, <2>2 DEF Before
    <2> QED
      BY <2>1, <2>2, <2>3 DEF Lead
  <1>5. ASSUME NEW i \in 1 .. Len(s), ~ Follower(s, i)
        PROVE  s[i] \in Lead(S)
    <2> SUFFICES ASSUME NEW q \in S, q[1] = s[i][1] PROVE s[i][2] <= q[2]
      BY <1>1 DEF Lead
    <2>1. PICK j \in 1 .. Len(s) : s[j] = q
      BY <1>1
    <2>2. CASE j = i
      BY <1>2, <2>1, <2>2
    <2>3. CASE i < j
      BY <1>1, <1>2, <2>1, <2>3 DEF Before
    <2>4. CASE j < i
      <3>1. i - 1 \in 1 .. Len(s) /\ i > 1 /\ i - 1 < i /\ (j = i - 1 \/ j < i - 1)
        BY <1>1, <2>4
      <3>2. PICK k \in 1 .. Len(s) : k = i - 1
        BY <3>1
      <3>3. s[k][1] # s[i][1]
        BY <1>5, <3>1, <3>2 DEF Follower
      <3>4. Before(s[k], s[i]) /\ (s[j] = s[k] \/ Before(s[j], s[k]))
        BY <1>1, <3>1, <3>2
      <3>5. s[k][1] < s[i][1] /\ s[j][1] <= s[k][1]
        BY <1>2, <3>3, <3>4 DEF Before
      <3> QED
        BY <1>2, <2>1, <3>5
    <2> QED
      BY <1>1, <2>2, <2>3, <2>4
  <1>6. \A i \in 1 .. Len(s) : i \in Leads(s) <=> s[i] \in Lead(S)
    BY <1>3, <1>4, <1>5
  <1>7. \A p \in Lead(S) : \E i \in Leads(s) : s[i] = p
    BY <1>1, <1>6, HasLead
  <1> QED
    BY <1>3, <1>6, <1>7

\* What follows is as many as the pairs are more than the hashes.
LEMMA FollowersCounted ==
    ASSUME NEW S, S \subseteq Pair, NEW s, s = Sorted(S)
    PROVE  /\ IsFiniteSet(Followers(s)) /\ Cardinality(Followers(s)) \in Nat
           /\ Cardinality(S) \in Nat /\ Cardinality(HashesOf(S)) \in Nat
           /\ Cardinality(Followers(s)) = Cardinality(S) - Cardinality(HashesOf(S))
  <1>0. IsFiniteSet(S)
    BY PairsBeforeOrders
  <1>1. PICK T : T = S \ Lead(S)
    OBVIOUS
  <1>2. PICK F : F = Followers(s)
    OBVIOUS
  <1>3. PICK f : f = [i \in F |-> s[i]]
    OBVIOUS
  <1>4. /\ Len(s) \in Nat
        /\ \A i \in 1 .. Len(s) : s[i] \in S
        /\ \A i, j \in 1 .. Len(s) : s[i] = s[j] => i = j
        /\ \A p \in S : \E i \in 1 .. Len(s) : s[i] = p
    BY SortedIs
  <1>5. F \subseteq 1 .. Len(s) /\ \A i \in 1 .. Len(s) : i \in F <=> s[i] \notin Lead(S)
    BY <1>2, LeadsAre
  <1>6. IsFiniteSet(F)
    BY <1>4, <1>5, UpTo, Size
  <1>7. f \in [F -> T] /\ (\A i, j \in F : f[i] = f[j] => i = j) /\ \A p \in T : \E i \in F : f[i] = p
    BY <1>1, <1>3, <1>4, <1>5
  <1>8. Cardinality(T) = Cardinality(F)
    BY ONLY <1>6, <1>7, OneToOne
  <1>9. Cardinality(S) = Cardinality(T) + Cardinality(Lead(S)) /\ Cardinality(T) \in Nat
    <2>1. PICK L : L = Lead(S)
      OBVIOUS
    <2>2. L \subseteq S /\ IsFiniteSet(L) /\ IsFiniteSet(T)
      BY <1>0, <1>1, <2>1, HasLead, Size
    <2>3. S = T \cup L /\ T \cap L = {}
      BY <1>1, <2>1, <2>2
    <2>4. Cardinality(S) = Cardinality(T) + Cardinality(L) - Cardinality(T \cap L)
      BY ONLY <2>2, <2>3, FS_Union
    <2>5. Cardinality(T) \in Nat /\ Cardinality(L) \in Nat /\ Cardinality(T \cap L) = 0
      BY ONLY <2>2, <2>3, FS_CardinalityType, FS_EmptySet
    <2> QED
      BY <2>1, <2>4, <2>5
  <1>10. Cardinality(HashesOf(S)) = Cardinality(Lead(S)) /\ Cardinality(HashesOf(S)) \in Nat
    BY HashesCounted, Size
  <1> QED
    BY <1>0, <1>2, <1>6, <1>8, <1>9, <1>10, Size

\* The side table's pairs are the others, in order.
LEMMA SideIs ==
    ASSUME NEW S, S \subseteq Pair
    PROVE  SideOf(Sorted(S)) = Sorted(S \ Lead(S))
  <1>1. PICK s : s = Sorted(S)
    OBVIOUS
  <1>2. PICK T : T = S \ Lead(S)
    OBVIOUS
  <1>3. PICK o : o = InOrder(Followers(s))
    OBVIOUS
  <1>4. PICK n : n = Len(o)
    OBVIOUS
  <1>5. PICK d : d = SideOf(s)
    OBVIOUS
  <1>6. /\ Len(s) \in Nat
        /\ \A i \in 1 .. Len(s) : s[i] \in S
        /\ \A i, j \in 1 .. Len(s) : i < j => Before(s[i], s[j])
        /\ \A p \in S : \E i \in 1 .. Len(s) : s[i] = p
    BY <1>1, SortedIs
  <1>7. /\ Followers(s) \subseteq 1 .. Len(s)
        /\ \A i \in 1 .. Len(s) : i \in Followers(s) <=> s[i] \notin Lead(S)
    BY <1>1, LeadsAre
  <1>8. /\ n \in Nat /\ DOMAIN o = 1 .. n
        /\ \A j \in 1 .. n : o[j] \in Followers(s)
        /\ \A i, j \in 1 .. n : i < j => o[i] < o[j]
        /\ \A k \in Followers(s) : \E i \in 1 .. n : o[i] = k
    <2>1. IsFiniteSet(Followers(s)) /\ Followers(s) \subseteq Int
      BY <1>1, <1>6, <1>7, FollowersCounted
    <2> QED
      BY <1>3, <1>4, <2>1, InOrderOK
  <1>9. d = [j \in 1 .. n |-> s[o[j]]]
    BY <1>3, <1>5, <1>8 DEF SideOf
  <1>10. d \in [1 .. n -> T]
    BY <1>2, <1>6, <1>7, <1>8, <1>9
  <1>11. ASSUME NEW i \in 1 .. n, NEW j \in 1 .. n, i < j
         PROVE  Before(d[i], d[j])
    <2>1. o[i] \in 1 .. Len(s) /\ o[j] \in 1 .. Len(s) /\ o[i] < o[j]
      BY <1>7, <1>8, <1>11
    <2> QED
      BY <1>6, <1>9, <2>1
  <1>12. ASSUME NEW p \in T
         PROVE  \E i \in 1 .. n : d[i] = p
    <2>1. PICK k \in 1 .. Len(s) : s[k] = p
      BY <1>2, <1>6
    <2>2. k \in Followers(s)
      BY <1>2, <1>7, <2>1
    <2>3. PICK i \in 1 .. n : o[i] = k
      BY <1>8, <2>2
    <2> QED
      BY <1>9, <2>1, <2>3
  <1>13. T \subseteq Pair
    BY <1>2
  <1>14. d = Sorted(T)
    BY ONLY <1>8, <1>10, <1>11, <1>12, <1>13, SortedOnly
  <1> QED
    BY <1>1, <1>2, <1>5, <1>14

-------------------------------------------------------------------------------
(* Sorted parts one after another. *)

\* Every hash of A is less than every hash of B.
HashesBelow(A, B) == \A p \in A, q \in B : p[1] < q[1]

\* Two sorted sequences, the hashes of the first below those of the second, make one.
LEMMA SortedConcat ==
    ASSUME NEW A, NEW B, A \subseteq Pair, B \subseteq Pair, HashesBelow(A, B)
    PROVE  Sorted(A) \o Sorted(B) = Sorted(A \cup B)
  <1>1. PICK s, t, u : s = Sorted(A) /\ t = Sorted(B) /\ u = s \o t
    OBVIOUS
  <1>a. /\ Len(s) \in Nat /\ s \in Seq(Pair)
        /\ \A i \in 1 .. Len(s) : s[i] \in A
        /\ \A i, j \in 1 .. Len(s) : i < j => Before(s[i], s[j])
        /\ \A p \in A : \E i \in 1 .. Len(s) : s[i] = p
    BY ONLY <1>1, A \subseteq Pair, SortedIs
  <1>b. /\ Len(t) \in Nat /\ t \in Seq(Pair)
        /\ \A i \in 1 .. Len(t) : t[i] \in B
        /\ \A i, j \in 1 .. Len(t) : i < j => Before(t[i], t[j])
        /\ \A p \in B : \E i \in 1 .. Len(t) : t[i] = p
    <2>1. B \subseteq Pair /\ t = Sorted(B)
      BY <1>1
    <2>2. \A S : \A v : S \subseteq Pair /\ v = Sorted(S) =>
             /\ v \in Seq(Pair) /\ Len(v) \in Nat /\ v \in [1 .. Len(v) -> S]
             /\ \A i, j \in 1 .. Len(v) : i < j => Before(v[i], v[j])
             /\ \A p \in S : \E i \in 1 .. Len(v) : v[i] = p
      BY ONLY SortedIs
    <2>3. /\ t \in Seq(Pair) /\ Len(t) \in Nat /\ t \in [1 .. Len(t) -> B]
          /\ \A i, j \in 1 .. Len(t) : i < j => Before(t[i], t[j])
          /\ \A p \in B : \E i \in 1 .. Len(t) : t[i] = p
      BY ONLY <2>1, <2>2
    <2> QED
      BY ONLY <2>3
  <1>2. PICK m, k, n : m = Len(s) /\ k = Len(t) /\ n = m + k
    OBVIOUS
  <1>3. /\ m \in Nat /\ s \in Seq(Pair)
        /\ \A i \in 1 .. m : s[i] \in A
        /\ \A i, j \in 1 .. m : i < j => Before(s[i], s[j])
        /\ \A p \in A : \E i \in 1 .. m : s[i] = p
    BY ONLY <1>a, <1>2
  <1>4. /\ k \in Nat /\ t \in Seq(Pair)
        /\ \A i \in 1 .. k : t[i] \in B
        /\ \A i, j \in 1 .. k : i < j => Before(t[i], t[j])
        /\ \A p \in B : \E i \in 1 .. k : t[i] = p
    BY ONLY <1>b, <1>2
  <1>5. n \in Nat /\ u \in Seq(Pair) /\ Len(u) = n
    BY <1>1, <1>2, <1>3, <1>4
  <1>6. /\ \A i \in 1 .. m : i \in 1 .. n /\ u[i] = s[i]
        /\ \A i \in 1 .. k : i + m \in 1 .. n /\ u[i + m] = t[i]
        /\ \A i \in 1 .. n : i \notin 1 .. m => i - m \in 1 .. k /\ u[i] = t[i - m]
    <2>1. s \in Seq(Pair) /\ t \in Seq(Pair) /\ u = s \o t /\ m = Len(s) /\ k = Len(t) /\ n = m + k
      BY <1>1, <1>2, <1>3, <1>4
    <2>2. \A i \in 1 .. m + k : u[i] = IF i <= m THEN s[i] ELSE t[i - m]
      BY ONLY <2>1, ConcatProperties
    <2>3. m \in Nat /\ k \in Nat /\ n = m + k
      BY <1>2, <1>3, <1>4
    <2>4. \A i \in 1 .. m : i \in 1 .. n /\ u[i] = s[i]
      BY ONLY <2>2, <2>3
    <2>5. \A i \in 1 .. n : i \notin 1 .. m => i - m \in 1 .. k /\ u[i] = t[i - m]
      BY ONLY <2>2, <2>3
    <2>6. ASSUME NEW i \in 1 .. k PROVE i + m \in 1 .. n /\ u[i + m] = t[i]
      <3>1. PICK j : j = i + m
        OBVIOUS
      <3>2. j \in 1 .. n /\ j \notin 1 .. m /\ j - m = i
        BY ONLY <2>3, <2>6, <3>1
      <3> QED
        BY ONLY <2>5, <3>1, <3>2
    <2> QED
      BY <2>4, <2>5, <2>6
  <1>7. u \in [1 .. n -> A \cup B]
    <2>1. \A i \in 1 .. n : u[i] \in A \cup B
      BY ONLY <1>3, <1>4, <1>6
    <2>2. u = [i \in 1 .. n |-> u[i]]
      BY <1>5
    <2> QED
      BY ONLY <2>1, <2>2
  <1>8. ASSUME NEW i \in 1 .. n, NEW j \in 1 .. n, i < j
        PROVE  Before(u[i], u[j])
    <2>1. CASE j \in 1 .. m
      <3>1. i \in 1 .. m
        BY <1>8, <2>1, <1>3
      <3> QED
        BY <1>3, <1>6, <1>8, <2>1, <3>1
    <2>2. CASE i \in 1 .. m /\ j \notin 1 .. m
      BY <2>2, <1>3, <1>4, <1>6 DEF HashesBelow, Before
    <2>3. CASE i \notin 1 .. m /\ j \notin 1 .. m
      <3>1. PICK a, b : a = i - m /\ b = j - m
        OBVIOUS
      <3>2. a \in 1 .. k /\ b \in 1 .. k /\ a < b /\ u[i] = t[a] /\ u[j] = t[b]
        BY <1>3, <1>6, <1>8, <2>3, <3>1
      <3> QED
        BY <1>4, <3>2
    <2> QED
      BY <2>1, <2>2, <2>3
  <1>9. ASSUME NEW p \in A \cup B
        PROVE  \E i \in 1 .. n : u[i] = p
    <2>1. CASE p \in A
      BY <2>1, <1>3, <1>6
    <2>2. CASE p \in B
      <3>1. PICK i \in 1 .. k : t[i] = p
        BY <2>2, <1>4
      <3> QED
        BY <3>1, <1>6
    <2> QED
      BY <1>9, <2>1, <2>2
  <1>10. A \cup B \subseteq Pair
    OBVIOUS
  <1>11. u = Sorted(A \cup B)
    <2>1. PICK C : C = A \cup B
      OBVIOUS
    <2>2. /\ C \subseteq Pair /\ n \in Nat /\ u \in [1 .. n -> C]
          /\ \A i, j \in 1 .. n : i < j => Before(u[i], u[j])
          /\ \A p \in C : \E i \in 1 .. n : u[i] = p
      BY ONLY <2>1, <1>5, <1>7, <1>8, <1>9, <1>10
    <2>3. u = Sorted(C)
      BY ONLY <2>2, SortedOnly
    <2> QED
      BY <2>1, <2>3
  <1> QED
    BY <1>1, <1>11

\* The function FlattenSeq is written with: the first so many sequences, one after another.
Then(s, t)         == s \o t
Flats(seqs, n, fl) == fl = [i \in 1 .. n |-> IF i = 1 THEN seqs[i] ELSE Then(fl[i - 1], seqs[i])]

\* There is one, sequence by sequence.
LEMMA FlatsExist ==
    ASSUME NEW seqs, NEW m \in Nat
    PROVE  \E fl : Flats(seqs, m, fl)
  <1> DEFINE S == {n \in Nat : \E fl : Flats(seqs, n, fl)}
  <1>1. 0 \in S
    <2>1. PICK fl : fl = [i \in 1 .. 0 |-> seqs[i]]
      OBVIOUS
    <2>2. Flats(seqs, 0, fl)
      BY <2>1 DEF Flats
    <2> QED
      BY <2>2
  <1>2. ASSUME NEW n \in Nat, n \in S
        PROVE  n + 1 \in S
    <2>1. PICK fl : Flats(seqs, n, fl)
      BY <1>2
    <2>2. PICK more : more = [i \in 1 .. n + 1 |-> IF i = 1 THEN seqs[i] ELSE Then(fl[i - 1], seqs[i])]
      OBVIOUS
    <2>3. \A i \in 1 .. n : more[i] = fl[i]
      BY <2>1, <2>2 DEF Flats
    <2>4. \A i \in 1 .. n + 1 : i # 1 => i - 1 \in 1 .. n
      OBVIOUS
    <2>5. \A i \in 1 .. n + 1 : i # 1 => more[i - 1] = fl[i - 1]
      BY <2>3, <2>4
    <2>6. Flats(seqs, n + 1, more)
      BY <2>2, <2>5 DEF Flats
    <2> QED
      BY <2>6
  <1>3. Nat \subseteq S
    <2> HIDE DEF S
    <2> QED
      BY <1>1, <1>2, Counting
  <1> QED
    BY <1>3

\* FlattenSeq gives its last.
LEMMA FlattenIs ==
    ASSUME NEW seqs, NEW n \in Nat, Len(seqs) = n, n # 0
    PROVE  \E fl : Flats(seqs, n, fl) /\ FlattenSeq(seqs) = fl[n]
  <1>1. PICK fl : fl = CHOOSE f : Flats(seqs, n, f)
    OBVIOUS
  <1>2. Flats(seqs, n, fl)
    BY <1>1, FlatsExist
  <1>3. FlattenSeq(seqs) = fl[n]
    BY <1>1 DEF FlattenSeq, Flats, Then
  <1> QED
    BY <1>2, <1>3

\* P is n parts of the pairs, the hashes of one below those of the next.
Parts(P, n) ==
    /\ n \in Nat /\ P \in [1 .. n -> SUBSET Pair]
    /\ \A t, u \in 1 .. n : t < u => HashesBelow(P[t], P[u])

Whole(P, n) == UNION {P[t] : t \in 1 .. n}

\* The parts, each sorted, one after another are all of them sorted.
LEMMA FlattenSorted ==
    ASSUME NEW P, NEW n, Parts(P, n), NEW seqs, seqs = [t \in 1 .. n |-> Sorted(P[t])]
    PROVE  FlattenSeq(seqs) = Sorted(Whole(P, n))
  <1>1. n \in Nat /\ (\A t \in 1 .. n : P[t] \subseteq Pair) /\ \A t, u \in 1 .. n : t < u => HashesBelow(P[t], P[u])
    BY DEF Parts
  <1>2. Len(seqs) = n
    BY <1>1
  <1>3. CASE n = 0
    <2>1. PICK U : U = Whole(P, n)
      OBVIOUS
    <2>2. U = {}
      BY <1>3, <2>1 DEF Whole
    <2>3. FlattenSeq(seqs) = seqs
      BY <1>2, <1>3 DEF FlattenSeq
    <2>4. U \subseteq Pair /\ seqs \in [1 .. 0 -> U] /\ \A i \in 1 .. 0 : FALSE
      BY <1>3, <2>2
    <2>5. seqs = Sorted(U)
      BY ONLY <2>2, <2>4, SortedOnly
    <2> QED
      BY <2>1, <2>3, <2>5
  <1>4. CASE n # 0
    <2>1. PICK fl : Flats(seqs, n, fl) /\ FlattenSeq(seqs) = fl[n]
      BY <1>1, <1>2, <1>4, FlattenIs
    <2>2. PICK S : S = {i \in Nat : i = 0 \/ n < i \/ fl[i] = Sorted(Whole(P, i))}
      OBVIOUS
    <2>3. \A i \in 1 .. n : fl[i] = IF i = 1 THEN Sorted(P[i]) ELSE Then(fl[i - 1], Sorted(P[i]))
      BY <2>1 DEF Flats
    <2>4. ASSUME NEW i \in Nat, i \in S
          PROVE  i + 1 \in S
      <3> SUFFICES ASSUME i + 1 <= n PROVE fl[i + 1] = Sorted(Whole(P, i + 1))
        BY <1>1, <2>2
      <3>1. CASE i = 0
        <4>1. Whole(P, 1) = P[1]
          BY DEF Whole
        <4> QED
          BY <1>1, <2>3, <3>1, <4>1
      <3>2. CASE i # 0
        <4>1. PICK j : j = i + 1
          OBVIOUS
        <4>2. j \in 1 .. n /\ j # 1 /\ j - 1 = i /\ i \in 1 .. n
          BY <1>1, <3>2, <4>1
        <4>3. fl[j] = Then(fl[i], Sorted(P[j])) /\ fl[i] = Sorted(Whole(P, i))
          BY <2>2, <2>3, <2>4, <4>2, <1>1
        <4>4. PICK A : A = Whole(P, i)
          OBVIOUS
        <4>5. A \subseteq Pair
          BY <1>1, <4>2, <4>4 DEF Whole
        <4>6. HashesBelow(A, P[j])
          <5> SUFFICES ASSUME NEW p \in A, NEW q \in P[j] PROVE p[1] < q[1]
            BY DEF HashesBelow
          <5>1. PICK t \in 1 .. i : p \in P[t]
            BY <4>4 DEF Whole
          <5>2. t \in 1 .. n /\ t < j
            BY <1>1, <4>1, <4>2
          <5> QED
            BY <1>1, <4>2, <5>1, <5>2 DEF HashesBelow
        <4>7. P[j] \subseteq Pair
          BY <1>1, <4>2
        <4>8. fl[j] = Sorted(A \cup P[j])
          <5>1. PICK B : B = P[j]
            OBVIOUS
          <5>2. A \subseteq Pair /\ B \subseteq Pair /\ HashesBelow(A, B) /\ fl[j] = Sorted(A) \o Sorted(B)
            BY <4>3, <4>4, <4>5, <4>6, <4>7, <5>1 DEF Then
          <5>3. Sorted(A) \o Sorted(B) = Sorted(A \cup B)
            BY ONLY <5>2, SortedConcat
          <5> QED
            BY <5>1, <5>2, <5>3
        <4>9. A \cup P[j] = Whole(P, j)
          <5>1. \A t : t \in 1 .. j <=> (t \in 1 .. i \/ t = j)
            BY <4>1, <4>2
          <5> QED
            BY <4>4, <5>1 DEF Whole
        <4> QED
          BY <4>1, <4>8, <4>9
      <3> QED
        BY <3>1, <3>2
    <2>5. 0 \in S
      BY <2>2
    <2>6. n \in S
      BY <1>1, <2>4, <2>5, Counting
    <2> QED
      BY <1>1, <1>4, <2>1, <2>2, <2>6
  <1> QED
    BY <1>3, <1>4

\* A pair leads among all the parts if it leads in its own.
LEMMA PartsLead ==
    ASSUME NEW P, NEW n, Parts(P, n)
    PROVE  /\ Whole(P, n) \subseteq Pair
           /\ \A t \in 1 .. n : \A p \in P[t] : p \in Lead(Whole(P, n)) <=> p \in Lead(P[t])
           /\ \A t \in 1 .. n : Lead(P[t]) \subseteq Lead(Whole(P, n))
           /\ \A p \in Lead(Whole(P, n)) : \E t \in 1 .. n : p \in Lead(P[t])
  <1>1. n \in Nat /\ (\A t \in 1 .. n : P[t] \subseteq Pair) /\ \A t, u \in 1 .. n : t < u => HashesBelow(P[t], P[u])
    BY DEF Parts
  <1>2. PICK U : U = Whole(P, n)
    OBVIOUS
  <1>3. \A t \in 1 .. n : P[t] \subseteq U
    BY <1>2 DEF Whole
  <1>4. \A p \in U : \E t \in 1 .. n : p \in P[t]
    BY <1>2 DEF Whole
  <1>5. U \subseteq Pair
    BY <1>1, <1>4
  <1>6. ASSUME NEW t \in 1 .. n, NEW u \in 1 .. n, NEW p \in P[t], NEW q \in P[u], p[1] = q[1]
        PROVE  t = u
    <2>1. p[1] \in Int
      BY <1>1, PairsOrdered, StreamAssumption
    <2>2. ~ (t < u) /\ ~ (u < t)
      BY <1>1, <1>6, <2>1 DEF HashesBelow
    <2> QED
      BY <2>2, <1>1
  <1>7. ASSUME NEW t \in 1 .. n, NEW p \in P[t]
        PROVE  p \in Lead(U) <=> p \in Lead(P[t])
    <2>1. \A q \in U : q[1] = p[1] => q \in P[t]
      BY <1>4, <1>6
    <2> QED
      BY <1>3, <2>1 DEF Lead
  <1>8. \A p \in Lead(U) : p \in U
    BY DEF Lead
  <1>9. \A t \in 1 .. n : \A p \in Lead(P[t]) : p \in P[t]
    BY DEF Lead
  <1> QED
    BY <1>2, <1>4, <1>5, <1>7, <1>8, <1>9

\* The side tables of the parts, one after another, are that of all.
LEMMA FlattenSides ==
    ASSUME NEW P, NEW n, Parts(P, n), NEW seqs, seqs = [t \in 1 .. n |-> SideOf(Sorted(P[t]))]
    PROVE  FlattenSeq(seqs) = SideOf(Sorted(Whole(P, n)))
  <1>1. n \in Nat /\ (\A t \in 1 .. n : P[t] \subseteq Pair) /\ \A t, u \in 1 .. n : t < u => HashesBelow(P[t], P[u])
    BY DEF Parts
  <1>2. PICK U : U = Whole(P, n)
    OBVIOUS
  <1>3. PICK R : R = [t \in 1 .. n |-> P[t] \ Lead(P[t])]
    OBVIOUS
  <1>4. seqs = [t \in 1 .. n |-> Sorted(R[t])]
    BY <1>1, <1>3, SideIs
  <1>5. Parts(R, n)
    BY <1>1, <1>3 DEF Parts, HashesBelow
  <1>6. FlattenSeq(seqs) = Sorted(Whole(R, n))
    BY ONLY <1>4, <1>5, FlattenSorted
  <1>7. Whole(R, n) = U \ Lead(U)
    <2>1. \A p \in Whole(R, n) : \E t \in 1 .. n : p \in P[t] /\ p \notin Lead(P[t])
      BY <1>3 DEF Whole
    <2>2. \A p \in U : \E t \in 1 .. n : p \in P[t]
      BY <1>2 DEF Whole
    <2>3. \A t \in 1 .. n : \A p \in P[t] : p \in U /\ (p \in Lead(U) <=> p \in Lead(P[t]))
      BY <1>2, PartsLead DEF Whole
    <2>4. \A t \in 1 .. n : \A p \in P[t] : p \notin Lead(P[t]) => p \in Whole(R, n)
      BY <1>3 DEF Whole
    <2> QED
      BY <2>1, <2>2, <2>3, <2>4
  <1>8. U \subseteq Pair
    BY <1>2, PartsLead
  <1> QED
    BY <1>2, <1>6, <1>7, <1>8, SideIs

-------------------------------------------------------------------------------
(* The perfect hash, and the blob that is promised. *)

\* Each of the hashes has a slot of its own, and each slot a hash.
LEMMA IndexIs ==
    ASSUME NEW H, H \subseteq 0 .. Hashes - 1
    PROVE  /\ IsFiniteSet(H) /\ Cardinality(H) \in Nat
           /\ \A h \in H : index(H, h) \in 0 .. Cardinality(H) - 1
           /\ \A g, h \in H : index(H, g) = index(H, h) => g = h
           /\ \A sl \in 0 .. Cardinality(H) - 1 : \E h \in H : index(H, h) = sl
  <1>0. Hashes \in Nat
    BY StreamAssumption
  <1>1. IsFiniteSet(H)
    BY <1>0, UpTo, Size
  <1>2. PICK D, T : D = 1 .. Hashes /\ T = 0 .. Hashes - 1
    OBVIOUS
  <1>3. /\ SlotOrder \in [D -> T] /\ (\A a, b \in D : SlotOrder[a] = SlotOrder[b] => a = b)
        /\ IsFiniteSet(T) /\ Cardinality(D) = Cardinality(T)
    <2>1. SlotOrder \in [D -> T] /\ \A a, b \in D : SlotOrder[a] = SlotOrder[b] => a = b
      BY <1>2, StreamAssumption DEF IsInjective
    <2>2. IsFiniteSet(T) /\ Cardinality(D) = Cardinality(T)
      BY <1>0, <1>2, UpTo
    <2> QED
      BY <2>1, <2>2
  <1>4. \A g \in T : \E i \in D : SlotOrder[i] = g
    BY ONLY <1>3, OntoAll
  <1>5. DOMAIN SlotOrder = D /\ H \subseteq T /\ D \subseteq Int
    BY <1>0, <1>2, <1>3
  <1>6. PICK R : R = {e \in H \X H : \E i, j \in D : i < j /\ SlotOrder[i] = e[1] /\ SlotOrder[j] = e[2]}
    OBVIOUS
  <1>7. \A g, h \in H : <<g, h>> \in R <=> \E i, j \in D : i < j /\ SlotOrder[i] = g /\ SlotOrder[j] = h
    BY <1>6
  <1>8. Orders(R, H)
    <2>1. ASSUME NEW x \in H, NEW y \in H, NEW z \in H, <<x, y>> \in R, <<y, z>> \in R
          PROVE  <<x, z>> \in R
      <3>1. PICK i, j \in D : i < j /\ SlotOrder[i] = x /\ SlotOrder[j] = y
        BY <1>7, <2>1
      <3>2. PICK k, l \in D : k < l /\ SlotOrder[k] = y /\ SlotOrder[l] = z
        BY <1>7, <2>1
      <3>3. j = k
        BY <1>3, <3>1, <3>2
      <3>4. i < l
        BY <1>5, <3>1, <3>2, <3>3
      <3> QED
        BY <1>7, <3>1, <3>2, <3>4
    <2>2. ASSUME NEW x \in H, <<x, x>> \in R PROVE FALSE
      <3>1. PICK i, j \in D : i < j /\ SlotOrder[i] = x /\ SlotOrder[j] = x
        BY <1>7, <2>2
      <3> QED
        BY <1>3, <1>5, <3>1
    <2>3. ASSUME NEW x \in H, NEW y \in H, x # y PROVE <<x, y>> \in R \/ <<y, x>> \in R
      <3>1. PICK i, j \in D : SlotOrder[i] = x /\ SlotOrder[j] = y
        BY <1>4, <1>5
      <3>2. i < j \/ j < i
        BY <1>5, <2>3, <3>1
      <3> QED
        BY <1>7, <3>1, <3>2
    <2> QED
      BY <2>1, <2>2, <2>3 DEF Orders
  <1>9. \A h \in H : index(H, h) = Cardinality(Below(R, H, h))
    <2> TAKE h \in H
    <2>1. {g \in H : \E i, j \in D : i < j /\ SlotOrder[i] = g /\ SlotOrder[j] = h} = Below(R, H, h)
      <3>1. Below(R, H, h) = {g \in H : <<g, h>> \in R}
        BY DEF Below
      <3>2. h \in H
        OBVIOUS
      <3> QED
        BY ONLY <1>7, <3>1, <3>2
    <2> QED
      BY <1>5, <2>1 DEF index
  <1>10. Cardinality(H) \in Nat
    BY <1>1, Size
  <1>11. /\ \A x \in H : Cardinality(Below(R, H, x)) \in 0 .. Cardinality(H) - 1
         /\ \A x, y \in H : Cardinality(Below(R, H, x)) = Cardinality(Below(R, H, y)) => x = y
         /\ \A k \in 0 .. Cardinality(H) - 1 : \E x \in H : Cardinality(Below(R, H, x)) = k
    BY ONLY <1>1, <1>8, Ranks
  <1> QED
    BY <1>1, <1>9, <1>10, <1>11

\* The slot of a pair in the perfect hash over the hashes of the pairs.
SlotOf(S, p) == index(HashesOf(S), p[1])

\* The pairs that lead have the slots, one each.
LEMMA SlotsAre ==
    ASSUME NEW S, S \subseteq Pair, NEW m, m = Cardinality(HashesOf(S))
    PROVE  /\ m \in Nat
           /\ \A p \in Lead(S) : SlotOf(S, p) \in 0 .. m - 1
           /\ \A p, q \in Lead(S) : SlotOf(S, p) = SlotOf(S, q) => p = q
           /\ \A sl \in 0 .. m - 1 : \E p \in Lead(S) : SlotOf(S, p) = sl
  <1>1. PICK H : H = HashesOf(S)
    OBVIOUS
  <1>2. H \subseteq 0 .. Hashes - 1
    BY <1>1, HashesCounted
  <1>3. /\ Cardinality(H) \in Nat
        /\ \A h \in H : index(H, h) \in 0 .. Cardinality(H) - 1
        /\ \A g, h \in H : index(H, g) = index(H, h) => g = h
        /\ \A sl \in 0 .. Cardinality(H) - 1 : \E h \in H : index(H, h) = sl
    BY ONLY <1>2, IndexIs
  <1>4. /\ \A h \in H : \E p \in Lead(S) : p[1] = h
        /\ \A p \in Lead(S) : p[1] \in H
        /\ \A p, q \in Lead(S) : p[1] = q[1] => p = q
    BY <1>1, HasLead
  <1>5. m = Cardinality(H) /\ \A p : SlotOf(S, p) = index(H, p[1])
    BY <1>1 DEF SlotOf
  <1>6. ASSUME NEW sl \in 0 .. m - 1
        PROVE  \E p \in Lead(S) : SlotOf(S, p) = sl
    <2>1. PICK h \in H : index(H, h) = sl
      BY <1>3, <1>5
    <2>2. PICK p \in Lead(S) : p[1] = h
      BY <1>4
    <2> QED
      BY <1>5, <2>1, <2>2
  <1>7. \A p \in Lead(S) : SlotOf(S, p) \in 0 .. m - 1
    BY <1>3, <1>4, <1>5
  <1>8. \A p, q \in Lead(S) : SlotOf(S, p) = SlotOf(S, q) => p = q
    BY <1>3, <1>4, <1>5
  <1> QED
    BY <1>3, <1>5, <1>6, <1>7, <1>8

\* A blob that has the second hash of each pair that leads at its slot is the one promised.
LEMMA BlobIs ==
    ASSUME NEW S, S \subseteq Pair, NEW m, m = Cardinality(HashesOf(S)),
           NEW table, table = [sl \in 0 .. m - 1 |-> table[sl]],
           \A p \in Lead(S) : table[SlotOf(S, p)] = p[2]
    PROVE  build_from_pairs(S) = [n |-> Cardinality(S), table |-> table, side |-> SideTable(SideOf(Sorted(S)), m)]
  <1>1. PICK all : all = Sorted(S)
    OBVIOUS
  <1>2. PICK lead : lead = [sl \in 0 .. m - 1 |-> CHOOSE i \in Leads(all) : SlotOf(S, all[i]) = sl]
    OBVIOUS
  <1>3. PICK t : t = [sl \in 0 .. m - 1 |-> all[lead[sl]][2]]
    OBVIOUS
  <1>4. build_from_pairs(S) = [n |-> Len(all), table |-> t, side |-> SideTable(SideOf(all), m)]
    BY <1>1, <1>2, <1>3 DEF build_from_pairs, SlotOf
  <1>5. Len(all) = Cardinality(S)
    BY <1>1, SortedIs
  <1>6. ASSUME NEW sl \in 0 .. m - 1
        PROVE  t[sl] = table[sl]
    <2>1. PICK p \in Lead(S) : SlotOf(S, p) = sl
      BY SlotsAre
    <2>2. PICK k \in Leads(all) : all[k] = p
      BY <1>1, LeadsAre
    <2>3. lead[sl] \in Leads(all) /\ SlotOf(S, all[lead[sl]]) = sl
      BY <1>2, <2>1, <2>2
    <2>4. all[lead[sl]] \in Lead(S)
      BY <1>1, <2>3, LeadsAre
    <2>5. all[lead[sl]] = p
      BY <2>1, <2>3, <2>4, SlotsAre
    <2> QED
      BY <1>3, <2>1, <2>5
  <1>7. t = table
    BY <1>3, <1>6
  <1> QED
    BY <1>1, <1>4, <1>5, <1>7

-------------------------------------------------------------------------------
(* Ranges of slots and bins of hashes. *)

\* Division leaves a rest less than the divisor.
LEMMA DivMod ==
    ASSUME NEW a \in Nat, NEW b \in Nat \ {0}
    PROVE  /\ a \div b \in Nat /\ a % b \in 0 .. b - 1
           /\ a = (b * (a \div b)) + (a % b)
  OBVIOUS

\* Products by one number are in the order of the others.
LEMMA ProductsOrder ==
    ASSUME NEW b \in Nat \ {0}, NEW x \in Int, NEW y \in Int
    PROVE  /\ x < y => b * x + b <= b * y
           /\ x <= y => b * x <= b * y
           /\ b * x < b * y => x < y
           /\ b * x \in Int
  <1>1. ASSUME x < y PROVE b * x + b <= b * y
    <2>1. PICK d \in Nat : y = x + 1 + d
      BY <1>1
    <2>2. b * y = b * x + b + b * d /\ b * d \in Nat
      BY <2>1
    <2> QED
      BY <2>2
  <1>2. b * x \in Int /\ b * y \in Int
    OBVIOUS
  <1>3. x <= y => b * x <= b * y
    BY <1>1, <1>2
  <1>4. ASSUME b * x < b * y PROVE x < y
    <2>1. ASSUME y <= x PROVE b * y <= b * x
      <3>1. PICK d \in Nat : x = y + d
        BY <2>1
      <3>2. b * x = b * y + b * d /\ b * d \in Nat
        BY <3>1
      <3> QED
        BY <3>2, <1>2
    <2> QED
      BY <2>1, <1>2, <1>4
  <1> QED
    BY <1>1, <1>2, <1>3, <1>4

\* A slot is in one of the ranges, at its place in that range's segment, and no other slot is there.
LEMMA SlotInRange ==
    ASSUME NEW m \in Nat, NEW sl \in 0 .. m - 1, NEW c, c = (m + RangeSlots - 1) \div RangeSlots,
           NEW r, r = sl \div RangeSlots + 1
    PROVE  /\ r \in 1 .. c /\ c \in Nat
           /\ sl % RangeSlots \in 0 .. Smaller(RangeSlots, m - (r - 1) * RangeSlots) - 1
           /\ \A other \in Nat : At(other, r) = sl % RangeSlots => other = sl
           /\ At(sl, r) = sl % RangeSlots
  <1>1. PICK b : b = RangeSlots
    OBVIOUS
  <1>2. b \in Nat \ {0}
    BY <1>1, StreamAssumption
  <1>3. PICK q, e : q = sl \div b /\ e = sl % b
    OBVIOUS
  <1>4. q \in Nat /\ e \in 0 .. b - 1 /\ sl = (b * q) + e
    <2>1. sl \in Nat
      OBVIOUS
    <2> QED
      BY ONLY <1>2, <1>3, <2>1, DivMod
  <1>5. PICK a : a = m + b - 1
    OBVIOUS
  <1>6. a \in Nat /\ c = a \div b
    BY <1>1, <1>2, <1>5
  <1>7. PICK f : f = a % b
    OBVIOUS
  <1>8. c \in Nat /\ f \in 0 .. b - 1 /\ a = (b * c) + f
    BY <1>2, <1>6, <1>7, DivMod
  <1>9. b * q \in Int /\ b * c \in Int /\ (b * q < b * c => q < c)
    BY <1>2, <1>4, <1>8, ProductsOrder
  <1>10. b * q < b * c
    BY <1>2, <1>4, <1>5, <1>8, <1>9
  <1>11. r = q + 1 /\ r - 1 = q /\ r \in 1 .. c
    BY <1>1, <1>3, <1>4, <1>8, <1>9, <1>10
  <1>12. (r - 1) * RangeSlots = b * q
    BY <1>1, <1>2, <1>4, <1>11
  <1>13. \A other \in Nat : At(other, r) = other - b * q
    BY <1>12 DEF At
  <1>14. e < m - b * q
    BY <1>4, <1>9
  <1>15. e \in 0 .. Smaller(RangeSlots, m - b * q) - 1
    BY <1>1, <1>2, <1>4, <1>9, <1>14 DEF Smaller
  <1>16. \A other \in Nat : other - b * q = e => other = sl
    BY <1>4, <1>9
  <1>17. sl - b * q = e
    BY <1>4, <1>9
  <1> QED
    BY <1>1, <1>3, <1>8, <1>11, <1>12, <1>13, <1>15, <1>16, <1>17

\* The bins are in the order of the hashes.
LEMMA BinIs ==
    /\ \A p \in Pair : bin(p) \in 0 .. Bins - 1
    /\ \A p, q \in Pair : bin(p) < bin(q) => p[1] < q[1]
  <1>1. Bins \in Nat \ {0} /\ Hashes \in Nat \ {0}
    BY StreamAssumption
  <1>2. ASSUME NEW p \in Pair
        PROVE  /\ p[1] \in Nat /\ p[1] < Hashes /\ bin(p) \in Nat
               /\ \E e \in 0 .. Hashes - 1 : Bins * p[1] = (Hashes * bin(p)) + e
    <2>1. p[1] \in Nat /\ p[1] < Hashes
      BY <1>1, PairsOrdered
    <2>2. PICK a : a = Bins * p[1]
      OBVIOUS
    <2>3. a \in Nat /\ a = p[1] * Bins
      BY <1>1, <2>1, <2>2
    <2>4. bin(p) = a \div Hashes
      BY <2>3 DEF bin
    <2>5. a \div Hashes \in Nat /\ a % Hashes \in 0 .. Hashes - 1 /\ a = (Hashes * (a \div Hashes)) + (a % Hashes)
      BY <1>1, <2>3, DivMod
    <2> QED
      BY <2>1, <2>2, <2>4, <2>5
  <1>3. ASSUME NEW p \in Pair
        PROVE  bin(p) \in 0 .. Bins - 1
    <2>1. PICK e \in 0 .. Hashes - 1 : Bins * p[1] = (Hashes * bin(p)) + e
      BY <1>2
    <2>2. p[1] \in Int /\ p[1] < Hashes /\ bin(p) \in Nat
      BY <1>2
    <2>3. Bins * p[1] + Bins <= Bins * Hashes /\ Bins * p[1] \in Int /\ Bins * Hashes \in Int
      BY <1>1, <2>2, ProductsOrder
    <2>4. Hashes * bin(p) \in Int /\ (Hashes * bin(p) < Hashes * Bins => bin(p) < Bins)
      BY <1>1, <2>2, ProductsOrder
    <2>5. Hashes * Bins = Bins * Hashes
      BY <1>1
    <2>6. Hashes * bin(p) < Hashes * Bins
      BY <1>1, <2>1, <2>3, <2>4, <2>5
    <2> QED
      BY <1>1, <2>2, <2>4, <2>6
  <1>4. ASSUME NEW p \in Pair, NEW q \in Pair, bin(p) < bin(q)
        PROVE  p[1] < q[1]
    <2>1. PICK e \in 0 .. Hashes - 1 : Bins * p[1] = (Hashes * bin(p)) + e
      BY <1>2
    <2>2. PICK f \in 0 .. Hashes - 1 : Bins * q[1] = (Hashes * bin(q)) + f
      BY <1>2
    <2>3. p[1] \in Int /\ q[1] \in Int /\ bin(p) \in Int /\ bin(q) \in Int
      BY <1>2
    <2>4. Hashes * bin(p) + Hashes <= Hashes * bin(q) /\ Hashes * bin(p) \in Int
      BY <1>1, <1>4, <2>3, ProductsOrder
    <2>5. Hashes * bin(q) \in Int
      BY <1>1, <2>3, ProductsOrder
    <2>6. Bins * p[1] \in Int /\ Bins * q[1] \in Int /\ (Bins * p[1] < Bins * q[1] => p[1] < q[1])
      BY <1>1, <2>3, ProductsOrder
    <2> QED
      BY <1>1, <2>1, <2>2, <2>4, <2>5, <2>6
  <1> QED
    BY <1>3, <1>4

\* Cuts that lie end to end, from the first bin to past the last.
CutsRight(cuts) ==
    /\ cuts \in Seq(0 .. Bins) /\ Len(cuts) > 1
    /\ cuts[1] = 0 /\ cuts[Len(cuts)] = Bins
    /\ \A t, u \in 1 .. Len(cuts) : t < u => cuts[t] < cuts[u]

\* The cuts of the merge do, whatever the runs hold.
LEMMA CutsAreRight ==
    ASSUME NEW runs
    PROVE  CutsRight(CutsOf(runs))
  <1>1. Bins \in Nat \ {0}
    BY StreamAssumption
  <1>2. ASSUME NEW t
        PROVE  Cut(runs, t) \in 0 .. Bins
    <2>1. PICK c : c = Cardinality({b \in 0 .. Bins : Total(runs, b) < (Total(runs, Bins) * t) \div job.budget.threads})
      OBVIOUS
    <2>2. c \in Nat
      <3>1. IsFiniteSet(0 .. Bins)
        BY <1>1, FS_Interval
      <3>2. PICK B : B = {b \in 0 .. Bins : Total(runs, b) < (Total(runs, Bins) * t) \div job.budget.threads}
        OBVIOUS
      <3>3. B \subseteq 0 .. Bins
        BY <3>2
      <3>4. IsFiniteSet(B)
        BY <3>1, <3>3, FS_Subset
      <3> QED
        BY <2>1, <3>2, <3>4, FS_CardinalityType
    <2>3. Cut(runs, t) = Smaller(Bins, c)
      BY <2>1 DEF Cut
    <2> QED
      BY <1>1, <2>2, <2>3 DEF Smaller
  <1>3. PICK I : I = {0, Bins} \cup {Cut(runs, t) : t \in 1 .. job.budget.threads - 1}
    OBVIOUS
  <1>4. I \subseteq 0 .. Bins /\ 0 \in I /\ Bins \in I
    BY <1>1, <1>2, <1>3
  <1>5. IsFiniteSet(I) /\ I \subseteq Int
    <2>1. IsFiniteSet(0 .. Bins)
      BY <1>1, FS_Interval
    <2>2. IsFiniteSet(I)
      BY ONLY <1>4, <2>1, Size
    <2> QED
      BY <1>1, <1>4, <2>2
  <1>6. PICK s : s = InOrder(I)
    OBVIOUS
  <1>7. /\ Len(s) \in Nat /\ DOMAIN s = 1 .. Len(s) /\ s \in [1 .. Len(s) -> I]
        /\ \A i, j \in 1 .. Len(s) : i < j => s[i] < s[j]
        /\ \A k \in I : \E i \in 1 .. Len(s) : s[i] = k
    BY ONLY <1>5, <1>6, InOrderOK
  <1>8. PICK i \in 1 .. Len(s) : s[i] = 0
    BY <1>4, <1>7
  <1>9. PICK j \in 1 .. Len(s) : s[j] = Bins
    BY <1>4, <1>7
  <1>a. \A k \in 1 .. Len(s) : s[k] \in 0 .. Bins
    BY ONLY <1>4, <1>7
  <1>10. \A k \in 1 .. Len(s) : s[k] \in Int /\ 0 <= s[k] /\ s[k] <= Bins
    BY ONLY <1>1, <1>a
  <1>11. i = 1 /\ j = Len(s) /\ i < j
    <2>1. ~ (1 < i)
      <3> SUFFICES ASSUME 1 < i PROVE FALSE
        OBVIOUS
      <3>1. 1 \in 1 .. Len(s) /\ s[1] < s[i]
        BY <1>7
      <3> QED
        BY <3>1, <1>8, <1>10
    <2>2. ~ (j < Len(s))
      <3> SUFFICES ASSUME j < Len(s) PROVE FALSE
        OBVIOUS
      <3>1. Len(s) \in 1 .. Len(s) /\ s[j] < s[Len(s)]
        BY <1>7
      <3> QED
        BY <3>1, <1>1, <1>9, <1>10
    <2>3. i # j
      BY <1>1, <1>8, <1>9
    <2>4. Len(s) \in Nat
      BY <1>7
    <2> QED
      BY ONLY <2>4, <2>1, <2>2, <2>3
  <1>12. s \in Seq(0 .. Bins)
    <2>1. Len(s) \in Nat /\ s \in [1 .. Len(s) -> 0 .. Bins]
      BY ONLY <1>4, <1>7
    <2>2. PICK k, T : k = Len(s) /\ T = 0 .. Bins
      OBVIOUS
    <2>3. k \in Nat /\ s \in [1 .. k -> T]
      BY ONLY <2>1, <2>2
    <2>4. s \in Seq(T)
      BY ONLY <2>3
    <2> QED
      BY <2>2, <2>4
  <1> QED
    BY <1>3, <1>6, <1>7, <1>8, <1>9, <1>11, <1>12 DEF CutsRight, CutsOf

\* The pairs of S in the t-th of the ranges.
PartOf(cuts, S, t) == {p \in S : InRange(p, cuts[t], cuts[t + 1])}
PartsOf(cuts, S)   == [t \in 1 .. Len(cuts) - 1 |-> PartOf(cuts, S, t)]

\* The ranges part the pairs, and the hashes of one are below those of the next.
LEMMA RangesPart ==
    ASSUME NEW cuts, CutsRight(cuts), NEW S, S \subseteq Pair
    PROVE  /\ Parts(PartsOf(cuts, S), Len(cuts) - 1)
           /\ Whole(PartsOf(cuts, S), Len(cuts) - 1) = S
  <1>1. PICK n, P : n = Len(cuts) - 1 /\ P = PartsOf(cuts, S)
    OBVIOUS
  <1>2. /\ n \in Nat \ {0} /\ Len(cuts) = n + 1
        /\ \A t \in 1 .. n + 1 : cuts[t] \in 0 .. Bins
        /\ cuts[1] = 0 /\ cuts[n + 1] = Bins
        /\ \A t, u \in 1 .. n + 1 : t < u => cuts[t] < cuts[u]
    <2>0. cuts \in Seq(0 .. Bins) /\ Len(cuts) > 1
      BY DEF CutsRight
    <2>1. Len(cuts) \in Nat /\ Len(cuts) > 1 /\ \A t \in 1 .. Len(cuts) : cuts[t] \in 0 .. Bins
      BY ONLY <2>0, LenProperties, ElementOfSeq
    <2> QED
      BY <1>1, <2>1 DEF CutsRight
  <1>3. P = [t \in 1 .. n |-> {p \in S : bin(p) \in cuts[t] .. cuts[t + 1] - 1}]
    BY <1>1 DEF PartsOf, PartOf, InRange
  <1>4. Bins \in Nat \ {0} /\ \A p \in S : bin(p) \in Nat /\ bin(p) < Bins
    BY BinIs, StreamAssumption
  <1>5. \A t \in 1 .. n : t \in 1 .. n + 1 /\ t + 1 \in 1 .. n + 1 /\ cuts[t] \in Int /\ cuts[t + 1] \in Int
    BY <1>2, <1>4
  <1>6. ASSUME NEW t \in 1 .. n, NEW u \in 1 .. n, t < u, NEW p \in P[t], NEW q \in P[u]
        PROVE  p[1] < q[1]
    <2>1. p \in S /\ q \in S /\ bin(p) < cuts[t + 1] /\ cuts[u] <= bin(q)
      BY <1>3, <1>4, <1>5
    <2>2. t + 1 = u \/ cuts[t + 1] < cuts[u]
      BY <1>2, <1>5, <1>6
    <2>3. bin(p) < bin(q)
      BY <1>4, <1>5, <2>1, <2>2
    <2> QED
      BY <2>1, <2>3, BinIs
  <1>7. Parts(P, n)
    <2>1. P \in [1 .. n -> SUBSET Pair]
      BY <1>3
    <2> QED
      BY <1>2, <1>6, <2>1 DEF Parts, HashesBelow
  <1>8. ASSUME NEW p \in S
        PROVE  \E t \in 1 .. n : p \in P[t]
    <2>1. PICK T : T = {t \in 1 .. n + 1 : bin(p) < cuts[t]}
      OBVIOUS
    <2>2. T \subseteq Nat /\ n + 1 \in T
      BY <1>2, <1>4, <2>1
    <2>3. PICK u \in T : \A v \in T : u <= v
      BY <2>2, LeastOf
    <2>4. u \in 1 .. n + 1 /\ u # 1
      BY <1>2, <1>4, <2>1
    <2>5. PICK t : t = u - 1
      OBVIOUS
    <2>6. t \in 1 .. n /\ t + 1 = u /\ t \in 1 .. n + 1 /\ t \notin T
      BY <1>2, <2>3, <2>4, <2>5
    <2>7. cuts[t] <= bin(p) /\ bin(p) < cuts[t + 1] /\ cuts[t] \in Int /\ cuts[t + 1] \in Int
      BY <1>4, <1>5, <2>1, <2>6
    <2>8. bin(p) \in cuts[t] .. cuts[t + 1] - 1
      BY <1>4, <2>7
    <2> QED
      BY <1>3, <2>6, <2>8
  <1>9. Whole(P, n) = S
    BY <1>3, <1>8 DEF Whole
  <1> QED
    BY <1>1, <1>7, <1>9

-------------------------------------------------------------------------------
(* The counts of the threads. *)

\* The function Sum is written with.
Sums(f, n, up) == up = [i \in 0 .. n |-> IF i = 0 THEN 0 ELSE up[i - 1] + f[i]]

\* There is one, addend by addend.
LEMMA SumsExist ==
    ASSUME NEW f, NEW m \in Nat
    PROVE  \E up : Sums(f, m, up)
  <1> DEFINE S == {n \in Nat : \E up : Sums(f, n, up)}
  <1>1. 0 \in S
    <2>1. PICK up : up = [i \in 0 .. 0 |-> 0]
      OBVIOUS
    <2>2. Sums(f, 0, up)
      BY <2>1 DEF Sums
    <2> QED
      BY <2>2
  <1>2. ASSUME NEW n \in Nat, n \in S
        PROVE  n + 1 \in S
    <2>1. PICK up : Sums(f, n, up)
      BY <1>2
    <2>2. PICK more : more = [i \in 0 .. n + 1 |-> IF i = 0 THEN 0 ELSE up[i - 1] + f[i]]
      OBVIOUS
    <2>3. \A i \in 0 .. n : more[i] = up[i]
      BY <2>1, <2>2 DEF Sums
    <2>4. \A i \in 0 .. n + 1 : i # 0 => i - 1 \in 0 .. n
      OBVIOUS
    <2>5. \A i \in 0 .. n + 1 : i # 0 => more[i - 1] = up[i - 1]
      BY <2>3, <2>4
    <2>6. Sums(f, n + 1, more)
      BY <2>2, <2>5 DEF Sums
    <2> QED
      BY <2>6
  <1>3. Nat \subseteq S
    <2> HIDE DEF S
    <2> QED
      BY <1>1, <1>2, Counting
  <1> QED
    BY <1>3

\* The sum, step by step.
Adds(f, n, up) ==
    /\ up[0] = 0 /\ Sum(f) = up[n]
    /\ \A i \in 1 .. n : up[i] = up[i - 1] + f[i]
    /\ \A i \in 0 .. n : up[i] \in Nat

\* The partial sums of a sequence of numbers.
LEMMA SumIs ==
    ASSUME NEW n \in Nat, NEW f \in [1 .. n -> Nat]
    PROVE  \E up : Adds(f, n, up)
  <1>1. PICK up : up = CHOOSE g : Sums(f, n, g)
    OBVIOUS
  <1>2. Sums(f, n, up)
    BY <1>1, SumsExist
  <1>3. Len(f) = n
    OBVIOUS
  <1>4. Sum(f) = up[n]
    BY <1>1, <1>3 DEF Sum, Sums
  <1>5. up[0] = 0 /\ \A i \in 1 .. n : up[i] = up[i - 1] + f[i]
    BY <1>2 DEF Sums
  <1>6. PICK S : S = {i \in Nat : n < i \/ up[i] \in Nat}
    OBVIOUS
  <1>7. 0 \in S
    BY <1>5, <1>6
  <1>8. ASSUME NEW i \in Nat, i \in S
        PROVE  i + 1 \in S
    <2> SUFFICES ASSUME i + 1 <= n PROVE up[i + 1] \in Nat
      BY <1>6
    <2>1. i + 1 \in 1 .. n /\ (i + 1) - 1 = i /\ up[i] \in Nat
      BY <1>6, <1>8
    <2>2. f[i + 1] \in Nat /\ up[i + 1] = up[i] + f[i + 1]
      BY <1>5, <2>1
    <2> QED
      BY <2>1, <2>2
  <1>a. Nat \subseteq S
    BY ONLY <1>7, <1>8, Counting
  <1>9. \A i \in 0 .. n : up[i] \in Nat
    BY <1>6, <1>a
  <1> QED
    BY <1>4, <1>5, <1>9 DEF Adds

\* n numbers.
Numbers(n, f) == f \in [1 .. n -> Nat]

\* Two sequences of numbers that are equal but for one, which is larger by d.
Raised(n, f, g, w, d) ==
    /\ n \in Nat /\ Numbers(n, f) /\ Numbers(n, g) /\ w \in 1 .. n /\ d \in Nat
    /\ g[w] = f[w] + d /\ \A v \in 1 .. n : v # w => g[v] = f[v]

\* What one thread adds is added.
LEMMA SumRaised ==
    ASSUME NEW n \in Nat, NEW f, NEW g, Numbers(n, f), Numbers(n, g), NEW w \in 1 .. n, NEW d \in Nat,
           g[w] = f[w] + d, \A v \in 1 .. n : v # w => g[v] = f[v]
    PROVE  Sum(g) = Sum(f) + d /\ Sum(f) \in Nat
  <1>0. n \in Nat /\ f \in [1 .. n -> Nat] /\ g \in [1 .. n -> Nat]
    BY DEF Numbers
  <1>e. PICK a, b : Adds(f, n, a) /\ Adds(g, n, b)
    BY ONLY <1>0, SumIs
  <1>1. /\ a[0] = 0 /\ Sum(f) = a[n]
        /\ \A i \in 1 .. n : a[i] = a[i - 1] + f[i]
        /\ \A i \in 0 .. n : a[i] \in Nat
    BY <1>e DEF Adds
  <1>2. /\ b[0] = 0 /\ Sum(g) = b[n]
        /\ \A i \in 1 .. n : b[i] = b[i - 1] + g[i]
        /\ \A i \in 0 .. n : b[i] \in Nat
    BY <1>e DEF Adds
  <1>3. PICK S : S = {i \in Nat : n < i \/ b[i] = IF i < w THEN a[i] ELSE a[i] + d}
    OBVIOUS
  <1>4. 0 \in S
    BY <1>1, <1>2, <1>3
  <1>5. ASSUME NEW i \in Nat, i \in S
        PROVE  i + 1 \in S
    <2> SUFFICES ASSUME i + 1 <= n PROVE b[i + 1] = IF i + 1 < w THEN a[i + 1] ELSE a[i + 1] + d
      BY <1>3
    <2>1. PICK j : j = i + 1
      OBVIOUS
    <2>2. j \in 1 .. n /\ j - 1 = i /\ i \in 0 .. n
      BY <2>1
    <2>3. a[j] = a[i] + f[j] /\ b[j] = b[i] + g[j] /\ a[i] \in Nat /\ b[i] \in Nat /\ f[j] \in Nat /\ g[j] \in Nat
      BY <1>0, <1>1, <1>2, <2>2
    <2>4. b[i] = IF i < w THEN a[i] ELSE a[i] + d
      BY <1>3, <1>5, <2>2
    <2>5. CASE j = w
      <3>1. i < w /\ ~ (j < w) /\ g[j] = f[j] + d
        BY <2>1, <2>5
      <3> QED
        BY <2>1, <2>3, <2>4, <3>1
    <2>6. CASE j # w
      <3>1. g[j] = f[j] /\ (i < w <=> j < w)
        BY <2>1, <2>2, <2>6
      <3>2. b[j] = b[i] + f[j] /\ a[j] = a[i] + f[j] /\ a[i] \in Nat /\ f[j] \in Nat /\ d \in Nat
        BY <2>3, <3>1
      <3>5. b[j] = IF j < w THEN a[j] ELSE a[j] + d
        BY ONLY <3>1, <3>2, <2>4
      <3> QED
        BY <2>1, <3>5
    <2> QED
      BY <2>5, <2>6
  <1>a. Nat \subseteq S
    BY ONLY <1>4, <1>5, Counting
  <1>6. b[n] = a[n] + d
    BY <1>3, <1>a
  <1> QED
    BY <1>1, <1>2, <1>6

\* The same, the hypotheses under one name.
LEMMA SumAdds ==
    ASSUME NEW n, NEW f, NEW g, NEW w, NEW d, Raised(n, f, g, w, d)
    PROVE  Sum(g) = Sum(f) + d /\ Sum(f) \in Nat
  <1>1. /\ n \in Nat /\ Numbers(n, f) /\ Numbers(n, g) /\ w \in 1 .. n /\ d \in Nat
        /\ g[w] = f[w] + d /\ \A v \in 1 .. n : v # w => g[v] = f[v]
    BY DEF Raised
  <1> QED
    BY ONLY <1>1, SumRaised

\* A sequence of zeros sums to zero.
LEMMA SumOfNone ==
    ASSUME NEW n \in Nat, NEW f \in [1 .. n -> Nat], \A v \in 1 .. n : f[v] = 0
    PROVE  Sum(f) = 0
  <1>e. PICK a : Adds(f, n, a)
    BY SumIs
  <1>1. /\ a[0] = 0 /\ Sum(f) = a[n]
        /\ \A i \in 1 .. n : a[i] = a[i - 1] + f[i]
    BY <1>e DEF Adds
  <1>2. PICK S : S = {i \in Nat : n < i \/ a[i] = 0}
    OBVIOUS
  <1>3. 0 \in S
    BY <1>1, <1>2
  <1>4. ASSUME NEW i \in Nat, i \in S
        PROVE  i + 1 \in S
    <2> SUFFICES ASSUME i + 1 <= n PROVE a[i + 1] = 0
      BY <1>2
    <2>1. i + 1 \in 1 .. n /\ (i + 1) - 1 = i /\ a[i] = 0
      BY <1>2, <1>4
    <2> QED
      BY <1>1, <2>1
  <1>5. Nat \subseteq S
    BY ONLY <1>3, <1>4, Counting
  <1> QED
    BY <1>1, <1>2, <1>5

-------------------------------------------------------------------------------
(* The invariant of a build. *)

Keys    == ToSet(job.keys)
KeyHash == HashesOf(Keys)
AllRuns == UNION {ToSet(scratch.runs[i]) : i \in DOMAIN scratch.runs}

\* The build has all the keys, has counted them, sends their fingerprints.
Has     == main.at \in {"merge", "hash", "place", "write"}
Counted == main.at \in {"hash", "place", "write"}
Sends   == main.at \in {"place", "write"}

MergersFine == \A w \in DOMAIN merger : merger[w].at # "failed"
ScansFine   == \A s \in DOMAIN scanner : scanner[s].at # "failed"

\* What the variables of the building thread hold, and that nothing is answered before the end.
JobTyped ==
    /\ job = [keys |-> job.keys, fails |-> job.fails, taken |-> job.taken, budget |-> job.budget]
    /\ job.keys \in Seq(Pair) /\ job.fails \in BOOLEAN /\ job.taken \in BOOLEAN
    /\ job.budget \in [cap : Nat \ {0}, memory : Nat, threads : Nat \ {0}]

ThreadTyped ==
    /\ main = [at |-> main.at, input |-> main.input, run |-> main.run, faults |-> main.faults,
               n |-> main.n, m |-> main.m, mph |-> main.mph, side |-> main.side]
    /\ main.at \in {"idle", "read", "merge", "hash", "place", "write", "returned"}
    /\ main.input \in Seq(Pair) /\ main.run \in Seq(Pair) /\ main.faults \in Nat

ScratchTyped ==
    /\ scratch = [dir |-> scratch.dir, runs |-> scratch.runs, cuts |-> scratch.cuts,
                  merged |-> scratch.merged, next |-> scratch.next]
    /\ scratch.runs \in Seq(Seq(Pair)) /\ scratch.next \in Nat \ {0}

MainTyped == JobTyped /\ ThreadTyped /\ ScratchTyped /\ (main.at # "returned" => outcome.result = "none")

\* The keys read are in memory or in a run, and nothing is merged yet.
Reading ==
    /\ main.at \in {"idle", "read"} => scratch.next = 1 /\ scratch.merged = <<>>
    /\ main.at = "idle" => scratch.runs = <<>>
    /\ main.at = "read" => Keys = ToSet(main.input) \cup ToSet(main.run) \cup AllRuns

\* Then all of them are in the runs, which the cuts part, or in order in memory.
HasAll ==
    Has => /\ ~ job.fails
           /\ IF InFiles THEN Keys = AllRuns /\ CutsRight(scratch.cuts)
              ELSE main.at # "merge" /\ main.run = Sorted(Keys)

\* No call has failed of a build that goes on with what its threads did.
Faultless ==
    \/ main.at \in {"idle", "read", "hash", "write"}
    \/ main.at = "merge" /\ MergersFine
    \/ main.at = "place" /\ ScansFine
    => main.faults = 0

-------------------------------------------------------------------------------
(* The merge threads. *)

MergeStates == [at : {"claim", "merge", "done", "failed"}, t : Nat, n : Nat, same : Nat]
Merging(w)  == merger[w].at = "merge"
MergedPairs == UNION {PairsOfRange(t) : t \in DOMAIN scratch.merged}

\* A range is claimed by one thread; what is not claimed is not merged, and the rest is or is being.
ClaimedOnce ==
    main.at = "merge" =>
        /\ merger \in [1 .. job.budget.threads -> MergeStates]
        /\ \A w \in DOMAIN merger : Merging(w) => merger[w].t \in 1 .. Paths /\ merger[w].t < scratch.next
        /\ \A w, v \in DOMAIN merger : Merging(w) /\ Merging(v) /\ merger[w].t = merger[v].t => w = v
        /\ \A w \in DOMAIN merger : merger[w].at = "done" => scratch.next > Paths
        /\ DOMAIN scratch.merged = {t \in 1 .. Paths : t < scratch.next /\ \A w \in DOMAIN merger :
                                                          Merging(w) => merger[w].t # t}
        /\ ~ MergersFine => main.faults > 0

\* A merged file has its range's pairs, and the threads counted them.
MergedWhole ==
    main.at = "merge" /\ MergersFine =>
        /\ scratch.merged = [t \in DOMAIN scratch.merged |-> Sorted(PairsOfRange(t))]
        /\ Written_n = Cardinality(MergedPairs)
        /\ Written_same = Cardinality(MergedPairs) - Cardinality(HashesOf(MergedPairs))

\* After the merge: every range, the counts, and then the perfect hash.
AllCounted ==
    Counted => /\ InFiles => scratch.merged = [t \in 1 .. Paths |-> Sorted(PairsOfRange(t))]
               /\ main.n = Cardinality(Keys) /\ main.m = Cardinality(KeyHash)

HashBuilt == Sends => main.mph = [h \in KeyHash |-> index(KeyHash, h)]

-------------------------------------------------------------------------------
(* The fingerprint threads. *)

ScanStates == [at : {"scan", "put", "flush", "lock", "write", "done", "failed"}, read : Nat, placed : Nat,
               stage : [1 .. Files -> Seq(Nat \X Nat)], r : Nat, left : Seq(Nat \X Nat), split : BOOLEAN]

\* The places of a source that lead and are yet to be sent, up to one.
Pending(s, placed, upto) == {i \in Leads(Sources[s]) : placed < i /\ i <= upto}

\* The records of a range.
Fit(q) == {Record(p) : p \in {p \in Lead(Keys) : RangeOf(main.mph[p[1]]) = q}}

\* The thread has sent its whole source, and empties its stages from the first on.
Flushing(s, st) == st.at = "flush" \/ (st.at \in {"lock", "write"} /\ Pending(s, st.placed, st.read) = {})

\* A thread's state: what is left of its source by where it is, and its stages' records their ranges'.
ScanOK(s, st) ==
    /\ st \in ScanStates
    /\ st.placed <= st.read /\ st.read <= Len(Sources[s])
    /\ st.at = "scan" => Pending(s, st.placed, st.read) = {}
    /\ st.at = "done" \/ Flushing(s, st) => Pending(s, st.placed, Len(Sources[s])) = {}
    /\ st.at = "flush" => st.r >= 1
    /\ st.at \in {"lock", "write"} => ~ InMemory /\ st.r \in 1 .. Files
    /\ st.split => st.at \in {"write", "failed"} /\ (st.at = "write" => st.left # <<>>)
    /\ Flushing(s, st) => \A q \in 1 .. Files : q < st.r => st.stage[q] = <<>>
    /\ st.at = "done" /\ ~ InMemory => \A q \in 1 .. Files : st.stage[q] = <<>>
    /\ \A q \in 1 .. Files : ToSet(st.stage[q]) \subseteq Fit(q)

ScansOK == Sends => DOMAIN scanner = DOMAIN Sources /\ \A s \in DOMAIN Sources : ScanOK(s, scanner[s])

RangesOK(rg) ==
    /\ rg = [lock |-> rg.lock, file |-> rg.file]
    /\ rg.lock = [q \in 1 .. Files |-> rg.lock[q]]
    /\ rg.file \in [1 .. Files -> [recs : SUBSET (Nat \X Nat), half : Seq(Nat)]]

RangeTyped == Sends => RangesOK(range)

\* A range file's lock is held by the thread that writes it.
Locked ==
    Sends =>
        /\ \A s \in DOMAIN Sources : scanner[s].at = "write" => range.lock[scanner[s].r] = s
        /\ \A q \in 1 .. Files : range.lock[q] # NoThread =>
              /\ range.lock[q] \in DOMAIN Sources
              /\ scanner[range.lock[q]].at = "write" /\ scanner[range.lock[q]].r = q

\* A record sent is staged or in its file.
Kept(s, st, file) ==
    \A i \in Leads(Sources[s]) :
        i <= st.placed => \E q \in 1 .. Files : /\ q = RangeOf(main.mph[Sources[s][i][1]])
                                                /\ Record(Sources[s][i]) \in ToSet(st.stage[q]) \cup file[q].recs

\* What the write of a stage has left is its end, and only its holder has a record half written.
Writes(st, f) ==
    /\ ToSet(st.stage[st.r]) \subseteq ToSet(st.left) \cup f.recs
    /\ ToSet(st.left) \subseteq ToSet(st.stage[st.r])
    /\ f.half = IF st.split THEN <<Head(st.left)[1]>> ELSE <<>>

\* The files have their ranges' records, and with the stages all that were sent.
Filed ==
    Sends /\ ScansFine =>
        /\ \A q \in 1 .. Files : range.file[q].recs \subseteq Fit(q)
        /\ \A q \in 1 .. Files : range.lock[q] = NoThread => range.file[q].half = <<>>
        /\ InMemory => \A q \in 1 .. Files : range.file[q].recs = {}
        /\ \A s \in DOMAIN Sources : Kept(s, scanner[s], range.file)
        /\ \A s \in DOMAIN Sources : scanner[s].at = "write" => Writes(scanner[s], range.file[scanner[s].r])

FailedForFault == Sends /\ ~ ScansFine => main.faults > 0

\* At the write every thread is done, and the side table is the followers'.
AllSent ==
    main.at = "write" =>
        /\ \A s \in DOMAIN scanner : scanner[s].at = "done"
        /\ main.side = SideTable(SideOf(Sorted(Keys)), main.m)

CInv == /\ MainTyped /\ Reading /\ HasAll /\ Faultless
        /\ ClaimedOnce /\ MergedWhole /\ AllCounted /\ HashBuilt
        /\ ScansOK /\ RangeTyped /\ Locked /\ Filed /\ FailedForFault /\ AllSent
        /\ PublishesTheKeys /\ ErrorsSurface

-------------------------------------------------------------------------------
(* The steps of the building thread alone. *)

\* At first nothing is asked.
LEMMA CInit == Init => CInv
  <1> SUFFICES ASSUME Init PROVE CInv
    OBVIOUS
  <1>1. MainTyped
    BY DEF Init, MainTyped, JobTyped, ThreadTyped, ScratchTyped, NoJob, Idle, NoFiles
  <1>2. Reading /\ HasAll /\ Faultless
    BY DEF Init, Reading, HasAll, Faultless, Has, Idle, NoFiles
  <1>3. ClaimedOnce /\ MergedWhole /\ AllCounted /\ HashBuilt
    BY DEF Init, ClaimedOnce, MergedWhole, AllCounted, HashBuilt, Counted, Sends, Idle
  <1>4. ScansOK /\ RangeTyped /\ Locked /\ Filed /\ FailedForFault /\ AllSent
    BY DEF Init, ScansOK, RangeTyped, Locked, Filed, FailedForFault, AllSent, Sends, Idle
  <1>5. PublishesTheKeys /\ ErrorsSurface
    BY DEF Init, PublishesTheKeys, ErrorsSurface
  <1> QED
    BY <1>1, <1>2, <1>3, <1>4, <1>5 DEF CInv

\* A build that has returned an error leaves nothing to say but why.
LEMMA ReturnedError ==
    ASSUME MainTyped, main' = [main EXCEPT !.at = "returned", !.faults = main'.faults], main'.faults \in Nat,
           Return("error", NoBlob), job.fails \/ main'.faults > 0 \/ job.taken
    PROVE  CInv'
  <1>0. /\ main'.at = "returned" /\ job' = job
        /\ main' = [at |-> main'.at, input |-> main'.input, run |-> main'.run, faults |-> main'.faults,
                    n |-> main'.n, m |-> main'.m, mph |-> main'.mph, side |-> main'.side]
        /\ main'.input = main.input /\ main'.run = main.run
    BY DEF MainTyped, JobTyped, ThreadTyped, ScratchTyped, Return
  <1>1. MainTyped'
    <2>1. /\ scratch' = [dir |-> scratch'.dir, runs |-> scratch'.runs, cuts |-> scratch'.cuts,
                         merged |-> scratch'.merged, next |-> scratch'.next]
          /\ scratch'.runs = <<>> /\ scratch'.next = 1
      BY DEF Return, NoFiles
    <2> QED
      BY <1>0, <2>1 DEF MainTyped, JobTyped, ThreadTyped, ScratchTyped
  <1>2. Reading' /\ HasAll' /\ Faultless'
    BY <1>0 DEF Reading, HasAll, Faultless, Has
  <1>3. ClaimedOnce' /\ MergedWhole' /\ AllCounted' /\ HashBuilt'
    BY <1>0 DEF ClaimedOnce, MergedWhole, AllCounted, HashBuilt, Counted, Sends
  <1>4. ScansOK' /\ RangeTyped' /\ Locked' /\ Filed' /\ FailedForFault' /\ AllSent'
    BY <1>0 DEF ScansOK, RangeTyped, Locked, Filed, FailedForFault, AllSent, Sends
  <1>5. PublishesTheKeys' /\ ErrorsSurface'
    BY <1>0 DEF PublishesTheKeys, ErrorsSurface, Return
  <1> QED
    BY <1>1, <1>2, <1>3, <1>4, <1>5 DEF CInv

\* So does one whose thread reports an error, or whose own call failed.
LEMMA FailKeeps ==
    ASSUME CInv, Fail, job.fails \/ main.faults > 0 \/ job.taken
    PROVE  CInv'
  <1>1. MainTyped
    BY DEF CInv
  <1>2. /\ main' = [main EXCEPT !.at = "returned", !.faults = main'.faults]
        /\ main'.faults = main.faults /\ main'.faults \in Nat /\ Return("error", NoBlob)
    BY <1>1 DEF Fail, MainTyped, JobTyped, ThreadTyped, ScratchTyped
  <1> QED
    BY <1>1, <1>2, ReturnedError

\* A call that fails keeps the invariant.
LEMMA FaultKeeps ==
    ASSUME CInv, FailWith
    PROVE  CInv'
  <1>1. MainTyped
    BY DEF CInv
  <1>2. /\ main' = [main EXCEPT !.at = "returned", !.faults = main'.faults]
        /\ main'.faults = main.faults + 1 /\ main'.faults \in Nat /\ main'.faults > 0 /\ Return("error", NoBlob)
    BY <1>1 DEF FailWith, MainTyped, JobTyped, ThreadTyped, ScratchTyped
  <1> QED
    BY <1>1, <1>2, ReturnedError

\* A sequence's elements.
LEMMA SeqIs ==
    ASSUME NEW T, NEW s \in Seq(T)
    PROVE  /\ Len(s) \in Nat /\ DOMAIN s = 1 .. Len(s) /\ s \in [1 .. Len(s) -> T]
           /\ \A i \in 1 .. Len(s) : s[i] \in T /\ s[i] \in ToSet(s)
           /\ \A x \in ToSet(s) : x \in T /\ \E i \in 1 .. Len(s) : s[i] = x
  BY DEF ToSet

\* One more, the first, and the others.
LEMMA SetOfAppend ==
    ASSUME NEW T, NEW s \in Seq(T), NEW x \in T
    PROVE  Append(s, x) \in Seq(T) /\ ToSet(Append(s, x)) = ToSet(s) \cup {x}
  <1>1. PICK t : t = Append(s, x)
    OBVIOUS
  <1>2. PICK n : n = Len(s)
    OBVIOUS
  <1>3. /\ t \in Seq(T) /\ n \in Nat /\ Len(t) = n + 1 /\ t[n + 1] = x
        /\ \A i \in 1 .. n : t[i] = s[i]
    BY <1>1, <1>2, AppendProperties
  <1>4. DOMAIN t = 1 .. n + 1 /\ DOMAIN s = 1 .. n
    BY <1>2, <1>3
  <1>5. ToSet(t) = {t[i] : i \in 1 .. n + 1} /\ ToSet(s) = {s[i] : i \in 1 .. n}
    BY <1>4 DEF ToSet
  <1>6. \A i : i \in 1 .. n + 1 <=> i \in 1 .. n \/ i = n + 1
    BY <1>3
  <1>7. ToSet(t) = ToSet(s) \cup {x}
    BY <1>3, <1>5, <1>6
  <1> QED
    BY <1>1, <1>3, <1>7

\* The elements of a sequence are its head and those of its tail.
LEMMA SetOfTail ==
    ASSUME NEW T, NEW s \in Seq(T), s # <<>>
    PROVE  /\ Tail(s) \in Seq(T) /\ Head(s) \in T /\ Head(s) \in ToSet(s)
           /\ ToSet(s) = {Head(s)} \cup ToSet(Tail(s))
  <1>1. PICK t : t = Tail(s)
    OBVIOUS
  <1>2. PICK n : n = Len(s)
    OBVIOUS
  <1>3. /\ t \in Seq(T) /\ n \in Nat \ {0} /\ Len(t) = n - 1 /\ Head(s) = s[1] /\ s[1] \in T
        /\ \A i \in 1 .. n - 1 : t[i] = s[i + 1]
    BY <1>1, <1>2, HeadTailProperties
  <1>4. DOMAIN t = 1 .. n - 1 /\ DOMAIN s = 1 .. n
    BY <1>2, <1>3
  <1>5. ToSet(t) = {t[i] : i \in 1 .. n - 1} /\ ToSet(s) = {s[i] : i \in 1 .. n}
    BY <1>4 DEF ToSet
  <1>6. \A i \in 1 .. n : i = 1 \/ (i - 1 \in 1 .. n - 1 /\ t[i - 1] = s[i])
    <2> TAKE i \in 1 .. n
    <2> SUFFICES ASSUME i # 1 PROVE i - 1 \in 1 .. n - 1 /\ t[i - 1] = s[i]
      OBVIOUS
    <2>1. PICK j : j = i - 1
      OBVIOUS
    <2>2. j \in 1 .. n - 1 /\ j + 1 = i
      BY <1>3, <2>1
    <2> QED
      BY <1>3, <2>1, <2>2
  <1>7. \A i \in 1 .. n - 1 : i + 1 \in 1 .. n /\ t[i] = s[i + 1]
    BY <1>3
  <1>8. 1 \in 1 .. n
    BY <1>3
  <1>9. ToSet(s) = {s[1]} \cup ToSet(t)
    BY <1>5, <1>6, <1>7, <1>8
  <1> QED
    BY <1>1, <1>3, <1>9

\* The files are those of the scratch directory and a run.
WithRun(files, run) ==
    /\ files = [dir |-> "ours", runs |-> files.runs, cuts |-> scratch.cuts, merged |-> scratch.merged,
                next |-> scratch.next]
    /\ files.runs \in Seq(Seq(Pair)) /\ files.runs # <<>>
    /\ UNION {ToSet(files.runs[i]) : i \in DOMAIN files.runs} = AllRuns \cup ToSet(run)

\* A run put with the others.
LEMMA SpilledIs ==
    ASSUME MainTyped, NEW run \in Seq(Pair)
    PROVE  WithRun(Spilled(run), run)
  <1>0. PICK files : files = Spilled(run)
    OBVIOUS
  <1>1. PICK s : s = Sorted(ToSet(run))
    OBVIOUS
  <1>2. PICK old, new : old = scratch.runs /\ new = Append(old, s)
    OBVIOUS
  <1>3. files = [dir |-> "ours", runs |-> new, cuts |-> scratch.cuts, merged |-> scratch.merged, next |-> scratch.next]
    BY <1>0, <1>1, <1>2 DEF Spilled, MainTyped, ScratchTyped
  <1>4. ToSet(run) \subseteq Pair
    BY SeqIs
  <1>5. s \in Seq(Pair) /\ ToSet(s) = ToSet(run)
    BY <1>1, <1>4, SortedIs
  <1>6. old \in Seq(Seq(Pair))
    BY <1>2 DEF MainTyped, JobTyped, ThreadTyped, ScratchTyped
  <1>7. PICK T : T = Seq(Pair)
    OBVIOUS
  <1>8. PICK n : n = Len(old)
    OBVIOUS
  <1>9. old \in Seq(T) /\ s \in T
    BY <1>5, <1>6, <1>7
  <1>10. /\ new \in Seq(T) /\ new # <<>> /\ n \in Nat /\ Len(new) = n + 1
         /\ DOMAIN new = 1 .. n + 1 /\ DOMAIN old = 1 .. n
         /\ new[n + 1] = s /\ \A i \in 1 .. n : new[i] = old[i]
    BY ONLY <1>2, <1>8, <1>9, AppendProperties
  <1>11. \A i : i \in 1 .. n + 1 <=> i \in 1 .. n \/ i = n + 1
    BY <1>10
  <1>12. UNION {ToSet(new[i]) : i \in DOMAIN new} = (UNION {ToSet(old[i]) : i \in DOMAIN old}) \cup ToSet(s)
    <2>1. PICK g : g = [i \in 1 .. n + 1 |-> ToSet(new[i])]
      OBVIOUS
    <2>2. g[n + 1] = ToSet(s) /\ \A i \in 1 .. n : g[i] = ToSet(old[i])
      BY <1>10, <1>11, <2>1
    <2>3. n + 1 \in 1 .. n + 1 /\ \A i \in 1 .. n : i \in 1 .. n + 1
      BY <1>10
    <2>4. UNION {g[i] : i \in 1 .. n + 1} = (UNION {g[i] : i \in 1 .. n}) \cup g[n + 1]
      <3>1. PICK D, E, k : D = 1 .. n + 1 /\ E = 1 .. n /\ k = n + 1
        OBVIOUS
      <3>2. D = E \cup {k}
        BY <1>11, <2>3, <3>1
      <3>3. UNION {g[i] : i \in D} = (UNION {g[i] : i \in E}) \cup g[k]
        BY ONLY <3>2
      <3> QED
        BY <3>1, <3>3
    <2>5. {g[i] : i \in 1 .. n + 1} = {ToSet(new[i]) : i \in DOMAIN new}
          /\ {g[i] : i \in 1 .. n} = {ToSet(old[i]) : i \in DOMAIN old}
      BY <1>10, <2>1, <2>2, <2>3
    <2> QED
      BY <2>2, <2>4, <2>5
  <1> QED
    BY <1>0, <1>2, <1>3, <1>5, <1>7, <1>10, <1>12, SMTT(20) DEF AllRuns, WithRun

\* The build starts.
LEMMA StartKeeps ==
    ASSUME CInv, Start
    PROVE  CInv'
  <1>1. MainTyped /\ Reading /\ Faultless /\ main.at = "idle"
    BY DEF CInv, Start
  <1>2. PICK input \in Inputs, budget \in Budgets, fails \in BOOLEAN, taken \in BOOLEAN :
          /\ job' = [keys |-> input, fails |-> fails, taken |-> taken, budget |-> budget]
          /\ main' = [Idle EXCEPT !.at = "read", !.input = input]
    BY DEF Start
  <1>3. input \in Seq(Pair) /\ budget \in [cap : Nat \ {0}, memory : Nat, threads : Nat \ {0}]
    BY <1>2, StreamAssumption
  <1>4. UNCHANGED <<scratch, merger, scanner, range, outcome>>
    BY DEF Start
  <1>5. main' = [at |-> "read", input |-> input, run |-> <<>>, faults |-> 0, n |-> 0, m |-> 0, mph |-> <<>>,
                 side |-> <<>>]
    BY <1>2 DEF Idle
  <1>6. MainTyped' /\ outcome'.result = "none"
    <2>1. JobTyped'
      BY <1>2, <1>3 DEF JobTyped
    <2>2. ThreadTyped'
      BY <1>3, <1>5 DEF ThreadTyped
    <2>3. ScratchTyped' /\ outcome'.result = "none"
      BY <1>1, <1>4 DEF MainTyped, ScratchTyped
    <2> QED
      BY <2>1, <2>2, <2>3 DEF MainTyped
  <1>7. Reading'
    <2>1. scratch.runs = <<>>
      BY <1>1 DEF Reading
    <2>2. AllRuns' = {}
      BY <1>4, <2>1 DEF AllRuns
    <2>3. ToSet(main'.run) = {}
      BY <1>5 DEF ToSet
    <2> QED
      BY <1>1, <1>2, <1>4, <1>5, <2>2, <2>3 DEF Reading, Keys
  <1>8. Faultless'
    BY <1>5 DEF Faultless
  <1>9. main'.at \in {"idle", "read"}
    BY <1>5
  <1>10. HasAll' /\ ClaimedOnce' /\ MergedWhole' /\ AllCounted' /\ HashBuilt'
         /\ ScansOK' /\ RangeTyped' /\ Locked' /\ Filed' /\ FailedForFault' /\ AllSent'
         /\ PublishesTheKeys'
    BY <1>6, <1>9 DEF HasAll, ClaimedOnce, MergedWhole, AllCounted, HashBuilt, ScansOK, RangeTyped, Locked, Filed,
         FailedForFault, AllSent, PublishesTheKeys, Has, Counted, Sends
  <1>11. ErrorsSurface'
    BY <1>6 DEF ErrorsSurface
  <1> QED
    BY <1>6, <1>7, <1>8, <1>10, <1>11 DEF CInv

\* A key read, in memory or with the run spilled.
LEMMA ReadKeeps ==
    ASSUME CInv, ReadKey
    PROVE  CInv'
  <1>1. /\ MainTyped /\ Reading /\ Faultless /\ main.at = "read" /\ main.input # <<>>
        /\ main.faults = 0 /\ outcome.result = "none"
    BY DEF CInv, ReadKey, MainTyped, JobTyped, ThreadTyped, ScratchTyped, Faultless
  <1>2. PICK run : run = Append(main.run, Head(main.input))
    OBVIOUS
  <1>3. /\ Tail(main.input) \in Seq(Pair) /\ Head(main.input) \in Pair
        /\ ToSet(main.input) = {Head(main.input)} \cup ToSet(Tail(main.input))
    BY <1>1, SetOfTail DEF MainTyped, JobTyped, ThreadTyped, ScratchTyped
  <1>4. run \in Seq(Pair) /\ ToSet(run) = ToSet(main.run) \cup {Head(main.input)}
    BY <1>1, <1>2, <1>3, SetOfAppend DEF MainTyped, JobTyped, ThreadTyped, ScratchTyped
  <1>5. Keys = ToSet(Tail(main.input)) \cup ToSet(run) \cup AllRuns
    BY <1>1, <1>3, <1>4 DEF Reading
  <1>6. CASE /\ main' = [main EXCEPT !.input = Tail(@), !.run = <<>>]
             /\ scratch' = Spilled(run)
             /\ UNCHANGED <<job, merger, scanner, range, outcome>>
    <2>1. main' = [at |-> "read", input |-> Tail(main.input), run |-> <<>>, faults |-> 0, n |-> main.n,
                   m |-> main.m, mph |-> main.mph, side |-> main.side]
      BY <1>1, <1>6 DEF MainTyped, JobTyped, ThreadTyped, ScratchTyped
    <2>2. /\ scratch' = [dir |-> "ours", runs |-> scratch'.runs, cuts |-> scratch.cuts, merged |-> scratch.merged,
                         next |-> scratch.next]
          /\ scratch'.runs \in Seq(Seq(Pair))
          /\ UNION {ToSet(scratch'.runs[i]) : i \in DOMAIN scratch'.runs} = AllRuns \cup ToSet(run)
      <3>1. WithRun(Spilled(run), run)
        BY <1>1, <1>4, SpilledIs
      <3> QED
        BY <1>6, <3>1 DEF WithRun
    <2>3. MainTyped'
      <3>1. JobTyped' /\ ScratchTyped' /\ outcome'.result = "none"
        BY <1>1, <1>6, <2>2 DEF MainTyped, JobTyped, ScratchTyped
      <3>2. ThreadTyped'
        BY <1>3, <2>1 DEF ThreadTyped
      <3> QED
        BY <3>1, <3>2 DEF MainTyped
    <2>4. AllRuns' = AllRuns \cup ToSet(run)
      BY <2>2 DEF AllRuns
    <2>5. Keys' = Keys /\ ToSet(main'.run) = {}
      BY <1>6, <2>1 DEF Keys, ToSet
    <2>6. Reading'
      BY <1>1, <1>5, <2>1, <2>2, <2>4, <2>5 DEF Reading
    <2>7. Faultless' /\ ErrorsSurface'
      BY <1>1, <1>6, <2>1 DEF Faultless, ErrorsSurface
    <2>8. HasAll' /\ ClaimedOnce' /\ MergedWhole' /\ AllCounted' /\ HashBuilt'
          /\ ScansOK' /\ RangeTyped' /\ Locked' /\ Filed' /\ FailedForFault' /\ AllSent'
          /\ PublishesTheKeys'
      BY <1>1, <1>6, <2>1 DEF HasAll, ClaimedOnce, MergedWhole, AllCounted, HashBuilt, ScansOK, RangeTyped, Locked,
           Filed, FailedForFault, AllSent, PublishesTheKeys, Has, Counted, Sends
    <2> QED
      BY <2>3, <2>6, <2>7, <2>8 DEF CInv
  <1>7. CASE /\ main' = [main EXCEPT !.input = Tail(@), !.run = run]
             /\ UNCHANGED <<job, scratch, merger, scanner, range, outcome>>
    <2>1. main' = [at |-> "read", input |-> Tail(main.input), run |-> run, faults |-> 0, n |-> main.n,
                   m |-> main.m, mph |-> main.mph, side |-> main.side]
      BY <1>1, <1>7 DEF MainTyped, JobTyped, ThreadTyped, ScratchTyped
    <2>2. MainTyped'
      <3>1. JobTyped' /\ ScratchTyped' /\ outcome'.result = "none"
        BY <1>1, <1>7 DEF MainTyped, JobTyped, ScratchTyped
      <3>2. ThreadTyped'
        BY <1>3, <1>4, <2>1 DEF ThreadTyped
      <3> QED
        BY <3>1, <3>2 DEF MainTyped
    <2>3. AllRuns' = AllRuns /\ Keys' = Keys
      BY <1>7 DEF AllRuns, Keys
    <2>4. Reading'
      BY <1>1, <1>5, <1>7, <2>1, <2>3 DEF Reading
    <2>5. Faultless' /\ ErrorsSurface'
      BY <1>1, <1>7, <2>1 DEF Faultless, ErrorsSurface
    <2>6. HasAll' /\ ClaimedOnce' /\ MergedWhole' /\ AllCounted' /\ HashBuilt'
          /\ ScansOK' /\ RangeTyped' /\ Locked' /\ Filed' /\ FailedForFault' /\ AllSent'
          /\ PublishesTheKeys'
      BY <1>1, <1>7, <2>1 DEF HasAll, ClaimedOnce, MergedWhole, AllCounted, HashBuilt, ScansOK, RangeTyped, Locked,
           Filed, FailedForFault, AllSent, PublishesTheKeys, Has, Counted, Sends
    <2> QED
      BY <2>2, <2>4, <2>5, <2>6 DEF CInv
  <1>8. CASE ~ MayCreate /\ Fail
    BY <1>8, FailKeeps DEF MayCreate
  <1>9. CASE FailWith
    BY <1>9, FaultKeeps
  <1> QED
    BY <1>2, <1>6, <1>7, <1>8, <1>9 DEF ReadKey

\* The keys are all read: they are in order in memory, or the runs are cut for the merge.
LEMMA EndKeeps ==
    ASSUME CInv, EndOfKeys
    PROVE  CInv'
  <1>1. /\ MainTyped /\ Reading /\ Faultless /\ main.at = "read" /\ main.input = <<>>
        /\ main.faults = 0 /\ outcome.result = "none"
    BY DEF CInv, EndOfKeys, MainTyped, JobTyped, ThreadTyped, ScratchTyped, Faultless
  <1>2. ToSet(main.input) = {}
    BY <1>1 DEF ToSet
  <1>3. Keys = ToSet(main.run) \cup AllRuns /\ scratch.next = 1 /\ scratch.merged = <<>>
    BY <1>1, <1>2 DEF Reading
  <1>4. main.run \in Seq(Pair) /\ ToSet(main.run) \subseteq Pair
    BY <1>1, SeqIs DEF MainTyped, ThreadTyped
  <1>5. CASE job.fails /\ Fail
    BY <1>5, FailKeeps
  <1>6. CASE FailWith
    BY <1>6, FaultKeeps
  <1>7. ASSUME ~ job.fails, scratch.runs = <<>>, NEW run, run = Sorted(ToSet(main.run)),
               main' = [main EXCEPT !.at = "hash", !.run = run, !.n = Len(run),
                                    !.m = Len(run) - Cardinality(Followers(run))],
               UNCHANGED <<job, scratch, merger, scanner, range, outcome>>
        PROVE  CInv'
    <2>1. AllRuns = {}
      BY <1>7 DEF AllRuns
    <2>2. Keys = ToSet(main.run)
      BY <1>3, <2>1
    <2>3. run \in Seq(Pair) /\ Len(run) = Cardinality(Keys) /\ run = Sorted(Keys)
      BY <1>4, <1>7, <2>2, SortedIs
    <2>4. Cardinality(Followers(run)) = Cardinality(Keys) - Cardinality(KeyHash)
          /\ Cardinality(Keys) \in Nat /\ Cardinality(KeyHash) \in Nat
      BY <1>4, <1>7, <2>2, FollowersCounted DEF KeyHash
    <2>5. /\ main' = [at |-> "hash", input |-> main.input, run |-> run, faults |-> 0, n |-> main'.n,
                      m |-> main'.m, mph |-> main.mph, side |-> main.side]
          /\ main'.n = Cardinality(Keys) /\ main'.m = Cardinality(KeyHash)
      <3>1. PICK n, k : n = Len(run) /\ k = Cardinality(Followers(run))
        OBVIOUS
      <3>2. main' = [main EXCEPT !.at = "hash", !.run = run, !.n = n, !.m = n - k]
        BY <1>7, <3>1
      <3>3. n = Cardinality(Keys) /\ n - k = Cardinality(KeyHash)
        BY <2>3, <2>4, <3>1
      <3>4. main' = [at |-> "hash", input |-> main.input, run |-> run, faults |-> main.faults, n |-> n,
                     m |-> n - k, mph |-> main.mph, side |-> main.side]
        BY ONLY <1>1, <3>2 DEF MainTyped, ThreadTyped
      <3> QED
        BY <1>1, <3>3, <3>4
    <2>6. MainTyped'
      <3>1. JobTyped' /\ ScratchTyped' /\ outcome'.result = "none"
        BY <1>1, <1>7 DEF MainTyped, JobTyped, ScratchTyped
      <3>2. ThreadTyped'
        <4>1. main.input \in Seq(Pair)
          BY <1>1 DEF MainTyped, ThreadTyped
        <4>2. run \in Seq(Pair)
          BY <2>3
        <4> QED
          BY ONLY <2>5, <4>1, <4>2 DEF ThreadTyped
      <3> QED
        BY <3>1, <3>2 DEF MainTyped
    <2>7. Keys' = Keys /\ KeyHash' = KeyHash /\ ~ InFiles'
      BY <1>7 DEF Keys, KeyHash, InFiles
    <2>8. Reading' /\ Faultless' /\ HasAll'
      BY <1>7, <2>3, <2>5, <2>7 DEF Reading, Faultless, HasAll, Has
    <2>9. AllCounted' /\ ErrorsSurface' /\ PublishesTheKeys'
      BY <1>1, <1>7, <2>5, <2>7 DEF AllCounted, ErrorsSurface, PublishesTheKeys
    <2>10. ClaimedOnce' /\ MergedWhole' /\ HashBuilt' /\ ScansOK' /\ RangeTyped' /\ Locked' /\ Filed'
           /\ FailedForFault' /\ AllSent'
      BY <2>5 DEF ClaimedOnce, MergedWhole, HashBuilt, ScansOK, RangeTyped, Locked, Filed, FailedForFault,
         AllSent, Sends
    <2> QED
      BY <2>6, <2>8, <2>9, <2>10 DEF CInv
  <1>8. ASSUME ~ job.fails, scratch.runs # <<>>, NEW files,
               files = IF main.run = <<>> THEN scratch ELSE Spilled(main.run),
               main' = [main EXCEPT !.at = "merge", !.run = <<>>],
               scratch' = [files EXCEPT !.cuts = CutsOf(files.runs)],
               merger' = [w \in 1 .. job.budget.threads |-> [at |-> "claim", t |-> 0, n |-> 0, same |-> 0]],
               UNCHANGED <<job, scanner, range, outcome>>
        PROVE  CInv'
    <2>1. /\ files = [dir |-> files.dir, runs |-> files.runs, cuts |-> files.cuts, merged |-> <<>>, next |-> 1]
          /\ files.runs \in Seq(Seq(Pair)) /\ files.runs # <<>>
          /\ UNION {ToSet(files.runs[i]) : i \in DOMAIN files.runs} = Keys
      <3>1. CASE main.run = <<>>
        <4>1. ToSet(main.run) = {}
          BY <3>1 DEF ToSet
        <4> QED
          BY <1>1, <1>3, <1>8, <3>1, <4>1 DEF MainTyped, ScratchTyped, AllRuns
      <3>2. CASE main.run # <<>>
        <4>1. WithRun(Spilled(main.run), main.run)
          BY <1>1, <1>4, SpilledIs
        <4> QED
          BY <1>3, <1>8, <3>2, <4>1 DEF WithRun
      <3> QED
        BY <3>1, <3>2
    <2>2. scratch' = [dir |-> files.dir, runs |-> files.runs, cuts |-> CutsOf(files.runs), merged |-> <<>>, next |-> 1]
      BY <1>8, <2>1
    <2>3. CutsRight(CutsOf(files.runs))
      BY CutsAreRight
    <2>4. main' = [at |-> "merge", input |-> main.input, run |-> <<>>, faults |-> 0, n |-> main.n,
                   m |-> main.m, mph |-> main.mph, side |-> main.side]
      BY <1>1, <1>8 DEF MainTyped, ThreadTyped
    <2>5. MainTyped'
      <3>1. JobTyped' /\ outcome'.result = "none"
        BY <1>1, <1>8 DEF MainTyped, JobTyped
      <3>2. ThreadTyped'
        BY <1>1, <2>4 DEF MainTyped, ThreadTyped
      <3>3. ScratchTyped'
        BY <2>1, <2>2 DEF ScratchTyped
      <3> QED
        BY <3>1, <3>2, <3>3 DEF MainTyped
    <2>6. Keys' = Keys /\ AllRuns' = Keys /\ InFiles'
      BY <1>8, <2>1, <2>2 DEF Keys, AllRuns, InFiles
    <2>7. Reading' /\ Faultless' /\ HasAll'
      <3>1. Reading' /\ Faultless'
        BY <2>4 DEF Reading, Faultless
      <3>2. CutsRight(scratch.cuts)'
        BY <2>2, <2>3 DEF CutsRight
      <3>3. ~ job'.fails
        BY <1>8
      <3> QED
        BY <2>6, <3>1, <3>2, <3>3 DEF HasAll
    <2>8. job.budget.threads \in Nat
      BY <1>1 DEF MainTyped, JobTyped
    <2>9. ClaimedOnce'
      <3>1. /\ DOMAIN merger' = 1 .. job'.budget.threads
            /\ \A w \in DOMAIN merger' : merger'[w].at = "claim"
            /\ merger' \in [1 .. job'.budget.threads -> MergeStates]
        BY <1>8 DEF MergeStates
      <3>2. DOMAIN scratch'.merged = {} /\ scratch'.next = 1
        BY <2>2
      <3>3. {t \in 1 .. Paths' : t < scratch'.next /\ \A w \in DOMAIN merger' : Merging(w)' => merger'[w].t # t} = {}
        BY <3>2
      <3>4. \A w \in DOMAIN merger' : ~ Merging(w)' /\ merger'[w].at # "done" /\ merger'[w].at # "failed"
        BY <3>1 DEF Merging
      <3> QED
        BY <3>1, <3>2, <3>3, <3>4 DEF ClaimedOnce, MergersFine
    <2>10. MergedWhole'
      <3>1. DOMAIN scratch'.merged = {} /\ scratch'.merged = <<>>
        BY <2>2
      <3>2. scratch'.merged = [t \in DOMAIN scratch'.merged |-> Sorted(PairsOfRange(t)')]
        BY <3>1
      <3>3. MergedPairs' = {}
        BY <3>1 DEF MergedPairs
      <3>4. HashesOf({}) = {} /\ Cardinality({}) = 0
        BY FS_EmptySet DEF HashesOf
      <3>5. PICK k : k = job.budget.threads
        OBVIOUS
      <3>6. DOMAIN merger' = 1 .. k /\ \A w \in 1 .. k : merger'[w].n = 0 /\ merger'[w].same = 0
        BY <1>8, <3>5
      <3>7. PICK f : f = [w \in DOMAIN merger' |-> merger'[w].n]
        OBVIOUS
      <3>8. PICK g : g = [w \in DOMAIN merger' |-> merger'[w].same]
        OBVIOUS
      <3>9. k \in Nat /\ f \in [1 .. k -> Nat] /\ g \in [1 .. k -> Nat] /\ \A w \in 1 .. k : f[w] = 0 /\ g[w] = 0
        BY <2>8, <3>5, <3>6, <3>7, <3>8
      <3>10. Sum(f) = 0 /\ Sum(g) = 0
        BY ONLY <3>9, SumOfNone
      <3>11. Written_n' = 0 /\ Written_same' = 0
        BY <3>7, <3>8, <3>10 DEF Written_n, Written_same
      <3> QED
        BY <3>2, <3>3, <3>4, <3>11 DEF MergedWhole
    <2>11. AllCounted' /\ HashBuilt' /\ ScansOK' /\ RangeTyped' /\ Locked' /\ Filed' /\ FailedForFault' /\ AllSent'
      BY <2>4 DEF AllCounted, HashBuilt, ScansOK, RangeTyped, Locked, Filed, FailedForFault, AllSent, Counted, Sends
    <2>12. ErrorsSurface' /\ PublishesTheKeys'
      BY <1>1, <1>8 DEF ErrorsSurface, PublishesTheKeys
    <2> QED
      BY <2>5, <2>7, <2>9, <2>10, <2>11, <2>12 DEF CInv
  <1> QED
    BY <1>5, <1>6, <1>7, <1>8 DEF EndOfKeys

-------------------------------------------------------------------------------
(* The merge. *)

RangeParts == [t \in 1 .. Paths |-> PairsOfRange(t)]

\* The runs' pairs by the ranges of the cuts.
LEMMA RangesOfRuns ==
    ASSUME MainTyped, HasAll, Has, InFiles
    PROVE  /\ Parts(RangeParts, Paths) /\ Whole(RangeParts, Paths) = Keys
           /\ Keys \subseteq Pair /\ Paths \in Nat /\ Paths > 0
  <1>1. Keys = AllRuns /\ CutsRight(scratch.cuts)
    BY DEF HasAll
  <1>2. Keys \subseteq Pair
    <2>1. job.keys \in Seq(Pair)
      BY DEF MainTyped, JobTyped
    <2>2. PICK s : s = job.keys
      OBVIOUS
    <2>3. \A x \in ToSet(s) : x \in Pair
      BY ONLY <2>1, <2>2, SeqIs
    <2> QED
      BY ONLY <2>2, <2>3 DEF Keys
  <1>3. Paths \in Nat /\ Paths > 0
    BY <1>1 DEF CutsRight, Paths
  <1>4. \A t : PairsOfRange(t) = PartOf(scratch.cuts, Keys, t)
    BY <1>1 DEF PairsOfRange, PartOf, AllRuns
  <1>5. RangeParts = PartsOf(scratch.cuts, Keys)
    BY <1>4 DEF RangeParts, PartsOf, Paths
  <1> QED
    BY <1>1, <1>2, <1>3, <1>5, RangesPart DEF Paths

\* Pairs of two sets without a hash in common: they and their hashes add up.
LEMMA ApartAdd ==
    ASSUME NEW A, NEW B, A \subseteq Pair, B \subseteq Pair, \A p \in A, q \in B : p[1] # q[1]
    PROVE  /\ Cardinality(A) \in Nat /\ Cardinality(B) \in Nat /\ Cardinality(A \cup B) = Cardinality(A) + Cardinality(B)
           /\ Cardinality(HashesOf(A)) \in Nat /\ Cardinality(HashesOf(B)) \in Nat
           /\ Cardinality(HashesOf(A \cup B)) = Cardinality(HashesOf(A)) + Cardinality(HashesOf(B))
  <1>1. IsFiniteSet(A) /\ IsFiniteSet(B)
    BY PairsOrdered, FS_Subset
  <1>2. A \cap B = {}
    OBVIOUS
  <1>3. IsFiniteSet(HashesOf(A)) /\ IsFiniteSet(HashesOf(B))
    BY HashesCounted
  <1>4. HashesOf(A) \cap HashesOf(B) = {} /\ HashesOf(A \cup B) = HashesOf(A) \cup HashesOf(B)
    BY DEF HashesOf
  <1>5. \A S, T : IsFiniteSet(S) /\ IsFiniteSet(T) /\ S \cap T = {} =>
                    /\ Cardinality(S) \in Nat /\ Cardinality(T) \in Nat
                    /\ Cardinality(S \cup T) = Cardinality(S) + Cardinality(T)
    <2> TAKE S, T
    <2> HAVE IsFiniteSet(S) /\ IsFiniteSet(T) /\ S \cap T = {}
    <2>0. S \cap T = {}
      OBVIOUS
    <2>1. Cardinality({}) = 0
      BY FS_EmptySet
    <2>2. Cardinality(S) \in Nat /\ Cardinality(T) \in Nat
      BY FS_CardinalityType
    <2>3. Cardinality(S \cup T) = Cardinality(S) + Cardinality(T) - Cardinality(S \cap T)
      BY FS_Union
    <2>4. PICK C : C = S \cap T
      OBVIOUS
    <2>5. C = {}
      BY ONLY <2>0, <2>4
    <2>6. Cardinality(S \cup T) = Cardinality(S) + Cardinality(T) - 0
      BY ONLY <2>1, <2>3, <2>4, <2>5
    <2> QED
      BY ONLY <2>2, <2>6
  <1>6. PICK G, H, GH : G = HashesOf(A) /\ H = HashesOf(B) /\ GH = HashesOf(A \cup B)
    OBVIOUS
  <1>7. IsFiniteSet(G) /\ IsFiniteSet(H) /\ G \cap H = {} /\ GH = G \cup H
    BY ONLY <1>3, <1>4, <1>6
  <1>8. Cardinality(G) \in Nat /\ Cardinality(H) \in Nat /\ Cardinality(GH) = Cardinality(G) + Cardinality(H)
    BY ONLY <1>5, <1>7
  <1>9. Cardinality(A) \in Nat /\ Cardinality(B) \in Nat /\ Cardinality(A \cup B) = Cardinality(A) + Cardinality(B)
    BY ONLY <1>1, <1>2, <1>5
  <1> QED
    BY ONLY <1>6, <1>8, <1>9

\* A step of a merge thread leaves the rest of the build as it is.
LEMMA MergeFrame ==
    ASSUME CInv, main.at = "merge", main' = [main EXCEPT !.faults = main'.faults], main'.faults \in Nat,
           scratch' = [scratch EXCEPT !.next = scratch'.next, !.merged = scratch'.merged],
           scratch'.next \in Nat \ {0}, UNCHANGED <<job, scanner, range, outcome>>
    PROVE  /\ MainTyped' /\ Reading' /\ HasAll' /\ AllCounted' /\ HashBuilt' /\ ScansOK' /\ RangeTyped'
           /\ Locked' /\ Filed' /\ FailedForFault' /\ AllSent' /\ PublishesTheKeys' /\ ErrorsSurface'
           /\ main'.at = "merge" /\ Paths' = Paths /\ InFiles /\ \A t : PairsOfRange(t)' = PairsOfRange(t)
  <1>1. MainTyped /\ HasAll
    BY DEF CInv
  <1>2. /\ main' = [at |-> "merge", input |-> main.input, run |-> main.run, faults |-> main'.faults, n |-> main.n,
                    m |-> main.m, mph |-> main.mph, side |-> main.side]
        /\ scratch' = [dir |-> scratch.dir, runs |-> scratch.runs, cuts |-> scratch.cuts, merged |-> scratch'.merged,
                       next |-> scratch'.next]
        /\ outcome'.result = "none"
    BY <1>1 DEF MainTyped, ThreadTyped, ScratchTyped
  <1>3. MainTyped'
    <2>1. JobTyped'
      BY <1>1 DEF MainTyped, JobTyped
    <2>2. ThreadTyped'
      BY <1>1, <1>2 DEF MainTyped, ThreadTyped
    <2>3. ScratchTyped'
      BY <1>1, <1>2 DEF MainTyped, ScratchTyped
    <2> QED
      BY <1>2, <2>1, <2>2, <2>3 DEF MainTyped
  <1>4. Reading'
    BY <1>2 DEF Reading
  <1>5. Paths' = Paths /\ InFiles' = InFiles /\ AllRuns' = AllRuns /\ Keys' = Keys
        /\ CutsRight(scratch.cuts)' = CutsRight(scratch.cuts) /\ \A t : PairsOfRange(t)' = PairsOfRange(t)
    BY <1>2 DEF Paths, InFiles, AllRuns, Keys, CutsRight, PairsOfRange
  <1>6. InFiles /\ ~ job.fails /\ Keys = AllRuns /\ CutsRight(scratch.cuts)
    BY <1>1 DEF HasAll, Has
  <1>7. HasAll'
    BY <1>5, <1>6 DEF HasAll
  <1>8. AllCounted' /\ HashBuilt' /\ ScansOK' /\ RangeTyped' /\ Locked' /\ Filed' /\ FailedForFault' /\ AllSent'
    BY <1>2 DEF AllCounted, HashBuilt, ScansOK, RangeTyped, Locked, Filed, FailedForFault, AllSent, Counted, Sends
  <1>9. ErrorsSurface' /\ PublishesTheKeys'
    BY <1>2 DEF ErrorsSurface, PublishesTheKeys
  <1> QED
    BY <1>2, <1>3, <1>4, <1>5, <1>6, <1>7, <1>8, <1>9

\* A thread claims the next range, or is done.
LEMMA ClaimKeeps ==
    ASSUME CInv, NEW w \in DOMAIN merger, Claim(w)
    PROVE  CInv'
  <1>1. /\ main.at = "merge" /\ merger[w].at = "claim" /\ MainTyped /\ ClaimedOnce /\ MergedWhole /\ Faultless
        /\ main' = main /\ UNCHANGED <<job, scanner, range, outcome>>
    BY DEF CInv, Claim
  <1>2. PICK k, n : k = job.budget.threads /\ n = scratch.next
    OBVIOUS
  <1>3. /\ n \in Nat \ {0} /\ scratch' = [scratch EXCEPT !.next = n + 1]
        /\ scratch' = [dir |-> scratch.dir, runs |-> scratch.runs, cuts |-> scratch.cuts, merged |-> scratch.merged,
                       next |-> n + 1]
    BY <1>1, <1>2 DEF MainTyped, ScratchTyped, Claim
  <1>4. /\ main' = [main EXCEPT !.faults = main'.faults] /\ main'.faults \in Nat
        /\ scratch' = [scratch EXCEPT !.next = scratch'.next, !.merged = scratch'.merged]
        /\ scratch'.next \in Nat \ {0}
    <2>1. main' = [main EXCEPT !.faults = main.faults] /\ main.faults \in Nat
      BY <1>1 DEF MainTyped, ThreadTyped
    <2>2. scratch' = [scratch EXCEPT !.next = n + 1, !.merged = scratch.merged]
      BY <1>1, <1>3 DEF MainTyped, ScratchTyped
    <2>3. scratch'.next = n + 1 /\ scratch'.merged = scratch.merged /\ n + 1 \in Nat \ {0}
      BY <1>3
    <2> QED
      BY <1>1, <2>1, <2>2, <2>3
  <1>5. /\ MainTyped' /\ Reading' /\ HasAll' /\ AllCounted' /\ HashBuilt' /\ ScansOK' /\ RangeTyped'
        /\ Locked' /\ Filed' /\ FailedForFault' /\ AllSent' /\ PublishesTheKeys' /\ ErrorsSurface'
        /\ main'.at = "merge" /\ Paths' = Paths /\ InFiles /\ \A t : PairsOfRange(t)' = PairsOfRange(t)
    BY ONLY CInv, <1>1, <1>4, MergeFrame
  <1>6. Paths \in Nat
    <2>1. HasAll /\ Has
      BY <1>1 DEF CInv, Has
    <2> QED
      BY <1>1, <1>5, <2>1, RangesOfRuns
  <1>7. PICK m, mm : m = merger /\ mm = merger'
    OBVIOUS
  <1>8. /\ m \in [1 .. k -> MergeStates] /\ DOMAIN m = 1 .. k /\ w \in 1 .. k
        /\ mm \in [1 .. k -> MergeStates] /\ DOMAIN mm = 1 .. k
        /\ \A v \in 1 .. k : v # w => mm[v] = m[v]
        /\ mm[w].at = (IF n <= Paths THEN "merge" ELSE "done") /\ mm[w].t = n
        /\ mm[w].n = m[w].n /\ mm[w].same = m[w].same
    <2>1. m \in [1 .. k -> MergeStates] /\ DOMAIN m = 1 .. k /\ w \in 1 .. k
      BY <1>1, <1>2, <1>7 DEF ClaimedOnce
    <2>2. mm = [m EXCEPT ![w].at = IF n <= Paths THEN "merge" ELSE "done", ![w].t = n]
      BY <1>2, <1>7 DEF Claim
    <2>3. PICK a : a = IF n <= Paths THEN "merge" ELSE "done"
      OBVIOUS
    <2>4. a \in {"merge", "done"} /\ n \in Nat
      BY <1>3, <2>3
    <2>5. mm = [m EXCEPT ![w] = [m[w] EXCEPT !.at = a, !.t = n]]
      BY <2>1, <2>2, <2>3
    <2>6. [m[w] EXCEPT !.at = a, !.t = n] \in MergeStates
      BY <2>1, <2>4 DEF MergeStates
    <2>7. /\ mm \in [1 .. k -> MergeStates] /\ DOMAIN mm = 1 .. k
          /\ \A v \in 1 .. k : v # w => mm[v] = m[v]
          /\ mm[w] = [m[w] EXCEPT !.at = a, !.t = n]
      BY <2>1, <2>5, <2>6
    <2>8. mm[w].at = a /\ mm[w].t = n /\ mm[w].n = m[w].n /\ mm[w].same = m[w].same
      BY <2>1, <2>7 DEF MergeStates
    <2> QED
      BY <2>1, <2>3, <2>7, <2>8
  <1>9. ClaimedOnce'
    <2>1. /\ \A v \in 1 .. k : m[v].at = "merge" => m[v].t \in 1 .. Paths /\ m[v].t < n
          /\ \A v, u \in 1 .. k : m[v].at = "merge" /\ m[u].at = "merge" /\ m[v].t = m[u].t => v = u
          /\ \A v \in 1 .. k : m[v].at = "done" => n > Paths
          /\ DOMAIN scratch.merged = {t \in 1 .. Paths : t < n /\ \A v \in 1 .. k : m[v].at = "merge" => m[v].t # t}
          /\ (\E v \in 1 .. k : m[v].at = "failed") => main.faults > 0
          /\ m[w].at = "claim"
      BY <1>1, <1>2, <1>7, <1>8 DEF ClaimedOnce, Merging, MergersFine
    <2>2. \A v \in 1 .. k : mm[v].at = "merge" => mm[v].t \in 1 .. Paths /\ mm[v].t < n + 1
      BY <1>3, <1>6, <1>8, <2>1
    <2>3. \A v, u \in 1 .. k : mm[v].at = "merge" /\ mm[u].at = "merge" /\ mm[v].t = mm[u].t => v = u
      BY <1>3, <1>6, <1>8, <2>1
    <2>4. \A v \in 1 .. k : mm[v].at = "done" => n + 1 > Paths
      BY <1>3, <1>6, <1>8, <2>1
    <2>5. \A t \in 1 .. Paths : (t < n /\ \A v \in 1 .. k : m[v].at = "merge" => m[v].t # t)
                                  <=> (t < n + 1 /\ \A v \in 1 .. k : mm[v].at = "merge" => mm[v].t # t)
      BY <1>3, <1>6, <1>8, <2>1
    <2>6. (\E v \in 1 .. k : mm[v].at = "failed") => main.faults > 0
      BY <1>8, <2>1
    <2>7. scratch'.next = n + 1 /\ scratch'.merged = scratch.merged /\ job'.budget.threads = k
      BY <1>1, <1>2, <1>3
    <2>8. DOMAIN scratch'.merged = {t \in 1 .. Paths : t < n + 1 /\ \A v \in 1 .. k : mm[v].at = "merge" => mm[v].t # t}
      BY <2>1, <2>5, <2>7
    <2> QED
      BY <1>1, <1>5, <1>7, <1>8, <2>2, <2>3, <2>4, <2>6, <2>7, <2>8 DEF ClaimedOnce, Merging, MergersFine
  <1>10. MergersFine' => MergersFine
    BY <1>1, <1>7, <1>8 DEF MergersFine
  <1>11. MergedWhole'
    <2>1. MergedPairs' = MergedPairs /\ scratch'.merged = scratch.merged
      BY <1>3, <1>5 DEF MergedPairs
    <2>2. [v \in DOMAIN mm |-> mm[v].n] = [v \in DOMAIN m |-> m[v].n]
          /\ [v \in DOMAIN mm |-> mm[v].same] = [v \in DOMAIN m |-> m[v].same]
      BY <1>8
    <2>3. Written_n' = Written_n /\ Written_same' = Written_same
      BY <1>7, <2>2 DEF Written_n, Written_same
    <2> QED
      BY <1>1, <1>5, <1>10, <2>1, <2>3 DEF MergedWhole
  <1>12. Faultless'
    BY <1>1, <1>5, <1>10 DEF Faultless
  <1> QED
    BY <1>5, <1>9, <1>11, <1>12 DEF CInv

\* A thread that has merged its range, or failed to, has it no more.
LEMMA RangeDone ==
    ASSUME CInv, main.at = "merge", NEW w \in DOMAIN merger, Merging(w),
           UNCHANGED <<job, scratch.next>>, Paths' = Paths,
           DOMAIN scratch'.merged = DOMAIN scratch.merged \cup {merger[w].t},
           NEW st \in MergeStates, st.at \in {"claim", "failed"}, merger' = [merger EXCEPT ![w] = st],
           main'.faults \in Nat, main'.faults >= main.faults, st.at = "failed" => main'.faults > 0
    PROVE  ClaimedOnce'
  <1>1. MainTyped /\ ClaimedOnce
    BY DEF CInv
  <1>2. PICK k, n, m, mm : k = job.budget.threads /\ n = scratch.next /\ m = merger /\ mm = merger'
    OBVIOUS
  <1>3. /\ m \in [1 .. k -> MergeStates] /\ DOMAIN m = 1 .. k /\ w \in 1 .. k
        /\ mm \in [1 .. k -> MergeStates] /\ DOMAIN mm = 1 .. k
        /\ mm[w] = st /\ \A v \in 1 .. k : v # w => mm[v] = m[v]
    <2>1. m \in [1 .. k -> MergeStates] /\ DOMAIN m = 1 .. k /\ w \in 1 .. k
      BY <1>1, <1>2 DEF ClaimedOnce
    <2>2. mm = [m EXCEPT ![w] = st]
      BY <1>2
    <2> QED
      BY ONLY <2>1, <2>2, st \in MergeStates
  <1>4. /\ \A v \in 1 .. k : m[v].at = "merge" => m[v].t \in 1 .. Paths /\ m[v].t < n
        /\ \A v, u \in 1 .. k : m[v].at = "merge" /\ m[u].at = "merge" /\ m[v].t = m[u].t => v = u
        /\ \A v \in 1 .. k : m[v].at = "done" => n > Paths
        /\ DOMAIN scratch.merged = {t \in 1 .. Paths : t < n /\ \A v \in 1 .. k : m[v].at = "merge" => m[v].t # t}
        /\ (\E v \in 1 .. k : m[v].at = "failed") => main.faults > 0
        /\ m[w].at = "merge"
    BY <1>1, <1>2, <1>3 DEF ClaimedOnce, Merging, MergersFine
  <1>5. \A v \in 1 .. k : mm[v].at = "merge" => mm[v].t \in 1 .. Paths /\ mm[v].t < n
    BY <1>3, <1>4
  <1>6. \A v, u \in 1 .. k : mm[v].at = "merge" /\ mm[u].at = "merge" /\ mm[v].t = mm[u].t => v = u
    BY <1>3, <1>4
  <1>7. \A v \in 1 .. k : mm[v].at = "done" => n > Paths
    BY <1>3, <1>4
  <1>8. \A t \in 1 .. Paths : (t < n /\ \A v \in 1 .. k : mm[v].at = "merge" => mm[v].t # t)
                                <=> (t < n /\ \A v \in 1 .. k : m[v].at = "merge" => m[v].t # t) \/ t = m[w].t
    BY <1>3, <1>4
  <1>9. (\E v \in 1 .. k : mm[v].at = "failed") => main'.faults > 0
    <2> SUFFICES ASSUME NEW v \in 1 .. k, mm[v].at = "failed" PROVE main'.faults > 0
      OBVIOUS
    <2>1. CASE v = w
      BY <1>3, <2>1
    <2>2. CASE v # w
      <3>1. main.faults > 0 /\ main.faults \in Nat
        BY <1>1, <1>3, <1>4, <2>2 DEF MainTyped, ThreadTyped
      <3> QED
        BY <3>1
    <2> QED
      BY <2>1, <2>2
  <1>10. PICK D, DD : D = DOMAIN scratch.merged /\ DD = DOMAIN scratch'.merged
    OBVIOUS
  <1>11. DD = D \cup {m[w].t} /\ m[w].t \in 1 .. Paths
    BY <1>2, <1>3, <1>4, <1>10
  <1>12. D = {t \in 1 .. Paths : t < n /\ \A v \in 1 .. k : m[v].at = "merge" => m[v].t # t}
    BY <1>4, <1>10
  <1>13. DD = {t \in 1 .. Paths : t < n /\ \A v \in 1 .. k : mm[v].at = "merge" => mm[v].t # t}
    BY ONLY <1>8, <1>11, <1>12
  <1>14. \A v \in 1 .. k : mm[v] \in MergeStates
    BY <1>3
  <1> QED
    BY <1>1, <1>2, <1>3, <1>5, <1>6, <1>7, <1>9, <1>10, <1>13 DEF ClaimedOnce, Merging, MergersFine

\* A thread merges its range.
LEMMA MergeRangeKeeps ==
    ASSUME CInv, NEW w \in DOMAIN merger, MergeRange(w)
    PROVE  CInv'
  <1>1. /\ main.at = "merge" /\ Merging(w) /\ MainTyped /\ ClaimedOnce /\ MergedWhole /\ Faultless
        /\ main' = main /\ UNCHANGED <<job, scanner, range, outcome>>
    BY DEF CInv, MergeRange, Merging
  <1>2. PICK t, s, P, mgd : t = merger[w].t /\ P = PairsOfRange(t) /\ s = Sorted(P) /\ mgd = MergedWith(t, s)
    OBVIOUS
  <1>3. PICK k, m, mm : k = job.budget.threads /\ m = merger /\ mm = merger'
    OBVIOUS
  <1>4. PICK f : f = Cardinality(Followers(s))
    OBVIOUS
  <1>5. scratch' = [scratch EXCEPT !.merged = mgd]
        /\ mm = [m EXCEPT ![w].at = "claim", ![w].n = @ + Len(s), ![w].same = @ + f]
    BY <1>1, <1>2, <1>3, <1>4 DEF MergeRange
  <1>6. /\ main' = [main EXCEPT !.faults = main'.faults] /\ main'.faults \in Nat
        /\ scratch' = [scratch EXCEPT !.next = scratch'.next, !.merged = scratch'.merged]
        /\ scratch'.next \in Nat \ {0} /\ scratch'.merged = mgd /\ scratch'.next = scratch.next
    <2>1. main' = [main EXCEPT !.faults = main.faults] /\ main.faults \in Nat
      BY <1>1 DEF MainTyped, ThreadTyped
    <2>2. scratch' = [scratch EXCEPT !.next = scratch.next, !.merged = mgd] /\ scratch.next \in Nat \ {0}
      BY <1>1, <1>5 DEF MainTyped, ScratchTyped
    <2>3. scratch'.next = scratch.next /\ scratch'.merged = mgd
      BY <1>1, <1>5 DEF MainTyped, ScratchTyped
    <2> QED
      BY <1>1, <2>1, <2>2, <2>3
  <1>7. /\ MainTyped' /\ Reading' /\ HasAll' /\ AllCounted' /\ HashBuilt' /\ ScansOK' /\ RangeTyped'
        /\ Locked' /\ Filed' /\ FailedForFault' /\ AllSent' /\ PublishesTheKeys' /\ ErrorsSurface'
        /\ main'.at = "merge" /\ Paths' = Paths /\ InFiles /\ \A u : PairsOfRange(u)' = PairsOfRange(u)
    BY ONLY CInv, <1>1, <1>6, MergeFrame
  <1>8. Parts(RangeParts, Paths) /\ Paths \in Nat
    <2>1. HasAll /\ Has
      BY <1>1 DEF CInv, Has
    <2> QED
      BY <1>1, <1>7, <2>1, RangesOfRuns
  <1>9. /\ m \in [1 .. k -> MergeStates] /\ DOMAIN m = 1 .. k /\ w \in 1 .. k /\ t \in 1 .. Paths
        /\ DOMAIN scratch.merged = {u \in 1 .. Paths : u < scratch.next /\ \A v \in 1 .. k :
                                                           m[v].at = "merge" => m[v].t # u}
        /\ m[w].at = "merge" /\ m[w].t = t
    BY <1>1, <1>2, <1>3 DEF ClaimedOnce, Merging
  <1>10. t \notin DOMAIN scratch.merged /\ DOMAIN scratch.merged \subseteq 1 .. Paths
    BY <1>9
  <1>11. /\ \A u \in 1 .. Paths : PairsOfRange(u) \subseteq Pair
         /\ \A u, v \in 1 .. Paths : u # v => \A p \in PairsOfRange(u), q \in PairsOfRange(v) : p[1] # q[1]
    <2>1. \A u \in 1 .. Paths : RangeParts[u] = PairsOfRange(u) /\ RangeParts[u] \subseteq Pair
      BY <1>8 DEF Parts, RangeParts
    <2>2. \A u, v \in 1 .. Paths : u < v => HashesBelow(RangeParts[u], RangeParts[v])
      BY <1>8 DEF Parts
    <2>3. ASSUME NEW u \in 1 .. Paths, NEW v \in 1 .. Paths, u # v,
                 NEW p \in PairsOfRange(u), NEW q \in PairsOfRange(v)
          PROVE  p[1] # q[1]
      <3>1. p[1] \in Int /\ q[1] \in Int
        BY <2>1, <2>3, PairsOrdered
      <3>2. p \in RangeParts[u] /\ q \in RangeParts[v]
        BY <2>1, <2>3
      <3>3. CASE u < v
        <4>1. p[1] < q[1]
          BY <2>2, <3>2, <3>3 DEF HashesBelow
        <4> QED
          BY <3>1, <4>1
      <3>4. CASE v < u
        <4>1. q[1] < p[1]
          BY <2>2, <3>2, <3>4 DEF HashesBelow
        <4> QED
          BY <3>1, <4>1
      <3> QED
        BY <1>8, <2>3, <3>3, <3>4
    <2> QED
      BY <2>1, <2>3
  <1>12. /\ P \subseteq Pair /\ Len(s) = Cardinality(P) /\ Len(s) \in Nat
         /\ f = Cardinality(P) - Cardinality(HashesOf(P)) /\ f \in Nat
    <2>1. P \subseteq Pair
      BY <1>2, <1>9, <1>11
    <2>2. Len(s) = Cardinality(P) /\ Len(s) \in Nat
      BY <1>2, <2>1, SortedIs
    <2>3. f = Cardinality(P) - Cardinality(HashesOf(P)) /\ f \in Nat
      BY <1>2, <1>4, <2>1, FollowersCounted
    <2> QED
      BY <2>1, <2>2, <2>3
  <1>13. DOMAIN mgd = DOMAIN scratch.merged \cup {t} /\ mgd[t] = s
         /\ \A u \in DOMAIN scratch.merged : mgd[u] = scratch.merged[u]
    BY <1>2, <1>10 DEF MergedWith
  <1>14. PICK st : st = [m[w] EXCEPT !.at = "claim", !.n = @ + Len(s), !.same = @ + f]
    OBVIOUS
  <1>15. /\ st \in MergeStates /\ st.at = "claim" /\ st.n = m[w].n + Len(s) /\ st.same = m[w].same + f
         /\ m[w] \in MergeStates
    <2>1. m[w] \in MergeStates
      BY ONLY <1>9
    <2>2. PICK a, b : a = m[w].n + Len(s) /\ b = m[w].same + f
      OBVIOUS
    <2>3. a \in Nat /\ b \in Nat
      BY ONLY <1>12, <2>1, <2>2 DEF MergeStates
    <2>4. st = [m[w] EXCEPT !.at = "claim", !.n = a, !.same = b]
      BY ONLY <1>14, <2>2
    <2>5. st \in MergeStates /\ st.at = "claim" /\ st.n = a /\ st.same = b
      BY ONLY <2>1, <2>3, <2>4 DEF MergeStates
    <2> QED
      BY ONLY <2>1, <2>2, <2>5
  <1>16. mm = [m EXCEPT ![w] = st]
    <2>1. PICK a, b : a = m[w].n + Len(s) /\ b = m[w].same + f
      OBVIOUS
    <2>2. mm = [m EXCEPT ![w].at = "claim", ![w].n = a, ![w].same = b]
      BY ONLY <1>5, <1>9, <2>1
    <2>3. st = [m[w] EXCEPT !.at = "claim", !.n = a, !.same = b]
      BY ONLY <1>14, <2>1
    <2> QED
      BY ONLY <1>9, <2>2, <2>3
  <1>17. ClaimedOnce'
    <2>1. st.at \in {"claim", "failed"} /\ main'.faults >= main.faults /\ (st.at = "failed" => main'.faults > 0)
      BY <1>1, <1>6, <1>15
    <2>2. DOMAIN scratch'.merged = DOMAIN scratch.merged \cup {merger[w].t} /\ UNCHANGED <<job, scratch.next>>
      BY <1>1, <1>2, <1>6, <1>13
    <2>3. merger' = [merger EXCEPT ![w] = st]
      BY <1>3, <1>16
    <2> QED
      BY ONLY CInv, w \in DOMAIN merger, <1>1, <1>6, <1>7, <1>15, <2>1, <2>2, <2>3, RangeDone
  <1>18. /\ mm \in [1 .. k -> MergeStates] /\ DOMAIN mm = 1 .. k
         /\ mm[w] = st /\ \A v \in 1 .. k : v # w => mm[v] = m[v]
    BY ONLY <1>9, <1>15, <1>16
  <1>19. MergersFine' => MergersFine
    BY <1>3, <1>9, <1>18 DEF MergersFine
  <1>20. MergedWhole'
    <2> SUFFICES ASSUME MergersFine
                 PROVE  /\ mgd = [u \in DOMAIN mgd |-> Sorted(PairsOfRange(u))]
                        /\ Written_n' = Cardinality(MergedPairs')
                        /\ Written_same' = Cardinality(MergedPairs') - Cardinality(HashesOf(MergedPairs'))
      BY <1>6, <1>7, <1>19 DEF MergedWhole
    <2>1. /\ scratch.merged = [u \in DOMAIN scratch.merged |-> Sorted(PairsOfRange(u))]
          /\ Written_n = Cardinality(MergedPairs)
          /\ Written_same = Cardinality(MergedPairs) - Cardinality(HashesOf(MergedPairs))
      BY <1>1 DEF MergedWhole
    <2>2. mgd = [u \in DOMAIN mgd |-> Sorted(PairsOfRange(u))]
      <3>1. \A u \in DOMAIN mgd : mgd[u] = Sorted(PairsOfRange(u))
        BY <1>2, <1>13, <2>1
      <3>2. mgd = [u \in DOMAIN mgd |-> mgd[u]]
        BY <1>2 DEF MergedWith
      <3> QED
        BY <3>1, <3>2
    <2>3. PICK A, AA : A = MergedPairs /\ AA = MergedPairs'
      OBVIOUS
    <2>4. AA = A \cup P
      <3>1. AA = UNION {PairsOfRange(u) : u \in DOMAIN mgd}
        BY <1>6, <1>7, <2>3 DEF MergedPairs
      <3>2. A = UNION {PairsOfRange(u) : u \in DOMAIN scratch.merged}
        BY <2>3 DEF MergedPairs
      <3> QED
        BY <1>2, <1>13, <3>1, <3>2
    <2>5. \A p \in A : p \in Pair /\ \A q \in P : p[1] # q[1]
      BY <1>2, <1>9, <1>10, <1>11, <2>3 DEF MergedPairs
    <2>6. /\ Cardinality(A) \in Nat /\ Cardinality(P) \in Nat /\ Cardinality(AA) = Cardinality(A) + Cardinality(P)
          /\ Cardinality(HashesOf(A)) \in Nat /\ Cardinality(HashesOf(P)) \in Nat
          /\ Cardinality(HashesOf(AA)) = Cardinality(HashesOf(A)) + Cardinality(HashesOf(P))
      <3>1. A \subseteq Pair /\ P \subseteq Pair /\ \A p \in A, q \in P : p[1] # q[1]
        BY ONLY <1>12, <2>5
      <3> QED
        BY ONLY <2>4, <3>1, ApartAdd
    <2>7. PICK g, gg : g = [v \in 1 .. k |-> m[v].n] /\ gg = [v \in 1 .. k |-> mm[v].n]
      OBVIOUS
    <2>8. PICK e, ee : e = [v \in 1 .. k |-> m[v].same] /\ ee = [v \in 1 .. k |-> mm[v].same]
      OBVIOUS
    <2>9. \A v \in 1 .. k : m[v].n \in Nat /\ mm[v].n \in Nat /\ m[v].same \in Nat /\ mm[v].same \in Nat
      BY <1>9, <1>18 DEF MergeStates
    <2>10. /\ g \in [1 .. k -> Nat] /\ gg \in [1 .. k -> Nat] /\ gg[w] = g[w] + Len(s)
           /\ \A v \in 1 .. k : v # w => gg[v] = g[v]
      BY <1>9, <1>15, <1>18, <2>7, <2>9
    <2>11. /\ e \in [1 .. k -> Nat] /\ ee \in [1 .. k -> Nat] /\ ee[w] = e[w] + f
           /\ \A v \in 1 .. k : v # w => ee[v] = e[v]
      BY <1>9, <1>15, <1>18, <2>8, <2>9
    <2>12. k \in Nat
      BY <1>1, <1>3 DEF MainTyped, JobTyped
    <2>17. w \in 1 .. k /\ Len(s) \in Nat /\ f \in Nat
      BY <1>9, <1>12
    <2>13. Sum(gg) = Sum(g) + Len(s) /\ Sum(g) \in Nat
      <3>1. Raised(k, g, gg, w, Len(s))
        BY ONLY <2>10, <2>12, <2>17 DEF Raised, Numbers
      <3> QED
        BY ONLY <3>1, SumAdds
    <2>14. Sum(ee) = Sum(e) + f /\ Sum(e) \in Nat
      <3>1. Raised(k, e, ee, w, f)
        BY ONLY <2>11, <2>12, <2>17 DEF Raised, Numbers
      <3> QED
        BY ONLY <3>1, SumAdds
    <2>15. Written_n = Sum(g) /\ Written_n' = Sum(gg) /\ Written_same = Sum(e) /\ Written_same' = Sum(ee)
      <3>1. DOMAIN merger = 1 .. k /\ DOMAIN merger' = 1 .. k
        BY <1>3, <1>9, <1>18
      <3>2. g = [v \in DOMAIN merger |-> merger[v].n] /\ e = [v \in DOMAIN merger |-> merger[v].same]
        BY ONLY <1>3, <2>7, <2>8, <3>1
      <3>3. gg = [v \in DOMAIN merger' |-> merger'[v].n] /\ ee = [v \in DOMAIN merger' |-> merger'[v].same]
        BY ONLY <1>3, <2>7, <2>8, <3>1
      <3> QED
        BY ONLY <3>2, <3>3 DEF Written_n, Written_same
    <2>16. Written_n' = Cardinality(AA) /\ Written_same' = Cardinality(AA) - Cardinality(HashesOf(AA))
      BY <1>12, <2>1, <2>3, <2>6, <2>13, <2>14, <2>15, SMTT(30)
    <2> QED
      BY <2>2, <2>3, <2>16
  <1>21. Faultless'
    BY <1>1, <1>7, <1>19 DEF Faultless
  <1> QED
    BY <1>7, <1>17, <1>20, <1>21 DEF CInv

\* A thread fails in its range.
LEMMA MergeFailsKeeps ==
    ASSUME CInv, NEW w \in DOMAIN merger, MergeFails(w)
    PROVE  CInv'
  <1>1. /\ main.at = "merge" /\ Merging(w) /\ MainTyped /\ ClaimedOnce
        /\ main.faults \in Nat /\ UNCHANGED <<job, scanner, range, outcome>>
    BY DEF CInv, MergeFails, Merging, MainTyped, ThreadTyped
  <1>2. PICK t, mgd : t = merger[w].t /\ mgd = MergedWith(t, <<>>)
    OBVIOUS
  <1>3. PICK k, m, mm : k = job.budget.threads /\ m = merger /\ mm = merger'
    OBVIOUS
  <1>4. /\ scratch' = [scratch EXCEPT !.merged = mgd] /\ mm = [m EXCEPT ![w].at = "failed"]
        /\ main' = [main EXCEPT !.faults = main.faults + 1]
    BY <1>1, <1>2, <1>3 DEF MergeFails
  <1>5. /\ main' = [main EXCEPT !.faults = main'.faults] /\ main'.faults \in Nat /\ main'.faults = main.faults + 1
        /\ scratch' = [scratch EXCEPT !.next = scratch'.next, !.merged = scratch'.merged]
        /\ scratch'.next \in Nat \ {0} /\ scratch'.merged = mgd /\ scratch'.next = scratch.next
    <2>1. main'.faults = main.faults + 1 /\ main.faults + 1 \in Nat
      BY <1>1, <1>4 DEF MainTyped, ThreadTyped
    <2>2. scratch' = [scratch EXCEPT !.next = scratch.next, !.merged = mgd] /\ scratch.next \in Nat \ {0}
      BY <1>1, <1>4 DEF MainTyped, ScratchTyped
    <2>3. scratch'.next = scratch.next /\ scratch'.merged = mgd
      BY <1>1, <1>4 DEF MainTyped, ScratchTyped
    <2> QED
      BY <1>4, <2>1, <2>2, <2>3
  <1>6. /\ MainTyped' /\ Reading' /\ HasAll' /\ AllCounted' /\ HashBuilt' /\ ScansOK' /\ RangeTyped'
        /\ Locked' /\ Filed' /\ FailedForFault' /\ AllSent' /\ PublishesTheKeys' /\ ErrorsSurface'
        /\ main'.at = "merge" /\ Paths' = Paths /\ InFiles /\ \A u : PairsOfRange(u)' = PairsOfRange(u)
    BY ONLY CInv, <1>1, <1>5, MergeFrame
  <1>7. m \in [1 .. k -> MergeStates] /\ DOMAIN m = 1 .. k /\ w \in 1 .. k
    BY <1>1, <1>3 DEF ClaimedOnce
  <1>8. PICK st : st = [m[w] EXCEPT !.at = "failed"]
    OBVIOUS
  <1>9. st \in MergeStates /\ st.at = "failed" /\ mm = [m EXCEPT ![w] = st]
    <2>1. m[w] \in MergeStates
      BY ONLY <1>7
    <2>2. st \in MergeStates /\ st.at = "failed"
      BY ONLY <1>8, <2>1 DEF MergeStates
    <2>3. mm = [m EXCEPT ![w] = st]
      BY ONLY <1>4, <1>7, <1>8
    <2> QED
      BY <2>2, <2>3
  <1>10. ClaimedOnce'
    <2>1. st.at \in {"claim", "failed"} /\ main'.faults >= main.faults /\ main'.faults > 0
      BY <1>1, <1>5, <1>9
    <2>2. DOMAIN scratch'.merged = DOMAIN scratch.merged \cup {merger[w].t} /\ UNCHANGED <<job, scratch.next>>
      BY <1>1, <1>2, <1>5 DEF MergedWith
    <2>3. merger' = [merger EXCEPT ![w] = st]
      BY <1>3, <1>9
    <2> QED
      BY ONLY CInv, w \in DOMAIN merger, <1>1, <1>5, <1>6, <1>9, <2>1, <2>2, <2>3, RangeDone
  <1>11. ~ MergersFine'
    <2>1. w \in DOMAIN mm /\ mm[w] = st
      BY ONLY <1>7, <1>9
    <2> QED
      BY <1>3, <1>9, <2>1 DEF MergersFine
  <1>12. MergedWhole' /\ Faultless'
    BY <1>6, <1>11 DEF MergedWhole, Faultless
  <1> QED
    BY <1>6, <1>10, <1>12 DEF CInv

\* Every range is merged once all threads are done, and the pairs are counted.
LEMMA MergedKeeps ==
    ASSUME CInv, Merged
    PROVE  CInv'
  <1>1. /\ main.at = "merge" /\ MainTyped /\ ClaimedOnce /\ MergedWhole /\ HasAll /\ Faultless /\ Has
        /\ outcome.result = "none"
    BY DEF CInv, Merged, Has, MainTyped
  <1>2. CASE (\E w \in DOMAIN merger : merger[w].at = "failed") /\ Fail
    <2>1. main.faults > 0
      BY <1>1, <1>2 DEF ClaimedOnce, MergersFine
    <2> QED
      BY <1>2, <2>1, FailKeeps
  <1>3. CASE (\A w \in DOMAIN merger : merger[w].at = "done") /\ Count
    <2>1. MergersFine /\ \A w \in DOMAIN merger : ~ Merging(w)
      BY <1>3 DEF MergersFine, Merging
    <2>2. InFiles /\ ~ job.fails /\ Keys = AllRuns /\ CutsRight(scratch.cuts) /\ main.faults = 0
      BY <1>1, <2>1 DEF HasAll, Faultless
    <2>3. Parts(RangeParts, Paths) /\ Whole(RangeParts, Paths) = Keys /\ Keys \subseteq Pair /\ Paths \in Nat
      BY <1>1, <2>2, RangesOfRuns
    <2>4. scratch.next > Paths /\ scratch.next \in Nat
      <3>1. PICK k : k = job.budget.threads
        OBVIOUS
      <3>2. k \in Nat \ {0} /\ DOMAIN merger = 1 .. k
        BY <1>1, <3>1 DEF MainTyped, JobTyped, ClaimedOnce
      <3>3. 1 \in DOMAIN merger
        BY <3>2
      <3>4. scratch.next > Paths
        BY <1>1, <1>3, <3>3 DEF ClaimedOnce
      <3> QED
        BY <1>1, <3>4 DEF MainTyped, ScratchTyped
    <2>5. DOMAIN scratch.merged = 1 .. Paths
      <3>1. DOMAIN scratch.merged = {t \in 1 .. Paths : t < scratch.next /\ \A w \in DOMAIN merger :
                                                          Merging(w) => merger[w].t # t}
        BY <1>1 DEF ClaimedOnce
      <3>2. \A t \in 1 .. Paths : t < scratch.next
        BY <2>3, <2>4
      <3> QED
        BY <2>1, <3>1, <3>2
    <2>6. MergedPairs = Keys
      <3>1. \A t \in 1 .. Paths : RangeParts[t] = PairsOfRange(t)
        BY DEF RangeParts
      <3> QED
        BY <2>3, <2>5, <3>1 DEF MergedPairs, Whole
    <2>7. /\ scratch.merged = [t \in 1 .. Paths |-> Sorted(PairsOfRange(t))]
          /\ Written_n = Cardinality(Keys) /\ Written_same = Cardinality(Keys) - Cardinality(KeyHash)
      BY <1>1, <2>1, <2>5, <2>6 DEF MergedWhole, KeyHash
    <2>8. Cardinality(Keys) \in Nat /\ Cardinality(KeyHash) \in Nat
      BY <2>3, FollowersCounted DEF KeyHash
    <2>9. /\ main' = [at |-> "hash", input |-> main.input, run |-> main.run, faults |-> main.faults, n |-> main'.n,
                      m |-> main'.m, mph |-> main.mph, side |-> main.side]
          /\ main'.n = Cardinality(Keys) /\ main'.m = Cardinality(KeyHash)
      <3>1. PICK n, k : n = Written_n /\ k = Written_same
        OBVIOUS
      <3>2. main' = [main EXCEPT !.at = "hash", !.n = n, !.m = n - k]
        BY <1>3, <3>1 DEF Count
      <3>3. n = Cardinality(Keys) /\ n - k = Cardinality(KeyHash)
        BY <2>7, <2>8, <3>1
      <3>4. main' = [at |-> "hash", input |-> main.input, run |-> main.run, faults |-> main.faults, n |-> n,
                     m |-> n - k, mph |-> main.mph, side |-> main.side]
        BY ONLY <1>1, <3>2 DEF MainTyped, ThreadTyped
      <3> QED
        BY <3>3, <3>4
    <2>10. UNCHANGED <<job, scratch, merger, scanner, range, outcome>>
      BY <1>3 DEF Count
    <2>11. MainTyped'
      <3>1. JobTyped' /\ ScratchTyped' /\ outcome'.result = "none"
        BY <1>1, <2>10 DEF MainTyped, JobTyped, ScratchTyped
      <3>2. ThreadTyped'
        BY <1>1, <2>9 DEF MainTyped, ThreadTyped
      <3> QED
        BY <3>1, <3>2 DEF MainTyped
    <2>12. /\ Keys' = Keys /\ KeyHash' = KeyHash /\ InFiles' /\ AllRuns' = AllRuns /\ Paths' = Paths
           /\ CutsRight(scratch.cuts)' /\ \A t : PairsOfRange(t)' = PairsOfRange(t)
      BY <2>2, <2>10 DEF Keys, KeyHash, InFiles, AllRuns, CutsRight, PairsOfRange, Paths
    <2>13. Reading' /\ Faultless' /\ ErrorsSurface' /\ PublishesTheKeys'
      BY <1>1, <2>2, <2>9, <2>10 DEF Reading, Faultless, ErrorsSurface, PublishesTheKeys
    <2>14. HasAll'
      BY <2>2, <2>10, <2>12 DEF HasAll
    <2>15. AllCounted'
      BY <2>7, <2>9, <2>10, <2>12 DEF AllCounted
    <2>16. ClaimedOnce' /\ MergedWhole' /\ HashBuilt' /\ ScansOK' /\ RangeTyped' /\ Locked' /\ Filed'
           /\ FailedForFault' /\ AllSent'
      BY <2>9 DEF ClaimedOnce, MergedWhole, HashBuilt, ScansOK, RangeTyped, Locked, Filed, FailedForFault,
         AllSent, Sends
    <2> QED
      BY <2>11, <2>13, <2>14, <2>15, <2>16 DEF CInv
  <1> QED
    BY <1>2, <1>3 DEF Merged, JoinMergers

-------------------------------------------------------------------------------
(* The sources of the fingerprint threads. *)

\* The sources are parts of the keys in order.
SourcesOf(P, n) ==
    /\ Parts(P, n) /\ Whole(P, n) = Keys /\ n \in Nat \ {0}
    /\ Sources = [s \in 1 .. n |-> Sorted(P[s])]
    /\ InMemory => n = 1

\* They hold each hash's first pair once among them, their others in order, and every hash.
SourcesRight ==
    /\ \A s \in DOMAIN Sources : /\ s \in Nat \ {0} /\ Len(Sources[s]) \in Nat
                                 /\ Leads(Sources[s]) \subseteq 1 .. Len(Sources[s])
                                 /\ \A i \in Leads(Sources[s]) : Sources[s][i] \in Lead(Keys)
    /\ \A p \in Lead(Keys) : \E s \in DOMAIN Sources : \E i \in Leads(Sources[s]) : Sources[s][i] = p
    /\ FlattenSeq([s \in DOMAIN Sources |-> SideOf(Sources[s])]) = SideOf(Sorted(Keys))
    /\ InMemory => DOMAIN Sources = {1}

\* All the pairs are one part.
LEMMA OnePart ==
    ASSUME NEW S, S \subseteq Pair, NEW P, P = [t \in 1 .. 1 |-> S]
    PROVE  Parts(P, 1) /\ Whole(P, 1) = S
  <1>1. \A t : t \in 1 .. 1 <=> t = 1
    OBVIOUS
  <1>2. P \in [1 .. 1 -> SUBSET Pair] /\ P[1] = S
    OBVIOUS
  <1>3. \A t, u \in 1 .. 1 : ~ (t < u)
    BY <1>1
  <1>4. UNION {P[t] : t \in 1 .. 1} = S
    <2>1. {P[t] : t \in 1 .. 1} = {S}
      BY ONLY <1>1, <1>2
    <2> QED
      BY ONLY <2>1
  <1> QED
    BY <1>2, <1>3, <1>4 DEF Parts, Whole

\* The keys are in memory, or the files hold their parts; and one representative a hash.
LEMMA SourcesAre ==
    ASSUME MainTyped, HasAll, AllCounted, Counted
    PROVE  (\E P, n : SourcesOf(P, n)) /\ Reps = KeyHash /\ Keys \subseteq Pair
  <1>1. Has
    BY DEF Has, Counted
  <1>2. Keys \subseteq Pair
    <2>1. PICK s : s = job.keys
      OBVIOUS
    <2>2. s \in Seq(Pair)
      BY <2>1 DEF MainTyped, JobTyped
    <2>3. \A x \in ToSet(s) : x \in Pair
      BY ONLY <2>2, SeqIs
    <2> QED
      BY ONLY <2>1, <2>3 DEF Keys
  <1>3. PICK all : all = Sorted(Keys)
    OBVIOUS
  <1>4. ToSet(all) = Keys
    BY ONLY <1>2, <1>3, SortedIs
  <1>5. PICK P : P = [t \in 1 .. 1 |-> Keys]
    OBVIOUS
  <1>6. Parts(P, 1) /\ Whole(P, 1) = Keys
    BY ONLY <1>2, <1>5, OnePart
  <1>7. ASSUME Sources = <<all>>
        PROVE  SourcesOf(P, 1)
    <2>1. [s \in 1 .. 1 |-> Sorted(P[s])] = <<all>>
      <3>1. \A s : s \in 1 .. 1 <=> s = 1
        OBVIOUS
      <3>2. Sorted(P[1]) = all
        BY <1>3, <1>5
      <3>3. PICK f : f = [s \in 1 .. 1 |-> Sorted(P[s])]
        OBVIOUS
      <3>4. f = [s \in 1 .. 1 |-> all]
        BY ONLY <3>1, <3>2, <3>3
      <3>5. f = <<all>>
        BY ONLY <3>4
      <3> QED
        BY <3>3, <3>5
    <2> QED
      BY <1>6, <1>7, <2>1 DEF SourcesOf
  <1>8. CASE ~ InFiles
    <2>1. main.run = all
      BY <1>1, <1>3, <1>8 DEF HasAll
    <2>2. Sources = <<all>> /\ Reps = KeyHash
      BY <1>4, <1>8, <2>1 DEF Sources, Reps, KeyHash
    <2> QED
      BY <1>2, <1>7, <2>2
  <1>9. CASE InFiles
    <2>1. Parts(RangeParts, Paths) /\ Whole(RangeParts, Paths) = Keys /\ Paths \in Nat /\ Paths > 0
      BY <1>1, <1>9, RangesOfRuns
    <2>2. scratch.merged = [t \in 1 .. Paths |-> Sorted(RangeParts[t])]
      <3>1. scratch.merged = [t \in 1 .. Paths |-> Sorted(PairsOfRange(t))]
        BY <1>9 DEF AllCounted
      <3>2. \A t \in 1 .. Paths : RangeParts[t] = PairsOfRange(t)
        BY DEF RangeParts
      <3> QED
        BY ONLY <3>1, <3>2
    <2>3. FlattenSeq(scratch.merged) = all
      <3>1. PICK mgd, R, n : mgd = scratch.merged /\ R = RangeParts /\ n = Paths
        OBVIOUS
      <3>2. Parts(R, n) /\ mgd = [t \in 1 .. n |-> Sorted(R[t])]
        BY ONLY <2>1, <2>2, <3>1
      <3>3. FlattenSeq(mgd) = Sorted(Whole(R, n))
        BY ONLY <3>2, FlattenSorted
      <3> QED
        BY ONLY <1>3, <2>1, <3>1, <3>3
    <2>4. Reps = KeyHash
      BY <1>4, <1>9, <2>3 DEF Reps, KeyHash
    <2>5. CASE InMemory
      <3>1. Sources = <<all>>
        BY <1>9, <2>3, <2>5 DEF Sources
      <3> QED
        BY <1>2, <1>7, <2>4, <3>1
    <2>6. CASE ~ InMemory
      <3>1. Sources = scratch.merged
        BY <1>9, <2>6 DEF Sources
      <3>2. SourcesOf(RangeParts, Paths)
        BY <2>1, <2>2, <2>6, <3>1 DEF SourcesOf
      <3> QED
        BY <1>2, <2>4, <3>2
    <2> QED
      BY <2>5, <2>6
  <1> QED
    BY <1>8, <1>9

\* So the sources are right.
LEMMA SourcesAreRight ==
    ASSUME MainTyped, HasAll, AllCounted, Counted
    PROVE  SourcesRight
  <1>1. PICK P, n : SourcesOf(P, n)
    BY SourcesAre
  <1>2. Parts(P, n) /\ Whole(P, n) = Keys /\ n \in Nat \ {0} /\ Sources = [s \in 1 .. n |-> Sorted(P[s])]
        /\ (InMemory => n = 1)
    BY <1>1 DEF SourcesOf
  <1>3. /\ \A t \in 1 .. n : Lead(P[t]) \subseteq Lead(Keys)
        /\ \A p \in Lead(Keys) : \E t \in 1 .. n : p \in Lead(P[t])
    BY ONLY <1>2, PartsLead
  <1>4. PICK src : src = Sources
    OBVIOUS
  <1>5. DOMAIN src = 1 .. n /\ \A s \in 1 .. n : src[s] = Sorted(P[s]) /\ P[s] \subseteq Pair
    BY <1>2, <1>4 DEF Parts
  <1>6. ASSUME NEW s \in 1 .. n
        PROVE  /\ Len(src[s]) \in Nat /\ Leads(src[s]) \subseteq 1 .. Len(src[s])
               /\ \A i \in Leads(src[s]) : src[s][i] \in Lead(P[s])
               /\ \A p \in Lead(P[s]) : \E i \in Leads(src[s]) : src[s][i] = p
    <2>1. PICK S, f : S = P[s] /\ f = src[s]
      OBVIOUS
    <2>2. S \subseteq Pair /\ f = Sorted(S)
      BY <1>5, <2>1
    <2>3. Len(f) \in Nat
      BY ONLY <2>2, SortedIs
    <2>4. /\ \A i \in 1 .. Len(f) : i \in Leads(f) <=> f[i] \in Lead(S)
          /\ Leads(f) \subseteq 1 .. Len(f)
          /\ \A p \in Lead(S) : \E i \in Leads(f) : f[i] = p
      BY ONLY <2>2, LeadsAre
    <2> QED
      BY ONLY <2>1, <2>3, <2>4
  <1>7. FlattenSeq([s \in DOMAIN src |-> SideOf(src[s])]) = SideOf(Sorted(Keys))
    <2>1. PICK sides : sides = [t \in 1 .. n |-> SideOf(Sorted(P[t]))]
      OBVIOUS
    <2>2. [s \in DOMAIN src |-> SideOf(src[s])] = sides
      BY <1>5, <2>1
    <2>3. FlattenSeq(sides) = SideOf(Sorted(Whole(P, n)))
      BY ONLY <1>2, <2>1, FlattenSides
    <2> QED
      BY ONLY <1>2, <2>2, <2>3
  <1>8. InMemory => DOMAIN src = {1}
    BY <1>2, <1>5
  <1>9. \A s \in DOMAIN src : /\ s \in Nat \ {0} /\ Len(src[s]) \in Nat
                              /\ Leads(src[s]) \subseteq 1 .. Len(src[s])
                              /\ \A i \in Leads(src[s]) : src[s][i] \in Lead(Keys)
    BY <1>2, <1>3, <1>5, <1>6
  <1>10. \A p \in Lead(Keys) : \E s \in DOMAIN src : \E i \in Leads(src[s]) : src[s][i] = p
    BY <1>3, <1>5, <1>6
  <1> QED
    BY ONLY <1>4, <1>7, <1>8, <1>9, <1>10 DEF SourcesRight

\* What is sent where stays as it is.
SameFiles ==
    /\ Sources' = Sources /\ Keys' = Keys /\ KeyHash' = KeyHash /\ InMemory' = InMemory /\ InFiles' = InFiles
    /\ Files' = Files /\ RangeCount' = RangeCount /\ \A sl : RangeOf(sl)' = RangeOf(sl)

\* A step after the count that keeps the files keeps what they say.
LEMMA CountedFrame ==
    ASSUME MainTyped, HasAll, AllCounted, Counted, Counted', ThreadTyped', main'.run = main.run,
           main'.n = main.n, main'.m = main.m, UNCHANGED <<job, outcome>>,
           scratch' = [scratch EXCEPT !.dir = scratch'.dir]
    PROVE  /\ MainTyped' /\ Reading' /\ HasAll' /\ AllCounted' /\ ClaimedOnce' /\ MergedWhole'
           /\ PublishesTheKeys' /\ ErrorsSurface' /\ SameFiles
  <1>1. /\ scratch' = [dir |-> scratch'.dir, runs |-> scratch.runs, cuts |-> scratch.cuts, merged |-> scratch.merged,
                       next |-> scratch.next]
        /\ scratch'.runs = scratch.runs /\ scratch'.cuts = scratch.cuts /\ scratch'.merged = scratch.merged
        /\ scratch'.next = scratch.next
    BY DEF MainTyped, ScratchTyped
  <1>2. outcome'.result = "none" /\ main'.at \in {"hash", "place", "write"} /\ main.at \in {"hash", "place", "write"}
    BY DEF MainTyped, Counted
  <1>3. JobTyped' /\ ScratchTyped'
    BY <1>1 DEF MainTyped, JobTyped, ScratchTyped
  <1>4. MainTyped'
    BY <1>2, <1>3 DEF MainTyped
  <1>5. Reading' /\ PublishesTheKeys' /\ ErrorsSurface' /\ ClaimedOnce' /\ MergedWhole'
    BY <1>2 DEF Reading, PublishesTheKeys, ErrorsSurface, ClaimedOnce, MergedWhole
  <1>6. /\ Keys' = Keys /\ KeyHash' = KeyHash /\ InMemory' = InMemory /\ InFiles' = InFiles
        /\ RangeCount' = RangeCount /\ \A sl : RangeOf(sl)' = RangeOf(sl)
    BY <1>1 DEF Keys, KeyHash, InMemory, InFiles, RangeCount, RangeOf
  <1>7. Files' = Files /\ Sources' = Sources
    BY <1>1, <1>6 DEF Files, Sources
  <1>8. AllRuns' = AllRuns /\ Paths' = Paths /\ CutsRight(scratch.cuts)' = CutsRight(scratch.cuts)
        /\ \A t : PairsOfRange(t)' = PairsOfRange(t)
    BY <1>1 DEF AllRuns, Paths, CutsRight, PairsOfRange
  <1>9. HasAll'
    <2>1. Has
      BY <1>2 DEF Has
    <2>2. ~ job.fails /\ (InFiles => Keys = AllRuns /\ CutsRight(scratch.cuts)) /\ (~ InFiles => main.run = Sorted(Keys))
      BY <2>1 DEF HasAll
    <2> QED
      BY <1>2, <1>6, <1>8, <2>2 DEF HasAll
  <1>10. AllCounted'
    BY <1>1, <1>6, <1>8 DEF AllCounted
  <1> QED
    BY <1>4, <1>5, <1>6, <1>7, <1>9, <1>10 DEF SameFiles

\* A pair that leads has a slot in one of the files, and its record goes there.
PlacesRight ==
    /\ Files \in Nat /\ main.m \in Nat
    /\ \A p \in Lead(Keys) : /\ main.mph[p[1]] = SlotOf(Keys, p) /\ SlotOf(Keys, p) \in 0 .. main.m - 1
                             /\ p[2] \in Nat /\ Record(p) = <<SlotOf(Keys, p), p[2]>> /\ Record(p) \in Nat \X Nat
                             /\ RangeOf(SlotOf(Keys, p)) \in 1 .. Files
                             /\ Record(p) \in Fit(RangeOf(SlotOf(Keys, p)))

\* Once the perfect hash is built every pair that leads has a slot of its own.
LEMMA PlacesAreRight ==
    ASSUME MainTyped, AllCounted, HashBuilt, Sends, Keys \subseteq Pair
    PROVE  PlacesRight
  <1>1. main.m = Cardinality(KeyHash) /\ main.mph = [h \in KeyHash |-> index(KeyHash, h)]
    BY DEF AllCounted, HashBuilt, Counted, Sends
  <1>2. PICK S, m : S = Keys /\ m = Cardinality(HashesOf(S))
    OBVIOUS
  <1>3. S \subseteq Pair /\ m = main.m /\ KeyHash = HashesOf(S)
    BY <1>1, <1>2 DEF KeyHash
  <1>4. m \in Nat /\ \A p \in Lead(S) : SlotOf(S, p) \in 0 .. m - 1
    BY ONLY <1>2, <1>3, SlotsAre
  <1>5. \A p \in Lead(S) : p \in S /\ p[1] \in HashesOf(S)
    BY ONLY <1>3, HasLead
  <1>6. RangeSlots \in Nat \ {0}
    BY StreamAssumption
  <1>7. PICK c : c = (m + RangeSlots - 1) \div RangeSlots
    OBVIOUS
  <1>8. c = RangeCount /\ c \in Nat
    <2>1. m + RangeSlots - 1 \in Nat
      BY <1>4, <1>6
    <2>2. c \in Nat
      BY ONLY <1>6, <1>7, <2>1, DivMod
    <2> QED
      BY <1>3, <1>7, <2>2 DEF RangeCount
  <1>9. Files \in Nat
    BY <1>8 DEF Files
  <1>10. ASSUME NEW p \in Lead(S)
         PROVE  /\ main.mph[p[1]] = SlotOf(S, p) /\ p[2] \in Nat
                /\ Record(p) = <<SlotOf(S, p), p[2]>> /\ Record(p) \in Nat \X Nat
                /\ RangeOf(SlotOf(S, p)) \in 1 .. Files
                /\ Record(p) \in Fit(RangeOf(SlotOf(S, p)))
    <2>1. p \in Pair /\ p[1] \in KeyHash
      BY <1>3, <1>5
    <2>2. p[2] \in Nat
      BY <2>1, PairsOrdered
    <2>3. main.mph[p[1]] = SlotOf(S, p)
      BY <1>1, <1>3, <2>1 DEF SlotOf
    <2>4. PICK sl : sl = SlotOf(S, p)
      OBVIOUS
    <2>5. sl \in 0 .. m - 1 /\ sl \in Nat
      BY <1>4, <2>4
    <2>6. Record(p) = <<sl, p[2]>> /\ Record(p) \in Nat \X Nat
      BY <2>2, <2>3, <2>4, <2>5 DEF Record
    <2>7. RangeOf(sl) \in 1 .. Files
      <3>1. CASE InMemory
        BY <3>1 DEF RangeOf, Files
      <3>2. CASE ~ InMemory
        <4>1. PICK r : r = sl \div RangeSlots + 1
          OBVIOUS
        <4>2. r \in 1 .. c
          BY ONLY <1>4, <1>7, <2>5, <4>1, SlotInRange
        <4> QED
          BY <1>8, <3>2, <4>1, <4>2 DEF RangeOf, Files
      <3> QED
        BY <3>1, <3>2
    <2>8. Record(p) \in Fit(RangeOf(sl))
      BY <1>2, <2>3, <2>4 DEF Fit
    <2> QED
      BY <2>2, <2>3, <2>4, <2>6, <2>7, <2>8
  <1> QED
    BY <1>2, <1>3, <1>4, <1>9, <1>10 DEF PlacesRight

\* The perfect hash is built, and the threads start at the beginning of their sources.
LEMMA BuildMphKeeps ==
    ASSUME CInv, BuildMph
    PROVE  CInv'
  <1>1. /\ main.at = "hash" /\ MainTyped /\ HasAll /\ AllCounted /\ Faultless /\ Counted
        /\ main.faults = 0
    BY DEF CInv, BuildMph, Counted, Faultless
  <1>2. Reps = KeyHash /\ main.m = Cardinality(KeyHash)
    BY <1>1, SourcesAre DEF AllCounted
  <1>3. CASE FailWith
    BY <1>3, FaultKeeps
  <1>4. CASE (~ InMemory /\ ~ MayCreate) /\ Fail
    BY <1>4, FailKeeps DEF MayCreate
  <1>5. ASSUME NEW mph, mph = [h \in KeyHash |-> index(KeyHash, h)],
               main' = [main EXCEPT !.at = "place", !.mph = mph],
               NEW st, st = [at |-> "scan", read |-> 0, placed |-> 0, r |-> 0, left |-> <<>>, split |-> FALSE,
                             stage |-> [r \in 1 .. Files |-> <<>>]],
               scanner' = [s \in DOMAIN Sources |-> st],
               range' = [lock |-> [r \in 1 .. Files |-> NoThread],
                         file |-> [r \in 1 .. Files |-> [recs |-> {}, half |-> <<>>]]],
               scratch' = IF InMemory THEN scratch ELSE [scratch EXCEPT !.dir = "ours"],
               UNCHANGED <<job, merger, outcome>>
        PROVE  CInv'
    <2>1. main' = [at |-> "place", input |-> main.input, run |-> main.run, faults |-> 0, n |-> main.n,
                   m |-> main.m, mph |-> mph, side |-> main.side]
      BY ONLY <1>1, <1>5 DEF MainTyped, ThreadTyped
    <2>2. ThreadTyped' /\ Counted'
      BY <1>1, <2>1 DEF MainTyped, ThreadTyped, Counted
    <2>3. scratch' = [scratch EXCEPT !.dir = scratch'.dir]
      BY <1>1, <1>5 DEF MainTyped, ScratchTyped
    <2>4. /\ MainTyped' /\ Reading' /\ HasAll' /\ AllCounted' /\ ClaimedOnce' /\ MergedWhole'
          /\ PublishesTheKeys' /\ ErrorsSurface' /\ SameFiles
      <3>1. main'.run = main.run /\ main'.n = main.n /\ main'.m = main.m
        BY ONLY <2>1
      <3>2. UNCHANGED <<job, outcome>>
        BY ONLY <1>5
      <3>3. MainTyped /\ HasAll /\ AllCounted /\ Counted
        BY ONLY <1>1
      <3> QED
        BY ONLY <2>2, <2>3, <3>1, <3>2, <3>3, CountedFrame
    <2>5. HashBuilt'
      <3>1. KeyHash' = KeyHash
        BY ONLY <2>4 DEF SameFiles
      <3>2. main'.mph = mph
        BY ONLY <2>1
      <3>3. PICK K, KK : K = KeyHash /\ KK = KeyHash'
        OBVIOUS
      <3>4. [h \in KK |-> index(KK, h)] = [h \in K |-> index(K, h)]
        BY ONLY <3>1, <3>3
      <3>5. main'.mph = [h \in KeyHash' |-> index(KeyHash', h)]
        BY ONLY <1>5, <3>2, <3>3, <3>4
      <3> QED
        BY ONLY <3>5 DEF HashBuilt
    <2>6. Faultless' /\ AllSent'
      BY <2>1 DEF Faultless, AllSent
    <2>7. SourcesRight
      BY <1>1, SourcesAreRight
    <2>8. PICK src, n : src = Sources /\ n = Files
      OBVIOUS
    <2>9. DOMAIN scanner' = DOMAIN src /\ \A s \in DOMAIN src : scanner'[s] = st
      BY <1>5, <2>8
    <2>10. ScansOK'
      <3>1. ASSUME NEW s \in DOMAIN src
            PROVE  ScanOK(s, st)'
        <4>1. src = Sources' /\ n = Files'
          BY <2>4, <2>8 DEF SameFiles
        <4>2. Len(src[s]) \in Nat /\ Leads(src[s]) \subseteq 1 .. Len(src[s])
          BY <2>7, <2>8 DEF SourcesRight
        <4>3. \A i \in Leads(src[s]) : i \in Nat /\ i > 0
          BY <4>2
        <4>4. Pending(s, 0, 0)' = {}
          BY ONLY <4>1, <4>3 DEF Pending
        <4>5. st \in ScanStates'
          BY ONLY <1>5, <2>8, <4>1 DEF ScanStates
        <4>6. st.at = "scan" /\ st.read = 0 /\ st.placed = 0 /\ st.split = FALSE
              /\ \A q \in 1 .. n : st.stage[q] = <<>>
          BY ONLY <1>5, <2>8
        <4>7. \A q \in 1 .. n : ToSet(st.stage[q]) = {}
          BY ONLY <4>6 DEF ToSet
        <4>8. ~ Flushing(s, st)'
          BY <4>6 DEF Flushing
        <4> QED
          BY ONLY <4>1, <4>2, <4>4, <4>5, <4>6, <4>7, <4>8 DEF ScanOK
      <3>2. src = Sources'
        BY <2>4, <2>8 DEF SameFiles
      <3> QED
        BY <2>9, <3>1, <3>2 DEF ScansOK
    <2>11. RangeTyped' /\ Locked'
      <3>1. n = Files' /\ src = Sources'
        BY <2>4, <2>8 DEF SameFiles
      <3>2. range' = [lock |-> [r \in 1 .. n |-> NoThread], file |-> [r \in 1 .. n |-> [recs |-> {}, half |-> <<>>]]]
        BY <1>5, <2>8
      <3>3. RangeTyped'
        BY ONLY <3>1, <3>2 DEF RangeTyped, RangesOK
      <3>4. \A s \in DOMAIN src : scanner'[s].at # "write"
        BY <1>5, <2>9
      <3>5. \A q \in 1 .. n : range'.lock[q] = NoThread
        BY <3>2
      <3> QED
        BY <3>1, <3>3, <3>4, <3>5 DEF Locked
    <2>12. Filed' /\ FailedForFault'
      <3>1. n = Files' /\ src = Sources'
        BY <2>4, <2>8 DEF SameFiles
      <3>2. \A q \in 1 .. n : range'.file[q].recs = {} /\ range'.file[q].half = <<>>
        BY <1>5, <2>8
      <3>3. \A s \in DOMAIN src : scanner'[s] = st /\ st.at = "scan" /\ st.placed = 0
        BY <1>5, <2>9
      <3>4. \A s \in DOMAIN src : \A i \in Leads(src[s]) : ~ (i <= 0)
        <4>1. \A s \in DOMAIN src : Len(src[s]) \in Nat /\ Leads(src[s]) \subseteq 1 .. Len(src[s])
          BY <2>7, <2>8 DEF SourcesRight
        <4> QED
          BY <4>1
      <3>5. ScansFine'
        BY <2>9, <3>3 DEF ScansFine
      <3>6. \A s \in DOMAIN src : Kept(s, scanner[s], range.file)'
        BY ONLY <3>1, <3>3, <3>4 DEF Kept
      <3> QED
        BY ONLY <3>1, <3>2, <3>3, <3>5, <3>6 DEF Filed, FailedForFault
    <2> QED
      BY <2>4, <2>5, <2>6, <2>10, <2>11, <2>12 DEF CInv
  <1> QED
    <2>1. PICK H : H = Reps
      OBVIOUS
    <2>2. PICK mph : mph = [h \in H |-> index(H, h)]
      OBVIOUS
    <2>3. PICK st : st = [at |-> "scan", read |-> 0, placed |-> 0, r |-> 0, left |-> <<>>, split |-> FALSE,
                          stage |-> [r \in 1 .. Files |-> <<>>]]
      OBVIOUS
    <2> QED
      <3>1. CASE FailWith
        BY <1>3, <3>1
      <3>2. CASE Cardinality(Reps) # main.m \/ (~ InMemory /\ ~ MayCreate)
        <4>1. ~ InMemory /\ ~ MayCreate
          BY <1>2, <3>2
        <4>2. CASE FailWith
          BY <1>3, <4>2
        <4>3. CASE Fail
          BY <1>4, <4>1, <4>3
        <4> QED
          BY <3>2, <4>1, <4>2, <4>3 DEF BuildMph
      <3>3. CASE ~ (Cardinality(Reps) # main.m \/ (~ InMemory /\ ~ MayCreate)) /\ ~ FailWith
        <4>1. mph = [h \in KeyHash |-> index(KeyHash, h)]
          BY <1>2, <2>1, <2>2
        <4>2. /\ main' = [main EXCEPT !.at = "place", !.mph = mph]
              /\ scanner' = [s \in DOMAIN Sources |-> st]
              /\ range' = [lock |-> [r \in 1 .. Files |-> NoThread],
                           file |-> [r \in 1 .. Files |-> [recs |-> {}, half |-> <<>>]]]
              /\ scratch' = IF InMemory THEN scratch ELSE [scratch EXCEPT !.dir = "ours"]
              /\ UNCHANGED <<job, merger, outcome>>
          BY <2>1, <2>2, <2>3, <3>3 DEF BuildMph
        <4> QED
          BY ONLY <1>5, <2>3, <4>1, <4>2
      <3> QED
        BY <3>1, <3>2, <3>3
-------------------------------------------------------------------------------
(* The fingerprint threads. *)

\* What is said of a thread's state does not change with the state of others.
SameSending ==
    /\ SameFiles
    /\ \A q : Fit(q)' = Fit(q)
    /\ \A s, st : ScanOK(s, st)' <=> ScanOK(s, st)
    /\ \A s, st, file : Kept(s, st, file)' <=> Kept(s, st, file)

\* While the sources and the perfect hash stay, so does what is sent.
LEMMA SameSends ==
    ASSUME SameFiles, main'.mph = main.mph
    PROVE  SameSending
  <1>1. \A p : Record(p)' = Record(p)
    BY DEF Record
  <1>2. \A q : Fit(q)' = Fit(q)
    BY <1>1 DEF Fit, SameFiles
  <1>3. \A s, a, b : Pending(s, a, b)' = Pending(s, a, b)
    BY DEF Pending, SameFiles
  <1>4. ScanStates' = ScanStates
    BY DEF ScanStates, SameFiles
  <1>5. \A s, st : Flushing(s, st)' <=> Flushing(s, st)
    BY <1>3 DEF Flushing
  <1>6. \A s, st : ScanOK(s, st)' <=> ScanOK(s, st)
    BY <1>2, <1>3, <1>4, <1>5 DEF ScanOK, SameFiles
  <1>7. \A s, st, file : Kept(s, st, file)' <=> Kept(s, st, file)
    BY <1>1 DEF Kept, SameFiles
  <1> QED
    BY <1>2, <1>6, <1>7 DEF SameSending

\* A step of the thread of source s, which is then st.
StepOf(s, st) ==
    /\ main.at = "place" /\ s \in DOMAIN scanner /\ UNCHANGED <<job, scratch, merger, outcome>>
    /\ scanner[s].at # "failed" /\ scanner' = [scanner EXCEPT ![s] = st]
    /\ main' = [main EXCEPT !.faults = main'.faults] /\ main'.faults \in Nat
    /\ IF st.at = "failed" THEN main'.faults > main.faults ELSE main'.faults = main.faults

\* It takes and leaves locks for itself alone.
LocksOf(s, st) ==
    \A q \in 1 .. Files :
        /\ range'.lock[q] = range.lock[q] \/ (range'.lock[q] \in {NoThread, s} /\ range.lock[q] \in {NoThread, s})
        /\ range'.lock[q] = s <=> st.at = "write" /\ st.r = q

\* It writes the file it holds alone, and loses nothing.
FilesOf(s, st) ==
    /\ \A q \in 1 .. Files : /\ range.file[q].recs \subseteq range'.file[q].recs /\ range'.file[q].recs \subseteq Fit(q)
                             /\ range'.lock[q] = NoThread => range'.file[q].half = <<>>
                             /\ range'.lock[q] # s \/ InMemory => range'.file[q] = range.file[q]
    /\ Kept(s, st, range'.file)
    /\ st.at = "write" => Writes(st, range'.file[st.r])

\* Such a step keeps the invariant.
LEMMA ScanStep ==
    ASSUME CInv, NEW s, NEW st, StepOf(s, st), ScanOK(s, st), RangesOK(range'), LocksOf(s, st),
           ScansFine /\ st.at # "failed" => FilesOf(s, st)
    PROVE  CInv'
  <1>1. /\ main.at = "place" /\ s \in DOMAIN scanner /\ UNCHANGED <<job, scratch, merger, outcome>>
        /\ scanner[s].at # "failed" /\ scanner' = [scanner EXCEPT ![s] = st]
        /\ main' = [main EXCEPT !.faults = main'.faults] /\ main'.faults \in Nat
        /\ IF st.at = "failed" THEN main'.faults > main.faults ELSE main'.faults = main.faults
    BY DEF StepOf
  <1>2. /\ MainTyped /\ HasAll /\ AllCounted /\ Faultless /\ HashBuilt /\ ScansOK /\ RangeTyped /\ Locked /\ Filed
        /\ FailedForFault /\ Counted /\ Sends
    BY <1>1 DEF CInv, Counted, Sends
  <1>3. main' = [at |-> "place", input |-> main.input, run |-> main.run, faults |-> main'.faults, n |-> main.n,
                 m |-> main.m, mph |-> main.mph, side |-> main.side]
    BY ONLY <1>1, <1>2 DEF MainTyped, ThreadTyped
  <1>4. ThreadTyped' /\ Counted' /\ Sends'
    BY <1>1, <1>2, <1>3 DEF MainTyped, ThreadTyped, Counted, Sends
  <1>5. /\ MainTyped' /\ Reading' /\ HasAll' /\ AllCounted' /\ ClaimedOnce' /\ MergedWhole'
        /\ PublishesTheKeys' /\ ErrorsSurface' /\ SameFiles
    <2>1. scratch' = [scratch EXCEPT !.dir = scratch'.dir]
      BY <1>1, <1>2 DEF MainTyped, ScratchTyped
    <2>2. main'.run = main.run /\ main'.n = main.n /\ main'.m = main.m
      BY ONLY <1>3
    <2>3. UNCHANGED <<job, outcome>>
      BY ONLY <1>1
    <2> QED
      BY ONLY <1>2, <1>4, <2>1, <2>2, <2>3, CountedFrame
  <1>6. SameSending
    <2>1. main'.mph = main.mph
      BY ONLY <1>3
    <2> QED
      BY ONLY <1>5, <2>1, SameSends
  <1>7. HashBuilt'
    <2>1. KeyHash' = KeyHash /\ main'.mph = main.mph
      BY ONLY <1>3, <1>5 DEF SameFiles
    <2>2. PICK K, KK : K = KeyHash /\ KK = KeyHash'
      OBVIOUS
    <2>3. [h \in KK |-> index(KK, h)] = [h \in K |-> index(K, h)]
      BY ONLY <2>1, <2>2
    <2>4. main.mph = [h \in K |-> index(K, h)]
      BY ONLY <1>2, <2>2 DEF HashBuilt
    <2>5. main'.mph = [h \in KeyHash' |-> index(KeyHash', h)]
      BY ONLY <2>1, <2>2, <2>3, <2>4
    <2> QED
      BY ONLY <2>5 DEF HashBuilt
  <1>8. AllSent'
    BY <1>3 DEF AllSent
  <1>9. PICK D, n, sc, scc, lk, lkk, fl, fll :
          /\ D = DOMAIN Sources /\ n = Files /\ sc = scanner /\ scc = scanner'
          /\ lk = range.lock /\ lkk = range'.lock /\ fl = range.file /\ fll = range'.file
    OBVIOUS
  <1>10. DOMAIN Sources' = D /\ Files' = n
    BY <1>5, <1>9 DEF SameFiles
  <1>11. /\ DOMAIN sc = D /\ DOMAIN scc = D /\ s \in D /\ scc[s] = st /\ \A v \in D : v # s => scc[v] = sc[v]
    BY <1>1, <1>2, <1>9 DEF ScansOK
  <1>12. ScansOK'
    <2>1. \A v \in D : ScanOK(v, sc[v])
      BY <1>2, <1>9 DEF ScansOK
    <2>2. \A v \in D : ScanOK(v, scc[v])
      BY <1>11, <2>1
    <2>3. \A v \in D : ScanOK(v, scc[v])'
      BY <1>6, <2>2 DEF SameSending
    <2> QED
      BY <1>9, <1>10, <1>11, <2>3 DEF ScansOK
  <1>13. /\ \A v \in D : sc[v].at = "write" => lk[sc[v].r] = v
         /\ \A q \in 1 .. n : lk[q] # NoThread => lk[q] \in D /\ sc[lk[q]].at = "write" /\ sc[lk[q]].r = q
    BY <1>2, <1>9 DEF Locked
  <1>14. \A v \in D : scc[v].at = "write" => scc[v].r \in 1 .. n
    <2>1. \A v \in D : scc[v].at = "write" => scc[v].r \in 1 .. n
      BY <1>9, <1>10, <1>11, <1>12, <1>4 DEF ScansOK, ScanOK
    <2> QED
      BY <2>1
  <1>15. NoThread \notin D
    <2>1. SourcesRight
      BY <1>2, SourcesAreRight
    <2> QED
      BY <1>9, <2>1 DEF SourcesRight, NoThread
  <1>16. /\ \A q \in 1 .. n : lkk[q] = lk[q] \/ (lkk[q] \in {NoThread, s} /\ lk[q] \in {NoThread, s})
         /\ \A q \in 1 .. n : lkk[q] = s <=> st.at = "write" /\ st.r = q
    BY <1>9 DEF LocksOf
  <1>17. /\ \A v \in D : scc[v].at = "write" => lkk[scc[v].r] = v
         /\ \A q \in 1 .. n : lkk[q] # NoThread => lkk[q] \in D /\ scc[lkk[q]].at = "write" /\ scc[lkk[q]].r = q
    <2>1. ASSUME NEW v \in D, scc[v].at = "write"
          PROVE  lkk[scc[v].r] = v
      <3>1. PICK q : q = scc[v].r
        OBVIOUS
      <3>2. q \in 1 .. n
        BY <1>14, <2>1, <3>1
      <3>3. CASE v = s
        BY <1>11, <1>16, <2>1, <3>1, <3>2, <3>3
      <3>4. CASE v # s
        <4>1. lk[q] = v
          BY <1>11, <1>13, <2>1, <3>1, <3>4
        <4> QED
          BY <1>15, <1>16, <3>1, <3>2, <3>4, <4>1
      <3> QED
        BY <3>3, <3>4
    <2>2. ASSUME NEW q \in 1 .. n, lkk[q] # NoThread
          PROVE  lkk[q] \in D /\ scc[lkk[q]].at = "write" /\ scc[lkk[q]].r = q
      <3>1. CASE lkk[q] = s
        BY <1>11, <1>16, <3>1
      <3>2. CASE lkk[q] # s
        <4>1. lkk[q] = lk[q]
          BY <1>16, <2>2, <3>2
        <4> QED
          BY <1>11, <1>13, <2>2, <3>2, <4>1
      <3> QED
        BY <3>1, <3>2
    <2> QED
      BY <2>1, <2>2
  <1>18. Locked'
    BY <1>9, <1>10, <1>17 DEF Locked
  <1>19. ScansFine' <=> ScansFine /\ st.at # "failed"
    BY <1>1, <1>9, <1>11 DEF ScansFine
  <1>20. main.faults \in Nat
    BY <1>2 DEF MainTyped, ThreadTyped
  <1>21. Faultless' /\ FailedForFault'
    <2>1. ScansFine' => main'.faults = 0
      BY <1>1, <1>2, <1>19 DEF Faultless
    <2>2. ~ ScansFine' => main'.faults > 0
      <3>1. CASE st.at = "failed"
        BY <1>1, <1>20, <3>1
      <3>2. CASE st.at # "failed"
        BY <1>1, <1>2, <1>19, <3>2 DEF FailedForFault
      <3> QED
        BY <3>1, <3>2
    <2> QED
      BY <1>3, <2>1, <2>2 DEF Faultless, FailedForFault
  <1>22. Filed'
    <2> SUFFICES ASSUME ScansFine, st.at # "failed"
                 PROVE  /\ \A q \in 1 .. n : fll[q].recs \subseteq Fit(q)'
                        /\ \A q \in 1 .. n : lkk[q] = NoThread => fll[q].half = <<>>
                        /\ InMemory' => \A q \in 1 .. n : fll[q].recs = {}
                        /\ \A v \in D : Kept(v, scc[v], fll)'
                        /\ \A v \in D : scc[v].at = "write" => Writes(scc[v], fll[scc[v].r])
      BY <1>9, <1>10, <1>19 DEF Filed
    <2>1. /\ \A q \in 1 .. n : /\ fl[q].recs \subseteq fll[q].recs /\ fll[q].recs \subseteq Fit(q)
                               /\ lkk[q] = NoThread => fll[q].half = <<>>
                               /\ lkk[q] # s \/ InMemory => fll[q] = fl[q]
          /\ Kept(s, st, fll)
          /\ st.at = "write" => Writes(st, fll[st.r])
      BY <1>9 DEF FilesOf
    <2>2. /\ \A v \in D : Kept(v, sc[v], fl)
          /\ \A v \in D : sc[v].at = "write" => Writes(sc[v], fl[sc[v].r])
          /\ InMemory => \A q \in 1 .. n : fl[q].recs = {}
      BY <1>2, <1>9 DEF Filed
    <2>3. \A v \in D : Kept(v, scc[v], fll)'
      <3>1. ASSUME NEW v \in D
            PROVE  Kept(v, scc[v], fll)
        <4>1. CASE v = s
          BY <1>11, <2>1, <4>1
        <4>2. CASE v # s
          <5>1. Kept(v, sc[v], fl) /\ scc[v] = sc[v]
            BY <1>11, <2>2, <4>2
          <5>2. \A q \in 1 .. n : fl[q].recs \subseteq fll[q].recs
            BY <2>1
          <5> QED
            BY ONLY <1>9, <5>1, <5>2 DEF Kept
        <4> QED
          BY <4>1, <4>2
      <3> QED
        BY <1>6, <3>1 DEF SameSending
    <2>4. \A v \in D : scc[v].at = "write" => Writes(scc[v], fll[scc[v].r])
      <3> SUFFICES ASSUME NEW v \in D, scc[v].at = "write"
                   PROVE  Writes(scc[v], fll[scc[v].r])
        OBVIOUS
      <3>1. CASE v = s
        BY <1>11, <2>1, <3>1
      <3>2. CASE v # s
        <4>1. scc[v] = sc[v] /\ lkk[scc[v].r] = v /\ scc[v].r \in 1 .. n
          BY <1>11, <1>14, <1>17, <3>2
        <4>2. fll[sc[v].r] = fl[sc[v].r]
          BY <2>1, <3>2, <4>1
        <4> QED
          BY <2>2, <4>1, <4>2
      <3> QED
        BY <3>1, <3>2
    <2>5. \A q : Fit(q)' = Fit(q)
      BY <1>6 DEF SameSending
    <2>6. InMemory' => \A q \in 1 .. n : fll[q].recs = {}
      BY <1>5, <2>1, <2>2 DEF SameFiles
    <2> QED
      BY <2>1, <2>3, <2>4, <2>5, <2>6
  <1>23. RangeTyped'
    <2>1. RangesOK(range')
      OBVIOUS
    <2> QED
      BY ONLY <1>9, <1>10, <2>1 DEF RangeTyped, RangesOK
  <1> QED
    BY <1>5, <1>7, <1>8, <1>12, <1>18, <1>21, <1>22, <1>23 DEF CInv

\* What holds of a thread before its step.
ScanKnown(s) ==
    /\ s \in DOMAIN Sources /\ SourcesRight /\ PlacesRight /\ ScanOK(s, scanner[s]) /\ RangesOK(range) /\ Locked
    /\ ScansFine => Kept(s, scanner[s], range.file) /\ (scanner[s].at = "write" =>
                                                            Writes(scanner[s], range.file[scanner[s].r]))
    /\ ScansFine => \A q \in 1 .. Files : /\ range.file[q].recs \subseteq Fit(q)
                                          /\ range.lock[q] = NoThread => range.file[q].half = <<>>
    /\ s # NoThread /\ Sends

\* What the invariant says of a thread that sends.
LEMMA ScansKnown ==
    ASSUME CInv, main.at = "place", NEW s \in DOMAIN scanner
    PROVE  ScanKnown(s)
  <1>1. /\ MainTyped /\ HasAll /\ AllCounted /\ HashBuilt /\ ScansOK /\ RangeTyped /\ Locked /\ Filed
        /\ Counted /\ Sends
    BY DEF CInv, Counted, Sends
  <1>2. s \in DOMAIN Sources /\ ScanOK(s, scanner[s])
    BY <1>1 DEF ScansOK
  <1>3. SourcesRight
    BY <1>1, SourcesAreRight
  <1>4. PlacesRight
    <2>1. Keys \subseteq Pair
      BY <1>1, SourcesAre
    <2> QED
      BY <1>1, <2>1, PlacesAreRight
  <1>5. s # NoThread
    BY <1>2, <1>3 DEF SourcesRight, NoThread
  <1>6. RangesOK(range)
    BY <1>1 DEF RangeTyped
  <1>7. ScansFine => /\ Kept(s, scanner[s], range.file)
                     /\ scanner[s].at = "write" => Writes(scanner[s], range.file[scanner[s].r])
                     /\ \A q \in 1 .. Files : /\ range.file[q].recs \subseteq Fit(q)
                                              /\ range.lock[q] = NoThread => range.file[q].half = <<>>
    BY <1>1, <1>2 DEF Filed
  <1> QED
    BY <1>1, <1>2, <1>3, <1>4, <1>5, <1>6, <1>7 DEF ScanKnown

\* A step that touches no file.
LEMMA QuietStep ==
    ASSUME CInv, main.at = "place", NEW s \in DOMAIN scanner, NEW st,
           UNCHANGED <<main, job, scratch, merger, outcome, range>>, scanner' = [scanner EXCEPT ![s] = st],
           scanner[s].at \notin {"write", "failed"}, st.at \notin {"write", "failed"},
           ScanOK(s, st), ScansFine => Kept(s, st, range.file)
    PROVE  CInv'
  <1>1. ScanKnown(s)
    BY ScansKnown
  <1>2. StepOf(s, st)
    <2>1. main' = [main EXCEPT !.faults = main'.faults] /\ main'.faults \in Nat /\ main'.faults = main.faults
      BY DEF CInv, MainTyped, ThreadTyped
    <2> QED
      BY <2>1 DEF StepOf
  <1>3. RangesOK(range')
    BY <1>1 DEF ScanKnown, RangesOK
  <1>4. LocksOf(s, st)
    <2>1. \A q \in 1 .. Files : range.lock[q] # s
      BY <1>1 DEF ScanKnown, Locked
    <2> QED
      BY <2>1 DEF LocksOf
  <1>5. ScansFine => FilesOf(s, st)
    <2> SUFFICES ASSUME ScansFine PROVE FilesOf(s, st)
      OBVIOUS
    <2>1. range' = range /\ Kept(s, st, range.file)
      OBVIOUS
    <2>2. \A q \in 1 .. Files : /\ range.file[q].recs \subseteq Fit(q)
                                /\ range.lock[q] = NoThread => range.file[q].half = <<>>
      BY <1>1 DEF ScanKnown
    <2> QED
      BY <2>1, <2>2 DEF FilesOf
  <1> QED
    BY <1>2, <1>3, <1>4, <1>5, ScanStep

\* What is kept does not change with where the thread is.
LEMMA KeptSame ==
    ASSUME NEW s, NEW st, NEW su, NEW file, su.placed = st.placed, su.stage = st.stage, Kept(s, st, file)
    PROVE  Kept(s, su, file)
  BY DEF Kept

\* The thread reads on, to the end of a batch.
LEMMA ScanKeeps ==
    ASSUME CInv, main.at = "place", NEW s \in DOMAIN scanner, Scan(s),
           UNCHANGED <<job, scratch, merger, outcome>>
    PROVE  CInv'
  <1>1. ScanKnown(s)
    BY ScansKnown
  <1>2. PICK old, e, len : old = scanner[s] /\ e = BatchEnd(s) /\ len = Len(Sources[s])
    OBVIOUS
  <1>3. PICK st : st = [old EXCEPT !.at = IF Unplaced(s, e) = {} THEN "flush" ELSE "put", !.read = e, !.r = 1]
    OBVIOUS
  <1>4. old.at = "scan" /\ UNCHANGED <<main, range>> /\ scanner' = [scanner EXCEPT ![s] = st]
    BY <1>2, <1>3 DEF Scan, Became, Me
  <1>5. ScanOK(s, old) /\ old \in ScanStates
    BY <1>1, <1>2 DEF ScanKnown, ScanOK
  <1>6. len \in Nat /\ old.read \in Nat /\ old.placed \in Nat /\ old.placed <= old.read /\ old.read <= len
    BY <1>1, <1>2, <1>5 DEF ScanKnown, SourcesRight, ScanOK, ScanStates
  <1>7. \A j : Unplaced(s, j) = Pending(s, old.placed, j)
    BY <1>2 DEF Unplaced, Pending, Me
  <1>8. e \in old.read .. len /\ (e = len \/ Unplaced(s, e) # {})
    <2>1. PICK full : full = {j \in old.read .. len : Cardinality(Unplaced(s, j)) = Batch}
      OBVIOUS
    <2>2. e = IF full = {} THEN len ELSE Least(full)
      BY <1>2, <2>1 DEF BatchEnd, Me
    <2>3. CASE full = {}
      BY <1>6, <2>2, <2>3
    <2>4. CASE full # {}
      <3>1. full \subseteq Nat
        BY <1>6, <2>1
      <3>2. \E x \in full : \A y \in full : x <= y
        BY ONLY <2>4, <3>1, LeastOf
      <3>3. e \in full
        BY <2>2, <2>4, <3>2 DEF Least
      <3>4. Cardinality(Unplaced(s, e)) = Batch /\ e \in old.read .. len
        BY <2>1, <3>3
      <3>5. Batch # 0
        BY StreamAssumption
      <3>6. Unplaced(s, e) # {}
        BY <3>4, <3>5, FS_EmptySet
      <3> QED
        BY <3>4, <3>6
    <2> QED
      BY <2>3, <2>4
  <1>9. PICK a : a = IF Unplaced(s, e) = {} THEN "flush" ELSE "put"
    OBVIOUS
  <1>10. /\ st = [old EXCEPT !.at = a, !.read = e, !.r = 1] /\ a \in {"flush", "put"}
         /\ (a = "flush" => Pending(s, old.placed, len) = {})
    BY <1>3, <1>7, <1>8, <1>9
  <1>11. /\ st \in ScanStates /\ st.at = a /\ st.read = e /\ st.r = 1 /\ st.placed = old.placed /\ st.stage = old.stage
         /\ st.split = old.split /\ st.left = old.left
    <2>1. e \in Nat
      BY <1>6, <1>8
    <2> QED
      BY ONLY <1>5, <1>10, <2>1 DEF ScanStates
  <1>12. ScanOK(s, st)
    <2>1. st.placed <= st.read /\ st.read <= len
      BY <1>6, <1>8, <1>11
    <2>2. ~ st.split /\ \A q \in 1 .. Files : ToSet(st.stage[q]) \subseteq Fit(q)
      BY <1>4, <1>5, <1>11 DEF ScanOK
    <2>3. \A q \in 1 .. Files : ~ (q < st.r)
      BY <1>11
    <2>4. Flushing(s, st) => a = "flush"
      BY <1>10, <1>11 DEF Flushing
    <2> QED
      BY ONLY <1>2, <1>10, <1>11, <2>1, <2>2, <2>3, <2>4 DEF ScanOK
  <1>13. ScansFine => Kept(s, st, range.file)
    <2> SUFFICES ASSUME ScansFine PROVE Kept(s, st, range.file)
      OBVIOUS
    <2>1. Kept(s, old, range.file)
      BY <1>1, <1>2 DEF ScanKnown
    <2> QED
      BY ONLY <1>11, <2>1, KeptSame
  <1>14. scanner[s].at \notin {"write", "failed"} /\ st.at \notin {"write", "failed"}
    BY <1>2, <1>4, <1>10, <1>11
  <1>15. UNCHANGED <<main, job, scratch, merger, outcome, range>>
    BY <1>4
  <1> QED
    BY <1>4, <1>12, <1>13, <1>14, <1>15, QuietStep

\* The thread sends the first pair of the batch, or goes to flush a full stage, or reads on.
LEMMA PutKeeps ==
    ASSUME CInv, main.at = "place", NEW s \in DOMAIN scanner, Put(s),
           UNCHANGED <<job, scratch, merger, outcome>>
    PROVE  CInv'
  <1>1. ScanKnown(s)
    BY ScansKnown
  <1>2. PICK old, src, batch : old = scanner[s] /\ src = Sources[s] /\ batch = Unplaced(s, old.read)
    OBVIOUS
  <1>3. PICK i, rec, r : i = Least(batch) /\ rec = Record(src[i]) /\ r = RangeOf(rec[1])
    OBVIOUS
  <1>4. PICK st : st = IF batch = {} THEN [old EXCEPT !.at = "scan"]
                       ELSE IF ~ InMemory /\ Len(old.stage[r]) = Stage THEN [old EXCEPT !.at = "lock", !.r = r]
                       ELSE [old EXCEPT !.placed = i, !.stage[r] = Append(@, rec)]
    OBVIOUS
  <1>5. old.at = "put" /\ UNCHANGED <<main, range>> /\ scanner' = [scanner EXCEPT ![s] = st]
    BY <1>2, <1>3, <1>4 DEF Put, Became, Me
  <1>6. ScanOK(s, old) /\ old \in ScanStates
    BY <1>1, <1>2 DEF ScanKnown, ScanOK
  <1>7. /\ Len(src) \in Nat /\ old.read \in Nat /\ old.placed \in Nat /\ old.placed <= old.read
        /\ old.read <= Len(src) /\ ~ old.split
    BY <1>1, <1>2, <1>5, <1>6 DEF ScanKnown, SourcesRight, ScanOK, ScanStates
  <1>8. batch = Pending(s, old.placed, old.read) /\ batch = {j \in Leads(src) : old.placed < j /\ j <= old.read}
    BY <1>2 DEF Unplaced, Pending, Me
  <1>9. ASSUME ScanOK(s, st), ScansFine => Kept(s, st, range.file), st.at \notin {"write", "failed"}
        PROVE  CInv'
    <2>1. scanner[s].at \notin {"write", "failed"}
      BY <1>2, <1>5
    <2>2. UNCHANGED <<main, job, scratch, merger, outcome, range>>
      BY <1>5
    <2> QED
      BY <1>5, <1>9, <2>1, <2>2, QuietStep
  <1>10. ScansFine => Kept(s, old, range.file)
    BY <1>1, <1>2 DEF ScanKnown
  <1>11. \A q \in 1 .. Files : ToSet(old.stage[q]) \subseteq Fit(q)
    BY <1>6 DEF ScanOK
  <1>12. CASE batch = {}
    <2>1. st = [old EXCEPT !.at = "scan"]
      BY <1>4, <1>12
    <2>2. /\ st \in ScanStates /\ st.at = "scan" /\ st.read = old.read /\ st.placed = old.placed
          /\ st.stage = old.stage /\ st.split = old.split
      BY ONLY <1>6, <2>1 DEF ScanStates
    <2>3. ScanOK(s, st)
      BY ONLY <1>2, <1>7, <1>8, <1>11, <1>12, <2>2 DEF ScanOK, Flushing
    <2>4. ScansFine => Kept(s, st, range.file)
      BY ONLY <1>10, <2>2, KeptSame
    <2> QED
      BY <1>9, <2>2, <2>3, <2>4
  <1>13. ASSUME batch # {}
         PROVE  /\ i \in Leads(src) /\ old.placed < i /\ i <= old.read /\ i \in Nat
                /\ \A j \in batch : i <= j
                /\ src[i] \in Lead(Keys) /\ r \in 1 .. Files /\ rec \in Nat \X Nat /\ rec \in Fit(r)
                /\ r = RangeOf(main.mph[src[i][1]])
    <2>1. Leads(src) \subseteq 1 .. Len(src) /\ \A j \in Leads(src) : src[j] \in Lead(Keys)
      BY <1>1, <1>2 DEF ScanKnown, SourcesRight
    <2>2. batch \subseteq Nat
      BY <1>7, <1>8, <2>1
    <2>3. \E x \in batch : \A y \in batch : x <= y
      BY ONLY <1>13, <2>2, LeastOf
    <2>4. i \in batch /\ \A j \in batch : i <= j
      BY <1>3, <2>3 DEF Least
    <2>5. PICK p : p = src[i]
      OBVIOUS
    <2>6. p \in Lead(Keys)
      BY <1>8, <2>1, <2>4, <2>5
    <2>7. /\ main.mph[p[1]] = SlotOf(Keys, p) /\ Record(p) = <<SlotOf(Keys, p), p[2]>> /\ Record(p) \in Nat \X Nat
          /\ RangeOf(SlotOf(Keys, p)) \in 1 .. Files /\ Record(p) \in Fit(RangeOf(SlotOf(Keys, p)))
      BY <1>1, <2>6 DEF ScanKnown, PlacesRight
    <2>8. rec[1] = SlotOf(Keys, p) /\ r = RangeOf(SlotOf(Keys, p))
      BY <1>3, <2>5, <2>7
    <2> QED
      BY <1>3, <1>8, <2>2, <2>4, <2>5, <2>6, <2>7, <2>8
  <1>14. CASE batch # {} /\ ~ InMemory /\ Len(old.stage[r]) = Stage
    <2>1. st = [old EXCEPT !.at = "lock", !.r = r]
      BY <1>4, <1>14
    <2>2. r \in 1 .. Files /\ r \in Nat
      BY <1>1, <1>13, <1>14 DEF ScanKnown, PlacesRight
    <2>3. /\ st \in ScanStates /\ st.at = "lock" /\ st.r = r /\ st.read = old.read /\ st.placed = old.placed
          /\ st.stage = old.stage /\ st.split = old.split
      BY ONLY <1>6, <2>1, <2>2 DEF ScanStates
    <2>4. ScanOK(s, st)
      BY ONLY <1>2, <1>7, <1>8, <1>11, <1>14, <2>2, <2>3 DEF ScanOK, Flushing
    <2>5. ScansFine => Kept(s, st, range.file)
      BY ONLY <1>10, <2>3, KeptSame
    <2> QED
      BY <1>9, <2>3, <2>4, <2>5
  <1>15. CASE batch # {} /\ ~ (~ InMemory /\ Len(old.stage[r]) = Stage)
    <2>1. st = [old EXCEPT !.placed = i, !.stage[r] = Append(@, rec)]
      BY <1>4, <1>15
    <2>2. PICK stage, one : stage = [old.stage EXCEPT ![r] = one] /\ one = Append(old.stage[r], rec)
      OBVIOUS
    <2>3. old.stage \in [1 .. Files -> Seq(Nat \X Nat)]
      BY <1>6 DEF ScanStates
    <2>4. one \in Seq(Nat \X Nat) /\ ToSet(one) = ToSet(old.stage[r]) \cup {rec}
      <3>1. PICK T, o : T = Nat \X Nat /\ o = old.stage[r]
        OBVIOUS
      <3>2. o \in Seq(T) /\ rec \in T
        BY <1>13, <1>15, <2>3, <3>1
      <3>3. Append(o, rec) \in Seq(T) /\ ToSet(Append(o, rec)) = ToSet(o) \cup {rec}
        BY ONLY <3>2, SetOfAppend
      <3> QED
        BY ONLY <2>2, <3>1, <3>3
    <2>5. /\ stage \in [1 .. Files -> Seq(Nat \X Nat)] /\ stage[r] = one
          /\ \A q \in 1 .. Files : q # r => stage[q] = old.stage[q]
      BY ONLY <1>13, <1>15, <2>2, <2>3, <2>4
    <2>6. st = [old EXCEPT !.placed = i, !.stage = stage]
      BY <1>6, <2>1, <2>2 DEF ScanStates
    <2>7. i \in Nat /\ i <= old.read /\ old.placed < i /\ r \in 1 .. Files /\ rec \in Fit(r)
      BY <1>13, <1>15
    <2>8. /\ st \in ScanStates /\ st.at = "put" /\ st.read = old.read /\ st.placed = i
          /\ st.stage = stage /\ st.split = old.split
      BY ONLY <1>5, <1>6, <2>5, <2>6, <2>7 DEF ScanStates
    <2>9. \A q \in 1 .. Files : ToSet(stage[q]) \subseteq Fit(q)
      BY <1>11, <2>4, <2>5, <2>7
    <2>10. ScanOK(s, st)
      BY ONLY <1>2, <1>7, <2>7, <2>8, <2>9 DEF ScanOK, Flushing
    <2>11. ScansFine => Kept(s, st, range.file)
      <3> SUFFICES ASSUME ScansFine, NEW j \in Leads(src), j <= i
                   PROVE  \E q \in 1 .. Files : /\ q = RangeOf(main.mph[src[j][1]])
                                                /\ Record(src[j]) \in ToSet(stage[q]) \cup range.file[q].recs
        BY <1>2, <2>8 DEF Kept
      <3>1. CASE j = i
        BY <1>3, <1>13, <1>15, <2>4, <2>5, <3>1
      <3>2. CASE j # i
        <4>1. j \in Nat
          BY <1>1, <1>2, <1>7 DEF ScanKnown, SourcesRight
        <4>2. j <= old.placed
          BY <1>7, <1>8, <1>13, <1>15, <2>7, <3>2, <4>1
        <4>3. PICK q \in 1 .. Files : /\ q = RangeOf(main.mph[src[j][1]])
                                      /\ Record(src[j]) \in ToSet(old.stage[q]) \cup range.file[q].recs
          BY <1>2, <1>10, <4>2 DEF Kept
        <4>4. ToSet(old.stage[q]) \subseteq ToSet(stage[q])
          BY <2>4, <2>5
        <4> QED
          BY <4>3, <4>4
      <3> QED
        BY <3>1, <3>2
    <2> QED
      BY <1>9, <2>8, <2>10, <2>11
  <1> QED
    BY <1>12, <1>14, <1>15

\* The thread goes on with the next stage, or is done.
LEMMA FlushKeeps ==
    ASSUME CInv, main.at = "place", NEW s \in DOMAIN scanner, Flush(s),
           UNCHANGED <<job, scratch, merger, outcome>>
    PROVE  CInv'
  <1>1. ScanKnown(s)
    BY ScansKnown
  <1>2. PICK old : old = scanner[s]
    OBVIOUS
  <1>3. PICK a : a = IF InMemory \/ old.r > RangeCount THEN "done" ELSE "lock"
    OBVIOUS
  <1>4. PICK st : st = [old EXCEPT !.at = a]
    OBVIOUS
  <1>5. old.at = "flush" /\ UNCHANGED <<main, range>> /\ scanner' = [scanner EXCEPT ![s] = st]
    BY <1>2, <1>3, <1>4 DEF Flush, Became, Me
  <1>6. ScanOK(s, old) /\ old \in ScanStates
    BY <1>1, <1>2 DEF ScanKnown, ScanOK
  <1>7. a \in {"done", "lock"} /\ old.r \in Nat
    BY <1>3, <1>6 DEF ScanStates
  <1>8. /\ st \in ScanStates /\ st.at = a /\ st.read = old.read /\ st.placed = old.placed /\ st.r = old.r
        /\ st.stage = old.stage /\ st.split = old.split
    BY ONLY <1>4, <1>6, <1>7 DEF ScanStates
  <1>9. Flushing(s, old)
    BY <1>5 DEF Flushing
  <1>10. /\ old.placed <= old.read /\ old.read <= Len(Sources[s]) /\ ~ old.split /\ old.r >= 1
         /\ Pending(s, old.placed, Len(Sources[s])) = {}
         /\ \A q \in 1 .. Files : q < old.r => old.stage[q] = <<>>
         /\ \A q \in 1 .. Files : ToSet(old.stage[q]) \subseteq Fit(q)
    BY <1>5, <1>6, <1>9 DEF ScanOK
  <1>11. Files \in Nat /\ (~ InMemory => Files = RangeCount)
    BY <1>1 DEF ScanKnown, PlacesRight, Files
  <1>12. a = "done" /\ ~ InMemory => \A q \in 1 .. Files : old.stage[q] = <<>>
    BY <1>3, <1>7, <1>10, <1>11
  <1>13. a = "lock" => ~ InMemory /\ old.r \in 1 .. Files
    BY <1>3, <1>7, <1>10, <1>11
  <1>14. ScanOK(s, st)
    BY ONLY <1>7, <1>8, <1>10, <1>12, <1>13 DEF ScanOK, Flushing
  <1>15. ScansFine => Kept(s, st, range.file)
    <2> SUFFICES ASSUME ScansFine PROVE Kept(s, st, range.file)
      OBVIOUS
    <2>1. Kept(s, old, range.file)
      BY <1>1, <1>2 DEF ScanKnown
    <2> QED
      BY ONLY <1>8, <2>1, KeptSame
  <1>16. scanner[s].at \notin {"write", "failed"} /\ st.at \notin {"write", "failed"}
    BY <1>2, <1>5, <1>7, <1>8
  <1>17. UNCHANGED <<main, job, scratch, merger, outcome, range>>
    BY <1>5
  <1> QED
    BY <1>5, <1>14, <1>15, <1>16, <1>17, QuietStep

\* The thread takes the free lock of a range's file, to write the range's stage there.
LEMMA LockKeeps ==
    ASSUME CInv, main.at = "place", NEW s \in DOMAIN scanner, LockRange(s),
           UNCHANGED <<job, scratch, merger, outcome>>
    PROVE  CInv'
  <1>1. ScanKnown(s)
    BY ScansKnown
  <1>2. PICK old, r, st : /\ old = scanner[s] /\ r = old.r
                          /\ st = [old EXCEPT !.at = "write", !.left = old.stage[r]]
    OBVIOUS
  <1>3. /\ old.at = "lock" /\ range.lock[r] = NoThread /\ main' = main /\ scanner' = [scanner EXCEPT ![s] = st]
        /\ range' = [range EXCEPT !.lock[r] = s]
    BY <1>2 DEF LockRange, Became, Me, Free
  <1>4. ScanOK(s, old) /\ old \in ScanStates /\ RangesOK(range) /\ s # NoThread
    BY <1>1, <1>2 DEF ScanKnown, ScanOK
  <1>5. PICK n, lk, lkk : n = Files /\ lk = range.lock /\ lkk = [lk EXCEPT ![r] = s]
    OBVIOUS
  <1>6. r \in 1 .. n /\ ~ old.split /\ ~ InMemory
    BY <1>2, <1>3, <1>4, <1>5 DEF ScanOK
  <1>7. lk = [q \in 1 .. n |-> lk[q]]
    BY <1>4, <1>5 DEF RangesOK
  <1>8. /\ range' = [lock |-> lkk, file |-> range.file] /\ DOMAIN lkk = 1 .. n
        /\ lkk[r] = s /\ \A q \in 1 .. n : q # r => lkk[q] = lk[q]
    <2>1. range = [lock |-> lk, file |-> range.file]
      BY <1>4, <1>5 DEF RangesOK
    <2>2. range' = [lock |-> lkk, file |-> range.file]
      BY ONLY <1>3, <1>5, <2>1
    <2> QED
      BY ONLY <1>5, <1>6, <1>7, <2>2
  <1>9. old.stage[r] \in Seq(Nat \X Nat) /\ old.stage \in [1 .. n -> Seq(Nat \X Nat)]
    BY <1>4, <1>5, <1>6 DEF ScanStates
  <1>10. /\ st \in ScanStates /\ st.at = "write" /\ st.read = old.read /\ st.placed = old.placed /\ st.r = r
         /\ st.stage = old.stage /\ st.split = old.split /\ st.left = old.stage[r]
    BY ONLY <1>2, <1>4, <1>9 DEF ScanStates
  <1>11. ScanOK(s, st)
    BY ONLY <1>2, <1>3, <1>4, <1>6, <1>10 DEF ScanOK, Flushing
  <1>12. StepOf(s, st)
    <2>1. main' = [main EXCEPT !.faults = main'.faults] /\ main'.faults \in Nat /\ main'.faults = main.faults
      BY <1>3 DEF CInv, MainTyped, ThreadTyped
    <2>2. scanner[s].at # "failed"
      BY <1>2, <1>3
    <2> QED
      BY <1>3, <1>10, <2>1, <2>2 DEF StepOf
  <1>13. RangesOK(range')
    <2>1. range.file \in [1 .. n -> [recs : SUBSET (Nat \X Nat), half : Seq(Nat)]]
      BY <1>4, <1>5 DEF RangesOK
    <2>2. lkk = [q \in 1 .. n |-> lkk[q]]
      BY <1>5, <1>7
    <2> QED
      BY ONLY <1>5, <1>8, <2>1, <2>2 DEF RangesOK
  <1>14. \A q \in 1 .. n : lk[q] # s
    BY <1>1, <1>2, <1>3, <1>5 DEF ScanKnown, Locked
  <1>15. LocksOf(s, st)
    <2>1. \A q \in 1 .. n : /\ lkk[q] = lk[q] \/ (lkk[q] \in {NoThread, s} /\ lk[q] \in {NoThread, s})
                            /\ lkk[q] = s <=> st.at = "write" /\ st.r = q
      BY <1>3, <1>5, <1>8, <1>10, <1>14
    <2> QED
      BY ONLY <1>5, <1>8, <2>1 DEF LocksOf
  <1>16. ScansFine => FilesOf(s, st)
    <2> SUFFICES ASSUME ScansFine PROVE FilesOf(s, st)
      OBVIOUS
    <2>1. /\ Kept(s, old, range.file)
          /\ \A q \in 1 .. n : /\ range.file[q].recs \subseteq Fit(q)
                               /\ range.lock[q] = NoThread => range.file[q].half = <<>>
      BY <1>1, <1>2, <1>5 DEF ScanKnown
    <2>2. Kept(s, st, range.file)
      BY ONLY <1>10, <2>1, KeptSame
    <2>3. Writes(st, range.file[st.r])
      BY <1>3, <1>6, <1>10, <2>1 DEF Writes
    <2>4. range'.file = range.file /\ range'.lock = lkk
      BY <1>8
    <2>5. \A q \in 1 .. n : lkk[q] = NoThread => lk[q] = NoThread
      BY <1>3, <1>5, <1>8
    <2> QED
      BY ONLY <1>5, <1>10, <2>1, <2>2, <2>3, <2>4, <2>5 DEF FilesOf
  <1> QED
    BY <1>11, <1>12, <1>13, <1>15, <1>16, ScanStep

\* The thread writes half a record to the file it holds.
LEMMA WriteKeeps ==
    ASSUME CInv, main.at = "place", NEW s \in DOMAIN scanner, WriteRange(s),
           UNCHANGED <<job, scratch, merger, outcome>>
    PROVE  CInv'
  <1>1. ScanKnown(s)
    BY ScansKnown
  <1>2. PICK old, r, left, rec, f : /\ old = scanner[s] /\ r = old.r /\ left = old.left /\ rec = Head(left)
                                    /\ f = range.file[r]
    OBVIOUS
  <1>3. PICK st : st = IF old.split THEN [old EXCEPT !.left = Tail(left), !.split = FALSE]
                       ELSE [old EXCEPT !.split = TRUE]
    OBVIOUS
  <1>4. PICK ff : ff = IF old.split THEN Appended(f, rec[2]) ELSE Appended(f, rec[1])
    OBVIOUS
  <1>5. ScanOK(s, old) /\ old \in ScanStates /\ RangesOK(range) /\ s # NoThread
    BY <1>1, <1>2 DEF ScanKnown, ScanOK
  <1>6. /\ old.at = "write" /\ left # <<>> /\ main' = main /\ scanner' = [scanner EXCEPT ![s] = st]
        /\ range' = [range EXCEPT !.file[r] = ff]
    <2>1. old.at = "write" /\ left # <<>> /\ main' = main
      BY <1>2 DEF WriteRange, Me
    <2>2. old.split \in BOOLEAN
      BY <1>5 DEF ScanStates
    <2>3. CASE old.split
      BY <1>2, <1>3, <1>4, <2>1, <2>3 DEF WriteRange, Me, Became
    <2>4. CASE ~ old.split
      BY <1>2, <1>3, <1>4, <2>1, <2>4 DEF WriteRange, Me, Became
    <2> QED
      BY <2>1, <2>3, <2>4
  <1>7. PICK n, fl, fll : n = Files /\ fl = range.file /\ fll = [fl EXCEPT ![r] = ff]
    OBVIOUS
  <1>8. PICK T, F : T = Nat \X Nat /\ F = [recs : SUBSET T, half : Seq(Nat)]
    OBVIOUS
  <1>9. /\ r \in 1 .. n /\ ~ InMemory /\ fl \in [1 .. n -> F] /\ f = fl[r] /\ f \in F /\ old.split \in BOOLEAN
        /\ left \in Seq(T) /\ range.lock[r] = s
    <2>1. r \in 1 .. n /\ ~ InMemory
      BY <1>2, <1>5, <1>6, <1>7 DEF ScanOK
    <2>2. fl \in [1 .. n -> F] /\ f = fl[r] /\ f \in F
      BY <1>2, <1>5, <1>7, <1>8, <2>1 DEF RangesOK
    <2>3. left \in Seq(T) /\ old.split \in BOOLEAN
      BY <1>2, <1>5, <1>8 DEF ScanStates
    <2>4. range.lock[r] = s
      BY <1>1, <1>2, <1>6 DEF ScanKnown, Locked
    <2> QED
      BY <2>1, <2>2, <2>3, <2>4
  <1>10. Tail(left) \in Seq(T) /\ rec \in T /\ rec \in ToSet(left) /\ ToSet(left) = {rec} \cup ToSet(Tail(left))
    BY ONLY <1>2, <1>6, <1>9, SetOfTail
  <1>11. rec = <<rec[1], rec[2]>> /\ rec[1] \in Nat /\ rec[2] \in Nat
    BY ONLY <1>8, <1>10
  <1>12. PICK word : word = IF old.split THEN rec[2] ELSE rec[1]
    OBVIOUS
  <1>13. word \in Nat /\ ff = Appended(f, word)
    BY ONLY <1>4, <1>11, <1>12
  <1>14. ff \in F /\ f.recs \subseteq ff.recs
    <2>1. f = [recs |-> f.recs, half |-> f.half] /\ f.recs \subseteq T /\ f.half \in Seq(Nat)
      BY ONLY <1>8, <1>9
    <2>2. CASE f.half = <<>>
      <3>1. ff = [recs |-> f.recs, half |-> <<word>>]
        BY ONLY <1>13, <2>1, <2>2 DEF Appended
      <3>2. <<word>> \in Seq(Nat)
        BY ONLY <1>13
      <3> QED
        BY ONLY <1>8, <2>1, <3>1, <3>2
    <2>3. CASE f.half # <<>>
      <3>1. ff = [recs |-> f.recs \cup {<<f.half[1], word>>}, half |-> <<>>]
        BY ONLY <1>13, <2>3 DEF Appended
      <3>2. f.half[1] \in Nat
        BY ONLY <2>1, <2>3
      <3>3. <<f.half[1], word>> \in T
        BY ONLY <1>8, <1>13, <3>2
      <3> QED
        BY ONLY <1>8, <2>1, <3>1, <3>3
    <2> QED
      BY <2>2, <2>3
  <1>15. /\ range' = [lock |-> range.lock, file |-> fll] /\ fll \in [1 .. n -> F]
         /\ fll[r] = ff /\ \A q \in 1 .. n : q # r => fll[q] = fl[q]
    <2>1. range = [lock |-> range.lock, file |-> fl]
      BY <1>5, <1>7 DEF RangesOK
    <2>2. range' = [lock |-> range.lock, file |-> fll]
      BY ONLY <1>6, <1>7, <2>1
    <2> QED
      BY ONLY <1>7, <1>9, <1>14, <2>2
  <1>16. /\ st \in ScanStates /\ st.at = "write" /\ st.read = old.read /\ st.placed = old.placed /\ st.r = r
         /\ st.stage = old.stage /\ st.split = (~ old.split)
         /\ st.left = IF old.split THEN Tail(left) ELSE left
    <2>1. CASE old.split
      <3>1. st = [old EXCEPT !.left = Tail(left), !.split = FALSE]
        BY <1>3, <2>1
      <3>2. Tail(left) \in Seq(Nat \X Nat)
        BY <1>8, <1>10
      <3> QED
        BY ONLY <1>2, <1>5, <1>6, <2>1, <3>1, <3>2 DEF ScanStates
    <2>2. CASE ~ old.split
      <3>1. st = [old EXCEPT !.split = TRUE]
        BY <1>3, <2>2
      <3> QED
        BY ONLY <1>2, <1>5, <1>6, <2>2, <3>1 DEF ScanStates
    <2> QED
      BY <2>1, <2>2
  <1>17. ScanOK(s, st)
    BY ONLY <1>2, <1>5, <1>6, <1>9, <1>16 DEF ScanOK, Flushing
  <1>18. StepOf(s, st)
    <2>1. main' = [main EXCEPT !.faults = main'.faults] /\ main'.faults \in Nat /\ main'.faults = main.faults
      BY <1>6 DEF CInv, MainTyped, ThreadTyped
    <2>2. scanner[s].at # "failed"
      BY <1>2, <1>6
    <2> QED
      BY <1>6, <1>16, <2>1, <2>2 DEF StepOf
  <1>19. RangesOK(range')
    <2>1. range.lock = [q \in 1 .. n |-> range.lock[q]]
      BY <1>5, <1>7 DEF RangesOK
    <2> QED
      BY ONLY <1>7, <1>8, <1>15, <2>1 DEF RangesOK
  <1>20. LocksOf(s, st)
    <2>1. \A q \in 1 .. n : range.lock[q] = s <=> r = q
      BY <1>1, <1>2, <1>6, <1>7, <1>9 DEF ScanKnown, Locked
    <2>2. range'.lock = range.lock
      BY <1>15
    <2> QED
      BY ONLY <1>7, <1>16, <2>1, <2>2 DEF LocksOf
  <1>21. ScansFine => FilesOf(s, st)
    <2> SUFFICES ASSUME ScansFine PROVE FilesOf(s, st)
      OBVIOUS
    <2>1. /\ Kept(s, old, fl) /\ Writes(old, f)
          /\ \A q \in 1 .. n : /\ fl[q].recs \subseteq Fit(q)
                               /\ range.lock[q] = NoThread => fl[q].half = <<>>
      BY <1>1, <1>2, <1>6, <1>7 DEF ScanKnown
    <2>2. /\ ToSet(old.stage[r]) \subseteq ToSet(left) \cup f.recs /\ ToSet(left) \subseteq ToSet(old.stage[r])
          /\ f.half = IF old.split THEN <<rec[1]>> ELSE <<>>
      BY <1>2, <2>1 DEF Writes
    <2>3. rec \in Fit(r)
      <3>1. ToSet(old.stage[r]) \subseteq Fit(r)
        BY <1>5, <1>7, <1>9 DEF ScanOK
      <3> QED
        BY <1>10, <2>2, <3>1
    <2>4. ff.recs \subseteq Fit(r) /\ Writes(st, ff)
      <3>1. CASE old.split
        <4>1. f.half = <<rec[1]>> /\ f.half # <<>> /\ f.half[1] = rec[1] /\ word = rec[2]
          BY ONLY <1>12, <2>2, <3>1
        <4>2. ff = [recs |-> f.recs \cup {<<rec[1], rec[2]>>}, half |-> <<>>]
          BY ONLY <1>13, <4>1 DEF Appended
        <4>3. ff.recs = f.recs \cup {rec} /\ ff.half = <<>>
          BY ONLY <1>11, <4>2
        <4>4. f.recs \subseteq Fit(r)
          BY <1>9, <2>1
        <4>5. st.stage[st.r] = old.stage[r] /\ st.left = Tail(left) /\ ~ st.split
          BY <1>16, <3>1
        <4> QED
          BY ONLY <1>10, <2>2, <2>3, <4>3, <4>4, <4>5 DEF Writes
      <3>2. CASE ~ old.split
        <4>1. f.half = <<>> /\ word = rec[1]
          BY ONLY <1>12, <2>2, <3>2
        <4>2. ff.recs = f.recs /\ ff.half = <<rec[1]>>
          <5>1. f = [recs |-> f.recs, half |-> f.half]
            BY ONLY <1>8, <1>9
          <5> QED
            BY ONLY <1>13, <4>1, <5>1 DEF Appended
        <4>3. f.recs \subseteq Fit(r)
          BY <1>9, <2>1
        <4>4. st.stage[st.r] = old.stage[r] /\ st.left = left /\ st.split
          BY <1>16, <3>2
        <4> QED
          BY ONLY <1>2, <2>2, <4>2, <4>3, <4>4 DEF Writes
      <3> QED
        BY <1>9, <3>1, <3>2
    <2>5. \A q \in 1 .. n : fl[q].recs \subseteq fll[q].recs /\ fll[q].recs \subseteq Fit(q)
      BY ONLY <1>9, <1>14, <1>15, <2>1, <2>4
    <2>6. Kept(s, st, fll)
      <3>1. Kept(s, st, fl)
        BY ONLY <1>16, <2>1, KeptSame
      <3> QED
        BY ONLY <1>7, <2>5, <3>1 DEF Kept
    <2>7. \A q \in 1 .. n : range.lock[q] = NoThread => fll[q].half = <<>>
      BY ONLY <1>5, <1>9, <1>15, <2>1
    <2>8. \A q \in 1 .. n : range.lock[q] # s \/ InMemory => fll[q] = fl[q]
      BY ONLY <1>9, <1>15
    <2>9. range'.lock = range.lock /\ range'.file = fll
      BY <1>15
    <2>10. st.at = "write" => Writes(st, fll[st.r])
      BY <1>15, <1>16, <2>4
    <2> QED
      BY ONLY <1>7, <2>5, <2>6, <2>7, <2>8, <2>9, <2>10 DEF FilesOf
  <1> QED
    BY <1>17, <1>18, <1>19, <1>20, <1>21, ScanStep

\* The stage is in its file: the thread lets the lock go, and goes on where it was.
LEMMA WrittenKeeps ==
    ASSUME CInv, main.at = "place", NEW s \in DOMAIN scanner, Written(s),
           UNCHANGED <<job, scratch, merger, outcome>>
    PROVE  CInv'
  <1>1. ScanKnown(s)
    BY ScansKnown
  <1>2. PICK old, r : old = scanner[s] /\ r = old.r
    OBVIOUS
  <1>3. PICK stage, em : stage = [old.stage EXCEPT ![r] = <<>>] /\ em = [old EXCEPT !.stage = stage]
    OBVIOUS
  <1>4. PICK st : st = IF Unplaced(s, em.read) # {} THEN [em EXCEPT !.at = "put"]
                       ELSE [em EXCEPT !.at = "flush", !.r = @ + 1]
    OBVIOUS
  <1>5. ScanOK(s, old) /\ old \in ScanStates /\ RangesOK(range) /\ s # NoThread
    BY <1>1, <1>2 DEF ScanKnown, ScanOK
  <1>6. em = Emptied(old)
    BY <1>2, <1>3, <1>5 DEF Emptied, ScanStates
  <1>7. /\ old.at = "write" /\ old.left = <<>> /\ main' = main /\ scanner' = [scanner EXCEPT ![s] = st]
        /\ range' = [range EXCEPT !.lock[r] = NoThread]
    BY <1>2, <1>4, <1>6 DEF Written, Me, Became, LockAfter
  <1>8. PICK n, lk, lkk : n = Files /\ lk = range.lock /\ lkk = [lk EXCEPT ![r] = NoThread]
    OBVIOUS
  <1>9. r \in 1 .. n /\ r \in Nat /\ ~ InMemory /\ lk = [q \in 1 .. n |-> lk[q]] /\ lk[r] = s
    <2>1. r \in 1 .. n /\ ~ InMemory
      BY <1>2, <1>5, <1>7, <1>8 DEF ScanOK
    <2>2. lk = [q \in 1 .. n |-> lk[q]]
      BY <1>5, <1>8 DEF RangesOK
    <2>3. lk[r] = s
      BY <1>1, <1>2, <1>7, <1>8 DEF ScanKnown, Locked
    <2>4. r \in Nat
      BY <1>2, <1>5 DEF ScanStates
    <2> QED
      BY <2>1, <2>2, <2>3, <2>4
  <1>10. /\ range' = [lock |-> lkk, file |-> range.file] /\ lkk = [q \in 1 .. n |-> lkk[q]]
         /\ lkk[r] = NoThread /\ \A q \in 1 .. n : q # r => lkk[q] = lk[q]
    <2>1. range = [lock |-> lk, file |-> range.file]
      BY <1>5, <1>8 DEF RangesOK
    <2>2. range' = [lock |-> lkk, file |-> range.file]
      BY ONLY <1>7, <1>8, <2>1
    <2> QED
      BY ONLY <1>8, <1>9, <2>2
  <1>11. /\ old.stage \in [1 .. n -> Seq(Nat \X Nat)] /\ stage \in [1 .. n -> Seq(Nat \X Nat)]
         /\ stage[r] = <<>> /\ \A q \in 1 .. n : q # r => stage[q] = old.stage[q]
    <2>1. old.stage \in [1 .. n -> Seq(Nat \X Nat)]
      BY <1>5, <1>8 DEF ScanStates
    <2>2. <<>> \in Seq(Nat \X Nat)
      OBVIOUS
    <2> QED
      BY ONLY <1>3, <1>9, <2>1, <2>2
  <1>12. PICK pend : pend = Pending(s, old.placed, old.read)
    OBVIOUS
  <1>13. /\ em \in ScanStates /\ em.read = old.read /\ em.placed = old.placed /\ em.r = r /\ em.stage = stage
         /\ em.split = old.split
    <2>1. stage \in [1 .. Files -> Seq(Nat \X Nat)]
      BY <1>8, <1>11
    <2> QED
      BY ONLY <1>2, <1>3, <1>5, <2>1 DEF ScanStates
  <1>14. Unplaced(s, em.read) = pend
    BY <1>2, <1>12, <1>13 DEF Unplaced, Pending, Me
  <1>15. /\ st \in ScanStates /\ st.read = old.read /\ st.placed = old.placed /\ st.stage = stage
         /\ st.split = old.split
         /\ IF pend # {} THEN st.at = "put" ELSE st.at = "flush" /\ st.r = r + 1
    <2>1. CASE pend # {}
      <3>1. st = [em EXCEPT !.at = "put"]
        BY <1>4, <1>14, <2>1
      <3> QED
        BY ONLY <1>13, <2>1, <3>1 DEF ScanStates
    <2>2. CASE pend = {}
      <3>1. PICK k : k = r + 1
        OBVIOUS
      <3>2. st = [em EXCEPT !.at = "flush", !.r = k] /\ k \in Nat
        BY <1>4, <1>9, <1>13, <1>14, <2>2, <3>1
      <3> QED
        BY ONLY <1>13, <2>2, <3>1, <3>2 DEF ScanStates
    <2> QED
      BY <2>1, <2>2
  <1>16. /\ old.placed <= old.read /\ old.read <= Len(Sources[s]) /\ ~ old.split
         /\ \A q \in 1 .. n : ToSet(old.stage[q]) \subseteq Fit(q)
         /\ (pend = {} => /\ Pending(s, old.placed, Len(Sources[s])) = {}
                          /\ \A q \in 1 .. n : q < r => old.stage[q] = <<>>)
    BY <1>2, <1>5, <1>7, <1>8, <1>12 DEF ScanOK, Flushing
  <1>17. ScanOK(s, st)
    <2>1. ToSet(<<>>) = {}
      BY DEF ToSet
    <2>2. \A q \in 1 .. n : ToSet(stage[q]) \subseteq Fit(q)
      BY ONLY <1>9, <1>11, <1>16, <2>1
    <2>3. pend = {} => \A q \in 1 .. n : q < r + 1 => stage[q] = <<>>
      <3> SUFFICES ASSUME pend = {}, NEW q \in 1 .. n, q < r + 1 PROVE stage[q] = <<>>
        OBVIOUS
      <3>1. CASE q = r
        BY <1>11, <3>1
      <3>2. CASE q # r
        <4>1. n \in Nat
          BY <1>1, <1>8 DEF ScanKnown, PlacesRight
        <4>2. q < r
          BY <1>9, <3>2, <4>1
        <4> QED
          BY <1>11, <1>16, <3>2, <4>2
      <3> QED
        BY <3>1, <3>2
    <2>4. pend # {} => ~ Flushing(s, st) /\ st.at = "put"
      BY <1>15 DEF Flushing
    <2>5. pend = {} => st.at = "flush" /\ st.r = r + 1 /\ r + 1 >= 1
      BY <1>9, <1>15
    <2> QED
      BY ONLY <1>8, <1>15, <1>16, <2>2, <2>3, <2>4, <2>5 DEF ScanOK
  <1>18. st.at \notin {"write", "failed"}
    BY <1>15
  <1>19. StepOf(s, st)
    <2>1. main' = [main EXCEPT !.faults = main'.faults] /\ main'.faults \in Nat /\ main'.faults = main.faults
      BY <1>7 DEF CInv, MainTyped, ThreadTyped
    <2>2. scanner[s].at # "failed"
      BY <1>2, <1>7
    <2> QED
      BY <1>7, <1>18, <2>1, <2>2 DEF StepOf
  <1>20. RangesOK(range')
    <2>1. range.file \in [1 .. n -> [recs : SUBSET (Nat \X Nat), half : Seq(Nat)]]
      BY <1>5, <1>8 DEF RangesOK
    <2> QED
      BY ONLY <1>8, <1>10, <2>1 DEF RangesOK
  <1>21. \A q \in 1 .. n : q # r => lk[q] # s
    BY <1>1, <1>2, <1>5, <1>8 DEF ScanKnown, Locked
  <1>22. LocksOf(s, st)
    <2>1. \A q \in 1 .. n : /\ lkk[q] = lk[q] \/ (lkk[q] \in {NoThread, s} /\ lk[q] \in {NoThread, s})
                            /\ lkk[q] # s
      BY <1>5, <1>9, <1>10, <1>21
    <2> QED
      BY ONLY <1>8, <1>10, <1>18, <2>1 DEF LocksOf
  <1>23. ScansFine => FilesOf(s, st)
    <2> SUFFICES ASSUME ScansFine PROVE FilesOf(s, st)
      OBVIOUS
    <2>1. /\ Kept(s, old, range.file) /\ Writes(old, range.file[r])
          /\ \A q \in 1 .. n : /\ range.file[q].recs \subseteq Fit(q)
                               /\ range.lock[q] = NoThread => range.file[q].half = <<>>
      BY <1>1, <1>2, <1>7, <1>8 DEF ScanKnown
    <2>2. ToSet(old.stage[r]) \subseteq range.file[r].recs /\ range.file[r].half = <<>>
      <3>1. ToSet(<<>>) = {}
        BY DEF ToSet
      <3> QED
        BY ONLY <1>2, <1>7, <1>16, <2>1, <3>1 DEF Writes
    <2>3. Kept(s, st, range.file)
      BY ONLY <1>8, <1>11, <1>15, <2>1, <2>2 DEF Kept
    <2>4. \A q \in 1 .. n : lkk[q] = NoThread => range.file[q].half = <<>>
      BY <1>8, <1>10, <2>1, <2>2
    <2>5. range'.file = range.file /\ range'.lock = lkk
      BY <1>10
    <2> QED
      BY ONLY <1>8, <1>18, <2>1, <2>3, <2>4, <2>5 DEF FilesOf
  <1> QED
    BY <1>17, <1>19, <1>20, <1>22, <1>23, ScanStep

\* The thread fails, and the lock it may have held is free.
LEMMA ScanFailsKeeps ==
    ASSUME CInv, main.at = "place", NEW s \in DOMAIN scanner, ScanFails(s),
           UNCHANGED <<job, scratch, merger, outcome>>
    PROVE  CInv'
  <1>1. ScanKnown(s)
    BY ScansKnown
  <1>2. PICK old, r, st : old = scanner[s] /\ r = old.r /\ st = [old EXCEPT !.at = "failed"]
    OBVIOUS
  <1>3. /\ old.at \in {"write", "scan"} /\ main' = [main EXCEPT !.faults = main.faults + 1]
        /\ scanner' = [scanner EXCEPT ![s] = st]
        /\ range' = IF old.at = "write" THEN [range EXCEPT !.lock[r] = NoThread] ELSE range
    BY <1>2 DEF ScanFails, Me, Became
  <1>4. ScanOK(s, old) /\ old \in ScanStates /\ RangesOK(range) /\ s # NoThread
    BY <1>1, <1>2 DEF ScanKnown, ScanOK
  <1>5. /\ st \in ScanStates /\ st.at = "failed" /\ st.read = old.read /\ st.placed = old.placed
        /\ st.stage = old.stage /\ st.split = old.split
    BY ONLY <1>2, <1>4 DEF ScanStates
  <1>6. ScanOK(s, st)
    BY ONLY <1>4, <1>5 DEF ScanOK, Flushing
  <1>7. StepOf(s, st)
    <2>1. /\ main' = [main EXCEPT !.faults = main'.faults] /\ main'.faults \in Nat /\ main'.faults > main.faults
      BY <1>3 DEF CInv, MainTyped, ThreadTyped
    <2>2. scanner[s].at # "failed"
      BY <1>2, <1>3
    <2> QED
      BY <1>3, <1>5, <2>1, <2>2 DEF StepOf
  <1>8. PICK n, lk, lkk : n = Files /\ lk = range.lock /\ lkk = range'.lock
    OBVIOUS
  <1>9. range = [lock |-> lk, file |-> range.file] /\ lk = [q \in 1 .. n |-> lk[q]]
        /\ range.file \in [1 .. n -> [recs : SUBSET (Nat \X Nat), half : Seq(Nat)]]
    BY <1>4, <1>8 DEF RangesOK
  <1>10. range' = [lock |-> lkk, file |-> range.file] /\ lkk = [q \in 1 .. n |-> lkk[q]]
    <2>1. CASE old.at = "write"
      <3>1. range' = [lock |-> [lk EXCEPT ![r] = NoThread], file |-> range.file]
        <4>1. range' = [range EXCEPT !.lock[r] = NoThread]
          BY ONLY <1>3, <2>1
        <4>2. range = [lock |-> lk, file |-> range.file]
          BY ONLY <1>9
        <4> QED
          BY ONLY <4>1, <4>2
      <3>2. lkk = [lk EXCEPT ![r] = NoThread] /\ range' = [lock |-> lkk, file |-> range.file]
        BY ONLY <1>8, <3>1
      <3>3. lkk = [q \in 1 .. n |-> lkk[q]]
        BY ONLY <1>9, <3>2
      <3> QED
        BY ONLY <3>2, <3>3
    <2>2. CASE old.at # "write"
      BY ONLY <1>3, <1>8, <1>9, <2>2
    <2> QED
      BY <2>1, <2>2
  <1>11. RangesOK(range')
    BY ONLY <1>8, <1>9, <1>10 DEF RangesOK
  <1>12. \A q \in 1 .. n : lk[q] = s <=> old.at = "write" /\ r = q
    BY <1>1, <1>2, <1>4, <1>8 DEF ScanKnown, Locked
  <1>13. LocksOf(s, st)
    <2>1. \A q \in 1 .. n : /\ lkk[q] = lk[q] \/ (lkk[q] \in {NoThread, s} /\ lk[q] \in {NoThread, s})
                            /\ lkk[q] # s
      <3>1. CASE old.at = "write"
        <4>1. lkk = [lk EXCEPT ![r] = NoThread]
          BY ONLY <1>3, <1>8, <1>9, <3>1
        <4>2. \A q \in 1 .. n : (q = r => lkk[q] = NoThread) /\ (q # r => lkk[q] = lk[q])
          <5>1. DOMAIN lk = 1 .. n
            BY ONLY <1>9
          <5> QED
            BY ONLY <4>1, <5>1
        <4>3. \A q \in 1 .. n : q = r => lk[q] = s
          BY ONLY <1>12, <3>1
        <4> QED
          BY ONLY <1>4, <1>12, <4>2, <4>3
      <3>2. CASE old.at # "write"
        BY ONLY <1>3, <1>8, <1>12, <3>2
      <3> QED
        BY <3>1, <3>2
    <2> QED
      BY ONLY <1>5, <1>8, <2>1 DEF LocksOf
  <1> QED
    BY <1>5, <1>6, <1>7, <1>11, <1>13, ScanStep

-------------------------------------------------------------------------------
(* The end of the build. *)

\* Every thread is done, or one failed.
LEMMA PlacedKeeps ==
    ASSUME CInv, Placed
    PROVE  CInv'
  <1>1. /\ main.at = "place" /\ MainTyped /\ HasAll /\ AllCounted /\ Faultless /\ HashBuilt /\ ScansOK /\ RangeTyped
        /\ Locked /\ Filed /\ FailedForFault /\ Counted /\ Sends
    BY DEF CInv, Counted, Sends, Placed
  <1>2. CASE (\E s \in DOMAIN scanner : Me(s).at = "failed") /\ Fail
    <2>1. main.faults > 0
      BY <1>1, <1>2 DEF FailedForFault, ScansFine, Me
    <2> QED
      BY <1>2, <2>1, FailKeeps
  <1>3. ASSUME \A s \in DOMAIN scanner : Me(s).at = "done",
               NEW side, side = SideTable(FlattenSeq([s \in DOMAIN scanner |-> SideOf(Sources[s])]), main.m),
               main' = [main EXCEPT !.at = "write", !.side = side],
               UNCHANGED <<job, scratch, merger, scanner, range, outcome>>
        PROVE  CInv'
    <2>1. main' = [at |-> "write", input |-> main.input, run |-> main.run, faults |-> main.faults, n |-> main.n,
                   m |-> main.m, mph |-> main.mph, side |-> side]
      BY ONLY <1>1, <1>3 DEF MainTyped, ThreadTyped
    <2>2. ThreadTyped' /\ Counted' /\ Sends'
      BY <1>1, <2>1 DEF MainTyped, ThreadTyped, Counted, Sends
    <2>3. /\ MainTyped' /\ Reading' /\ HasAll' /\ AllCounted' /\ ClaimedOnce' /\ MergedWhole'
          /\ PublishesTheKeys' /\ ErrorsSurface' /\ SameFiles
      <3>1. scratch' = [scratch EXCEPT !.dir = scratch'.dir]
        BY <1>1, <1>3 DEF MainTyped, ScratchTyped
      <3>2. main'.run = main.run /\ main'.n = main.n /\ main'.m = main.m
        BY ONLY <2>1
      <3>3. UNCHANGED <<job, outcome>>
        BY ONLY <1>3
      <3> QED
        BY ONLY <1>1, <2>2, <3>1, <3>2, <3>3, CountedFrame
    <2>4. SameSending
      <3>1. main'.mph = main.mph
        BY ONLY <2>1
      <3> QED
        BY ONLY <2>3, <3>1, SameSends
    <2>5. HashBuilt'
      <3>1. KeyHash' = KeyHash /\ main'.mph = main.mph
        BY ONLY <2>1, <2>3 DEF SameFiles
      <3>2. PICK K, KK : K = KeyHash /\ KK = KeyHash'
        OBVIOUS
      <3>3. [h \in KK |-> index(KK, h)] = [h \in K |-> index(K, h)]
        BY ONLY <3>1, <3>2
      <3>4. main.mph = [h \in K |-> index(K, h)]
        BY ONLY <1>1, <3>2 DEF HashBuilt
      <3>5. main'.mph = [h \in KeyHash' |-> index(KeyHash', h)]
        BY ONLY <3>1, <3>2, <3>3, <3>4
      <3> QED
        BY ONLY <3>5 DEF HashBuilt
    <2>6. ScansFine
      BY <1>3 DEF ScansFine, Me
    <2>7. main.faults = 0 /\ ScansFine'
      BY <1>1, <1>3, <2>6 DEF Faultless, ScansFine
    <2>8. Faultless' /\ FailedForFault'
      BY <2>1, <2>7 DEF Faultless, FailedForFault
    <2>9. ScansOK'
      <3>1. \A s \in DOMAIN Sources : ScanOK(s, scanner[s]) /\ DOMAIN scanner = DOMAIN Sources
        BY <1>1 DEF ScansOK
      <3>2. PICK D, sc : D = DOMAIN Sources /\ sc = scanner
        OBVIOUS
      <3>3. \A s \in D : ScanOK(s, sc[s])'
        BY <2>4, <3>1, <3>2 DEF SameSending
      <3>4. D = DOMAIN Sources' /\ sc = scanner'
        BY <1>3, <2>3, <3>2 DEF SameFiles
      <3> QED
        BY <1>1, <3>2, <3>3, <3>4 DEF ScansOK
    <2>10. RangeTyped' /\ Locked'
      <3>1. Files' = Files /\ Sources' = Sources
        BY <2>3 DEF SameFiles
      <3> QED
        BY <1>1, <1>3, <3>1 DEF RangeTyped, RangesOK, Locked
    <2>11. Filed'
      <3>1. PICK D, n, sc, fl : D = DOMAIN Sources /\ n = Files /\ sc = scanner /\ fl = range.file
        OBVIOUS
      <3>2. D = DOMAIN Sources' /\ n = Files' /\ sc = scanner' /\ fl = range'.file /\ range' = range
            /\ InMemory' = InMemory
        BY <1>3, <2>3, <3>1 DEF SameFiles
      <3>3. /\ \A q \in 1 .. n : fl[q].recs \subseteq Fit(q)
            /\ \A q \in 1 .. n : range.lock[q] = NoThread => fl[q].half = <<>>
            /\ InMemory => \A q \in 1 .. n : fl[q].recs = {}
            /\ \A s \in D : Kept(s, sc[s], fl)
            /\ \A s \in D : sc[s].at = "write" => Writes(sc[s], fl[sc[s].r])
        BY <1>1, <2>6, <3>1 DEF Filed
      <3>4. (\A q \in 1 .. n : fl[q].recs \subseteq Fit(q)') /\ \A s \in D : Kept(s, sc[s], fl)'
        BY <2>4, <3>3 DEF SameSending
      <3> QED
        BY ONLY <3>2, <3>3, <3>4 DEF Filed
    <2>12. AllSent'
      <3>1. DOMAIN scanner = DOMAIN Sources
        BY <1>1 DEF ScansOK
      <3>2. SourcesRight
        BY <1>1, SourcesAreRight
      <3>3. [s \in DOMAIN scanner |-> SideOf(Sources[s])] = [s \in DOMAIN Sources |-> SideOf(Sources[s])]
        BY <3>1
      <3>4. FlattenSeq([s \in DOMAIN scanner |-> SideOf(Sources[s])]) = SideOf(Sorted(Keys))
        BY <3>2, <3>3 DEF SourcesRight
      <3>5. PICK a, b : a = FlattenSeq([s \in DOMAIN scanner |-> SideOf(Sources[s])]) /\ b = SideOf(Sorted(Keys))
        OBVIOUS
      <3>6. a = b
        BY ONLY <3>4, <3>5
      <3>7. side = SideTable(b, main.m)
        BY ONLY <1>3, <3>5, <3>6
      <3>8. Keys' = Keys /\ main'.m = main.m /\ main'.side = side
        BY ONLY <2>1, <2>3 DEF SameFiles
      <3>9. \A s \in DOMAIN scanner' : scanner'[s].at = "done"
        BY <1>3 DEF Me
      <3>10. b = SideOf(Sorted(Keys'))
        BY ONLY <3>5, <3>8
      <3>11. main'.side = SideTable(SideOf(Sorted(Keys')), main'.m)
        BY ONLY <3>7, <3>8, <3>10
      <3> QED
        BY ONLY <3>9, <3>11 DEF AllSent
    <2> QED
      BY <2>3, <2>5, <2>8, <2>9, <2>10, <2>11, <2>12 DEF CInv
  <1> QED
    <2>1. PICK side : side = SideTable(FlattenSeq([s \in DOMAIN scanner |-> SideOf(Sources[s])]), main.m)
      OBVIOUS
    <2> QED
      BY <1>2, <1>3, <2>1 DEF Placed

\* One fingerprint at a place is what is read there.
LEMMA OredOne ==
    ASSUME NEW sl, NEW v \in Nat
    PROVE  Ored({<<sl, v>>}) = v
  <1>1. {0} \cup {rec[2] : rec \in {<<sl, v>>}} = {0, v}
    OBVIOUS
  <1>2. PICK S : S = {0, v}
    OBVIOUS
  <1>3. v \in S /\ \A y \in S : y <= v
    BY <1>2
  <1>4. \A x \in S : (\A y \in S : y <= x) => x = v
    BY <1>2
  <1>5. Most(S) = v
    BY <1>3, <1>4 DEF Most
  <1> QED
    BY <1>1, <1>2, <1>5 DEF Ored

\* The records of a file that are at the slot of a pair that leads: that pair's.
LEMMA RecordsAt ==
    ASSUME PlacesRight, Keys \subseteq Pair, main.m = Cardinality(KeyHash), NEW p \in Lead(Keys),
           NEW q, NEW recs, recs \subseteq Fit(q), Record(p) \in recs
    PROVE  {rec \in recs : rec[1] = SlotOf(Keys, p)} = {<<SlotOf(Keys, p), p[2]>>}
  <1>1. Record(p) = <<SlotOf(Keys, p), p[2]>>
    BY DEF PlacesRight
  <1>2. PICK S, m : S = Keys /\ m = Cardinality(HashesOf(S))
    OBVIOUS
  <1>3. S \subseteq Pair
    BY <1>2
  <1>4. \A a, b \in Lead(S) : SlotOf(S, a) = SlotOf(S, b) => a = b
    BY ONLY <1>2, <1>3, SlotsAre
  <1>5. ASSUME NEW rec \in recs, rec[1] = SlotOf(Keys, p)
        PROVE  rec = Record(p)
    <2>1. PICK o \in Lead(Keys) : rec = Record(o)
      BY DEF Fit
    <2>2. Record(o) = <<SlotOf(Keys, o), o[2]>>
      BY DEF PlacesRight
    <2>3. SlotOf(Keys, o) = SlotOf(Keys, p)
      BY <1>5, <2>1, <2>2
    <2>4. o = p
      BY <1>2, <1>4, <2>3
    <2> QED
      BY <2>1, <2>4
  <1>6. (Record(p))[1] = SlotOf(Keys, p)
    BY <1>1
  <1>7. \A rec : rec \in {e \in recs : e[1] = SlotOf(Keys, p)} <=> rec = Record(p)
    BY <1>5, <1>6
  <1> QED
    BY <1>1, <1>7

\* Once all threads are done every pair that leads has its second hash at its slot.
LEMMA TableIs ==
    ASSUME CInv, main.at = "write"
    PROVE  /\ Table = [sl \in 0 .. main.m - 1 |-> Table[sl]]
           /\ \A p \in Lead(Keys) : Table[SlotOf(Keys, p)] = p[2]
           /\ ~ Torn
  <1>1. /\ MainTyped /\ HasAll /\ AllCounted /\ HashBuilt /\ ScansOK /\ RangeTyped
        /\ Locked /\ Filed /\ AllSent /\ Counted /\ Sends /\ main.m = Cardinality(KeyHash)
    BY DEF CInv, Counted, Sends, AllCounted
  <1>2. DOMAIN scanner = DOMAIN Sources /\ \A s \in DOMAIN Sources : ScanOK(s, scanner[s]) /\ scanner[s].at = "done"
    BY <1>1 DEF ScansOK, AllSent
  <1>3. ScansFine
    BY <1>2 DEF ScansFine
  <1>4. SourcesRight
    BY <1>1, SourcesAreRight
  <1>5. Keys \subseteq Pair
    BY <1>1, SourcesAre
  <1>6. PlacesRight
    BY <1>1, <1>5, PlacesAreRight
  <1>7. /\ \A q \in 1 .. Files : range.file[q].recs \subseteq Fit(q)
        /\ \A q \in 1 .. Files : range.lock[q] = NoThread => range.file[q].half = <<>>
        /\ InMemory => \A q \in 1 .. Files : range.file[q].recs = {}
        /\ \A s \in DOMAIN Sources : Kept(s, scanner[s], range.file)
    BY <1>1, <1>3 DEF Filed
  <1>8. \A q \in 1 .. Files : range.lock[q] = NoThread
    BY <1>1, <1>2 DEF Locked
  <1>9. ~ Torn
    <2>1. DOMAIN range.file = 1 .. Files
      BY <1>1 DEF RangeTyped, RangesOK
    <2> QED
      BY <1>7, <1>8, <2>1 DEF Torn
  <1>10. ASSUME NEW p \in Lead(Keys)
         PROVE  \E s \in DOMAIN Sources : \E q \in 1 .. Files :
                   /\ q = RangeOf(SlotOf(Keys, p))
                   /\ Record(p) \in ToSet(scanner[s].stage[q]) \cup range.file[q].recs
    <2>0. PICK s \in DOMAIN Sources : \E i \in Leads(Sources[s]) : Sources[s][i] = p
      BY <1>4 DEF SourcesRight
    <2>1. PICK i \in Leads(Sources[s]) : Sources[s][i] = p
      BY <2>0
    <2>2. PICK st, len : st = scanner[s] /\ len = Len(Sources[s])
      OBVIOUS
    <2>3. Pending(s, st.placed, len) = {} /\ st.placed \in Nat
      BY <1>2, <2>2 DEF ScanOK, ScanStates
    <2>4. i \in Nat /\ i <= len
      BY <1>4, <2>2 DEF SourcesRight
    <2>5. i <= st.placed
      BY <2>2, <2>3, <2>4 DEF Pending
    <2>6. main.mph[p[1]] = SlotOf(Keys, p)
      BY <1>6 DEF PlacesRight
    <2>7. Kept(s, st, range.file)
      BY <1>7, <2>2
    <2> QED
      BY <2>1, <2>2, <2>5, <2>6, <2>7 DEF Kept
  <1>11. PICK m : m = main.m
    OBVIOUS
  <1>12. \A p \in Lead(Keys) : SlotOf(Keys, p) \in 0 .. m - 1 /\ p[2] \in Nat /\ m \in Nat
    BY <1>6, <1>11 DEF PlacesRight
  <1>13. CASE InMemory
    <2>1. PICK recs : recs = ToSet(scanner[1].stage[1])
      OBVIOUS
    <2>2. Table = [sl \in 0 .. m - 1 |-> Ored({rec \in recs : rec[1] = sl})]
      BY <1>11, <1>13, <2>1 DEF Table, TableInMemory
    <2>3. DOMAIN Sources = {1} /\ Files = 1
      BY <1>4, <1>13 DEF SourcesRight, Files
    <2>4. recs \subseteq Fit(1)
      BY <1>2, <2>1, <2>3 DEF ScanOK
    <2>5. ASSUME NEW p \in Lead(Keys)
          PROVE  Table[SlotOf(Keys, p)] = p[2]
      <3>1. Record(p) \in recs
        BY <1>7, <1>10, <1>13, <2>1, <2>3
      <3>2. {rec \in recs : rec[1] = SlotOf(Keys, p)} = {<<SlotOf(Keys, p), p[2]>>}
        BY ONLY <1>1, <1>5, <1>6, <2>4, <3>1, p \in Lead(Keys), RecordsAt
      <3>3. PICK sl, v : sl = SlotOf(Keys, p) /\ v = p[2]
        OBVIOUS
      <3>4. Table[sl] = Ored({rec \in recs : rec[1] = sl}) /\ v \in Nat
        BY <1>12, <2>2, <3>3
      <3>5. {rec \in recs : rec[1] = sl} = {<<sl, v>>}
        BY ONLY <3>2, <3>3
      <3>6. Ored({<<sl, v>>}) = v
        BY ONLY <3>4, OredOne
      <3> QED
        BY ONLY <3>3, <3>4, <3>5, <3>6
    <2>6. Table = [sl \in 0 .. m - 1 |-> Table[sl]]
      BY <2>2
    <2> QED
      BY <1>9, <1>11, <2>5, <2>6
  <1>14. CASE ~ InMemory
    <2>1. Table = [sl \in 0 .. m - 1 |-> Segment(RangeOf(sl))[sl % RangeSlots]]
      BY <1>11, <1>14 DEF Table
    <2>2. Table = [sl \in 0 .. m - 1 |-> Table[sl]]
      BY <2>1
    <2>3. ASSUME NEW p \in Lead(Keys)
          PROVE  Table[SlotOf(Keys, p)] = p[2]
      <3>1. PICK sl, v, r : sl = SlotOf(Keys, p) /\ v = p[2] /\ r = RangeOf(sl)
        OBVIOUS
      <3>2. sl \in 0 .. m - 1 /\ v \in Nat /\ m \in Nat
        BY <1>12, <3>1
      <3>3. PICK c : c = (m + RangeSlots - 1) \div RangeSlots
        OBVIOUS
      <3>4. r = sl \div RangeSlots + 1 /\ c = Files
        BY <1>11, <1>14, <3>1, <3>3 DEF RangeOf, Files, RangeCount
      <3>5. /\ r \in 1 .. c /\ sl % RangeSlots \in 0 .. Smaller(RangeSlots, m - (r - 1) * RangeSlots) - 1
            /\ \A other \in Nat : At(other, r) = sl % RangeSlots => other = sl
            /\ At(sl, r) = sl % RangeSlots
        BY ONLY <3>2, <3>3, <3>4, SlotInRange
      <3>6. PICK recs : recs = range.file[r].recs
        OBVIOUS
      <3>7. recs \subseteq Fit(r)
        BY <1>7, <3>4, <3>5, <3>6
      <3>8. Record(p) \in recs
        <4>1. PICK s \in DOMAIN Sources, q \in 1 .. Files :
                 /\ q = RangeOf(SlotOf(Keys, p))
                 /\ Record(p) \in ToSet(scanner[s].stage[q]) \cup range.file[q].recs
          BY <1>10
        <4>2. scanner[s].stage[q] = <<>>
          BY <1>2, <1>14 DEF ScanOK
        <4>3. ToSet(<<>>) = {}
          BY DEF ToSet
        <4> QED
          BY ONLY <3>1, <3>6, <4>1, <4>2, <4>3
      <3>9. \A rec \in recs : rec[1] \in Nat
        <4> SUFFICES ASSUME NEW rec \in recs PROVE rec[1] \in Nat
          OBVIOUS
        <4>1. PICK o \in Lead(Keys) : rec = Record(o)
          BY <3>7 DEF Fit
        <4>2. Record(o) = <<SlotOf(Keys, o), o[2]>> /\ SlotOf(Keys, o) \in 0 .. main.m - 1
          BY <1>6 DEF PlacesRight
        <4> QED
          BY <1>11, <3>2, <4>1, <4>2
      <3>10. {rec \in recs : At(rec[1], r) = sl % RangeSlots} = {rec \in recs : rec[1] = sl}
        BY <3>5, <3>9
      <3>11. {rec \in recs : rec[1] = sl} = {<<sl, v>>}
        <4>1. {rec \in recs : rec[1] = SlotOf(Keys, p)} = {<<SlotOf(Keys, p), p[2]>>}
          BY ONLY <1>1, <1>5, <1>6, <3>7, <3>8, p \in Lead(Keys), RecordsAt
        <4> QED
          BY ONLY <3>1, <4>1
      <3>12. Segment(r)[sl % RangeSlots] = Ored({rec \in recs : At(rec[1], r) = sl % RangeSlots})
        BY <1>11, <3>5, <3>6 DEF Segment
      <3>13. Ored({<<sl, v>>}) = v
        BY ONLY <3>2, OredOne
      <3>14. Table[sl] = Segment(r)[sl % RangeSlots]
        BY <2>1, <3>1, <3>2
      <3> QED
        BY ONLY <3>1, <3>10, <3>11, <3>12, <3>13, <3>14
    <2> QED
      BY <1>9, <1>11, <2>2, <2>3
  <1> QED
    BY <1>13, <1>14

\* The blob that is published is the one promised.
LEMMA PublishKeeps ==
    ASSUME CInv, Publish
    PROVE  CInv'
  <1>1. /\ main.at = "write" /\ MainTyped /\ HasAll /\ AllCounted /\ Faultless /\ AllSent /\ Counted /\ Has
        /\ main.m = Cardinality(KeyHash) /\ main.n = Cardinality(Keys)
    BY DEF CInv, Publish, Counted, Has, AllCounted
  <1>2. CASE FailWith
    BY <1>2, FaultKeeps
  <1>3. CASE main' = [main EXCEPT !.at = "returned"] /\ ~ FailWith
    <2>1. /\ Table = [sl \in 0 .. main.m - 1 |-> Table[sl]]
          /\ \A p \in Lead(Keys) : Table[SlotOf(Keys, p)] = p[2]
          /\ ~ Torn
      BY <1>1, TableIs
    <2>2. PICK blob : blob = [n |-> main.n, table |-> Table, side |-> main.side]
      OBVIOUS
    <2>3. Return("ok", blob)
      BY <1>3, <2>1, <2>2 DEF Publish
    <2>4. build_from_pairs(Keys) = blob
      <3>1. Keys \subseteq Pair
        BY <1>1, SourcesAre
      <3>2. PICK S, m, table : S = Keys /\ m = main.m /\ table = Table
        OBVIOUS
      <3>3. /\ S \subseteq Pair /\ m = Cardinality(HashesOf(S)) /\ table = [sl \in 0 .. m - 1 |-> table[sl]]
            /\ \A p \in Lead(S) : table[SlotOf(S, p)] = p[2]
        BY <1>1, <2>1, <3>1, <3>2 DEF KeyHash
      <3>4. build_from_pairs(S) = [n |-> Cardinality(S), table |-> table, side |-> SideTable(SideOf(Sorted(S)), m)]
        BY ONLY <3>3, BlobIs
      <3>5. main.side = SideTable(SideOf(Sorted(S)), m)
        BY <1>1, <3>2 DEF AllSent
      <3> QED
        BY ONLY <1>1, <2>2, <3>2, <3>4, <3>5
    <2>5. /\ outcome' = [result |-> "ok", blob |-> blob] /\ job' = job
          /\ scratch' = [dir |-> scratch'.dir, runs |-> <<>>, cuts |-> <<>>, merged |-> <<>>, next |-> 1]
          /\ scratch'.runs = <<>> /\ scratch'.next = 1
      BY <2>3 DEF Return, NoFiles
    <2>6. main' = [at |-> "returned", input |-> main.input, run |-> main.run, faults |-> main.faults, n |-> main.n,
                   m |-> main.m, mph |-> main.mph, side |-> main.side]
      BY ONLY <1>1, <1>3 DEF MainTyped, ThreadTyped
    <2>7. MainTyped'
      <3>1. JobTyped'
        BY <1>1, <2>5 DEF MainTyped, JobTyped
      <3>2. ThreadTyped'
        BY <1>1, <2>6 DEF MainTyped, ThreadTyped
      <3>3. ScratchTyped'
        <4>1. <<>> \in Seq(Seq(Pair))
          OBVIOUS
        <4>2. scratch' = [dir |-> scratch'.dir, runs |-> scratch'.runs, cuts |-> scratch'.cuts,
                          merged |-> scratch'.merged, next |-> scratch'.next]
          BY ONLY <2>5
        <4> QED
          BY ONLY <2>5, <4>1, <4>2 DEF ScratchTyped
      <3> QED
        BY <2>6, <3>1, <3>2, <3>3 DEF MainTyped
    <2>8. Reading' /\ HasAll' /\ Faultless'
      BY <2>6 DEF Reading, HasAll, Faultless, Has
    <2>9. ClaimedOnce' /\ MergedWhole' /\ AllCounted' /\ HashBuilt'
      BY <2>6 DEF ClaimedOnce, MergedWhole, AllCounted, HashBuilt, Counted, Sends
    <2>10. ScansOK' /\ RangeTyped' /\ Locked' /\ Filed' /\ FailedForFault' /\ AllSent'
      BY <2>6 DEF ScansOK, RangeTyped, Locked, Filed, FailedForFault, AllSent, Sends
    <2>11. PublishesTheKeys'
      BY <2>4, <2>5 DEF PublishesTheKeys, Keys
    <2>12. ErrorsSurface'
      <3>1. main.faults = 0 /\ ~ job.fails
        BY <1>1 DEF Faultless, HasAll
      <3> QED
        BY <2>5, <2>6, <3>1 DEF ErrorsSurface
    <2> QED
      BY <2>7, <2>8, <2>9, <2>10, <2>11, <2>12 DEF CInv
  <1> QED
    BY <1>2, <1>3 DEF Publish

\* Nothing happens.
LEMMA StutterKeeps ==
    ASSUME CInv, UNCHANGED vars
    PROVE  CInv'
  <1> USE DEF vars
  <1>0. MainTyped' /\ Reading'
    BY DEF CInv, MainTyped, JobTyped, ThreadTyped, ScratchTyped, Reading, InFiles, AllRuns, Keys
  <1>1. HasAll' /\ Faultless'
    BY DEF CInv, HasAll, Faultless, Has, InFiles, AllRuns, Keys, CutsRight, MergersFine, ScansFine
  <1>2. ClaimedOnce' /\ MergedWhole'
    BY DEF CInv, ClaimedOnce, MergedWhole, Merging, MergersFine, MergedPairs, PairsOfRange, Paths, Written_n, Written_same
  <1>3. AllCounted' /\ HashBuilt'
    BY DEF CInv, AllCounted, HashBuilt, Counted, Sends, InFiles, Paths, PairsOfRange, Keys, KeyHash
  <1>4. PublishesTheKeys' /\ ErrorsSurface'
    BY DEF CInv, PublishesTheKeys, ErrorsSurface
  <1>5. SameFiles
    BY DEF SameFiles, Sources, Keys, KeyHash, InMemory, InFiles, Files, RangeCount, RangeOf
  <1>6. SameSending
    BY <1>5, SameSends
  <1>7. RangeTyped' /\ Locked' /\ FailedForFault' /\ AllSent'
    BY <1>5 DEF CInv, RangeTyped, RangesOK, Locked, FailedForFault, AllSent, Sends, ScansFine, SameFiles
  <1>8. ScansOK'
    BY <1>5, <1>6 DEF CInv, ScansOK, Sends, SameFiles, SameSending
  <1>9. Filed'
    BY <1>5, <1>6 DEF CInv, Filed, Sends, ScansFine, SameFiles, SameSending
  <1> QED
    BY <1>0, <1>1, <1>2, <1>3, <1>4, <1>7, <1>8, <1>9 DEF CInv

\* Every step keeps it.
LEMMA StepKeeps ==
    ASSUME CInv, [Next]_vars
    PROVE  CInv'
  <1>1. CASE Start
    BY <1>1, StartKeeps
  <1>2. CASE Main
    BY <1>2, ReadKeeps, EndKeeps, MergedKeeps, BuildMphKeeps, PlacedKeeps, PublishKeeps DEF Main
  <1>3. CASE \E w \in DOMAIN merger : Merger(w)
    BY <1>3, ClaimKeeps, MergeRangeKeeps, MergeFailsKeeps DEF Merger
  <1>4. ASSUME NEW s \in DOMAIN scanner, Scanner(s)
        PROVE  CInv'
    <2>1. main.at = "place" /\ UNCHANGED <<job, scratch, merger, outcome>>
      BY <1>4 DEF Scanner
    <2>2. CASE Scan(s)
      BY <2>1, <2>2, ScanKeeps
    <2>3. CASE Put(s)
      BY <2>1, <2>3, PutKeeps
    <2>4. CASE Flush(s)
      BY <2>1, <2>4, FlushKeeps
    <2>5. CASE LockRange(s)
      BY <2>1, <2>5, LockKeeps
    <2>6. CASE WriteRange(s)
      BY <2>1, <2>6, WriteKeeps
    <2>7. CASE Written(s)
      BY <2>1, <2>7, WrittenKeeps
    <2>8. CASE ScanFails(s)
      BY <2>1, <2>8, ScanFailsKeeps
    <2> QED
      BY <1>4, <2>2, <2>3, <2>4, <2>5, <2>6, <2>7, <2>8 DEF Scanner
  <1>5. CASE UNCHANGED vars
    BY <1>5, StutterKeeps
  <1> QED
    BY <1>1, <1>2, <1>3, <1>4, <1>5 DEF Next

-------------------------------------------------------------------------------
(* The theorems. *)

\* Every state of a build keeps the invariant: the keys are in the runs, each range is merged by
\* one thread and counted, and every record sent is in a stage or its range's file
\* (CompactHashIndex::build_to_file_with, compact_hash.rs).
THEOREM StreamInvariant == Spec => []CInv
  <1>1. Init => CInv
    BY CInit
  <1>2. CInv /\ [Next]_vars => CInv'
    BY StepKeeps
  <1> QED
    BY <1>1, <1>2, PTL DEF Spec

\* A build that returned Ok published the blob build_from_pairs gives for the same keys, whatever the
\* budget, the runs, the cuts, the number of threads and their order; and a failed source or call
\* of any thread is an error of the build (CompactHashIndex::build_to_file_with, compact_hash.rs).
THEOREM StreamWhole == Spec => []StreamIsWhole
  <1>1. CInv => StreamIsWhole
    BY DEF CInv, StreamIsWhole
  <1> QED
    BY <1>1, StreamInvariant, PTL
===============================================================================
