------------------------- MODULE SharedByThreadsProofs -------------------------
(***************************************************************************)
(* What the threads of a merge come to and what callers of one iterator    *)
(* are handed, proved for any number of threads, nodes, chains, pairs and  *)
(* callers.                                                                *)
(***************************************************************************)
EXTENDS SharedByThreads, FiniteSetTheorems, SequenceTheorems, WellFoundedInduction, TLAPS

\* The smaller of two numbers.
LEMMA MinOfTwo ==
    ASSUME NEW a \in Int, NEW b \in Int
    PROVE  Min({a, b}) = IF a <= b THEN a ELSE b
  <1>1. \E x \in {a, b} : \A y \in {a, b} : x <= y
    <2>1. a <= b \/ b <= a
      OBVIOUS
    <2> QED
      BY <2>1
  <1>2. Min({a, b}) \in {a, b} /\ \A y \in {a, b} : Min({a, b}) <= y
    BY <1>1 DEF Min
  <1> QED
    BY <1>2

\* The larger of two numbers.
LEMMA MaxOfTwo ==
    ASSUME NEW a \in Int, NEW b \in Int
    PROVE  Max({a, b}) = IF a <= b THEN b ELSE a
  <1>1. \E x \in {a, b} : \A y \in {a, b} : x >= y
    <2>1. a >= b \/ b >= a
      OBVIOUS
    <2> QED
      BY <2>1
  <1>2. Max({a, b}) \in {a, b} /\ \A y \in {a, b} : Max({a, b}) >= y
    BY <1>1 DEF Max
  <1> QED
    BY <1>2

\* A number of a set that none of its numbers is less than is its least.
LEMMA MinIs ==
    ASSUME NEW S \in SUBSET Int, NEW x \in S, \A y \in S : x <= y
    PROVE  Min(S) = x
  <1>1. Min(S) \in S /\ \A y \in S : Min(S) <= y
    <2>1. \E z \in S : \A y \in S : z <= y
      OBVIOUS
    <2>2. Min(S) = CHOOSE z \in S : \A y \in S : z <= y
      BY DEF Min
    <2> QED
      BY <2>1, <2>2
  <1>2. PICK z : z = Min(S)
    OBVIOUS
  <1>3. z \in Int /\ x \in Int /\ z <= x /\ x <= z
    BY <1>1, <1>2
  <1> QED
    BY <1>2, <1>3

-------------------------------------------------------------------------------
(* The threads of a merge. *)

\* How many threads there are, and the nodes each takes.
LEMMA Threading ==
    /\ Cardinality(Threads) \in Nat \ {0}
    /\ Threads = 1 .. Cardinality(Threads)
    /\ Chunk \in Nat
    /\ Cardinality(Threads) * Chunk >= Nodes
  <1> DEFINE n == Cardinality(Threads)
  <1>1. n \in Nat /\ n # 0
    BY MergeAssumption, FS_CardinalityType, FS_EmptySet
  <1>2. Nodes \in Nat
    BY MergeAssumption
  <1> HIDE DEF n
  <1>3. \A m \in Nat : m \div n \in Nat /\ m < n * (m \div n) + n
    BY <1>1
  <1>4. Nodes + n - 1 \in Nat
    BY <1>1, <1>2
  <1>5. PICK q : q = (Nodes + n - 1) \div n
    OBVIOUS
  <1>6. q \in Nat /\ Nodes + n - 1 < n * q + n
    BY <1>3, <1>4, <1>5
  <1>7. n * q \in Int /\ n * q >= Nodes
    BY <1>1, <1>2, <1>6
  <1>8. Chunk = q
    BY <1>5 DEF Chunk, n
  <1> QED
    BY <1>1, <1>6, <1>7, <1>8, MergeAssumption DEF n

\* A thread's part of the nodes.
LEMMA Parts ==
    ASSUME NEW t \in Threads
    PROVE  /\ First(t) \in Nat \ {0}
           /\ End(t) \in Nat
           /\ End(t) <= Nodes + 1
           /\ \A u \in Nat : u < End(t) <=> u <= t * Chunk /\ u <= Nodes
  <1>1. t \in Nat /\ t >= 1
    BY Threading
  <1>2. Chunk \in Nat /\ Nodes \in Nat
    BY Threading, MergeAssumption
  <1>3. PICK a : a = t * Chunk
    OBVIOUS
  <1>4. a \in Nat
    BY <1>1, <1>2, <1>3
  <1>5. PICK b : b = (t - 1) * Chunk
    OBVIOUS
  <1>6. b \in Nat
    BY <1>1, <1>2, <1>5
  <1>7. Min({a, Nodes}) = IF a <= Nodes THEN a ELSE Nodes
    BY <1>2, <1>4, MinOfTwo
  <1>8. End(t) = (IF a <= Nodes THEN a ELSE Nodes) + 1 /\ First(t) = b + 1
    BY <1>3, <1>5, <1>7 DEF End, First
  <1> QED
    BY <1>2, <1>3, <1>4, <1>6, <1>8

\* Every node is some thread's.
LEMMA EveryNodeIsTaken ==
    ASSUME NEW u \in 1 .. Nodes
    PROVE  \E t \in Threads : First(t) <= u /\ u < End(t)
  <1> DEFINE n == Cardinality(Threads)
             T == {t \in Threads : u <= t * Chunk}
  <1>1. n \in Nat \ {0} /\ Threads = 1 .. n /\ Chunk \in Nat /\ n * Chunk >= Nodes /\ Nodes \in Nat
    BY Threading, MergeAssumption
  <1>2. n \in T
    BY <1>1
  <1>3. T \subseteq Nat
    BY <1>1
  <1>4. \E t \in T : \A s \in T : ~ (<<s, t>> \in OpToRel(<, Nat))
    BY <1>2, <1>3, NatLessThanWellFounded, WFMin
  <1>5. PICK t \in T : \A s \in T : ~ (<<s, t>> \in OpToRel(<, Nat))
    BY <1>4
  <1>6. t \in Threads /\ t \in Nat /\ t >= 1 /\ u <= t * Chunk
    BY <1>1
  <1>7. u < End(t)
    BY <1>1, <1>6, Parts
  <1>8. First(t) <= u
    <2>1. CASE t = 1
      <3>1. First(t) = 1
        BY <1>1, <2>1 DEF First
      <3> QED
        BY <3>1, <1>1
    <2>2. CASE t # 1
      <3>1. t - 1 \in Threads /\ t - 1 \in Nat /\ t - 1 < t
        BY <1>1, <1>6, <2>2
      <3>2. t - 1 \notin T
        BY <1>3, <1>5, <3>1 DEF OpToRel
      <3>3. ~ (u <= (t - 1) * Chunk)
        BY <3>1, <3>2
      <3>4. PICK b : b = (t - 1) * Chunk
        OBVIOUS
      <3>5. b \in Nat /\ First(t) = b + 1
        BY <1>1, <3>1, <3>4 DEF First
      <3> QED
        BY <1>1, <3>3, <3>4, <3>5
    <2> QED
      BY <2>1, <2>2
  <1> QED
    BY <1>6, <1>7, <1>8

\* What each variable of the merge's threads holds.
MergeTypes ==
    /\ work \in {"none", "find", "measure"}
    /\ turned \subseteq Threads
    /\ taken \in Nat
    /\ work = "none" => turned = {} /\ taken = 0
    /\ work = "find" =>
        /\ link \in [1 .. Nodes -> KeysIn \cup {None}]
        /\ at \in [Threads -> Nat]
        /\ placed \in [KeysIn -> 1 .. Nowhere]
    /\ work = "measure" =>
        /\ turned = {}
        /\ at \in [Threads -> Nat]
        /\ measured \in [0 .. Chains - 1 -> Nat]

\* A thread that goes on to its fetch_min is at a node of its own whose link ends a key.
TurnedAtALink == \A t \in turned : at[t] < End(t) /\ at[t] >= First(t) /\ link[at[t]] # None

\* Where a key is placed, a node's link ends it.
PlacedAtALink == \A k \in KeysIn : placed[k] # Nowhere => link[placed[k]] = k

\* A thread starts at the first of its own nodes.
FromFirst == \A t \in Threads : at[t] >= First(t)

\* No node that its thread has passed is below the one its key is placed at.
PassedAreNotLower ==
    \A t \in Threads : \A u \in 1 .. Nodes :
        (First(t) <= u /\ u < at[t] /\ u < End(t) /\ link[u] # None) => placed[link[u]] <= u

\* The chains a thread has taken, and not measured yet.
Holds(t, j) == at[t] # None /\ at[t] - 1 <= j /\ j < at[t] - 1 + CHAINS_TAKEN

\* No chain is with two threads or was not handed out; one that was handed out is measured, once,
\* or is with a thread.
TakenOnce ==
    /\ \A t \in Threads : at[t] # None => at[t] - 1 + CHAINS_TAKEN <= taken
    /\ \A t, v \in Threads : \A j \in Nat : Holds(t, j) /\ Holds(v, j) => t = v
    /\ \A j \in 0 .. Chains - 1 :
          measured[j] = IF j < taken /\ ~ (\E t \in Threads : Holds(t, j)) THEN 1 ELSE 0

MergeInv ==
    /\ MergeTypes
    /\ work = "find" => TurnedAtALink /\ PlacedAtALink /\ FromFirst /\ PassedAreNotLower
    /\ work = "measure" => TakenOnce

\* Nothing has been spawned at the start.
LEMMA MergeStarts == MergeInit => MergeInv
  BY DEF MergeInit, MergeInv, MergeTypes

\* Spawning the threads that find.
LEMMA FindKeeps == MergeInv /\ Find => MergeInv'
  <1> SUFFICES ASSUME MergeInv, Find PROVE MergeInv'
    OBVIOUS
  <1>1. work' = "find" /\ turned' = {} /\ taken' = 0
    BY DEF MergeInv, MergeTypes, Find
  <1>2. link' \in [1 .. Nodes -> KeysIn \cup {None}] /\ at' = [t \in Threads |-> First(t)]
        /\ placed' = [k \in KeysIn |-> Nowhere]
    BY DEF Find
  <1>3. \A t \in Threads : First(t) \in Nat
    BY Parts
  <1>4. Nowhere \in 1 .. Nowhere /\ Nodes \in Nat
    BY MergeAssumption DEF Nowhere
  <1>5. MergeTypes'
    BY <1>1, <1>2, <1>3, <1>4 DEF MergeTypes
  <1>6. TurnedAtALink' /\ PlacedAtALink'
    BY <1>1, <1>2 DEF TurnedAtALink, PlacedAtALink
  <1>7. FromFirst' /\ PassedAreNotLower'
    BY <1>2, <1>3, <1>4 DEF FromFirst, PassedAreNotLower
  <1> QED
    BY <1>1, <1>5, <1>6, <1>7 DEF MergeInv

\* Spawning the threads that measure.
LEMMA MeasureChainsKeeps == MergeInv /\ MeasureChains => MergeInv'
  <1> SUFFICES ASSUME MergeInv, MeasureChains PROVE MergeInv'
    OBVIOUS
  <1>1. work' = "measure" /\ turned' = {} /\ taken' = 0
    BY DEF MergeInv, MergeTypes, MeasureChains
  <1>2. at' = [t \in Threads |-> None] /\ measured' = [j \in 0 .. Chains - 1 |-> 0]
    BY DEF MeasureChains
  <1>3. MergeTypes'
    BY <1>1, <1>2 DEF MergeTypes, None
  <1>4. TakenOnce'
    BY <1>1, <1>2 DEF TakenOnce, Holds
  <1> QED
    BY <1>1, <1>3, <1>4 DEF MergeInv

\* A node is passed whose link ends no key, or one that is placed as low.
LEMMA PassKeeps == ASSUME NEW t \in Threads PROVE MergeInv /\ Pass(t) => MergeInv'
  <1> SUFFICES ASSUME MergeInv, Pass(t) PROVE MergeInv'
    OBVIOUS
  <1>1. /\ work = "find" /\ t \notin turned /\ at[t] < End(t) /\ ~ Lower(at[t])
        /\ at' = [at EXCEPT ![t] = @ + 1]
        /\ work' = work /\ link' = link /\ turned' = turned /\ placed' = placed /\ taken' = taken
    BY DEF Pass
  <1>2. MergeTypes /\ TurnedAtALink /\ PlacedAtALink /\ FromFirst /\ PassedAreNotLower
    BY <1>1 DEF MergeInv
  <1>3. /\ link \in [1 .. Nodes -> KeysIn \cup {None}] /\ at \in [Threads -> Nat]
        /\ placed \in [KeysIn -> 1 .. Nowhere]
    BY <1>1, <1>2 DEF MergeTypes
  <1>4. MergeTypes'
    BY <1>1, <1>2, <1>3 DEF MergeTypes
  <1>5. TurnedAtALink' /\ PlacedAtALink'
    BY <1>1, <1>2, <1>3 DEF TurnedAtALink, PlacedAtALink
  <1>6. FromFirst'
    <2> SUFFICES ASSUME NEW v \in Threads PROVE at'[v] >= First(v)
      BY DEF FromFirst
    <2>1. at[v] >= First(v) /\ First(v) \in Nat /\ at[v] \in Nat
      BY <1>2, <1>3, Parts DEF FromFirst
    <2> QED
      BY <1>1, <1>3, <2>1
  <1>7. PassedAreNotLower'
    <2> SUFFICES ASSUME NEW v \in Threads, NEW u \in 1 .. Nodes,
                        First(v) <= u, u < at'[v], u < End(v), link[u] # None
                 PROVE  placed[link[u]] <= u
      BY <1>1 DEF PassedAreNotLower
    <2>1. u < at[v] => placed[link[u]] <= u
      BY <1>2 DEF PassedAreNotLower
    <2>2. CASE u < at[v]
      BY <2>1, <2>2
    <2>3. CASE ~ (u < at[v])
      <3>1. v = t /\ u = at[t]
        BY <1>1, <1>3, <2>3
      <3>2. link[u] \in KeysIn /\ placed[link[u]] \in Nat /\ ~ (placed[link[u]] > u)
        BY <1>1, <1>3, <3>1 DEF Lower, Nowhere
      <3> QED
        BY <3>2
    <2> QED
      BY <2>2, <2>3
  <1> QED
    BY <1>1, <1>4, <1>5, <1>6, <1>7 DEF MergeInv

\* A load that finds the key placed higher, or nowhere.
LEMMA LoadKeeps == ASSUME NEW t \in Threads PROVE MergeInv /\ Load(t) => MergeInv'
  <1> SUFFICES ASSUME MergeInv, Load(t) PROVE MergeInv'
    OBVIOUS
  <1>1. /\ work = "find" /\ at[t] < End(t) /\ link[at[t]] # None
        /\ turned' = turned \cup {t}
        /\ work' = work /\ link' = link /\ at' = at /\ placed' = placed /\ taken' = taken
    BY DEF Load, Lower
  <1>2. MergeTypes /\ TurnedAtALink /\ PlacedAtALink /\ FromFirst /\ PassedAreNotLower
    BY <1>1 DEF MergeInv
  <1>3. MergeTypes'
    BY <1>1, <1>2 DEF MergeTypes
  <1>4. at[t] >= First(t)
    BY <1>2 DEF FromFirst
  <1>5. TurnedAtALink' /\ PlacedAtALink' /\ FromFirst' /\ PassedAreNotLower'
    BY <1>1, <1>2, <1>4 DEF TurnedAtALink, PlacedAtALink, FromFirst, PassedAreNotLower
  <1> QED
    BY <1>1, <1>3, <1>5 DEF MergeInv

\* A fetch_min: the key is placed at the lower of the two nodes.
LEMMA FetchMinKeeps == ASSUME NEW t \in Threads PROVE MergeInv /\ FetchMin(t) => MergeInv'
  <1> SUFFICES ASSUME MergeInv, FetchMin(t) PROVE MergeInv'
    OBVIOUS
  <1>1. /\ t \in turned
        /\ placed' = [placed EXCEPT ![link[at[t]]] = Min({@, at[t]})]
        /\ turned' = turned \ {t}
        /\ at' = [at EXCEPT ![t] = @ + 1]
        /\ work' = work /\ link' = link /\ taken' = taken
    BY DEF FetchMin
  <1>2. work = "find"
    BY <1>1 DEF MergeInv, MergeTypes
  <1>3. MergeTypes /\ TurnedAtALink /\ PlacedAtALink /\ FromFirst /\ PassedAreNotLower
    BY <1>2 DEF MergeInv
  <1>4. /\ link \in [1 .. Nodes -> KeysIn \cup {None}] /\ at \in [Threads -> Nat]
        /\ placed \in [KeysIn -> 1 .. Nowhere] /\ Nodes \in Nat
    BY <1>2, <1>3, MergeAssumption DEF MergeTypes
  <1>5. PICK u : u = at[t]
    OBVIOUS
  <1>6. u \in 1 .. Nodes /\ link[u] # None
    BY <1>1, <1>3, <1>4, <1>5, Parts DEF TurnedAtALink
  <1>7. PICK k \in KeysIn : k = link[u]
    BY <1>4, <1>6
  <1>8. PICK low : low = Min({placed[k], u})
    OBVIOUS
  <1>9. low = IF placed[k] <= u THEN placed[k] ELSE u
    <2>1. placed[k] \in Int /\ u \in Int
      BY <1>4, <1>6, <1>7 DEF Nowhere
    <2> QED
      BY <1>8, <2>1, MinOfTwo
  <1>10. placed' = [placed EXCEPT ![k] = low]
    BY <1>1, <1>4, <1>5, <1>7, <1>8
  <1>11. low \in 1 .. Nodes /\ low <= u /\ low <= placed[k] /\ placed[k] \in 1 .. Nowhere
    BY <1>4, <1>6, <1>7, <1>9 DEF Nowhere
  <1>12. MergeTypes'
    <2>1. placed' \in [KeysIn -> 1 .. Nowhere]
      BY <1>4, <1>10, <1>11 DEF Nowhere
    <2>2. at' \in [Threads -> Nat]
      BY <1>1, <1>4
    <2> QED
      BY <1>1, <1>2, <1>3, <1>4, <2>1, <2>2 DEF MergeTypes
  <1>13. TurnedAtALink'
    BY <1>1, <1>3, <1>4 DEF TurnedAtALink
  <1>14. PlacedAtALink'
    BY <1>1, <1>3, <1>4, <1>6, <1>7, <1>9, <1>10 DEF PlacedAtALink
  <1>15. FromFirst'
    <2> SUFFICES ASSUME NEW v \in Threads PROVE at'[v] >= First(v)
      BY DEF FromFirst
    <2>1. at[v] >= First(v) /\ First(v) \in Nat /\ at[v] \in Nat
      BY <1>3, <1>4, Parts DEF FromFirst
    <2> QED
      BY <1>1, <1>4, <2>1
  <1>16. PassedAreNotLower'
    <2> SUFFICES ASSUME NEW v \in Threads, NEW w \in 1 .. Nodes,
                        First(v) <= w, w < at'[v], w < End(v), link[w] # None
                 PROVE  placed'[link[w]] <= w
      BY <1>1 DEF PassedAreNotLower
    <2>1. link[w] \in KeysIn /\ placed[link[w]] \in 1 .. Nowhere
      BY <1>4
    <2>2. placed'[link[w]] <= placed[link[w]] /\ placed'[link[w]] \in Nat /\ placed[link[w]] \in Nat
      <3>1. CASE link[w] = k
        BY <1>4, <1>10, <1>11, <3>1 DEF Nowhere
      <3>2. CASE link[w] # k
        BY <1>4, <1>10, <2>1, <3>2 DEF Nowhere
      <3> QED
        BY <3>1, <3>2
    <2>3. CASE w < at[v]
      <3>1. placed[link[w]] <= w
        BY <1>3, <2>3 DEF PassedAreNotLower
      <3> QED
        BY <2>2, <3>1
    <2>4. CASE ~ (w < at[v])
      <3>1. v = t /\ w = u
        BY <1>1, <1>4, <1>5, <2>4
      <3> QED
        BY <1>4, <1>7, <1>10, <1>11, <3>1
    <2> QED
      BY <2>3, <2>4
  <1> QED
    BY <1>1, <1>2, <1>12, <1>13, <1>14, <1>15, <1>16 DEF MergeInv

\* Chains past the last one handed out are taken.
LEMMA TakeKeeps == ASSUME NEW t \in Threads PROVE MergeInv /\ Take(t) => MergeInv'
  <1> SUFFICES ASSUME MergeInv, Take(t) PROVE MergeInv'
    OBVIOUS
  <1>1. /\ work = "measure" /\ at[t] = None
        /\ taken' = taken + CHAINS_TAKEN
        /\ at' = [at EXCEPT ![t] = taken + 1]
        /\ work' = work /\ turned' = turned /\ measured' = measured
    BY DEF Take
  <1>2. MergeTypes /\ TakenOnce
    BY <1>1 DEF MergeInv
  <1>3. /\ turned = {} /\ at \in [Threads -> Nat] /\ measured \in [0 .. Chains - 1 -> Nat]
        /\ taken \in Nat /\ CHAINS_TAKEN \in Nat /\ Chains \in Nat
    BY <1>1, <1>2, MergeAssumption DEF MergeTypes
  <1>4. MergeTypes'
    BY <1>1, <1>3 DEF MergeTypes
  <1>5. /\ \A v \in Threads \ {t} : \A j : Holds(v, j)' <=> Holds(v, j)
        /\ \A j \in Nat : ~ Holds(t, j)
        /\ \A j \in Nat : Holds(t, j)' <=> taken <= j /\ j < taken + CHAINS_TAKEN
    BY <1>1, <1>3 DEF Holds, None
  <1>6. \A v \in Threads : \A j \in Nat : Holds(v, j) => j < taken
    BY <1>2, <1>3 DEF TakenOnce, Holds, None
  <1>7. \A v \in Threads : at'[v] # None => at'[v] - 1 + CHAINS_TAKEN <= taken'
    BY <1>1, <1>2, <1>3 DEF TakenOnce, None
  <1>8. \A s, v \in Threads : \A j \in Nat : Holds(s, j)' /\ Holds(v, j)' => s = v
    <2> SUFFICES ASSUME NEW s \in Threads, NEW v \in Threads, NEW j \in Nat, Holds(s, j)', Holds(v, j)', s # v
                 PROVE  FALSE
      OBVIOUS
    <2>1. CASE s # t /\ v # t
      BY <1>2, <1>5, <2>1 DEF TakenOnce
    <2>2. CASE s = t
      BY <1>3, <1>5, <1>6, <2>2
    <2>3. CASE v = t
      BY <1>3, <1>5, <1>6, <2>3
    <2> QED
      BY <2>1, <2>2, <2>3
  <1>9. \A j \in 0 .. Chains - 1 :
          measured'[j] = IF j < taken' /\ ~ (\E v \in Threads : Holds(v, j)') THEN 1 ELSE 0
    <2> SUFFICES ASSUME NEW j \in 0 .. Chains - 1
                 PROVE  measured[j] = IF j < taken' /\ ~ (\E v \in Threads : Holds(v, j)') THEN 1 ELSE 0
      BY <1>1
    <2>1. measured[j] = IF j < taken /\ ~ (\E v \in Threads : Holds(v, j)) THEN 1 ELSE 0
      BY <1>2 DEF TakenOnce
    <2>2. j \in Nat
      OBVIOUS
    <2>3. CASE j < taken
      <3>1. j < taken'
        BY <1>1, <1>3, <2>2, <2>3
      <3>2. ~ (taken <= j)
        BY <1>3, <2>2, <2>3
      <3>3. (\E v \in Threads : Holds(v, j)) <=> (\E v \in Threads : Holds(v, j)')
        BY <1>5, <2>2, <3>2
      <3> QED
        BY <2>1, <2>3, <3>1, <3>3
    <2>4. CASE ~ (j < taken)
      <3>1. measured[j] = 0
        BY <2>1, <2>4
      <3>2. j < taken' => Holds(t, j)'
        BY <1>1, <1>3, <1>5, <2>2, <2>4
      <3> QED
        BY <3>1, <3>2
    <2> QED
      BY <2>3, <2>4
  <1>10. TakenOnce'
    BY <1>7, <1>8, <1>9 DEF TakenOnce
  <1> QED
    BY <1>1, <1>4, <1>10 DEF MergeInv

\* The chains a thread took are measured, and it comes back.
LEMMA MeasureKeeps == ASSUME NEW t \in Threads PROVE MergeInv /\ Measure(t) => MergeInv'
  <1> SUFFICES ASSUME MergeInv, Measure(t) PROVE MergeInv'
    OBVIOUS
  <1> DEFINE got == at[t] - 1 .. Min({at[t] - 1 + CHAINS_TAKEN, Chains}) - 1
  <1>1. /\ work = "measure" /\ at[t] \in 1 .. Chains
        /\ measured' = [j \in DOMAIN measured |-> measured[j] + (IF j \in got THEN 1 ELSE 0)]
        /\ at' = [at EXCEPT ![t] = None]
        /\ work' = work /\ turned' = turned /\ taken' = taken
    BY DEF Measure
  <1>2. MergeTypes /\ TakenOnce
    BY <1>1 DEF MergeInv
  <1>3. /\ turned = {} /\ at \in [Threads -> Nat] /\ measured \in [0 .. Chains - 1 -> Nat]
        /\ taken \in Nat /\ CHAINS_TAKEN \in Nat /\ Chains \in Nat
    BY <1>1, <1>2, MergeAssumption DEF MergeTypes
  <1>4. \A j \in 0 .. Chains - 1 : j \in got <=> Holds(t, j)
    <2>1. PICK past : past = at[t] - 1 + CHAINS_TAKEN
      OBVIOUS
    <2>2. past \in Int /\ Chains \in Int
      BY <1>1, <1>3, <2>1
    <2>3. Min({past, Chains}) = IF past <= Chains THEN past ELSE Chains
      BY <2>2, MinOfTwo
    <2>4. got = at[t] - 1 .. (IF past <= Chains THEN past ELSE Chains) - 1
      BY <2>1, <2>3
    <2> HIDE DEF got
    <2> QED
      BY <1>1, <1>3, <2>1, <2>2, <2>4 DEF Holds, None
  <1> HIDE DEF got
  <1>5. DOMAIN measured = 0 .. Chains - 1
    BY <1>3
  <1>6. \A j \in 0 .. Chains - 1 : measured'[j] = measured[j] + (IF Holds(t, j) THEN 1 ELSE 0)
    BY <1>1, <1>4, <1>5
  <1>7. MergeTypes'
    <2>1. measured' \in [0 .. Chains - 1 -> Nat]
      BY <1>1, <1>3, <1>5
    <2>2. at' \in [Threads -> Nat]
      BY <1>1, <1>3 DEF None
    <2> QED
      BY <1>1, <1>3, <2>1, <2>2 DEF MergeTypes
  <1>8. /\ \A v \in Threads \ {t} : \A j : Holds(v, j)' <=> Holds(v, j)
        /\ \A j : ~ Holds(t, j)'
    BY <1>1, <1>3 DEF Holds
  <1>9. \A v \in Threads : at'[v] # None => at'[v] - 1 + CHAINS_TAKEN <= taken'
    BY <1>1, <1>2, <1>3 DEF TakenOnce
  <1>10. \A s, v \in Threads : \A j \in Nat : Holds(s, j)' /\ Holds(v, j)' => s = v
    BY <1>2, <1>8 DEF TakenOnce
  <1>11. \A j \in 0 .. Chains - 1 :
          measured'[j] = IF j < taken' /\ ~ (\E v \in Threads : Holds(v, j)') THEN 1 ELSE 0
    <2> SUFFICES ASSUME NEW j \in 0 .. Chains - 1
                 PROVE  measured'[j] = IF j < taken /\ ~ (\E v \in Threads : Holds(v, j)') THEN 1 ELSE 0
      BY <1>1
    <2>1. measured[j] = IF j < taken /\ ~ (\E v \in Threads : Holds(v, j)) THEN 1 ELSE 0
      BY <1>2 DEF TakenOnce
    <2>2. j \in Nat /\ measured'[j] = measured[j] + (IF Holds(t, j) THEN 1 ELSE 0)
      BY <1>6
    <2>3. CASE Holds(t, j)
      <3>1. j < taken
        BY <1>2, <1>3, <2>2, <2>3 DEF TakenOnce, Holds, None
      <3>2. \A v \in Threads : ~ Holds(v, j)'
        BY <1>2, <1>8, <2>2, <2>3 DEF TakenOnce
      <3>3. measured[j] = 0 /\ measured'[j] = 0 + 1
        BY <2>1, <2>2, <2>3
      <3> QED
        BY <3>1, <3>2, <3>3
    <2>4. CASE ~ Holds(t, j)
      <3>1. (\E v \in Threads : Holds(v, j)) <=> (\E v \in Threads : Holds(v, j)')
        BY <1>8, <2>4
      <3>2. measured[j] \in Nat
        BY <1>3
      <3>3. measured'[j] = measured[j]
        BY <2>2, <2>4, <3>2
      <3> QED
        BY <2>1, <3>1, <3>3
    <2> QED
      BY <2>3, <2>4
  <1>12. TakenOnce'
    BY <1>9, <1>10, <1>11 DEF TakenOnce
  <1> QED
    BY <1>1, <1>7, <1>12 DEF MergeInv

\* The steps of a merge's threads keep MergeInv, which has where the threads stand, what they have
\* found and what they hold.
THEOREM MergeKeepsInvariant == MergeSpec => []MergeInv
  <1>1. MergeInv /\ [MergeNext]_mergeVars => MergeInv'
    <2> SUFFICES ASSUME MergeInv, [MergeNext]_mergeVars PROVE MergeInv'
      OBVIOUS
    <2>1. CASE Find
      BY <2>1, FindKeeps
    <2>2. CASE MeasureChains
      BY <2>2, MeasureChainsKeeps
    <2>3. ASSUME NEW t \in Threads, Pass(t) PROVE MergeInv'
      BY <2>3, PassKeeps
    <2>4. ASSUME NEW t \in Threads, Load(t) PROVE MergeInv'
      BY <2>4, LoadKeeps
    <2>5. ASSUME NEW t \in Threads, FetchMin(t) PROVE MergeInv'
      BY <2>5, FetchMinKeeps
    <2>6. ASSUME NEW t \in Threads, Take(t) PROVE MergeInv'
      BY <2>6, TakeKeeps
    <2>7. ASSUME NEW t \in Threads, Measure(t) PROVE MergeInv'
      BY <2>7, MeasureKeeps
    <2>8. CASE UNCHANGED mergeVars
      BY <2>8 DEF mergeVars, MergeInv, MergeTypes, TurnedAtALink, PlacedAtALink, FromFirst,
                  PassedAreNotLower, TakenOnce, Holds
    <2> QED
      BY <2>1, <2>2, <2>3, <2>4, <2>5, <2>6, <2>7, <2>8 DEF MergeNext
  <1> QED
    BY <1>1, MergeStarts, PTL DEF MergeSpec

\* Once every thread has passed its nodes, each key is at the lowest of them whose link ends it.
LEMMA FoundLowest == MergeInv => LowestFound
  <1> SUFFICES ASSUME MergeInv, Ended, work = "find", NEW k \in KeysIn
               PROVE  placed[k] = Min({Nowhere} \cup {u \in 1 .. Nodes : link[u] = k})
    BY DEF LowestFound
  <1> DEFINE S == {Nowhere} \cup {u \in 1 .. Nodes : link[u] = k}
  <1>1. MergeTypes /\ PlacedAtALink /\ PassedAreNotLower
    BY DEF MergeInv
  <1>2. placed[k] \in 1 .. Nowhere /\ Nodes \in Nat /\ at \in [Threads -> Nat] /\ k # None
    BY <1>1, MergeAssumption DEF MergeTypes
  <1>3. placed[k] \in S
    BY <1>1, <1>2 DEF PlacedAtALink, Nowhere
  <1>4. \A y \in S : placed[k] <= y
    <2> SUFFICES ASSUME NEW u \in 1 .. Nodes, link[u] = k PROVE placed[k] <= u
      BY <1>2 DEF Nowhere
    <2>1. PICK t \in Threads : First(t) <= u /\ u < End(t)
      BY EveryNodeIsTaken
    <2>2. at[t] >= End(t) /\ End(t) \in Nat /\ at[t] \in Nat
      BY <1>2, Parts DEF Ended
    <2>3. u < at[t]
      BY <2>1, <2>2
    <2> QED
      BY <1>1, <1>2, <2>1, <2>3 DEF PassedAreNotLower
  <1>5. S \in SUBSET Int
    BY <1>2 DEF Nowhere
  <1> HIDE DEF S
  <1>6. Min(S) = placed[k]
    BY <1>3, <1>4, <1>5, MinIs
  <1> QED
    BY <1>6 DEF S

\* Once no thread finds a chain left, each was measured once.
LEMMA MeasuredOnce == MergeInv => EachChainMeasured
  <1> SUFFICES ASSUME MergeInv, Ended, work = "measure", NEW j \in DOMAIN measured
               PROVE  measured[j] = 1
    BY DEF EachChainMeasured
  <1>1. /\ TakenOnce /\ at \in [Threads -> Nat] /\ measured \in [0 .. Chains - 1 -> Nat]
        /\ taken \in Nat /\ CHAINS_TAKEN \in Nat /\ Chains \in Nat
    BY MergeAssumption DEF MergeInv, MergeTypes
  <1>2. \A t \in Threads : at[t] > Chains /\ at[t] # None
    BY <1>1 DEF Ended, None
  <1>3. j \in 0 .. Chains - 1
    BY <1>1
  <1>4. PICK t \in Threads : TRUE
    BY MergeAssumption
  <1>5. at[t] - 1 + CHAINS_TAKEN <= taken
    BY <1>1, <1>2 DEF TakenOnce
  <1>6. j < taken
    BY <1>1, <1>2, <1>3, <1>5
  <1>7. \A v \in Threads : ~ Holds(v, j)
    BY <1>1, <1>2, <1>3 DEF Holds
  <1> QED
    BY <1>1, <1>3, <1>6, <1>7 DEF TakenOnce

-------------------------------------------------------------------------------
(* An iterator that threads call at once. *)

\* How many pairs a walk yields, and which.
LEMMA WalkYields ==
    ASSUME stream \in Nat, NEW skipped \in Nat, NEW most \in Nat
    PROVE  /\ Walk(skipped, most) \in Seq(Nat)
           /\ Walk(skipped, most) # NoChunk
           /\ Len(Walk(skipped, most)) <= most
           /\ Len(Walk(skipped, most)) # 0 => skipped + Len(Walk(skipped, most)) <= stream
           /\ Len(Walk(skipped, most)) = 0 => most = 0 \/ stream <= skipped
           /\ \A j \in 1 .. Len(Walk(skipped, most)) : Walk(skipped, most)[j] = skipped + j
  <1>1. PICK left : left = Min({most, stream - skipped})
    OBVIOUS
  <1>2. left = IF most <= stream - skipped THEN most ELSE stream - skipped
    BY <1>1, MinOfTwo
  <1>3. left \in Int
    BY <1>2
  <1>4. PICK n : n = Max({0, left})
    OBVIOUS
  <1>5. n = IF 0 <= left THEN left ELSE 0
    BY <1>3, <1>4, MaxOfTwo
  <1>6. Walk(skipped, most) = [j \in 1 .. n |-> skipped + j]
    BY <1>1, <1>4 DEF Walk
  <1>7. n \in Nat /\ n <= most /\ (n # 0 => skipped + n <= stream) /\ (n = 0 => most = 0 \/ stream <= skipped)
    BY <1>2, <1>3, <1>5
  <1>8. PICK w : w = Walk(skipped, most)
    OBVIOUS
  <1>9. w = [j \in 1 .. n |-> skipped + j]
    BY <1>6, <1>8
  <1>10. w \in Seq(Nat) /\ Len(w) = n
    BY <1>7, <1>9
  <1>11. w # NoChunk
    <2>1. CASE n = 1
      <3>1. w[1] = skipped + 1
        BY <1>9, <2>1
      <3>2. NoChunk[1] = 0
        BY DEF NoChunk
      <3> QED
        BY <3>1, <3>2
    <2>2. CASE n # 1
      BY <1>10, <2>2 DEF NoChunk
    <2> QED
      BY <2>1, <2>2
  <1> QED
    BY <1>7, <1>8, <1>9, <1>10, <1>11

\* What each variable of an iterator holds.
IterTypes ==
    /\ kind \in {"none", "string", "dict"}
    /\ said \in Nat /\ stream \in 0 .. MaxKeys
    /\ kind # "none" => after \in [0 .. stream -> 0 .. stream]
    /\ buf \in Seq(Nat) /\ out \in Seq(Nat) /\ chunk \in Seq(Nat)
    /\ cursor \in Nat /\ remaining \in Nat
    /\ ends \in [some : BOOLEAN, at : Nat]
    /\ kind = "none" => chunk = NoChunk /\ buf = <<>> /\ out = <<>> /\ cursor = 0 /\ ~ ends.some

\* What a string iterator has handed out, will hand out of its buffer and may read is what len() said.
CountedOff ==
    kind = "string" => cursor \in 0 .. stream /\ Len(out) + Len(buf) + remaining = said

\* The chunk a string iterator reads next.
NextString == Walk(after[cursor], Min({ITER_CHUNK, remaining}))

\* A chunk that was read is what the index has past the cursor, and the buffer is empty.
ChunkIsNext ==
    chunk # NoChunk =>
        /\ buf = <<>>
        /\ kind = "string" => remaining > 0 /\ chunk = NextString
        /\ kind = "dict" => chunk = Walk(cursor, ITER_CHUNK)

\* An iterator that has answered None has nothing left, and reads nothing more.
StaysEnded ==
    ends.some =>
        /\ buf = <<>> /\ Len(out) = ends.at /\ chunk \in {NoChunk, <<>>}
        /\ kind = "string" => remaining = 0 \/ NextString = <<>>
        /\ kind = "dict" => cursor = PastAll

\* Of a sound index what was handed out and the buffer are its first pairs, and the cursor is at
\* the last of them, or past all of them.
FirstPairs ==
    (Sound /\ kind # "none") =>
        /\ \A i \in DOMAIN out : out[i] = i
        /\ \A i \in DOMAIN buf : buf[i] = Len(out) + i
        /\ Len(out) + Len(buf) <= said
        /\ \/ cursor = Len(out) + Len(buf)
           \/ kind = "dict" /\ cursor = PastAll /\ Len(out) + Len(buf) = said

IterInv == IterTypes /\ CountedOff /\ ChunkIsNext /\ StaysEnded /\ FirstPairs

\* No iterator has been made at the start.
LEMMA IterStarts == IterInit => IterInv
  BY IterAssumption DEF IterInit, IterInv, IterTypes, CountedOff, ChunkIsNext, StaysEnded, FirstPairs, NoChunk

\* An iterator is made.
LEMMA IterateKeeps == IterInv /\ Iterate => IterInv'
  <1> SUFFICES ASSUME IterInv, Iterate PROVE IterInv'
    OBVIOUS
  <1>1. /\ kind = "none" /\ kind' \in {"string", "dict"}
        /\ said' \in 0 .. MaxKeys /\ stream' \in 0 .. MaxKeys
        /\ after' \in [0 .. stream' -> 0 .. stream']
        /\ remaining' = said'
        /\ chunk' = chunk /\ buf' = buf /\ cursor' = cursor /\ out' = out /\ ends' = ends
    BY DEF Iterate
  <1>2. IterTypes /\ cursor = 0
    BY <1>1 DEF IterInv, IterTypes
  <1>3. chunk = NoChunk /\ buf = <<>> /\ out = <<>> /\ ~ ends.some
    BY <1>1, <1>2 DEF IterTypes
  <1>4. IterTypes'
    BY <1>1, <1>2, <1>3, IterAssumption DEF IterTypes
  <1>5. CountedOff'
    <2>1. cursor' = 0 /\ stream' \in Nat /\ said' \in Nat /\ remaining' = said'
      BY <1>1, <1>2, IterAssumption
    <2>2. Len(out') = 0 /\ Len(buf') = 0
      BY <1>1, <1>3
    <2>3. cursor' \in 0 .. stream'
      BY <2>1
    <2>4. Len(out') + Len(buf') + remaining' = said'
      <3>1. PICK n, l, b, r : n = said' /\ l = Len(out') /\ b = Len(buf') /\ r = remaining'
        OBVIOUS
      <3>2. n \in Nat /\ r = n /\ l = 0 /\ b = 0
        BY <2>1, <2>2, <3>1
      <3>3. l + b + r = n
        BY <3>2
      <3> QED
        BY <3>1, <3>3
    <2> QED
      BY <2>3, <2>4 DEF CountedOff
  <1>6. ChunkIsNext' /\ StaysEnded'
    BY <1>1, <1>3 DEF ChunkIsNext, StaysEnded
  <1>7. FirstPairs'
    BY <1>1, <1>2, <1>3, IterAssumption DEF FirstPairs
  <1> QED
    BY <1>4, <1>5, <1>6, <1>7 DEF IterInv

\* What a step leaves of the index is the same, and so is what a string iterator reads next.
SameIndex == kind' = kind /\ said' = said /\ stream' = stream /\ after' = after

\* The numbers a string iterator reads with.
NextTypes == stream \in Nat /\ after[cursor] \in Nat /\ Min({ITER_CHUNK, remaining}) \in Nat

\* They are natural ones, and it reads at most what remains.
LEMMA NextIs ==
    ASSUME IterTypes, CountedOff, kind = "string"
    PROVE  /\ NextTypes
           /\ Min({ITER_CHUNK, remaining}) <= remaining
           /\ remaining > 0 => Min({ITER_CHUNK, remaining}) > 0
  <1>1. stream \in Nat /\ after \in [0 .. stream -> 0 .. stream] /\ remaining \in Nat
    BY DEF IterTypes
  <1>2. cursor \in 0 .. stream
    BY DEF CountedOff
  <1>3. after[cursor] \in Nat
    BY <1>1, <1>2
  <1>4. ITER_CHUNK \in Nat /\ ITER_CHUNK > 0
    BY IterAssumption
  <1>5. Min({ITER_CHUNK, remaining}) = IF ITER_CHUNK <= remaining THEN ITER_CHUNK ELSE remaining
    BY <1>1, <1>4, MinOfTwo
  <1> QED
    BY <1>1, <1>3, <1>4, <1>5 DEF NextTypes

\* The lock is taken.
LEMMA LockKeeps == ASSUME NEW c \in Callers PROVE IterInv /\ Lock(c) => IterInv'
  BY DEF Lock, IterInv, IterTypes, CountedOff, ChunkIsNext, StaysEnded, FirstPairs, NextString, Walk, Sound

\* A pair is handed out of the buffer.
LEMMA HandOutKeeps == ASSUME NEW c \in Callers PROVE IterInv /\ HandOut(c) => IterInv'
  <1> SUFFICES ASSUME IterInv, HandOut(c) PROVE IterInv'
    OBVIOUS
  <1>1. /\ chunk = NoChunk /\ buf # <<>> /\ out' = Append(out, Head(buf)) /\ buf' = Tail(buf)
        /\ SameIndex /\ chunk' = chunk /\ cursor' = cursor /\ remaining' = remaining /\ ends' = ends
    BY DEF HandOut, SameIndex
  <1>2. IterTypes /\ CountedOff /\ StaysEnded /\ FirstPairs
    BY DEF IterInv
  <1>3. out \in Seq(Nat) /\ buf \in Seq(Nat)
    BY <1>2 DEF IterTypes
  <1>4. /\ out' \in Seq(Nat) /\ buf' \in Seq(Nat)
        /\ Len(out') = Len(out) + 1 /\ Len(buf') = Len(buf) - 1 /\ Len(buf) >= 1
        /\ Len(out) \in Nat /\ Len(buf) \in Nat
        /\ \A i \in 1 .. Len(out) : out'[i] = out[i]
        /\ out'[Len(out) + 1] = buf[1]
        /\ \A i \in 1 .. Len(buf) - 1 : buf'[i] = buf[i + 1]
    BY <1>1, <1>3
  <1>5. IterTypes'
    BY <1>1, <1>2, <1>4 DEF IterTypes, SameIndex
  <1>6. CountedOff'
    <2>1. Len(out') + Len(buf') = Len(out) + Len(buf)
      BY <1>4
    <2>2. kind = "string" => cursor \in 0 .. stream /\ Len(out) + Len(buf) + remaining = said
      BY <1>2 DEF CountedOff
    <2> QED
      BY <1>1, <2>1, <2>2 DEF CountedOff, SameIndex
  <1>7. ChunkIsNext'
    BY <1>1 DEF ChunkIsNext
  <1>8. StaysEnded'
    BY <1>1, <1>2 DEF StaysEnded
  <1>9. FirstPairs'
    <2> SUFFICES ASSUME Sound', kind' # "none"
                 PROVE  /\ \A i \in DOMAIN out' : out'[i] = i
                        /\ \A i \in DOMAIN buf' : buf'[i] = Len(out') + i
                        /\ Len(out') + Len(buf') <= said'
                        /\ \/ cursor' = Len(out') + Len(buf')
                           \/ kind' = "dict" /\ cursor' = PastAll /\ Len(out') + Len(buf') = said'
      BY DEF FirstPairs, PastAll
    <2>1. Sound /\ kind # "none"
      BY <1>1 DEF Sound, SameIndex
    <2>2. /\ \A i \in 1 .. Len(out) : out[i] = i
          /\ \A i \in 1 .. Len(buf) : buf[i] = Len(out) + i
          /\ Len(out) + Len(buf) <= said
          /\ \/ cursor = Len(out) + Len(buf)
             \/ kind = "dict" /\ cursor = PastAll /\ Len(out) + Len(buf) = said
      BY <1>2, <1>3, <2>1 DEF FirstPairs
    <2>3. DOMAIN out' = 1 .. Len(out) + 1 /\ DOMAIN buf' = 1 .. Len(buf) - 1
      BY <1>4
    <2>4. \A i \in DOMAIN out' : out'[i] = i
      <3> SUFFICES ASSUME NEW i \in 1 .. Len(out) + 1 PROVE out'[i] = i
        BY <2>3
      <3>1. CASE i = Len(out) + 1
        <4>1. buf[1] = Len(out) + 1
          BY <1>4, <2>2
        <4> QED
          BY <1>4, <3>1, <4>1
      <3>2. CASE i # Len(out) + 1
        <4>1. i \in 1 .. Len(out)
          BY <1>4, <3>2
        <4> QED
          BY <1>4, <2>2, <4>1
      <3> QED
        BY <3>1, <3>2
    <2>5. \A i \in DOMAIN buf' : buf'[i] = Len(out') + i
      <3> SUFFICES ASSUME NEW i \in 1 .. Len(buf) - 1 PROVE buf'[i] = Len(out') + i
        BY <2>3
      <3>1. i + 1 \in 1 .. Len(buf) /\ i \in Nat
        BY <1>4
      <3>2. buf[i + 1] = Len(out) + (i + 1)
        BY <2>2, <3>1
      <3> QED
        BY <1>4, <3>1, <3>2
    <2>6. Len(out') + Len(buf') = Len(out) + Len(buf)
      BY <1>4
    <2> QED
      BY <1>1, <2>2, <2>4, <2>5, <2>6 DEF SameIndex
  <1> QED
    BY <1>5, <1>6, <1>7, <1>8, <1>9 DEF IterInv

\* A string iterator answers None: nothing remains.
LEMMA NothingLeftKeeps == ASSUME NEW c \in Callers PROVE IterInv /\ NothingLeft(c) => IterInv'
  <1> SUFFICES ASSUME IterInv, NothingLeft(c) PROVE IterInv'
    OBVIOUS
  <1>1. /\ kind = "string" /\ chunk = NoChunk /\ buf = <<>> /\ remaining = 0
        /\ ends' = IF ends.some THEN ends ELSE [some |-> TRUE, at |-> Len(out)]
        /\ kind' = kind /\ said' = said /\ stream' = stream /\ after' = after
        /\ chunk' = chunk /\ buf' = buf /\ cursor' = cursor /\ remaining' = remaining /\ out' = out
    BY DEF NothingLeft, Answer_None
  <1>2. IterTypes /\ CountedOff /\ ChunkIsNext /\ StaysEnded /\ FirstPairs
    BY DEF IterInv
  <1>3. IterTypes'
    BY <1>1, <1>2 DEF IterTypes
  <1>4. CountedOff' /\ ChunkIsNext' /\ FirstPairs'
    BY <1>1, <1>2 DEF CountedOff, ChunkIsNext, FirstPairs, Sound
  <1>5. StaysEnded'
    BY <1>1, <1>2 DEF StaysEnded, IterTypes
  <1> QED
    BY <1>3, <1>4, <1>5 DEF IterInv

\* A string iterator reads the index.
LEMMA ReadStringKeeps == ASSUME NEW c \in Callers PROVE IterInv /\ ReadString(c) => IterInv'
  <1> SUFFICES ASSUME IterInv, ReadString(c) PROVE IterInv'
    OBVIOUS
  <1>1. /\ kind = "string" /\ chunk = NoChunk /\ buf = <<>> /\ remaining > 0
        /\ chunk' = NextString
        /\ kind' = kind /\ said' = said /\ stream' = stream /\ after' = after
        /\ buf' = buf /\ cursor' = cursor /\ remaining' = remaining /\ out' = out /\ ends' = ends
    BY DEF ReadString, NextString
  <1>2. IterTypes /\ CountedOff /\ ChunkIsNext /\ StaysEnded /\ FirstPairs
    BY DEF IterInv
  <1>3. NextString' = NextString
    BY <1>1 DEF NextString, Walk
  <1>4. NextString \in Seq(Nat)
    <2>1. NextTypes
      BY <1>1, <1>2, NextIs
    <2> QED
      BY <2>1, WalkYields DEF NextString, NextTypes
  <1>5. IterTypes'
    BY <1>1, <1>2, <1>4 DEF IterTypes
  <1>6. CountedOff' /\ FirstPairs'
    BY <1>1, <1>2 DEF CountedOff, FirstPairs, Sound
  <1>7. ChunkIsNext'
    BY <1>1, <1>3 DEF ChunkIsNext
  <1>8. StaysEnded'
    BY <1>1, <1>2, <1>3 DEF StaysEnded
  <1> QED
    BY <1>5, <1>6, <1>7, <1>8 DEF IterInv

\* A string iterator counts what it read off, or answers None.
LEMMA KeepStringKeeps == ASSUME NEW c \in Callers PROVE IterInv /\ KeepString(c) => IterInv'
  <1> SUFFICES ASSUME IterInv, KeepString(c) PROVE IterInv'
    OBVIOUS
  <1>1. /\ kind = "string" /\ chunk # NoChunk
        /\ remaining' = remaining - Len(chunk)
        /\ cursor' = (IF chunk = <<>> THEN cursor ELSE Last(chunk))
        /\ buf' = chunk /\ chunk' = NoChunk /\ out' = out
        /\ kind' = kind /\ said' = said /\ stream' = stream /\ after' = after
        /\ chunk = <<>> => ends' = IF ends.some THEN ends ELSE [some |-> TRUE, at |-> Len(out)]
        /\ chunk # <<>> => ends' = ends
    BY DEF KeepString, Answer_None
  <1>2. IterTypes /\ CountedOff /\ ChunkIsNext /\ StaysEnded /\ FirstPairs
    BY DEF IterInv
  <1>3. buf = <<>> /\ remaining > 0 /\ chunk = NextString /\ cursor \in 0 .. stream
        /\ Len(out) + Len(buf) + remaining = said
    BY <1>1, <1>2 DEF ChunkIsNext, CountedOff
  <1>4. /\ stream \in Nat /\ said \in Nat /\ remaining \in Nat /\ out \in Seq(Nat) /\ Len(out) \in Nat
        /\ chunk \in Seq(Nat) /\ Len(chunk) \in Nat /\ after \in [0 .. stream -> 0 .. stream]
    <2>1. stream \in Nat /\ after \in [0 .. stream -> 0 .. stream]
      <3>1. kind # "none"
        BY <1>1
      <3> QED
        BY <1>2, <3>1 DEF IterTypes
    <2>2. said \in Nat /\ remaining \in Nat /\ out \in Seq(Nat) /\ chunk \in Seq(Nat)
      BY <1>2 DEF IterTypes
    <2>3. Len(out) \in Nat /\ Len(chunk) \in Nat
      BY <2>2
    <2> QED
      BY <2>1, <2>2, <2>3
  <1>5. PICK skipped \in Nat, most \in Nat : skipped = after[cursor] /\ most = Min({ITER_CHUNK, remaining})
    BY <1>1, <1>2, NextIs DEF NextTypes
  <1>6. most <= remaining /\ most > 0
    BY <1>1, <1>2, <1>3, <1>5, NextIs
  <1>7. /\ Len(chunk) <= most
        /\ Len(chunk) # 0 => skipped + Len(chunk) <= stream
        /\ Len(chunk) = 0 => most = 0 \/ stream <= skipped
        /\ \A j \in 1 .. Len(chunk) : chunk[j] = skipped + j
    <2>1. chunk = Walk(skipped, most)
      BY <1>3, <1>5 DEF NextString
    <2> QED
      BY <1>4, <2>1, WalkYields
  <1>8. chunk = <<>> <=> Len(chunk) = 0
    BY <1>4
  <1>9. chunk # <<>> => Last(chunk) = skipped + Len(chunk)
    BY <1>4, <1>7, <1>8 DEF Last
  <1>10. cursor' \in 0 .. stream
    <2>1. CASE chunk = <<>>
      BY <1>1, <1>3, <2>1
    <2>2. CASE chunk # <<>>
      <3>1. cursor' = skipped + Len(chunk) /\ Len(chunk) # 0
        BY <1>1, <1>8, <1>9, <2>2
      <3>2. cursor' <= stream /\ cursor' \in Nat
        BY <1>4, <1>7, <3>1
      <3> QED
        BY <1>4, <3>2
    <2> QED
      BY <2>1, <2>2
  <1>11. remaining' \in Nat /\ Len(buf') = Len(chunk) /\ remaining' = remaining - Len(chunk)
    BY <1>1, <1>4, <1>6, <1>7
  <1>12. IterTypes'
    <2>1. ends' \in [some : BOOLEAN, at : Nat]
      <3>1. ends \in [some : BOOLEAN, at : Nat] /\ Len(out) \in Nat
        BY <1>2, <1>4 DEF IterTypes
      <3>2. CASE ends' = ends
        BY <3>1, <3>2
      <3>3. CASE ends' = [some |-> TRUE, at |-> Len(out)]
        BY <3>1, <3>3
      <3>4. ends' = ends \/ ends' = [some |-> TRUE, at |-> Len(out)]
        BY <1>1
      <3> QED
        BY <3>2, <3>3, <3>4
    <2>2. NoChunk \in Seq(Nat)
      BY DEF NoChunk
    <2>3. cursor' \in Nat
      BY <1>4, <1>10
    <2> QED
      BY <1>1, <1>2, <1>4, <1>11, <2>1, <2>2, <2>3 DEF IterTypes
  <1>13. CountedOff'
    <2>1. Len(buf) = 0
      BY <1>3
    <2>2. Len(out) + remaining = said
      BY <1>3, <1>4, <2>1
    <2>3. Len(out') = Len(out) /\ said' = said
      BY <1>1
    <2>4. Len(out') + Len(buf') + remaining' = said'
      <3>1. remaining \in Nat /\ Len(out) \in Nat /\ Len(chunk) \in Nat
        BY <1>4
      <3>2. Len(buf') = Len(chunk) /\ remaining' = remaining - Len(chunk)
        BY <1>11
      <3> QED
        BY <2>2, <2>3, <3>1, <3>2
    <2> QED
      BY <1>1, <1>10, <2>4 DEF CountedOff
  <1>14. ChunkIsNext'
    BY <1>1 DEF ChunkIsNext
  <1>15. StaysEnded'
    <2>1. CASE chunk = <<>>
      <3>1. cursor' = cursor /\ remaining' = remaining
        BY <1>1, <1>4, <1>8, <2>1
      <3>2. NextString' = NextString
        BY <1>1, <3>1 DEF NextString, Walk
      <3>3. NextString' = <<>>
        BY <1>3, <2>1, <3>2
      <3>4. Len(out) = ends'.at
        BY <1>1, <1>2, <1>4, <2>1 DEF StaysEnded
      <3> QED
        BY <1>1, <2>1, <3>3, <3>4 DEF StaysEnded
    <2>2. CASE chunk # <<>>
      <3>1. ~ ends.some
        BY <1>1, <1>2, <2>2 DEF StaysEnded
      <3> QED
        BY <1>1, <2>2, <3>1 DEF StaysEnded
    <2> QED
      BY <2>1, <2>2
  <1>16. FirstPairs'
    <2> SUFFICES ASSUME Sound
                 PROVE  /\ \A i \in DOMAIN out : out[i] = i
                        /\ \A i \in DOMAIN chunk : chunk[i] = Len(out) + i
                        /\ Len(out) + Len(chunk) <= said
                        /\ cursor' = Len(out) + Len(chunk)
      BY <1>1 DEF FirstPairs, Sound
    <2>1. /\ \A i \in DOMAIN out : out[i] = i
          /\ cursor = Len(out) + Len(buf) /\ Len(out) + Len(buf) <= said
      BY <1>1, <1>2 DEF FirstPairs
    <2>2. skipped = Len(out) /\ stream = said
      <3>1. after[cursor] = cursor /\ stream = said
        BY <1>3, <1>4 DEF Sound
      <3>2. Len(buf) = 0
        BY <1>3
      <3> QED
        BY <1>4, <1>5, <2>1, <3>1, <3>2
    <2>3. DOMAIN chunk = 1 .. Len(chunk)
      BY <1>4
    <2>4. \A i \in DOMAIN chunk : chunk[i] = Len(out) + i
      BY <1>7, <2>2, <2>3
    <2>5. Len(out) + Len(chunk) <= said
      <3>1. CASE Len(chunk) = 0
        BY <1>3, <1>4, <2>1, <3>1
      <3>2. CASE Len(chunk) # 0
        BY <1>7, <2>2, <3>2
      <3> QED
        BY <3>1, <3>2
    <2>6. cursor' = Len(out) + Len(chunk)
      <3>1. CASE chunk = <<>>
        BY <1>1, <1>3, <1>4, <1>8, <2>1, <3>1
      <3>2. CASE chunk # <<>>
        BY <1>1, <1>9, <2>2, <3>2
      <3> QED
        BY <3>1, <3>2
    <2> QED
      BY <2>1, <2>4, <2>5, <2>6
  <1> QED
    BY <1>12, <1>13, <1>14, <1>15, <1>16 DEF IterInv

\* A dictionary's iterator reads the index.
LEMMA ReadDictKeeps == ASSUME NEW c \in Callers PROVE IterInv /\ ReadDict(c) => IterInv'
  <1> SUFFICES ASSUME IterInv, ReadDict(c) PROVE IterInv'
    OBVIOUS
  <1> DEFINE next == Walk(cursor, ITER_CHUNK)
  <1>1. /\ kind = "dict" /\ chunk = NoChunk /\ buf = <<>>
        /\ chunk' = next
        /\ kind' = kind /\ said' = said /\ stream' = stream /\ after' = after
        /\ buf' = buf /\ cursor' = cursor /\ remaining' = remaining /\ out' = out /\ ends' = ends
    BY DEF ReadDict
  <1>2. IterTypes /\ CountedOff /\ StaysEnded /\ FirstPairs
    BY DEF IterInv
  <1>3. stream \in Nat /\ stream <= MaxKeys /\ cursor \in Nat /\ ITER_CHUNK \in Nat
    BY <1>2, IterAssumption DEF IterTypes
  <1>4. next' = next
    BY <1>1 DEF Walk
  <1>5. next \in Seq(Nat)
    BY <1>3, WalkYields
  <1>6. cursor = PastAll => next = <<>>
    <2> SUFFICES ASSUME cursor = PastAll PROVE next = <<>>
      OBVIOUS
    <2>1. stream < cursor
      BY <1>3, IterAssumption DEF PastAll
    <2>2. Len(next) # 0 => cursor + Len(next) <= stream
      BY <1>3, WalkYields
    <2>3. Len(next) \in Nat
      BY <1>5
    <2> HIDE DEF next
    <2>4. Len(next) = 0
      BY <1>3, <2>1, <2>2, <2>3
    <2> QED
      BY <1>5, <2>4
  <1> HIDE DEF next
  <1>7. IterTypes'
    BY <1>1, <1>2, <1>5 DEF IterTypes
  <1>8. CountedOff' /\ FirstPairs'
    BY <1>1, <1>2 DEF CountedOff, FirstPairs, Sound
  <1>9. ChunkIsNext'
    BY <1>1, <1>4 DEF ChunkIsNext, next
  <1>10. StaysEnded'
    BY <1>1, <1>2, <1>6 DEF StaysEnded
  <1> QED
    BY <1>7, <1>8, <1>9, <1>10 DEF IterInv

\* A dictionary's iterator buffers what it read, or answers None.
LEMMA KeepDictKeeps == ASSUME NEW c \in Callers PROVE IterInv /\ KeepDict(c) => IterInv'
  <1> SUFFICES ASSUME IterInv, KeepDict(c) PROVE IterInv'
    OBVIOUS
  <1>1. /\ kind = "dict" /\ chunk # NoChunk
        /\ cursor' = (IF chunk = <<>> THEN PastAll ELSE Last(chunk))
        /\ buf' = chunk /\ chunk' = NoChunk /\ out' = out /\ remaining' = remaining
        /\ kind' = kind /\ said' = said /\ stream' = stream /\ after' = after
        /\ chunk = <<>> => ends' = IF ends.some THEN ends ELSE [some |-> TRUE, at |-> Len(out)]
        /\ chunk # <<>> => ends' = ends
    BY DEF KeepDict, Answer_None
  <1>2. IterTypes /\ CountedOff /\ ChunkIsNext /\ StaysEnded /\ FirstPairs
    BY DEF IterInv
  <1>3. buf = <<>> /\ chunk = Walk(cursor, ITER_CHUNK)
    BY <1>1, <1>2 DEF ChunkIsNext
  <1>4. /\ stream \in Nat /\ stream <= MaxKeys /\ said \in Nat /\ out \in Seq(Nat) /\ chunk \in Seq(Nat)
        /\ Len(out) \in Nat /\ Len(chunk) \in Nat /\ cursor \in Nat
        /\ ITER_CHUNK \in Nat /\ ITER_CHUNK > 0 /\ MaxKeys \in Nat
    <2>1. out \in Seq(Nat) /\ chunk \in Seq(Nat)
      BY <1>2 DEF IterTypes
    <2>2. stream \in Nat /\ stream <= MaxKeys /\ said \in Nat /\ cursor \in Nat
      BY <1>2, IterAssumption DEF IterTypes
    <2>3. Len(out) \in Nat /\ Len(chunk) \in Nat
      BY <2>1
    <2> QED
      BY <2>1, <2>2, <2>3, IterAssumption
  <1>5. /\ Len(chunk) # 0 => cursor + Len(chunk) <= stream
        /\ Len(chunk) = 0 => stream <= cursor
        /\ \A j \in 1 .. Len(chunk) : chunk[j] = cursor + j
    <2>1. PICK w : w = Walk(cursor, ITER_CHUNK)
      OBVIOUS
    <2>2. /\ Len(w) # 0 => cursor + Len(w) <= stream
          /\ Len(w) = 0 => ITER_CHUNK = 0 \/ stream <= cursor
          /\ \A j \in 1 .. Len(w) : w[j] = cursor + j
      BY <1>4, <2>1, WalkYields
    <2>3. chunk = w
      BY <1>3, <2>1
    <2> QED
      BY <1>4, <2>2, <2>3
  <1>6. chunk = <<>> <=> Len(chunk) = 0
    BY <1>4
  <1>7. chunk # <<>> => Last(chunk) = cursor + Len(chunk)
    BY <1>4, <1>5, <1>6 DEF Last
  <1>8. cursor' \in Nat
    BY <1>1, <1>4, <1>7 DEF PastAll
  <1>9. IterTypes'
    <2>1. ends' \in [some : BOOLEAN, at : Nat]
      <3>1. ends \in [some : BOOLEAN, at : Nat] /\ Len(out) \in Nat
        BY <1>2, <1>4 DEF IterTypes
      <3>2. CASE ends' = ends
        BY <3>1, <3>2
      <3>3. CASE ends' = [some |-> TRUE, at |-> Len(out)]
        BY <3>1, <3>3
      <3>4. ends' = ends \/ ends' = [some |-> TRUE, at |-> Len(out)]
        BY <1>1
      <3> QED
        BY <3>2, <3>3, <3>4
    <2>2. NoChunk \in Seq(Nat)
      BY DEF NoChunk
    <2> QED
      BY <1>1, <1>2, <1>8, <2>1, <2>2 DEF IterTypes
  <1>10. CountedOff' /\ ChunkIsNext'
    BY <1>1 DEF CountedOff, ChunkIsNext
  <1>11. StaysEnded'
    <2>1. CASE chunk = <<>>
      <3>1. Len(out) = ends'.at
        BY <1>1, <1>2, <1>4, <2>1 DEF StaysEnded
      <3> QED
        BY <1>1, <2>1, <3>1 DEF StaysEnded
    <2>2. CASE chunk # <<>>
      <3>1. ~ ends.some
        BY <1>1, <1>2, <2>2 DEF StaysEnded
      <3> QED
        BY <1>1, <2>2, <3>1 DEF StaysEnded
    <2> QED
      BY <2>1, <2>2
  <1>12. FirstPairs'
    <2> SUFFICES ASSUME Sound
                 PROVE  /\ \A i \in DOMAIN out : out[i] = i
                        /\ \A i \in DOMAIN chunk : chunk[i] = Len(out) + i
                        /\ Len(out) + Len(chunk) <= said
                        /\ \/ cursor' = Len(out) + Len(chunk)
                           \/ cursor' = PastAll /\ Len(out) + Len(chunk) = said
      BY <1>1 DEF FirstPairs, Sound, PastAll
    <2>1. /\ \A i \in DOMAIN out : out[i] = i
          /\ Len(out) + Len(buf) <= said
          /\ cursor = Len(out) + Len(buf) \/ (cursor = PastAll /\ Len(out) + Len(buf) = said)
      BY <1>1, <1>2 DEF FirstPairs
    <2>2. stream = said /\ Len(buf) = 0
      BY <1>3 DEF Sound
    <2>3. DOMAIN chunk = 1 .. Len(chunk)
      BY <1>4
    <2>4. Len(out) <= said /\ (cursor = Len(out) \/ (cursor > stream /\ Len(out) = said))
      BY <1>4, <2>1, <2>2 DEF PastAll
    <2>5. CASE chunk = <<>>
      <3>1. Len(chunk) = 0 /\ stream <= cursor
        BY <1>5, <1>6, <2>5
      <3>2. Len(out) + Len(chunk) = said
        BY <1>4, <2>2, <2>4, <3>1
      <3> QED
        BY <1>1, <1>4, <2>1, <2>3, <2>5, <3>1, <3>2
    <2>6. CASE chunk # <<>>
      <3>1. cursor + Len(chunk) <= stream /\ cursor' = cursor + Len(chunk) /\ Len(chunk) >= 1
        BY <1>1, <1>4, <1>5, <1>6, <1>7, <2>6
      <3>2. cursor = Len(out)
        BY <1>4, <2>4, <3>1
      <3>3. \A i \in DOMAIN chunk : chunk[i] = Len(out) + i
        BY <1>5, <2>3, <3>2
      <3> QED
        BY <1>4, <2>1, <2>2, <3>1, <3>2, <3>3
    <2> QED
      BY <2>5, <2>6
  <1> QED
    BY <1>9, <1>10, <1>11, <1>12 DEF IterInv

\* The calls on an iterator keep IterInv, which has what was handed out, what waits and what is left.
THEOREM IterKeepsInvariant == IterSpec => []IterInv
  <1>1. IterInv /\ [IterNext]_iterVars => IterInv'
    <2> SUFFICES ASSUME IterInv, [IterNext]_iterVars PROVE IterInv'
      OBVIOUS
    <2>1. CASE Iterate
      BY <2>1, IterateKeeps
    <2>2. ASSUME NEW c \in Callers, Lock(c) PROVE IterInv'
      BY <2>2, LockKeeps
    <2>3. ASSUME NEW c \in Callers, InCall(c) PROVE IterInv'
      BY <2>3, HandOutKeeps, NothingLeftKeeps, ReadStringKeeps, KeepStringKeeps, ReadDictKeeps,
         KeepDictKeeps DEF InCall
    <2>4. CASE UNCHANGED iterVars
      BY <2>4 DEF iterVars, IterInv, IterTypes, CountedOff, ChunkIsNext, StaysEnded, FirstPairs,
                  NextString, Walk, Sound
    <2> QED
      BY <2>1, <2>2, <2>3, <2>4 DEF IterNext
  <1> QED
    BY <1>1, IterStarts, PTL DEF IterSpec

\* A sound index's pairs come out once each, in order, and all of them before the first None.
LEMMA InOrder == IterInv => HandedInOrder
  <1> SUFFICES ASSUME IterInv, Sound
               PROVE  out = [i \in DOMAIN out |-> i] /\ (ends.some => Len(out) = said)
    BY DEF HandedInOrder
  <1>1. IterTypes /\ CountedOff /\ StaysEnded /\ FirstPairs
    BY DEF IterInv
  <1>2. /\ out \in Seq(Nat) /\ stream \in Nat /\ stream <= MaxKeys /\ said \in Nat /\ remaining \in Nat
        /\ MaxKeys \in Nat
    BY <1>1, IterAssumption DEF IterTypes
  <1>3. CASE kind = "none"
    <2>1. out = <<>> /\ ~ ends.some
      BY <1>1, <1>3 DEF IterTypes
    <2> QED
      BY <2>1
  <1>4. CASE kind # "none"
    <2>1. /\ \A i \in DOMAIN out : out[i] = i
          /\ Len(out) + Len(buf) <= said
          /\ cursor = Len(out) + Len(buf) \/ (kind = "dict" /\ cursor = PastAll /\ Len(out) + Len(buf) = said)
      BY <1>1, <1>4 DEF FirstPairs
    <2>2. out = [i \in DOMAIN out |-> i]
      BY <1>2, <2>1
    <2>3. ASSUME ends.some PROVE Len(out) = said
      <3>1. Len(buf) = 0 /\ Len(out) \in Nat
        BY <1>1, <1>2, <2>3 DEF StaysEnded
      <3>2. CASE kind = "dict"
        <4>1. cursor = PastAll
          BY <1>1, <2>3, <3>2 DEF StaysEnded
        <4>2. cursor > said
          BY <1>2, <4>1 DEF PastAll, Sound
        <4> QED
          BY <1>2, <2>1, <3>1, <4>2
      <3>3. CASE kind = "string"
        <4>1. cursor \in 0 .. stream /\ Len(out) + remaining = said
          BY <1>1, <1>2, <3>1, <3>3 DEF CountedOff
        <4>2. remaining = 0 \/ NextString = <<>>
          BY <1>1, <2>3, <3>3 DEF StaysEnded
        <4>3. CASE remaining = 0
          BY <3>1, <4>1, <4>3
        <4>4. CASE remaining # 0 /\ NextString = <<>>
          <5>1. PICK skipped \in Nat, most \in Nat : skipped = after[cursor] /\ most = Min({ITER_CHUNK, remaining})
            BY <1>1, <3>3, NextIs DEF NextTypes
          <5>2. most # 0
            BY <1>1, <1>2, <3>3, <4>4, <5>1, NextIs
          <5>3. Walk(skipped, most) = <<>>
            BY <4>4, <5>1 DEF NextString
          <5>4. Len(Walk(skipped, most)) = 0
            BY <5>3
          <5>5. stream <= skipped
            BY <1>2, <5>2, <5>4, WalkYields
          <5>6. skipped = cursor
            BY <1>1, <1>4, <4>1, <5>1 DEF Sound, IterTypes
          <5> QED
            BY <1>2, <2>1, <3>1, <3>3, <5>5, <5>6 DEF Sound
        <4> QED
          BY <4>2, <4>3, <4>4
      <3> QED
        BY <1>1, <1>4, <3>2, <3>3 DEF IterTypes
    <2> QED
      BY <2>2, <2>3
  <1> QED
    BY <1>3, <1>4

\* A string iterator hands out no more than len() said, and none goes on after None.
LEMMA NoMore == IterInv => HandedNoMore
  <1> SUFFICES ASSUME IterInv
               PROVE  (kind = "string" => Len(out) + Len(buf) <= said) /\ (ends.some => Len(out) = ends.at)
    BY DEF HandedNoMore
  <1>1. /\ kind = "string" => Len(out) + Len(buf) + remaining = said
        /\ ends.some => Len(out) = ends.at
    BY DEF IterInv, CountedOff, StaysEnded
  <1>2. out \in Seq(Nat) /\ buf \in Seq(Nat) /\ remaining \in Nat
    BY DEF IterInv, IterTypes
  <1>3. Len(out) \in Nat /\ Len(buf) \in Nat
    BY <1>2
  <1> QED
    BY <1>1, <1>2, <1>3

\* What threads write without waiting for one another comes to what one thread would: the lowest
\* nodes, each chain measured once, and the pairs of a shared iterator in order, once each.
THEOREM ThreadsComeToOne == MergeSpec /\ IterSpec => []ThreadsAgree
  <1>1. MergeInv /\ IterInv => ThreadsAgree
    BY FoundLowest, MeasuredOnce, InOrder, NoMore DEF ThreadsAgree
  <1> QED
    BY <1>1, MergeKeepsInvariant, IterKeepsInvariant, PTL
===============================================================================
