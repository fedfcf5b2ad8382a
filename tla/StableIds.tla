------------------------------- MODULE StableIds -------------------------------
(***************************************************************************)
(* What an Overlay promises the holder of an id (src/src/overlay.rs): a    *)
(* key keeps the id it was first known under, an id is never issued to     *)
(* another key, removing retires and adding again revives, and only a      *)
(* compaction renumbers.  Over a probabilistic base a key may be known     *)
(* from the start under another key's id: its false positive.              *)
(***************************************************************************)
EXTENDS Integers, FiniteSets

CONSTANTS Keys, None

VARIABLES
    now,     \* the ids as they stand: idOf, the id each key is known under (or None), space, how
             \* many ids were issued, and live, the ids that are not retired
    kept     \* the last saved copy: none yet, or one

vars == <<now, kept>>

Ids(n) == 0 .. n - 1

\* The ids of an index over a set of keys: every one issued to a key, all of them live.
Fresh(s) ==
    /\ s.live = Ids(s.space)
    /\ \A k \in Keys : s.idOf[k] \in s.live \cup {None}
    /\ \A i \in s.live : \E k \in Keys : s.idOf[k] = i

Init == Fresh(now) /\ kept = {}

\* A key known before is live again under its id; an unknown one gets the next id.
WithKey(s, k) ==
    IF s.idOf[k] = None
    THEN [idOf |-> [s.idOf EXCEPT ![k] = s.space], space |-> s.space + 1,
          live |-> s.live \cup {s.space}]
    ELSE [s EXCEPT !.live = @ \cup {s.idOf[k]}]

Add(k) == now' = WithKey(now, k) /\ UNCHANGED kept

Retire(i) == now' = [now EXCEPT !.live = @ \ {i}] /\ UNCHANGED kept

\* t numbers the live keys of s afresh.
Renumbers(s, t) ==
    /\ Fresh(t)
    /\ t.space = Cardinality(s.live)
    /\ \A k \in Keys : t.idOf[k] = None <=> s.idOf[k] \notin s.live

Renumber == Renumbers(now, now') /\ UNCHANGED kept

RenumberAside == (\E s \in kept' : kept' = {s} /\ Renumbers(now, s)) /\ UNCHANGED now

Save == kept' = {now} /\ UNCHANGED now

Load == now' \in kept /\ UNCHANGED kept

Next ==
    \/ \E k \in Keys : Add(k)
    \/ \E i \in now.live : Retire(i)
    \/ Renumber
    \/ RenumberAside
    \/ Save
    \/ Load

Spec == Init /\ [][Next]_vars

===============================================================================
