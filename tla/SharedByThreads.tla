---------------------------- MODULE SharedByThreads ----------------------------
(***************************************************************************)
(* State that threads share and write without waiting for one another's    *)
(* turns. Two machines, which share nothing themselves.                    *)
(*                                                                         *)
(* The threads of a superstring merge (src/src/superstring.rs): the search *)
(* for the lowest node that places a key (sweep), and the chains' lengths, *)
(* taken a few chains at a time (lay_out). A behaviour runs one of the two.*)
(*                                                                         *)
(* The Python iterators over a StringIndex and a DictIndex                 *)
(* (src/src/python.rs): threads call __next__ on one of them, which hands  *)
(* out a chunk of pairs at a time and refills it from the index under its  *)
(* lock. The index is what a load that trusts its bytes lets through: a    *)
(* cursor may seek elsewhere than past the key it names, and a stream may  *)
(* hold fewer or more keys than len().                                     *)
(***************************************************************************)
EXTENDS Integers, Sequences, FiniteSets, FiniteSetsExt, SequencesExt

-------------------------------------------------------------------------------
(* The threads of a merge. *)

CONSTANTS
    Threads,         \* 1 .. as many as run
    KeysIn,          \* keys some node's link may end
    Nodes,           \* nodes below depth 1, numbered from 1
    Chains,          \* heads, numbered from 0
    CHAINS_TAKEN

VARIABLES
    work,            \* which of the two runs, if one does
    link,            \* the key a node's link ends, or None
    at,              \* the next item of each thread
    turned,          \* threads whose load let them go on to the fetch_min
    placed,          \* the lowest node found for each key
    taken,           \* chains handed out
    measured         \* how often each chain was measured

mergeVars == <<work, link, at, turned, placed, taken, measured>>

None    == 0

\* There is a thread, and no key is the mark of a link that ends none.
ASSUME MergeAssumption ==
    /\ IsFiniteSet(Threads) /\ Threads # {} /\ Threads = 1 .. Cardinality(Threads)
    /\ None \notin KeysIn
    /\ Nodes \in Nat /\ Chains \in Nat /\ CHAINS_TAKEN \in Nat

Nowhere == Nodes + 1
Chunk   == (Nodes + Cardinality(Threads) - 1) \div Cardinality(Threads)
First(t) == (t - 1) * Chunk + 1
End(t)   == Min({t * Chunk, Nodes}) + 1

MergeInit == /\ work = "none"
             /\ link = <<>> /\ at = <<>> /\ turned = {} /\ placed = <<>>
             /\ taken = 0 /\ measured = <<>>

\* The threads are spawned, over any links or over the chains.
Find == /\ work = "none" /\ work' = "find"
        /\ link' \in [1 .. Nodes -> KeysIn \cup {None}]
        /\ at' = [t \in Threads |-> First(t)]
        /\ placed' = [k \in KeysIn |-> Nowhere]
        /\ UNCHANGED <<turned, taken, measured>>
MeasureChains == /\ work = "none" /\ work' = "measure"
                 /\ at' = [t \in Threads |-> None]
                 /\ measured' = [j \in 0 .. Chains - 1 |-> 0]
                 /\ UNCHANGED <<link, turned, placed, taken>>

\* The node's link ends a key, and the load finds that key placed nowhere or higher.
Lower(u) == link[u] # None /\ placed[link[u]] > u

Pass(t) == /\ work = "find" /\ t \notin turned /\ at[t] < End(t)
           /\ ~Lower(at[t])
           /\ at' = [at EXCEPT ![t] = @ + 1]
           /\ UNCHANGED <<work, link, turned, placed, taken, measured>>

Load(t) == /\ work = "find" /\ t \notin turned /\ at[t] < End(t)
           /\ Lower(at[t])
           /\ turned' = turned \cup {t}
           /\ UNCHANGED <<work, link, at, placed, taken, measured>>

\* Fault: the node is stored over whatever another thread has found since the load.
StoreOver(t) == /\ t \in turned
                /\ placed' = [placed EXCEPT ![link[at[t]]] = at[t]]
                /\ turned' = turned \ {t}
                /\ at' = [at EXCEPT ![t] = @ + 1]
                /\ UNCHANGED <<work, link, taken, measured>>

\* placed[k].fetch_min(u).
FetchMin(t) == /\ t \in turned
               /\ placed' = [placed EXCEPT ![link[at[t]]] = Min({@, at[t]})]
               /\ turned' = turned \ {t}
               /\ at' = [at EXCEPT ![t] = @ + 1]
               /\ UNCHANGED <<work, link, taken, measured>>

\* taken.fetch_add(CHAINS_TAKEN): `at` is the first chain taken, plus one.
Take(t) == /\ work = "measure" /\ at[t] = None
           /\ taken' = taken + CHAINS_TAKEN
           /\ at' = [at EXCEPT ![t] = taken + 1]
           /\ UNCHANGED <<work, link, turned, placed, measured>>

\* The chains taken are measured, and the thread comes back for more.
Measure(t) == /\ work = "measure" /\ at[t] \in 1 .. Chains
              /\ LET got == at[t] - 1 .. Min({at[t] - 1 + CHAINS_TAKEN, Chains}) - 1
                 IN  measured' = [j \in DOMAIN measured |-> measured[j] + (IF j \in got THEN 1 ELSE 0)]
              /\ at' = [at EXCEPT ![t] = None]
              /\ UNCHANGED <<work, link, turned, placed, taken>>

MergeNext == Find \/ MeasureChains \/ \E t \in Threads : Pass(t) \/ Load(t) \/ FetchMin(t) \/ Take(t) \/ Measure(t)

\* A thread that can go on does.
MergeFairness == \A t \in Threads : WF_mergeVars(Pass(t) \/ Load(t) \/ FetchMin(t) \/ Take(t) \/ Measure(t))

MergeSpec == MergeInit /\ [][MergeNext]_mergeVars

-------------------------------------------------------------------------------
(* An iterator that threads call at once. *)

CONSTANTS Callers, Nobody, ITER_CHUNK,
          MaxKeys,      \* pairs of an index, at most
          MaxCalls      \* calls a caller makes, at most

ASSUME IterAssumption == ITER_CHUNK \in Nat \ {0} /\ MaxKeys \in Nat

VARIABLES
    kind,        \* "string" or "dict"
    said,        \* what len() answers
    stream,      \* how many pairs a walk of the whole index yields
    after,       \* how many of them a walk past a cursor skips
    holder,      \* who holds the lock
    chunk,       \* the pairs just read from the index, not yet the buffer
    buf,         \* pairs to hand out
    cursor,      \* resume, or next
    remaining,   \* pairs a string iterator may still hand out
    out,         \* what was handed out, in the order of the lock
    ends,        \* calls that answered None, and what had been handed out by the first
    calls

iterVars == <<kind, said, stream, after, holder, chunk, buf, cursor, remaining, out, ends, calls>>

NoChunk == <<0>>
PastAll == MaxKeys + 2      \* the cursor of a dict walk that has ended
Sound   == stream = said /\ \A i \in DOMAIN after : after[i] = i

\* Pairs from <skipped> on, at most <most>.
Walk(skipped, most) == [j \in 1 .. Max({0, Min({most, stream - skipped})}) |-> skipped + j]

IterInit == /\ kind = "none" /\ said = 0 /\ stream = 0 /\ after = <<>>
            /\ holder = Nobody /\ chunk = NoChunk /\ buf = <<>> /\ cursor = 0 /\ remaining = 0
            /\ out = <<>> /\ ends = [some |-> FALSE, at |-> 0]
            /\ calls = [c \in Callers |-> 0]

\* __iter__, on an index of either kind; one cursor of a string index may be a key it does not hold.
Iterate == /\ kind = "none"
           /\ kind' \in {"string", "dict"}
           /\ said' \in 0 .. MaxKeys /\ stream' \in 0 .. MaxKeys
           /\ after' \in {f \in [0 .. stream' -> 0 .. stream'] :
                             f[0] = 0 /\ Cardinality({i \in DOMAIN f : f[i] # i}) <= IF kind' = "dict" THEN 0 ELSE 1}
           /\ remaining' = said'
           /\ UNCHANGED <<holder, chunk, buf, cursor, out, ends, calls>>

\* lock_py_attached.
Lock(c) == /\ kind # "none" /\ holder = Nobody /\ calls[c] < MaxCalls
           /\ holder' = c
           /\ calls' = [calls EXCEPT ![c] = @ + 1]
           /\ UNCHANGED <<kind, said, stream, after, chunk, buf, cursor, remaining, out, ends>>

HandOut(c) == /\ holder = c /\ chunk = NoChunk /\ buf # <<>>
              /\ out' = Append(out, Head(buf))
              /\ buf' = Tail(buf)
              /\ holder' = Nobody
              /\ UNCHANGED <<kind, said, stream, after, chunk, cursor, remaining, ends, calls>>

Answer_None == /\ ends' = IF ends.some THEN ends ELSE [some |-> TRUE, at |-> Len(out)]
               /\ holder' = Nobody

NothingLeft(c) == /\ kind = "string" /\ holder = c /\ chunk = NoChunk /\ buf = <<>> /\ remaining = 0
                  /\ Answer_None
                  /\ UNCHANGED <<kind, said, stream, after, chunk, buf, cursor, remaining, out, calls>>

\* refill reads the index: past the cursor, at most as many as remain.
ReadString(c) == /\ kind = "string" /\ holder = c /\ chunk = NoChunk /\ buf = <<>> /\ remaining > 0
                 /\ chunk' = Walk(after[cursor], Min({ITER_CHUNK, remaining}))
                 /\ UNCHANGED <<kind, said, stream, after, holder, buf, cursor, remaining, out, ends, calls>>

\* refill counts the chunk off; a chunk without a pair ends the call.
KeepString(c) == /\ kind = "string" /\ holder = c /\ chunk # NoChunk
                 /\ remaining' = remaining - Len(chunk)
                 /\ cursor' = IF chunk = <<>> THEN cursor ELSE Last(chunk)
                 /\ buf' = chunk
                 /\ chunk' = NoChunk
                 /\ IF chunk = <<>> THEN Answer_None ELSE UNCHANGED <<holder, ends>>
                 /\ UNCHANGED <<kind, said, stream, after, out, calls>>

\* iter_from(next): ids are positions, and a stream may end early.
ReadDict(c) == /\ kind = "dict" /\ holder = c /\ chunk = NoChunk /\ buf = <<>>
               /\ chunk' = Walk(cursor, ITER_CHUNK)
               /\ UNCHANGED <<kind, said, stream, after, holder, buf, cursor, remaining, out, ends, calls>>

\* A walk that ends stays ended.
KeepDict(c) == /\ kind = "dict" /\ holder = c /\ chunk # NoChunk
               /\ cursor' = IF chunk = <<>> THEN PastAll ELSE Last(chunk)
               /\ buf' = chunk
               /\ chunk' = NoChunk
               /\ IF chunk = <<>> THEN Answer_None ELSE UNCHANGED <<holder, ends>>
               /\ UNCHANGED <<kind, said, stream, after, remaining, out, calls>>

InCall(c) == HandOut(c) \/ NothingLeft(c) \/ ReadString(c) \/ KeepString(c) \/ ReadDict(c) \/ KeepDict(c)
IterNext == Iterate \/ \E c \in Callers : Lock(c) \/ InCall(c)

\* A call that holds the lock goes on; nobody has to call.
IterFairness == \A c \in Callers : WF_iterVars(InCall(c))

IterSpec == IterInit /\ [][IterNext]_iterVars

-------------------------------------------------------------------------------
(* The properties. *)

Ended == work # "none" /\ \A t \in Threads : IF work = "find" THEN t \notin turned /\ at[t] >= End(t) ELSE at[t] > Chains

\* Once the scope ends, every key is placed at the lowest node whose link ends it, as on one thread
\* (find; the relaxed load before the fetch_min).
LowestFound ==
    (Ended /\ work = "find") =>
        \A k \in KeysIn : placed[k] = Min({Nowhere} \cup {u \in 1 .. Nodes : link[u] = k})
\* Every chain's length is measured, by one thread (measure).
EachChainMeasured == (Ended /\ work = "measure") => \A j \in DOMAIN measured : measured[j] = 1

\* The scope ends.
ThreadsEnd == work # "none" ~> Ended

\* Whoever calls, a sound index's pairs come out once each and in order, and a call answers None
\* only when they all have (IterState, DictIterState).
HandedInOrder == Sound => /\ out = [i \in DOMAIN out |-> i]
                          /\ ends.some => Len(out) = said
\* Of any index a string iterator hands out no more than len() pairs, and no iterator goes on after
\* it has answered None.
HandedNoMore == /\ kind = "string" => Len(out) + Len(buf) <= said
                /\ ends.some => Len(out) = ends.at

\* Every call returns, on any index.
CallsReturn == \A c \in Callers : holder = c ~> holder # c

\* The merge's threads come to what one thread would; an iterator that callers share hands out a
\* sound index's pairs once each and in order, and no more than len() of any (Relaxed loads, locks).
ThreadsAgree == LowestFound /\ EachChainMeasured /\ HandedInOrder /\ HandedNoMore
===============================================================================
