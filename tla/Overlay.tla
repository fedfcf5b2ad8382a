-------------------------------- MODULE Overlay --------------------------------
(***************************************************************************)
(* The mutable layer over an immutable index: src/src/overlay.rs.          *)
(*                                                                         *)
(* `ov' is the struct Overlay.  Keys are numbers, so that they have the    *)
(* order a StringIndex numbers them by; the addition arena is a sequence   *)
(* of keys, an addition's record start is its index; a tombstone word is   *)
(* the set of its set bits, WordBits of them.  The hash of a key is a      *)
(* parameter, so that distinct additions can collide.                      *)
(***************************************************************************)
EXTENDS Integers, FiniteSets, SequencesExt

CONSTANTS
    Keys,           \* a finite set of numbers
    Bases,          \* which indexes can be underneath: "string", "perfect", "compact"
    HashOf,         \* blob::hash_block, from Keys to any set
    WordBits,       \* bits of a tombstone word
    MaxAdditions,   \* bound: additions an overlay is taken to
    None            \* no id, no key

ASSUME KeysAssumption == Keys \subseteq Nat /\ IsFiniteSet(Keys) /\ None \notin Nat
ASSUME BaseAssumption == Bases \subseteq {"string", "perfect", "compact"}
ASSUME WordAssumption == WordBits \in Nat \ {0} /\ MaxAdditions \in Nat

VARIABLES
    ov,      \* the overlay
    file     \* what save or compact_to_file wrote last

vars == <<ov, file>>

NoFile == [kind |-> "none"]

\* EXACT_MEMBERSHIP; the exact bases are also the ones that store their keys.
Exact(kind) == kind # "compact"

-------------------------------------------------------------------------------
(* The base: an index as the overlay sees it, base_len, base_id and base_key.   *)

Numberings(S) == {f \in [0 .. Cardinality(S) - 1 -> S] : \A i, j \in DOMAIN f : f[i] = f[j] => i = j}

Ascending(f) == \A i, j \in DOMAIN f : i < j => f[i] < f[j]

\* A StringIndex numbers by rank; a perfect hash, as its seeds fall.
KeyTables(kind, S) == IF kind = "string" THEN {f \in Numberings(S) : Ascending(f)} ELSE Numberings(S)

\* base_id answers exactly for the keys of the base, and, without exact membership, for any other
\* key too, with any id.
IdTables(kind, f) ==
    {g \in [Keys -> DOMAIN f \cup {None}] :
        /\ \A i \in DOMAIN f : g[f[i]] = i
        /\ Exact(kind) => \A k \in Keys : g[k] # None => f[g[k]] = k}

\* Every index that can be built over the keys S.
BasesOver(kind, S) ==
    UNION {{[kind |-> kind, n |-> Cardinality(S), key |-> f, id |-> g] : g \in IdTables(kind, f)} :
               f \in KeyTables(kind, S)}

-------------------------------------------------------------------------------
(* Methods of the overlay. *)

New(base) ==
    [base |-> base, added |-> <<>>, lookup |-> [h \in {} |-> 0], collisions |-> <<>>,
     dead |-> <<>>, live |-> base.n]

IdSpace(o) == o.base.n + Len(o.added)

AddedKey(o, i) == o.added[i + 1]

\* added_index: the first addition with the hash, or one of those that came after it with the
\* same hash; None if none of them is the key.
AddedIndex(o, k) ==
    LET h == HashOf[k]
        later == {c \in Range(o.collisions) : c.hash = h /\ AddedKey(o, c.index) = k}
    IN  IF h \notin DOMAIN o.lookup THEN None
        ELSE IF AddedKey(o, o.lookup[h]) = k THEN o.lookup[h]
        ELSE IF later # {} THEN (CHOOSE c \in later : TRUE).index
        ELSE None

\* Fault: a colliding addition takes the slot of the hash, as HashMap::insert would give it.
PushAddedOver(o, k) ==
    [o EXCEPT !.added = Append(@, k),
              !.lookup = [h \in DOMAIN @ \cup {HashOf[k]} |->
                             IF h = HashOf[k] THEN Len(o.added) ELSE @[h]]]

\* Fault: the index is read after the record is pushed.
PushAddedLate(o, k) ==
    LET h == HashOf[k]
        i == Len(o.added) + 1
        pushed == [o EXCEPT !.added = Append(@, k)]
    IN  IF h \in DOMAIN o.lookup
        THEN [pushed EXCEPT !.collisions = Append(@, [hash |-> h, index |-> i])]
        ELSE [pushed EXCEPT !.lookup = [g \in DOMAIN @ \cup {h} |-> IF g = h THEN i ELSE @[g]]]

\* push_added: the key's record, then its slot, or the collision list if the hash has one.
PushAdded(o, k) ==
    LET h == HashOf[k]
        i == Len(o.added)
        pushed == [o EXCEPT !.added = Append(@, k)]
    IN  IF h \in DOMAIN o.lookup
        THEN [pushed EXCEPT !.collisions = Append(@, [hash |-> h, index |-> i])]
        ELSE [pushed EXCEPT !.lookup = [g \in DOMAIN @ \cup {h} |-> IF g = h THEN i ELSE @[g]]]

WordOf(id) == id \div WordBits
BitOf(id) == id % WordBits

IsDead(o, id) == WordOf(id) < Len(o.dead) /\ BitOf(id) \in o.dead[WordOf(id) + 1]

\* set_dead(id, true) makes the word first; set_dead(id, false) never needs one that is not there.
SetDead(o, id) ==
    LET w == WordOf(id)
        grown == IF w < Len(o.dead) THEN o.dead
                 ELSE o.dead \o [i \in 1 .. w + 1 - Len(o.dead) |-> {}]
    IN  [o EXCEPT !.dead = [grown EXCEPT ![w + 1] = @ \cup {BitOf(id)}]]

ClearDead(o, id) ==
    IF WordOf(id) < Len(o.dead)
    THEN [o EXCEPT !.dead[WordOf(id) + 1] = @ \ {BitOf(id)}]
    ELSE o

\* id: the base's answer first, and the additions only when it has none.
IdIssued(o, k) ==
    LET i == AddedIndex(o, k)
    IN  IF o.base.id[k] # None THEN o.base.id[k]
        ELSE IF i # None THEN o.base.n + i
        ELSE None

Id(o, k) ==
    LET id == IdIssued(o, k) IN IF id # None /\ ~IsDead(o, id) THEN id ELSE None

\* key, which the index that stores no keys does not have.
Key(o, id) ==
    IF IsDead(o, id) \/ id >= IdSpace(o) THEN None
    ELSE IF id < o.base.n THEN o.base.key[id]
    ELSE AddedKey(o, id - o.base.n)

LiveKeys(o) == {Key(o, id) : id \in 0 .. IdSpace(o) - 1} \ {None}

\* The keys at the live ids from `first' up to `next', by id.
LiveBetween(o, first, next) ==
    LET at[id \in first .. next] ==
            IF id = first THEN <<>>
            ELSE IF IsDead(o, id - 1) THEN at[id - 1]
            ELSE Append(at[id - 1], Key(o, id - 1))
    IN  at[next]

\* sort_unstable, of keys no two of which are equal.
Sorted(s) == CHOOSE t \in [DOMAIN s -> Range(s)] : Ascending(t)

\* merge_sorted: the lesser head first, and a's when they are equal.
Merge(a, b) ==
    LET at[n \in 0 .. Len(a) + Len(b)] ==
            IF n = 0 THEN [i |-> 0, j |-> 0, out |-> <<>>]
            ELSE LET w == at[n - 1]
                 IN  IF w.i < Len(a) /\ (w.j = Len(b) \/ a[w.i + 1] <= b[w.j + 1])
                     THEN [i |-> w.i + 1, j |-> w.j, out |-> Append(w.out, a[w.i + 1])]
                     ELSE [i |-> w.i, j |-> w.j + 1, out |-> Append(w.out, b[w.j + 1])]
    IN  at[Len(a) + Len(b)].out

\* Fault: the retired additions are streamed with the others, and nothing sorts them.
StreamedUnfiltered(o) == LiveBetween(o, 0, o.base.n) \o o.added

\* The keys compact_to_file and rebuild_to_file stream into a new base: the base's own by id, then
\* the additions; a StringIndex, whose builder is a sorted one, sorts the additions and merges.
Streamed(o) ==
    LET ownKeys == LiveBetween(o, 0, o.base.n)
        newKeys == LiveBetween(o, o.base.n, IdSpace(o))
    IN  IF o.base.kind = "string" THEN Merge(ownKeys, Sorted(newKeys)) ELSE ownKeys \o newKeys

\* Fault: a revived id is not counted.
ReviveUncounted(o, id) == ClearDead(o, id)

Revive(o, id) == IF IsDead(o, id) THEN [ClearDead(o, id) EXCEPT !.live = @ + 1] ELSE o

\* Fault: a retired key is taken for a new one.
AddKeyAfresh(o, k) ==
    IF Id(o, k) # None THEN o ELSE [PushAdded(o, k) EXCEPT !.live = @ + 1]

\* add: a key known before keeps its id, and is revived if retired.
AddKey(o, k) ==
    IF IdIssued(o, k) # None THEN Revive(o, IdIssued(o, k))
    ELSE [PushAdded(o, k) EXCEPT !.live = @ + 1]

\* Fault: any id that is not retired can be.
RetireUnissued(o, id) == IF IsDead(o, id) THEN o ELSE [SetDead(o, id) EXCEPT !.live = @ - 1]

\* retire_id: an id never issued, or already retired, changes nothing.
RetireId(o, id) ==
    IF id >= IdSpace(o) \/ IsDead(o, id) THEN o ELSE [SetDead(o, id) EXCEPT !.live = @ - 1]

-------------------------------------------------------------------------------
(* The blob. *)

\* to_bytes and save: the base's own bytes, the additions, the tombstone words, and the counts of
\* the last two in the header; neither live nor the lookup is stored.
Blob(o) == [tag |-> o.base.kind, base |-> o.base, additions |-> o.added, words |-> o.dead]

\* The bits of the words, as ids.
Tombstones(words) ==
    UNION {{(w - 1) * WordBits + b : b \in words[w]} : w \in DOMAIN words}

\* from_bytes_with and assemble: the tag, then no addition the base has (when it can tell) or that
\* came before, then no bit outside the id space.
Accepts(kind, blob) ==
    /\ blob.tag = kind
    /\ Exact(kind) => \A i \in DOMAIN blob.additions : blob.base.id[blob.additions[i]] = None
    /\ \A i, j \in DOMAIN blob.additions : blob.additions[i] = blob.additions[j] => i = j
    /\ \A id \in Tombstones(blob.words) : id < blob.base.n + Len(blob.additions)

\* The additions pushed in the order they are stored.
Pushed(base, additions) ==
    LET at[n \in 0 .. Len(additions)] ==
            IF n = 0 THEN New(base) ELSE PushAdded(at[n - 1], additions[n])
    IN  at[Len(additions)]

Assemble(blob) ==
    LET o == Pushed(blob.base, blob.additions)
    IN  [o EXCEPT !.dead = blob.words,
                  !.live = IdSpace(o) - Cardinality(Tombstones(blob.words))]

-------------------------------------------------------------------------------
(* The overlay and its user. *)

Init ==
    /\ \E kind \in Bases, S \in SUBSET Keys : \E b \in BasesOver(kind, S) : ov = New(b)
    /\ file = NoFile

\* add(k)
Add(k) ==
    /\ IdIssued(ov, k) = None => Len(ov.added) < MaxAdditions
    /\ ov' = AddKey(ov, k)
    /\ UNCHANGED file

\* retire_id(id), of any id issued, or the next one.
Retire(id) ==
    /\ ov' = RetireId(ov, id)
    /\ UNCHANGED file

\* remove(k), on a base with exact membership only.
RemoveKey(k) ==
    /\ Exact(ov.base.kind)
    /\ ov' = IF Id(ov, k) = None THEN ov ELSE RetireId(ov, Id(ov, k))
    /\ UNCHANGED file

\* compact: the base rebuilt from the live keys, in an overlay with no edits.
Compact ==
    /\ Exact(ov.base.kind)
    /\ \E b \in BasesOver(ov.base.kind, LiveKeys(ov)) : ov' = New(b)
    /\ UNCHANGED file

\* Fault: the new ids are the ranks of the old ones among those still live.
RemapByRank(old, new) ==
    [id \in 0 .. IdSpace(old) - 1 |->
        IF Key(old, id) = None THEN None
        ELSE Cardinality({i \in 0 .. id - 1 : ~IsDead(old, i)})]

\* The renumbering compact_with_remap answers with: the new id of the key at each old id, None
\* where it was retired.
Remap(old, new) ==
    [id \in 0 .. IdSpace(old) - 1 |-> IF Key(old, id) = None THEN None ELSE Id(new, Key(old, id))]

\* compact_to_file: a base over the streamed keys, in its own format.
CompactToFile ==
    /\ Exact(ov.base.kind)
    /\ \E b \in BasesOver(ov.base.kind, Range(Streamed(ov))) : file' = [kind |-> "base", base |-> b]
    /\ UNCHANGED ov

\* save
Save ==
    /\ file' = [kind |-> "overlay", blob |-> Blob(ov)]
    /\ UNCHANGED ov

\* load_with of what save wrote, after a restart.
Load ==
    /\ file.kind = "overlay" /\ Accepts(ov.base.kind, file.blob)
    /\ ov' = Assemble(file.blob)
    /\ UNCHANGED file

\* The base's own load of what compact_to_file wrote, wrapped in a new overlay.
LoadBase ==
    /\ file.kind = "base"
    /\ ov' = New(file.base)
    /\ UNCHANGED file

Next ==
    \/ \E k \in Keys : Add(k) \/ RemoveKey(k)
    \/ \E id \in 0 .. IdSpace(ov) : Retire(id)
    \/ Compact
    \/ CompactToFile
    \/ Save
    \/ Load
    \/ LoadBase

Spec == Init /\ [][Next]_vars

-------------------------------------------------------------------------------
(* Properties. *)

Words == SUBSET (0 .. WordBits - 1)

\* Every field of the struct has its type (struct Overlay): a lookup slot or a collision always
\* names an addition that is there.
TypeOK ==
    /\ ov.base.kind \in Bases
    /\ ov.base.n \in 0 .. Cardinality(Keys)
    /\ ov.base.key \in [0 .. ov.base.n - 1 -> Keys]
    /\ ov.base.id \in [Keys -> 0 .. ov.base.n - 1 \cup {None}]
    /\ ov.added \in Seq(Keys)
    /\ \A h \in DOMAIN ov.lookup : ov.lookup[h] \in 0 .. Len(ov.added) - 1
    /\ \A c \in Range(ov.collisions) : c.index \in 0 .. Len(ov.added) - 1
    /\ ov.dead \in Seq(Words)
    /\ ov.live \in Nat

\* len is how many ids are issued and not retired, and no tombstone is left outside the id space:
\* through revivals, reloads and words that appear only when a bit of them is set.
LiveCounted ==
    /\ ov.live = Cardinality({id \in 0 .. IdSpace(ov) - 1 : ~IsDead(ov, id)})
    /\ Tombstones(ov.dead) \subseteq 0 .. IdSpace(ov) - 1

\* id and key are inverse: no two live ids have the same key, which a duplicate addition, an
\* addition the base has, or an addition lost to a hash collision would break.  (Over a base that
\* stores no keys, the same of the additions alone.)  And the live ids are counted.
IdsAndKeysAgree ==
    /\ LiveCounted
    /\ \A k \in Keys : Exact(ov.base.kind) /\ Id(ov, k) # None => Key(ov, Id(ov, k)) = k
    /\ \A id \in 0 .. IdSpace(ov) - 1 :
           Exact(ov.base.kind) /\ Key(ov, id) # None => Id(ov, Key(ov, id)) = id
    /\ \A i \in 0 .. Len(ov.added) - 1 : IdIssued(ov, AddedKey(ov, i)) = ov.base.n + i

\* What save writes, load accepts, whatever was done in between, and gives back the overlay: the
\* same arena, lookup, collisions, tombstones and count.
SavedLoads ==
    LET blob == Blob(ov) IN Accepts(ov.base.kind, blob) /\ Assemble(blob) = ov

\* What compact_to_file streams is what compact rebuilds from: every live key, once, and ascending
\* where the builder needs it so (rebuild_to_file, merge_sorted).
StreamsLiveKeys ==
    LET s == Streamed(ov)
    IN  Exact(ov.base.kind) =>
            /\ Range(s) = LiveKeys(ov)
            /\ Len(s) = ov.live
            /\ ov.base.kind = "string" => \A i, j \in DOMAIN s : i < j => s[i] < s[j]

\* compact_with_remap carries every id: a live one to the new id of the same key, two live ones to
\* different ids, and every new id is the image of an old one (the "expect" of compact_with_remap).
RemapCarries ==
    [][ov'.added = <<>> /\ Compact =>
        LET remap == Remap(ov, ov')
            alive == {id \in DOMAIN remap : ~IsDead(ov, id)}
        IN  /\ \A id \in alive : remap[id] # None /\ Key(ov', remap[id]) = Key(ov, id)
            /\ {remap[id] : id \in alive} = 0 .. IdSpace(ov') - 1
            /\ Cardinality(alive) = ov'.live]_vars

\* The ids of an overlay, as StableIds has them.
IdsOf(o) ==
    [idOf |-> [k \in Keys |-> IdIssued(o, k)], space |-> IdSpace(o),
     live |-> {i \in 0 .. IdSpace(o) - 1 : ~IsDead(o, i)}]

\* The ids a file stands for: additions are numbered after the base in the order they are stored.
IdsIn(blob) ==
    LET n == blob.base.n
        added == {i \in DOMAIN blob.additions : blob.base.id[blob.additions[i]] = None}
    IN  [idOf |-> [k \in Keys |->
                      IF \E i \in added : blob.additions[i] = k
                      THEN n - 1 + CHOOSE i \in added : blob.additions[i] = k
                      ELSE blob.base.id[k]],
         space |-> n + Len(blob.additions),
         live |-> (0 .. n + Len(blob.additions) - 1) \ Tombstones(blob.words)]

\* The copy a file keeps.
Kept(f) ==
    CASE f.kind = "none"    -> {}
      [] f.kind = "base"    -> {IdsOf(New(f.base))}
      [] f.kind = "overlay" -> {IdsIn(f.blob)}

Stable == INSTANCE StableIds WITH now <- IdsOf(ov), kept <- Kept(file)

\* The overlay implements StableIds: an id once issued stays its key's and is never issued again,
\* a retired one is revived only by its key, and only a compaction renumbers (struct Overlay's
\* contract), also for the holder of a saved copy.
KeepsIdsStable == Stable!Spec

-------------------------------------------------------------------------------
(* The inductive invariant of the proofs. *)

\* A base numbers its keys from 0, each once, and base_id is the inverse: exactly so where
\* membership is exact.
BaseOK(b) ==
    /\ b.kind \in Bases /\ b.n \in Nat
    /\ b.key \in [0 .. b.n - 1 -> Keys]
    /\ b.id \in [Keys -> (0 .. b.n - 1) \cup {None}]
    /\ \A i \in 0 .. b.n - 1 : b.id[b.key[i]] = i
    /\ Exact(b.kind) => \A k \in Keys : b.id[k] # None => b.key[b.id[k]] = k
    /\ b.kind = "string" => Ascending(b.key)

\* The hashes of the keys, and what the lookup and the collisions hold.
Hashes == {HashOf[k] : k \in Keys}

\* The fields of an overlay have their types.
FieldsOK(o) ==
    /\ o.added \in Seq(Keys)
    /\ DOMAIN o.lookup \subseteq Hashes /\ o.lookup \in [DOMAIN o.lookup -> Nat]
    /\ o.collisions \in Seq([hash : Hashes, index : Nat])
    /\ o.dead \in Seq(Words)
    /\ o.live \in Nat
    /\ o = [base |-> o.base, added |-> o.added, lookup |-> o.lookup,
            collisions |-> o.collisions, dead |-> o.dead, live |-> o.live]

\* No addition is a key of the base, or another addition.
AddedOnce(o) ==
    /\ \A i \in DOMAIN o.added : o.base.id[o.added[i]] = None
    /\ \A i, j \in DOMAIN o.added : o.added[i] = o.added[j] => i = j

\* Every addition is found under its hash, in the lookup or among the collisions, and what either
\* holds under a hash is an addition that has it.
AddedFound(o) ==
    /\ \A h \in DOMAIN o.lookup :
           o.lookup[h] \in 0 .. Len(o.added) - 1 /\ HashOf[AddedKey(o, o.lookup[h])] = h
    /\ \A c \in Range(o.collisions) :
           c.index \in 0 .. Len(o.added) - 1 /\ HashOf[AddedKey(o, c.index)] = c.hash
    /\ \A i \in 0 .. Len(o.added) - 1 :
        LET h == HashOf[AddedKey(o, i)]
        IN  /\ h \in DOMAIN o.lookup
            /\ o.lookup[h] = i \/ \E c \in Range(o.collisions) : c.hash = h /\ c.index = i

\* Pushing the additions again in the arena's order finds each in the place it has.
Rebuilt(o) == Pushed(o.base, o.added) = [o EXCEPT !.dead = <<>>, !.live = o.base.n]

\* The ids issued and not retired.
LiveIds(o) == {id \in 0 .. IdSpace(o) - 1 : ~IsDead(o, id)}

\* Only an issued id is retired, and the others are counted.
Counted(o) ==
    /\ Tombstones(o.dead) \subseteq 0 .. IdSpace(o) - 1
    /\ o.live = Cardinality(LiveIds(o))

OverlayOK(o) ==
    /\ BaseOK(o.base) /\ FieldsOK(o)
    /\ AddedOnce(o) /\ AddedFound(o) /\ Rebuilt(o) /\ Counted(o)

\* A file holds a base, or the blob of such an overlay.
FileOK ==
    \/ file = NoFile
    \/ file.kind = "base" /\ BaseOK(file.base)
    \/ /\ file.kind = "overlay"
       /\ OverlayOK(Assemble(file.blob)) /\ Blob(Assemble(file.blob)) = file.blob

OInv == OverlayOK(ov) /\ FileOK

===============================================================================
