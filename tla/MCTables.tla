------------------------------ MODULE MCTables ---------------------------------
(***************************************************************************)
(* The tables for TLC: the perfect hash, built, written and read back, by  *)
(* its own steps; and the algorithms it is built from, the tries, and the  *)
(* indexes that are a table and little else, each on every case of a       *)
(* bounded set, one step away from a start state of its kind.              *)
(***************************************************************************)
EXTENDS Integers, Sequences, FiniteSets, FiniteSetsExt

VARIABLES
    case,                                              \* an algorithm's case
    phase, keys, left, levels, maps, table, blob       \* the table's

T == INSTANCE MphfTable WITH
        HashBits <- 3, SeedBits <- 2, NumBits <- 4, FieldBits <- 1, MODE_BITS <- 1, STRIDE <- 2, SLICE <- 4,
        ShortSlice <- 2, PerBucket <- 2, TAIL_KEYS <- 1, MAX_LEVELS <- 2, SEED_AHEAD <- 4,
        RETRY_LEAD <- 2, BATCH_BLOCK <- 3, STAGE_GAP <- 1, MaxKeys <- 4

R == INSTANCE Remap WITH
        WordBits <- 2, BLOCK <- 2, SUPER <- 4, SELECT_WORDS <- 2, SubMax <- 6, MaxLen <- 5, MaxU <- 8

\* Levels whose buckets are searched seed by seed, by lanes, and interval by interval; the second
\* is a piece of one. 11 values leave a slice of 8 to wrap.
Narrow == {[n |-> 11, slice |-> 8, stride |-> 2, modes |-> 2, shifts |-> 4, word |-> 4, origin |-> 0],
           [n |-> 12, slice |-> 8, stride |-> 2, modes |-> 2, shifts |-> 4, word |-> 4, origin |-> 2]}
Wide   == {[n |-> 11, slice |-> 8, stride |-> 1, modes |-> 1, shifts |-> 4, word |-> 2, origin |-> 0]}
\* The code's own table, up to a slice's last position.
Log2 == <<0, 65536, 103872, 131072, 152170, 169408, 183983, 196608, 207744, 217706>>
S == INSTANCE SeedSearch WITH
        HashBits <- 4, FieldBits <- 1, PROD_C <- 3, LOG2 <- Log2, LANES <- 2, MAX_BUCKET <- 2,
        Unit <- 4, Terms <- <<-7, 3, 9>>, Window <- 4,
        Narrow <- Narrow, Wide <- Wide, Free <- {0, 3, 4, 7, 9}, MaxKeys <- 3, MaxSize <- 4, RunLen <- 4

V == INSTANCE MphfV1 WITH
        WordMax <- 31, Shift <- 3, Align <- 4, Modes <- 2, REMAP_BLOCK <- 2, HashBits <- 4,
        Numbers <- {0, 1, 4, 8, 12, 16, 24}

G == INSTANCE LevelGeometry WITH
        KeysABucket <- <<9, 2>>, CHUNK <- 64, MIN_CHUNK <- 16, PIECE_FLOOR <- 16, PIECES <- 8,
        WordBits <- 4, KeyHash <- 8, MinShard <- 1

\* Every number of keys under 100, and one in 37 of those above: levels of one to thirteen chunks.
Levels == [kind : {"level"}, n : {n \in 17 .. 900 : n < 100 \/ n % 37 = 1}, slice : {8, 16}, deep : BOOLEAN]
Groupings ==
    UNION {[kind : {"keys"}, hs : [1 .. n -> 0 .. 7], buckets : {1, 3, 5}, threads : {0, 1, 2, 4}] : n \in 0 .. 3}

\* Four hashes, whose slots are in no order.
HashOrder == <<2, 0, 3, 1>>
L == INSTANCE ClosedHash WITH
        Byte <- 4, WordBytes <- 2, HashHigh <- 4, HashLow <- 1, FpBits <- 2, MaxParts <- 3, PartFloor <- 1,
        SlotOrder <- HashOrder, MaxKeys <- 3
K == INSTANCE HashedDict WITH
        Byte <- 2, WordBytes <- 3, HashHigh <- 4, HashLow <- 1, FpBits <- 5, MaxParts <- 3, PartFloor <- 1,
        SlotOrder <- HashOrder, MAX_FP_BITS <- 4, MaxKeys <- 4

B == INSTANCE Blob WITH Word <- 3

UpTo(set, n) == UNION {[1 .. m -> set] : m \in 0 .. n}
\* Three keys of one hash, two of another, one alone.
HashPairs == {<<0, 0>>, <<0, 1>>, <<0, 2>>, <<1, 1>>, <<2, 0>>, <<2, 3>>}
Strangers == <<<<0, 3>>, <<3, 0>>, <<2, 2>>, <<2, 3>>, <<0, 1>>, <<1, 1>>>>
Failures  == ({"none", "input", "write"} \X {0}) \cup ({"reps", "all"} \X (0 .. 3))
Sides(ids) == UpTo({0, 2} \X {1} \X ids, 2)
ClosedBlobs ==
    [magic : {"BCL3"}, header_ok : {TRUE}, payload_ok : {TRUE}, n : 0 .. 4, mph_ok : {TRUE},
     H : {{}, {0}, {1, 2}, {0, 2, 3}}, mph_len : {0, 5}, side : Sides(0 .. 3), len : {0, 5, 25, 45}]
      \cup [magic : {"BCL1", "BCL2", "BCL3", "BHD2"}, header_ok : BOOLEAN, payload_ok : BOOLEAN, n : {2},
            mph_ok : BOOLEAN, H : {{0, 1}}, mph_len : {5}, side : {<<>>}, len : {5}]

\* Keys that share a hash, a hash and low bits, both hashes.
DictKeys == {<<0, 0, "p">>, <<0, 9, "p">>, <<0, 8, "p">>, <<1, 1, "p">>, <<2, 31, "p">>, <<2, 31, "q">>, <<3, 21, "p">>}
Dicts(n) == {s \in UpTo(DictKeys, n) : \A i, j \in DOMAIN s : s[i] = s[j] => i = j}
OtherKeys == <<<<0, 16, "q">>, <<0, 24, "q">>, <<1, 17, "q">>, <<1, 2, "q">>, <<2, 15, "q">>, <<3, 20, "q">>>>
DictBlobs ==
    UNION {[magic : {"BHD2"}, header_ok : {TRUE}, payload_ok : {TRUE}, n : {Len(d)}, fp_bits : {0, 1, 4, 5},
            dict_len : {7}, dict_ok : {TRUE}, dict : {d}, mph_len : {0, 5}, mph_ok : {TRUE},
            H : {{}, {1}, {1, 2}, {0, 2, 3}}, on : {{}, 0 .. 17, {2, 3, 8, 11, 16}},
            side : UpTo({<<0, 9, 0>>, <<0, 16, 1>>, <<2, 31, 2>>, <<2, 15, 4>>}, 2),
            len : (7 .. 21) \cup (37 .. 42)] :
             d \in {<<>>, <<<<1, 1, "p">>>>, <<<<0, 0, "p">>, <<1, 1, "p">>, <<3, 21, "p">>>>}}

\* Payloads in three pieces, the words' ends among them; views cut twice.
Payloads == UpTo({0, 1}, 5)
BytesCases(k) ==
    CASE k = "pieces" -> [kind : {k}, pieces : [1 .. 3 -> UpTo({0, 1}, 2) \cup {<<0, 0, 1, 0>>}], others : {Payloads}]
      [] k = "views" -> [kind : {k}, src : {<<1, 2, 3, 4>>}, cut : [1 .. 4 -> 0 .. 5]]

SidecarKinds == {"pieces", "views", "closed", "closed file", "closed blob", "ranked", "ranked blob"}
SidecarCases(k) ==
    CASE k \in {"pieces", "views"} -> BytesCases(k)
      [] k = "closed" -> [kind : {k}, pairs : UpTo(HashPairs, 4), threads : {1, 2, 3}, asked : {Strangers}]
      [] k = "closed file" -> [kind : {k}, pairs : UpTo(HashPairs, 3), threads : {2}, fails : Failures]
      [] k = "closed blob" -> [kind : {k}, blob : ClosedBlobs, asked : {Strangers}]
      [] k = "ranked" ->
            {c \in [kind : {k}, dict : Dicts(4), walked : 0 .. 4, fp_bits : 0 .. 4, asked : {OtherKeys}] :
               Len(c.dict) - c.walked \in {0, 2}}
      [] k = "ranked blob" ->
            [kind : {k}, blob : {b \in DictBlobs : K!parse_frame(b, FALSE)}, verify : {TRUE}, asked : {OtherKeys}]

-------------------------------------------------------------------------------
(* The tries and the walks. *)

\* Characters 0 and 1 take a byte, 2 is in the table too, 3 and 4 are past it.
D == INSTANCE DoubleArray WITH
        OneByte <- 2, BMP <- 3, CodePoints <- 6, WordBits <- 2, CHUNK <- 2, WINDOW <- 1, WindowLabels <- 0,
        SEARCH_CAP <- 1, MAX_SLOTS <- 20, MAX_KEYS <- 20, MAX_ALPHABET <- 5

Short == {<<>>, <<1>>, <<3>>, <<1, 1>>, <<1, 3>>, <<3, 1>>, <<3, 4>>, <<1, 3, 1>>}
AnyOrder(Q) == {s \in [1 .. Cardinality(Q) -> Q] : \A i, j \in DOMAIN s : s[i] = s[j] => i = j}
FewKeys == UNION {AnyOrder(Q) : Q \in UNION {kSubset(k, Short) : k \in 0 .. 2}} \cup {<<<<1>>, <<3>>, <<1>>>>}

\* Keys of two characters, the second of any three sets a first: rows that search past one another.
Row(a, seconds) == {<<a, b>> : b \in seconds}
Chars == 0 .. 4
Picks == {{0}, {0, 1}, {1, 4}, {0, 1, 2}, {2, 3, 4}, {0, 2, 4}, {0, 1, 2, 3}}
Rows(last) ==
    {Row(0, c[1]) \cup Row(1, c[2]) \cup Row(2, c[3]) \cup Row(4, last) : c \in Picks \X Picks \X Picks}

\* One field of a blob, changed.
Tampered ==
    {<<"head", 0, f, to>> : f \in {"n", "empty", "n_slots", "table_len", "supp_len", "max_label"}, to \in {-1, 0, 1, 2, 3, 4, 9, 12, 25}}
      \cup {<<"slot", at, f, to>> : at \in 1 .. 12, f \in {"label", "base", "id", "word", "leaf"}, to \in {0, 1, 3, 4, 6, 10}}
      \cup {<<"table", at, "label", to>> : at \in 1 .. 3, to \in 0 .. 6}
      \cup {<<"supp", at, f, to>> : at \in 1 .. 2, f \in {"cp", "label"}, to \in 0 .. 6}
TamperedItems == {<<<<>>, <<1>>, <<1, 3>>, <<3, 4>>>>, <<<<0, 2>>, <<2, 0, 2>>, <<4>>>>, <<<<1, 1, 1>>>>}

\* The inputs fst keeps in a state byte.
Common == <<116, 101, 47, 111, 97, 115, 114, 105, 112, 99, 110, 119, 46, 104, 108, 109, 45, 100, 117, 48, 49,
                  50, 103, 61, 58, 98, 102, 51, 121, 53, 38, 95, 52, 118, 57, 54, 55, 56, 107, 37, 63, 120,
                  67, 68, 65, 83, 70, 73, 66, 69, 106, 80, 84, 122, 82, 78, 77, 43, 76, 79, 113, 72, 71>>
W == INSTANCE StringWalks WITH WORD <- 2, SUM <- 1, INDEXED <- 3, TableMax <- 300, COMMON_INPUTS <- Common

\* Characters of one byte, one of them not among the common inputs, of two, three and four.
latin == <<97>>
e1 == <<195, 169>>
e2 == <<195, 168>>
euro == <<226, 130, 172>>
face == <<240, 159, 152, 128>>
Letters == {latin, <<64>>, e1, e2, euro, face}
WalkWords == {<<>>, latin, latin \o latin, e1, latin \o e1, e1 \o latin, e2 \o e1, euro, face \o latin}
Queries ==
    WalkWords \cup Letters
      \cup {<<0>>, <<127>>, <<244, 143, 191, 191>>, latin \o e2, e2 \o latin, e2, e1 \o e2 \o latin,
            latin \o latin \o latin, <<226, 130, 173>>, face}
Both(first, second) == {p \o q : p \in first, q \in second}
WideFirst(n) == {<<b>> : b \in 0 .. n - 1} \cup {<<5, 7>>, <<70>>, e1}
WideKeys ==
    {Both({latin, <<64>>, e1, euro}, Letters),
     Both({latin, <<64>>, <<98>>, <<99>>, <<100>>}, Letters) \cup {<<>>},
     Both({latin}, Both({e1, e2, latin}, Letters)),
     WideFirst(3), WideFirst(5), WideFirst(70)}
ForeignMaps ==
    [{<<>>, <<97>>, <<97, 97>>, <<195>>} -> {0, 2, 301}]
      \cup [{<<97, 200>>, <<195, 169>>, <<195, 169, 97>>, <<226, 130>>} -> {1, 5, 700, 65535}]
      \cup {[k \in {<<b>> : b \in 0 .. 255} |-> k[1] \div 2], [k \in {<<b, 97>> : b \in 60 .. 130} |-> (k[1] * 7) % 50]}
TamperedKeys == {{<<>>, latin, e1}, {latin, latin \o latin, <<64>>}, {e1, e2, latin \o e1}, {latin, <<98>>, <<99>>, <<100>>}}
TamperBytes == {0, 1, 2, 3, 4, 5, 7, 9, 15, 16, 17, 18, 32, 33, 63, 64, 65, 66, 97, 98, 128, 129, 168, 169, 192, 193, 195, 255}
Lens == {0, 2, 4, 5}
Bounds == {0, 127, 128, 143, 144, 159, 160, 191, 192, 255}

WalkKinds == {"walk", "walk wide", "walk foreign", "walk tamper 0", "walk tamper 1", "walk tamper 2", "walk doubling", "walk utf8"}
WalkCasesOf(k) ==
    CASE k = "walk" -> [kind : {k}, keys : UNION {kSubset(n, WalkWords) : n \in 1 .. 3}, version : {1, 3}]
      [] k = "walk wide" -> {[kind |-> "walk", keys |-> Q, version |-> v] : Q \in WideKeys, v \in 1 .. 3}
      [] k = "walk foreign" -> {[kind |-> k, map |-> f] : f \in ForeignMaps}
      [] k = "walk tamper 0" -> [kind : {"walk tamper"}, keys : TamperedKeys, at : {i \in 1 .. 40 : i % 3 = 0}, to : TamperBytes, len : Lens]
      [] k = "walk tamper 1" -> [kind : {"walk tamper"}, keys : TamperedKeys, at : {i \in 1 .. 40 : i % 3 = 1}, to : TamperBytes, len : Lens]
      [] k = "walk tamper 2" -> [kind : {"walk tamper"}, keys : TamperedKeys, at : {i \in 1 .. 40 : i % 3 = 2}, to : TamperBytes, len : Lens]
      [] k = "walk doubling" -> [kind : {k}, n : 1 .. 18]
      [] k = "walk utf8" -> [kind : {k}, lead : 0 .. 255]

TrieKinds == {"trie", "trie rows 1", "trie rows 2", "trie rows 3", "trie tamper"} \cup WalkKinds
TrieCasesOf(k) ==
    CASE k = "trie" -> [kind : {k}, items : FewKeys]
      [] k = "trie rows 1" -> {[kind |-> "trie", items |-> D!Sorted(Q)] : Q \in Rows({1})}
      [] k = "trie rows 2" -> {[kind |-> "trie", items |-> D!Sorted(Q)] : Q \in Rows({0, 1, 2})}
      [] k = "trie rows 3" -> {[kind |-> "trie", items |-> D!Sorted(Q)] : Q \in Rows({0, 4})}
      [] k \in WalkKinds -> WalkCasesOf(k)
      [] k = "trie tamper" -> {[kind |-> k, items |-> t, part |-> f[1], at |-> f[2], field |-> f[3], to |-> f[4]] :
                                 t \in TamperedItems, f \in Tampered}
TrieAnswers(c) ==
    /\ c.kind = "trie" => D!TrieAnswers(c)
    /\ c.kind = "trie tamper" => D!TamperedTrieStays(c)
    /\ c.kind = "walk" => W!WalksAnswer(c, Queries \cup c.keys)
    /\ c.kind = "walk foreign" => W!ForeignWalksAgree(c, Queries)
    /\ c.kind = "walk tamper" => W!UntrustedHolds(c)
    /\ c.kind = "walk doubling" => W!DoublingCounted(c.n)
    /\ c.kind = "walk utf8" => W!Utf8Agrees(c.lead, Bounds)

-------------------------------------------------------------------------------
Kinds == {"sequence", "blob", "v2", "bucket", "wide", "run", "v1", "level", "keys"} \cup TrieKinds \cup SidecarKinds
CasesOf(k) ==
    CASE k = "sequence" -> R!SequenceCases
      [] k = "blob"     -> R!BlobCases
      [] k = "v2"       -> R!V2Cases
      [] k \in {"bucket", "wide", "run"} -> {c \in S!Cases : c.kind = k}
      [] k = "v1"       -> {[kind |-> k, header |-> t] : t \in V!Cases}
      [] k = "level"    -> Levels
      [] k = "keys"     -> Groupings
      [] k \in TrieKinds -> TrieCasesOf(k)
      [] k \in SidecarKinds -> SidecarCases(k)

Init == T!Init /\ case \in [kind : {"start"}, of : Kinds \cup {"table"}]
Next == \/ case.kind = "start" /\ case.of = "table" /\ T!Next /\ UNCHANGED case
        \/ case.kind = "start" /\ case.of \in Kinds /\ case' \in CasesOf(case.of)
             /\ UNCHANGED <<phase, keys, left, levels, maps, table, blob>>

\* Whatever seeds are found, the keys built in take the ids 0 .. n - 1, one each, and a hash never
\* built in still gets an id below n; the compiled decodes of a seed, and a batch at either lead of
\* its ring, answer what the general lookup does (Builder::build, index, SEED_READS, index_all).
TablesAnswer == T!Minimal /\ T!ForeignInside /\ T!DecodesAgree /\ T!BatchAgrees

\* A written table reads back and writes the same blob again; a changed blob that is accepted
\* answers inside its image, its remap read inside its tables; and so does an accepted 1.x header
\* (parse, validate, v1::Mphf::index).
LoadsAnswerInside ==
    /\ T!ReadsBack /\ T!AcceptedStaysInside
    /\ case.kind = "v1" => V!ReadsInside(case.header)

\* The remap gives every value back through the unchecked reads of a lookup; one that validate
\* accepts is exact and the one layout of its values; a converted MPH2 remap answers what MPH2
\* selected (Remap::get, validate, from_v2).
RemapsAreExact ==
    /\ case.kind = "sequence" => R!DecodesWhatItEncodes(case)
    /\ case.kind = "blob" => R!AcceptedIsExact(case)
    /\ case.kind = "v2" => R!ConvertedAgrees(case)

\* The seed taken has the lowest score of all that place the bucket, in lanes as one by one; the
\* interval search takes one of the least sum; the bitmap queue yields the buckets by priority
\* (seed_bucket, seed_bucket_lanes, seed_bucket_wide, seed_run).
SearchesTakeTheBest ==
    /\ case.kind = "bucket" => S!TakesTheLowest(case) /\ S!LanesAgree(case)
    /\ case.kind = "wide" => S!WideTakesTheLeast(case)
    /\ case.kind = "run" => S!SearchedByPriority(case)

\* No value can be taken by two pieces placed side by side, every value a piece can take is on its
\* map with the window read from it, and maps merged word by word hold what the pieces took; keys
\* in any order find their chunk, and are grouped in bucket order on any number of threads
\* (run_end, Map::merge, ChunkOf::of, group_by_bucket).
PiecesFitTogether ==
    /\ case.kind = "level" =>
         G!PiecesApart(case) /\ G!MapsSuffice(case) /\ G!MergesExactly(case) /\ G!ChunksAreFound(case)
    /\ case.kind = "keys" => G!GroupedWhateverTheThreads(case)

\* The trie's rows are placed lowest first, and it answers of any text what its keys do; every
\* query over a transducer's bytes, along a path, by rank or in key order, answers what the sorted
\* keys do; and of changed bytes that load, no walk reads past them (place_with, from_shared,
\* slots_malformed; Layout::step, FirstChars, rank_walk, validate, node_fits).
TriesAnswer == TrieAnswers(case)

\* The keys of an index that stores no key, and of a sidecar over a dictionary, get their own ids,
\* hashes shared or not, and any other text an id below the count; the file a streaming build
\* publishes is the one built in memory, whatever failed on the way; and of changed bytes that load,
\* every answer is below the count; their checksum is the whole payload's, whatever pieces it is written
\* in, and a view of them never leaves its source (id_with_side, build_to_file_with, from_pairs, value,
\* parse_frame, BlockHasher, SharedBytes).
ClosedAnswers ==
    /\ case.kind = "pieces" => B!PiecesHashAsOne(case)
    /\ case.kind = "views" => B!ViewsStayInside(case)
    /\ case.kind = "closed" => L!MembersNumbered(case)
    /\ case.kind = "closed file" => L!FileIsTheBuild(case)
    /\ case.kind = "closed blob" => L!LoadedIdsInside(case)
    /\ case.kind = "ranked" => K!KeysAreRanked(case)
    /\ case.kind = "ranked blob" => K!LoadedRanksInside(case)
================================================================================
