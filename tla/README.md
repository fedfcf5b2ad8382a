# lexindex in TLA+

This directory specifies [lexindex](../src/README.md): the threads, saves, external sorts and edits
whose correctness is a matter of order, and the tables, tries and codes whose correctness is a
matter of the last index, the last bit and the blob that nobody vouches for. Every definition is
translated from the Rust source under `src/`; `PROJECT.json` maps each one to its lines, lists the
hazards they are there for, and pairs every property with a plausible bug that breaks it. Paths
below are relative to `src/src/`.

The configurations are checked with TLC (`tlc -config X.cfg M`), the proofs with TLAPS
(`tlapm M.tla`).

## The system

lexindex builds immutable indexes from strings to dense ids, in several kinds, serialises each as
one blob, and reads it back from memory or a mapped file.

| part | state it keeps | operations | who it meets |
|---|---|---|---|
| minimal perfect hash (`mphf.rs`) | levels of seeds, a tail, a remap; while it builds: per chunk a slot, a `done` flag and a count of readers, per gap a `claimed` flag, a list of bumped keys, the level's map | build level by level on scoped threads fed by a source of hashes; look a hash up, alone or in a batch; write, read both formats | every hash index builds one |
| `Overlay` (`overlay.rs`) | a base index, an arena of additions, a lookup with a collision list, tombstone words, a live count | `add`, `remove`, `retire_id`, `id`, `key`, `keys`, `compact`, `compact_with_remap`, `compact_to_file`, `save`, `load` | any index is its base; blobs are saved through `blob.rs`; Python puts it behind a mutex |
| atomic write, byte views (`blob.rs`) | a process-wide counter, temporaries beside a target; views of one source | `write_atomically_with`, `Spare`; `slice`, `split`, the block hasher | every `save` and `build_to_file`; every load |
| external sort (`extsort.rs`) | a run in memory, run files in a directory of their own | `spill`, `collapse`, `merge`, walks | `StringIndex`, `DictIndex` and `plan_file` stream through it, then publish by an atomic write |
| `StringIndex` (`string_index.rs`, `fst_walk.rs`, `fst_bounds.rs`, `subsequence.rs`) | a transducer and a table of first characters | build, `id`, `key`, prefix, longest match, range, subsequence, by rank and in key order | base of an overlay; `fst` |
| `CompactHashIndex`, `PerfectHashIndex`, `ClosedHashIndex`, `HashedDict` | a perfect hash with fingerprints, with keys, with nothing, with ranks; a side table for hashes shared | build, streamed build, lookups alone and in a batch, load | the perfect hash; bases of an overlay |
| `DictIndex` (`dict_index/`, `labels.rs`, `ties.rs`) | front-coded blocks, samples to route by, tries over ties, codec tables | build on threads, streamed build, `id`, `key`, prefix, ranges, batches, iterator | `extsort.rs`, the codecs; `HashedDict` is beside one |
| codes (`packed.rs`, `offsets.rs`, `charcode.rs`, `fsst.rs`, `phrase.rs`, `paircode.rs`) | trained tables | encode, decode, compare | `DictIndex`, the arena |
| string arena and superstring merge (`arena.rs`, `superstring.rs`) | key bytes, in blocks or laid over each other | price the layouts, merge on threads, load, read a slot | `PerfectHashIndex`, the overlay |
| double-array trie (`double_array.rs`) | slots of a label, a base and an id | build, longest match, scan, load | none |
| estimate, inspect, command line, C ABI, Python, Polars | nothing, or handles on the above | price, inspect, call through | everything |

### What is hard about it

*Interleaving.* `build_level` places a level on several threads without a lock around the level.
A chunk's run is placed alone; the gap between two chunks is placed by whichever of their two
workers sees both flags first; a chunk's map is freed by the last of its readers. The same blob
must come out of every schedule, and of every number of threads that sort, merge, label or encode.

*Long sequences of legal calls.* An overlay's ids must survive any sequence of additions,
retirements, revivals, saves, loads and compactions, over a base whose membership may be inexact
and with additions whose hashes may collide.

*Crashes and failing calls.* A save may fail or be killed between any two calls to the file system,
several threads and processes may save to one path, and a file system forgets what was not synced.

*Errors that cannot travel.* The external sort's merge is an iterator, whose `next` cannot return
an error: a failed read looks like the end of the keys unless someone looks at where it was parked.
Likewise a Python iterable that raises merely stops, and a source of hashes in the middle of a level.

*Two ways to one answer.* A lookup has a fast form beside the general one nearly everywhere: a batch
through a ring, a compiled decode, a search by lanes, a walk over the transducer's own bytes,
searches in lockstep, a route through samples. They must agree on every key and on every other text.

*Bytes nobody vouches for.* A blob is checked once, when it is loaded, and then read without bounds
checks. What the checks accept must be enough for every read that follows.

*Hashes that collide.* Two keys of one 64-bit hash are rare enough that no test over real keys meets
them; every index has a side table for them.

`PROJECT.json` lists each hazard at its line, with the properties that would catch it.

### What makes each part correct

- a level: each gap placed once and against both its neighbours' maps; no map released before its
  readers; every chunk's bumped keys listed, in order; nothing missing at the end; the outcome
  independent of the schedule; memory bounded by the threads; the pool never stuck;
- its sources: every chunk handed out whole, once and in order, and a source that fails an error;
- the perfect hash: minimal, whatever seeds are found; every decode and batch one answer; read back
  as written, and a changed blob refused or bounded;
- the indexes: a key's id is its own, alone or in a batch, hashes shared or not, and another text's is
  none, or bounded where the kind promises no more; one index of one key set on any threads, from
  memory or off a stream; a load that accepts a blob never answers outside it;
- the overlay: ids stable, `id` and `key` inverse, counts right, save and load inverse, compaction
  streams every live key once and carries every id;
- a save: the target whole at every instant and after any crash; Ok durable; failure without
  effect and without litter; temporaries never shared;
- the external sort: what is published is the whole corpus; keys never lost from the files before
  the build gives up; bounded extra space; walks agree; its directory gone at the end.

## The modules

State machines, one step an atomic access, a call that may fail, or an operation of the interface:

| module | models | kind |
|---|---|---|
| `LevelOrder` | what placing a level comes to | abstract |
| `LevelPlacement` | the workers of `build_level`, step by step | implements `LevelOrder` |
| `LevelPlacementProofs` | theorems about `LevelPlacement`: types, ownership, counts; completeness, the refinement of `LevelOrder`, memory | proofs |
| `LevelFeed` | the sources a level's workers claim chunks from: `Feed`, `Cutter`, `Grouped` | detailed |
| `MphfTable` | the levels of a perfect hash, its tail, lookups, batches and blob | detailed |
| `StableIds` | what an overlay promises the holder of an id | abstract |
| `Overlay` | `Overlay<I>` over each of its three kinds of base | implements `StableIds` |
| `OverlayProofs` | theorems about `Overlay`: its invariant, each property, the refinement of `StableIds` | proofs |
| `AtomicWrite` | `write_atomically_with`, `fresh_beside`, `Spare` | detailed, with a file system that forgets |
| `AtomicWriteProofs` | theorems about `AtomicWrite` | proofs |
| `ExtSort` | `Run`, `Runs`, `Replay` and the two builders that drive them | detailed |
| `ExtSortProofs` | theorems about `ExtSort`: what merges and walks yield, its invariant, each safety property | proofs |
| `CompactStream` | the streaming build of a `CompactHashIndex` and its two pools of threads | detailed |
| `CompactStreamProofs` | theorems about `CompactStream` | proofs |
| `PerfectBuild` | the two-pass streaming build of a `PerfectHashIndex` | detailed, with its theorem |
| `SharedByThreads` | two small objects that threads share: the superstring merge's arrays, a Python iterator | detailed |
| `SharedByThreadsProofs` | theorems about `SharedByThreads` | proofs |

Algorithms, as operators checked on every case of a bounded set:

| module | models | checked against |
|---|---|---|
| `LevelGeometry` | chunks, gaps, reserved values, maps, grouping by bucket | sets of values; a sort |
| `SeedSearch` | a seed by single steps, lanes or intervals | the best of all seeds |
| `Remap` | the Elias-Fano remap: encode, get, validate, conversion from MPH2 | the sequence encoded |
| `MphfV1` | the table of release 1.0: header, lookup | its own length |
| `CompactHash`, `PerfectHash`, `ClosedHash`, `HashedDict` | builds, lookups, batches, side tables, frames | the set of pairs or keys |
| `Packed` | packed offsets, codes of characters | the values, the suffix |
| `PairCode` | the codes of front coding's pairs, their choice and their prices | every width, every table; the bytes written |
| `Fsst` | symbol tables: training, pruning, encoder, decoder, table bytes | the string; the longest symbol |
| `Phrases` | phrase dictionaries: splits, trie, parse, prices, choice, decoders, comparison; phrases mined from shards in rounds on threads: pools, partitions, merge, worth | the string; the least bits of any parse; the same on one thread |
| `DictBuild`, `DictEncode` | label selection, sorting, blocks, both builds | one another; the edges of the trie |
| `DictRoute`, `DictQuery` | samples, ties, routes, scans, queries, batches, iterator, load | ranks in the sorted keys |
| `Superstring`, `Arena` | the greedy merge; layouts, prices, draws, load, reads | the keys; the merge by definition |
| `DoubleArray` | labels, floors, rows, walks, scans, load | the set of keys; the lowest base |
| `FstWalk`, `StringWalks` | a transducer's bytes, walks, first characters, node bounds, queries | the sorted keys; the decoder |
| `Blob` | byte views and the block hasher | the bytes |

The `MC*` modules hold the instances for TLC and the bounded inputs.

Definitions called *Fault*, or named as the one after them with an adjective, are plausible bugs in
the definition after them. They take part in no specification; substituted for it, they break the
property `PROJECT.json` pairs them with.

### Minimal perfect hash

`LevelPlacement`: one step is one access to shared state: a load, a store, a swap or a `fetch_sub` of
an atomic (all of them sequentially consistent in the source), one critical section of a mutex that is
a leaf of the lock order, or one acquisition of a mutex that is held over other steps. Those are the
list's (`drain` loops under it) and the chunk slots', of which a worker placing a gap takes two in
turn. A worker's locals are its program counter, `k` (`chunk`), `g` (`gap`) and `c` (`reader`). Data
is what the schedule can change: the seeds of a piece are the set of pieces it was searched against,
a list of bumped keys is the piece that bumped them, the level's map is the set of pieces merged into
it. An `expect` or `assert!` that fails is an outcome, not an error of the model: the thread panics,
drops its guards, poisons their mutexes, and the others run on until the scope joins them. Nothing is
excused after a panic.

What the placement takes for granted is stated elsewhere. `LevelFeed` says what a worker is handed:
one counter over a sorted slice, a `Cutter` behind a mutex that a reader's error ends, or a `Grouped`
claim that copies the next group of chunks out while the last readers of the copy finish.
`LevelGeometry` says that two runs never meet and a gap meets only its chunks' pieces, with the
source's own arithmetic over levels of one to thirteen chunks. `SeedSearch` says that the three
searches take one seed. `MphfTable` puts levels together with any seeds that land the keys on
distinct values, and goes on to the tail, the remap, the lookups, the blob, and a blob with one field
changed; `Remap` reads its words as the unchecked code does, and a read past them is an answer no
check allows. `MphfV1` wraps its header's products in a small machine word.

### Overlay

`ov` is the struct, its methods are operators on it, its user's calls are the actions. Keys are
numbers so that they have an order; the hash is a parameter so that two additions can collide; a
tombstone word is a set of bit positions. A base is any table `base_len`, `base_id` and `base_key`
could answer from: by rank for a `StringIndex`, any numbering for a `PerfectHashIndex`, and for a
`CompactHashIndex` any answer at all to a key it does not have. `file` is what was saved last.

### AtomicWrite

Each thread is in a save or holds a `Spare`; each call to the file system is an action, which may
fail where `Faults` has it. A panic of the caller's closure, a kill of a process and a power loss
may come at any moment. After a power loss a name is bound to anything it was bound to since its
directory was last synced, and a file that was not synced is torn. `lapsed` remembers what went
wrong that a save does not answer for (a directory that could not be synced, a temporary that could
not be removed, a panic, a crash): `OkIsDurable` says what holds without it. Processes start again
with their counter at zero, and two may have one pid, as in two containers.

### Streaming builds

`ExtSort`: the build is one thread, so an action is a call as a whole with the ways it may end. The
merge is pulled key by key from the least head; a failed read leaves the keys up to the one popped and
sets `failed`. `Passes` tells the builders apart: a `StringIndex` walks the merge once, inside the
atomic write, a `DictIndex` three times, each walk collapsing first. A directory of the same name may
be there from the start, left by a build that was killed.

`CompactStream`: a key is its pair of hashes, the perfect hash an order of the hashes. Merge threads
claim ranges of the hash off a counter and write a file each; a thread per merged file sends
fingerprints to their slots, through a stage for each range into range files behind a mutex each. Any
call may fail, once a build. `PerfectBuild`: the first pass of the source is hashed, the second is
written to an arena or, window by window, to a spill; the second pass may be another than the first.
`SharedByThreads` has two machines. The merge's: the relaxed load before a `fetch_min`, and the chains
handed out a few at a time. The iterator's: a call holds the iterator's lock while it hands out a pair or refills; the index
under it is whatever a load that trusts its bytes lets through, so a cursor may seek elsewhere and
`len` may be wrong.

### Hash indexes

A key is a pair of its slot hash and its second hash, or a name with both; hashes are small so that
they collide. `CompactHash` has the arithmetic of the fingerprint table (a window of a word shifted by
the bits before it) and the sort of a run by parts; `ClosedHash` and `HashedDict` are built from it.
The perfect hash under an index is a constant permutation. A blob is its fields with its length in
bytes; an accepted blob is looked up with every hash, and a slot past its rows is an answer the
property refuses.

### DictIndex and its codes

Keys are sequences of small characters, some of them outside ASCII. Block data is cells: a header
of an entry, then a unit for each code. To a build, training, mining and the packing of headers are functions
of what the code hands them, so that two builds agree only if they hand them the same. The shipped
sizes (blocks, shards, samples of a word, runs that tie, stairs, lanes, the filter's slots) are
constants, made small enough that a dozen keys overflow each. A character code is tallied a range a thread and
taken only where its savings cover its table, so keys mostly outside ASCII come with a code and without; the
second mode of a code, for more characters than seven-bit pages hold, is left out.

`PairCode` writes a run's prologue, its codes and its escapes, and reads them back through a word at
an unaligned byte. The code chooses between a frame a run and a table a group by a reckoned price,
which leaves out a frame's tag byte and rounds a table's codes up once a group, not once a run:
`PricesAreLengths` says by exactly how much the bytes written may differ.

`Fsst` and `Phrases` are what the builds take as functions. A word is a sequence of bytes padded
with zeros, and a slot of the encoder's table holds two symbols, so that symbols that share a slot
and the shorter of two that match both occur. A decoder stores a whole word whatever the symbol's length: the
model checks each store against the room asked for, and one past it is an answer no check accepts.
A parse of a string into phrases is compared with the cheapest of all parses, given the encoder's own
symbol at each byte; with no phrases `settle` keeps the whole symbol table, even where a shorter head
of it would encode to less. A mined pool is independent of the threads while its partitions follow
them, and any function of a span serves as `part_of`: the phrases must not depend on either.

### Arena, tries and walks

`Superstring` numbers the trie level by level, follows its failure links and chains the overlaps
longest first; a loop that threads share point by point is a function, and a cut into runs is a
parameter (`SharedByThreads` has the interleavings). `Arena` prices the layouts, draws samples to tell
whether a merge can win, whichever draw ends first, and loads blobs with a cell changed. `DoubleArray`
has the whole placement with its floors, window and cap. `FstWalk` lays a transducer out in bytes as
`fst` does (external), and walks it as `fst_walk.rs` does, by subtraction from an address; every byte of
a small transducer is changed to see that what validation accepts stays inside.

## The runs

| run | instance | what it shows |
|---|---|---|
| `LevelPlacement_safety` | 4 chunks, 3 workers | `GapPlacedOnce`, `KeptForReaders`, `NothingLost`, and the inductive invariant `LInv` of the proofs |
| `LevelPlacement_order` | 7 chunks, 2 workers, fair | `PlacesTheLevel`: the workers implement `LevelOrder`; `HeldPieces`: at most three pieces a worker less one; `Terminates` |
| `LevelPlacement_release` | 2 chunks, 2 workers | `ReleasedOnce` fails: see *Findings* |
| `Overlay` | each of the 3 kinds of base, 3 keys, 2 of one hash, 2 additions, words of 2 bits | `IdsAndKeysAgree`, `SavedLoads`, `StreamsLiveKeys`, `RemapCarries`, and `KeepsIdsStable`: the overlay implements `StableIds` |
| `AtomicWrite_faults` | 2 processes of one pid, 3 saves, 1 crash, every fault | `TargetWhole`, `OwnTemp`, `FailedUntouched`, `OkIsDurable` |
| `AtomicWrite_stale` | 2 threads of a process, 4 saves, 2 crashes, 2 attempts | `RetriesAreStale` |
| `ExtSort_build` | up to 6 keys of 3, one longer than a run, runs of 2 bytes, fan-in 2, 3 walks, every fault, fair | `PublishesTheCorpus`, `KeysKept`, `WalksAgree`, `LeavesNoRuns`, and `Terminates` |
| `ExtSort_budget` | 3 keys, one longer than a run | `WithinBudget` fails: see *Findings* |
| `Builds` | the five machines of a build, one a behaviour, fair | `LevelsAreHandedWhole` (`LevelFeed`), `StreamIsWhole` (`CompactStream`), `TwoPassesAgree` (`PerfectBuild`), `ThreadsAgree` (`SharedByThreads`), `BuildsEnd` (every one but the single-threaded `PerfectBuild`) |
| `PerfectBuild_repeats` | 3 keys of 4, a repeat among them | `DuplicatesCaught` fails: see *Findings* |
| `Tables` | the perfect hash's machine; the cases of its algorithms, the tries, the walks, the closed index, the sidecar and the views | `TablesAnswer`, `LoadsAnswerInside`, `RemapsAreExact`, `SearchesTakeTheBest`, `PiecesFitTogether`, `TriesAnswer`, `ClosedAnswers` |
| `Indexes` | the cases of the compact and perfect index, the codes, the dictionary and the arena | `CompactAnswers`, `PerfectAnswers`, `CodesReadBack`, `DictBuildsOneIndex`, `DictAnswers`, `ArenaHoldsTheKeys` |

`Tables`, `Indexes` and `Builds` hold several components each; the components of `Builds` share no
state and a behaviour runs one of them. In the first two a behaviour picks a kind of case and then a
case, whose property compares the translated algorithm with its reference.

### Bounds, and why they are enough

*Levels.* A chunk shares state with its two neighbours only. With four chunks there are two with a
gap on both sides, next to each other, beside the two ends; with three workers, both neighbours of a
chunk can be in hand while a third worker is at it. `HeldPieces` takes seven chunks, more than its
bound of five, so that it can fail. The workers are symmetric and `Symmetry` says so, in the safety
runs only. `LevelFeed` has three chunks, one of two buckets, and three groups, so that a group holds
none, one or several chunks, and up to three hashes of eight in any order; a promised count below,
at and above the true one.

*Perfect hash.* Up to four keys of eight hashes, slices of four with a short one of two, two levels and
a tail: keys are bumped off each level, levels end early, and a batch is shorter and longer than its
block and its lead; of the changed blobs some claim a level, or low bits, at the width of a number.
Seeds are searched for buckets of up to two keys, the most the model searches, over every map, and scored
with the code's own table of logarithms; buckets of three are there to be bumped. The remap has words of two bits, so that a lookup crosses every window; the shipped
words only make that rare. Geometry is on every count of keys below 100 and one in 37 up to 900.

*Overlay.* Three keys are enough for two to collide while a third does not, and for a base
and additions of every size to occur, so far as `MaxAdditions`, two, allows. Words of two bits put
an id on either side of a word's end. The id space is at most five, and ids to retire go one past
it. A base of false positives answers whatever it likes to each key it does not have.

*AtomicWrite.* The saves of each thread and the crashes are counted down by `MaxSaves` and
`MaxCrashes`; 128 attempts are two or three. Two saves of one thread and one of another are enough
for a save to begin before, during and after another's. Two crashes and two attempts let a process
find every name it may try taken. `CHECK_DEADLOCK` is off: when the saves are
used up, nothing is left to do.

*ExtSort.* A fan-in of two makes six runs collapse in two rounds, with groups of two and a group of
one; the shipped fan-in of 128 needs 16 385 runs for that. Every source of up to six keys
is an initial state, repeats included: six that are longer than a run make six runs. The removal of
the directory is a destructor's, whose error is ignored; `LeavesNoRuns` says nothing of a build in
which it fails, so the run has that call succeed.

*Streaming builds.* `CompactStream`: every stream of up to two of four pairs, and three of four and
five, with a pair repeated and ranges out of order in every bin; two threads of each pool, memory for
a table or for range files only; one failing call. `PerfectBuild`: three keys of four, two of one hash,
lengths of none to two bytes over windows of one, two and nine bytes, so that a key lies across two.
`SharedByThreads`: two threads of two and three nodes, two keys; chunks of two pairs of at most three, two
callers of three calls each.

*Indexes.* Up to four of six keys, of which three share one hash and two another: none, one and two
side entries, for each of two hashes. Fingerprints at every width that fits their window. Dictionaries
of up to eleven keys, blocks of one to six keys in microblocks of one to six, samples of three bytes:
last blocks that are short, samples that tie over several words and runs of ties of more than one level.
Pairs in bytes of four bits, so that a field is full and a varint carries at small lengths; groups of one and
two runs for which a frame wins, a table wins, and either has escapes. Symbols of bytes of three bits in words of
four, tables of up to seven symbols; phrases of up to two words, splits after each of three counts of symbols,
eleven phrases, which is past one group of eight, and two labels; samples of up to two of eleven
strings; tables and dictionaries with a cell changed; up to five shards mined in pools of at most two
on up to six threads.
Arenas up to 33 keys, which overflow a one-byte and a two-byte run and a narrow base; a few of them a
merge in three orders. A changed blob has one field or one cell changed to the values at its bounds.

*Tries and walks.* Rows of up to five characters whose code points take one, three and four bytes, four
rows that search past each other. Transducers of up to 256 transitions a node, so that both forms of a
node's size byte and its index occur; every byte of four small ones set to 28 values under four lengths.

The cases of `Tables` and `Indexes` are single steps: `CHECK_DEADLOCK` is off there and in `Builds`,
where a machine that has ended stops.

### Fairness

`LevelPlacement!FairSpec` is weakly fair to each worker and to the thread that joins them: the
operating system runs a thread that can run. Weak fairness is enough although mutexes are contended,
since a worker that waits for a slot waits for one that is held for a bounded number of steps by
workers that never wait for it in turn; no stronger fairness of the mutexes is assumed.
`ExtSort!FairSpec` is weakly fair to the one thread there is. `LevelFeed`, `CompactStream` and
the merge of `SharedByThreads` are weakly fair to each thread of their pools and to the thread that joins it.
Its iterator is fair only to a caller that is inside a call: nobody has to call, and who gets the
lock next is the interpreter's business. The overlay and the atomic write promise nothing that must
happen, and have no fairness.

## Findings

- **A chunk may be released twice** (`mphf.rs:2544`). A worker stores `done[k]` and then loads
  `readers[k]`, to release a chunk that has no gap to be read by. In between, the workers of both
  neighbours may see the flag, place both gaps, and count the chunk down, the second releasing it.
  The worker then finds the count at zero and releases the chunk again, whose slot is taken: the
  `expect("a chunk is released once, after it is placed")` at 2493 fails and the build panics. With
  two chunks one neighbour is enough. The window is two instructions wide against the search of a
  gap, which is why no test meets it. The proofs below say how far the damage goes: a build that
  panics has still placed no gap twice and read no released map.
- **A run may outgrow its budget** (`extsort.rs:86`). The comment in `push` says that `fits` bounded
  the arena by the budget. The builders ask `fits` once; when it fails on a run that has keys in it,
  they spill, clear and push the same key unasked. A key longer than the budget is an error as the
  first of a run and accepted as any other, so whether a corpus builds depends on its order.
- **A repeat beside a collision is published** (`perfect_hash.rs:1255`). The doc of the streaming
  build says that a duplicate is caught by comparing the two written entries. The loop compares every
  extra of a hash with the first key of that hash only: of `a`, `b`, `b` with one hash, both copies of
  `b` are extras, neither equals `a`, and the file holds `b` twice under a count of three.

## What is proved

`LevelPlacementProofs`, for every number of chunks and every finite set of at most as many threads:

| theorem | states |
|---|---|
| `Inductive` | `Spec => []IInv` |
| `TypeCorrect` | `Spec => []TypeOK` |
| `GapsPlacedOnce` | `Spec => []GapPlacedOnce` |
| `MapsKept` | `Spec => []KeptForReaders` |

Neither property is inductive. That a gap is placed once rests on who owns it: a worker past the
swap owns the gap it claimed until it has counted both readers down, and no other worker may stand
in that range with the same gap (`GapOwned`). That a map is kept rests on a count: `readers[k]` is
exactly the number of gaps beside chunk `k` that are not in the level's map, or are, but whose
owner has still to count `k` down (`Counted`); a map is taken only at zero, and a gap about to be
placed is not in the level's map, so both its chunks' counts are positive. `Located` and `Knows` say
where a worker's gap and reader may point, and what the flags it has read still tell it: `done` is
never reset, so what was read stays true. `IInv` is the conjunction of these with `TypeOK`. A worker
that panicked past the swap keeps its gap: it will never count, and nothing is released for it.
The proof rests on the constants' assumptions alone: at least one chunk, and that `NoThread` is no
thread.

The module's second half goes on from there, under the same assumptions:

| theorem | states |
|---|---|
| `WholeInductive` | `Spec => []LInv` |
| `NothingIsLost` | `Spec => []NothingLost` |
| `ScheduleIrrelevant` | `Spec => PlacesTheLevel`: the workers implement `LevelOrder` |
| `HeldInFlight` | `Spec => []HeldPieces` |

`IInv` says what a worker may do; that nothing is lost needs what some worker *must* still do, and
`LInv` adds it. `SomeoneWill` names, for each thing that is open (a chunk claimed and not done, a gap
between two done chunks that nobody claimed, a map due for release, the tail), a worker that is
yet to do it or that panicked beside it. The hard case is the gap between two chunks that finish at once:
each worker sets its own flag before it reads the other's, so of the two the later one sees both, and
`GapsLooked` is kept because `Knows` remembers what the earlier one could not see. `NoneStranded` is
the list's half: bumped keys that are next in order are drained by the worker that listed them or
by the one that holds the guard. When every worker has exited, no witness is left, hence `NothingLost`.

The refinement maps the seeds a worker has settled and the list drained so far to `LevelOrder`'s
variables (`PlacesTheLevel`). A run is settled against nothing and a gap against the maps of its two
runs (`RunsFollow`, `GapsFollow`), so each settle is the abstract step; the list handed over is the
level's order because it is drained in order (`ListInOrder`, and an equality of sequences); the
end gap waits for everything else (`MainWaits` and `NothingLost`), and every other step is a stutter.

`HeldPieces` is a count. A map that is held has not been released, so by `MapsReleased`, `GapsWorked`
and `ChunksWorked` some worker is at its chunk or at one beside it: the held maps are among the three
places around each worker's chunk. The worker of the last chunk claimed (`LastClaimed`) has nothing
after it, which takes one place off. An earlier version of the property said two a worker and
one; that is the same number for two workers and false for three, as the proof attempt showed and a
directed schedule of three workers over nine chunks confirmed (eight maps held).

`AtomicWriteProofs`, for every set of threads and processes, any pids, any set of calls that may
fail, and any number of attempts, saves and crashes:

| theorem | states |
|---|---|
| `SavesKeepInvariant` | `Spec => []SaveInv` |
| `SavesTyped` | `Spec => []TypeOK` |
| `TempsAreOwn` | `Spec => []OwnTemp` |
| `TargetStaysWhole` | `Spec => []TargetWhole` |
| `OkStaysDurable` | `Spec => []OkIsDurable` |
| `FailuresLeaveNoTrace` | `Spec => []FailedUntouched` |
| `RetriesHitStale` | `Spec => []RetriesAreStale` |

The argument has three parts. *Who owns a name.* While a thread is busy, its temporary is bound to
its own file and is not the target (`Owned`); files are numbered by the saves that made them
(`Issued`, `Begun`), so a thread that looks for a name has not made its file yet (`Fresh`), and since
an open refuses a name that exists, nobody binds an owned name again. That is all `OwnTemp` needs:
pids and counters may repeat. *How far a file has come.* What a thread may rename is whole and
synced (`Staged`), and what a power loss may bind the target to is one of the files renamed so far
(`OnDisk`, `WholeOnDisk`, `Bound`), hence `TargetWhole`, which a power loss keeps because it only
picks from `disk`. *What the directory remembers.* Between a rename and its sync the target is the last
file published (`Renamed`), so the sync leaves the one binding that comes after everything
promised (`Promised`), hence `OkIsDurable`. `FailedUntouched` needs that a save which has not renamed
its own file has published nothing (`Unpublished`, `PublishedIssued`), and that every name beside the
target is held by a busy thread as long as nothing lapsed (`AllHeld`). `RetriesAreStale` counts names, and has
an invariant of its own on top, where no two processes have one pid (`NameInv`): a busy thread's name
is one its process's counter has passed (`Numbered`), so a name that is found taken, which the counter
has only reached, is nobody's; and for each thread that looks for a name there is a set of stale names
its counter has passed, as many as its attempts (`Tried`). Stale names stay, as only a thread that
holds a name renames or removes it, so one attempt more is one stale name more.

These proofs have one lemma per action, each with one step per conjunct the action can disturb; the
temporal step combines them.

`OverlayProofs`, for every finite set of keys, whatever hashes they have, each kind of base, every
word size and any number of additions:

| theorem | states |
|---|---|
| `OverlayInvariant` | `Spec => []OInv` |
| `IdsAgree` | `Spec => []IdsAndKeysAgree` |
| `SavesLoad` | `Spec => []SavedLoads` |
| `StreamsAll` | `Spec => []StreamsLiveKeys` |
| `RemapsCarry` | `Spec => RemapCarries` |
| `KeepsStable` | `Spec => KeepsIdsStable`: an overlay implements `StableIds` |

`OInv` says that the overlay's tables are what pushing its additions, one after another, onto nothing
would make them. `BaseOK` is what a base of each kind answers: an id of its own for each of its keys,
below its length, and for a stranger an id only where membership is not exact. `AddedOnce` says that
no two additions are one key, and none is a key the base has an id for; `AddedFound` that each of
them is found under its hash, as the one `lookup` names or among the `collisions`, and that neither
holds anything else.
`Rebuilt` is what a load does: `Pushed` from the list of additions alone gives the `lookup` and the
`collisions` in memory, which is why a saved overlay loads as itself. `Counted` says that tombstones
are set on issued ids only, and that the others are what `live` counts; `FileOK` that a file holds a
base or the blob of such an overlay. The streams are a merge of two sorted sequences with no key in
common, filtered by the tombstones; that a sorted sequence of a finite set exists, and is one, is
proved there too. For the refinement, what a file promises a later load is the saved copy `Kept`.
The assumptions are the constants' own: finitely many keys with hashes, a base of one of the kinds,
a positive word size.

`ExtSortProofs`, for every finite set of keys of any lengths, any budget, fan-in of two or more,
number of walks, length of the source and set of calls that may fail:

| theorem | states |
|---|---|
| `ExtSortInvariant` | `Spec => []XInv` |
| `TypesHold` | `Spec => []TypeOK` |
| `Publishes` | `Spec => []PublishesTheCorpus` |
| `KeysAreKept` | `Spec => []KeysKept` |
| `WalksAllAgree` | `Spec => []WalksAgree` |
| `RunsAreRemoved` | `Spec => LeavesNoRuns` |

The first part is about the algorithms. A merge pops, of what its readers have next, the least; since
each run is in order, that is the least of all that is unread (`PopsLeast`), so what comes out is every
key of the runs, repeats included, in order (`PulledOK`, `MergedOK`). Dropping adjacent repeats from
keys in order leaves each once, ascending (`OneMoreKey`), and there is only one such sequence
(`OneOrder`), so a walk gives what sorting the corpus gives (`DistinctOK`). The second part is `XInv`.
`Wanted` is the files that together have the keys that are not in memory: those listed and, while a
group is being removed, the run it was merged into, but not the group. With the run in memory they
hold exactly the keys yielded (`Covered`), in every state until the files are dropped, a failed build's
included: this is why a removal that fails half-way through a group loses nothing and yields nothing twice. `Lists`
says that no file is listed twice and that the newest run is not listed before the group is gone,
`Whole` that what is listed is there and in order, `NoOthers` that there is nothing else unless the
build has failed. A walk that no reader cut short then sees a sorted sequence of all the source's
keys (`WalkSeesAll`), however often the files were merged since the last.

What a function defined by recursion gives is proved by `Counting`: a set of
naturals that has 0, and the next of each of its members, is all of them, as otherwise the least one
outside would have a predecessor inside. The recursion is on a natural number, or, for a merge, on
the set of entries still unread, whose size is a natural number.

`SharedByThreadsProofs`, for every number of threads (one at least), key, parts of the merge, lengths of
a batch and of the iterator:

| theorem | states |
|---|---|
| `MergeKeepsInvariant` | `MergeSpec => []MergeInv` |
| `IterKeepsInvariant` | `IterSpec => []IterInv` |
| `ThreadsComeToOne` | `MergeSpec /\ IterSpec => []ThreadsAgree` |

A key's place in the superstring is the least over the nodes that spell it, and each thread takes
`fetch_min` with the nodes of its own part, after a relaxed load that may be stale. `PassedAreNotLower`
says that what a thread has gone past is not below the place it left there; every node is in some
thread's part (`EveryNodeIsTaken`), so once all have ended the place is the minimum, however old the
loads were. Batches are handed out once (`TakenOnce`): what has been measured is what was handed out
and is held by nobody. Of the shared iterator, what came out, the buffer and what is left to read are
its length in every state (`CountedOff`), the chunk in the buffer is the next of the source (`ChunkIsNext`),
and an end stays one (`StaysEnded`). The assumptions are the constants' own: at least one thread, zero is no
key, and `ITER_CHUNK` is positive.

`CompactStreamProofs`, for every number of hashes, second hashes and bins, every order of the slots, length of a
range, a stage and a batch, every set of key streams and of budgets (a run of one pair at least, any memory,
one thread at least), and any number of failing calls:

| theorem | states |
|---|---|
| `StreamInvariant` | `Spec => []CInv` |
| `StreamWhole` | `Spec => []StreamIsWhole` |

`CInv` follows the pairs of the keys through the build. While the stream is read they are in the runs and
the run in memory (`Reading`, `HasAll`). The cuts ascend from the first bin to the last, so a pair is in one
range, and equal hashes in the same (`CutsRight`); a range is claimed by one thread (`ClaimedOnce`), the file
it leaves is the sorted pairs of the range, and what the threads counted are the pairs and hashes of the
files there are (`MergedWhole`). So `n` and `m` are right, the perfect hash is over the hashes of the keys
(`AllCounted`, `HashBuilt`), and the files one after the other are the sorted keys, which makes
their side tables that of the whole (lemma `SourcesAreRight`). A first pair of its hash that a fingerprint
thread has passed is in that thread's stage, in what it still writes, or whole in the file of the range its
slot is in; a file's half record is its lock holder's, between its two writes, and a file holds only
records of its own range (`ScanOK`, `Kept`, `Locked`, `Filed`). At the join each slot of the table has
therefore one record, its key's. That is where the lock is needed: without it the halves of two threads' records
mix. `Faultless` and `FailedForFault` say that a build past a join lost no thread's error. The order by
counting that `Sorted`, `InOrder` and `index` are defined with gives every element its place
(lemmas `Ranks`, `SortedIs`, `InOrderOK`, `IndexIs`), and `build_from_pairs` is shown to be the blob
whose table has the second hash of every first pair at its slot (`BlobIs`).

`PerfectBuild`, at its end, for any set of keys, passes of any length, any windows and any number of failing calls:

| theorem | states |
|---|---|
| `OnePassIsPublished` | `[](PublishesOnePass /\ FailedLeavesNothing)`, two of the conjuncts of what `TwoPassesAgree` says of the two-pass build |

`PassInv` is what the second pass may be while it is read: a key is placed only where the first pass had one
of its hash and length, and never past the first pass's end. Short passes and keys that agree so far but differ
are left for the judge, who compares the counts and the second hashes. What the three comparisons cannot tell
apart, two keys with both hashes and the length, is the theorem's hypothesis, as it is the model's; that a
digest folds two sequences of second hashes to one is left out (its module says so). What the arena holds at
each slot (the rest of `PublishesThePass`) and that no sound source is refused (`RefusedForAReason`) are
sums over slots and records read one after another, and stay with TLC.

*Only model-checked:* that a level and a streaming build terminate; the sources of a level, what the two-pass
build writes and whom it refuses, in `Builds`; and every pure definition of `Tables` and `Indexes`, over the inputs their MC modules
list. Liveness under fairness is beyond the prover. So is a module that declares a `RECURSIVE`
operator, as the sources of a level and most of the algorithms do.

## Not modelled

- *Arithmetic that is a matter of quality, not of correctness*: the hash functions, the cost model
  that picks a level's parameters, the estimates and the plan, which are floating point. The models take what these return as an input, any that the types
  allow. Of the mining of phrases, two spans whose 64-bit keys collide and the forms of a codec that
  only measure (`packed_only`) are left out.
- *Layout*: headers, magics and checksums, except where a load's checks are what keeps the reads
  inside (then the fields it checks are there, and the runs change them); the two legacy layouts of
  an overlay blob, and those of the dictionary.
- *Weak memory*: the atomics of `build_level` are `SeqCst` and the model is sequentially consistent.
  `SharedByThreads` has the relaxed load and the `fetch_min` as two steps, which is how stale the load may be.
- *Kills of a streaming build*: they leave its directory behind, as the source says; the next build
  finds it in its way, which is an initial state of `ExtSort`. `compact_to_file` and the builds
  publish in one step here, since `AtomicWrite` is what that step comes to. Permissions that a save
  copies from the file it replaces are left out.
- *Libraries*: `fst`, the automata of Levenshtein and of regular expressions, and mapped files, which
  appear as the code uses them.
- *Parts with no state of their own*: the command line, the C ABI, the Polars plugin, inspect, and
  the Python binding beyond its iterators, which convert arguments and call the library; prefetching
  and page advice; fuzz targets, benches and examples.

## What comes next

1. The legacy layouts of an overlay blob (`overlay.rs` 500-700) and the framing of a dictionary
   (`dict_index/format.rs`), as loads whose checks are enough for the reads, beside `DictQuery`.
2. `Fsst` and `Phrases` in place of the functions that `DictBuild` and `DictEncode` take, so that a
   dictionary's blocks are spelt with the tables it would train.
3. An abstract file at a path that is old or new, implemented by `AtomicWrite` and used by `ExtSort`
   and `CompactStream` in place of their one step.
4. Theorems: every claim of `LevelFeed` whole and in order, once its recursion is a function; the
   bytes `PerfectBuild` publishes, slot by slot and whatever its windows.
