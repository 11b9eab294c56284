# Verification of the secure memory manager

TLA+ models of the stateful parts of this repository: the hash table
(`hash_table.c`), the heap allocator (`allocator_internal.c`, a dlmalloc
descendant with its own names) with its tree bins, debug checks, statistics and
teardown, the lazy initialization of an allocator context, the secure context
with its encrypted entities (`sm.c`, `master_rand.c`), and the tools those
entities go through (`transcode.c`, `bits.h`, `precursors/mkc.c`,
`precursors/cmp.c`). TLC checks the models on small instances; TLAPS proves the
theorems listed below for every value of the constants.

The program is built for Windows (`secure_memory.vcxproj`); the Linux branches
do not compile as they stand (`master_rand.c:149`), so where the two differ the
models follow Windows: critical sections, `VirtualAlloc` in place of `mmap`, no
`mremap`, no `sbrk`. `Heap` has
the `mremap` arm as well; no run switches it on.

## Inventory

| component | source | state | operations | modules |
|---|---|---|---|---|
| hash table | `hash_table.c/.h` (twin: `precursors/tab.c`) | bucket count, counters, flags, key and value arrays, mutex | create, destroy, clear, resize, insert/set, remove, remove_at, contains, get, iterate | `HashTable`, `FiniteMap`, `Rehash` |
| heap of a space | `allocator_internal.c` | chunks with boundary tags, bins, designated victim, top, segment list, footprint and limit, flags, lock | allocate, free, realloc, in-place realloc, memalign, independent allocate, bulk free, trim, track, limit; debug checks, statistics, inspection, destruction | `Heap`, `Space`, `BlockStore`, `Teardown`, `Checks`, `Observers` |
| tree bins | `allocator_internal.c` | tries of large chunks, bit maps | insert, unlink, best fit | `TreeBin`, `LargeChunks` |
| mutex and parameters of a context | `allocator_internal.c`, `allocator.c` | status word, mutex, parameters, magic | ensure_initialization, init_params, change_param | `Parameters` |
| lifetime of contexts and spaces | `allocator.c`, `allocator_internal.c` | context, space, segments | create and destroy context, space | `Space`'s Init, `Teardown`, `Context` |
| secure context | `sm.c` | method tables, entities and their keys (process-wide), two locks, error handler | create, destroy, load, free and get entity, set handler | `Context` |
| master generator | `master_rand.c` | generator state, initialized, rdrand flags, lock | initialize, draw, reseed | `Context` |
| transcoding | `transcode.c`, `bits.h` | none that outlives a call | xor pass, xor cross, transcode, bit transforms | `Transcode`, `Bits` |
| compressor | `precursors/cmp.c` | none that outlives a call | compress, decompress, size | `Codec` |
| generator of entities | `precursors/mkc.c` | comment, output files, static stacks of the evaluator | read a line, emit an entity, evaluate a size | `MakeCode`, `Evaluator` |
| discontinuous array | `discontinuous_array.c` | a block | create only (`get` is a TODO) | none |
| arithmetic, strings, platform, driver, other precursors | the rest | none that outlives a call | | none |

How they interact: `sm_create` makes an allocator context, allocates itself
from it and installs the allocator, mutex and generator functions in method
tables; the hash table reaches memory, mutex and generator through those
tables only. The allocator calls nothing of the rest. The entities, code and
tables kept encrypted in variables of the process, are written by
`precursors/mkc.c` under keys drawn there, decoded and at once encrypted anew by
`sm_xor_cross` with each load, and shared by all contexts. So the modules
compose through memory calls that may fail (`CanFail` in `HashTable`,
`MayFail` in `Context`), `BlockStore` states what such a call promises,
`FilesAgree` of `MakeCode` what `Context` starts from, and `CrossIsTwoPasses`
of `Transcode` what its `Decode` and `Recode` take for granted.

What is hard here: compound calls that take a lock twice (remove, get,
contains, realloc, memalign, independent allocate), in-place re-hashing,
allocation failing half way, boundary tags under long sequences of calls, a
flag toggled outside its lock, double-checked initialization, entities rewritten
by loads that hold no lock, fields read before they are stored, and teardown
order. `PROJECT.json` lists each hazard at its line with the properties meant
to catch it.

What makes each component correct: the hash table is a finite map, its probes
end and reach every entry; the heap is a store of disjoint blocks, with every
chunk tiled, tagged and accounted for, and a footprint that equals what the
system lends; the tree bins lose no chunk and give a best fit; the initialization
builds one mutex and chooses one magic; a load returns the code or nothing, and
leaves the entity loadable; what is encoded can be decoded.

## Modules

### HashTable, HashTableProofs, FiniteMap

`HashTable` has the table's fields in `tab` and, per thread, the compound call
it is in (`call`) and what its last lookup returned (`ret`). A call that holds
the mutex throughout is one action. `contains`, `get` and `remove` are two:
`Lookup` (`sm_hash_table_find__`) and `EndContains`, `EndGet`, `EndRemove`,
with the iterator kept in `call` in between, as in the code. The iterator for
"absent" is the bucket count, as in the code.

The probe loop is in closed form: `Probe(b, k, t)` is the bucket after `t`
steps and `ProbeLength` the first step that ends the loop. The assumption on
the constants states that a quadratic probe of `b` buckets visits all of them
and that each size is at least twice the one before, which hold for powers of
two. Memory calls of a resize fail one by one
(`FailedResizes`), each leaving what the code has done so far. A re-hash may
leave the entries in any arrangement where each sits behind taken buckets
(`Placements`); `Rehash` shows that the loop produces one of them.

`FiniteMap` is the abstract specification: a map whose every step inserts,
updates, removes one entry or clears all. `MapSpec` is the refinement, the map
being the live buckets' keys and values.

### Rehash, RehashProofs

The loops of `sm_hash_table_resize__` step by step, from every table with up to
`MaxEntries` entries: pass a bucket, take an entry up, advance its probe, swap
it with one not yet moved, put it down. `OutcomeIsPlacement` ties the result to
`HashTable!Placements`.

### Heap, Space, BlockStore, HeapProofs, HeapCallProofs, SpaceProofs

`Heap` holds the allocator's functions as operators from a heap (a record with
the fields of `sm_state_s`, and the chunks by address) to the set of heaps they
may leave; the set has more than one element where the system may refuse
memory, choose an address, or where the tree search is free to choose among
equally good chunks. `Space` is the state machine: the heap, the blocks callers
own (`live`, with the size they asked for) and the call each thread is in. The
lock is held for a whole operator, so those are single actions; `realloc`,
`memalign` and `independent_allocate`, which leave the lock between steps, are
sequences of actions (`call` keeps their locals) that other threads run
between. The calls an operator makes on its way (release of unused segments
after a free, trim when the top exceeds the threshold, disposal of a leader)
are part of it.

The abstraction of `Heap`:

- Addresses and sizes are in units of 16 bytes, the alignment. With footers
  compiled in, the overhead of a chunk is one unit and a foot word is kept per
  chunk: a size, or `Stamp` for the value derived from state and magic.
- A page granule is `Granule` = 8 units in place of 4096. Small bins end at
  `SmallLimit` = 4 units (16 in the code), a segment record takes
  `SegmentChunk` = 2 units (3), segments are scanned every `ReleaseRate` = 2
  frees (4095), the mapping threshold is 6 and the trim threshold 8 units.
  These keep their order relations and make every branch reachable.
- A tree bin is the set of its chunks and a search returns any smallest chunk
  that fits: what the tries promise (`LargeChunks`, which `TreeBin` refines).
- Left out: fence posts and the word behind the top, `max_foot_print`, the
  contents of blocks (so `calloc`'s zeroing), requests too large for
  arithmetic, `sbrk`, and the reset after detected corruption.
- The state's own first chunk keeps no foot: the code never writes or reads it.
- The loops over an array of blocks and over the segments are recursive functions
  of the number of turns taken (`BulkFree`, `Kept`, `Released`); the cutting of an
  independent allocation, which goes from the last piece to the first, is written
  as the chunks it leaves.
- The assumption on the constants keeps the order relations of the code's: a
  granule has room for the state, a segment's foot and the smallest large chunk,
  so that a segment without a chunk in use is one chunk of a tree bin
  (`allocator_internal.c:2690` unlinks it from there without a look at its size).
- Setting the limit takes no lock in the code; it is one word, hence one action.

`BlockStore` is the abstract specification: memory the system lends and
disjoint blocks in it; a step takes, releases, grows or shrinks blocks and
moves none it was not handed. `StoreSpec` is the refinement.

### Teardown

The walk of `sm_destroy_space` as an operator of a heap: the link to the next
segment is read from a record that lies in the space itself, then the segment is
unmapped, which the system may refuse and which leaves the caller's own memory
out. `DestroySpace` is the set of what the walk may leave behind.

### Checks, Observers

What looks at a space without changing it, as operators of a heap. `Checks` has
the debug checks (`sm_do_check_allocation_state` and below, in the form their
arguments intend; several do not compile as they are called), `Observers` the
statistics and the inspection with its visitor. They follow sizes and links as the
code does, fence posts included: `Traverse` is the loop over the chunks of a
segment, a recursive function of the address it has come to, and that it meets
nothing but chunks on the way is part of `Tiled`. The properties compare what
they find with the bins, the callers' blocks and the memory the system lends.
`Checks` extends `Teardown`, `Observers` extends `Checks` and `MCSpace` extends
`Observers`, so their properties are checked in every state the runs of `Space`
reach.

### TreeBin, LargeChunks, TreeBinProofs

The array of bitwise tries with its map of bins, nodes with parent, two children
and a ring of equal sizes. `Insert` and `Unlink` follow the links one by one;
`SearchLarge` and `SearchSmall` are the loops of the two allocations, the split
of the remainder left to `Heap`. `TreesCheck` is `sm_do_check_tree` and
`sm_do_check_tree_bin`. `LargeChunks` is the promise, a collection of sized
chunks from which a request takes the smallest that fits; `PromiseSpec` is the
refinement. Words have 7 bits and there are 4 bins, which keeps the doubling of
the bins' widths and the last bin that takes everything above. The loops down a
trie turn once for each chunk held at most (`Turns`), and `After` is where so many
turns lead; once a loop has ended, a turn changes nothing.

The Windows version of the bin index, the one that is built, keeps 32 bits of the
shifted size (`IndexBits`; in the run 3, of the 4 that a size of 7 bits has after
the shift). A chunk of `MaxLarge` or more, a terabyte, would get the index of a
smaller one, so the chunks are `LargeSizes`, below it; requests are not limited, and
one of 70 units in the run has an index that is wrong in this way.

### Parameters, ParametersProofs

`sm_ensure_initialization`, `sm_init_params` and the spin loop that builds the
mutex, one action per look at or store to shared memory; `pc` has a label per
point between two of them. The five parameters other than the magic are stored
in one step, since they are invisible before the magic is. The magic is named
by the thread that chose it, because its value comes from that thread's reading
of the clock.

### Context, ContextProofs

Contexts and threads: `sm_create` (allocator, block, fill with random bytes,
mutexes, loads, first draw), `sm_get_entity`, the error handler, `sm_destroy`.
A load is a sequence of actions between which loads of other threads run, since
it holds no lock: draw a key, decode and encode anew, look whether there is a
checksum (190), compute the copy's under the old key (192), compare (194), store
the new checksum (205) or drop it (207), store the key, make executable. An entity's
bytes are the key they are under; a load that finds another key than it started from
gets junk, and a race may leave it under no known key. A checksum is right only when
the function and the table it is computed with are. `raced` remembers the
entities two loads were at work on at once, and `dropped` those whose checksum a load
has dropped, for the properties about the others.

The generator's first draw tests `initialized` without a lock. It is one step with
what follows, since `sm_create` draws before it returns the context to anyone
(`sm.c:333`): no two threads can be first.

`stored` holds the fields of the context that were stored since the fill. A
call through another one, entering a critical section that is not built and
drawing from a state that was not seeded each have two outcomes, the end of the
process (`fate`) or that it happens to work: that is undefined in the code, and
what the properties say of later steps they say of the second outcome. What a
destruction had done when the process ended is not kept. A
release build always takes the first such call (`context_wild`).

### Codec

The compressor of `cmp.c` with its write position, hash table and open run of
literals, one turn of the loop per action; the decompressor and the size as
recursive operators. Cells stand for what their byte encodes: the split of an
offset over two bytes is left out. The limits of the format (run, short length,
match, window) are constants.

### MakeCode, Evaluator

`MakeCode` reads lines and appends to three files; `Evaluator` is the evaluator
of size expressions with its static variables, which is why it is a state
machine that `MakeCode` extends and not an operator. A name of a type's size or of a
limit is a token with its value, and with whether a shorter name inside it is
replaced before it. The reference the evaluator is checked against reads every
number and name as what it stands for (`Meant`) and follows the grammar of
right-associated expressions with the operators of arithmetic (`Meaning`); it shares
neither the code's reading of numbers (`Tokens`) nor its refusals (`Defined`).

### Bits, Transcode

The functions of `bits.h` for words of any power of two, masks written by their
pattern; `sm_xor_cross` byte by byte against `sm_xor_pass`, and the two
directions of `sm_transcode`. Multipliers are the low bytes of the code's and
shift distances are scaled to the word.

## Properties

A property of a run that says one thing in several parts is the conjunction of
them, each named and explained in its module:

| property | module | parts |
|---|---|---|
| `TableConsistent` | `HashTable` | `TypeOK`, `CountersAgree` |
| `ProbesReach` | `HashTable` | `EveryEntryFound`, `AbsentKeyFindsRoom` |
| `Arranged` | `Rehash` | `NothingTwice`, `SettledInReach`, `OutcomeIsPlacement` |
| `Layout` | `Space` | `TypeOK`, `Tiled`, `RecordsAtHome`, `AddressesOk`, `Granted` |
| `MemoryAccounted` | `Space` | `Accounted`, `FootprintExact` |
| `HeapSound` | `Space` | `Layout`, `BoundaryTags`, `MemoryAccounted` |
| `ObserversAgree` | `Observers` | `StatisticsAgree`, `InspectionComplete` |
| `TreesSound` | `TreeBin` | `TypeOK`, `TreesCheck` |
| `SearchesFit` | `TreeBin` | `EveryChunkFound`, `BestFit` |
| `LifeSound` | `Context` | `TypeOK`, `NothingLeft` |
| `Decompresses` | `Codec` | `RoundTrip`, `ShortRoomReported` |
| `FilesRight` | `MakeCode` | `CommentsOwn`, `FilesAgree` |
| `TransformsInvert` | `Transcode` | `TranscodeInverts`, `BitsPromise` |

The refinements (`MapSpec`, `StoreSpec`, `PromiseSpec`) and the
progress properties (`LoopEnds`, `CallsReturn`) stand alone, as do those that
relate a step to the one before it (`GrowsWithinLimit`, `SetUpOnce`).

## Runs

| run | instance | shows |
|---|---|---|
| `table_probe` | 3 keys colliding, one with 2 values, 4 and 8 buckets, growth may fail | counters, arrays and probes stay right; `contains` answers for every key, and `get` for every one that is there, what the map says; the table refines `FiniteMap` |
| `rehash` | up to 3 of 4 keys, every arrangement, 4 and 8 buckets each way | in-place re-hashing loses and doubles nothing, and ends |
| `space_core` | 1 thread, 4 granules, requests below and above the mapping threshold | chunks tiled, tagged, binned, counted; records at home; the debug checks pass; `BlockStore` |
| `space_threads` | 2 threads, realloc, memalign, bulk free | the same with calls that leave the lock |
| `space_failures` | 1 thread, 3 granules; mmap and munmap fail, external space, limit changes, tracking, independent allocations | footprint and limit, statistics and inspection agree with the blocks, destruction reads only what is still mapped and returns the segments |
| `parameters` | 3 threads | one mutex, one magic, every call returns |
| `tree_bins` | 5 chunks of 9 sizes in 4 bins | the tries pass the allocator's checks, lose nothing, give a best fit, refine `LargeChunks` |
| `context` | 2 threads, 2 contexts; races, failures, an entity asked for and a processor without the instruction, 2 in all | an entity comes out wrong only when shared and with its checksum dropped, one not shared stays loadable, a generator handed out is ready, failed creations leave nothing |
| `tools` | every input of up to 11 bytes into 1 to 14 cells; files of up to 4 lines, expressions of up to 15 tokens with numbers, names and hexadecimal numbers, pairs of them; 256 keys | compression round trip inside its room; sizes, comments and files of the generator; cross pass, transcoding and bit transforms |

Why the bounds are enough. Three keys in four buckets give a probe chain
that passes the two other keys, a tombstone reused and a re-hash in both directions; 8 buckets is one
growth, 4 one shrink. In `Rehash` the keys' hashes make an entry displace
another whose own probe then starts elsewhere. Four granules hold a first
segment, a second and a third one or mapped chunks above and below them, so
segments extend, are prepended to, stay apart, and are released in every
order. Three blocks make a chunk with used or free neighbours on both sides.
Coverage was inspected: every arm of every operator of `Heap` is evaluated by
the passing runs, the `mremap` arm excepted. In `tree_bins` five chunks fill a
ring of three beside a node with two children, and the sizes fall on both sides
of each bin's bounds. In `context` two troubles are one race with a failure
inside it, or two races, or a failure before and one after; the bound is on
their sum because each multiplies the states. A processor without the random
instruction counts as one: it changes what the generator draws from and nothing that
becomes of an entity. In `tools` an input of 11 bytes
holds a full run, a long match, one whose source is just out of the window and a
tail of each length; an expression of three terms with parentheses needs every
move of the evaluator. Words of 8 bits and bytes of 4 keep two bytes to a word
and every mask's pattern; they say nothing about the statistical quality of the
generator.

Runs that are expected to fail, each with one property quoted from the code or
its comments:

| run | violated | why |
|---|---|---|
| `table_remove_race` | `RemoveTakesOwnKey` | remove uses an iterator from an earlier critical section |
| `space_cut_stale` | `BoundaryTags` | the cutting overwrites a previous-in-use bit that changed |
| `context_wild` | `NoWildCall` | `sm_create` fills the context over the function it has stored, and calls it |

The passing runs exclude exactly what the failing ones show: the `CanFail` of
`table_probe` has no shrinking call, its single thread meets no stale
iterator, the heap's threads run no independent allocation together, and
`context` goes on where a wild call happens to work.

Disagreements met while modelling that have no run of their own:

- `get` of an absent key reports no error and returns what lies behind the
  value array (`hash_table.c:299`); stated as `GetReturnsOwnValue`.
- A resize that cannot shrink an array has already marked every entry deleted
  (`hash_table.c:899`); stated as `CountIsElements`, broken with
  `CanFail = {"shrinkKeys"}`. When it is the values that cannot be shrunk
  (903-905), the keys were already (901) and are shorter than the bucket count,
  which stays: `SlotsBacked` is broken with `CanFail = {"shrinkValues"}`.
- Two independent allocations at once toggle the mapping flag without the lock,
  and one cuts up a direct-mapped chunk (`allocator_internal.c:3298`); stated as
  `CarvesOrdinaryChunk`, broken with two threads, `Counts = {2}`. The flag may also
  stay off for good: the second thread reads it while the first has it off, and
  switches it off again (3298, which does not look) after the first has switched it
  on; having read "off", it never switches it on.
- A dropped checksum may be set again: a load that has passed its check computes and
  stores the new one (`sm.c:205`) after a load without the checksum function has
  stored 0 (207) and is about to return junk. So a checksum that is there does not
  say that the code was ever checked; `WrongOnlyUnchecked` goes by what was dropped.
  And when loads overlap on the function or the table that all checks use, a good
  entity fails its check after its bytes were put under the new key (188) and before
  the key follows (209): it cannot be loaded again, so `EntityKept` excepts it.
- With `mremap`, a resized aligned mapping is an offset too small
  (`allocator_internal.c:2241`): `Granted` of `Layout`, broken with `Remaps = TRUE`,
  `Requests = {3, 15}`, `Alignments = {8}`.
- From 16 buckets on, `contains` reads flags outside the allocation
  (`hash_table.c:272`); the tables of the runs have 8.
- Switching on the tracking of large chunks while direct-mapped ones are out
  trips the debug check of the next free (`allocator_internal.c:1548`); the heap
  itself is not affected, and the checks of `ChecksPass` do not come by mappings.
- `sm_create` draws before `random.lock` is built, `sm_destroy` after it is
  deleted (`sm.c:369`).
- A second size expression is refused unless it starts with a parenthesis, since
  the evaluator still expects an operator (`mkc.c:667`); `)` alone is 0.
- A leading hexadecimal number is read as decimal, its prefix being cut off
  (`mkc.c:640-643`), so `0x12+1` is 13; `UINT_MAX` is 0 and so are the other limits
  whose names have one inside that is replaced first (`INT_MAX`, 623); and `0/2` and
  `0%2` are refused, as if the dividend could not be zero (773, 779), where `eval`
  promises to compute the operators (673-674). `SizesRight` has a reference of its
  own for numbers, names and operators, and excepts just these.

Hazards seen while reading for which there is no property: `clear` takes the
flags' length in 64-bit words for 32-bit ones (`hash_table.c:124`, contents of
memory are not modelled); `destroy` deletes the mutex under callers waiting for
it (`hash_table.c:91`, the caller's duty); rounding up to a power of two lacks
the shift by 32 (`hash_table.c:795`, out of any instance's reach); requests near
`SIZE_MAX` (`allocator_internal.c:1112`, the same); a limit of 0
is replaced by one granule and then by 0 again, which means no limit
(`allocator_internal.c:4259`, a matter of intent and not of state); two first
calls of `sm_create` may both seed the C library's generator (`sm.c:237`,
harmless beyond the quality of the seed).

## Fairness

`Rehash` assumes weak fairness of its next-state relation: the loop is one
thread's code that holds the mutex. `Parameters` assumes weak fairness of each
thread's steps once a call has begun: the operating system runs every thread,
and the critical section is contended only by the threads that began before the
magic was stored, each of which enters once, so weak fairness suffices for it
too. Calling is never assumed. The other specifications state safety only.

## Proofs

The proofs are in `ParametersProofs`, `RehashProofs`, `HashTableProofs`,
`ContextProofs` and `TreeBinProofs`, and for the heap in `HeapProofs`,
`HeapCallProofs` and `SpaceProofs`, each of which extends the one before.

`ParametersProofs`, for any set of threads (assumed: the two marker values are
no threads). The inductive invariant `IInv` says what the status word stands
for: at 0 nobody builds and the mutex is unbuilt, at -1 exactly one thread is
between claim and publication, at 1 the mutex is built and nobody builds. The
properties are not inductive alone: mutual exclusion breaks if a thread rebuilds
the mutex under its holder, which only the reading of the status word excludes.
`Exclusion`, `Built`, `Ready` and `Once` follow: with `CallsReturn`, which is
liveness, these are all the properties of the run `parameters`.

`RehashProofs`, for any keys, hashes, bucket counts and number of entries
(assumed: hashes are naturals, bucket counts positive, the marker for an empty
hand is no entry, and a quadratic probe of a bucket count visits all its buckets,
as it does for powers of two). `NothingTwice` is inductive with the types;
`NothingLost` needs `Typed` (a waiting bucket holds a key and a value) and the
frame lemma `SwapFacts`; that nothing is left waiting at the end needs `Behind`
(the outer loop leaves only moved buckets behind); that a settled entry is found
needs `InReach`. `Types`, `Conserved` and `Complete` are the first results.

`Arrangement` is the fourth, for `Arranged`: the loop leaves what `HashTable`
takes for granted when it re-hashes in one step. Two facts are added to the
invariant, that no key is there twice (`Distinct`) and that buckets not settled
show what they showed at the start (`Untouched`). Placing an entry at the first
free bucket of its probe is then a `Placement`: the buckets before it are
settled, and an entry's own bucket is not among those its probe passed. That a
probe is shorter than the table is an argument by counting: its steps lie on
distinct settled buckets (`StepsCounted`, from the assumption on probes), and
there are fewer of those than there are buckets. Termination (`LoopEnds`) is
liveness and stays with TLC.

`HashTableProofs`, for any threads, keys, versions and table sizes (assumed:
sizes are naturals from 4 on; shrinking the value array does not fail, since
that failure leaves the keys shorter than the bucket count). The invariant
`Backed` is `SlotsBacked` with the bucket count's type. A resize re-hashes
inside arrays that are grown before and shrunk after, so the argument follows
one table through `Grown`, `Moved` and `Resized`, and through each failure
left by `FailedResizes`. `Arrays` is the result, and the run that checks it has
one thread where the theorem has any number.

Its second part holds what is true of the probe alone: it visits every bucket
once in the first `b` steps (visiting all, with as many steps as buckets, leaves
no room for a repetition) and is back at its start after `2b - 1`, so the loop's
three exits are reached and, in a table with an empty bucket, one of the first
two is. That the first stop exists is a least element of a set of naturals.

Its third part, for any keys, hashes, values and table sizes and every
failure of a growing resize (assumed besides: one thread, since with more of
them `remove` uses a stale iterator; no failure of a shrinking call, since that
has already wiped the entries; for `Answers`, fewer than 16 buckets, since above
that `contains` reads past the flags). Each assumption excludes one disagreement
listed under Runs, and no more. The invariant `Inv` holds the table `Sound` and
the iterator of a call under way equal to what `Find` answers. `Sound` has parts
that need each other: an insert finds a place only because the counters keep a
bucket empty (`Counted`), the counters stay right only because the probe that an
insert follows reaches an entry that is there (`Reached`, `Unique`), and `Find`
is one bucket per key for the same reasons. `Reached` is a statement about the
buckets before an entry on its probe, none of them empty: removal keeps it
because it leaves a deleted bucket, an insert because it fills one, a re-hash
because of `Placements`. `MakeRoom` leaves room since a growing table at least
doubles and one re-hashed in place is less than half full. One lemma per call
then shows that it keeps `Inv` and is a `MapStep`. `Consistent`, `Probing`,
`RefinesMap` and `Answers` are the results: all the properties `table_probe`
checks are proved. `RefinesMap` composes with the theorems of `RehashProofs`
through `Placements`: the map survives any member of it, and `Arrangement` says
that the loop produces one.

`ContextProofs`, for any threads, contexts and error handlers and any number of
failures and of entities asked for (assumed: the bounds are naturals, some
handler is a function, the constants that stand for code, junk and NULL differ).
None of the properties is inductive. `IInv` follows each load from step to step:
`Known` of an entity that no two loads ever shared says how far its one load has
got with its bytes, its checksum and its key, which is more than `EntityKept` and
makes it inductive. Of an entity loads have shared nothing is known of bytes and
key, and `WrongOnlyUnchecked` rests on what survives every interleaving: wrong bytes
have the checksum of no key, so a load of them does not pass the comparison, whatever
others have stored meanwhile, and one that returns them has dropped the checksum
itself (`HoldsResult`, `WrongKept`). That it was shared is the other half: `Known`
says that a load which was alone has the code in hand (`Shared` counts the checksum
function and its table in, since a check is no better than they are). For the
contexts, `OneCreator` (a context that is being created belongs to one thread's
call) lets `GeneratorReady` and `NothingLeft` go through the many exits of
`sm_create`, each an outcome of the operators `Filled`, `Probe`, `SeedState` and
`CreateFails`. `Checked`, `Kept`, `Drawable` and `Life` are the results: all the
properties of the run `context`, which has two threads, two contexts and two
troubles where the theorems have any number.

The heap, for any granule, address space, chunk limits and thresholds, requests,
alignments and limits, with every refusal of the system (assumed: `HeapAssumption`
and `SpaceAssumption`, the types of the constants and the order relations that the
sizes of the code's structures have).

- `HeapProofs` states when a heap is `Sound` of a set of blocks `L` handed out and
  a set `U` of free chunks that an operation has taken out of the bins and not used
  yet. `U` is what makes the argument go operator by operator: between unlinking a
  chunk and writing its head the heap is not sound in the sense of the runs, and
  says so exactly. `Sound` is `Shape` (chunks follow one another from each segment's
  base to its record or the top, and each tells its state to the one behind),
  `Owned`, `Placed`, `Sizes`, `Lent` and `Settings`. It is stronger than `HeapSound`
  in what the code relies on without checking it: where the last chunk of a segment
  may end, that segments are of whole granules apart from each other and from the
  mappings, that what a free chunk's foot says lets a merge find the chunk below.
  Lemmas follow for each writer of heads, for one span of chunks cut or joined into
  others, for the bins, `Disposal` for `sm_dispose_chunk`, and for a segment given
  memory at its end or base. Granules are intervals of naturals, so that a footprint
  is a number of granules is an argument about cardinalities.
- `HeapCallProofs` completes the five ways to get memory: at the end of the first
  segment, at the base of any, as a new first segment with a record in the old one,
  as a mapping of its own, and from what is free. `Allocation` is the result: for any
  sound heap and request. `Resizing` follows, and the release of unused segments,
  whose loop over a list is a recursive function; what it computes is proved by
  taking the least turn at which it is wrong. `Resizing` assumes that there is no
  `mremap`: with it, a remapped aligned block is an offset too small, as listed under
  Runs.
- `SpaceProofs` adds the calls that give back or cut up (`Freeing`, with the trimming,
  `Aligning`, `BulkFreeing`, `Carving`) and puts the threads around it. `Inv` says that the heap is sound, each
  block as large as its caller asked, and what each thread's call holds between its
  steps a block of its own that no other thread can be handed; neither half is
  inductive alone. A step of one thread leaves the calls of the others what they hold
  since every operator spares the blocks it is not given (`Spares`).

The step that no such invariant survives is the cutting of an independent
allocation when the chunk below was freed since it was allocated, or when its chunk
turned out to be a mapping: `space_cut_stale` shows the one, the entry for
`allocator_internal.c:3298` the other. `Settled` says that no thread is about to do
that, and `SpaceSound`, `LimitKept` and `SpaceStores` hold of every behaviour of any
number of threads where it never happens. Two kinds of program make sure of it by
themselves (`Undisturbed`): those that make no independent allocation, with any
number of threads, and those with one thread, since between the steps of its
allocation the flag stays off and nobody frees (`Calm`). For them
`UndisturbedSound`, `UndisturbedLayout`, `UndisturbedTags`, `UndisturbedAccounted`,
`UndisturbedLimit` and `UndisturbedStores` have no other assumption than
`~Remaps`, and so state for every value of the constants what `space_core`,
`space_threads` and `space_failures` check, which are such programs.
`UndisturbedReads` and `UndisturbedReturns` add that such a space can be destroyed
between any two steps: each segment's record lies in the segment, which no other
segment or mapping shares, so the walk finds it in memory it has not yet given back.
`OneThreadCarves` proves the assertion at 3310 for one thread.

`UndisturbedChecks` is about the loop that all the observers share. That its
recursion over addresses defines a function is shown from the end of the segment
downwards (`TraverseExists`), and so is what it comes by (`Traversal`): chunks of the
segment, each where the one before it ends, up to the top or the fence post behind the
record. `Shape` then gives each check of a chunk, `Placed` those of the bins, and the
sum telescopes: the first segment adds up to its whole size, every other to no more
than its size, and the segments together to no more than the granules lent.

`TreeBinProofs`, for any widths of words and indices, any even number of bins and any
sizes and requests (assumed: the order relations of the code's widths, and chunks
below `MaxLarge`, as said above). The allocator's checks look at a node and its
neighbours and are not inductive: nothing in them says that a chunk deep in a trie is
on the way its size leads, and unlinking puts a leaf from far below, or a chunk of a
ring, in the place of a node. `Trees` is the invariant:

- `Typed`: indices are those of the sizes, pointers lead to chunks held, and the map
  marks exactly the bins with a root.
- `Rings`: forward and backward are inverse and keep the size; each size has exactly
  one chunk in a trie; and whatever set contains a chunk and is closed under the
  forward pointer contains all of its size, which says that a ring is one ring
  without counting along it.
- `Links`: parents and children, roots and bins agree.
- `Deep`: there is a function `D`, the depth, by which a child is one step below its
  parent, its size goes the same way as its parent's down to there, and then to its
  side. It is this one that survives a leaf standing in for a node above it, since the
  leaf's size went that way too.

From `Deep` follow that two chunks on one way at one depth are the same
(`PlacesDiffer`, by the least depth at which they are not), that a trie is no deeper
than it has chunks (`Shallow`), so that the loops do end within `Turns`, and, with
the words as numbers, that everything on the left of a node is smaller than
everything on its right (`Sides`). `Inserting` and `Unlinking` say of each arm of the two operations that `Trees`
stays and exactly one chunk comes or goes. `Searching` is the best fit: below the
node where the descent is, or ahead of the last right subtree it passed by, is
whatever beats the best so far (`Covers`), and a walk to the left ends with the least
of a subtree (`LeftMostIs`). `TreesPass`, `SearchesAlways` and `TreesHold` are the
three properties of `tree_bins`; the last is what entitles `Heap` to take a tree bin
for a set with best fit.

Model-checked only: `LoopEnds` and `CallsReturn`, which are liveness;
`ObserversAgree`, which compares folds over the walk with folds over the bins; and
`Codec`, `Evaluator`, `MakeCode`, `Bits` and `Transcode`, which are recursive or use
bitwise operators and so are out of the prover's reach.

## Plan

1. Prove more: the walk visits each chunk once, so that the statistics of
   `ObserversAgree` follow from `Inv`.
2. Extend the model: a hash table whose visitor calls back, the reset of a space
   after detected corruption, the periodic reseeding of the generator.

## Not modelled

The arithmetic of generators, checksums and hashes (`hashing.h`, `checksum.h`,
`random.h`, `precursors/fun.c`, `hsh.c`, `spooky.c`, `ran.c`); the contents of
memory and its wiping; the second, 32-bit pair of checksum table and function
of a context, which takes the same course as the first; of `mkc.c`, the output
of tables and of mutator functions; the command line program; generated byte arrays;
weak memory effects (MSVC gives the volatile accesses of the initialization
acquire and release semantics).
