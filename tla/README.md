# A TLA+ model of the Sextant engine

Sextant is a disk-resident vector index: an IVF tree of centroids over leaves
that hold quantized vectors, filter columns and payload references, in one file
of fixed-size pages.  This directory holds TLA+ modules of its core, TLC
configurations that check them on small instances, and TLAPS proofs of what can
be proved for every instance.

Paths below are relative to the repository; `tree/` stands for `src/tree/`.

## 1. The system

| component | state | operations | interacts with |
|---|---|---|---|
| page file (`tree/page_file`) | fd, mapped pages | read, write, truncate, sync | everything on disk |
| page allocator (`tree/page_allocator`) | bitmap, LIFO free list threaded through free pages, counters | load, alloc_page, alloc_extent, free_extent, flush | mutations, build, fsck |
| superblock (`tree/superblock`) | two copies with magic and sequence number | init, load, commit | mutations, open, build |
| tree mutations (`tree/ivf_tree_mutate.cpp`) | leaf table, root children, row count, allocator | insert_batch, delete, vacuum, defrag (with shrink), commit, remap | allocator, superblock, caches |
| filters (`filter_column_write.hpp`, `filter_scan`, `filter_hash`) | summaries per leaf and per child entry: ranges and Bloom bits | build, merge, may-match, evaluate | mutations, search |
| tree search (`tree/ivf_tree_search.cpp`) | per-thread scratch, heaps, pools, pins | search, search_batch, brute-force fallback | leaf cache, scan pool, plane, cardinality |
| scan pool (`tree/scan_pool`) | process-wide threads and a task queue | push, resize | search, search_batch |
| leaf extent cache (`tree/leaf_extent_cache`) | shards with window, probation and protected lists, pins, fill stripes | pin, unpin, invalidate_all | search; mutations invalidate it |
| batch scheduler (`tree/batch_scheduler`) | deadline-ordered queue, in-flight windows, result cache | submit, sweeper loop, dispatch, stop | search_batch |
| routing plane (`tree/plane`, `tree/ivf_tree_plane.cpp`) | plane rows of the centroids | route, route_batch | search |
| cardinality (`tree/cardinality`) | per-column histograms and sketches | build, merge, selectivity | search, vacuum |
| build (`tree/ivf_tree_build.cpp`, `cluster_stage`) | staging files, assignments, writers | train, assign, close, write | allocator, superblock, sources |
| fsck (`tree/fsck`) | walk result | check, repair | allocator, superblock |
| block cache (`storage/block_cache`) | sharded W-TinyLFU, frequency sketch | lookup, insert, mark_dirty, adapt | engine I/O |
| sources (`sources/`) | row cursors, spilled chunks | next, reset, push | build, insert |
| C API (`src/capi`), CLI (`tools/`) | handles | wrap the above | callers |
| coders, quantizers, SIMD | codebooks | encode, scan, rerank | search, build |

What is hard here: the free list is only a hint and runs through pages that may
hold data again; several extents move during one mutation while the old
superblock still names the old ones; summaries are copied into ancestors and
merged with different shapes; cache entries are freed by whoever comes last,
partly without the lock; windows close by deadline against arrivals, limits and
stop; a batch is split over threads by leaf and put together again by query.
A build adds a pool, readers and a prefetch thread to all this, and overwrites a
file that may hold a tree already.  `PROJECT.json` lists each hazard at its line.

## 2. Modules

### PageAllocator, PageAllocatorProofs

One mutation's use of the allocator: load, alloc_page, alloc_extent, free_extent,
flush, superblock commit.  A page's content is what `read_free_next` would decode
from its first eight bytes: a page id, kInvalidPage or caller data.  `live` is
what the index refers to.  An allocation past the bitmap region's coverage fails.

Properties: the bitmap is exactly the live pages (`BitmapExact`), live extents are
disjoint, the free count is exact, following the free list never decodes caller
data as a page id, and the committed bitmap is that of the committed extents.

### Superblock, AtomicSuperblock, SuperblockProofs

Two copies on separate pages; a commit writes the other page and syncs; a power
loss keeps any mixture of written and unsynced copies or tears the one being
written; a rebuild over an old file starts again.  `AtomicSuperblock` is the
promise: one value that a commit replaces at once and a loss reverts to old or
new.  `Commits` states the refinement.

### TreeMutation (MCTreeMutation), TreeMutationProofs

insert_batch with its routing, leaf rewrites (in place, smaller, or moved),
payload rebuilds and split loop; delete; both vacuum passes; defrag and its
shrink; commit_mutable_ step by step (leaf table, manifest, bitmap flush,
superblock) and remap_; reopen; a kill at any step.  The file is a map from extents to
objects, so a write over a live extent destroys what was there, and a node that
names a freed extent reads garbage.  An index of `Indexes` gives the rows of the leaves the
build wrote, where a row may be in several leaves (the build's closure replicas), and the
leaves each last-level node got; `Init` lays them out as the build does.  The allocator is
PageAllocator's, as operators on a record.  Properties: no live extent overwritten; every row
keeps the copies it was given, one if it was inserted and as many as the closure chose if it
was built, and is counted once (`RowsKeepCopies`); a reopen sees what the running index sees;
and every step makes progress (`StepsProgress`, a measure that every step of a mutation
lowers).

### Fsck (MCTreeMutation), TreeMutationProofs

fsck over the file TreeMutation writes: the walk from the committed superblock, with
what it reads when a pointer leads to a page of another kind or to a free-list link,
the page accounting against the bitmap, and the repair.  It runs on a closed index, after
a clean close or a kill.  `FsckClean` uses the tool as the oracle of the mutations: the
bitmap marks exactly the reachable pages, every leaf is in the tree once, and the counts add
up (where no row is replicated; the tool itself only informs otherwise), between any two
mutations.  `RepairRestores`: a repair of a file whose tree is in
order leaves a file that passes, touches no page the tree claims, and threads exactly the
free pages on a list that ends.

### FilterSummary (MCFilterSummary), FilterSummaryProofs

Range and Bloom summaries with the real bit-count and probe arithmetic, predicate
evaluation with nulls, set columns and geo columns, build, merge into leaves, copies
on splits, staleness after deletes and vacuum's rewrite.  Numbers are counted in quarters.
A comparand is any double: the scan of the rows casts it to the column's type (`round_to`, to the nearest
integer or the nearest float), the summary takes it as it is.  So `x = 1.5` on an integer
column accepts 2 in a scan and is ruled out by the range 2 .. 2.  The properties are about
rows that match by the scan and by the comparand as given (`AsGiven`): a leaf's own
summary never rules out such a row (`LeafSummarySound`), and built rows are found through the
root's entry as well (`BuiltRowsFound`).

### LeafExtentCache (MCLeafExtentCache), LeafExtentCacheProofs

One shard: pin as lookup, fill gate, second lookup, admission, fill outside the
lock and insertion; unpin as an atomic decrement, the retired check and the claim
to delete; run fills with aliases; invalidation.  Properties: a pinned entry is
never freed and covers its request, the map points only at linked entries and the
byte counters equal the lists (`ShardConsistent`), everything is freed once and nothing
leaks (`FreedExactlyOnce`), main stays within its budget.

### BlockCache (MCBlockCache), BlockCacheProofs

One shard of the engine's W-TinyLFU: lookup under the read lock, insert,
admission from the window, the lazy adaptation to limits the hill
climber writes without the lock, resize with each of its stores and the load between them a
step of its own (`resize`, `resize_load`, `resize_protect`, `resize_reset`), and the lock
itself with waiting writers first; a reader is in its operation from when it asks for the
lock (`read_wait`).  What the frequency sketch and the hit rate say is free.
Properties: an entry is in one list once and an insert finds the block it stored
(`EntriesSound`), every operation ends (`OpsFinish`), and `CapacityHeld`: the main lists stay
within the capacity and the window within what the climber may give it, capacity less two.
It does not say that a shard holds at most its capacity.  Admissions evict only while the
window is above its limit, so when the climber raises the limit of a full shard the window
fills on top of full main lists, up to nearly twice the capacity.  Where a climb may race a
resize the bound is the largest capacity the shard has had.  The bound of the main lists has
one exception, `wrapped`: the climb of another shard between `block_cache.cpp:108` and the
load at 110 makes the difference there wrap, and the protected list then has no limit.  The
run with climbs elsewhere reaches it; CapacityHeld says that a single shard never does, and
that the window's bound holds all the same.

### BatchScheduler (MCBatchScheduler), BatchSchedulerProofs

submit (cache hit or deadline insertion), the sweeper's decision, wait, wake-up
and time-out as separate steps, close, launch, dispatch with failures, and stop.
Time is a clock that ticks up to the last deadline.  Properties: accepted queries
are queued, in a window or answered, never two of these; an answer is what a search for
the query alone gives, or, with a result cache, the top k of an earlier query that
`predicates_equal` takes for this one (`OwnResults`); stop returns only when
all are answered; a close takes every due query and
leaves no more urgent one behind; every accepted query is eventually answered.
`predicates_equal` leaves out the strings of a predicate, and so does the model's cache: a
key has a part it compares (`req`) and the strings, which it does not.

### ScanHeap, TreeSearch, BatchSearch (MCBatchSearch)

TreeSearch is what one query computes: root scoring, gap and coverage cuts,
filter-directed probing, descent, leaf pruning, plane routing, the brute-force
fallback, shortlist width, replica removal and the adaptive cut.  ScanHeap is the bounded
heap those scans feed, with the total order of its entries, and what the coders' kernels
offer it: the PQ kernels skip a block whose best key is beyond the front, the scalar
kernels buffer a leaf and flush it, one by one or, with AVX-512, by vectors.  `Smallest`
is the reference: the w least entries, in whatever order they came.  BatchSearch runs calls on the scan pool: the routing workers and
their pins, the inversion of the probe sets into unique leaves in page order, the
one leaf stream, chunk claims, reads (which may fail), the scan of a leaf for every
query that probed it with the harvest into pools, the hand-over and merge of
partials, finalize workers, and the shards of a single search.  A query that falls back to
brute force is a search of its own, called by the finalize worker on the pool's thread: it
submits its shards to the same pool and the thread waits for them.  A fill of the leaf cache
may throw in a routing worker, a sweep or a shard: the worker ends with what it had pinned, and the
caller's first `get()` throws on (`rethrow`).  If other workers are then still
running they use the frame of a call that has ended; the behaviour ends there, in `Undefined`.

`MatchesSearch` is the central property: however the work was shared out, each
query's results are those of a serial search with its own settings over the leaves
that could be read.  Two exceptions are part of its statement: a query that falls back gets
what a search with the call's base configuration returns, and under the AVX-512 flush it
speaks of shortlists that have room for every candidate (`Exact`).  `PoolContainsHeap` is what
the header calls provable: the pools contain every entry of the heaps, and after an AVX-512
flush one that is missing lies behind a full pool of nearer ones.  `SweptOnce` is about reads
and `DirectedProbesAll` about selective filters.  `PinsFollowUse`: a leaf that a shortlist may
still read is pinned, a call that has ended keeps no pins of its own, and its workers' only
after an exception, and routing leaves pins behind only on the plane or when it throws.
`EventuallyReturns`: every call made returns or throws if the pool has more threads than searches
fallen back to can keep waiting (`PoolSuffices`).  Without that condition TLC finds the
lock-up: a pool of one whose thread waits for a shard queued behind it.
What depends on nothing that changes (the routing of each query and the results
to compare with) is computed once per instance, in `Mode`.

### Build, VectorSource, ClusterStage, CardinalityTable (MCBuild)

`build_streaming_pca` from the first read of the source to the commit of the superblock,
with the attachment of the routing plane.  VectorSource holds the sources' cursors:
memory, a prefetched file (two buffers, one thread), shards read one after the other or
by several readers, and rows pushed through the C API with their staging and spills.
ClusterStage is the hybrid staging of the emission pass: arenas in RAM, the choice of the
cluster to spill, dedicated and shared write buffers, the segments of the file, and a
disk that fills up.  CardinalityTable is the tables of one string and one numeric column
with caps, bins and merges.  Build composes them: the main thread, the pool that runs the
tasks of every step, the readers, the prefetch thread; the Lloyd passes, the chunks of the
emission pass (route, count, append, flush of full leaves), the nodes of two or three
levels, blobs, bitmap, superblock, and the plane with the relocation of a bitmap that is
too small.  The codebook is written for coders that have one and the PCA blob where PCA is on.
Which centroid is nearest to a row and where its closure sends it is given by
the instance; what the code does with that is modelled.

Properties: the leaves of a cluster hold exactly its rows, once, in corpus order, with
their own ids, codes, labels and payloads, whatever the source, threads and staging and
for chunks none of which is larger than the first
(`LeavesExact`); the counts of a Lloyd pass are exact (`LloydExact`); every leaf
is reached through exactly one parent, and the numeric range of every entry is that of the
rows beneath it (`TreeComplete`; the Bloom columns, which merging can spoil, are
FilterSummary's); whoever
opens the file at any moment finds nothing, the old tree or the new one whole
(`OpenableComplete`); the statistics are those of the corpus (`CardinalitySound`); every
build ends (`BuildEnds`).

## 3. Runs

| run | instance | shows |
|---|---|---|
| page_allocator | 5 pages, 1 reserved, coverage 4, extents up to 2 | extents, reuse, stale list entries, growth and failure at the coverage limit all occur; 5 pages is the least on which a stale head, a free run and growth coexist |
| superblock | 5 commits, 2 losses | both pages alternate twice; a loss in every phase, and a second one after recovery |
| tree_mutation | ten indexes: depth 1 to 3, up to 5 rows, up to 3 mutations; one with a replicated row, three with kills and repairs | cascading splits that move nodes, leaves of two pages, splits and deletes of replicas, a shrink, payload columns without splits, a kill at every step and the repair after it (485 000 states) |
| filter_summary | 4 rows, 3 strings, comparands −0.5, 0.25, 1 and 1.5, 3 operations, Bloom threshold 2 | every bit-count class: none, 16 and 24 bits, too many values; hashes collide differently at each width; comparands that the cast rounds up, down, to zero and not at all |
| leaf_cache | 2 searchers; three leaves, two leaves and their run, or plane rows of three lengths | all interleavings of two pins and unpins with evictions, promotions and invalidations; two threads are the most that contend for one entry's end |
| batch_scheduler | 3 queries, windows of 2, 1 in flight, eight modes | deadline, size, idle and stop closes; the gate; cache hits and evictions, with and without a shortlist gap, and of queries that differ in a string only; a failing sweep |
| block_cache | capacities 2 and 4 with 2 threads, and 4 with climbs elsewhere and 1 thread; 5 blocks, resizes to 0 and 1 | 4 is the least capacity at which the climber has a choice; two threads are a reader and a writer, or two writers; with climbs elsewhere one thread is enough, since climbs come at any step (505 000 states) |
| build | some 220 instances: 0 to 7 rows, 1 to 3 clusters, threads and shards, leaves of 1 to 3 rows | every closure of four rows over two clusters; budgets from nothing to everything in RAM, no to two dedicated buffers, full disks; depths 2 and 3, each kind of plane, old files; all sources; caps of 1, 2, 4 and none; bitmaps too small for the tree or the plane (22 000 states) |
| batch_search | 22 combinations of indexes, pools and calls: trees of depth 2 and 3 with four leaves and a replicated row, 1 or 2 pool threads; PQ and scalar kernels with blocks of 2 in place of 16 or 32 | splits of a sweep over two workers, two calls on one thread, filters, fallbacks that split on a pool of two and of one, gaps, adaptive cuts, vector flushes with a small shortlist, plane, failing reads, throwing fills (21 500 states) |

The search run has ties in the scan keys within and across leaves, and shortlists
smaller than the tree, so merge order and pool cuts matter.  `Chunk` is 1 in place
of 32, so that every leaf is a claim of its own.

Runs that show a disagreement between the code and what the repository says of it:

| run | property | disagreement |
|---|---|---|
| split_payload | PayloadReferencedOnce | both halves of a split keep the old leaf's payload extent |
| filter_bloom | NeverFalseNegative | Bloom filters of different widths are ORed |
| build_depth1 | OneLeafPerRootCluster | a tree of depth 1 names one leaf per root cluster, though a skewed corpus has clusters with several |

### Fairness

BatchScheduler: weak fairness for the sweeper, the dispatches, notifications and
the clock, which are threads and real time; nobody has to submit or to stop.
BatchSearch: weak fairness for pool threads and for callers once they have made
their call.  BlockCache: weak fairness for a thread that holds the lock and strong
fairness for taking it, to read or to write: a thread that asks again and again while the
lock is free now and then is not passed over for ever.  For writers
`docs/locking_contracts.md` says so (new readers wait behind a waiting writer); for readers
it rests on nsync, an external library, which gives a thread that has waited long its turn.
No operation has to be called.  Build: weak fairness for the
main thread, the pool, each reader and the prefetch thread, which are threads that only
wait for each other; a file need not be cut.  The mutexes only ever guard finite steps.
Elsewhere progress is a
safety property (`StepsProgress`) together with the absence of deadlock.  Deadlock
is not checked where the system may stop: when the allocator's bound is reached, when
the filter run has used up its operations, when all queries are answered or all calls have returned.

## 4. Proofs

For every file size, reserved region, coverage and extent bound
(`ConstantsAssumption`), PageAllocatorProofs proves the type invariant and each invariant
of the page_allocator run.  The inductive invariant `IInv` adds to them

* `LinksSound`: the head and every next pointer in the file is nil, or names a page
  of the file that is allocated or still holds a next pointer.  Without it alloc_page
  could pop a page whose bytes are data: this is why checking the bit of the popped
  page is enough, although alloc_extent never unlinks;
* `LiveNotReserved` and `SizesAgree`: extents stay clear of the superblocks and bitmap
  region, and file and allocator agree on the size, so growth hands out fresh pages;
* `DiskInSync`: what the flush and the commit have written so far is what memory
  holds, which carries `BitmapExact` over to the committed bitmap.

`LowestIn` and the counting lemmas rest on the library's theorems on finite sets.

SuperblockProofs proves, for any number of commits and losses, that
`ShadowProtocol` (the valid copies, their pages and sequence numbers in each phase)
is inductive, that a crash leaves the old or the new superblock (`OldOrNew`), and
that the specification implements AtomicSuperblock (`ImplementsAtomicCommit`): every
step of the two-copy protocol is a commit, a loss or a stutter of the abstract one.

CommonLemmas holds what the proofs below share: facts about insertion, removal and
concatenation of sequences, least and greatest elements, and induction.  The library states
induction for a predicate, which the provers cannot instantiate; `NatSetInduction` states it for
a set, an ordinary variable, and `Iterates` and `StaysIn` give from it the invariants of a
loop that is modelled as an iterated step.

**BatchSchedulerProofs**, for any queries, windows, sweeps in flight and modes:
`NoneLost` (Conserved), `StopIsClean` (StopDrains), `UrgentQueriesFirst` (UrgentFirst) and
`AnswersAreOwn` (OwnResults), none with a hypothesis on the modes.  `OwnUnlessStrings` says
when the code keeps what its comments promise: if no two queries differ in their strings
alone, and no mode combines a result cache with a shortlist gap, every answer is exactly the
query's own (section 5).  The invariant adds
to the properties that the queue is sorted by deadline (`QueueOrdered`, without which a close
could leave an urgent query behind), that the windows of forming and sweeping tasks are apart
from each other and from the queue (`Placed`, `WindowsApart`), that in each phase of the
sweeper and of stop the queue and the window are what that phase leaves (`Phases`), that the
in-flight count is that of the tasks that have not finished (`Slots`), and that the cache
holds cuts of its own keys' rankings (`CacheSound`).

**LeafExtentCacheProofs**, for any searchers, pages, stripes, budgets and workloads:
`HandlesStayValid` (PinsValid), `DeletedExactlyOnce` (FreedExactlyOnce),
`MapAndListsAgree`, the part of ShardConsistent about map and lists, and, for `Invalidable`
workloads, `ShardStaysConsistent` (ShardConsistent) and `MainStaysWithinBudget`
(MainWithinBudget).  The
invariant gives every entry that is not freed exactly one place: linked in one list, in the
hand of the thread that filled it, retired with pins that will come back, or claimed by
one thread that will free it; and it says that an entry's count is the number of its pins
and of threads between decrement and check.  What an unpin may do without the lock follows
from it: whoever reads a count of zero on a retired entry either wins the exchange or
knows that another thread has.  Every operation under the lock (hit, demotion, eviction,
admission, invalidation) is shown to be a `Moves` step, a relation that is reflexive and
transitive, so the loops need no invariant of their own.
A counter is the cardinality of its list's pages, so unlinking and pushing an entry change
it by that entry's size (`OneEntryMore`) and no subtraction wraps; that the sizes fit the
word is the assumption MaxEntries * MaxPages < Word, 64-bit counters in the code.  The
invariant of the counters (`Tally`) adds that every entry has the extent and keys of some
request and that main is within budget: demotions leave main's sum alone, and with one size
the replaced entry frees what the candidate takes (`Snug`).  The invalidation zeroes the
counters without looking at the lists, which is right only if it found every linked entry in
the map (`Named`).  That fails where an entry can be linked with all its keys taken, a run
over cached leaves or two rows that start at one page; `Invalidable` excludes such requests
for indexes that are mutated while cached, and only for them (section 5 and the hazard at
leaf_extent_cache.cpp:634).

**BlockCacheProofs**, for any capacity to 53687091 blocks (above it the 32-bit product in
the protected limit wraps), any threads, resizes and climbs of this and other shards: `EntriesStaySound`
(EntriesSound) and `CapacityIsHeld` (CapacityHeld).  The invariant says that the three lists
are injective and disjoint (`Lists`), that the limits are those some capacity of the cache
allows and, unless `wrapped` or within a resize, the main lists fit (`Fits`), that a writer is
alone (`Exclusive`), that the window fits with one block more while an insert is between
linking and admission (`WindowFits`), and that the window limit a resize loads is the one it
stored unless other shards climb (`Loaded`), so that the wrap needs one.  The proof found the earlier form of CapacityHeld, at most one block above
the capacity, to be false for capacities above those of the run.

**FilterSummaryProofs**, for any rows, strings, hash values, Bloom threshold, leaf capacity
and number of mutations: `LeavesNeverPruned` (LeafSummarySound) and `BuiltRowsStayFound`
(BuiltRowsFound).  `Covers` says that a summary's ranges hold a row's values and its Bloom
filters its hashes at their own width; `SummaryComplete` that no predicate a row passes is
ruled out by a summary that covers it, operator by operator; `WriteCovers` and
`MergeWidens` that writing covers the rows and merging widens both sides.  The invariant is
that every leaf's summary covers its rows, every child entry is absent or covers the built
rows below it, and the root's entry covers all built rows.  Comparands are arbitrary.
Assumed of the constants: values lie within the range of a double and are of their column's
type, and the strings are finitely many.

**TreeMutationProofs**, for every index of `Indexes` (any rows, leaves, capacity, depth 1 to 3,
pages of any size, any number of mutations and kills), proves that no step of an insert with
its splits, a delete, a vacuum, a defrag or a commit overwrites, frees or shares an extent the
index refers to (`LiveExtentsIntactAlways`); that every row keeps the copies the build or its
insert gave it, wherever they move, and is counted once (`RowsKeepCopiesAlways`); that memory and file agree between mutations
(`ReopenSeesSameAlways`); that fsck then finds nothing (`FsckCleanAlways`, and with
repairs in between `FsckCleanUnlessKilled`); and that a repair writes only to a file in which
a mutation was killed (`RepairOnlyAfterKill`).

The inductive invariant `IInv` (`IInvAlways`) says of a mutation that has not been killed:

* `Intact`: the bitmap is exactly the reserved pages and those of the extents of leaves,
  nodes and blobs, which are disjoint, whole and of the kind the index takes them for
  (`Owns`, `Sound`); each level of the tree holds the nodes it should (`TreeOK`), and each id
  of the leaf table has one place in it (`NamesOK`).  LiveExtentsIntact alone is not inductive:
  that a freed extent is named by nothing else needs the kinds, the single places and the
  exact bitmap.  add_child_to_parent_ is the hard step: a node that moved is replaced in its
  parent, which may move too, up to the root, and nodes elsewhere must be untouched;
* `StoreOK`: the allocator knows the size of the file, except between the two steps of a
  shrink.  The head of the free list may be anything, since the allocator checks the bit of
  the page it names; where it lies behind the end of a file that was shrunk, the allocation
  throws, and `op = Failed` is a state of the invariant;
* `CommitOK`: which of the old and new table, count and superblock the memory and the file
  hold at each stage of commit_mutable_, and that everything agrees whenever a mutation could
  end (`AtRest`);
* `RowsOK`: each row that is in place has its number of copies (`CopiesKept`), and with the
  rows an insert has still to place or a delete to remove the rows of the leaves are those the
  calls should leave; leaves a delete has passed hold none of its ids; the count follows;
* `OpOK`: what the stages of a mutation have in common.

Of a killed one it says that it is only read (`Killed`).  An object that moves is one relation
(`Rewrites`: written to fresh pages, then the old extent freed), and `OwnsRewrite` is the
lemma every move rests on.  The theorems on fsck rest on `WalkReaches`, which shows that
the walk's set of nodes is that of the tree, and `WalkFacts`.

Assumed of the constants (`IsIndex`, checked by TLC): the built leaves fit one page and
twice the capacity (rows may be in several), and every node names at least one leaf and as many as fit a page.
The theorems are about `Plain` indexes, those without the two defects of section 5 that
break the page accounting: no payload column, since both halves of a split keep one
payload extent, and no shrink of a tree with nodes below the root, which the shrink
cuts off.  RowsKeepCopies and FsckClean assume that a delete repeats no id, as the run does.
TLC checks what this leaves out: payload columns without splits, files after a kill and
repair (`RepairRestores`, FsckClean after a repair), and `StepsProgress`.

Model-checked only: liveness (`EventuallyAnswered`, `OpsFinish`, `EventuallyReturns`,
`BuildEnds`) and what rests on ENABLED, which are outside the prover's reach;
`StepsProgress` and `RepairRestores`; and the properties of
BatchSearch and Build, whose results are what folds and sorts compute from the input, which
takes an induction over data.

## 5. Assumptions and abstractions

* TreeMutation: inserted row ids are new and the ids of one delete are distinct
  (`DuplicateIds = FALSE`); leaf table, manifest and cardinality blobs take one page;
  leaves have no filter columns (FilterSummary has them).
* Superblock: the fields of a copy fit in one sector; a torn copy is one whose sector was
  not written, and fails the magic test (there is no checksum).
* FilterSummary: values and comparands are multiples of a quarter, exact as doubles; one
  integer, two float (geo), one string and one set column.
* LeafExtentCache: one shard; a freed entry reads as it last was; atomic accesses
  take effect in program order; the buffer pool and the statistics are left out;
  workloads with runs, or with rows that start at one page, do not invalidate: an entry
  linked without a key is missed by invalidate_all, and the counters then wrap.
* BatchSearch: distances and scan keys are small integers with ties; selectivities
  and plane candidates are given; the leaf cache has room for every leaf that is pinned; what
  a worker does with the frame of a call that has ended is not followed.  Heaps are filled with sentinels before they are used; the
  kernels' path for heaps that are not runs only in feedback probing.  Feedback probing, sweep_Ws, PCA distances and
  read-ahead are left out.
* BlockCache: one shard; the adaptation of other shards appears as climbs at any step;
  OpsFinish is claimed for a cache of one shard.
* Build: a record has a fixed size; one string and one numeric column; a source's first
  chunk is its largest; a caller whose push is refused aborts; the estimator's choice of
  clusters and capacity is given; a build with several readers may lose Lloyd increments.
* Fsck: the file is closed; checksums are left out.
* Mutations exclude searches, as `tree/ivf_tree_index.hpp` requires.

### Known disagreements

Beside the three runs above, the models reach states that contradict what the code or
its documents say.  Each is left out of the passing instances or, where an instance reaches
it, excepted by name in the property.

* `ivf_tree_mutate.cpp:397`: a kill after commit_mutable_ freed the committed leaf table
  leaves a superblock whose table is a free-list link, and the open throws (the state
  `op = Corrupt` of TreeMutation, in the instances with kills); `superblock.hpp:106`
  promises the old or the new state.
* `fsck.cpp:450`: a repair after such a kill frees what the walk could not reach and
  threads the free list through live leaves (`fsck_repair` with `~tree_walk_ok`).
* `ivf_tree_mutate.cpp:1260`: an insert widens its leaf's summary and not its ancestors',
  so the row is found by no numeric filter outside the built range (`Search` of an
  inserted row in FilterSummary; `BuiltRowsFound` speaks of built rows).
* `ivf_tree_search.cpp:2590`: a query of a batch that falls back to brute force is
  searched without its own predicates (MatchesSearch names the configuration it gets).  The
  fallback also submits to the pool it runs on and waits: with no thread left the pool locks
  up (the batch with a pool of one; EventuallyReturns fails without `PoolSuffices`), where
  `scan_pool.hpp:13-15` says that pool threads never submit and block.
* `ivf_tree_search.cpp:1217`, `2139`, `2511`: the first `get()` that throws leaves the call
  while its other workers still use its frame (`Undefined`, in the instances whose fills throw
  with two workers); what a throwing worker had pinned stays pinned (line 1181;
  excepted in PinsFollowUse).
* `coder_util.hpp:336`: the AVX-512 flush takes its threshold once and lets every
  candidate below it replace the front, whatever the front is by then, where line 317
  speaks of a guarded replace: a nearer candidate can be pushed out, and the shortlist
  depends on the order of the leaves (the instance `Flushed`; MatchesSearch excepts it by
  `Exact`).  The heap then has entries that the pool rejected, against the containment the
  header of the pool claims (excepted in PoolContainsHeap).
* `ivf_tree_build.cpp:1724`: target lists are cleared only when a chunk is no larger than
  an earlier one (LeavesExact fails for shards `<<2, 5>>` and chunks of 4).
* `ivf_tree_build.cpp:805`: tasks of two chunks with one shard number add to one
  accumulator (the instances of LloydExact with several readers).
* `ivf_tree_plane.cpp:661`: between freeing the old bitmap region and naming the new one
  the committed bitmap is free-list links (`at = "relocated"`).
* `cluster_stage.cpp:216`: when the disk is full, finish throws before it unlinks the
  stage file, which then outlives the build (`stage.open` in failed builds).
* `sextant_c.cpp:787`: a push refused within a batch keeps the rows before it and the
  vector of the refused one.
* `cardinality.cpp:400`: merging a shard that has bins into an empty table drops its mass.
* `block_cache.cpp:155`: a shard holds more blocks than its capacity after the climber raised
  the window limit (`block_cache.hpp:184` evicts until `map_.size() <= capacity_`, on a resize
  only); with several shards the adaptation loop can spin while another
  shard's access keeps the limit up (OpsFinish fails without `~config.elsewhere`); line
  392: a climb in the middle of a resize leaves a window limit above the capacity.
* `block_cache.cpp:110`: the climb of another shard after the store at line 108 makes
  `new_capacity - max_window_` wrap, and nothing bounds the protected list from then on (the
  states with `wrapped`).
* `batch_scheduler.cpp:10-25`: predicates_equal does not compare `str_value`, so a query gets
  the cached answer of one that filters by another string, where lines 8-9 and 60-63 put the
  full predicate list in the key (the modes `Strings`; excepted in OwnResults).
* a shrink considers neither internal nodes below the root nor payload extents, keeps
  a free-list head it may have cut off, and truncates before it commits;
* a repeated id in a delete is counted twice (`DuplicateIds = TRUE`);
* the superblock that makes a commit current is written before the only sync;
* a run fill that finds its keys taken is in no map slot, and an invalidation misses it;
* a batch with a filter over a plane, with the cache on, keeps its summary pins (excepted in
  PinsFollowUse);
* an empty per-query predicate list takes the base predicates, where
  `ivf_tree_index.hpp:268` says unfiltered;
* with a shortlist gap, a cached answer is cut to k, where
  `batch_scheduler.hpp:101` promises the shortlist (excepted in OwnResults); a window may
  exceed its cap while the gate is shut; two concurrent stops join the same thread;
* `filter_scan.cpp:249`: a fractional comparand is rounded for rows and not for summaries, so
  a summary rules out rows the scan accepts (`x = 1.5` and a leaf of 2s), where
  `filter_scan.hpp:316` says never; the scan itself answers `x > 1.5` without the 2s
  (`AsGiven` excepts both);
* brute force returns replicas of one row; the adaptive cut never cuts for k = 1;
* `next()` of a push source without a reset skips the spilled rows.

## 6. What is not modelled, and the plan

Not modelled, by decision: floating-point arithmetic (quantizers, the coders' distances and encodings, SIMD, half
floats, the clustering itself), which TLC cannot compute; raw I/O, byte layouts, logging,
metrics, argument parsing, which have no state a property of the system is about; the
vendored libraries under `subprojects/`.  These are the larger part of the repository's
lines.  `PROJECT.json` gives the reason for each component.

Left for later, in this order:

1. **Search**: feedback probing, sweep_Ws and read-ahead.
2. **Plane on an existing tree**, and its candidates against the leaves after mutations.
3. **Partitioning**: the bucket queue against its reference, the manifest's
   write-and-rename.

Theorems to come: `offer(Smallest(S, w), w, e) = Smallest(S \cup {e}, w)` of ScanHeap,
`SweptOnce` and `PoolContainsHeap` for any number of workers, and the page accounting of
payload extents.
