# nkvdb: specifications, model checking and proofs

nkvdb is a time-series database in a C++ library. A program appends
measurements (id, time, source, flag, value) to a `Storage`. They are collected
in a cache; full caches go through a queue to a background thread that writes
them to memory-mapped page files; queries read the pages. This directory holds
TLA+ models of that machinery, the TLC configurations that check them on small
instances, and TLAPS proofs of the main results for every instance.

## 1. The system

| Component | State | Operations | Talks to |
|---|---|---|---|
| `AsyncWorker<T>` (`include/asyncworker.h`) | queue `m_data`, mutexes `m_add_lock` and `m_thread_lock`, condition variable `m_have_data`, flags `m_stop_flag`, `m_thread_work`, one thread | `start`, `add`, `pause_work`, `continue_work`, `isBusy`, `stop`, `kill`, destructor | its owner's threads; calls `call()` |
| `Storage` (`libnkvdb/storage.cpp`) | `m_write_mutex`, current cache `m_cache`, `m_closed`, `m_past_time` | `Create`, `Open`, `Close`, `append` x3, `readInterval`, `readInTimePoint`, `minTime`, `maxTime`, `curValues`, `setCacheSize`, `setPoolSize` | everything below |
| `AsyncWriter` (`storage.cpp`) | the worker's state | `call()`: sort a cache, write it to pages, clear and release it | caches, page manager |
| `Cache`, `CachePool`, `CurValuesCache` (`libnkvdb/cache.cpp`) | array, `m_size`, `m_index`, `m_sync`; the pool's vector and sizes; last value per id | `append` x2, `clear`, `sync_begin`, `sync_complete`, `setSize`, `getCache`, `setPoolSize`, `setCacheSize` | `Storage` fills, `AsyncWriter` empties |
| `Page` (`libnkvdb/page.cpp`, `include/page.h`) | mapped file: header (counters, min and max, filters, `isOpen`, `ReadersCount`), records, values; write window (`.pagew`); index (`.pagei`) | `Create`, `Open`, `close`, `append` x2, `isFull`, `readInterval`, `readInTimePoint`, `backwardRead`, `readComplete` | page manager, readers |
| `PageManager` (`libnkvdb/page_manager.cpp`) | one global instance: path, current page, `default_page_size` | `start`, `stop`, `createNewPage`, `open`, `closeCurrentPage`, `getOldesPage`, `pagesByTime` | `Storage`, `AsyncWriter` |
| `Index` (`libnkvdb/index.cpp`) | index records in a `BTree` in a mapped file, and those not flushed yet | `writeIndexRec`, `flush`, `findInIndex` | `Page`, `BTree` |
| `PageReader`, `StorageReader`, `TimePointReader` (`readers.cpp`, `storage.cpp`, `page.cpp`) | positions, page names, query | `readNext`, `isEnd`, `readAll` | pages opened read-only |
| `BTree` (`include/btree.hpp`) | an array of nodes that name each other by position, the root, the next free position | `insert`, `find`, `find_node` | `Index` keeps its records in a `BTree<Time, IndexRecord, 10>` |
| `find_begin` (`include/search.h`) | none: an algorithm | interpolation search | nothing: only the tests call it |

### What is hard about it

* The worker's queue is pushed under one mutex and its emptiness is tested
  under another, so a notification can fall between the test and the wait.
* `isBusy()` says nothing about the job inside `call()`; a reader relies on the
  combination of an empty queue and the mutex `pause_work()` takes.
* A cache passes from `append()` to the queue, to `call()` and back to the pool
  with nothing but the flag `m_sync` and the order of two statements at the end
  of `call()` to say whose it is.
* An array may be spread over several caches and a cache over several pages.
* `curValues()` and `Close()` use the cache without `m_write_mutex`.
* Page positions are unsigned, records and values grow towards each other, and
  the test for "full" counts neither exactly.
* Pages are shared by the writer and any number of readers through flags in the
  mapped header, and a crash leaves those flags as they are.
* A query goes through four layers that each leave something out: headers
  select pages, the tree selects leaves, index records select groups, conditions
  select records. Every layer must keep what the next one needs, and the values
  an id had before an interval come from elsewhere, the write window.
* There is one `PageManager` per process, and constructors that throw after it
  was started, or before.
* The pool and its caches are replaced while measurements are in them.
* Times are unsigned and the clock goes on while an array is appended.

`PROJECT.json` lists these hazards at their lines, with the properties that
cover them.

### What makes each part correct

* worker: every job once, in order, to its end before `stop()` returns; `stop()`
  returns;
* storage: every measurement that `append()` counted as written and not ignored
  is in exactly one cache or record; queries and `Close()` find all of them;
* caches: one owner at a time; a cache from the pool is empty;
* page layout: records and values never overlap; a page made for n records
  takes n;
* page files: the latest value of an id survives every roll, `Close()` and
  `Open()`; a database that was closed can be opened; after a crash nothing
  incomplete is taken for complete;
* queries: an interval gets all records in it that satisfy the conditions, once,
  and the values that were current when it began; a time point gets the latest
  value of each id before it; nothing that was not appended;
* index tree: the chain of leaves holds all values, sorted, whatever was split;
* current values: the latest one of each id, or none;
* life cycle: a storage writes through its own page manager; whatever throws,
  records on pages stay;
* past time: what is recent is stored, what is stored was recent.

## 2. Modules

| Module | Role |
|---|---|
| `AsyncWorker` | the worker as an open component: any number of clients call its methods while its thread runs |
| `JobQueue` | abstract specification: what a worker promises its owner, without threads and locks |
| `AsyncWorkerJobs` | `AsyncWorker` with history variables, its properties, the refinement mapping to `JobQueue`, fairness |
| `AsyncWorkerProofs` | invariant and refinement, proved |
| `Storage` | `Storage`, `Cache`, `CachePool` and `AsyncWriter::call` composed with an instance of `AsyncWorker`; properties and inductive invariant |
| `StorageProofs` | the invariant and its four consequences, proved |
| `PageLayout` | the byte layout of a page in unsigned arithmetic |
| `MCPageLayout` | the sizes of the 64-bit build |
| `PageFiles` | the files of a database: marks, counters, records and `.pagew` windows, used by writer and readers over Close, Open and crashes |
| `PageFilesProofs` | windows and marks are right for any number of pages, ids, readers and crashes, proved |
| `BTree` | insertion, splitting and search of the index tree, as operators |
| `BTreeInserts` | every sequence of inserts into a `BTree`; its properties |
| `BTreeProofs` | shape, chain of leaves and search of the tree, for every order and workload, proved |
| `MCBTree` | the workloads for TLC: orders, keys and array sizes |
| `PageIndex` | one page's records, header, filters and index, and its readers, as operators on a page value; uses `BTree` |
| `Queries` | the pages a storage has written, its queries on them, reference definitions of what they should return; uses `PageIndex` |
| `MCQueries` | the measurements for TLC |
| `QueriesProofs` | headers are true, nothing is lost between cache and pages, queries over all times and the first and last time are exact, proved |
| `CurValues` | current values over appends, flushes, restarts and loads; extends `Queries` |
| `MCCurValues` | the measurements for TLC |
| `CachePool` | caches and their pool when sizes change, with the appending thread and the writer |
| `CachePoolProofs` | a cache has one owner, and no change of the pool loses or doubles a measurement, proved |
| `Lifecycle` | `Storage` objects and the one `PageManager`: `Create`, `Open`, destruction, exceptions, the end of the process |
| `LifecycleProofs` | a storage owns the manager and keeps its records, proved |
| `PastTime` | the past-time filter in unsigned arithmetic, beside a clock |
| `Search` | `find_begin`, one turn of its loop a step |
| `NumericProofs` | the three arithmetic components `PageLayout`, `PastTime` and `Search`: records and values never overlap and pages hold the number of records they were made for; what is stored is what was recent and no cache is overrun; the search stays in the array and finds what is there; proved |

### AsyncWorker

One step is the code between two accesses to shared state that another thread
can tell apart. `wpc` is the thread's place in `_thread_func`: `test` (about to
evaluate `m_data.empty()`), `wait` (saw an empty queue, has not called
`wait()` yet), `blocked` (asleep), `woken` (notified or woken spuriously, has to
take `m_thread_lock` again), `claim` (saw data), `call`, `exit`, `exited`.
`m_thread_lock` names the holder. `cpc[t]` is a client's place in `stop()` or
the destructor: `stopping` (the loop on `isBusy()`), `killing` (the loop that
notifies), `joining`, `stopped`. `m_add_lock` is held only around one push or
one front-and-pop and needs no variable: each of these is one step. The unlocked
reads of `m_data` in `isBusy()` and in the thread's test are data races in the
sense of C++; the model gives them the value before or after a concurrent push
or pop, which is what reading the queue's two pointers gives in practice.
`m_thread_work` has no initialiser, so `Init` allows both values.

Clients obey what every owner of a C++ object must: `start()` once, and nobody
uses the worker while another thread stops or destroys it.

### Storage

`upc[t]` is a thread's place in a method; a thread waiting for `m_write_mutex`
has not begun. `writeCache()` is a subroutine with its return place in `ret[t]`.
A measurement is a model value that is appended at most once, so the contents of
a cache are a set, and `written[m]` counts its records on all pages, which is
enough to see one lost or written twice. Measurements of `Old` may be rejected
by `checkPastTime` or not (the clock decides), all others are accepted.
`wstep` and `rest` are the progress of `AsyncWriter::call`: it writes what fits
on the page, makes a new page while something is left, clears the cache, and
releases it. Of a page the model keeps how many records still fit; the sort, the
header and the write window do not change which measurements are stored.

`getCache()` scans the pool without a lock while the writer releases caches; any
unmarked cache may be the result, and when there is none the thread stays in the
loop of `writeCache()`.

`curValues()` and `Close()` do not lock `m_write_mutex`, so the model lets them
begin only while no other method runs (`Alone`) and lets no method begin while
they run (`NobodyUnlocked`): that is what a caller has to ensure. `Close()` is
followed into the steps of `stop()`, `kill()` and `join()` of the worker.

### PageLayout

`size`, `write_pos` and `write_value_pos` are the header's fields. `UDiff`
subtracts modulo `Word` as `size_t` does. `isFull` compares the gap between the
records, counted with `sizeof(Meas)`, and the values with `sizeof(Meas)`; a
record really takes `sizeof(InternalMeas)`.

### PageFiles

`isOpen`, `ReadersCount` and `maxTime` are header fields and, like the records
and the `.pagew` files, survive the process; the writer's and the readers' own
windows do not. A window is the time of the latest value of each id. `wstep` is
the progress of `AsyncWriter::call`: `append` (records and window are written,
the header's times not yet), `appended` (`updateMinMax` done), `create` (the full
page is closed, the next one not made), `created` (the new page has inherited
the window). `Crash` can happen between any two of these. `close()` and the
rewriting of a `.pagew` file are single steps: a file torn in the middle of a
write is not modelled. `getOldesPage()` compares times and starts over at a page
without any, so beside such a page its result depends on the order in which the
directory is listed: `OldesPages` is the set of possible results.

Measurements arrive in the order of their times, as from a sensor. Two history
variables record what has happened to the directory: `readers` says whether
nobody has read, or writing and reading took turns (a query has flushed what was
appended before it, and its readers are gone before the next `append()`), or a
reader was open beside a write; `crashes` counts deaths of the process. The
windows and marks are claimed to be right while `Trusted`: without readers, over
any crashes, or with readers in turns and no crash. After `Open()` the page manager's `default_page_size` is 0 and a full page has no
defined successor; the model ends there (`sized`).

### BTree, BTreeInserts

A tree is a value: a sequence of nodes, as in the array `cache`, and the
position of the root. `split` is one call of `split_node`: it gives the upper
half to a new node and enters that node in the chain and in the parent, or in a
new root. `iner_find` has the code's three cases and, when none applies, no
result (the code leaves `out_ptr` as it was: null in `insert`, the root in
`find_node`). The order of a tree, a template parameter in the code, is a field
of the value. In `BTreeInserts` an insert is the step that stores the value
(`Insert`) and one step for each node that is then split (`Split`, while
`status` is "split"; `splitting` is the argument of the call); no other call
comes between them. So every tree between two splits is a state that can be
asked about, and no operator is recursive. `status` also tells how `insert` can end
the program: "assert", the assertion, or one of the two exceptions of
`make_node()`, which come after the value itself is stored. "threw" is the one for
the new node, before `split_node` has changed anything (`btree.hpp:207`); "torn"
is the one for the new root, when the old root has already been halved
(`btree.hpp:260`): `halve` is that tree, whose root keeps its lower half and whose
upper half has no parent. A behaviour begins with the choice of a workload:
an order, the keys and how many inserts may repeat one, and the size of the
array.

### PageIndex, Queries

A page is a record: its measurements, the tree of index records, `minTime` and
`maxTime`, the write window as the vector it is, and the three filters as sets
of bits. `Page_append` is the array `append` that `AsyncWriter::call` uses;
`IndexRecords` says which index records it writes, including what the code puts
in their fields (times for ids in full groups, ids in both filters). The groups
of 100 are `IndexGroup`, which the run sets to 3 so that a batch spans groups.
The exception of a full index array has no case in `insert` of this module: the
indexes of the runs are one leaf or few, far from full; `BTreeInserts` has it.
The page size given to `Create` is chosen in `Init`, and a behaviour keeps to the
measurements of one of the sets in `Series`. `WriteTurn` is one turn of the loop
of `AsyncWriter::call`, and `WriteAll` the loop; this and the other loops over
pages, leaves and splits are recursive functions, one value for each turn.
`AsyncWriter::call` sorts by time only, so `call` allows every order of
equal times; `pagesByTime` likewise is a set, since neither `std::sort` nor the
listing of a directory orders pages that end at one time. A query is a pure
operator (`readInterval`, `readInTimePoint`, `minTime`, `maxTime`) on the pages
of one state, because queries run with the writer paused; the properties ask
every query of every state. The reference definitions `InInterval` and
`LatestBefore` look at all measurements, without pages.

### CurValues

`Queries` with the cache `append()` fills and `m_cur_values`. Appends of arrays
note each value, single appends do not; `Flush` stands for everything that sends
the cache to the writer; `Reopen` is `Close()` and `Open()`, after which there is
no size for a new page (`sized`).

### CachePool

The pool is a list of positions in a heap of caches, since a cache that left the
pool lives on while `m_cache` or the queue refers to it. The appending thread
(`Append1`, `Store`, `Hand`, `Take`) and the writer (`Write`) interleave;
`setPoolSize`, `setCacheSize` and `enableCacheDynamicSize` come between two
appends; with the dynamic size `getCache()` resizes the pool itself. It calls
itself after it has made the pool larger; all caches of the list are new then, so
the second call finds one, and `getCache` writes it out instead of recursing.
`resized` is history: `cache_size` has changed. `storage_safe` has the finer interleavings,
with a fixed pool.

### Lifecycle

`m_instance` is the global pointer. `Throw` is an exception in `Create` or
`Open`: the `Storage` made so far is destroyed, and its `Close()` works on
whatever page manager there is; `clashed` is history: that has happened beside a
live storage. A record is its time, so that order and completeness can be
stated: the records of a directory are exactly those appended to it since
`Create`, and they ascend by page and on each page (`InOrder`). `Dies` ends
the process between any two steps.

### PastTime

One call of `append` with an array or a list, element by element, while `Tick`
advances the clock. `left` is what `Cache::append` will still look at before the
rest goes to the next cache.

### Search

`low`, `high` and the result of `find_begin`; positions count from 1.

## 3. Runs

| Run | Configuration | Shows |
|---|---|---|
| `async_safe` | 2 clients, 2 jobs, 3 `add()`s, fairness | `Fifo`, `PausedAndEmptyIsDone`, the inductive `JInv`; that the worker implements `JobQueue`; `KillEnds`: the repeated `notify_one()` ends a running thread |
| `async_lost` | 1 client, 1 `add()`, fairness | violated: an `add()` between test and wait is never noticed, `stop()` loops |
| `storage_safe` | 2 threads, 2 caches of 2, pages of 1, 3 measurements (one may be rejected), arrays up to 3, fairness | `ExactlyOnce`, `ReadSeesAll`, `ClosedIsComplete`, `CacheOwnership`, the inductive `Inv`; `CallReturns`, `ReaderProceeds` |
| `page_uniform` | pages of `calc_size(1)` to `calc_size(20)`, 8-byte values | `NoOverlap`, `HoldsN` |
| `files_crash` | 3 pages of 2 records, 2 ids, 4 times, 2 readers, 2 crashes | `WindowIsLatest`, `UnmarkedHasLatest`, `RefusedOrComplete`, `ClosedCanBeOpened` |
| `btree_inserts` | order 2 with 12 distinct keys in every order; order 2 with up to 8 distinct keys and arrays of 2, 5 and 6 nodes; order 2 with 5 keys of which 4 inserts repeat one; order 3 with 2 keys and up to 14 repetitions | `ChainComplete`, `FindsInserted`, `Balanced`, up to and after the insert that fails |
| `queries_pages` | pages of 2, 3 and 5, three series of 4 and 5 measurements in batches of any size and order, groups of 3 | `TimesExact`, `IntervalComplete`, `WholeExact`, `IntervalExact`, `PointExact` |
| `curvalues` | pages of 2 and 3, three series of 5 and 6 measurements, arrays and single values, restarts, loads of any ids | `CurStaysLatest`, `LoadFinds` |
| `pool_sizes` | 2 caches of 1, `setPoolSize(2)`, `setCacheSize(2)`, dynamic size on and off, 4 measurements, 8 caches ever made | `NothingLost`, `NothingInvented`, `OneOwner` |
| `life_any` | 2 storages, 2 directories, pages of 2, 4 records | `OwnManager`, `NothingLost`, `RecordsStay` |
| `past_kept` | times to 3, limits 1 to 3, caches of 2, calls with up to 3, fairness | `RecentKept`, `Fits`, `Returns` |
| `search_found` | all sorted arrays of up to 5 of 7 values with gaps, fairness | `InBounds`, `Found`, `Ends` |

Bounds. Two clients are enough for every race of the worker: one that adds or
pauses while the other stops. Two caches of two, with arrays of three, make an
array span two caches, exhaust the pool while the writer works, and reuse a
cache that was just released; pages of one make `call()` roll a page in the
middle of every full cache. The page run uses the real sizes (header 224, `Meas`
56, `InternalMeas` 48); the modulus only has to exceed the page sizes. Pages of
two records and four times fill two pages, so that a window is inherited and an id
can be absent from the whole page that inherits it (the model starts a page only
while a record is left for it, so the third page stays unused); two ids are
enough for one to be newer than the other; two crashes let a database die, be opened
and die again. Twelve keys in a tree of order 2 make three levels, so that an
interior node splits below the root and the root splits twice (the code's order
is 10); the small arrays are full when a root that is a leaf has been halved
(2 nodes), when an interior root is to be halved (5), and when it has been (6), so
that both exceptions of `make_node()` occur with distinct keys; the workloads with equal keys end in the assertion or in an
exception. Five measurements over pages of two make three pages, with an
id absent from one of them, caches that span pages and groups, and intervals that
begin between two records. The series of `queries_pages` differ in what may
coincide: two measurements of one time that may fall on two pages, whole pages of
one time, two values of one id and time. A single series is not enough: with the
first one alone, conditions that the queries need (below) would go unnoticed. The
conditions of the properties are those section 5 shows to be needed.
`IntervalExact` and `PointExact`: records in order (`InOrder`), one value of an id
at a time (`OneValue`), one index record per page, no two pages that end together
(`DifferentEnds`), no interval that begins at the end of a page (`NotAPageEnd`);
`PointExact` says nothing of ids with a value at the time point itself, where two
documents differ. `RecentKept` says nothing of measurements whose age is the limit
itself. Filters are asked by `WholeExact`, the other properties of queries are
about unfiltered ones.
`IntervalComplete`: an index of one leaf (`OneLeaf`), and an interval that begins
before the last time and, if it begins at the end of a page, `DifferentEnds` and
`OneValue`. `TimesExact`: for `minTime()` only, `InOrder` and `DifferentEnds`.
`WholeExact` has no condition on how records came. The series of `curvalues` have
ids that leave a gap in the write window and measurements of one time; its
properties are about the ids that are `Loadable`: no two pages end together and,
for id 0, which empty entries of a window are taken for, the windows have no
gap. A pool of two that grows to eight
caches has been replaced, has grown and has shrunk. Three clock values beside
limits of one to three make every measurement old, recent and future; the modulus
only has to exceed their sum, which `PastTimeAssumption` states and 2^64
satisfies. The systems end when the storage is closed, the worker joined, the
page full or a crashed database refused, hence `CHECK_DEADLOCK FALSE`; that
nothing hangs earlier is what the liveness properties are for.

Fairness. The operating system runs a thread that can run: weak fairness for
the worker's thread and for a thread inside `stop()`. `pause_work()` competes
with the writer for a mutex that the writer releases again and again; the model
assumes that such a mutex is eventually granted (strong fairness of
`PauseWriter` only). `past_kept` assumes that a thread inside `append()` goes on
(weak fairness of its steps; here `writeCache()` always finds a cache, whose
liveness is the writer's), `search_found` that a loop goes on. Nothing is
assumed of users' calls or of spurious wakeups, which is why the lost
notification stays lost.

Every property of a passing run has a mutant: a plausible slip in the code
(a dropped wait, the two last statements of `call()` swapped, a missing
`sync_begin()`) that breaks it. The mutated operators stand beside the originals
and are used by nothing else.

## 4. Proofs

All are checked by TLAPS for arbitrary constants that satisfy the named
assumptions (distinct names for the worker, for "no thread", "no item", "no page",
"no measurement"; positive sizes; a finite set of measurements; page sizes below
the word size). An inductive invariant that is not itself a property of a run was
checked by TLC on the configuration of its component before it was proved, where
TLC can evaluate it (it cannot look for the levels, spans and chain that the
invariant of the tree says exist).

* `AsyncWorkerProofs`. `JInv` is inductive: `Fifo` says that finished jobs, the
  job in `call()` and the queue are together the history of `add()`;
  `LockOwner` ties the mutex to the thread's place, `ThreadOrder` says that a
  queue seen non-empty is still so when popped (only the thread pops),
  `CloseOrder` that one client closes and the stop flag is set after the queue
  was seen empty. `PausedIsDone` follows since the mutex excludes `call()`;
  `Refinement` shows each step to be a step of `JobQueue` or to change nothing
  the owner sees; `JobsInOrder` is `Fifo` itself.
* `StorageProofs`. `Inv` adds to the four properties: which method each thread
  is in and that only `getCache()` leaves the storage without a cache
  (`UserOrder`), that what is still to be stored was not accepted before
  (`TodoIsFresh`), how the writer's place, its mutex and its remaining records
  agree (`WriterOrder`), and how far the pipeline is flushed at each place of a
  reader or of `Close()` (`FlushOrder`). `ExactlyOnce` alone is not inductive: a
  cache handed out twice, or cleared after its release, would break it one step
  later. One lemma per action shows that it keeps `Inv`; parts an action leaves
  alone follow from frame lemmas. The theorems are `StorageInvariant`,
  `NothingLostOrDoubled`, `CachesAreOwned`, `ReadersSeeAll` and
  `ClosedStorageIsComplete`.
* `NumericProofs`, page layout. If all values have V bytes and the page size
  leaves, after the header, a remainder below `sizeof(Meas)` modulo
  `sizeof(Meas)` + V (`Suits`; true of every `calc_size(n)` with V = 8), then the
  gap `isFull()` looks at never becomes negative (`RoomForSome`), so
  `UniformPagesAreSafe`. With `Used`, which counts the bytes each record took, the
  page of `calc_size(n)` bytes is full after exactly n records (`PagesHoldN`).
* `NumericProofs`, past time. The unsigned difference of two times is their
  difference, or too large for any limit (`UnsignedDifference`, from the
  assumption that a limit and the range of times together are below the modulus);
  hence the check is exactly "no further back than the limit and not ahead"
  (`CheckMeansRecent`), of which `RecentKept` is a consequence. The
  invariant `RecentInv` adds to `RecentKept` the types, `Fits`, and that the call
  began no later than now: since the clock only advances, what was recent when
  looked at was recent when the call began (`PastTimeSafe`). `AppendFits`: what is
  in the cache and what is still to be looked at fit in it.
* `NumericProofs`, search. A quotient `x * n \div d` with 0 < x < d lies below n
  (`Quotient`), so `mid` is between `low` and `high` and below `high`, and the
  interval never becomes empty (`SearchInBounds`); in a sorted array a value that
  is present stays inside the interval (`SInv`), hence `SearchFinds`.
* `BTreeProofs`, from `WorkloadsAssumption` alone (an order of at least two).
  `SplitFacts` and `StoreFacts` say once what a split and a store do to each node;
  everything else argues from these. `Steady` is the shape: sizes of the arrays
  (`Sized`: only the node that is about to be split may be full), links of parents
  and childs (`Linked`), and a level for each node, one more than its childs'
  (`Levels`). The levels also show that the descents of `iner_find` and of
  `Height`, which are recursive functions over nodes, end and mean what they say.
  `Filled` says that every value given is held at one place of one leaf (`Stored`),
  leaves are sorted, the chain by `next` is some sequence of all leaves (`Chain`),
  and, while no key came twice, every node has an interval of keys that its values
  keep to, its childs' intervals divide it at its values (`Spans`), and the
  intervals ascend along the chain (`InOrder`). `ChainComplete` alone is not
  inductive: that a new key goes to the leaf between its neighbours of the chain is
  known only from the intervals on the way down from the root. Every step keeps
  `Steady` and `Filled` but the one that ends in "torn" (`SteadyNext`). After that
  one the tree is a sound and filled tree, the one the split would have made, cut
  below its new root (`Cut`, `HalveCuts`); so `TreeInv` is `Steady` and `Filled`, or
  `Torn`. What the properties say of a cut tree follows from the whole one: sizes
  and links (`CutShaped`), the leaves and their chain, which a cut at the root does
  not touch (`CutLeaves`), and what a descent finds below the half that is left
  (`CutBelow`), which for a key of the other half is nothing (`FindsNothing`).
  Theorems: `BalancedAlways`, `ChainCompleteAlways`, `FindsInsertedAlways` and
  `AssertHolds`, that with distinct keys the assertion in `insert()` never fails.
* `QueriesProofs`, from `QueriesAssumption` (finite series, times of at least 1,
  pages for at least one record). A recursive function on an interval of numbers
  satisfies its equation (`ConcatEquation`, `WriteAllEquation`,
  `ReadIntervalEquation`: functions that do so up to n exist for every n), so the
  loops over batches and pages can be reasoned about turn by turn. `HeaderTrue`
  says what a header says of its records: the two times are attained and bound all
  others, the three filters have the bits of all ids, flags and sources. `Written`
  adds, for pages and what is still to be written, that no record is in two places
  and which page may be empty. A turn of the loop keeps it (`TurnKeeps`) and, if
  it starts with an empty page, leaves less than before; only the first turn may
  find a full page, so `Len(b) + 1` turns write everything. `QueriesInv` is
  `Written` with nothing left: `HeadersAlwaysTrue`. `NothingIsLost` is the action
  property that the records on pages grow by exactly the cache. `WholeQueryIsExact`:
  when all times are inside, `SelectPage` takes each page that the filters allow,
  once and without the one before (`SelectsOnce`); a filter allows every page with
  a record that is wanted (`FiltersKeep`); a page all of which is inside is read
  without its index (`PageReadWhole`). `TimesAreExact`: pages by ascending
  `maxTime` are all the pages (an injection of a finite set into itself), the last
  has the greatest time, and when records came in order and no two pages end
  together the oldest page comes first (`OldestFirst`).

* `PageFilesProofs`. The properties speak of `Latest`, the greatest time of an id
  on the first pages; the invariant `FilesInv` says the same without choosing a
  greatest element: a window is `Written` (it holds times that are on those
  pages) and is above all of them (`IsLatest`). `WindowsKnow` claims this of the
  writer's window, and of each `.pagew` file that the writer does not have and
  that is unmarked or that no crash has touched. It is not inductive alone:
  `flushWriteWindow()` writes nothing for an empty window, so an old file must be
  known to hold nothing false (`NoneInvented`); `Open()` takes the page
  `getOldesPage()` finds, which before a crash must be the last one
  (`HeadersKnow`, with `PageOrder` for full pages and ascending times); a mark
  must belong to somebody who will remove it (`MarkedByUser`); a reader that
  closes writes its window back, which harms nobody while it is the file's
  (`ReaderPlace`). Theorems: `FilesInvariant`, `WriterKnowsLatest`,
  `UnmarkedCanBeTrusted`, `CrashIsNoticed`, `ClosedIsUnmarked`.
* `LifecycleProofs`. `LifeInv` adds to `OwnManager` and `NothingLost` what makes
  the order of records survive an `Open()`: no page is too small for a record and
  only a single page may be empty (`PagesSound`), so `getOldesPage()` finds the
  newest page, and the manager writes to that one (`WritesLast`); what waits is
  newer than what is on pages (`PendingIsNewer`), so that appending it keeps the
  order and losing it with the process takes nothing else; `accepted` has no
  time ahead of the clock (`AcceptedTimes`). Theorems: `LifeInvariant`,
  `StorageOwnsManager`, `AcceptedIsKept`, and the action property
  `OnlyCreateRemoves`, which needs only the types and that the manager's page
  exists (`ManagerPlace`), so it holds after clashes too.
* `CachePoolProofs`. `getCache()`, `setPoolSize()` and the shrinking and growing
  only ever extend the heap by caches without measurements (`Extended`, which
  composes: `ExtendedTwice`); what they give out is free (`GetCacheFacts`; that
  the free places have a largest one is the well-foundedness of `<`). `PoolInv`
  ties a cache's counters together (`SoundCache`: the next place is `m_size`,
  except in a cache that `setSize()` made look full), says that a cache nobody
  holds is blank (`FreeAreBlank`) and that what is held was appended, is held in
  one place, and is not written yet (`HeldOnce`). Theorems: `PoolInvariant`,
  `CacheHasOneOwner`, `WrittenOnce`, and the action property `PoolLosesNothing`:
  for each action a lemma says where every measurement is after it.

Only model-checked: the liveness properties (the proof system has no rules for
fairness); `IntervalComplete`, `IntervalExact` and `PointExact`, whose answers come
from the index and the write windows: what the library's folds (`FoldLeft` over
index records, ranges and window entries, `SelectSeq`) compute for every input
takes an induction over data with an operator as its parameter, which the
installed provers cannot instantiate; and `CurStaysLatest` and `LoadFinds`, which
rest on the same windows.

## 5. Findings

`async_lost`: `stop()` need not return, against the comment at
`include/asyncworker.h:44`. `flush_and_stop()` waits in the same way, so a query
can hang too.

Further points where the code does less than a comment, a document or a caller
expects. The models contain all of these behaviours unless noted, and the
properties are stated with the conditions that leave them out:

* A `stop()` before the thread function has begun joins a thread nobody wakes
  (`include/asyncworker.h:37`); `KillEnds` begins where the flag was seen.
* `isFull()` is right for values of eight bytes only (`libnkvdb/page.cpp:608`);
  with others its unsigned difference wraps and reports room that is not there.
* A reader that ends clears `isOpen` of the page being written, and writes its
  older window over the `.pagew` file (`libnkvdb/page.cpp:63`): hence `Trusted`.
* With many equal keys `insert()` finds no node and asserts
  (`include/btree.hpp:194`); `make_node()` may use one node past the end of the
  array before it throws (`include/btree.hpp:101`).
* When the array is full at the second `make_node()` of `split_node`, for a new
  root, the old root has been halved already (`include/btree.hpp:260`): its upper
  half has no parent and `find()` does not get to the keys in it, though the chain
  of leaves still has them (`Balanced`, `FindsInserted` and `ChainComplete` say
  this of the status "torn").
* doc/overview.md:88 promises for a time point the values "with time less than
  tpoint", doc/read_model.md:31 those "which time less or equal of **from**".
  `backwardRead` leaves out times that are not less (`libnkvdb/page.cpp:562`), as
  the first of the two says; `PointExact` is silent about ids with a value at the time
  point itself.
* An interval that begins at the last time stored gets nothing from that page
  (`libnkvdb/storage.cpp:255`); with several leaves the one of the upper bound is
  not read (`libnkvdb/index.cpp:132`, hence `OneLeaf`); index records skip groups by ids of their
  first and last record, and by flag filters that were filled with ids
  (`libnkvdb/index.cpp:147`).
* A time point misses values that lie before the group it falls in, and the test
  of the ids is the wrong way round (`libnkvdb/page.cpp:549`); empty entries of a
  write window are returned as measurements of id 0 (`libnkvdb/readers.cpp:42`).
* `minTime()` is wrong when two pages end at one time, or records came out of
  order (`libnkvdb/storage.cpp:129`); intervals may then repeat values. An
  interval that begins at the end of a page reads that page twice if it has no
  other time (`libnkvdb/storage.cpp:264`), and not at all, but for its window, if
  the next page begins at that time too (`libnkvdb/storage.cpp:255`).
* Of two values of one id and time a window keeps the first
  (`libnkvdb/page.cpp:261`); where a window stands for a page the other one is
  missing, hence `OneValue`.
* `append` of one value does not note a current value, `loadCurValues` of some
  ids may leave older values for the others, and a gap in the ids overwrites the
  value of id 0 (`libnkvdb/storage.cpp:397`); with no page for the ids it takes
  `front()` of an empty vector (`libnkvdb/storage.cpp:394`, not modelled).
* `setCacheSize()` drops what is in the cache in use and lets caches look full
  (`libnkvdb/cache.cpp:106`).
* A `Create` or `Open` that throws stops the page manager of the storage that is
  already there (`libnkvdb/page_manager.cpp:21`); opening a missing directory
  uses a null pointer; after `Open()` `default_page_size` is 0
  (`libnkvdb/page_manager.cpp:53`).
* `checkPastTime` stores what is exactly as old as the limit (`delta <= past_time`,
  `libnkvdb/meas.cpp:27`) and rejects every time ahead of the clock, whose unsigned
  difference is huge; its comments (`include/meas.h:52`, `libnkvdb/meas.cpp:20`) say
  "|current time - t| < past_time", which differs in both. `RecentKept` demands what
  both agree on. `find_begin` of an absent value may return a place
  whose element is less than it (`include/search.h:11`).

## 6. Not modelled, and plan

Not modelled for good: file system wrappers, logging, exceptions' texts,
printing, tests, benchmarks and examples (no state of their own, or clients);
the bytes of a value and of the mapped files; a write to a file torn in the
middle; `append` of one value to a `Page` and `Cache::readInterval`, which the
storage does not use; the product in `find_begin` overflowing its type; what
undefined operations give (`front()` of an empty vector in `loadCurValues`, a
null reader of an empty page, `curValues()` beside an `append()`).

Left for later, in this order:

1. A reader beside the writer: queries that were selected while the writer was
   paused and are read after it went on (`readers.cpp:41` compares `maxTime`
   again), as a composition of `Queries` and `PageFiles`.
2. `TimeSeries`, the storage as a bag of measurements with atomic append and
   query, to be implemented by `Storage`.
3. Proofs of the index: `findInIndex` and the write windows with recursive
   functions in place of the library's folds, as `Concat` and `WriteAll` are, for
   `IntervalComplete`.
4. `Lifecycle` with `createNewPage()` and the first record as two steps, for the
   page `Open()` continues with beside an empty one.
