------------------------------ MODULE CachePool ------------------------------
(***************************************************************************)
(* CachePool and Cache (libnkvdb/cache.cpp) when their sizes change: by    *)
(* Storage::setPoolSize and setCacheSize, and by getCache() itself while   *)
(* the dynamic size is enabled.  One thread appends through m_cache, as    *)
(* m_write_mutex makes it, and the writer empties the caches queued;       *)
(* Storage.tla has the finer interleavings, with a pool of fixed size.     *)
(*                                                                         *)
(* st = [heap, list, pool_size, cache_size, dynamic_size, recalc,          *)
(* resized]: the pool is the list of positions in heap; a cache that left  *)
(* the pool lives on in heap while m_cache or the queue refers to it       *)
(* (shared_ptr).  recalc stops at 0, where the code counts on: only its    *)
(* being positive matters.  resized is history: cache_size has changed.    *)
(***************************************************************************)
EXTENDS Naturals, Sequences, FiniteSets, SequencesExt, FiniteSetsExt

CONSTANTS
    Meas,           \* the measurements, each appended at most once
    Pool, Size,     \* defaultcachePoolSize, defaultcacheSize
    PoolSizes,      \* arguments of setPoolSize()
    CacheSizes,     \* arguments of setCacheSize()
    MaxHeap,        \* bound: caches ever made
    EmptyMeas, NoMeas

ASSUME PoolAssumption ==
    /\ Pool \in Nat \ {0} /\ Size \in Nat \ {0}
    /\ PoolSizes \subseteq Nat \ {0} /\ CacheSizes \subseteq Nat \ {0}
    /\ EmptyMeas \notin Meas /\ NoMeas \notin Meas

VARIABLES
    st,         \* the pool
    m_cache,    \* the position of the cache that append() fills, 0: none
    m_data,     \* the writer's queue
    todo,       \* the measurement append() is working on
    accepted,   \* measurements append() has stored
    written     \* what the writer has put on pages

vars == <<st, m_cache, m_data, todo, accepted, written>>

Caches == [m_max_size : Nat, m_size : Nat, m_index : Nat, m_sync : BOOLEAN, m_meases : Seq(Meas \cup {EmptyMeas})]

Pools == [heap : Seq(Caches), list : Seq(Nat), pool_size : Nat, cache_size : Nat, dynamic_size : BOOLEAN,
          recalc : Nat, resized : BOOLEAN]

TypeOK ==
    /\ st \in Pools
    /\ m_cache \in Nat
    /\ m_data \in Seq(Nat)
    /\ todo \in Meas \cup {NoMeas}
    /\ accepted \subseteq Meas
    /\ written \in Seq(Meas \cup {EmptyMeas})

-----------------------------------------------------------------------------
(* Cache *)

Zeros(n) == [i \in 1..n |-> EmptyMeas]

NewCache(n) == [m_max_size |-> n, m_size |-> 0, m_index |-> 0, m_sync |-> FALSE, m_meases |-> Zeros(n)]

isFull(c) == c.m_size = c.m_max_size

\* Mutant: the writer releases the cache and does not empty it.
clear_full(c) == [c EXCEPT !.m_sync = FALSE]

\* Mutant: m_sync stays.
clear_busy(c) == [c EXCEPT !.m_size = 0, !.m_index = 0]

\* clear() and sync_complete().
clear(c) == [c EXCEPT !.m_size = 0, !.m_index = 0, !.m_sync = FALSE]

\* setSize: the array is new, m_size is that of a full cache, m_index stays.
setSize(c, n) ==
    IF n = c.m_max_size THEN c
    ELSE [c EXCEPT !.m_max_size = n, !.m_size = n, !.m_meases = Zeros(n)]

-----------------------------------------------------------------------------
(* CachePool *)

\* Mutant: the caches that wait for the writer are emptied with the others.
init_pool_clears(s) ==
    [s EXCEPT !.heap = [i \in 1 .. Len(@) |-> NewCache(s.cache_size)]
                       \o [i \in 1 .. s.pool_size |-> NewCache(s.cache_size)],
              !.list = [i \in 1 .. s.pool_size |-> Len(s.heap) + i]]

\* init_pool: new caches for all places.
init_pool(s) ==
    [s EXCEPT !.heap = @ \o [i \in 1 .. s.pool_size |-> NewCache(s.cache_size)],
              !.list = [i \in 1 .. s.pool_size |-> Len(s.heap) + i]]

setPoolSize(s, n) == init_pool([s EXCEPT !.pool_size = n])

setCacheSize(s, n) ==
    [s EXCEPT !.cache_size = n,
              !.resized = @ \/ n # s.cache_size,
              !.heap = [i \in DOMAIN @ |->
                            IF i \in Range(s.list) /\ ~s.heap[i].m_sync
                            THEN setSize(s.heap[i], n) ELSE s.heap[i]]]

\* The last parts of getCache() with the dynamic size: shrink, then grow.
Shrunk(s, free) ==
    IF free >= s.pool_size \div 2 /\ s.pool_size > Pool
    THEN LET n == IF s.pool_size \div 2 < Pool THEN Pool ELSE s.pool_size \div 2
         IN  [setPoolSize(s, n) EXCEPT !.recalc = n \div 2]
    ELSE s

Grown(s, free) ==
    IF 100 * free <= 85 * s.pool_size
    THEN [setPoolSize(s, 2 * s.pool_size) EXCEPT !.recalc = s.pool_size]
    ELSE s

\* The places of the list with a free cache.
Free(s) == {i \in DOMAIN s.list : ~s.heap[s.list[i]].m_sync}

Counted(s) == [s EXCEPT !.recalc = IF @ > 0 THEN @ - 1 ELSE 0]

\* getCache() when there is a free cache: the last one of the list.
Found(s) ==
    LET free == Cardinality(Free(s))
    IN  [cache |-> s.list[Max(Free(s))],
         st |-> IF s.dynamic_size /\ s.recalc = 0 THEN Grown(Shrunk(s, free), free) ELSE s]

\* A pool of new caches, resized: half as many again, half as large again.
Larger(s) ==
    LET pool == setPoolSize(s, (3 * s.pool_size) \div 2)
    IN  [setCacheSize(pool, (3 * s.cache_size) \div 2) EXCEPT !.recalc = pool.pool_size]

\* getCache: 0 if there is no free cache.  A dynamic pool is made larger then
\* and asked again; all of its caches are new, so it is asked once.
getCache(s) ==
    IF Free(s) # {} THEN Found(Counted(s))
    ELSE IF s.dynamic_size THEN Found(Counted(Larger(Counted(s))))
    ELSE [cache |-> 0, st |-> Counted(s)]

-----------------------------------------------------------------------------
(* Storage with its pool *)

\* Storage(): the first getCache() of a new pool.
Init ==
    /\ LET g == getCache(init_pool([heap |-> <<>>, list |-> <<>>, pool_size |-> Pool,
                                    cache_size |-> Size, dynamic_size |-> FALSE,
                                    recalc |-> Pool \div 3, resized |-> FALSE]))
       IN  st = g.st /\ m_cache = g.cache
    /\ m_data = <<>>
    /\ todo = NoMeas
    /\ accepted = {}
    /\ written = <<>>

\* Storage::append(m) begins.
Append1(m) ==
    /\ todo = NoMeas
    /\ m \notin accepted
    /\ todo' = m
    /\ UNCHANGED <<st, m_cache, m_data, accepted, written>>

\* Cache::append finds room.
Store ==
    /\ todo # NoMeas /\ m_cache # 0
    /\ LET c == st.heap[m_cache]
       IN  /\ ~isFull(c)
           /\ st' = [st EXCEPT !.heap[m_cache] =
                        [c EXCEPT !.m_meases[c.m_index + 1] = todo, !.m_index = @ + 1, !.m_size = @ + 1]]
    /\ accepted' = accepted \cup {todo}
    /\ todo' = NoMeas
    /\ UNCHANGED <<m_cache, m_data, written>>

\* writeCache(): the full cache goes to the writer,
Hand ==
    /\ todo # NoMeas /\ m_cache # 0
    /\ isFull(st.heap[m_cache])
    /\ st' = [st EXCEPT !.heap[m_cache].m_sync = TRUE]
    /\ m_data' = Append(m_data, m_cache)
    /\ m_cache' = 0
    /\ UNCHANGED <<todo, accepted, written>>

\* and another one is taken; the loop ends when getCache() finds one.
Take ==
    /\ m_cache = 0
    /\ LET g == getCache(st)
       IN  g.cache # 0 /\ Len(g.st.heap) <= MaxHeap /\ st' = g.st /\ m_cache' = g.cache
    /\ UNCHANGED <<m_data, todo, accepted, written>>

\* AsyncWriter::call: m_size elements of the array go to the pages, then
\* clear() and sync_complete().
Write ==
    /\ m_data # <<>>
    /\ LET c == st.heap[Head(m_data)]
       IN  written' = written \o SubSeq(c.m_meases, 1, c.m_size)
    /\ st' = [st EXCEPT !.heap[Head(m_data)] = clear(@)]
    /\ m_data' = Tail(m_data)
    /\ UNCHANGED <<m_cache, todo, accepted>>

\* Storage::setPoolSize, between two appends.
SetPoolSize(n) ==
    /\ todo = NoMeas
    /\ Len(st.heap) + n <= MaxHeap
    /\ st' = setPoolSize(st, n)
    /\ UNCHANGED <<m_cache, m_data, todo, accepted, written>>

\* Storage::setCacheSize, between two appends.
SetCacheSize(n) ==
    /\ todo = NoMeas
    /\ st' = setCacheSize(st, n)
    /\ UNCHANGED <<m_cache, m_data, todo, accepted, written>>

\* Storage::enableCacheDynamicSize.
EnableDynamicSize(flg) ==
    /\ todo = NoMeas
    /\ st' = [st EXCEPT !.dynamic_size = flg]
    /\ UNCHANGED <<m_cache, m_data, todo, accepted, written>>

Next ==
    \/ \E m \in Meas : Append1(m)
    \/ Store
    \/ Hand
    \/ Take
    \/ Write
    \/ \E n \in PoolSizes : SetPoolSize(n)
    \/ \E n \in CacheSizes : SetCacheSize(n)
    \/ \E flg \in BOOLEAN : EnableDynamicSize(flg)

Spec == Init /\ [][Next]_vars

-----------------------------------------------------------------------------
(* Properties *)

\* What the writer will find in a cache.
Held(c) == Range(SubSeq(st.heap[c].m_meases, 1, st.heap[c].m_size))

\* Where a stored measurement is: on a page, in m_cache or in a cache that
\* waits for the writer.
Stored == Range(written) \cup UNION {Held(c) : c \in Range(m_data) \cup ({m_cache} \ {0})}

\* Nothing but setCacheSize() loses a measurement that append() has stored: no
\* new pool, no growing or shrinking beside caches that are still queued.
NothingLost ==
    [][\/ \E n \in CacheSizes : SetCacheSize(n)
       \/ accepted' \cap Stored' = (accepted \cap Stored) \cup (accepted' \ accepted)]_vars

\* The writer writes what was appended, and writes it once; once a cache has
\* been resized, which makes it look full, also empty measurements.
NothingInvented ==
    /\ Range(written) \subseteq accepted \cup (IF st.resized THEN {EmptyMeas} ELSE {})
    /\ \A i, j \in DOMAIN written : written[i] = written[j] => i = j \/ written[i] = EmptyMeas

\* A cache is with the writer, or may be given out: m_cache never waits in
\* the queue, no cache is queued twice, and a queued one is never free.
OneOwner ==
    /\ m_cache \notin Range(m_data)
    /\ \A i, j \in DOMAIN m_data : m_data[i] = m_data[j] => i = j
    /\ \A c \in DOMAIN st.heap : st.heap[c].m_sync <=> c \in Range(m_data)
==============================================================================
