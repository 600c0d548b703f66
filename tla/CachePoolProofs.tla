--------------------------- MODULE CachePoolProofs ---------------------------
(***************************************************************************)
(* Proofs about CachePool: whatever the sizes are changed to, by the user  *)
(* or by getCache() itself, a cache has one owner, and a measurement that  *)
(* append() has stored is in one place until it is written.                *)
(***************************************************************************)
EXTENDS CachePool, SequenceTheorems, WellFoundedInduction, TLAPS

-----------------------------------------------------------------------------
(* The inductive invariant *)

\* The counters of a cache: it looks full after setSize(), and is filled in
\* order otherwise.
SoundCache(c) ==
    /\ Len(c.m_meases) = c.m_max_size
    /\ c.m_size <= c.m_max_size
    /\ c.m_size < c.m_max_size => c.m_index = c.m_size

\* Nothing is to be found in a cache, but what setSize() has put there.
Blank(c, resized) ==
    /\ \A k \in 1..c.m_size : c.m_meases[k] = EmptyMeas
    /\ c.m_size # 0 => resized

\* The caches have the size of the pool's caches until that is changed, and
\* the pool knows caches that exist.
SoundHeap(s) ==
    \A c \in DOMAIN s.heap : SoundCache(s.heap[c]) /\ (~s.resized => s.heap[c].m_max_size = s.cache_size)

SoundPool(s) ==
    /\ SoundHeap(s)
    /\ \A i \in DOMAIN s.list : s.list[i] \in DOMAIN s.heap
    /\ s.pool_size # 0

\* The caches that append() or the writer hold.
Owned == Range(m_data) \cup ({m_cache} \ {0})

OwnedExist == Owned \subseteq DOMAIN st.heap

FreeAreBlank == \A c \in DOMAIN st.heap \ Owned : Blank(st.heap[c], st.resized)

\* The places of a cache that the writer will read, and what is there.
Filled(c) == 1..st.heap[c].m_size
At(c, k) == st.heap[c].m_meases[k]

\* What is held was appended, is in one place, and is not written yet.
HeldOnce ==
    \A c \in Owned : \A k \in Filled(c) :
        /\ At(c, k) \in accepted \/ (st.resized /\ At(c, k) = EmptyMeas)
        /\ At(c, k) # EmptyMeas =>
             /\ \A d \in Owned : \A j \in Filled(d) : At(d, j) = At(c, k) => d = c /\ j = k
             /\ \A i \in DOMAIN written : written[i] # At(c, k)

TodoIsNew == todo \notin accepted

PoolInv ==
    /\ TypeOK /\ SoundPool(st) /\ OwnedExist /\ TodoIsNew
    /\ OneOwner /\ FreeAreBlank /\ HeldOnce /\ NothingInvented

-----------------------------------------------------------------------------
(* Caches and pools *)

\* A nonempty set of numbers up to n has a largest one.
LEMMA LargestExists ==
    ASSUME NEW n \in Nat, NEW S \in SUBSET (0..n), S # {}
    PROVE  \E i \in S : \A j \in S : j <= i
  <1> DEFINE T == {n - i : i \in S}
  <1>1. T \subseteq Nat /\ T # {}
    <2>1. \A i \in S : n - i \in Nat
      OBVIOUS
    <2> QED BY <2>1
  <1>2. PICK x \in T : \A y \in T : ~(<<y, x>> \in OpToRel(<, Nat))
    BY <1>1, NatLessThanWellFounded, WFMin
  <1>3. \A y \in T : ~(y < x)
    BY <1>1, <1>2 DEF OpToRel
  <1>4. PICK i \in S : x = n - i
    OBVIOUS
  <1>5. \A j \in S : j <= i
    BY <1>3, <1>4
  <1> QED BY <1>5

\* getCache() returns a free cache of the list.
LEMMA LastIsFree ==
    ASSUME NEW s \in Pools, Free(s) # {}
    PROVE  Max(Free(s)) \in DOMAIN s.list /\ ~s.heap[s.list[Max(Free(s))]].m_sync
  <1>1. s.list \in Seq(Nat)
    BY DEF Pools
  <1>2. DOMAIN s.list = 1..Len(s.list) /\ Len(s.list) \in Nat
    BY <1>1
  <1>3. Free(s) \in SUBSET (0..Len(s.list))
    BY <1>2 DEF Free
  <1>4. \E i \in Free(s) : \A j \in Free(s) : i >= j
    <2>1. \E i \in Free(s) : \A j \in Free(s) : j <= i
      BY <1>2, <1>3, LargestExists
    <2> QED BY <1>2, <1>3, <2>1
  <1>5. Max(Free(s)) \in Free(s)
    BY <1>4 DEF Max
  <1> QED BY <1>5 DEF Free

\* A new cache.
LEMMA NewCacheFacts ==
    ASSUME NEW n \in Nat
    PROVE  /\ NewCache(n) \in Caches /\ SoundCache(NewCache(n)) /\ ~NewCache(n).m_sync
           /\ NewCache(n).m_max_size = n
           /\ \A r : Blank(NewCache(n), r)
  <1>1. Zeros(n) \in Seq(Meas \cup {EmptyMeas}) /\ Len(Zeros(n)) = n
    BY DEF Zeros
  <1>2. NewCache(n) \in Caches
    BY <1>1 DEF NewCache, Caches
  <1> QED BY <1>1, <1>2 DEF NewCache, SoundCache, Blank

\* t has the caches of s, and beside them new ones without measurements.
Extended(s, t) ==
    /\ t \in Pools /\ SoundPool(t)
    /\ DOMAIN s.heap \subseteq DOMAIN t.heap
    /\ \A c \in DOMAIN s.heap : t.heap[c] = s.heap[c]
    /\ \A c \in DOMAIN t.heap \ DOMAIN s.heap : ~t.heap[c].m_sync /\ Blank(t.heap[c], t.resized)
    /\ s.resized => t.resized

\* A pool in which only the period or the kind of the size is another.
LEMMA SameHeap ==
    ASSUME NEW s \in Pools, SoundPool(s), NEW t \in Pools,
           t.heap = s.heap, t.list = s.list, t.pool_size = s.pool_size, t.cache_size = s.cache_size,
           t.resized = s.resized
    PROVE  Extended(s, t)
  BY DEF Extended, SoundPool, SoundHeap

\* Extending twice.
LEMMA ExtendedTwice ==
    ASSUME NEW s, NEW t, NEW u, Extended(s, t), Extended(t, u)
    PROVE  Extended(s, u)
  <1>1. \A c \in DOMAIN t.heap : Blank(t.heap[c], t.resized) => Blank(u.heap[c], u.resized)
    BY DEF Extended, Blank
  <1> QED BY <1>1 DEF Extended

\* m_recalc_period.
LEMMA PeriodFacts ==
    ASSUME NEW s \in Pools, NEW r \in Nat
    PROVE  LET t == [s EXCEPT !.recalc = r]
           IN  /\ t \in Pools
               /\ t.heap = s.heap /\ t.list = s.list /\ t.pool_size = s.pool_size
               /\ t.cache_size = s.cache_size /\ t.resized = s.resized /\ t.dynamic_size = s.dynamic_size
  BY DEF Pools

\* init_pool: the caches that were there are left alone.
LEMMA InitPoolFacts ==
    ASSUME NEW s \in Pools, SoundHeap(s), s.pool_size # 0
    PROVE  LET t == init_pool(s)
           IN  /\ Extended(s, t)
               /\ t.pool_size = s.pool_size /\ t.cache_size = s.cache_size /\ t.resized = s.resized
               /\ t.dynamic_size = s.dynamic_size
               /\ \A i \in DOMAIN t.list : t.list[i] \notin DOMAIN s.heap
               /\ Free(t) # {}
               /\ \A c \in DOMAIN t.heap \ DOMAIN s.heap : t.heap[c] = NewCache(s.cache_size)
  <1> DEFINE n == s.pool_size
  <1> DEFINE h == Len(s.heap)
  <1> DEFINE new == [i \in 1..n |-> NewCache(s.cache_size)]
  <1> DEFINE heap == s.heap \o new
  <1> DEFINE list == [i \in 1..n |-> h + i]
  <1> DEFINE t == init_pool(s)
  <1>1. s.heap \in Seq(Caches) /\ s.cache_size \in Nat /\ n \in Nat /\ n # 0
    BY DEF Pools
  <1>2. NewCache(s.cache_size) \in Caches
    BY <1>1, NewCacheFacts
  <1>3. new \in Seq(Caches) /\ Len(new) = n
    BY <1>1, <1>2
  <1>4. heap \in Seq(Caches) /\ Len(heap) = h + n /\ h \in Nat
    BY <1>1, <1>3
  <1>5. DOMAIN heap = 1..(h + n) /\ DOMAIN s.heap = 1..h
    BY <1>1, <1>3, <1>4
  <1>6. \A c \in 1..h : heap[c] = s.heap[c]
    BY <1>1, <1>3
  <1>7. \A c \in (h + 1)..(h + n) : heap[c] = NewCache(s.cache_size)
    <2> SUFFICES ASSUME NEW c \in (h + 1)..(h + n)
                 PROVE  heap[c] = NewCache(s.cache_size)
      OBVIOUS
    <2>1. c - h \in 1..n /\ new[c - h] = NewCache(s.cache_size)
      BY <1>1, <1>4
    <2> HIDE DEF new
    <2>2. heap[c] = new[c - h]
      BY <1>1, <1>3, <1>4, <2>1
    <2> QED BY <2>1, <2>2
  <1>8. list \in Seq(Nat) /\ DOMAIN list = 1..n /\ \A i \in 1..n : list[i] = h + i
    BY <1>1, <1>4
  <1>9. t = [s EXCEPT !.heap = heap, !.list = list]
    BY DEF init_pool
  <1> HIDE DEF heap, list, new
  <1>10. /\ t \in Pools /\ t.heap = heap /\ t.list = list
         /\ t.pool_size = n /\ t.cache_size = s.cache_size /\ t.resized = s.resized
         /\ t.dynamic_size = s.dynamic_size
    BY <1>4, <1>8, <1>9 DEF Pools
  <1> HIDE DEF t
  <1>11. \A c \in DOMAIN t.heap \ DOMAIN s.heap : t.heap[c] = NewCache(s.cache_size)
    BY <1>1, <1>4, <1>5, <1>7, <1>10
  <1>12. DOMAIN s.heap \subseteq DOMAIN t.heap /\ \A c \in DOMAIN s.heap : t.heap[c] = s.heap[c]
    BY <1>1, <1>4, <1>5, <1>6, <1>10
  <1>13. \A i \in DOMAIN t.list : t.list[i] \in DOMAIN t.heap \ DOMAIN s.heap
    BY <1>1, <1>4, <1>5, <1>8, <1>10
  <1>14. SoundPool(t)
    <2>1. \A c \in DOMAIN t.heap : SoundCache(t.heap[c]) /\ (~t.resized => t.heap[c].m_max_size = t.cache_size)
      BY <1>1, <1>10, <1>11, <1>12, NewCacheFacts DEF SoundHeap
    <2> QED BY <1>1, <1>10, <1>13, <2>1 DEF SoundPool, SoundHeap
  <1>15. \A c \in DOMAIN t.heap \ DOMAIN s.heap : ~t.heap[c].m_sync /\ Blank(t.heap[c], t.resized)
    BY <1>1, <1>11, NewCacheFacts
  <1>16. Extended(s, t)
    BY <1>10, <1>12, <1>14, <1>15 DEF Extended
  <1>17. 1 \in Free(t)
    <2>1. 1 \in DOMAIN t.list
      BY <1>1, <1>8, <1>10
    <2> QED BY <1>13, <1>15, <2>1 DEF Free
  <1> QED BY <1>10, <1>11, <1>13, <1>16, <1>17 DEF t

\* What a cache is.
LEMMA CacheFacts ==
    ASSUME NEW s \in Pools, NEW c \in DOMAIN s.heap
    PROVE  /\ s.heap[c] \in Caches
           /\ s.heap[c].m_max_size \in Nat /\ s.heap[c].m_size \in Nat /\ s.heap[c].m_index \in Nat
           /\ s.heap[c].m_sync \in BOOLEAN /\ s.heap[c].m_meases \in Seq(Meas \cup {EmptyMeas})
  <1>1. s.heap \in Seq(Caches)
    BY DEF Pools
  <1>2. s.heap[c] \in Caches
    BY <1>1
  <1> QED BY <1>2 DEF Caches

\* setPoolSize: a new list of new caches.
LEMMA SetPoolSizeFacts ==
    ASSUME NEW s \in Pools, SoundHeap(s), NEW n \in Nat, n # 0
    PROVE  LET t == setPoolSize(s, n)
           IN  /\ Extended(s, t)
               /\ t.pool_size = n /\ t.cache_size = s.cache_size /\ t.resized = s.resized
               /\ t.dynamic_size = s.dynamic_size
               /\ \A i \in DOMAIN t.list : t.list[i] \notin DOMAIN s.heap
               /\ Free(t) # {}
               /\ \A c \in DOMAIN t.heap \ DOMAIN s.heap : t.heap[c] = NewCache(s.cache_size)
  <1> DEFINE r == [s EXCEPT !.pool_size = n]
  <1>1. /\ r \in Pools /\ r.heap = s.heap /\ r.list = s.list /\ r.pool_size = n
        /\ r.cache_size = s.cache_size /\ r.resized = s.resized /\ r.dynamic_size = s.dynamic_size
    BY DEF Pools
  <1>2. setPoolSize(s, n) = init_pool(r)
    BY DEF setPoolSize
  <1> HIDE DEF r
  <1>3. SoundHeap(r)
    BY <1>1 DEF SoundHeap
  <1> DEFINE t == init_pool(r)
  <1>4. /\ Extended(r, t)
        /\ t.pool_size = n /\ t.cache_size = s.cache_size /\ t.resized = s.resized
        /\ t.dynamic_size = s.dynamic_size
        /\ \A i \in DOMAIN t.list : t.list[i] \notin DOMAIN s.heap
        /\ Free(t) # {}
        /\ \A c \in DOMAIN t.heap \ DOMAIN s.heap : t.heap[c] = NewCache(s.cache_size)
    BY <1>1, <1>3, InitPoolFacts
  <1> HIDE DEF t
  <1>5. Extended(s, t)
    BY <1>1, <1>4 DEF Extended
  <1> QED BY <1>2, <1>4, <1>5 DEF t

\* setSize: nothing, or a cache that looks full of empty measurements.
LEMMA SetSizeFacts ==
    ASSUME NEW c \in Caches, SoundCache(c), NEW n \in Nat
    PROVE  LET d == setSize(c, n)
           IN  /\ d \in Caches /\ SoundCache(d) /\ d.m_sync = c.m_sync /\ d.m_max_size = n
               /\ \/ n = c.m_max_size /\ d = c
                  \/ n # c.m_max_size /\ \A k \in 1..d.m_size : d.m_meases[k] = EmptyMeas
  <1>1. CASE n = c.m_max_size
    BY <1>1 DEF setSize
  <1>2. CASE n # c.m_max_size
    <2>1. Zeros(n) \in Seq(Meas \cup {EmptyMeas}) /\ Len(Zeros(n)) = n /\ \A k \in 1..n : Zeros(n)[k] = EmptyMeas
      BY DEF Zeros
    <2> DEFINE d == setSize(c, n)
    <2>2. d = [c EXCEPT !.m_max_size = n, !.m_size = n, !.m_meases = Zeros(n)]
      BY <1>2 DEF setSize
    <2> HIDE DEF d
    <2>3. d \in Caches /\ d.m_max_size = n /\ d.m_size = n /\ d.m_meases = Zeros(n) /\ d.m_sync = c.m_sync
      BY <2>1, <2>2 DEF Caches
    <2>4. SoundCache(d)
      BY <2>1, <2>3 DEF SoundCache
    <2> QED BY <1>2, <2>1, <2>3, <2>4 DEF d
  <1> QED BY <1>1, <1>2

\* setCacheSize: setSize() of the free caches of the list.
LEMMA SetCacheSizeFacts ==
    ASSUME NEW s \in Pools, SoundPool(s), NEW n \in Nat
    PROVE  LET t == setCacheSize(s, n)
           IN  /\ t \in Pools /\ SoundPool(t)
               /\ DOMAIN t.heap = DOMAIN s.heap /\ t.list = s.list
               /\ t.pool_size = s.pool_size /\ t.dynamic_size = s.dynamic_size /\ t.recalc = s.recalc
               /\ t.resized = (s.resized \/ n # s.cache_size)
               /\ \A c \in DOMAIN s.heap :
                    t.heap[c] = IF c \in Range(s.list) /\ ~s.heap[c].m_sync THEN setSize(s.heap[c], n) ELSE s.heap[c]
               /\ \A c \in DOMAIN s.heap : t.heap[c].m_sync = s.heap[c].m_sync
               /\ \A c \in DOMAIN s.heap : \/ t.heap[c] = s.heap[c]
                                           \/ t.resized /\ \A k \in 1..t.heap[c].m_size : t.heap[c].m_meases[k] = EmptyMeas
  <1> DEFINE heap == [c \in DOMAIN s.heap |->
                        IF c \in Range(s.list) /\ ~s.heap[c].m_sync THEN setSize(s.heap[c], n) ELSE s.heap[c]]
  <1> DEFINE t == setCacheSize(s, n)
  <1>1. s.heap \in Seq(Caches) /\ DOMAIN s.heap = 1..Len(s.heap) /\ Len(s.heap) \in Nat /\ s.resized \in BOOLEAN
    <2>1. s.heap \in Seq(Caches) /\ s.resized \in BOOLEAN
      BY DEF Pools
    <2> QED BY <2>1
  <1>2. \A c \in DOMAIN s.heap : s.heap[c] \in Caches /\ SoundCache(s.heap[c]) /\ s.heap[c].m_max_size \in Nat
    BY CacheFacts DEF SoundPool, SoundHeap
  <1>3. \A c \in DOMAIN s.heap : heap[c] = s.heap[c] \/ heap[c] = setSize(s.heap[c], n)
    OBVIOUS
  <1>4. \A c \in DOMAIN s.heap : heap[c] = IF c \in Range(s.list) /\ ~s.heap[c].m_sync THEN setSize(s.heap[c], n) ELSE s.heap[c]
    OBVIOUS
  <1>5. DOMAIN heap = DOMAIN s.heap /\ heap = [c \in DOMAIN s.heap |-> heap[c]]
    OBVIOUS
  <1>6. t = [s EXCEPT !.cache_size = n, !.resized = s.resized \/ n # s.cache_size, !.heap = heap]
    BY DEF setCacheSize
  <1> HIDE DEF heap
  <1>7. \A c \in DOMAIN s.heap :
          /\ heap[c] \in Caches /\ SoundCache(heap[c]) /\ heap[c].m_sync = s.heap[c].m_sync
          /\ \/ heap[c] = s.heap[c]
             \/ n # s.heap[c].m_max_size /\ \A k \in 1..heap[c].m_size : heap[c].m_meases[k] = EmptyMeas
    BY <1>2, <1>3, SetSizeFacts
  <1>8. heap \in [1..Len(s.heap) -> Caches]
    BY <1>1, <1>5, <1>7
  <1>9. heap \in Seq(Caches)
    BY <1>1, <1>8
  <1>10. /\ t \in Pools /\ t.heap = heap /\ t.list = s.list /\ t.cache_size = n
         /\ t.pool_size = s.pool_size /\ t.dynamic_size = s.dynamic_size /\ t.recalc = s.recalc
         /\ t.resized = (s.resized \/ n # s.cache_size)
    BY <1>6, <1>9 DEF Pools
  <1> HIDE DEF t
  <1>11. ASSUME NEW c \in DOMAIN s.heap, ~t.resized
         PROVE  heap[c] = s.heap[c] /\ s.heap[c].m_max_size = n
    BY <1>7, <1>10, <1>11 DEF SoundPool, SoundHeap
  <1>12. SoundPool(t)
    <2>1. SoundHeap(t)
      BY <1>5, <1>7, <1>10, <1>11 DEF SoundHeap
    <2> QED BY <1>5, <1>10, <2>1 DEF SoundPool
  <1>13. \A c \in DOMAIN s.heap : \/ heap[c] = s.heap[c]
                                  \/ t.resized /\ \A k \in 1..heap[c].m_size : heap[c].m_meases[k] = EmptyMeas
    BY <1>7, <1>11
  <1> QED BY <1>4, <1>5, <1>7, <1>10, <1>12, <1>13 DEF t

\* The dynamic size: what getCache() does to the pool.
LEMMA ShrunkFacts ==
    ASSUME NEW s \in Pools, SoundPool(s), NEW free
    PROVE  Extended(s, Shrunk(s, free))
  <1>1. Extended(s, s)
    BY SameHeap
  <1> DEFINE n == IF s.pool_size \div 2 < Pool THEN Pool ELSE s.pool_size \div 2
  <1>2. n \in Nat /\ n # 0 /\ n \div 2 \in Nat
    <2>1. s.pool_size \in Nat /\ Pool \in Nat /\ Pool # 0
      BY PoolAssumption DEF Pools
    <2>2. n \in Nat /\ n # 0
      BY <2>1
    <2> HIDE DEF n
    <2> QED BY <2>2
  <1> DEFINE t == setPoolSize(s, n)
  <1> HIDE DEF n
  <1>3. Extended(s, t)
    BY <1>2, SetPoolSizeFacts DEF SoundPool
  <1>4. t \in Pools /\ SoundPool(t)
    BY <1>3 DEF Extended
  <1> HIDE DEF t
  <1>5. Extended(t, [t EXCEPT !.recalc = n \div 2])
    BY <1>2, <1>4, PeriodFacts, SameHeap
  <1>6. Extended(s, [t EXCEPT !.recalc = n \div 2])
    BY <1>3, <1>5, ExtendedTwice
  <1> QED BY <1>1, <1>6 DEF Shrunk, t, n

\* Growing likewise.
LEMMA GrownFacts ==
    ASSUME NEW s \in Pools, SoundPool(s), NEW free
    PROVE  Extended(s, Grown(s, free))
  <1>1. Extended(s, s)
    BY SameHeap
  <1>2. s.pool_size \in Nat /\ 2 * s.pool_size \in Nat /\ 2 * s.pool_size # 0
    <2>1. s.pool_size \in Nat /\ s.pool_size # 0
      BY DEF Pools, SoundPool
    <2> QED BY <2>1
  <1> DEFINE t == setPoolSize(s, 2 * s.pool_size)
  <1>3. Extended(s, t)
    BY <1>2, SetPoolSizeFacts DEF SoundPool
  <1>4. t \in Pools /\ SoundPool(t)
    BY <1>3 DEF Extended
  <1> HIDE DEF t
  <1>5. Extended(t, [t EXCEPT !.recalc = s.pool_size])
    BY <1>2, <1>4, PeriodFacts, SameHeap
  <1>6. Extended(s, [t EXCEPT !.recalc = s.pool_size])
    BY <1>3, <1>5, ExtendedTwice
  <1> QED BY <1>1, <1>6 DEF Grown, t

\* What getCache() gives out is free, also if the pool is replaced after.
LEMMA FoundFacts ==
    ASSUME NEW s \in Pools, SoundPool(s), Free(s) # {}
    PROVE  /\ Extended(s, Found(s).st)
           /\ Found(s).cache \in DOMAIN Found(s).st.heap
           /\ ~Found(s).st.heap[Found(s).cache].m_sync
  <1> DEFINE free == Cardinality(Free(s))
  <1>1. Found(s).cache = s.list[Max(Free(s))]
        /\ Found(s).st = IF s.dynamic_size /\ s.recalc = 0 THEN Grown(Shrunk(s, free), free) ELSE s
    BY DEF Found
  <1> HIDE DEF free
  <1>2. Extended(s, s)
    BY SameHeap
  <1>3. Extended(s, Shrunk(s, free))
    BY ShrunkFacts
  <1>4. Extended(Shrunk(s, free), Grown(Shrunk(s, free), free))
    BY <1>3, GrownFacts DEF Extended
  <1>5. Extended(s, Found(s).st)
    BY <1>1, <1>2, <1>3, <1>4, ExtendedTwice
  <1>6. Found(s).cache \in DOMAIN s.heap /\ ~s.heap[Found(s).cache].m_sync
    BY <1>1, LastIsFree DEF SoundPool
  <1> QED BY <1>5, <1>6 DEF Extended

\* The period is counted.
LEMMA CountedFacts ==
    ASSUME NEW s \in Pools, SoundPool(s)
    PROVE  /\ Extended(s, Counted(s)) /\ Free(Counted(s)) = Free(s)
           /\ Counted(s).dynamic_size = s.dynamic_size
  <1> DEFINE r == IF s.recalc > 0 THEN s.recalc - 1 ELSE 0
  <1>1. r \in Nat
    <2>1. s.recalc \in Nat
      BY DEF Pools
    <2> QED BY <2>1
  <1>2. Counted(s) = [s EXCEPT !.recalc = r]
    BY DEF Counted
  <1> HIDE DEF r
  <1>3. /\ Counted(s) \in Pools
        /\ Counted(s).heap = s.heap /\ Counted(s).list = s.list /\ Counted(s).pool_size = s.pool_size
        /\ Counted(s).cache_size = s.cache_size /\ Counted(s).resized = s.resized
        /\ Counted(s).dynamic_size = s.dynamic_size
    BY <1>1, <1>2, PeriodFacts
  <1> QED BY <1>3, SameHeap DEF Free

\* The larger pool of a dynamic size: only its new caches are resized.
LEMMA LargerFacts ==
    ASSUME NEW s \in Pools, SoundPool(s)
    PROVE  Extended(s, Larger(s)) /\ Free(Larger(s)) # {}
  <1> DEFINE n == (3 * s.pool_size) \div 2
  <1> DEFINE m == (3 * s.cache_size) \div 2
  <1> DEFINE p == setPoolSize(s, n)
  <1> DEFINE q == setCacheSize(p, m)
  <1>1. n \in Nat /\ n # 0 /\ m \in Nat
    <2>1. s.pool_size \in Nat /\ s.pool_size # 0 /\ s.cache_size \in Nat
      BY DEF Pools, SoundPool
    <2> QED BY <2>1
  <1>2. Larger(s) = [q EXCEPT !.recalc = p.pool_size]
    BY DEF Larger
  <1> HIDE DEF n, m
  <1>3. /\ Extended(s, p)
        /\ p.pool_size = n /\ p.cache_size = s.cache_size
        /\ \A i \in DOMAIN p.list : p.list[i] \notin DOMAIN s.heap
        /\ Free(p) # {}
    BY <1>1, SetPoolSizeFacts DEF SoundPool
  <1>4. p \in Pools /\ SoundPool(p)
    BY <1>3 DEF Extended
  <1> HIDE DEF p
  <1>5. /\ q \in Pools /\ SoundPool(q)
        /\ DOMAIN q.heap = DOMAIN p.heap /\ q.list = p.list
        /\ q.resized = (p.resized \/ m # p.cache_size)
        /\ \A c \in DOMAIN p.heap :
             q.heap[c] = IF c \in Range(p.list) /\ ~p.heap[c].m_sync THEN setSize(p.heap[c], m) ELSE p.heap[c]
        /\ \A c \in DOMAIN p.heap : q.heap[c].m_sync = p.heap[c].m_sync
        /\ \A c \in DOMAIN p.heap : \/ q.heap[c] = p.heap[c]
                                    \/ q.resized /\ \A k \in 1..q.heap[c].m_size : q.heap[c].m_meases[k] = EmptyMeas
    BY <1>1, <1>4, SetCacheSizeFacts
  <1> HIDE DEF q
  <1>6. \A c \in DOMAIN s.heap : c \in DOMAIN p.heap /\ c \notin Range(p.list)
    BY <1>3 DEF Extended, Range
  <1>7. \A c \in DOMAIN s.heap : q.heap[c] = s.heap[c]
    BY <1>3, <1>5, <1>6 DEF Extended
  <1>8. \A c \in DOMAIN q.heap \ DOMAIN s.heap : ~q.heap[c].m_sync /\ Blank(q.heap[c], q.resized)
    <2> SUFFICES ASSUME NEW c \in DOMAIN q.heap \ DOMAIN s.heap
                 PROVE  ~q.heap[c].m_sync /\ Blank(q.heap[c], q.resized)
      OBVIOUS
    <2>1. ~p.heap[c].m_sync /\ Blank(p.heap[c], p.resized) /\ q.heap[c].m_sync = p.heap[c].m_sync
      BY <1>3, <1>5 DEF Extended
    <2>2. p.resized => q.resized
      BY <1>5
    <2>3. CASE q.heap[c] = p.heap[c]
      BY <2>1, <2>2, <2>3 DEF Blank
    <2>4. CASE q.resized /\ \A k \in 1..q.heap[c].m_size : q.heap[c].m_meases[k] = EmptyMeas
      BY <2>1, <2>4 DEF Blank
    <2> QED BY <1>5, <2>3, <2>4
  <1>9. Extended(s, q)
    BY <1>3, <1>5, <1>7, <1>8 DEF Extended
  <1>10. Free(q) # {}
    BY <1>3, <1>4, <1>5 DEF Free, SoundPool
  <1>11. Extended(q, Larger(s)) /\ Larger(s).list = q.list /\ Larger(s).heap = q.heap
    <2> DEFINE t == [q EXCEPT !.recalc = p.pool_size]
    <2>1. p.pool_size \in Nat
      BY <1>1, <1>3
    <2>2. /\ t \in Pools
          /\ t.heap = q.heap /\ t.list = q.list /\ t.pool_size = q.pool_size
          /\ t.cache_size = q.cache_size /\ t.resized = q.resized
      BY <1>5, <2>1, PeriodFacts
    <2> HIDE DEF t
    <2>3. Extended(q, t)
      BY <1>5, <2>2, SameHeap
    <2> QED BY <1>2, <2>2, <2>3 DEF t
  <1>12. Free(Larger(s)) # {}
    BY <1>10, <1>11 DEF Free
  <1> QED BY <1>9, <1>11, <1>12, ExtendedTwice

\* getCache: no cache that was there is touched, and the one given out is
\* free.
LEMMA GetCacheFacts ==
    ASSUME NEW s \in Pools, SoundPool(s)
    PROVE  /\ Extended(s, getCache(s).st)
           /\ getCache(s).cache # 0 => /\ getCache(s).cache \in DOMAIN getCache(s).st.heap
                                       /\ ~getCache(s).st.heap[getCache(s).cache].m_sync
           /\ Free(s) # {} => getCache(s).cache # 0
  <1>1. Extended(s, Counted(s)) /\ Free(Counted(s)) = Free(s) /\ Counted(s) \in Pools /\ SoundPool(Counted(s))
    BY CountedFacts DEF Extended
  <1>2. CASE Free(s) # {}
    <2> DEFINE t == Counted(s)
    <2>1. getCache(s) = Found(t)
      BY <1>2 DEF getCache
    <2> HIDE DEF t
    <2>2. t \in Pools /\ SoundPool(t) /\ Free(t) # {} /\ Extended(s, t)
      BY <1>1, <1>2 DEF t
    <2>3. /\ Extended(t, Found(t).st)
          /\ Found(t).cache \in DOMAIN Found(t).st.heap
          /\ ~Found(t).st.heap[Found(t).cache].m_sync
      BY <2>2, FoundFacts
    <2>4. Found(t).st.heap \in Seq(Caches)
      BY <2>3 DEF Extended, Pools
    <2>5. Found(t).cache # 0
      BY <2>3, <2>4
    <2>6. Extended(s, Found(t).st)
      BY <2>2, <2>3, ExtendedTwice
    <2> QED BY <2>1, <2>3, <2>5, <2>6
  <1>3. CASE Free(s) = {} /\ s.dynamic_size
    <2> DEFINE l == Larger(Counted(s))
    <2> DEFINE t == Counted(l)
    <2>1. getCache(s) = Found(t)
      BY <1>3 DEF getCache
    <2>2. Extended(Counted(s), l) /\ Free(l) # {} /\ l \in Pools /\ SoundPool(l)
      BY <1>1, LargerFacts DEF Extended
    <2> HIDE DEF l
    <2>3. Extended(l, t) /\ Free(t) # {} /\ t \in Pools /\ SoundPool(t)
      BY <2>2, CountedFacts DEF Extended
    <2> HIDE DEF t
    <2>4. /\ Extended(t, Found(t).st)
          /\ Found(t).cache \in DOMAIN Found(t).st.heap
          /\ ~Found(t).st.heap[Found(t).cache].m_sync
      BY <2>3, FoundFacts
    <2>5. Extended(s, Found(t).st)
      BY <1>1, <2>2, <2>3, <2>4, ExtendedTwice
    <2> QED BY <1>3, <2>1, <2>4, <2>5
  <1>4. CASE Free(s) = {} /\ ~s.dynamic_size
    BY <1>1, <1>4 DEF getCache
  <1> QED BY <1>2, <1>3, <1>4

-----------------------------------------------------------------------------
(* The actions *)

\* The pool was extended, and append() got a cache or has the one it had: the
\* caches in use are the same but for one in which there is nothing.
LEMMA ExtendedFacts ==
    ASSUME PoolInv, Extended(st, st'), UNCHANGED m_data,
           \/ m_cache' = m_cache
           \/ m_cache = 0 /\ m_cache' \in DOMAIN st'.heap /\ ~st'.heap[m_cache'].m_sync
    PROVE  /\ Owned \subseteq Owned' /\ Owned' \subseteq DOMAIN st'.heap /\ Owned \subseteq DOMAIN st.heap
           /\ \A c \in DOMAIN st'.heap \ Owned : Blank(st'.heap[c], st'.resized)
           /\ \A c \in Owned : Filled(c)' = Filled(c) /\ \A k \in Filled(c) : At(c, k)' = At(c, k)
           /\ \A c \in Owned' \ Owned : \A k \in Filled(c)' : At(c, k)' = EmptyMeas /\ st'.resized
  <1>1. OwnedExist /\ OneOwner /\ FreeAreBlank
    BY DEF PoolInv
  <1>2. /\ st' \in Pools
        /\ DOMAIN st.heap \subseteq DOMAIN st'.heap
        /\ \A c \in DOMAIN st.heap : st'.heap[c] = st.heap[c]
        /\ \A c \in DOMAIN st'.heap \ DOMAIN st.heap : Blank(st'.heap[c], st'.resized)
        /\ st.resized => st'.resized
    BY DEF Extended
  <1>3. Owned \subseteq Owned' /\ Owned' \subseteq DOMAIN st'.heap /\ Owned \subseteq DOMAIN st.heap
    BY <1>1, <1>2 DEF Owned, OwnedExist
  <1>4. \A c \in DOMAIN st.heap : Blank(st.heap[c], st.resized) => Blank(st'.heap[c], st'.resized)
    BY <1>2 DEF Blank
  <1>5. \A c \in DOMAIN st'.heap \ Owned : Blank(st'.heap[c], st'.resized)
    BY <1>1, <1>2, <1>4 DEF FreeAreBlank
  <1>6. \A c \in Owned : Filled(c)' = Filled(c) /\ \A k \in Filled(c) : At(c, k)' = At(c, k)
    BY <1>2, <1>3 DEF Filled, At
  <1>7. \A c \in Owned' \ Owned : \A k \in Filled(c)' : At(c, k)' = EmptyMeas /\ st'.resized
    <2> SUFFICES ASSUME NEW c \in Owned' \ Owned, NEW k \in 1..st'.heap[c].m_size
                 PROVE  st'.heap[c].m_meases[k] = EmptyMeas /\ st'.resized
      BY DEF Filled, At
    <2>1. Blank(st'.heap[c], st'.resized) /\ c \in DOMAIN st'.heap
      BY <1>3, <1>5
    <2>2. st'.heap[c].m_size \in Nat
      BY <1>2, <2>1, CacheFacts
    <2> QED BY <2>1, <2>2 DEF Blank
  <1> QED BY <1>3, <1>5, <1>6, <1>7

\* Such a step keeps the invariant.
LEMMA ExtendedKeeps ==
    ASSUME PoolInv, Extended(st, st'), UNCHANGED <<m_data, todo, accepted, written>>,
           \/ m_cache' = m_cache
           \/ m_cache = 0 /\ m_cache' \in DOMAIN st'.heap /\ ~st'.heap[m_cache'].m_sync
    PROVE  PoolInv'
  <1>1. TypeOK /\ SoundPool(st) /\ OwnedExist /\ OneOwner /\ FreeAreBlank /\ HeldOnce /\ NothingInvented
    BY DEF PoolInv
  <1>2. /\ st' \in Pools /\ SoundPool(st')
        /\ \A c \in DOMAIN st.heap : st'.heap[c] = st.heap[c]
        /\ \A c \in DOMAIN st'.heap \ DOMAIN st.heap : ~st'.heap[c].m_sync
        /\ DOMAIN st.heap \subseteq DOMAIN st'.heap
        /\ st.resized => st'.resized
    BY DEF Extended
  <1>3. st'.heap \in Seq(Caches) /\ DOMAIN st'.heap \subseteq Nat
    <2>1. st'.heap \in Seq(Caches)
      BY <1>2 DEF Pools
    <2> QED BY <2>1
  <1>4. TypeOK'
    BY <1>1, <1>2, <1>3 DEF TypeOK
  <1>5. Owned \subseteq Owned' /\ Owned' \subseteq DOMAIN st'.heap /\ Owned \subseteq DOMAIN st.heap
    BY ExtendedFacts
  <1>6. OneOwner'
    <2>1. \A c \in Range(m_data) : c \in DOMAIN st.heap /\ st.heap[c].m_sync
      BY <1>1, <1>5 DEF OneOwner, Owned
    <2>2. m_cache' \notin Range(m_data)
      BY <1>1, <1>2, <2>1 DEF OneOwner
    <2>3. \A c \in DOMAIN st'.heap : st'.heap[c].m_sync <=> c \in Range(m_data)
      BY <1>1, <1>2, <2>1 DEF OneOwner
    <2> QED BY <1>1, <2>2, <2>3 DEF OneOwner
  <1>9. FreeAreBlank'
    BY <1>5, ExtendedFacts DEF FreeAreBlank
  <1>10. \A c \in Owned : Filled(c)' = Filled(c) /\ \A k \in Filled(c) : At(c, k)' = At(c, k)
    BY ExtendedFacts
  <1>11. \A c \in Owned' \ Owned : \A k \in Filled(c)' : At(c, k)' = EmptyMeas /\ st'.resized
    BY ExtendedFacts
  <1>12. HeldOnce'
    <2> SUFFICES ASSUME NEW c \in Owned', NEW k \in Filled(c)'
                 PROVE  /\ At(c, k)' \in accepted \/ (st'.resized /\ At(c, k)' = EmptyMeas)
                        /\ At(c, k)' # EmptyMeas =>
                             /\ \A d \in Owned' : \A j \in Filled(d)' : At(d, j)' = At(c, k)' => d = c /\ j = k
                             /\ \A i \in DOMAIN written : written[i] # At(c, k)'
      BY DEF HeldOnce
    <2>1. CASE c \notin Owned
      BY <1>11, <2>1
    <2>2. CASE c \in Owned
      <3>1. k \in Filled(c) /\ At(c, k)' = At(c, k)
        BY <1>10, <2>2
      <3>2. At(c, k) \in accepted \/ (st.resized /\ At(c, k) = EmptyMeas)
        BY <1>1, <2>2, <3>1 DEF HeldOnce
      <3>3. ASSUME At(c, k) # EmptyMeas, NEW d \in Owned', NEW j \in Filled(d)', At(d, j)' = At(c, k)
            PROVE  d = c /\ j = k
        <4>1. d \in Owned
          BY <1>11, <3>3
        <4>2. j \in Filled(d) /\ At(d, j)' = At(d, j)
          BY <1>10, <3>3, <4>1
        <4>3. \A e \in Owned : \A l \in Filled(e) : At(e, l) = At(c, k) => e = c /\ l = k
          BY <1>1, <2>2, <3>1, <3>3 DEF HeldOnce
        <4> QED BY <3>3, <4>1, <4>2, <4>3
      <3>4. At(c, k) # EmptyMeas => \A i \in DOMAIN written : written[i] # At(c, k)
        BY <1>1, <2>2, <3>1 DEF HeldOnce
      <3> QED BY <1>2, <3>1, <3>2, <3>3, <3>4
    <2> QED BY <2>1, <2>2
  <1>13. NothingInvented'
    BY <1>1, <1>2 DEF NothingInvented
  <1> QED BY <1>1, <1>2, <1>4, <1>5, <1>6, <1>9, <1>12, <1>13 DEF PoolInv, OwnedExist, TodoIsNew

\* The steps that extend the pool: the loop around getCache(),
\* Storage::setPoolSize and Storage::enableCacheDynamicSize.
LEMMA ExtendingSteps ==
    ASSUME PoolInv,
           \/ Take
           \/ \E n \in PoolSizes : SetPoolSize(n)
           \/ \E flg \in BOOLEAN : EnableDynamicSize(flg)
    PROVE  /\ Extended(st, st') /\ UNCHANGED <<m_data, todo, accepted, written>>
           /\ \/ m_cache' = m_cache
              \/ m_cache = 0 /\ m_cache' \in DOMAIN st'.heap /\ ~st'.heap[m_cache'].m_sync
  <1>1. st \in Pools /\ SoundPool(st) /\ SoundHeap(st)
    BY DEF PoolInv, TypeOK, SoundPool
  <1>2. CASE Take
    <2>1. st' = getCache(st).st /\ m_cache' = getCache(st).cache /\ getCache(st).cache # 0 /\ m_cache = 0
          /\ UNCHANGED <<m_data, todo, accepted, written>>
      BY <1>2 DEF Take
    <2>2. Extended(st, st') /\ m_cache' \in DOMAIN st'.heap /\ ~st'.heap[m_cache'].m_sync
      BY <1>1, <2>1, GetCacheFacts
    <2> QED BY <2>1, <2>2
  <1>3. ASSUME NEW n \in PoolSizes, SetPoolSize(n)
        PROVE  Extended(st, st') /\ UNCHANGED <<m_cache, m_data, todo, accepted, written>>
    <2>1. n \in Nat /\ n # 0
      BY PoolAssumption
    <2>2. st' = setPoolSize(st, n) /\ UNCHANGED <<m_cache, m_data, todo, accepted, written>>
      BY <1>3 DEF SetPoolSize
    <2>3. Extended(st, st')
      BY <1>1, <2>1, <2>2, SetPoolSizeFacts
    <2> QED BY <2>2, <2>3
  <1>4. ASSUME NEW flg \in BOOLEAN, EnableDynamicSize(flg)
        PROVE  Extended(st, st') /\ UNCHANGED <<m_cache, m_data, todo, accepted, written>>
    <2>1. st' = [st EXCEPT !.dynamic_size = flg] /\ UNCHANGED <<m_cache, m_data, todo, accepted, written>>
      BY <1>4 DEF EnableDynamicSize
    <2>2. /\ st' \in Pools /\ st'.heap = st.heap /\ st'.list = st.list /\ st'.pool_size = st.pool_size
          /\ st'.cache_size = st.cache_size /\ st'.resized = st.resized
      BY <1>1, <2>1 DEF Pools
    <2>3. Extended(st, st')
      BY <1>1, <2>2, SameHeap
    <2> QED BY <2>1, <2>3
  <1> QED BY <1>2, <1>3, <1>4

\* append() begins, and a step that changes nothing.
LEMMA QuietKeeps ==
    ASSUME PoolInv, UNCHANGED <<st, m_cache, m_data, accepted, written>>,
           todo' \in Meas \cup {NoMeas}, todo' \notin accepted
    PROVE  PoolInv'
  <1>1. TypeOK' /\ SoundPool(st')
    BY DEF PoolInv, TypeOK
  <1>2. Owned' = Owned
    BY DEF Owned
  <1>3. OwnedExist' /\ FreeAreBlank' /\ OneOwner' /\ NothingInvented' /\ TodoIsNew'
    BY <1>2 DEF PoolInv, OwnedExist, FreeAreBlank, OneOwner, NothingInvented, TodoIsNew
  <1>4. HeldOnce'
    BY <1>2 DEF PoolInv, HeldOnce, Filled, At
  <1> QED BY <1>1, <1>3, <1>4 DEF PoolInv

\* The pool with another cache in place of c.
WithCache(s, c, new) == [s EXCEPT !.heap = [s.heap EXCEPT ![c] = new]]

\* The other caches are left alone.
LEMMA HeapUpdate ==
    ASSUME NEW s \in Pools, SoundPool(s), NEW c \in DOMAIN s.heap,
           NEW new \in Caches, SoundCache(new), new.m_max_size = s.heap[c].m_max_size
    PROVE  LET t == WithCache(s, c, new)
           IN  /\ t \in Pools /\ SoundPool(t) /\ t.resized = s.resized
               /\ DOMAIN t.heap = DOMAIN s.heap
               /\ t.heap[c] = new
               /\ \A d \in DOMAIN s.heap \ {c} : t.heap[d] = s.heap[d]
  <1> DEFINE heap == [s.heap EXCEPT ![c] = new]
  <1> DEFINE t == [s EXCEPT !.heap = heap]
  <1>1. s.heap \in Seq(Caches)
    BY DEF Pools
  <1>2. heap \in Seq(Caches) /\ DOMAIN heap = DOMAIN s.heap /\ heap[c] = new
        /\ \A d \in DOMAIN s.heap \ {c} : heap[d] = s.heap[d]
    BY <1>1
  <1> HIDE DEF heap
  <1>3. /\ t \in Pools /\ t.heap = heap /\ t.list = s.list /\ t.pool_size = s.pool_size
        /\ t.cache_size = s.cache_size /\ t.resized = s.resized
    BY <1>2 DEF Pools
  <1> HIDE DEF t
  <1>4. SoundPool(t)
    BY <1>2, <1>3 DEF SoundPool, SoundHeap
  <1>5. WithCache(s, c, new) = t
    BY DEF WithCache, t, heap
  <1> QED BY <1>2, <1>3, <1>4, <1>5

\* Cache::append: the measurement is in its one place.
LEMMA StoreFacts ==
    ASSUME PoolInv, Store
    PROVE  LET n == st.heap[m_cache].m_size + 1
           IN  /\ st' \in Pools /\ SoundPool(st') /\ st'.resized = st.resized
               /\ DOMAIN st'.heap = DOMAIN st.heap
               /\ m_cache \in DOMAIN st.heap /\ m_cache \in Owned
               /\ \A d \in DOMAIN st.heap \ {m_cache} : st'.heap[d] = st.heap[d]
               /\ \A d \in DOMAIN st.heap : st'.heap[d].m_sync = st.heap[d].m_sync
               /\ n \in Nat /\ Filled(m_cache) = 1..(n - 1)
               /\ st'.heap[m_cache].m_size = n
               /\ st'.heap[m_cache].m_meases[n] = todo
               /\ \A k \in 1..(n - 1) : st'.heap[m_cache].m_meases[k] = At(m_cache, k)
  <1> DEFINE c == st.heap[m_cache]
  <1> DEFINE new == [c EXCEPT !.m_meases[c.m_index + 1] = todo, !.m_index = @ + 1, !.m_size = @ + 1]
  <1>1. st \in Pools /\ SoundPool(st) /\ m_cache \in Nat /\ OwnedExist
    BY DEF PoolInv, TypeOK
  <1>2. m_cache # 0 /\ todo # NoMeas /\ ~isFull(c) /\ st' = [st EXCEPT !.heap[m_cache] = new]
    BY DEF Store
  <1>3. m_cache \in Owned /\ m_cache \in DOMAIN st.heap
    BY <1>1, <1>2 DEF Owned, OwnedExist
  <1>4. /\ c \in Caches /\ SoundCache(c)
        /\ c.m_max_size \in Nat /\ c.m_size \in Nat /\ c.m_index \in Nat
        /\ c.m_sync \in BOOLEAN /\ c.m_meases \in Seq(Meas \cup {EmptyMeas})
    BY <1>1, <1>3, CacheFacts DEF SoundPool, SoundHeap
  <1>5. c.m_size < c.m_max_size /\ c.m_index = c.m_size /\ Len(c.m_meases) = c.m_max_size
    BY <1>2, <1>4 DEF isFull, SoundCache
  <1>6. todo \in Meas
    BY <1>2 DEF PoolInv, TypeOK
  <1> DEFINE meases == [c.m_meases EXCEPT ![c.m_size + 1] = todo]
  <1>7. c.m_size + 1 \in DOMAIN c.m_meases /\ meases \in Seq(Meas \cup {EmptyMeas}) /\ Len(meases) = c.m_max_size
        /\ meases[c.m_size + 1] = todo /\ \A k \in 1..c.m_size : meases[k] = c.m_meases[k]
    <2> DEFINE old == c.m_meases
    <2> DEFINE n == c.m_size + 1
    <2>1. old \in Seq(Meas \cup {EmptyMeas}) /\ n \in 1..Len(old) /\ todo \in Meas \cup {EmptyMeas}
      BY <1>4, <1>5, <1>6
    <2>2. meases = [old EXCEPT ![n] = todo] /\ Len(old) = c.m_max_size /\ c.m_size \in Nat
      BY <1>4, <1>5
    <2>3. \A k \in 1..c.m_size : k # n /\ k \in 1..Len(old)
      BY <1>4, <1>5
    <2> HIDE DEF old, n, meases
    <2>4. n \in DOMAIN old /\ meases \in Seq(Meas \cup {EmptyMeas}) /\ Len(meases) = Len(old)
          /\ meases[n] = todo /\ \A k \in 1..Len(old) : k # n => meases[k] = old[k]
      BY <2>1, <2>2
    <2> QED BY <2>2, <2>3, <2>4 DEF old, n
  <1>8. new = [c EXCEPT !.m_meases = meases, !.m_index = c.m_size + 1, !.m_size = c.m_size + 1]
    BY <1>4, <1>5
  <1> HIDE DEF new, meases
  <1>9. /\ new \in Caches /\ new.m_size = c.m_size + 1 /\ new.m_index = c.m_size + 1 /\ new.m_meases = meases
        /\ new.m_max_size = c.m_max_size /\ new.m_sync = c.m_sync
    <2> DEFINE n == c.m_size + 1
    <2>1. n \in Nat
      BY <1>4
    <2> HIDE DEF n, c
    <2>2. new = [c EXCEPT !.m_meases = meases, !.m_index = n, !.m_size = n]
      BY <1>8 DEF n
    <2>3. /\ new \in Caches /\ new.m_size = n /\ new.m_index = n /\ new.m_meases = meases
          /\ new.m_max_size = c.m_max_size /\ new.m_sync = c.m_sync
      BY <1>4, <1>7, <2>1, <2>2 DEF Caches
    <2> QED BY <2>3 DEF n
  <1>10. SoundCache(new)
    BY <1>4, <1>5, <1>7, <1>9 DEF SoundCache
  <1>11. st' = WithCache(st, m_cache, new)
    BY <1>2 DEF WithCache
  <1> HIDE DEF c
  <1>12. /\ st' \in Pools /\ SoundPool(st') /\ st'.resized = st.resized
         /\ DOMAIN st'.heap = DOMAIN st.heap
         /\ st'.heap[m_cache] = new
         /\ \A d \in DOMAIN st.heap \ {m_cache} : st'.heap[d] = st.heap[d]
    BY <1>1, <1>3, <1>9, <1>10, <1>11, HeapUpdate DEF c
  <1>13. \A d \in DOMAIN st.heap : st'.heap[d].m_sync = st.heap[d].m_sync
    BY <1>9, <1>12 DEF c
  <1>14. Filled(m_cache) = 1..c.m_size /\ \A k \in 1..c.m_size : At(m_cache, k) = c.m_meases[k]
    BY DEF Filled, At, c
  <1>15. c.m_size + 1 \in Nat /\ (c.m_size + 1) - 1 = c.m_size
    BY <1>4
  <1> QED BY <1>3, <1>7, <1>9, <1>12, <1>13, <1>14, <1>15 DEF c

\* What the caches hold after it.
LEMMA StoreMoves ==
    ASSUME PoolInv, Store
    PROVE  LET n == st.heap[m_cache].m_size + 1
           IN  /\ Owned' = Owned /\ m_cache \in Owned
               /\ \E c \in Owned : \E k \in Filled(c)' : At(c, k)' = todo
               /\ \A c \in Owned : \A k \in Filled(c) : k \in Filled(c)' /\ At(c, k)' = At(c, k)
               /\ \A c \in Owned : \A k \in Filled(c)' :
                    \/ k \in Filled(c) /\ At(c, k)' = At(c, k)
                    \/ c = m_cache /\ k = n /\ At(c, k)' = todo
  <1> DEFINE n == st.heap[m_cache].m_size + 1
  <1>1. /\ DOMAIN st'.heap = DOMAIN st.heap
        /\ m_cache \in DOMAIN st.heap /\ m_cache \in Owned
        /\ \A d \in DOMAIN st.heap \ {m_cache} : st'.heap[d] = st.heap[d]
        /\ n \in Nat /\ Filled(m_cache) = 1..(n - 1)
        /\ st'.heap[m_cache].m_size = n
        /\ st'.heap[m_cache].m_meases[n] = todo
        /\ \A k \in 1..(n - 1) : st'.heap[m_cache].m_meases[k] = At(m_cache, k)
    BY StoreFacts
  <1>2. n # 0 /\ n \in 1..n
    <2>1. st.heap[m_cache].m_size \in Nat
      BY <1>1, CacheFacts DEF PoolInv, TypeOK
    <2> QED BY <2>1
  <1>3. UNCHANGED m_cache /\ Owned' = Owned /\ Owned \subseteq DOMAIN st.heap
    BY DEF Store, Owned, PoolInv, OwnedExist
  <1> HIDE DEF n
  <1>4. \A c \in Owned : \A k \in Filled(c)' :
          \/ k \in Filled(c) /\ At(c, k)' = At(c, k)
          \/ c = m_cache /\ k = n /\ At(c, k)' = todo
    <2> SUFFICES ASSUME NEW c \in Owned, NEW k \in 1..st'.heap[c].m_size
                 PROVE  \/ k \in Filled(c) /\ st'.heap[c].m_meases[k] = At(c, k)
                        \/ c = m_cache /\ k = n /\ st'.heap[c].m_meases[k] = todo
      BY DEF Filled, At
    <2>1. CASE c # m_cache
      BY <1>1, <1>3, <2>1 DEF Filled, At
    <2>2. CASE c = m_cache /\ k # n
      <3>1. k \in 1..(n - 1)
        BY <1>1, <2>2
      <3> QED BY <1>1, <2>2, <3>1
    <2>3. CASE c = m_cache /\ k = n
      BY <1>1, <2>3
    <2> QED BY <2>1, <2>2, <2>3
  <1>5. \A c \in Owned : \A k \in Filled(c) : k \in Filled(c)' /\ At(c, k)' = At(c, k)
    <2> SUFFICES ASSUME NEW c \in Owned, NEW k \in Filled(c)
                 PROVE  k \in 1..st'.heap[c].m_size /\ st'.heap[c].m_meases[k] = At(c, k)
      BY DEF Filled, At
    <2>1. CASE c # m_cache
      BY <1>1, <1>3, <2>1 DEF Filled, At
    <2>2. CASE c = m_cache
      <3>1. k \in 1..(n - 1) /\ k \in 1..n
        BY <1>1, <1>2, <2>2
      <3> QED BY <1>1, <2>2, <3>1
    <2> QED BY <2>1, <2>2
  <1>6. \E c \in Owned : \E k \in Filled(c)' : At(c, k)' = todo
    <2>1. \E k \in 1..st'.heap[m_cache].m_size : st'.heap[m_cache].m_meases[k] = todo
      BY <1>1, <1>2
    <2>2. \E c \in Owned : \E k \in 1..st'.heap[c].m_size : st'.heap[c].m_meases[k] = todo
      BY <1>1, <2>1
    <2> QED BY <2>2 DEF Filled, At
  <1> QED BY <1>1, <1>3, <1>4, <1>5, <1>6 DEF n

\* Cache::append finds room.
LEMMA StoreKeeps ==
    ASSUME PoolInv, Store
    PROVE  PoolInv'
  <1> DEFINE n == st.heap[m_cache].m_size + 1
  <1>1. TypeOK /\ SoundPool(st) /\ OwnedExist /\ OneOwner /\ FreeAreBlank /\ HeldOnce /\ NothingInvented /\ TodoIsNew
    BY DEF PoolInv
  <1>2. /\ st' \in Pools /\ SoundPool(st') /\ st'.resized = st.resized
        /\ DOMAIN st'.heap = DOMAIN st.heap
        /\ m_cache \in DOMAIN st.heap /\ m_cache \in Owned
        /\ \A d \in DOMAIN st.heap \ {m_cache} : st'.heap[d] = st.heap[d]
        /\ \A d \in DOMAIN st.heap : st'.heap[d].m_sync = st.heap[d].m_sync
        /\ n \in Nat /\ Filled(m_cache) = 1..(n - 1)
        /\ st'.heap[m_cache].m_size = n
        /\ st'.heap[m_cache].m_meases[n] = todo
        /\ \A k \in 1..(n - 1) : st'.heap[m_cache].m_meases[k] = At(m_cache, k)
    BY StoreFacts
  <1>3. accepted' = accepted \cup {todo} /\ todo' = NoMeas /\ UNCHANGED <<m_cache, m_data, written>> /\ todo # NoMeas
    BY DEF Store
  <1>4. todo \in Meas /\ todo \notin accepted /\ todo # EmptyMeas
    BY <1>1, <1>3, PoolAssumption DEF TypeOK, TodoIsNew
  <1> HIDE DEF n
  <1>5. TypeOK' /\ TodoIsNew'
    BY <1>1, <1>2, <1>3, <1>4, PoolAssumption DEF TypeOK, TodoIsNew
  <1>6. Owned' = Owned
    BY <1>3 DEF Owned
  <1>7. OwnedExist' /\ OneOwner'
    BY <1>1, <1>2, <1>3, <1>6 DEF OwnedExist, OneOwner
  <1>8. FreeAreBlank'
    BY <1>1, <1>2, <1>6 DEF FreeAreBlank
  <1>9. \A i \in DOMAIN written : written[i] # todo
    <2>1. \A i \in DOMAIN written : written[i] \in Range(written)
      BY DEF Range
    <2> QED BY <1>1, <1>4, <2>1 DEF NothingInvented
  <1>10. NothingInvented'
    BY <1>1, <1>2, <1>3 DEF NothingInvented
  <1>11. \A c \in Owned : \A k \in Filled(c)' :
           \/ k \in Filled(c) /\ At(c, k)' = At(c, k)
           \/ c = m_cache /\ k = n /\ At(c, k)' = todo
    BY StoreMoves DEF n
  <1>12. \A c \in Owned : \A k \in Filled(c) : At(c, k) # todo
    BY <1>1, <1>4 DEF HeldOnce
  <1>13. HeldOnce'
    <2> SUFFICES ASSUME NEW c \in Owned, NEW k \in Filled(c)'
                 PROVE  /\ At(c, k)' \in accepted' \/ (st'.resized /\ At(c, k)' = EmptyMeas)
                        /\ At(c, k)' # EmptyMeas =>
                             /\ \A d \in Owned : \A j \in Filled(d)' : At(d, j)' = At(c, k)' => d = c /\ j = k
                             /\ \A i \in DOMAIN written : written[i] # At(c, k)'
      BY <1>3, <1>6 DEF HeldOnce
    <2>1. CASE c = m_cache /\ k = n /\ At(c, k)' = todo
      <3>1. ASSUME NEW d \in Owned, NEW j \in Filled(d)', At(d, j)' = todo
            PROVE  d = c /\ j = k
        BY <1>11, <1>12, <2>1, <3>1
      <3> QED BY <1>3, <1>9, <2>1, <3>1
    <2>2. CASE k \in Filled(c) /\ At(c, k)' = At(c, k)
      <3>1. /\ At(c, k) \in accepted \/ (st.resized /\ At(c, k) = EmptyMeas)
            /\ At(c, k) # EmptyMeas =>
                 /\ \A d \in Owned : \A j \in Filled(d) : At(d, j) = At(c, k) => d = c /\ j = k
                 /\ \A i \in DOMAIN written : written[i] # At(c, k)
        BY <1>1, <2>2 DEF HeldOnce
      <3>2. ASSUME At(c, k) # EmptyMeas, NEW d \in Owned, NEW j \in Filled(d)', At(d, j)' = At(c, k)
            PROVE  d = c /\ j = k
        <4>1. At(c, k) # todo
          BY <1>12, <2>2
        <4>2. j \in Filled(d) /\ At(d, j)' = At(d, j)
          BY <1>11, <3>2, <4>1
        <4> QED BY <3>1, <3>2, <4>2
      <3> QED BY <1>2, <1>3, <2>2, <3>1, <3>2
    <2> QED BY <1>11, <2>1, <2>2
  <1> QED BY <1>2, <1>5, <1>7, <1>8, <1>10, <1>13 DEF PoolInv

\* The caches are the same but for m_sync.
LEMMA HandFacts ==
    ASSUME PoolInv, Hand
    PROVE  /\ st' \in Pools /\ SoundPool(st') /\ st'.resized = st.resized
           /\ DOMAIN st'.heap = DOMAIN st.heap
           /\ m_cache \in DOMAIN st.heap /\ m_cache \in Owned /\ Owned' = Owned
           /\ \A d \in DOMAIN st.heap : /\ st'.heap[d].m_size = st.heap[d].m_size
                                        /\ st'.heap[d].m_meases = st.heap[d].m_meases
                                        /\ st'.heap[d].m_sync = (st.heap[d].m_sync \/ d = m_cache)
           /\ m_data' = Append(m_data, m_cache) /\ m_cache' = 0 /\ UNCHANGED <<todo, accepted, written>>
           /\ Range(m_data') = Range(m_data) \cup {m_cache}
  <1> DEFINE c == st.heap[m_cache]
  <1> DEFINE new == [c EXCEPT !.m_sync = TRUE]
  <1>1. st \in Pools /\ SoundPool(st) /\ m_cache \in Nat /\ OwnedExist /\ m_data \in Seq(Nat)
    BY DEF PoolInv, TypeOK
  <1>2. m_cache # 0 /\ m_data' = Append(m_data, m_cache) /\ m_cache' = 0 /\ UNCHANGED <<todo, accepted, written>>
        /\ st' = [st EXCEPT !.heap = [st.heap EXCEPT ![m_cache] = new]]
    BY DEF Hand
  <1>3. m_cache \in Owned /\ m_cache \in DOMAIN st.heap
    BY <1>1, <1>2 DEF Owned, OwnedExist
  <1>4. c \in Caches /\ SoundCache(c) /\ c.m_sync \in BOOLEAN
    BY <1>1, <1>3, CacheFacts DEF SoundPool, SoundHeap
  <1> HIDE DEF c
  <1>5. /\ new \in Caches /\ new.m_size = c.m_size /\ new.m_index = c.m_index /\ new.m_meases = c.m_meases
        /\ new.m_max_size = c.m_max_size /\ new.m_sync = TRUE
    BY <1>4 DEF Caches
  <1> HIDE DEF new
  <1>6. SoundCache(new)
    BY <1>4, <1>5 DEF SoundCache
  <1>7. /\ st' \in Pools /\ SoundPool(st') /\ st'.resized = st.resized
        /\ DOMAIN st'.heap = DOMAIN st.heap
        /\ st'.heap[m_cache] = new
        /\ \A d \in DOMAIN st.heap \ {m_cache} : st'.heap[d] = st.heap[d]
    <2>1. new.m_max_size = st.heap[m_cache].m_max_size
      BY <1>5 DEF c
    <2>2. st' = WithCache(st, m_cache, new)
      BY <1>2 DEF WithCache
    <2> QED BY <1>1, <1>3, <1>5, <1>6, <2>1, <2>2, HeapUpdate
  <1>8. \A d \in DOMAIN st.heap : /\ st'.heap[d].m_size = st.heap[d].m_size
                                  /\ st'.heap[d].m_meases = st.heap[d].m_meases
    BY <1>5, <1>7 DEF c
  <1>9. \A d \in DOMAIN st.heap : st'.heap[d].m_sync = (st.heap[d].m_sync \/ d = m_cache)
    <2> SUFFICES ASSUME NEW d \in DOMAIN st.heap
                 PROVE  st'.heap[d].m_sync = (st.heap[d].m_sync \/ d = m_cache)
      OBVIOUS
    <2>1. CASE d = m_cache
      BY <1>5, <1>7, <2>1
    <2>2. CASE d # m_cache
      <3>1. st.heap[d].m_sync \in BOOLEAN /\ st'.heap[d] = st.heap[d]
        BY <1>1, <1>7, <2>2, CacheFacts
      <3> QED BY <2>2, <3>1
    <2> QED BY <2>1, <2>2
  <1>10. Range(m_data') = Range(m_data) \cup {m_cache}
    <2>1. DOMAIN m_data' = DOMAIN m_data \cup {Len(m_data) + 1}
          /\ m_data'[Len(m_data) + 1] = m_cache /\ \A i \in DOMAIN m_data : m_data'[i] = m_data[i]
      BY <1>1, <1>2
    <2> QED BY <2>1 DEF Range
  <1>11. Owned' = Owned
    BY <1>2, <1>10 DEF Owned
  <1> QED BY <1>2, <1>3, <1>7, <1>8, <1>9, <1>10, <1>11

\* writeCache() hands the cache to the writer.
LEMMA HandKeeps ==
    ASSUME PoolInv, Hand
    PROVE  PoolInv'
  <1>1. TypeOK /\ SoundPool(st) /\ OwnedExist /\ OneOwner /\ FreeAreBlank /\ HeldOnce /\ NothingInvented /\ TodoIsNew
    BY DEF PoolInv
  <1>2. /\ st' \in Pools /\ SoundPool(st') /\ st'.resized = st.resized
        /\ DOMAIN st'.heap = DOMAIN st.heap
        /\ m_cache \in DOMAIN st.heap /\ m_cache \in Owned /\ Owned' = Owned
        /\ \A d \in DOMAIN st.heap : /\ st'.heap[d].m_size = st.heap[d].m_size
                                     /\ st'.heap[d].m_meases = st.heap[d].m_meases
                                     /\ st'.heap[d].m_sync = (st.heap[d].m_sync \/ d = m_cache)
        /\ m_data' = Append(m_data, m_cache) /\ m_cache' = 0 /\ UNCHANGED <<todo, accepted, written>>
        /\ Range(m_data') = Range(m_data) \cup {m_cache}
    BY HandFacts
  <1>3. TypeOK' /\ TodoIsNew'
    BY <1>1, <1>2 DEF TypeOK, TodoIsNew
  <1>4. OwnedExist'
    BY <1>1, <1>2 DEF OwnedExist
  <1>5. FreeAreBlank'
    BY <1>1, <1>2 DEF FreeAreBlank, Blank
  <1>6. OneOwner'
    <2>1. 0 \notin DOMAIN st.heap /\ m_data \in Seq(Nat) /\ m_cache \in Nat
      <3>1. st.heap \in Seq(Caches)
        BY <1>1 DEF TypeOK, Pools
      <3> QED BY <1>1, <3>1 DEF TypeOK
    <2>2. m_cache' \notin Range(m_data')
      <3>1. Range(m_data') \subseteq DOMAIN st.heap
        BY <1>1, <1>2 DEF OwnedExist, Owned
      <3> QED BY <1>2, <2>1, <3>1
    <2>3. \A i, j \in DOMAIN m_data' : m_data'[i] = m_data'[j] => i = j
      <3>1. DOMAIN m_data' = DOMAIN m_data \cup {Len(m_data) + 1}
            /\ m_data'[Len(m_data) + 1] = m_cache /\ \A i \in DOMAIN m_data : m_data'[i] = m_data[i]
        BY <1>2, <2>1
      <3>2. \A i \in DOMAIN m_data : m_data[i] # m_cache
        BY <1>1 DEF OneOwner, Range
      <3> QED BY <1>1, <3>1, <3>2 DEF OneOwner
    <2>4. \A c \in DOMAIN st'.heap : st'.heap[c].m_sync <=> c \in Range(m_data')
      BY <1>1, <1>2 DEF OneOwner
    <2> QED BY <2>2, <2>3, <2>4 DEF OneOwner
  <1>7. \A c \in Owned : Filled(c)' = Filled(c) /\ \A k \in Filled(c) : At(c, k)' = At(c, k)
    BY <1>1, <1>2 DEF Filled, At, OwnedExist
  <1>8. HeldOnce'
    BY <1>1, <1>2, <1>7 DEF HeldOnce
  <1>9. NothingInvented'
    BY <1>1, <1>2 DEF NothingInvented
  <1> QED BY <1>2, <1>3, <1>4, <1>5, <1>6, <1>8, <1>9 DEF PoolInv

\* What the writer reads of a cache: its first m_size places.
LEMMA ReadFacts ==
    ASSUME NEW s \in Pools, SoundPool(s), NEW c \in DOMAIN s.heap
    PROVE  LET n == s.heap[c].m_size
               read == SubSeq(s.heap[c].m_meases, 1, n)
           IN  /\ n \in Nat
               /\ read \in Seq(Meas \cup {EmptyMeas}) /\ Len(read) = n
               /\ \A k \in 1..n : read[k] = s.heap[c].m_meases[k]
               /\ Range(read) = {s.heap[c].m_meases[k] : k \in 1..n}
  <1> DEFINE n == s.heap[c].m_size
  <1> DEFINE meases == s.heap[c].m_meases
  <1> DEFINE read == SubSeq(meases, 1, n)
  <1>1. n \in Nat /\ meases \in Seq(Meas \cup {EmptyMeas}) /\ n <= Len(meases)
    BY CacheFacts DEF SoundPool, SoundHeap, SoundCache
  <1> HIDE DEF n, meases
  <1>2. 1 \in Int /\ n \in Int /\ \A k \in 1..n : meases[k] \in Meas \cup {EmptyMeas}
    BY <1>1
  <1>3. /\ read \in Seq(Meas \cup {EmptyMeas})
        /\ Len(read) = IF 1 <= n THEN n - 1 + 1 ELSE 0
        /\ \A k \in 1..(n - 1 + 1) : read[k] = meases[1 + k - 1]
    BY <1>2, SubSeqProperties
  <1> HIDE DEF read
  <1>4. n - 1 + 1 = n /\ (\A k \in 1..n : 1 + k - 1 = k) /\ (~(1 <= n) => n = 0)
    BY <1>1
  <1>5. Len(read) = n /\ \A k \in 1..n : read[k] = meases[k]
    BY <1>3, <1>4
  <1>6. DOMAIN read = 1..n
    BY <1>3, <1>5
  <1>7. Range(read) = {meases[k] : k \in 1..n}
    BY <1>5, <1>6 DEF Range
  <1> QED BY <1>1, <1>3, <1>5, <1>7 DEF n, meases, read

\* AsyncWriter::call: what the cache held is at the end of what is written.
LEMMA WriteFacts ==
    ASSUME PoolInv, Write
    PROVE  LET c == Head(m_data)
               l == Len(written)
               n == st.heap[c].m_size
           IN  /\ st' \in Pools /\ SoundPool(st') /\ st'.resized = st.resized
               /\ DOMAIN st'.heap = DOMAIN st.heap
               /\ c \in DOMAIN st.heap /\ c \in Owned /\ Owned' = Owned \ {c}
               /\ Range(m_data') = Range(m_data) \ {c}
               /\ m_data' \in Seq(Nat) /\ (\A i, j \in DOMAIN m_data' : m_data'[i] = m_data'[j] => i = j)
               /\ UNCHANGED <<m_cache, todo, accepted>>
               /\ \A d \in DOMAIN st.heap \ {c} : st'.heap[d] = st.heap[d]
               /\ st'.heap[c].m_size = 0 /\ st'.heap[c].m_sync = FALSE
               /\ l \in Nat /\ n \in Nat
               /\ written' \in Seq(Meas \cup {EmptyMeas}) /\ DOMAIN written' = 1..(l + n) /\ DOMAIN written = 1..l
               /\ \A i \in 1..l : written'[i] = written[i]
               /\ \A k \in 1..n : written'[l + k] = At(c, k)
               /\ \A i \in 1..(l + n) : i \notin 1..l => i - l \in 1..n /\ written'[i] = At(c, i - l)
  <1> DEFINE c == Head(m_data)
  <1> DEFINE l == Len(written)
  <1> DEFINE n == st.heap[c].m_size
  <1> DEFINE read == SubSeq(st.heap[c].m_meases, 1, n)
  <1> DEFINE new == clear(st.heap[c])
  <1>1. st \in Pools /\ SoundPool(st) /\ m_data \in Seq(Nat) /\ written \in Seq(Meas \cup {EmptyMeas}) /\ OwnedExist /\ OneOwner
    BY DEF PoolInv, TypeOK
  <1>2. /\ m_data # <<>> /\ written' = written \o read /\ m_data' = Tail(m_data)
        /\ UNCHANGED <<m_cache, todo, accepted>>
    BY DEF Write
  <1>3. st' = WithCache(st, c, new)
    BY DEF Write, WithCache
  <1>4. DOMAIN m_data = 1..Len(m_data) /\ Len(m_data) \in Nat /\ Len(m_data) # 0 /\ c = m_data[1]
    BY <1>1, <1>2
  <1>5. /\ m_data' \in Seq(Nat) /\ DOMAIN m_data' = 1..(Len(m_data) - 1)
        /\ \A i \in 1..(Len(m_data) - 1) : m_data'[i] = m_data[i + 1] /\ i + 1 \in DOMAIN m_data
    <2>1. m_data' \in Seq(Nat) /\ Len(m_data') = Len(m_data) - 1
      BY <1>1, <1>2, <1>4
    <2>2. DOMAIN m_data' = 1..(Len(m_data) - 1)
      BY <1>4, <2>1
    <2> QED BY <1>1, <1>2, <1>4, <2>1, <2>2
  <1> HIDE DEF c
  <1>6. \A i, j \in DOMAIN m_data : m_data[i] = m_data[j] => i = j
    BY <1>1 DEF OneOwner
  <1>7. \A i, j \in DOMAIN m_data' : m_data'[i] = m_data'[j] => i = j
    <2> SUFFICES ASSUME NEW i \in DOMAIN m_data', NEW j \in DOMAIN m_data', m_data'[i] = m_data'[j]
                 PROVE  i = j
      OBVIOUS
    <2>1. i \in 1..(Len(m_data) - 1) /\ j \in 1..(Len(m_data) - 1) /\ i \in Int /\ j \in Int
      BY <1>4, <1>5
    <2>2. m_data[i + 1] = m_data[j + 1] /\ i + 1 \in DOMAIN m_data /\ j + 1 \in DOMAIN m_data
      BY <1>5, <2>1
    <2>3. i + 1 = j + 1
      BY <1>6, <2>2
    <2> QED BY <2>1, <2>3
  <1>8. Range(m_data') = Range(m_data) \ {c}
    <2>1. ASSUME NEW x \in Range(m_data') PROVE x \in Range(m_data) \ {c}
      <3>1. PICK i \in DOMAIN m_data' : x = m_data'[i]
        BY DEF Range
      <3>2. i \in 1..(Len(m_data) - 1) /\ x = m_data[i + 1] /\ i + 1 \in DOMAIN m_data /\ i + 1 # 1 /\ 1 \in DOMAIN m_data
        BY <1>4, <1>5, <3>1
      <3>3. x # c
        BY <1>4, <1>6, <3>2
      <3> QED BY <3>2, <3>3 DEF Range
    <2>2. ASSUME NEW x \in Range(m_data), x # c PROVE x \in Range(m_data')
      <3>1. PICK j \in DOMAIN m_data : x = m_data[j]
        BY DEF Range
      <3>2. j - 1 \in 1..(Len(m_data) - 1) /\ (j - 1) + 1 = j
        BY <1>4, <2>2, <3>1
      <3>3. j - 1 \in DOMAIN m_data' /\ m_data'[j - 1] = x
        BY <1>5, <3>1, <3>2
      <3> QED BY <3>3 DEF Range
    <2> QED BY <2>1, <2>2
  <1>9. c \in Range(m_data) /\ c \in Owned /\ c \in DOMAIN st.heap /\ m_cache # c
    <2>1. c \in Range(m_data)
      BY <1>4 DEF Range
    <2> QED BY <1>1, <2>1 DEF Owned, OwnedExist, OneOwner
  <1>10. Owned' = Owned \ {c}
    BY <1>2, <1>8, <1>9 DEF Owned
  <1>11. st.heap[c] \in Caches /\ SoundCache(st.heap[c]) /\ st.heap[c].m_max_size \in Nat
    BY <1>1, <1>9, CacheFacts DEF SoundPool, SoundHeap
  <1>12. /\ new \in Caches /\ new.m_size = 0 /\ new.m_index = 0 /\ new.m_meases = st.heap[c].m_meases
         /\ new.m_max_size = st.heap[c].m_max_size /\ new.m_sync = FALSE
    BY <1>11 DEF clear, Caches
  <1> HIDE DEF new
  <1>13. SoundCache(new)
    BY <1>11, <1>12 DEF SoundCache
  <1>14. /\ st' \in Pools /\ SoundPool(st') /\ st'.resized = st.resized
         /\ DOMAIN st'.heap = DOMAIN st.heap
         /\ st'.heap[c] = new
         /\ \A d \in DOMAIN st.heap \ {c} : st'.heap[d] = st.heap[d]
    BY <1>1, <1>3, <1>9, <1>12, <1>13, HeapUpdate
  <1>15. n \in Nat /\ read \in Seq(Meas \cup {EmptyMeas}) /\ Len(read) = n /\ \A k \in 1..n : read[k] = At(c, k)
    BY <1>1, <1>9, ReadFacts DEF At
  <1> HIDE DEF n, read
  <1>16. l \in Nat /\ DOMAIN written = 1..l
    BY <1>1
  <1>17. /\ written' \in Seq(Meas \cup {EmptyMeas}) /\ Len(written') = l + n
         /\ \A i \in 1..(l + n) : written'[i] = IF i <= l THEN written[i] ELSE read[i - l]
    BY <1>1, <1>2, <1>15, ConcatProperties
  <1>18. DOMAIN written' = 1..(l + n)
    BY <1>17
  <1> HIDE DEF l
  <1>19. \A i \in 1..l : written'[i] = written[i]
    BY <1>15, <1>16, <1>17
  <1>20. \A i \in 1..(l + n) : i \notin 1..l => i - l \in 1..n /\ written'[i] = At(c, i - l)
    <2> SUFFICES ASSUME NEW i \in 1..(l + n), i \notin 1..l
                 PROVE  i - l \in 1..n /\ written'[i] = At(c, i - l)
      OBVIOUS
    <2>1. i - l \in 1..n /\ ~(i <= l)
      BY <1>15, <1>16
    <2> QED BY <1>15, <1>17, <2>1
  <1>21. \A k \in 1..n : written'[l + k] = At(c, k)
    <2> SUFFICES ASSUME NEW k \in 1..n
                 PROVE  written'[l + k] = At(c, k)
      OBVIOUS
    <2>1. l + k \in 1..(l + n) /\ l + k \notin 1..l /\ (l + k) - l = k
      BY <1>15, <1>16
    <2> QED BY <1>20, <2>1
  <1> QED BY <1>2, <1>5, <1>7, <1>8, <1>9, <1>10, <1>12, <1>14, <1>15, <1>16, <1>17, <1>18, <1>19, <1>20, <1>21 DEF c, l, n

\* The writer writes and empties the cache at the head of the queue.
LEMMA WriteKeeps ==
    ASSUME PoolInv, Write
    PROVE  PoolInv'
  <1> DEFINE c == Head(m_data)
  <1> DEFINE l == Len(written)
  <1> DEFINE n == st.heap[c].m_size
  <1>1. TypeOK /\ SoundPool(st) /\ OwnedExist /\ OneOwner /\ FreeAreBlank /\ HeldOnce /\ NothingInvented /\ TodoIsNew
    BY DEF PoolInv
  <1>2. /\ st' \in Pools /\ SoundPool(st') /\ st'.resized = st.resized
        /\ DOMAIN st'.heap = DOMAIN st.heap
        /\ c \in DOMAIN st.heap /\ c \in Owned /\ Owned' = Owned \ {c}
        /\ Range(m_data') = Range(m_data) \ {c}
        /\ m_data' \in Seq(Nat) /\ (\A i, j \in DOMAIN m_data' : m_data'[i] = m_data'[j] => i = j)
        /\ UNCHANGED <<m_cache, todo, accepted>>
        /\ \A d \in DOMAIN st.heap \ {c} : st'.heap[d] = st.heap[d]
        /\ st'.heap[c].m_size = 0 /\ st'.heap[c].m_sync = FALSE
    BY WriteFacts
  <1>3. /\ l \in Nat /\ n \in Nat
        /\ written' \in Seq(Meas \cup {EmptyMeas}) /\ DOMAIN written' = 1..(l + n) /\ DOMAIN written = 1..l
        /\ \A i \in 1..l : written'[i] = written[i]
        /\ \A i \in 1..(l + n) : i \notin 1..l => i - l \in 1..n /\ written'[i] = At(c, i - l)
    BY WriteFacts
  <1>4. Filled(c) = 1..n
    BY DEF Filled
  <1> HIDE DEF c, l, n
  <1>5. TypeOK' /\ TodoIsNew'
    BY <1>1, <1>2, <1>3 DEF TypeOK, TodoIsNew
  <1>6. OwnedExist'
    BY <1>1, <1>2 DEF OwnedExist
  <1>7. OneOwner'
    <2>1. m_cache' \notin Range(m_data')
      BY <1>1, <1>2 DEF OneOwner
    <2>2. \A d \in DOMAIN st'.heap : st'.heap[d].m_sync <=> d \in Range(m_data')
      BY <1>1, <1>2 DEF OneOwner
    <2> QED BY <1>2, <2>1, <2>2 DEF OneOwner
  <1>8. FreeAreBlank'
    <2> SUFFICES ASSUME NEW d \in DOMAIN st'.heap \ Owned'
                 PROVE  Blank(st'.heap[d], st'.resized)
      BY DEF FreeAreBlank
    <2>1. CASE d = c
      BY <1>2, <2>1 DEF Blank
    <2>2. CASE d # c
      BY <1>1, <1>2, <2>2 DEF FreeAreBlank
    <2> QED BY <2>1, <2>2
  <1>9. \A d \in Owned' : d \in Owned /\ d # c /\ Filled(d)' = Filled(d) /\ \A k \in Filled(d) : At(d, k)' = At(d, k)
    BY <1>1, <1>2 DEF Filled, At, OwnedExist
  <1>10. \A i \in 1..(l + n) : \/ i \in DOMAIN written /\ written'[i] = written[i]
                               \/ i - l \in Filled(c) /\ i \notin 1..l /\ written'[i] = At(c, i - l)
    BY <1>3, <1>4
  <1>11. NothingInvented'
    <2>1. ASSUME NEW i \in 1..(l + n)
          PROVE  written'[i] \in accepted \/ (st.resized /\ written'[i] = EmptyMeas)
      <3>1. CASE i \in DOMAIN written /\ written'[i] = written[i]
        <4>1. written[i] \in Range(written)
          BY <3>1 DEF Range
        <4> QED BY <1>1, <3>1, <4>1 DEF NothingInvented
      <3>2. CASE i - l \in Filled(c) /\ written'[i] = At(c, i - l)
        BY <1>1, <1>2, <3>2 DEF HeldOnce
      <3> QED BY <1>10, <3>1, <3>2
    <2>2. Range(written') \subseteq accepted' \cup (IF st'.resized THEN {EmptyMeas} ELSE {})
      BY <1>2, <1>3, <2>1 DEF Range
    <2>3. ASSUME NEW i \in 1..(l + n), NEW j \in 1..(l + n), written'[i] = written'[j], written'[i] # EmptyMeas
          PROVE  i = j
      <3>0. \A k \in Filled(c) : At(c, k) # EmptyMeas =>
              /\ \A m \in Filled(c) : At(c, m) = At(c, k) => m = k
              /\ \A m \in DOMAIN written : written[m] # At(c, k)
        BY <1>1, <1>2 DEF HeldOnce
      <3>1. CASE i \in DOMAIN written /\ written'[i] = written[i] /\ j \in DOMAIN written /\ written'[j] = written[j]
        BY <1>1, <2>3, <3>1 DEF NothingInvented
      <3>2. CASE i \in DOMAIN written /\ written'[i] = written[i] /\ j - l \in Filled(c) /\ written'[j] = At(c, j - l)
        BY <2>3, <3>0, <3>2
      <3>3. CASE i - l \in Filled(c) /\ written'[i] = At(c, i - l) /\ j \in DOMAIN written /\ written'[j] = written[j]
        BY <2>3, <3>0, <3>3
      <3>4. CASE i - l \in Filled(c) /\ written'[i] = At(c, i - l) /\ j - l \in Filled(c) /\ written'[j] = At(c, j - l)
        <4>1. j - l = i - l
          BY <2>3, <3>0, <3>4
        <4> QED BY <1>3, <4>1
      <3> QED BY <1>10, <3>1, <3>2, <3>3, <3>4
    <2> QED BY <1>3, <2>2, <2>3 DEF NothingInvented
  <1>12. HeldOnce'
    <2> SUFFICES ASSUME NEW d \in Owned', NEW k \in Filled(d)'
                 PROVE  /\ At(d, k)' \in accepted \/ (st'.resized /\ At(d, k)' = EmptyMeas)
                        /\ At(d, k)' # EmptyMeas =>
                             /\ \A e \in Owned' : \A j \in Filled(e)' : At(e, j)' = At(d, k)' => e = d /\ j = k
                             /\ \A i \in DOMAIN written' : written'[i] # At(d, k)'
      BY <1>2 DEF HeldOnce
    <2>1. d \in Owned /\ d # c /\ k \in Filled(d) /\ At(d, k)' = At(d, k)
      BY <1>9
    <2>2. /\ At(d, k) \in accepted \/ (st.resized /\ At(d, k) = EmptyMeas)
          /\ At(d, k) # EmptyMeas =>
               /\ \A e \in Owned : \A j \in Filled(e) : At(e, j) = At(d, k) => e = d /\ j = k
               /\ \A i \in DOMAIN written : written[i] # At(d, k)
      BY <1>1, <2>1 DEF HeldOnce
    <2>3. ASSUME At(d, k) # EmptyMeas, NEW i \in 1..(l + n)
          PROVE  written'[i] # At(d, k)
      BY <1>2, <1>10, <2>1, <2>2, <2>3
    <2>4. ASSUME At(d, k) # EmptyMeas, NEW e \in Owned', NEW j \in Filled(e)', At(e, j)' = At(d, k)
          PROVE  e = d /\ j = k
      BY <1>9, <2>2, <2>4
    <2> QED BY <1>2, <1>3, <2>1, <2>2, <2>3, <2>4
  <1> QED BY <1>2, <1>5, <1>6, <1>7, <1>8, <1>11, <1>12 DEF PoolInv

\* Storage::setCacheSize: a cache is left as it is, or looks full of empty
\* measurements.
LEMMA SetCacheSizeKeeps ==
    ASSUME PoolInv, NEW n \in CacheSizes, SetCacheSize(n)
    PROVE  PoolInv'
  <1>1. TypeOK /\ SoundPool(st) /\ OwnedExist /\ OneOwner /\ FreeAreBlank /\ HeldOnce /\ NothingInvented /\ TodoIsNew
    BY DEF PoolInv
  <1>2. st' = setCacheSize(st, n) /\ UNCHANGED <<m_cache, m_data, todo, accepted, written>>
    BY DEF SetCacheSize
  <1>3. n \in Nat /\ st \in Pools
    BY <1>1, PoolAssumption DEF TypeOK
  <1>4. /\ st' \in Pools /\ SoundPool(st')
        /\ DOMAIN st'.heap = DOMAIN st.heap
        /\ st'.resized = (st.resized \/ n # st.cache_size)
        /\ \A c \in DOMAIN st.heap : st'.heap[c].m_sync = st.heap[c].m_sync
        /\ \A c \in DOMAIN st.heap : \/ st'.heap[c] = st.heap[c]
                                     \/ st'.resized /\ \A k \in 1..st'.heap[c].m_size : st'.heap[c].m_meases[k] = EmptyMeas
    BY <1>1, <1>2, <1>3, SetCacheSizeFacts
  <1>5. st.resized => st'.resized
    BY <1>4
  <1>6. TypeOK' /\ TodoIsNew' /\ Owned' = Owned
    BY <1>1, <1>2, <1>4 DEF TypeOK, TodoIsNew, Owned
  <1>7. OwnedExist' /\ OneOwner'
    BY <1>1, <1>2, <1>4, <1>6 DEF OwnedExist, OneOwner
  <1>8. FreeAreBlank'
    <2> SUFFICES ASSUME NEW c \in DOMAIN st.heap \ Owned
                 PROVE  Blank(st'.heap[c], st'.resized)
      BY <1>4, <1>6 DEF FreeAreBlank
    <2>1. Blank(st.heap[c], st.resized)
      BY <1>1 DEF FreeAreBlank
    <2>2. CASE st'.heap[c] = st.heap[c]
      BY <1>5, <2>1, <2>2 DEF Blank
    <2>3. CASE st'.resized /\ \A k \in 1..st'.heap[c].m_size : st'.heap[c].m_meases[k] = EmptyMeas
      BY <2>3 DEF Blank
    <2> QED BY <1>4, <2>2, <2>3
  <1>9. \A c \in Owned : \A k \in Filled(c)' :
          \/ k \in Filled(c) /\ At(c, k)' = At(c, k)
          \/ st'.resized /\ At(c, k)' = EmptyMeas
    BY <1>1, <1>4 DEF Filled, At, OwnedExist
  <1>10. HeldOnce'
    <2> SUFFICES ASSUME NEW c \in Owned, NEW k \in Filled(c)'
                 PROVE  /\ At(c, k)' \in accepted \/ (st'.resized /\ At(c, k)' = EmptyMeas)
                        /\ At(c, k)' # EmptyMeas =>
                             /\ \A d \in Owned : \A j \in Filled(d)' : At(d, j)' = At(c, k)' => d = c /\ j = k
                             /\ \A i \in DOMAIN written : written[i] # At(c, k)'
      BY <1>2, <1>6 DEF HeldOnce
    <2>1. CASE st'.resized /\ At(c, k)' = EmptyMeas
      BY <2>1
    <2>2. CASE k \in Filled(c) /\ At(c, k)' = At(c, k)
      <3>1. /\ At(c, k) \in accepted \/ (st.resized /\ At(c, k) = EmptyMeas)
            /\ At(c, k) # EmptyMeas =>
                 /\ \A d \in Owned : \A j \in Filled(d) : At(d, j) = At(c, k) => d = c /\ j = k
                 /\ \A i \in DOMAIN written : written[i] # At(c, k)
        BY <1>1, <2>2 DEF HeldOnce
      <3>2. ASSUME At(c, k) # EmptyMeas, NEW d \in Owned, NEW j \in Filled(d)', At(d, j)' = At(c, k)
            PROVE  d = c /\ j = k
        BY <1>9, <3>1, <3>2
      <3> QED BY <1>5, <2>2, <3>1, <3>2
    <2> QED BY <1>9, <2>1, <2>2
  <1>11. NothingInvented'
    BY <1>1, <1>2, <1>5 DEF NothingInvented
  <1> QED BY <1>4, <1>6, <1>7, <1>8, <1>10, <1>11 DEF PoolInv

-----------------------------------------------------------------------------
(* The theorems *)

\* A new storage has a free cache of its pool.
LEMMA InitHolds ==
    ASSUME Init
    PROVE  PoolInv
  <1> DEFINE r == [heap |-> <<>>, list |-> <<>>, pool_size |-> Pool, cache_size |-> Size,
                   dynamic_size |-> FALSE, recalc |-> Pool \div 3, resized |-> FALSE]
  <1> DEFINE t == init_pool(r)
  <1>1. st = getCache(t).st /\ m_cache = getCache(t).cache
        /\ m_data = <<>> /\ todo = NoMeas /\ accepted = {} /\ written = <<>>
    BY DEF Init
  <1>2. r \in Pools /\ r.heap = <<>> /\ r.pool_size # 0 /\ ~r.resized
    <2>1. Pool \in Nat /\ Pool # 0 /\ Size \in Nat /\ Pool \div 3 \in Nat
      BY PoolAssumption
    <2>2. <<>> \in Seq(Caches) /\ <<>> \in Seq(Nat)
      OBVIOUS
    <2> QED BY <2>1, <2>2 DEF Pools
  <1> HIDE DEF r
  <1>3. SoundHeap(r) /\ DOMAIN r.heap = {}
    BY <1>2 DEF SoundHeap
  <1>4. Extended(r, t) /\ Free(t) # {}
    BY <1>2, <1>3, InitPoolFacts
  <1>5. t \in Pools /\ SoundPool(t)
    BY <1>4 DEF Extended
  <1> HIDE DEF t
  <1>6. Extended(t, st) /\ m_cache # 0 /\ m_cache \in DOMAIN st.heap /\ ~st.heap[m_cache].m_sync
    BY <1>1, <1>4, <1>5, GetCacheFacts
  <1>7. Extended(r, st)
    BY <1>4, <1>6, ExtendedTwice
  <1>8. /\ st \in Pools /\ SoundPool(st)
        /\ \A c \in DOMAIN st.heap : ~st.heap[c].m_sync /\ Blank(st.heap[c], st.resized)
    BY <1>3, <1>7 DEF Extended
  <1>9. TypeOK
    <2>1. st.heap \in Seq(Caches)
      BY <1>8 DEF Pools
    <2>2. m_cache \in Nat
      BY <1>6, <2>1
    <2>3. <<>> \in Seq(Nat) /\ <<>> \in Seq(Meas \cup {EmptyMeas})
      OBVIOUS
    <2> QED BY <1>1, <1>8, <2>2, <2>3 DEF TypeOK
  <1>10. Range(m_data) = {} /\ Range(written) = {} /\ DOMAIN m_data = {} /\ DOMAIN written = {}
    BY <1>1 DEF Range
  <1>11. Owned = {m_cache}
    BY <1>6, <1>10 DEF Owned
  <1>12. OwnedExist /\ TodoIsNew
    BY <1>1, <1>6, <1>11 DEF OwnedExist, TodoIsNew
  <1>13. OneOwner
    BY <1>8, <1>10 DEF OneOwner
  <1>14. FreeAreBlank /\ NothingInvented
    BY <1>8, <1>10 DEF FreeAreBlank, NothingInvented
  <1>15. HeldOnce
    <2> SUFFICES ASSUME NEW k \in Filled(m_cache)
                 PROVE  At(m_cache, k) = EmptyMeas /\ st.resized
      BY <1>10, <1>11 DEF HeldOnce
    <2>1. Blank(st.heap[m_cache], st.resized) /\ st.heap[m_cache].m_size \in Nat
      BY <1>6, <1>8, CacheFacts
    <2> QED BY <2>1 DEF Blank, Filled, At
  <1> QED BY <1>8, <1>9, <1>12, <1>13, <1>14, <1>15 DEF PoolInv

\* Every step keeps the invariant.
LEMMA StepHolds ==
    ASSUME PoolInv, [Next]_vars
    PROVE  PoolInv'
  <1>1. CASE UNCHANGED vars
    BY <1>1, QuietKeeps DEF vars, PoolInv, TypeOK, TodoIsNew
  <1>2. ASSUME NEW m \in Meas, Append1(m) PROVE PoolInv'
    BY <1>2, QuietKeeps DEF Append1
  <1>3. CASE Store
    BY <1>3, StoreKeeps
  <1>4. CASE Hand
    BY <1>4, HandKeeps
  <1>5. CASE \/ Take
             \/ \E n \in PoolSizes : SetPoolSize(n)
             \/ \E flg \in BOOLEAN : EnableDynamicSize(flg)
    BY <1>5, ExtendingSteps, ExtendedKeeps
  <1>6. CASE Write
    BY <1>6, WriteKeeps
  <1>7. ASSUME NEW n \in CacheSizes, SetCacheSize(n) PROVE PoolInv'
    BY <1>7, SetCacheSizeKeeps
  <1> QED BY <1>1, <1>2, <1>3, <1>4, <1>5, <1>6, <1>7 DEF Next

\* The invariant of the pool and its users, whatever sizes are set.
THEOREM PoolInvariant == Spec => []PoolInv
  <1>1. Init => PoolInv
    BY InitHolds
  <1>2. PoolInv /\ [Next]_vars => PoolInv'
    BY StepHolds
  <1> QED BY <1>1, <1>2, PTL DEF Spec

\* A cache is with append() or with the writer, and only there: a pool that is
\* replaced, grown or shrunk never gives out a cache that is still queued.
THEOREM CacheHasOneOwner == Spec => []OneOwner
  <1>1. PoolInv => OneOwner
    BY DEF PoolInv
  <1> QED BY <1>1, PoolInvariant, PTL

\* The writer writes each measurement once, and nothing that append() has not
\* stored, but for the empty ones of a cache that was resized.
THEOREM WrittenOnce == Spec => []NothingInvented
  <1>1. PoolInv => NothingInvented
    BY DEF PoolInv
  <1> QED BY <1>1, PoolInvariant, PTL

\* A measurement is on a page or in a cache in use.
Here(x) ==
    \/ x \in Range(written)
    \/ \E c \in Owned : \E k \in Filled(c) : At(c, k) = x

\* That is what Stored says.
LEMMA HereIsStored ==
    ASSUME PoolInv
    PROVE  \A x : x \in Stored <=> Here(x)
  <1>1. \A c \in Owned : Held(c) = {At(c, k) : k \in Filled(c)}
    BY ReadFacts DEF PoolInv, TypeOK, OwnedExist, Held, Filled, At
  <1>2. Stored = Range(written) \cup UNION {Held(c) : c \in Owned}
    BY DEF Stored, Owned
  <1> QED BY <1>1, <1>2 DEF Here

\* Likewise after a step.
LEMMA HereIsStoredNext ==
    ASSUME PoolInv'
    PROVE  \A x : x \in Stored' <=> Here(x)'
  <1>1. \A c \in Owned' : Held(c)' = {At(c, k)' : k \in Filled(c)'}
    <2> SUFFICES ASSUME NEW c \in Owned'
                 PROVE  Range(SubSeq(st'.heap[c].m_meases, 1, st'.heap[c].m_size))
                          = {st'.heap[c].m_meases[k] : k \in 1..st'.heap[c].m_size}
      BY DEF Held, Filled, At
    <2>1. st' \in Pools /\ SoundPool(st') /\ c \in DOMAIN st'.heap
      BY DEF PoolInv, TypeOK, OwnedExist
    <2> QED BY <2>1, ReadFacts
  <1>2. Stored' = Range(written') \cup UNION {Held(c)' : c \in Owned'}
    BY DEF Stored, Owned
  <1> QED BY <1>1, <1>2 DEF Here

\* What a step that extends the pool does with the measurements.
LEMMA ExtendedMoves ==
    ASSUME PoolInv, Extended(st, st'), UNCHANGED <<m_data, accepted, written>>,
           \/ m_cache' = m_cache
           \/ m_cache = 0 /\ m_cache' \in DOMAIN st'.heap /\ ~st'.heap[m_cache'].m_sync,
           NEW x \in accepted
    PROVE  Here(x)' <=> Here(x)
  <1>1. x # EmptyMeas
    BY PoolAssumption DEF PoolInv, TypeOK
  <1>2. /\ Owned \subseteq Owned'
        /\ \A c \in Owned : Filled(c)' = Filled(c) /\ \A k \in Filled(c) : At(c, k)' = At(c, k)
        /\ \A c \in Owned' \ Owned : \A k \in Filled(c)' : At(c, k)' = EmptyMeas
    BY ExtendedFacts
  <1>3. (\E c \in Owned' : \E k \in Filled(c)' : At(c, k)' = x) <=> (\E c \in Owned : \E k \in Filled(c) : At(c, k) = x)
    BY <1>1, <1>2
  <1> QED BY <1>3 DEF Here

\* Cache::append: there is one more.
LEMMA StoreAdds ==
    ASSUME PoolInv, Store
    PROVE  /\ \A x \in {todo} : Here(x)'
           /\ \A x \in accepted : Here(x)' <=> Here(x)
  <1>1. UNCHANGED written /\ TodoIsNew
    BY DEF Store, PoolInv
  <1>2. /\ Owned' = Owned
        /\ \E c \in Owned : \E k \in Filled(c)' : At(c, k)' = todo
        /\ \A c \in Owned : \A k \in Filled(c) : k \in Filled(c)' /\ At(c, k)' = At(c, k)
        /\ \A c \in Owned : \A k \in Filled(c)' :
             \/ k \in Filled(c) /\ At(c, k)' = At(c, k)
             \/ At(c, k)' = todo
    BY StoreMoves
  <1>3. \A x \in {todo} : Here(x)'
    BY <1>2 DEF Here
  <1>4. \A x \in accepted : Here(x)' <=> Here(x)
    BY <1>1, <1>2 DEF Here, TodoIsNew
  <1> QED BY <1>3, <1>4

\* writeCache(): the measurements are where they were.
LEMMA HandMoves ==
    ASSUME PoolInv, Hand, NEW x
    PROVE  Here(x)' <=> Here(x)
  <1>1. Owned' = Owned /\ UNCHANGED written /\ \A c \in Owned : Filled(c)' = Filled(c) /\ \A k \in Filled(c) : At(c, k)' = At(c, k)
    BY HandFacts DEF Filled, At, PoolInv, OwnedExist
  <1> QED BY <1>1 DEF Here

\* The writer: they go from the cache to the page.
LEMMA WriteMoves ==
    ASSUME PoolInv, Write, NEW x
    PROVE  Here(x)' <=> Here(x)
  <1> DEFINE c == Head(m_data)
  <1> DEFINE l == Len(written)
  <1> DEFINE n == st.heap[c].m_size
  <1>1. /\ c \in Owned /\ Owned' = Owned \ {c}
        /\ \A d \in DOMAIN st.heap \ {c} : st'.heap[d] = st.heap[d]
        /\ l \in Nat /\ n \in Nat
        /\ DOMAIN written' = 1..(l + n) /\ DOMAIN written = 1..l
        /\ \A i \in 1..l : written'[i] = written[i]
        /\ \A k \in 1..n : written'[l + k] = At(c, k)
        /\ \A i \in 1..(l + n) : i \notin 1..l => i - l \in 1..n /\ written'[i] = At(c, i - l)
    BY WriteFacts
  <1>2. Filled(c) = 1..n
    BY DEF Filled
  <1> HIDE DEF c, l, n
  <1>3. \A d \in Owned \ {c} : Filled(d)' = Filled(d) /\ \A k \in Filled(d) : At(d, k)' = At(d, k)
    BY <1>1 DEF Filled, At, PoolInv, OwnedExist
  <1>4. 1..l \subseteq 1..(l + n) /\ \A k \in 1..n : l + k \in 1..(l + n)
    BY <1>1
  <1>5. x \in Range(written') <=> x \in Range(written) \/ \E k \in Filled(c) : At(c, k) = x
    <2>1. ASSUME x \in Range(written') PROVE x \in Range(written) \/ \E k \in Filled(c) : At(c, k) = x
      <3>1. PICK i \in 1..(l + n) : written'[i] = x
        BY <1>1, <2>1 DEF Range
      <3>2. CASE i \in 1..l
        BY <1>1, <3>1, <3>2 DEF Range
      <3>3. CASE i \notin 1..l
        BY <1>1, <1>2, <3>1, <3>3
      <3> QED BY <3>2, <3>3
    <2>2. ASSUME x \in Range(written) PROVE x \in Range(written')
      <3>1. PICK i \in 1..l : written[i] = x
        BY <1>1, <2>2 DEF Range
      <3>2. i \in DOMAIN written' /\ written'[i] = x
        BY <1>1, <1>4, <3>1
      <3> QED BY <3>2 DEF Range
    <2>3. ASSUME NEW k \in Filled(c), At(c, k) = x PROVE x \in Range(written')
      <3>1. l + k \in DOMAIN written' /\ written'[l + k] = x
        BY <1>1, <1>2, <1>4, <2>3
      <3> QED BY <3>1 DEF Range
    <2> QED BY <2>1, <2>2, <2>3
  <1>6. (\E d \in Owned' : \E k \in Filled(d)' : At(d, k)' = x) <=> (\E d \in Owned \ {c} : \E k \in Filled(d) : At(d, k) = x)
    BY <1>1, <1>3
  <1>7. (\E d \in Owned : \E k \in Filled(d) : At(d, k) = x)
          <=> \/ \E d \in Owned \ {c} : \E k \in Filled(d) : At(d, k) = x
              \/ \E k \in Filled(c) : At(c, k) = x
    BY <1>1
  <1> QED BY <1>5, <1>6, <1>7 DEF Here

\* What a step other than setCacheSize() does with the measurements: the ones
\* append() stored before it are found as before, a new one is found.
LEMMA StepMoves ==
    ASSUME PoolInv, PoolInv', [Next]_vars, ~\E n \in CacheSizes : SetCacheSize(n)
    PROVE  accepted' \cap Stored' = (accepted \cap Stored) \cup (accepted' \ accepted)
  <1> DEFINE Moved == /\ accepted \subseteq accepted'
                      /\ \A x \in accepted : Here(x)' <=> Here(x)
                      /\ \A x \in accepted' \ accepted : Here(x)'
  <1> SUFFICES Moved
    BY HereIsStored, HereIsStoredNext
  <1>1. CASE UNCHANGED vars \/ \E m \in Meas : Append1(m)
    <2>1. UNCHANGED <<st, m_cache, m_data, accepted, written>>
      BY <1>1 DEF vars, Append1
    <2>2. \A x \in accepted : Here(x)' <=> Here(x)
      BY <2>1 DEF Here, Owned, Filled, At
    <2> QED BY <2>1, <2>2
  <1>2. CASE Store
    <2>1. accepted' = accepted \cup {todo}
      BY <1>2 DEF Store
    <2>2. (\A x \in {todo} : Here(x)') /\ \A x \in accepted : Here(x)' <=> Here(x)
      BY <1>2, StoreAdds
    <2>3. \A x \in accepted' \ accepted : Here(x)'
      BY <2>1, <2>2
    <2> QED BY <2>1, <2>2, <2>3
  <1>3. CASE Hand
    BY <1>3, HandMoves DEF Hand
  <1>4. CASE \/ Take
             \/ \E n \in PoolSizes : SetPoolSize(n)
             \/ \E flg \in BOOLEAN : EnableDynamicSize(flg)
    BY <1>4, ExtendingSteps, ExtendedMoves
  <1>5. CASE Write
    BY <1>5, WriteMoves DEF Write
  <1> QED BY <1>1, <1>2, <1>3, <1>4, <1>5 DEF Next

\* Nothing but setCacheSize() loses a measurement that append() has stored, in
\* any pool: not a new list of caches, not getCache() growing or shrinking the
\* pool beside caches that wait for the writer, and not the writer.
THEOREM PoolLosesNothing == Spec => NothingLost
  <1>1. PoolInv /\ PoolInv' /\ [Next]_vars =>
          [\/ \E n \in CacheSizes : SetCacheSize(n)
           \/ accepted' \cap Stored' = (accepted \cap Stored) \cup (accepted' \ accepted)]_vars
    BY StepMoves
  <1> QED BY <1>1, PoolInvariant, PTL DEF Spec, NothingLost
==============================================================================
