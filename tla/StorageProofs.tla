--------------------------- MODULE StorageProofs ---------------------------
(***************************************************************************)
(* Proof that Inv is an inductive invariant of Storage and that what it    *)
(* implies holds for any number of threads, caches and measurements and    *)
(* any size of caches, pages and arrays: nothing accepted is lost or       *)
(* written twice, a reader sees all of it, a closed storage has all of it. *)
(*                                                                         *)
(* One lemma per action shows that the action keeps Inv, with one step per *)
(* part of Inv that the action disturbs; the parts it leaves alone follow  *)
(* from the frame lemmas below.                                            *)
(***************************************************************************)
EXTENDS Storage, FiniteSetTheorems, TLAPS

-----------------------------------------------------------------------------
(* Frames: a part of the invariant depends on these variables only *)

\* Which method each thread executes.
LEMMA UserOrderFrame ==
    ASSUME UserOrder, UNCHANGED <<upc, ret, todo, m_cache>>
    PROVE  UserOrder'
  BY DEF UserOrder, InWriteCache, Appending

\* What append() still has to store.
LEMMA TodoIsFreshFrame ==
    ASSUME TodoIsFresh, UNCHANGED <<issued, accepted, todo>>
    PROVE  TodoIsFresh'
  BY DEF TodoIsFresh

\* The writer's thread and its call().
LEMMA WriterOrderFrame ==
    ASSUME WriterOrder, UNCHANGED <<m_thread_lock, wpc, m_data, m_stop_flag, wstep,
                                    cur, rest, meases, m_size>>
    PROVE  WriterOrder'
  BY DEF WriterOrder

\* How far the pipeline is flushed.
LEMMA FlushOrderFrame ==
    ASSUME FlushOrder, UNCHANGED <<upc, m_size, m_cache, m_data, m_thread_lock,
                                   cpc, wpc, m_stop_flag, m_closed>>
    PROVE  FlushOrder'
  BY DEF FlushOrder, W!Usable

\* Which cache belongs to whom.
LEMMA CacheOwnershipFrame ==
    ASSUME CacheOwnership, UNCHANGED <<m_cache, m_sync, m_data, cur, m_size, meases>>
    PROVE  CacheOwnership'
  BY DEF CacheOwnership

\* Where every measurement is.
LEMMA ExactlyOnceFrame ==
    ASSUME ExactlyOnce, UNCHANGED <<written, accepted, wstep, cur, rest, meases>>
    PROVE  ExactlyOnce'
  BY DEF ExactlyOnce, Unwritten

-----------------------------------------------------------------------------
(* Facts used for several actions *)

\* An array given to append(): distinct measurements, never appended before.
LEMMA BatchFacts ==
    ASSUME NEW n \in Nat, NEW b \in Batches(n)
    PROVE  /\ b \in Seq(Meas)
           /\ Len(b) \in 1..n
           /\ \A i \in 1..Len(b) : b[i] \in Meas \ issued
           /\ \A i, j \in 1..Len(b) : b[i] = b[j] => i = j
           /\ SetOf(b) \subseteq Meas
  <1>1. PICK k \in 1..n : b \in [1..k -> Meas \ issued]
    BY DEF Batches
  <1>2. \A i, j \in DOMAIN b : b[i] = b[j] => i = j
    BY DEF Batches
  <1>3. b \in Seq(Meas) /\ Len(b) = k /\ DOMAIN b = 1..k
    BY <1>1
  <1> QED BY <1>1, <1>2, <1>3 DEF SetOf

\* A thread inside a method, but not in getCache(), finds a cache.
LEMMA HasCache ==
    ASSUME UserOrder, TypeOK, NEW t \in Threads, upc[t] # "idle", upc[t] # "get_cache"
    PROVE  m_cache \in Caches
  BY DEF UserOrder, TypeOK

\* All other threads are idle and have nothing to append.
LEMMA OthersIdle ==
    ASSUME UserOrder, NEW t \in Threads, upc[t] # "idle",
           NEW u \in Threads, u # t
    PROVE  upc[u] = "idle" /\ todo[u] = <<>>
  BY DEF UserOrder, InWriteCache, Appending

\* The append() cache is not the one call() works on.
LEMMA CacheIsNotCur ==
    ASSUME CacheOwnership, m_cache # NoCache PROVE m_cache # cur
  BY DEF CacheOwnership

\* Storing accepted measurements in the append() cache keeps each in exactly
\* one place.
LEMMA StoreOnce ==
    ASSUME TypeOK, CacheOwnership, ExactlyOnce, m_cache \in Caches,
           NEW S \in SUBSET Meas, S \cap accepted = {},
           meases' = [meases EXCEPT ![m_cache] = @ \cup S],
           accepted' = accepted \cup S,
           UNCHANGED <<written, wstep, cur, rest>>
    PROVE  ExactlyOnce'
  <1> USE StorageNamesAssumption
  <1>1. m_cache # cur
    BY CacheIsNotCur
  <1>2. \A c \in Caches : Unwritten(c)' = IF c = m_cache THEN Unwritten(c) \cup S
                                         ELSE Unwritten(c)
    BY <1>1 DEF Unwritten, TypeOK
  <1> SUFFICES ASSUME NEW m \in Meas
               PROVE  \/ /\ written'[m] = IF m \in accepted' THEN 1 ELSE 0
                         /\ \A c \in Caches : m \notin Unwritten(c)'
                      \/ /\ written'[m] = 0 /\ m \in accepted'
                         /\ \E c \in Caches :
                               \A d \in Caches : m \in Unwritten(d)' <=> d = c
    BY DEF ExactlyOnce
  <1>3. CASE m \in S
    <2>1. written[m] = 0 /\ \A c \in Caches : m \notin Unwritten(c)
      BY <1>3 DEF ExactlyOnce
    <2>2. \A d \in Caches : m \in Unwritten(d)' <=> d = m_cache
      BY <1>2, <1>3, <2>1
    <2> QED BY <1>3, <2>1, <2>2
  <1>4. CASE m \notin S
    <2>1. \A d \in Caches : m \in Unwritten(d)' <=> m \in Unwritten(d)
      BY <1>2, <1>4
    <2>2. m \in accepted' <=> m \in accepted
      BY <1>4
    <2> HIDE DEF Unwritten
    <2> QED BY <2>1, <2>2 DEF ExactlyOnce
  <1> QED BY <1>3, <1>4

-----------------------------------------------------------------------------
(* One lemma per action *)

\* append() takes an array no part of which was appended before.
LEMMA BeginAppendKeeps ==
    ASSUME Inv, NEW t \in Threads, NEW n \in Nat, NEW b \in Batches(n),
           NEW place \in {"one", "array"}, place = "one" => n = 1, BeginAppend(t, b, place)
    PROVE  Inv'
  <1> USE SizesAssumption, StorageNamesAssumption
          DEF workerVars, cacheVars, userVars, callVars, histVars
  <1>1. /\ b \in Seq(Meas)
        /\ Len(b) \in 1..n
        /\ \A i \in 1..Len(b) : b[i] \in Meas \ issued
        /\ \A i, j \in 1..Len(b) : b[i] = b[j] => i = j
        /\ SetOf(b) \subseteq Meas
        /\ place = "one" => Len(b) = 1
    <2>1. n = 1 => 1..n = {1}
      OBVIOUS
    <2> QED BY <2>1, BatchFacts
  <1>2. /\ \A u \in Threads : upc[u] = "idle"
        /\ upc' = [upc EXCEPT ![t] = place]
        /\ todo' = [todo EXCEPT ![t] = b]
        /\ issued' = issued \cup SetOf(b)
        /\ UNCHANGED <<ret, m_cache, accepted>>
    BY DEF BeginAppend, Lock, Goto, NobodyUnlocked
  <1>3. \A u \in Threads : todo'[u] = IF u = t THEN b ELSE <<>>
    BY <1>2 DEF Inv, TypeOK, UserOrder, Appending, InWriteCache
  <1>4. TypeOK'
    <2>1. TypeOK /\ W!TypeOK
      BY DEF Inv, TypeOK
    <2>2. W!TypeOK'
      BY <2>1 DEF W!TypeOK, BeginAppend
    <2>3. /\ upc' \in [Threads -> Places]
          /\ todo' \in [Threads -> Seq(Meas)]
          /\ issued' \in SUBSET Meas
      BY <1>1, <1>2, <2>1 DEF TypeOK, Places
    <2> QED BY <2>1, <2>2, <2>3 DEF TypeOK, BeginAppend, Lock
  <1>5. UserOrder'
    <2>1. upc'[t] = place /\ \A u \in Threads : u # t => upc'[u] = "idle"
      BY <1>2 DEF Inv, TypeOK
    <2>2. m_cache # NoCache
      BY <1>2 DEF Inv, UserOrder
    <2>3. UNCHANGED <<m_cache, ret>> /\ place \in {"one", "array"}
      BY <1>2
    <2> HIDE DEF Inv
    <2>4. \A u \in Threads : upc'[u] # "get_cache" /\ upc'[u] # "write_cache"
      BY <2>1, <2>3
    <2> QED BY <1>1, <1>3, <2>1, <2>2, <2>3, <2>4 DEF UserOrder, InWriteCache, Appending
  <1>6. TodoIsFresh'
    BY <1>1, <1>2, <1>3 DEF Inv, TodoIsFresh, SetOf
  <1>7. FlushOrder'
    BY DEF Inv, TypeOK, W!TypeOK, UserOrder, InWriteCache, Appending,
           WriterOrder, FlushOrder, CacheOwnership, W!Usable, BeginAppend,
           Lock, Goto, NobodyUnlocked
  <1>8. WriterOrder'
    BY WriterOrderFrame DEF Inv, BeginAppend, Lock, Goto, NobodyUnlocked
  <1>9. CacheOwnership'
    BY CacheOwnershipFrame DEF Inv, BeginAppend, Lock, Goto, NobodyUnlocked
  <1>10. ExactlyOnce'
    BY ExactlyOnceFrame DEF Inv, BeginAppend, Lock, Goto, NobodyUnlocked
  <1> QED BY <1>4, <1>5, <1>6, <1>7, <1>8, <1>9, <1>10 DEF Inv

\* append(value): ignored, stored in the cache, or the full cache is sent away.
LEMMA CacheAppendOneKeeps ==
    ASSUME Inv, NEW t \in Threads, CacheAppendOne(t)
    PROVE  Inv'
  <1> USE SizesAssumption, StorageNamesAssumption
          DEF workerVars, cacheVars, userVars, callVars, histVars
  <1> DEFINE m == todo[t][1]
  <1>1. TypeOK /\ UserOrder /\ TodoIsFresh /\ WriterOrder /\ FlushOrder
        /\ CacheOwnership /\ ExactlyOnce
    BY DEF Inv
  <1>2. /\ upc[t] = "one"
        /\ UNCHANGED <<m_data, m_thread_lock, m_stop_flag, m_thread_work, wpc, cur, cpc,
                       m_cache, m_sync, rest, wstep, written, write_pos, issued, m_closed>>
    BY DEF CacheAppendOne
  <1>3. m_cache \in Caches /\ m_cache # cur
    <2>1. m_cache \in Caches
      BY <1>1, <1>2, HasCache
    <2> QED BY <1>1, <2>1, CacheIsNotCur
  <1>4. m \in Meas /\ m \in issued /\ m \notin accepted
    BY <1>1, <1>2 DEF UserOrder, TodoIsFresh, TypeOK
  <1>5. \A u \in Threads : u # t => upc[u] = "idle" /\ todo[u] = <<>>
    BY <1>1, <1>2, OthersIdle
  <1>6. CASE /\ m \in Old
             /\ Unlock(t)
             /\ todo' = [todo EXCEPT ![t] = <<>>]
             /\ UNCHANGED <<meases, m_size, accepted, ret>>
    <2>1. TypeOK'
      BY <1>1, <1>2, <1>6 DEF TypeOK, W!TypeOK, Unlock, Goto, Places
    <2>2. UserOrder'
      BY <1>1, <1>2, <1>5, <1>6 DEF TypeOK, UserOrder, InWriteCache, Appending, Unlock, Goto
    <2>3. TodoIsFresh'
      BY <1>1, <1>2, <1>6 DEF TypeOK, TodoIsFresh
    <2>4. WriterOrder'
      BY <1>1, <1>2, <1>6, WriterOrderFrame
    <2>5. FlushOrder'
      BY <1>1, <1>2, <1>6 DEF TypeOK, FlushOrder, W!Usable, Unlock, Goto
    <2>6. CacheOwnership'
      BY <1>1, <1>2, <1>6, CacheOwnershipFrame
    <2>7. ExactlyOnce'
      BY <1>1, <1>2, <1>6, ExactlyOnceFrame
    <2> QED BY <2>1, <2>2, <2>3, <2>4, <2>5, <2>6, <2>7 DEF Inv
  <1>7. CASE /\ Capacity(m_cache) > 0
             /\ meases' = [meases EXCEPT ![m_cache] = @ \cup {m}]
             /\ m_size' = [m_size EXCEPT ![m_cache] = @ + 1]
             /\ accepted' = accepted \cup {m}
             /\ Unlock(t)
             /\ todo' = [todo EXCEPT ![t] = <<>>]
             /\ UNCHANGED ret
    <2>1. TypeOK'
      <3>1. m_size' \in [Caches -> 0..CacheSize]
        BY <1>1, <1>3, <1>7 DEF TypeOK, Capacity
      <3>2. meases' \in [Caches -> SUBSET Meas]
        BY <1>1, <1>3, <1>4, <1>7 DEF TypeOK
      <3> QED BY <1>1, <1>2, <1>4, <1>7, <3>1, <3>2
              DEF TypeOK, W!TypeOK, Unlock, Goto, Places
    <2>2. UserOrder'
      BY <1>1, <1>2, <1>5, <1>7 DEF TypeOK, UserOrder, InWriteCache, Appending, Unlock, Goto
    <2>3. TodoIsFresh'
      <3>1. \A u \in Threads : todo'[u] = <<>>
        BY <1>1, <1>5, <1>7 DEF TypeOK
      <3> QED BY <1>1, <1>2, <1>4, <1>7, <3>1 DEF TodoIsFresh
    <2>4. WriterOrder'
      <3>1. cur \in Caches => meases'[cur] = meases[cur] /\ m_size'[cur] = m_size[cur]
        BY <1>1, <1>3, <1>7 DEF TypeOK
      <3>2. cur # NoCache => cur \in Caches
        BY <1>1 DEF TypeOK, W!TypeOK
      <3> QED BY <1>1, <1>2, <3>1, <3>2 DEF WriterOrder
    <2>5. FlushOrder'
      BY <1>1, <1>2, <1>5, <1>7 DEF TypeOK, FlushOrder, W!Usable, Unlock, Goto
    <2>6. CacheOwnership'
      <3>1. \A c \in Caches : c # m_cache => meases'[c] = meases[c] /\ m_size'[c] = m_size[c]
        BY <1>1, <1>7 DEF TypeOK
      <3>2. m_size'[m_cache] # 0
        BY <1>1, <1>3, <1>7 DEF TypeOK
      <3> QED BY <1>1, <1>2, <1>3, <3>1, <3>2 DEF CacheOwnership
    <2>7. ExactlyOnce'
      <3>1. {m} \in SUBSET Meas /\ {m} \cap accepted = {}
        BY <1>4
      <3> HIDE DEF m
      <3> QED BY <1>1, <1>2, <1>3, <1>7, <3>1, StoreOnce
    <2> QED BY <2>1, <2>2, <2>3, <2>4, <2>5, <2>6, <2>7 DEF Inv
  <1>8. CASE /\ Capacity(m_cache) = 0
             /\ CallWriteCache(t, "one")
             /\ UNCHANGED <<meases, m_size, accepted, m_write_mutex, todo>>
    <2>1. TypeOK'
      BY <1>1, <1>2, <1>8 DEF TypeOK, W!TypeOK, CallWriteCache, Goto, Places
    <2>2. UserOrder'
      BY <1>1, <1>2, <1>5, <1>8
      DEF TypeOK, UserOrder, InWriteCache, Appending, CallWriteCache, Goto
    <2>3. TodoIsFresh'
      BY <1>1, <1>2, <1>8, TodoIsFreshFrame
    <2>4. WriterOrder'
      BY <1>1, <1>2, <1>8, WriterOrderFrame
    <2>5. FlushOrder'
      BY <1>1, <1>2, <1>8 DEF TypeOK, FlushOrder, W!Usable, CallWriteCache, Goto
    <2>6. CacheOwnership'
      BY <1>1, <1>2, <1>8, CacheOwnershipFrame
    <2>7. ExactlyOnce'
      BY <1>1, <1>2, <1>8, ExactlyOnceFrame
    <2> QED BY <2>1, <2>2, <2>3, <2>4, <2>5, <2>6, <2>7 DEF Inv
  <1> QED BY <1>6, <1>7, <1>8 DEF CacheAppendOne

\* append(array) looks at isFull() before its loop.
LEMMA ArrayEntryKeeps ==
    ASSUME Inv, NEW t \in Threads, ArrayEntry(t)
    PROVE  Inv'
  <1>1. /\ upc[t] = "array"
        /\ \/ upc' = [upc EXCEPT ![t] = "write_cache"] /\ ret' = [ret EXCEPT ![t] = "chunk"]
           \/ upc' = [upc EXCEPT ![t] = "chunk"] /\ ret' = ret
        /\ UNCHANGED <<m_data, m_thread_lock, m_stop_flag, m_thread_work, wpc, cur, cpc,
                       m_cache, meases, m_size, m_sync, rest, wstep, written,
                       write_pos, issued, accepted, m_write_mutex, todo, m_closed>>
    BY DEF ArrayEntry, CallWriteCache, Goto, workerVars, cacheVars, callVars, histVars
  <1>2. TypeOK /\ UserOrder /\ TodoIsFresh /\ WriterOrder /\ FlushOrder
        /\ CacheOwnership /\ ExactlyOnce
    BY DEF Inv
  <1>3. /\ upc'[t] \in {"write_cache", "chunk"}
        /\ upc'[t] = "write_cache" => ret'[t] = "chunk"
        /\ \A u \in Threads : u # t => /\ upc[u] = "idle" /\ upc'[u] = "idle"
                                       /\ todo[u] = <<>>
    <2>1. \A u \in Threads : u # t => upc[u] = "idle" /\ todo[u] = <<>>
      BY <1>1, <1>2, OthersIdle
    <2> QED BY <1>1, <1>2, <2>1 DEF TypeOK
  <1>4. TypeOK'
    <2>1. upc' \in [Threads -> Places] /\ ret' \in [Threads -> Places]
      BY <1>1, <1>2 DEF TypeOK, Places
    <2> QED BY <1>1, <1>2, <2>1 DEF TypeOK, W!TypeOK
  <1>5. UserOrder'
    <2>1. m_cache # NoCache /\ \A u \in Threads : upc'[u] # "get_cache"
      BY <1>1, <1>2, <1>3 DEF UserOrder
    <2> QED BY <1>1, <1>3, <2>1 DEF UserOrder, InWriteCache, Appending
  <1>6. FlushOrder'
    <2>1. \A u \in Threads : upc'[u] \in {"idle", "write_cache", "chunk"}
      BY <1>3
    <2>2. \A u \in Threads : upc[u] \in {"idle", "array"}
      BY <1>1, <1>3
    <2> QED BY <1>1, <1>2, <2>1, <2>2 DEF FlushOrder, W!Usable
  <1>7. TodoIsFresh' /\ WriterOrder'
    BY <1>1, <1>2, TodoIsFreshFrame, WriterOrderFrame
  <1>8. CacheOwnership' /\ ExactlyOnce'
    BY <1>1, <1>2, CacheOwnershipFrame, ExactlyOnceFrame
  <1> QED BY <1>4, <1>5, <1>6, <1>7, <1>8 DEF Inv

\* append(array) stores a prefix that fits, less what checkPastTime rejects: the
\* size of the cache stays within CacheSize and what is left is still fresh.
LEMMA CacheAppendArrayKeeps ==
    ASSUME Inv, NEW t \in Threads, CacheAppendArray(t)
    PROVE  Inv'
  <1> USE SizesAssumption, StorageNamesAssumption
          DEF workerVars, cacheVars, userVars, callVars, histVars
  <1> DEFINE writed == Smaller(Capacity(m_cache), Len(todo[t]))
             Stored(ig) == {todo[t][i] : i \in (1..writed) \ ig}
  <1>1. TypeOK /\ UserOrder /\ TodoIsFresh /\ WriterOrder /\ FlushOrder
        /\ CacheOwnership /\ ExactlyOnce
    BY DEF Inv
  <1>2. PICK ignored \in SUBSET (1..writed) :
            /\ meases' = [meases EXCEPT ![m_cache] = @ \cup Stored(ignored)]
            /\ m_size' = [m_size EXCEPT ![m_cache] =
                             @ + (writed - Cardinality(ignored))]
            /\ accepted' = accepted \cup Stored(ignored)
    BY DEF CacheAppendArray
  <1>3. /\ upc[t] = "chunk"
        /\ todo' = [todo EXCEPT ![t] = SubSeq(@, writed + 1, Len(@))]
        /\ \/ /\ writed = Len(todo[t])
              /\ upc' = [upc EXCEPT ![t] = "idle"]
              /\ ret' = ret /\ m_write_mutex' = NoThread
           \/ /\ upc' = [upc EXCEPT ![t] = "write_cache"]
              /\ ret' = [ret EXCEPT ![t] = "chunk"]
              /\ m_write_mutex' = m_write_mutex
        /\ UNCHANGED <<m_data, m_thread_lock, m_stop_flag, m_thread_work, wpc, cur, cpc,
                       m_cache, m_sync, rest, wstep, written, write_pos, issued, m_closed>>
    BY DEF CacheAppendArray, Unlock, CallWriteCache, Goto
  <1>4. m_cache \in Caches /\ m_cache # cur
    <2>1. m_cache \in Caches
      BY <1>1, <1>3, HasCache
    <2> QED BY <1>1, <2>1, CacheIsNotCur
  <1>5. \A u \in Threads : u # t => upc[u] = "idle" /\ todo[u] = <<>>
    BY <1>1, <1>3, OthersIdle
  <1>6. /\ todo[t] \in Seq(Meas) /\ Len(todo[t]) \in Nat
        /\ \A i \in 1..Len(todo[t]) : todo[t][i] \in Meas
    BY <1>1 DEF TypeOK
  <1>7. /\ m_size[m_cache] \in 0..CacheSize
        /\ writed \in 0..Len(todo[t])
        /\ m_size[m_cache] + writed <= CacheSize
    BY <1>1, <1>4, <1>6 DEF TypeOK, Smaller, Capacity
  <1> DEFINE stored == Stored(ignored)
             left == SubSeq(todo[t], writed + 1, Len(todo[t]))
  <1>8. /\ stored \in SUBSET Meas /\ stored \subseteq issued
        /\ stored \cap accepted = {}
    <2>1. \A i \in 1..writed : i \in 1..Len(todo[t])
      BY <1>6, <1>7
    <2> QED BY <1>1, <1>6, <2>1 DEF TodoIsFresh
  <1>9. /\ Cardinality(ignored) \in 0..writed
        /\ Cardinality(ignored) = writed => stored = {}
    <2> HIDE DEF writed
    <2>1. IsFiniteSet(1..writed) /\ Cardinality(1..writed) = writed
      <3>1. writed \in Nat
        BY <1>6, <1>7
      <3> QED BY <3>1, FS_Interval
    <2>2. /\ IsFiniteSet(ignored) /\ Cardinality(ignored) <= writed
          /\ (Cardinality(ignored) = writed => ignored = 1..writed)
      BY <1>2, <2>1, FS_Subset
    <2>3. Cardinality(ignored) \in Nat
      BY <2>2, FS_CardinalityType
    <2>4. ignored = 1..writed => stored = {}
      OBVIOUS
    <2> QED BY <1>6, <1>7, <2>2, <2>3, <2>4
  <1>10. /\ left \in Seq(Meas) /\ Len(left) = Len(todo[t]) - writed
         /\ \A i \in 1..Len(left) :
               i + writed \in 1..Len(todo[t]) /\ left[i] = todo[t][i + writed]
         /\ writed = Len(todo[t]) => left = <<>>
    <2> HIDE DEF writed
    <2>1. left \in Seq(Meas) /\ Len(left) = Len(todo[t]) - writed
      BY <1>6, <1>7
    <2>2. \A i \in 1..Len(left) :
             i + writed \in 1..Len(todo[t]) /\ left[i] = todo[t][i + writed]
      BY <1>6, <1>7, <2>1
    <2>3. writed = Len(todo[t]) => left = <<>>
      BY <1>6, <2>1
    <2> QED BY <2>1, <2>2, <2>3
  <1>11. todo'[t] = left /\ \A u \in Threads : u # t => todo'[u] = <<>>
    BY <1>1, <1>3, <1>5 DEF TypeOK
  <1>12. /\ m_size' \in [Caches -> 0..CacheSize]
         /\ m_size'[m_cache] = 0 => m_size[m_cache] = 0 /\ stored = {}
         /\ meases'[m_cache] = meases[m_cache] \cup stored
         /\ \A c \in Caches : c # m_cache =>
                meases'[c] = meases[c] /\ m_size'[c] = m_size[c]
    <2> HIDE DEF writed, stored
    <2>1. m_size'[m_cache] = m_size[m_cache] + (writed - Cardinality(ignored))
      BY <1>1, <1>2, <1>4 DEF TypeOK
    <2>2. m_size'[m_cache] \in 0..CacheSize
          /\ (m_size'[m_cache] = 0 =>
                 m_size[m_cache] = 0 /\ Cardinality(ignored) = writed)
      BY <1>6, <1>7, <1>9, <2>1
    <2>3. \A c \in Caches : c # m_cache =>
                meases'[c] = meases[c] /\ m_size'[c] = m_size[c]
      BY <1>1, <1>2 DEF TypeOK
    <2>4. m_size' \in [Caches -> 0..CacheSize]
      BY <1>1, <1>2, <2>1, <2>2, <2>3 DEF TypeOK
    <2>5. meases'[m_cache] = meases[m_cache] \cup stored
      BY <1>1, <1>2, <1>4 DEF TypeOK, stored
    <2> QED BY <1>9, <2>2, <2>3, <2>4, <2>5
  <1>13. TypeOK'
    <2>1. meases' \in [Caches -> SUBSET Meas]
      BY <1>1, <1>2, <1>8 DEF TypeOK
    <2>2. todo' \in [Threads -> Seq(Meas)]
      BY <1>1, <1>3, <1>10 DEF TypeOK
    <2>3. accepted' \in SUBSET Meas
      BY <1>1, <1>2, <1>8 DEF TypeOK
    <2>4. /\ upc' \in [Threads -> Places] /\ ret' \in [Threads -> Places]
          /\ m_write_mutex' \in Threads \cup {NoThread}
      BY <1>1, <1>3 DEF TypeOK, Places
    <2> QED BY <1>1, <1>3, <1>12, <2>1, <2>2, <2>3, <2>4 DEF TypeOK, W!TypeOK
  <1> HIDE DEF writed, left, stored
  <1>14. UserOrder'
    <2>1. CASE /\ writed = Len(todo[t])
               /\ upc' = [upc EXCEPT ![t] = "idle"]
               /\ ret' = ret
      <3>1. \A u \in Threads : upc'[u] = "idle" /\ todo'[u] = <<>>
        BY <1>1, <1>5, <1>10, <1>11, <2>1 DEF TypeOK
      <3> QED BY <1>1, <1>3, <1>4, <3>1 DEF UserOrder, InWriteCache
    <2>2. CASE /\ upc' = [upc EXCEPT ![t] = "write_cache"]
               /\ ret' = [ret EXCEPT ![t] = "chunk"]
      <3>1. /\ upc'[t] = "write_cache" /\ ret'[t] = "chunk"
            /\ \A u \in Threads : u # t => upc'[u] = "idle" /\ todo'[u] = <<>>
        BY <1>1, <1>5, <1>11, <2>2 DEF TypeOK
      <3> QED BY <1>1, <1>3, <1>4, <3>1 DEF UserOrder, InWriteCache, Appending
    <2> QED BY <1>3, <2>1, <2>2
  <1>15. TodoIsFresh'
    <2>1. accepted' \subseteq issued'
      BY <1>1, <1>2, <1>3, <1>8 DEF TodoIsFresh, stored
    <2>2. ASSUME NEW u \in Threads, NEW i \in 1..Len(todo'[u])
          PROVE  todo'[u][i] \in issued' \ accepted'
      <3>1. u = t
        BY <1>11
      <3>2. i \in 1..Len(left) /\ todo'[u][i] = todo[t][i + writed]
            /\ i + writed \in 1..Len(todo[t])
        BY <1>10, <1>11, <3>1
      <3>3. todo[t][i + writed] \in issued \ accepted
        BY <1>1, <3>2 DEF TodoIsFresh
      <3>4. ASSUME NEW k \in 1..writed PROVE todo[t][k] # todo[t][i + writed]
        <4>1. k \in 1..Len(todo[t]) /\ k # i + writed
          BY <1>6, <1>7, <3>2
        <4> QED BY <1>1, <3>2, <4>1 DEF TodoIsFresh
      <3>5. todo[t][i + writed] \notin stored
        BY <3>4 DEF stored
      <3>6. issued' = issued /\ accepted' = accepted \cup stored
        BY <1>2, <1>3 DEF stored
      <3> QED BY <3>2, <3>3, <3>5, <3>6
    <2>3. ASSUME NEW u \in Threads, NEW i \in 1..Len(todo'[u]), NEW j \in 1..Len(todo'[u]),
                 todo'[u][i] = todo'[u][j]
          PROVE  i = j
      <3>1. u = t
        BY <1>11
      <3>2. i + writed = j + writed
        <4>1. i \in 1..Len(left) /\ j \in 1..Len(left) /\ left[i] = left[j]
          BY <1>11, <2>3, <3>1
        <4>2. /\ i + writed \in 1..Len(todo[t]) /\ j + writed \in 1..Len(todo[t])
              /\ todo[t][i + writed] = todo[t][j + writed]
          BY <1>10, <4>1
        <4> QED BY <1>1, <4>2 DEF TodoIsFresh
      <3>3. i \in Nat /\ j \in Nat /\ writed \in Nat
        BY <1>6, <1>7, <1>10, <1>11, <3>1
      <3> QED BY <3>2, <3>3
    <2> QED BY <2>1, <2>2, <2>3 DEF TodoIsFresh
  <1>16. WriterOrder'
    <2>1. cur # NoCache => cur \in Caches
      BY <1>1 DEF TypeOK, W!TypeOK
    <2> QED BY <1>1, <1>3, <1>4, <1>12, <2>1 DEF WriterOrder
  <1>17. FlushOrder'
    <2>1. \A u \in Threads : upc'[u] \in {"idle", "write_cache"}
      BY <1>1, <1>3, <1>5 DEF TypeOK
    <2>2. \A u \in Threads : upc[u] \in {"idle", "chunk"}
      BY <1>3, <1>5
    <2> QED BY <1>1, <1>3, <2>1, <2>2 DEF FlushOrder, W!Usable
  <1>18. CacheOwnership'
    <2>1. ASSUME NEW c \in Caches
          PROVE  /\ m_sync'[c] => c = cur' \/ \E i \in 1..Len(m_data') : m_data'[i] = c
                 /\ ~m_sync'[c] /\ c # m_cache' => m_size'[c] = 0
                 /\ m_size'[c] = 0 => meases'[c] = {}
      BY <1>1, <1>3, <1>12 DEF CacheOwnership
    <2> QED BY <1>1, <1>3, <2>1 DEF CacheOwnership
  <1>19. ExactlyOnce'
    BY <1>1, <1>2, <1>3, <1>4, <1>8, StoreOnce DEF stored
  <1> QED BY <1>13, <1>14, <1>15, <1>16, <1>17, <1>18, <1>19 DEF Inv

\* writeCache() of an empty cache returns to its caller.
LEMMA WriteCacheEmptyKeeps ==
    ASSUME Inv, NEW t \in Threads, WriteCacheEmpty(t)
    PROVE  Inv'
  <1> USE SizesAssumption, StorageNamesAssumption
          DEF workerVars, cacheVars, userVars, callVars, histVars
  <1>1. /\ \A u \in Threads : u # t => upc[u] = "idle" /\ upc'[u] = "idle"
        /\ upc[t] = "write_cache" /\ upc'[t] = ret[t]
        /\ ret[t] \in {"one", "chunk", "drain", "cur_drain", "close"}
        /\ m_size[m_cache] = 0
    <2>1. upc[t] = "write_cache" /\ upc' = [upc EXCEPT ![t] = ret[t]]
          /\ m_size[m_cache] = 0
      BY DEF WriteCacheEmpty, Goto
    <2>2. ret[t] \in {"one", "chunk", "drain", "cur_drain", "close"}
      BY <2>1 DEF Inv, UserOrder, InWriteCache
    <2>3. \A u \in Threads : u # t => upc[u] = "idle"
      BY <2>1, OthersIdle DEF Inv
    <2> QED BY <2>1, <2>2, <2>3 DEF Inv, TypeOK
  <1>2. TypeOK'
    BY DEF Inv, TypeOK, W!TypeOK, W!WorkerPlaces, W!ClientPlaces, Places,
           UserOrder, InWriteCache, Appending, WriterOrder, WriteCacheEmpty,
           Goto
  <1>3. UserOrder'
    <2>1. UserOrder /\ UNCHANGED <<m_cache, ret, todo>>
      BY DEF Inv, WriteCacheEmpty
    <2>2. m_cache' # NoCache
      BY <1>1, <2>1, HasCache DEF Inv
    <2>3. \A u \in Threads : upc'[u] # "get_cache" /\ upc'[u] # "write_cache"
      BY <1>1
    <2> QED BY <1>1, <2>1, <2>2, <2>3 DEF UserOrder, InWriteCache, Appending
  <1>4. FlushOrder'
    <2>1. UNCHANGED <<m_size, m_cache, m_data, m_thread_lock, cpc, wpc, m_stop_flag,
                      m_closed>>
      BY DEF WriteCacheEmpty
    <2> QED BY <1>1, <2>1 DEF Inv, FlushOrder, W!Usable
  <1>5. TodoIsFresh'
    BY TodoIsFreshFrame DEF Inv, WriteCacheEmpty, Goto
  <1>6. WriterOrder'
    BY WriterOrderFrame DEF Inv, WriteCacheEmpty, Goto
  <1>7. CacheOwnership'
    BY CacheOwnershipFrame DEF Inv, WriteCacheEmpty, Goto
  <1>8. ExactlyOnce'
    BY ExactlyOnceFrame DEF Inv, WriteCacheEmpty, Goto
  <1> QED BY <1>2, <1>3, <1>4, <1>5, <1>6, <1>7, <1>8 DEF Inv

\* writeCache() queues the marked cache: no other entry of the queue is the same.
LEMMA WriteCacheAddKeeps ==
    ASSUME Inv, NEW t \in Threads, WriteCacheAdd(t)
    PROVE  Inv'
  <1> USE SizesAssumption, StorageNamesAssumption
          DEF workerVars, cacheVars, userVars, callVars, histVars
  <1>1. TypeOK /\ UserOrder /\ TodoIsFresh /\ WriterOrder /\ FlushOrder
        /\ CacheOwnership /\ ExactlyOnce
    BY DEF Inv
  <1>2. /\ upc[t] = "write_cache" /\ W!Usable
        /\ m_sync' = [m_sync EXCEPT ![m_cache] = TRUE]
        /\ m_data' = Append(m_data, m_cache)
        /\ wpc' = W!Notified
        /\ m_cache' = NoCache
        /\ upc' = [upc EXCEPT ![t] = "get_cache"]
        /\ UNCHANGED <<m_thread_lock, m_stop_flag, m_thread_work, cur, cpc,
                       meases, m_size, rest, wstep, written, write_pos, issued,
                       accepted, m_write_mutex, ret, todo, m_closed>>
    BY DEF WriteCacheAdd, W!Add, Goto
  <1>3. m_cache \in Caches /\ m_cache # cur
    <2>1. m_cache \in Caches
      BY <1>1, <1>2, HasCache
    <2> QED BY <1>1, <2>1, CacheIsNotCur
  <1>4. /\ m_data \in Seq(Caches) /\ m_data' \in Seq(Caches)
        /\ Len(m_data) \in Nat
        /\ Len(m_data') = Len(m_data) + 1
        /\ \A i \in 1..Len(m_data) : m_data'[i] = m_data[i]
        /\ m_data'[Len(m_data) + 1] = m_cache
        /\ m_data' # <<>>
    <2>1. m_data \in Seq(Caches) /\ m_data' = Append(m_data, m_cache)
      BY <1>1, <1>2 DEF TypeOK, W!TypeOK
    <2> QED BY <1>3, <2>1
  <1>5. TypeOK'
    <2>1. W!TypeOK'
      <3>1. W!TypeOK
        BY <1>1 DEF TypeOK
      <3>2. wpc' \in W!WorkerPlaces
        BY <1>2, <3>1 DEF W!TypeOK, W!WorkerPlaces, W!Notified
      <3> QED BY <1>2, <1>4, <3>1, <3>2 DEF W!TypeOK
    <2>2. /\ m_sync' \in [Caches -> BOOLEAN]
          /\ upc' \in [Threads -> Places]
          /\ m_cache' \in Caches \cup {NoCache}
      BY <1>1, <1>2, <1>3 DEF TypeOK, Places
    <2> QED BY <1>1, <1>2, <2>1, <2>2 DEF TypeOK
  <1>6. UserOrder'
    <2>1. \A u \in Threads : u # t => upc[u] = "idle" /\ upc'[u] = "idle"
      BY <1>1, <1>2, OthersIdle DEF TypeOK
    <2>2. upc'[t] = "get_cache" /\ InWriteCache(t)
      BY <1>1, <1>2 DEF TypeOK, InWriteCache
    <2> QED BY <1>1, <1>2, <2>1, <2>2 DEF UserOrder, InWriteCache, Appending
  <1>7. TodoIsFresh'
    BY <1>1, <1>2, TodoIsFreshFrame
  <1>8. WriterOrder'
    BY <1>1, <1>2, <1>4 DEF WriterOrder, W!Notified
  <1>9. FlushOrder'
    <2>1. ~m_stop_flag
      BY <1>1, <1>2 DEF FlushOrder
    <2>2. \A u \in Threads : u # t => upc[u] = "idle"
      BY <1>1, <1>2, OthersIdle
    <2>3. \A u \in Threads : cpc[u] = "out" /\ ~m_closed
      BY <1>1, <1>2, <2>2 DEF FlushOrder, W!Usable
    <2> QED BY <1>1, <1>2, <2>1, <2>2, <2>3 DEF TypeOK, FlushOrder, W!Usable
  <1>10. CacheOwnership'
    <2>1. \A i \in 1..Len(m_data) : m_data[i] \in Caches /\ m_data[i] # m_cache
      BY <1>1, <1>3, <1>4 DEF CacheOwnership
    <2>2. \A i \in 1..Len(m_data') : m_sync'[m_data'[i]] /\ m_data'[i] # cur'
      <3> SUFFICES ASSUME NEW i \in 1..Len(m_data')
                   PROVE  m_sync'[m_data'[i]] /\ m_data'[i] # cur'
        OBVIOUS
      <3>1. CASE i \in 1..Len(m_data)
        BY <1>1, <1>2, <1>4, <2>1, <3>1 DEF TypeOK, CacheOwnership
      <3>2. CASE i = Len(m_data) + 1
        BY <1>1, <1>2, <1>3, <1>4, <3>2 DEF TypeOK
      <3> QED BY <1>4, <3>1, <3>2
    <2>3. \A i, j \in 1..Len(m_data') : m_data'[i] = m_data'[j] => i = j
      <3> SUFFICES ASSUME NEW i \in 1..Len(m_data'), NEW j \in 1..Len(m_data'),
                          m_data'[i] = m_data'[j]
                   PROVE  i = j
        OBVIOUS
      <3>1. CASE i \in 1..Len(m_data) /\ j \in 1..Len(m_data)
        BY <1>1, <1>4, <3>1 DEF CacheOwnership
      <3>2. CASE i = Len(m_data) + 1 \/ j = Len(m_data) + 1
        BY <1>4, <2>1, <3>2
      <3> QED BY <1>4, <3>1, <3>2
    <2>4. cur' # NoCache => m_sync'[cur']
      BY <1>1, <1>2, <1>3 DEF TypeOK, W!TypeOK, CacheOwnership
    <2>5. ASSUME NEW c \in Caches
          PROVE  /\ m_sync'[c] => c = cur' \/ \E i \in 1..Len(m_data') : m_data'[i] = c
                 /\ ~m_sync'[c] /\ c # m_cache' => m_size'[c] = 0
                 /\ m_size'[c] = 0 => meases'[c] = {}
      <3>1. CASE c = m_cache
        <4>1. Len(m_data) + 1 \in 1..Len(m_data') /\ m_sync'[c]
          BY <1>1, <1>2, <1>4, <3>1 DEF TypeOK
        <4> QED BY <1>1, <1>2, <1>4, <3>1, <4>1 DEF CacheOwnership
      <3>2. CASE c # m_cache
        <4>1. m_sync'[c] = m_sync[c]
          BY <1>1, <1>2, <3>2 DEF TypeOK
        <4>2. ASSUME NEW i \in 1..Len(m_data) PROVE i \in 1..Len(m_data')
          BY <1>4
        <4> QED BY <1>1, <1>2, <1>4, <3>2, <4>1, <4>2 DEF CacheOwnership
      <3> QED BY <3>1, <3>2
    <2> QED BY <1>2, <2>2, <2>3, <2>4, <2>5 DEF CacheOwnership
  <1>11. ExactlyOnce'
    BY <1>1, <1>2, ExactlyOnceFrame
  <1> QED BY <1>5, <1>6, <1>7, <1>8, <1>9, <1>10, <1>11 DEF Inv

\* getCache() hands out an unmarked cache, which is empty.
LEMMA GetCacheKeeps ==
    ASSUME Inv, NEW t \in Threads, GetCache(t)
    PROVE  Inv'
  <1> USE SizesAssumption, StorageNamesAssumption
          DEF workerVars, cacheVars, userVars, callVars, histVars
  <1>1. /\ \A u \in Threads : u # t => upc[u] = "idle" /\ upc'[u] = "idle"
        /\ upc[t] = "get_cache" /\ upc'[t] = ret[t]
        /\ ret[t] \in {"one", "chunk", "drain", "cur_drain", "close"}
        /\ m_cache' \in Caches /\ m_size[m_cache'] = 0
    <2>1. upc[t] = "get_cache" /\ upc' = [upc EXCEPT ![t] = ret[t]]
          /\ m_cache' \in Caches /\ ~m_sync[m_cache']
      BY DEF GetCache, Goto
    <2>2. ret[t] \in {"one", "chunk", "drain", "cur_drain", "close"}
      BY <2>1 DEF Inv, UserOrder, InWriteCache
    <2>3. \A u \in Threads : u # t => upc[u] = "idle"
      BY <2>1, OthersIdle DEF Inv
    <2>4. m_cache = NoCache
      BY <2>1 DEF Inv, UserOrder
    <2>5. m_size[m_cache'] = 0
      BY <2>1, <2>4 DEF Inv, CacheOwnership
    <2> QED BY <2>1, <2>2, <2>3, <2>5 DEF Inv, TypeOK
  <1>2. TypeOK'
    BY DEF Inv, TypeOK, W!TypeOK, W!WorkerPlaces, W!ClientPlaces, Places,
           UserOrder, InWriteCache, Appending, WriterOrder, GetCache, Goto
  <1>3. UserOrder'
    <2>1. UserOrder /\ UNCHANGED <<ret, todo>>
      BY DEF Inv, GetCache
    <2>2. m_cache' # NoCache
      BY <1>1
    <2>3. \A u \in Threads : upc'[u] # "get_cache" /\ upc'[u] # "write_cache"
      BY <1>1
    <2> QED BY <1>1, <2>1, <2>2, <2>3 DEF UserOrder, InWriteCache, Appending
  <1>4. FlushOrder'
    <2>1. UNCHANGED <<m_size, m_data, m_thread_lock, cpc, wpc, m_stop_flag, m_closed>>
      BY DEF GetCache
    <2> QED BY <1>1, <2>1 DEF Inv, FlushOrder, W!Usable
  <1>5. CacheOwnership'
    BY DEF Inv, TypeOK, W!TypeOK, UserOrder, InWriteCache, Appending,
           WriterOrder, CacheOwnership, GetCache, Goto
  <1>6. TodoIsFresh'
    BY TodoIsFreshFrame DEF Inv, GetCache, Goto
  <1>7. WriterOrder'
    BY WriterOrderFrame DEF Inv, GetCache, Goto
  <1>8. ExactlyOnce'
    BY ExactlyOnceFrame DEF Inv, GetCache, Goto
  <1> QED BY <1>2, <1>3, <1>4, <1>5, <1>6, <1>7, <1>8 DEF Inv

\* A reader enters flush_and_stop().
LEMMA BeginReadKeeps ==
    ASSUME Inv, NEW t \in Threads, BeginRead(t)
    PROVE  Inv'
  <1> USE SizesAssumption, StorageNamesAssumption
          DEF workerVars, cacheVars, userVars, callVars, histVars
  <1>1. TypeOK'
    BY DEF Inv, TypeOK, W!TypeOK, W!WorkerPlaces, W!ClientPlaces, Places,
           UserOrder, InWriteCache, Appending, WriterOrder, BeginRead, Lock,
           NobodyUnlocked, Goto, CallWriteCache
  <1>2. UserOrder'
    BY DEF Inv, TypeOK, W!TypeOK, UserOrder, InWriteCache, Appending,
           BeginRead, Lock, NobodyUnlocked, Goto, CallWriteCache
  <1>3. FlushOrder'
    BY DEF Inv, TypeOK, W!TypeOK, UserOrder, InWriteCache, Appending,
           WriterOrder, FlushOrder, CacheOwnership, W!Usable, BeginRead, Lock,
           NobodyUnlocked, Goto, CallWriteCache
  <1>4. TodoIsFresh'
    BY TodoIsFreshFrame DEF Inv, BeginRead, Lock, NobodyUnlocked, Goto,
           CallWriteCache
  <1>5. WriterOrder'
    BY WriterOrderFrame DEF Inv, BeginRead, Lock, NobodyUnlocked, Goto,
           CallWriteCache
  <1>6. CacheOwnership'
    BY CacheOwnershipFrame DEF Inv, BeginRead, Lock, NobodyUnlocked, Goto,
           CallWriteCache
  <1>7. ExactlyOnce'
    BY ExactlyOnceFrame DEF Inv, BeginRead, Lock, NobodyUnlocked, Goto,
           CallWriteCache
  <1> QED BY <1>1, <1>2, <1>3, <1>4, <1>5, <1>6, <1>7 DEF Inv

\* flush_and_stop() has seen the queue empty.
LEMMA DrainedKeeps ==
    ASSUME Inv, NEW t \in Threads, Drained(t)
    PROVE  Inv'
  <1> USE SizesAssumption, StorageNamesAssumption
          DEF workerVars, cacheVars, userVars, callVars, histVars
  <1>1. TypeOK'
    BY DEF Inv, TypeOK, W!TypeOK, W!WorkerPlaces, W!ClientPlaces, Places,
           UserOrder, InWriteCache, Appending, WriterOrder, Drained, Goto
  <1>2. UserOrder'
    BY DEF Inv, TypeOK, W!TypeOK, UserOrder, InWriteCache, Appending, Drained,
           Goto
  <1>3. FlushOrder'
    BY DEF Inv, TypeOK, W!TypeOK, UserOrder, InWriteCache, Appending,
           WriterOrder, FlushOrder, CacheOwnership, W!Usable, Drained, Goto
  <1>4. TodoIsFresh'
    BY TodoIsFreshFrame DEF Inv, Drained, Goto
  <1>5. WriterOrder'
    BY WriterOrderFrame DEF Inv, Drained, Goto
  <1>6. CacheOwnership'
    BY CacheOwnershipFrame DEF Inv, Drained, Goto
  <1>7. ExactlyOnce'
    BY ExactlyOnceFrame DEF Inv, Drained, Goto
  <1> QED BY <1>1, <1>2, <1>3, <1>4, <1>5, <1>6, <1>7 DEF Inv

\* pause_work() is granted: the writer is not in call().
LEMMA PauseWriterKeeps ==
    ASSUME Inv, NEW t \in Threads, PauseWriter(t)
    PROVE  Inv'
  <1> USE SizesAssumption, StorageNamesAssumption
          DEF workerVars, cacheVars, userVars, callVars, histVars
  <1>1. TypeOK'
    BY DEF Inv, TypeOK, W!TypeOK, W!WorkerPlaces, W!ClientPlaces, Places,
           UserOrder, InWriteCache, Appending, WriterOrder, PauseWriter, Goto,
           W!Pause, W!Usable
  <1>2. UserOrder'
    BY DEF Inv, TypeOK, W!TypeOK, UserOrder, InWriteCache, Appending,
           PauseWriter, Goto, W!Pause, W!Usable
  <1>3. WriterOrder'
    BY DEF Inv, TypeOK, W!TypeOK, W!WorkerPlaces, UserOrder, InWriteCache,
           Appending, WriterOrder, FlushOrder, CacheOwnership, PauseWriter,
           Goto, W!Pause, W!Usable
  <1>4. FlushOrder'
    BY DEF Inv, TypeOK, W!TypeOK, UserOrder, InWriteCache, Appending,
           WriterOrder, FlushOrder, CacheOwnership, W!Usable, PauseWriter,
           Goto, W!Pause
  <1>5. TodoIsFresh'
    BY TodoIsFreshFrame DEF Inv, PauseWriter, Goto, W!Pause, W!Usable
  <1>6. CacheOwnership'
    BY CacheOwnershipFrame DEF Inv, PauseWriter, Goto, W!Pause, W!Usable
  <1>7. ExactlyOnce'
    BY ExactlyOnceFrame DEF Inv, PauseWriter, Goto, W!Pause, W!Usable
  <1> QED BY <1>1, <1>2, <1>3, <1>4, <1>5, <1>6, <1>7 DEF Inv

\* A reader lets the writer go on.
LEMMA EndReadKeeps ==
    ASSUME Inv, NEW t \in Threads, EndRead(t)
    PROVE  Inv'
  <1> USE SizesAssumption, StorageNamesAssumption
          DEF workerVars, cacheVars, userVars, callVars, histVars
  <1>1. TypeOK'
    BY DEF Inv, TypeOK, W!TypeOK, W!WorkerPlaces, W!ClientPlaces, Places,
           UserOrder, InWriteCache, Appending, WriterOrder, EndRead, Goto,
           Unlock, W!Continue
  <1>2. UserOrder'
    BY DEF Inv, TypeOK, W!TypeOK, UserOrder, InWriteCache, Appending, EndRead,
           Goto, Unlock, W!Continue
  <1>3. WriterOrder'
    BY DEF Inv, TypeOK, W!TypeOK, W!WorkerPlaces, UserOrder, InWriteCache,
           Appending, WriterOrder, FlushOrder, CacheOwnership, EndRead, Goto,
           Unlock, W!Continue
  <1>4. FlushOrder'
    BY DEF Inv, TypeOK, W!TypeOK, UserOrder, InWriteCache, Appending,
           WriterOrder, FlushOrder, CacheOwnership, W!Usable, EndRead, Goto,
           Unlock, W!Continue
  <1>5. TodoIsFresh'
    BY TodoIsFreshFrame DEF Inv, EndRead, Goto, Unlock, W!Continue
  <1>6. CacheOwnership'
    BY CacheOwnershipFrame DEF Inv, EndRead, Goto, Unlock, W!Continue
  <1>7. ExactlyOnce'
    BY ExactlyOnceFrame DEF Inv, EndRead, Goto, Unlock, W!Continue
  <1> QED BY <1>1, <1>2, <1>3, <1>4, <1>5, <1>6, <1>7 DEF Inv

\* curValues() flushes.
LEMMA BeginCurValuesKeeps ==
    ASSUME Inv, NEW t \in Threads, BeginCurValues(t)
    PROVE  Inv'
  <1> USE SizesAssumption, StorageNamesAssumption
          DEF workerVars, cacheVars, userVars, callVars, histVars
  <1>1. TypeOK'
    BY DEF Inv, TypeOK, W!TypeOK, W!WorkerPlaces, W!ClientPlaces, Places,
           UserOrder, InWriteCache, Appending, WriterOrder, BeginCurValues,
           Alone, Goto, CallWriteCache
  <1>2. UserOrder'
    BY DEF Inv, TypeOK, W!TypeOK, UserOrder, InWriteCache, Appending,
           BeginCurValues, Alone, Goto, CallWriteCache
  <1>3. FlushOrder'
    BY DEF Inv, TypeOK, W!TypeOK, UserOrder, InWriteCache, Appending,
           WriterOrder, FlushOrder, CacheOwnership, W!Usable, BeginCurValues,
           Alone, Goto, CallWriteCache
  <1>4. TodoIsFresh'
    BY TodoIsFreshFrame DEF Inv, BeginCurValues, Alone, Goto, CallWriteCache
  <1>5. WriterOrder'
    BY WriterOrderFrame DEF Inv, BeginCurValues, Alone, Goto, CallWriteCache
  <1>6. CacheOwnership'
    BY CacheOwnershipFrame DEF Inv, BeginCurValues, Alone, Goto, CallWriteCache
  <1>7. ExactlyOnce'
    BY ExactlyOnceFrame DEF Inv, BeginCurValues, Alone, Goto, CallWriteCache
  <1> QED BY <1>1, <1>2, <1>3, <1>4, <1>5, <1>6, <1>7 DEF Inv

\* curValues() returns.
LEMMA CurValuesDrainedKeeps ==
    ASSUME Inv, NEW t \in Threads, CurValuesDrained(t)
    PROVE  Inv'
  <1> USE SizesAssumption, StorageNamesAssumption
          DEF workerVars, cacheVars, userVars, callVars, histVars
  <1>1. TypeOK'
    BY DEF Inv, TypeOK, W!TypeOK, W!WorkerPlaces, W!ClientPlaces, Places,
           UserOrder, InWriteCache, Appending, WriterOrder, CurValuesDrained,
           Goto
  <1>2. UserOrder'
    BY DEF Inv, TypeOK, W!TypeOK, UserOrder, InWriteCache, Appending,
           CurValuesDrained, Goto
  <1>3. FlushOrder'
    BY DEF Inv, TypeOK, W!TypeOK, UserOrder, InWriteCache, Appending,
           WriterOrder, FlushOrder, CacheOwnership, W!Usable, CurValuesDrained,
           Goto
  <1>4. TodoIsFresh'
    BY TodoIsFreshFrame DEF Inv, CurValuesDrained, Goto
  <1>5. WriterOrder'
    BY WriterOrderFrame DEF Inv, CurValuesDrained, Goto
  <1>6. CacheOwnership'
    BY CacheOwnershipFrame DEF Inv, CurValuesDrained, Goto
  <1>7. ExactlyOnce'
    BY ExactlyOnceFrame DEF Inv, CurValuesDrained, Goto
  <1> QED BY <1>1, <1>2, <1>3, <1>4, <1>5, <1>6, <1>7 DEF Inv

\* Close() flushes.
LEMMA BeginCloseKeeps ==
    ASSUME Inv, NEW t \in Threads, BeginClose(t)
    PROVE  Inv'
  <1> USE SizesAssumption, StorageNamesAssumption
          DEF workerVars, cacheVars, userVars, callVars, histVars
  <1>1. TypeOK'
    BY DEF Inv, TypeOK, W!TypeOK, W!WorkerPlaces, W!ClientPlaces, Places,
           UserOrder, InWriteCache, Appending, WriterOrder, BeginClose, Alone,
           Goto, CallWriteCache
  <1>2. UserOrder'
    BY DEF Inv, TypeOK, W!TypeOK, UserOrder, InWriteCache, Appending,
           BeginClose, Alone, Goto, CallWriteCache
  <1>3. FlushOrder'
    BY DEF Inv, TypeOK, W!TypeOK, UserOrder, InWriteCache, Appending,
           WriterOrder, FlushOrder, CacheOwnership, W!Usable, BeginClose,
           Alone, Goto, CallWriteCache
  <1>4. TodoIsFresh'
    BY TodoIsFreshFrame DEF Inv, BeginClose, Alone, Goto, CallWriteCache
  <1>5. WriterOrder'
    BY WriterOrderFrame DEF Inv, BeginClose, Alone, Goto, CallWriteCache
  <1>6. CacheOwnership'
    BY CacheOwnershipFrame DEF Inv, BeginClose, Alone, Goto, CallWriteCache
  <1>7. ExactlyOnce'
    BY ExactlyOnceFrame DEF Inv, BeginClose, Alone, Goto, CallWriteCache
  <1> QED BY <1>1, <1>2, <1>3, <1>4, <1>5, <1>6, <1>7 DEF Inv

\* Close() enters stop().
LEMMA StopWriterKeeps ==
    ASSUME Inv, NEW t \in Threads, StopWriter(t)
    PROVE  Inv'
  <1> USE SizesAssumption, StorageNamesAssumption
          DEF workerVars, cacheVars, userVars, callVars, histVars
  <1>1. TypeOK'
    BY DEF Inv, TypeOK, W!TypeOK, W!WorkerPlaces, W!ClientPlaces, Places,
           UserOrder, InWriteCache, Appending, WriterOrder, StopWriter, Goto,
           W!StopBegin, W!Usable
  <1>2. UserOrder'
    BY DEF Inv, TypeOK, W!TypeOK, UserOrder, InWriteCache, Appending,
           StopWriter, Goto, W!StopBegin, W!Usable
  <1>3. FlushOrder'
    BY DEF Inv, TypeOK, W!TypeOK, UserOrder, InWriteCache, Appending,
           WriterOrder, FlushOrder, CacheOwnership, W!Usable, StopWriter, Goto,
           W!StopBegin
  <1>4. TodoIsFresh'
    BY TodoIsFreshFrame DEF Inv, StopWriter, Goto, W!StopBegin, W!Usable
  <1>5. WriterOrder'
    BY WriterOrderFrame DEF Inv, StopWriter, Goto, W!StopBegin, W!Usable
  <1>6. CacheOwnership'
    BY CacheOwnershipFrame DEF Inv, StopWriter, Goto, W!StopBegin, W!Usable
  <1>7. ExactlyOnce'
    BY ExactlyOnceFrame DEF Inv, StopWriter, Goto, W!StopBegin, W!Usable
  <1> QED BY <1>1, <1>2, <1>3, <1>4, <1>5, <1>6, <1>7 DEF Inv

\* The steps of stop() and kill() in Close(): the queue is empty when the stop
\* flag is set, and the join returns after the thread has ended.
LEMMA StoppingWriterKeeps ==
    ASSUME Inv, NEW t \in Threads, StoppingWriter(t)
    PROVE  Inv'
  <1> USE SizesAssumption, StorageNamesAssumption
          DEF workerVars, cacheVars, userVars, callVars, histVars
  <1>1. TypeOK'
    <2>1. W!TypeOK
      BY DEF Inv, TypeOK
    <2>2. W!TypeOK'
      <3>1. CASE W!StopDrained(t)
        BY <2>1, <3>1 DEF W!TypeOK, W!WorkerPlaces, W!ClientPlaces, W!StopDrained
      <3>2. CASE W!KillNotify(t)
        BY <2>1, <3>2 DEF W!TypeOK, W!WorkerPlaces, W!KillNotify, W!Notified
      <3>3. CASE W!KillLoopEnds(t)
        BY <2>1, <3>3 DEF W!TypeOK, W!WorkerPlaces, W!ClientPlaces, W!KillLoopEnds
      <3>4. CASE W!Join(t)
        BY <2>1, <3>4 DEF W!TypeOK, W!WorkerPlaces, W!ClientPlaces, W!Join
      <3> QED BY <3>1, <3>2, <3>3, <3>4 DEF StoppingWriter, W!StopStep
    <2> QED BY <2>2 DEF Inv, TypeOK, StoppingWriter
  <1>2. WriterOrder'
    BY DEF Inv, TypeOK, W!TypeOK, W!WorkerPlaces, UserOrder, InWriteCache,
           Appending, WriterOrder, FlushOrder, CacheOwnership, StoppingWriter,
           W!StopStep, W!StopDrained, W!KillNotify, W!KillLoopEnds, W!Join,
           W!Notified
  <1>3. FlushOrder'
    <2>1. /\ upc[t] = "stopping"
          /\ UNCHANGED <<upc, m_size, m_cache, m_data, m_thread_lock, m_closed>>
          /\ \A u \in Threads : u # t => upc[u] = "idle" /\ cpc[u] = "out"
      <3>1. upc[t] = "stopping"
        BY DEF StoppingWriter
      <3>2. \A u \in Threads : u # t => upc[u] = "idle"
        BY <3>1, OthersIdle DEF Inv
      <3>3. \A u \in Threads : u # t => cpc[u] = "out"
        BY <3>2 DEF Inv, FlushOrder
      <3> QED BY <3>1, <3>2, <3>3 DEF StoppingWriter, W!StopStep, W!StopDrained,
                 W!KillNotify, W!KillLoopEnds, W!Join
    <2>2. FlushOrder /\ cpc \in [Threads -> W!ClientPlaces] /\ WriterOrder
      BY DEF Inv, TypeOK, W!TypeOK
    <2>3. CASE W!StopDrained(t)
      BY <2>1, <2>2, <2>3 DEF FlushOrder, W!StopDrained, W!Usable
    <2>4. CASE W!KillNotify(t)
      BY <2>1, <2>2, <2>4 DEF FlushOrder, W!KillNotify, W!Notified, W!Usable
    <2>5. CASE W!KillLoopEnds(t)
      BY <2>1, <2>2, <2>5 DEF FlushOrder, W!KillLoopEnds, W!Usable, WriterOrder
    <2>6. CASE W!Join(t)
      BY <2>1, <2>2, <2>6 DEF FlushOrder, W!Join, W!Usable
    <2> QED BY <2>3, <2>4, <2>5, <2>6 DEF StoppingWriter, W!StopStep
  <1>4. UserOrder'
    BY UserOrderFrame DEF Inv, StoppingWriter, W!StopStep, W!StopDrained,
           W!KillNotify, W!KillLoopEnds, W!Join, W!Notified
  <1>5. TodoIsFresh'
    BY TodoIsFreshFrame DEF Inv, StoppingWriter, W!StopStep, W!StopDrained,
           W!KillNotify, W!KillLoopEnds, W!Join, W!Notified
  <1>6. CacheOwnership'
    BY CacheOwnershipFrame DEF Inv, StoppingWriter, W!StopStep, W!StopDrained,
           W!KillNotify, W!KillLoopEnds, W!Join, W!Notified
  <1>7. ExactlyOnce'
    BY ExactlyOnceFrame DEF Inv, StoppingWriter, W!StopStep, W!StopDrained,
           W!KillNotify, W!KillLoopEnds, W!Join, W!Notified
  <1> QED BY <1>1, <1>2, <1>3, <1>4, <1>5, <1>6, <1>7 DEF Inv

\* Close() ends.
LEMMA EndCloseKeeps ==
    ASSUME Inv, NEW t \in Threads, EndClose(t)
    PROVE  Inv'
  <1> USE SizesAssumption, StorageNamesAssumption
          DEF workerVars, cacheVars, userVars, callVars, histVars
  <1>1. TypeOK'
    BY DEF Inv, TypeOK, W!TypeOK, W!WorkerPlaces, W!ClientPlaces, Places,
           UserOrder, InWriteCache, Appending, WriterOrder, EndClose, Goto
  <1>2. UserOrder'
    BY DEF Inv, TypeOK, W!TypeOK, UserOrder, InWriteCache, Appending, EndClose,
           Goto
  <1>3. FlushOrder'
    BY DEF Inv, TypeOK, W!TypeOK, UserOrder, InWriteCache, Appending,
           WriterOrder, FlushOrder, CacheOwnership, W!Usable, EndClose, Goto
  <1>4. TodoIsFresh'
    BY TodoIsFreshFrame DEF Inv, EndClose, Goto
  <1>5. WriterOrder'
    BY WriterOrderFrame DEF Inv, EndClose, Goto
  <1>6. CacheOwnership'
    BY CacheOwnershipFrame DEF Inv, EndClose, Goto
  <1>7. ExactlyOnce'
    BY ExactlyOnceFrame DEF Inv, EndClose, Goto
  <1> QED BY <1>1, <1>2, <1>3, <1>4, <1>5, <1>6, <1>7 DEF Inv

\* The writer starts, looks at the queue, sleeps, wakes or ends.
LEMMA WriterIdlesKeeps ==
    ASSUME Inv, WriterIdles
    PROVE  Inv'
  <1> USE SizesAssumption, StorageNamesAssumption
          DEF workerVars, cacheVars, userVars, callVars, histVars
  <1>1. TypeOK'
    <2>1. W!TypeOK
      BY DEF Inv, TypeOK
    <2>2. W!TypeOK'
      BY <2>1 DEF W!TypeOK, W!WorkerPlaces, WriterIdles, W!ThreadStart,
                  W!TestEmpty, W!WaitBlock, W!Reacquire, W!Exit
    <2> QED BY <2>2 DEF Inv, TypeOK, WriterIdles
  <1>2. WriterOrder'
    BY DEF Inv, TypeOK, W!TypeOK, W!WorkerPlaces, UserOrder, InWriteCache,
           Appending, WriterOrder, FlushOrder, CacheOwnership, WriterIdles,
           W!ThreadStart, W!TestEmpty, W!WaitBlock, W!Reacquire, W!Exit
  <1>3. FlushOrder'
    BY DEF Inv, TypeOK, W!TypeOK, UserOrder, InWriteCache, Appending,
           WriterOrder, FlushOrder, CacheOwnership, W!Usable, WriterIdles,
           W!ThreadStart, W!TestEmpty, W!WaitBlock, W!Reacquire, W!Exit
  <1>4. UserOrder'
    BY UserOrderFrame DEF Inv, WriterIdles, W!ThreadStart, W!TestEmpty,
           W!WaitBlock, W!Reacquire, W!Exit
  <1>5. TodoIsFresh'
    BY TodoIsFreshFrame DEF Inv, WriterIdles, W!ThreadStart, W!TestEmpty,
           W!WaitBlock, W!Reacquire, W!Exit
  <1>6. CacheOwnership'
    BY CacheOwnershipFrame DEF Inv, WriterIdles, W!ThreadStart, W!TestEmpty,
           W!WaitBlock, W!Reacquire, W!Exit
  <1>7. ExactlyOnce'
    BY ExactlyOnceFrame DEF Inv, WriterIdles, W!ThreadStart, W!TestEmpty,
           W!WaitBlock, W!Reacquire, W!Exit
  <1> QED BY <1>1, <1>2, <1>3, <1>4, <1>5, <1>6, <1>7 DEF Inv

\* The writer wakes without a notification.
LEMMA SpuriousWakeupKeeps ==
    ASSUME Inv, SpuriousWakeup
    PROVE  Inv'
  <1> USE SizesAssumption, StorageNamesAssumption
          DEF workerVars, cacheVars, userVars, callVars, histVars
  <1>1. TypeOK'
    BY DEF Inv, TypeOK, W!TypeOK, W!WorkerPlaces, W!ClientPlaces, Places,
           UserOrder, InWriteCache, Appending, WriterOrder, SpuriousWakeup,
           W!SpuriousWakeup
  <1>2. WriterOrder'
    BY DEF Inv, TypeOK, W!TypeOK, W!WorkerPlaces, UserOrder, InWriteCache,
           Appending, WriterOrder, FlushOrder, CacheOwnership, SpuriousWakeup,
           W!SpuriousWakeup
  <1>3. FlushOrder'
    BY DEF Inv, TypeOK, W!TypeOK, UserOrder, InWriteCache, Appending,
           WriterOrder, FlushOrder, CacheOwnership, W!Usable, SpuriousWakeup,
           W!SpuriousWakeup
  <1>4. UserOrder'
    BY UserOrderFrame DEF Inv, SpuriousWakeup, W!SpuriousWakeup
  <1>5. TodoIsFresh'
    BY TodoIsFreshFrame DEF Inv, SpuriousWakeup, W!SpuriousWakeup
  <1>6. CacheOwnership'
    BY CacheOwnershipFrame DEF Inv, SpuriousWakeup, W!SpuriousWakeup
  <1>7. ExactlyOnce'
    BY ExactlyOnceFrame DEF Inv, SpuriousWakeup, W!SpuriousWakeup
  <1> QED BY <1>1, <1>2, <1>3, <1>4, <1>5, <1>6, <1>7 DEF Inv

\* The writer takes the first queued cache: the others remain queued once.
LEMMA CallBeginKeeps ==
    ASSUME Inv, CallBegin
    PROVE  Inv'
  <1> USE SizesAssumption, StorageNamesAssumption
          DEF workerVars, cacheVars, userVars, callVars, histVars
  <1>1. TypeOK /\ UserOrder /\ TodoIsFresh /\ WriterOrder /\ FlushOrder
        /\ CacheOwnership /\ ExactlyOnce
    BY DEF Inv
  <1>2. wpc = "claim" /\ m_data # <<>> /\ ~m_stop_flag
    BY <1>1 DEF CallBegin, W!Claim, WriterOrder, FlushOrder
  <1>3. /\ wpc' = "call" /\ cur' = Head(m_data) /\ m_data' = Tail(m_data)
        /\ rest' = meases[cur'] /\ wstep' = "write"
        /\ UNCHANGED <<m_thread_lock, m_stop_flag, m_thread_work, cpc, cacheVars,
                       written, write_pos, histVars, userVars, m_closed>>
    BY <1>2 DEF CallBegin, W!Claim
  <1>4. /\ Head(m_data) = m_data[1] /\ Head(m_data) \in Caches
        /\ Tail(m_data) \in Seq(Caches)
        /\ Len(m_data) \in Nat /\ Len(m_data) > 0
        /\ Len(Tail(m_data)) = Len(m_data) - 1
        /\ \A i \in 1..Len(Tail(m_data)) : Tail(m_data)[i] = m_data[i + 1]
    BY <1>1, <1>2 DEF TypeOK, W!TypeOK
  <1>5. cur = NoCache /\ wstep = "none" /\ cur' \in Caches /\ cur' = m_data[1]
    BY <1>1, <1>2, <1>3, <1>4 DEF WriterOrder
  <1>6. TypeOK'
    <2>1. rest' \in SUBSET Meas
      BY <1>1, <1>3, <1>5 DEF TypeOK
    <2> QED BY <1>1, <1>3, <1>4, <1>5, <2>1 DEF TypeOK, W!TypeOK, W!WorkerPlaces
  <1>7. UserOrder'
    BY <1>1, <1>3, UserOrderFrame
  <1>8. TodoIsFresh'
    BY <1>1, <1>3, TodoIsFreshFrame
  <1>9. WriterOrder'
    BY <1>1, <1>2, <1>3, <1>5 DEF WriterOrder
  <1>10. FlushOrder'
    BY <1>1, <1>2, <1>3 DEF FlushOrder, W!Usable
  <1>11. CacheOwnership'
    <2>1. \A i \in 1..Len(m_data') : i + 1 \in 1..Len(m_data) /\ m_data'[i] = m_data[i + 1]
      BY <1>3, <1>4
    <2>2. 1 \in 1..Len(m_data)
      BY <1>4
    <2>3. m_sync'[cur']
      BY <1>1, <1>3, <1>5, <2>2 DEF CacheOwnership
    <2>4. \A i \in 1..Len(m_data') : m_sync'[m_data'[i]] /\ m_data'[i] # cur'
      <3> SUFFICES ASSUME NEW i \in 1..Len(m_data')
                   PROVE  m_sync'[m_data'[i]] /\ m_data'[i] # cur'
        OBVIOUS
      <3>1. i + 1 # 1
        OBVIOUS
      <3> QED BY <1>1, <1>3, <1>5, <2>1, <2>2, <3>1 DEF CacheOwnership
    <2>5. \A i, j \in 1..Len(m_data') : m_data'[i] = m_data'[j] => i = j
      <3> SUFFICES ASSUME NEW i \in 1..Len(m_data'), NEW j \in 1..Len(m_data'),
                          m_data'[i] = m_data'[j]
                   PROVE  i = j
        OBVIOUS
      <3>1. i + 1 = j + 1
        BY <1>1, <2>1 DEF CacheOwnership
      <3> QED BY <3>1
    <2>6. ASSUME NEW c \in Caches, m_sync'[c], c # cur'
          PROVE  \E i \in 1..Len(m_data') : m_data'[i] = c
      <3>1. PICK k \in 1..Len(m_data) : m_data[k] = c
        BY <1>1, <1>3, <1>5, <2>6 DEF CacheOwnership
      <3>2. k # 1
        BY <1>5, <2>6, <3>1
      <3>3. k - 1 \in 1..Len(m_data') /\ (k - 1) + 1 = k
        BY <1>3, <1>4, <3>2
      <3> QED BY <2>1, <3>1, <3>3
    <2>7. \A c \in Caches : /\ ~m_sync'[c] /\ c # m_cache' => m_size'[c] = 0
                            /\ m_size'[c] = 0 => meases'[c] = {}
      BY <1>1, <1>3 DEF CacheOwnership
    <2>8. m_cache' # NoCache => ~m_sync'[m_cache']
      BY <1>1, <1>3 DEF CacheOwnership
    <2> QED BY <2>3, <2>4, <2>5, <2>6, <2>7, <2>8 DEF CacheOwnership
  <1>12. ExactlyOnce'
    <2>1. \A c \in Caches : Unwritten(c)' = Unwritten(c)
      BY <1>3, <1>5 DEF Unwritten
    <2> QED BY <1>1, <1>3, <2>1 DEF ExactlyOnce
  <1> QED BY <1>6, <1>7, <1>8, <1>9, <1>10, <1>11, <1>12 DEF Inv

\* Page::append moves records from the cache to the page.
LEMMA WritePageKeeps ==
    ASSUME Inv, WritePage
    PROVE  Inv'
  <1> USE SizesAssumption, StorageNamesAssumption
          DEF workerVars, cacheVars, userVars, callVars, histVars
  <1>1. TypeOK /\ UserOrder /\ TodoIsFresh /\ WriterOrder /\ FlushOrder
        /\ CacheOwnership /\ ExactlyOnce
    BY DEF Inv
  <1> DEFINE writed == Smaller(PageCap - write_pos, Cardinality(rest))
  <1>2. PICK out \in SUBSET rest :
            /\ Cardinality(out) = writed
            /\ written' = [m \in Meas |-> written[m] + IF m \in out THEN 1 ELSE 0]
            /\ write_pos' = write_pos + writed
            /\ rest' = rest \ out
            /\ wstep' = IF writed # Cardinality(rest) THEN "new_page" ELSE "clear"
    BY DEF WritePage
  <1>3. /\ wstep = "write"
        /\ UNCHANGED <<workerVars, cacheVars, histVars, userVars, m_closed>>
    BY DEF WritePage
  <1>4. /\ IsFiniteSet(rest) /\ Cardinality(rest) \in Nat
        /\ (Cardinality(out) = Cardinality(rest) => out = rest)
    <2>1. rest \in SUBSET Meas
      BY <1>1 DEF TypeOK
    <2>2. IsFiniteSet(rest)
      BY <2>1, FS_Subset
    <2> QED BY <2>2, FS_Subset, FS_CardinalityType
  <1>5. writed \in Nat /\ write_pos + writed <= PageCap /\ write_pos \in Nat
    BY <1>1, <1>4 DEF TypeOK, Smaller
  <1>6. TypeOK'
    <2>1. written' \in [Meas -> Nat]
      BY <1>1, <1>2 DEF TypeOK
    <2>2. write_pos' \in 0..PageCap
      BY <1>2, <1>5
    <2>3. rest' \in SUBSET Meas
      BY <1>1, <1>2 DEF TypeOK
    <2>4. wstep' \in {"new_page", "clear"}
      BY <1>2
    <2> QED BY <1>1, <1>3, <2>1, <2>2, <2>3, <2>4 DEF TypeOK, W!TypeOK
  <1>7. WriterOrder'
    <2>1. wstep' = "clear" => rest' = {}
      BY <1>2, <1>4
    <2>2. rest' \subseteq rest /\ rest \subseteq meases[cur]
      BY <1>1, <1>2, <1>3 DEF WriterOrder
    <2>3. wstep' \in {"new_page", "clear"}
      BY <1>2
    <2> QED BY <1>1, <1>3, <2>1, <2>2, <2>3 DEF WriterOrder
  <1>8. UserOrder' /\ TodoIsFresh'
    BY <1>1, <1>3, UserOrderFrame, TodoIsFreshFrame
  <1>9. FlushOrder' /\ CacheOwnership'
    BY <1>1, <1>3, FlushOrderFrame, CacheOwnershipFrame
  <1>10. ExactlyOnce'
    <2>1. cur \in Caches
      BY <1>1, <1>3 DEF TypeOK, W!TypeOK, WriterOrder
    <2>2. wstep' # "none" /\ wstep # "none"
      BY <1>2, <1>3
    <2>3. /\ \A c \in Caches : c # cur => Unwritten(c)' = Unwritten(c)
          /\ Unwritten(cur) = rest /\ Unwritten(cur)' = rest \ out
      BY <1>2, <1>3, <2>2 DEF Unwritten
    <2> SUFFICES ASSUME NEW m \in Meas
                 PROVE  \/ /\ written'[m] = IF m \in accepted' THEN 1 ELSE 0
                           /\ \A c \in Caches : m \notin Unwritten(c)'
                        \/ /\ written'[m] = 0 /\ m \in accepted'
                           /\ \E c \in Caches :
                                 \A d \in Caches : m \in Unwritten(d)' <=> d = c
      BY DEF ExactlyOnce
    <2>4. CASE m \in out
      <3>1. m \in Unwritten(cur)
        BY <1>2, <2>3, <2>4
      <3>2. written[m] = 0 /\ m \in accepted
        BY <1>1, <2>1, <3>1 DEF ExactlyOnce
      <3>3. \A d \in Caches : m \in Unwritten(d) => d = cur
        BY <1>1, <2>1, <3>1 DEF ExactlyOnce
      <3>4. ASSUME NEW d \in Caches PROVE m \notin Unwritten(d)'
        <4>1. CASE d = cur
          BY <1>2, <1>3, <2>2, <2>4, <4>1 DEF Unwritten
        <4>2. CASE d # cur
          BY <2>3, <3>3, <4>2
        <4> QED BY <4>1, <4>2
      <3>5. written'[m] = 1
        BY <1>2, <2>4, <3>2
      <3> QED BY <1>3, <3>2, <3>4, <3>5
    <2>5. CASE m \notin out
      <3>1. ASSUME NEW d \in Caches PROVE m \in Unwritten(d)' <=> m \in Unwritten(d)
        <4>1. CASE d = cur
          BY <1>2, <1>3, <2>2, <2>5, <4>1 DEF Unwritten
        <4>2. CASE d # cur
          BY <2>3, <4>2
        <4> QED BY <4>1, <4>2
      <3>2. written'[m] = written[m]
        BY <1>1, <1>2, <2>5 DEF TypeOK
      <3> QED BY <1>1, <1>3, <3>1, <3>2 DEF ExactlyOnce
    <2> QED BY <2>4, <2>5
  <1> QED BY <1>6, <1>7, <1>8, <1>9, <1>10 DEF Inv

\* createNewPage() gives an empty page.
LEMMA NewPageKeeps ==
    ASSUME Inv, NewPage
    PROVE  Inv'
  <1> USE SizesAssumption, StorageNamesAssumption
          DEF workerVars, cacheVars, userVars, callVars, histVars
  <1>1. TypeOK'
    BY DEF Inv, TypeOK, W!TypeOK, W!WorkerPlaces, W!ClientPlaces, Places,
           UserOrder, InWriteCache, Appending, WriterOrder, NewPage
  <1>2. WriterOrder'
    BY DEF Inv, TypeOK, W!TypeOK, W!WorkerPlaces, UserOrder, InWriteCache,
           Appending, WriterOrder, FlushOrder, CacheOwnership, NewPage
  <1>3. ExactlyOnce'
    BY DEF Inv, TypeOK, W!TypeOK, UserOrder, InWriteCache, Appending,
           TodoIsFresh, WriterOrder, CacheOwnership, ExactlyOnce, Unwritten,
           NewPage
  <1>4. UserOrder'
    BY UserOrderFrame DEF Inv, NewPage
  <1>5. TodoIsFresh'
    BY TodoIsFreshFrame DEF Inv, NewPage
  <1>6. FlushOrder'
    BY FlushOrderFrame DEF Inv, NewPage
  <1>7. CacheOwnership'
    BY CacheOwnershipFrame DEF Inv, NewPage
  <1> QED BY <1>1, <1>2, <1>3, <1>4, <1>5, <1>6, <1>7 DEF Inv

\* clear() of a cache that is on the pages.
LEMMA ClearCacheKeeps ==
    ASSUME Inv, ClearCache
    PROVE  Inv'
  <1> USE SizesAssumption, StorageNamesAssumption
          DEF workerVars, cacheVars, userVars, callVars, histVars
  <1>1. TypeOK'
    BY DEF Inv, TypeOK, W!TypeOK, W!WorkerPlaces, W!ClientPlaces, Places,
           UserOrder, InWriteCache, Appending, WriterOrder, ClearCache
  <1>2. WriterOrder'
    BY DEF Inv, TypeOK, W!TypeOK, W!WorkerPlaces, UserOrder, InWriteCache,
           Appending, WriterOrder, FlushOrder, CacheOwnership, ClearCache
  <1>3. FlushOrder'
    BY DEF Inv, TypeOK, W!TypeOK, UserOrder, InWriteCache, Appending,
           WriterOrder, FlushOrder, CacheOwnership, W!Usable, ClearCache
  <1>4. CacheOwnership'
    BY DEF Inv, TypeOK, W!TypeOK, UserOrder, InWriteCache, Appending,
           WriterOrder, CacheOwnership, ClearCache
  <1>5. ExactlyOnce'
    <2>1. wstep = "clear" /\ wstep' = "sync_complete" /\ cur' = cur /\ rest' = rest
          /\ meases' = [meases EXCEPT ![cur] = {}]
          /\ UNCHANGED <<written, accepted>>
      BY DEF ClearCache
    <2>2. \A c \in Caches : Unwritten(c)' = Unwritten(c)
      BY <2>1 DEF Inv, TypeOK, Unwritten
    <2> QED BY <2>1, <2>2 DEF Inv, ExactlyOnce
  <1>6. UserOrder'
    BY UserOrderFrame DEF Inv, ClearCache
  <1>7. TodoIsFresh'
    BY TodoIsFreshFrame DEF Inv, ClearCache
  <1> QED BY <1>1, <1>2, <1>3, <1>4, <1>5, <1>6, <1>7 DEF Inv

\* sync_complete() gives an empty cache back to the pool.
LEMMA SyncCompleteKeeps ==
    ASSUME Inv, SyncComplete
    PROVE  Inv'
  <1> USE SizesAssumption, StorageNamesAssumption
          DEF workerVars, cacheVars, userVars, callVars, histVars
  <1>1. TypeOK'
    BY DEF Inv, TypeOK, W!TypeOK, W!WorkerPlaces, W!ClientPlaces, Places,
           UserOrder, InWriteCache, Appending, WriterOrder, SyncComplete,
           W!Return
  <1>2. WriterOrder'
    BY DEF Inv, TypeOK, W!TypeOK, W!WorkerPlaces, UserOrder, InWriteCache,
           Appending, WriterOrder, FlushOrder, CacheOwnership, SyncComplete,
           W!Return
  <1>3. FlushOrder'
    BY DEF Inv, TypeOK, W!TypeOK, UserOrder, InWriteCache, Appending,
           WriterOrder, FlushOrder, CacheOwnership, W!Usable, SyncComplete,
           W!Return
  <1>4. CacheOwnership'
    BY DEF Inv, TypeOK, W!TypeOK, UserOrder, InWriteCache, Appending,
           WriterOrder, CacheOwnership, SyncComplete, W!Return
  <1>5. ExactlyOnce'
    <2>1. wstep = "sync_complete" /\ wstep' = "none"
          /\ UNCHANGED <<meases, written, accepted>>
      BY DEF SyncComplete
    <2>2. rest = {} /\ cur \in Caches /\ meases[cur] = {}
      BY <2>1 DEF Inv, TypeOK, W!TypeOK, WriterOrder, CacheOwnership
    <2>3. \A c \in Caches : Unwritten(c)' = Unwritten(c)
      BY <2>1, <2>2 DEF Unwritten
    <2> QED BY <2>1, <2>3 DEF Inv, ExactlyOnce
  <1>6. UserOrder'
    BY UserOrderFrame DEF Inv, SyncComplete, W!Return
  <1>7. TodoIsFresh'
    BY TodoIsFreshFrame DEF Inv, SyncComplete, W!Return
  <1> QED BY <1>1, <1>2, <1>3, <1>4, <1>5, <1>6, <1>7 DEF Inv

-----------------------------------------------------------------------------
(* The theorems *)

\* The constructor and Create() establish the invariant.
LEMMA InvInit == Init => Inv
  <1> SUFFICES ASSUME Init PROVE Inv
    OBVIOUS
  <1> USE SizesAssumption, StorageNamesAssumption DEF Init
  <1>1. TypeOK
    <2>1. W!TypeOK
      <3>1. /\ m_data \in Seq(Caches)
            /\ wpc \in W!WorkerPlaces
            /\ cpc \in [Threads -> W!ClientPlaces]
        BY DEF W!WorkerPlaces, W!ClientPlaces
      <3>2. m_stop_flag \in BOOLEAN /\ m_thread_work \in BOOLEAN
        OBVIOUS
      <3> QED BY <3>1, <3>2 DEF W!TypeOK
    <2>2. /\ meases \in [Caches -> SUBSET Meas]
          /\ m_size \in [Caches -> 0..CacheSize]
          /\ m_sync \in [Caches -> BOOLEAN]
      OBVIOUS
    <2>3. /\ upc \in [Threads -> Places] /\ ret \in [Threads -> Places]
          /\ todo \in [Threads -> Seq(Meas)]
      BY DEF Places
    <2>4. /\ written \in [Meas -> Nat] /\ write_pos \in 0..PageCap
          /\ m_write_mutex \in Threads \cup {NoThread}
          /\ m_cache \in Caches \cup {NoCache}
      OBVIOUS
    <2>5. /\ rest \in SUBSET Meas /\ issued \in SUBSET Meas /\ accepted \in SUBSET Meas
          /\ wstep \in {"none", "write", "new_page", "clear", "sync_complete"}
          /\ m_closed \in BOOLEAN
      OBVIOUS
    <2> QED BY <2>1, <2>2, <2>3, <2>4, <2>5 DEF TypeOK
  <1>2. UserOrder
    BY DEF UserOrder, InWriteCache, Appending
  <1>3. TodoIsFresh
    BY DEF TodoIsFresh
  <1>4. WriterOrder
    BY DEF WriterOrder
  <1>5. FlushOrder
    BY DEF FlushOrder, W!Usable
  <1>6. CacheOwnership
    BY DEF CacheOwnership
  <1>7. ExactlyOnce
    BY DEF ExactlyOnce, Unwritten
  <1> QED BY <1>1, <1>2, <1>3, <1>4, <1>5, <1>6, <1>7 DEF Inv

\* Every step, of any thread or of the writer, keeps the invariant.
LEMMA InvNext == Inv /\ [Next]_vars => Inv'
  <1> SUFFICES ASSUME Inv, [Next]_vars PROVE Inv'
    OBVIOUS
  <1>1. CASE WriterStep
    BY <1>1, WriterIdlesKeeps, CallBeginKeeps, WritePageKeeps, NewPageKeeps,
       ClearCacheKeeps, SyncCompleteKeeps DEF WriterStep, CallEnd
  <1>2. CASE SpuriousWakeup
    BY <1>2, SpuriousWakeupKeeps
  <1>3. ASSUME NEW t \in Threads, UserStep(t) PROVE Inv'
    <2>1. CASE AppendStep(t)
      <3>1. CASE AppendOne(t)
        BY <3>1, BeginAppendKeeps DEF AppendOne
      <3>2. CASE AppendArray(t)
        BY <3>2, SizesAssumption, BeginAppendKeeps DEF AppendArray
      <3> QED BY <2>1, <3>1, <3>2, CacheAppendOneKeeps, ArrayEntryKeeps,
                 CacheAppendArrayKeeps DEF AppendStep
    <2>2. CASE FlushStep(t)
      BY <2>2, WriteCacheEmptyKeeps, WriteCacheAddKeeps, GetCacheKeeps DEF FlushStep
    <2>3. CASE ReadStep(t)
      BY <2>3, BeginReadKeeps, DrainedKeeps, PauseWriterKeeps, EndReadKeeps DEF ReadStep
    <2>4. CASE CurValuesStep(t)
      BY <2>4, BeginCurValuesKeeps, CurValuesDrainedKeeps DEF CurValuesStep
    <2>5. CASE CloseStep(t)
      BY <2>5, BeginCloseKeeps, StopWriterKeeps, StoppingWriterKeeps, EndCloseKeeps
      DEF CloseStep
    <2> QED BY <1>3, <2>1, <2>2, <2>3, <2>4, <2>5 DEF UserStep
  <1>4. CASE UNCHANGED vars
    <2> USE DEF vars, workerVars, cacheVars, userVars, callVars, histVars
    <2>1. TypeOK'
      BY <1>4 DEF Inv, TypeOK, W!TypeOK
    <2>2. UserOrder' /\ TodoIsFresh' /\ WriterOrder'
      BY <1>4, UserOrderFrame, TodoIsFreshFrame, WriterOrderFrame DEF Inv
    <2>3. FlushOrder' /\ CacheOwnership' /\ ExactlyOnce'
      BY <1>4, FlushOrderFrame, CacheOwnershipFrame, ExactlyOnceFrame DEF Inv
    <2> QED BY <2>1, <2>2, <2>3 DEF Inv
  <1> QED BY <1>1, <1>2, <1>3, <1>4 DEF Next

\* When nothing is queued, call() does not run and the append() cache is
\* empty, all that was accepted is on the pages.
LEMMA FlushedIsWritten ==
    ASSUME Inv, m_data = <<>>, wpc # "call", m_cache \in Caches, m_size[m_cache] = 0
    PROVE  \A m \in Meas : written[m] = IF m \in accepted THEN 1 ELSE 0
  <1>1. wstep = "none" /\ cur = NoCache
    BY DEF Inv, WriterOrder
  <1>2. ASSUME NEW c \in Caches PROVE Unwritten(c) = {}
    <2>1. m_size[c] = 0
      BY <1>1, StorageNamesAssumption DEF Inv, CacheOwnership
    <2> QED BY <1>1, <2>1 DEF Inv, CacheOwnership, Unwritten
  <1> QED BY <1>2 DEF Inv, ExactlyOnce

\* A reader holds the writer's mutex after a full flush.
LEMMA ReadingIsFlushed == Inv => ReadSeesAll
  <1> SUFFICES ASSUME Inv, NEW t \in Threads, upc[t] = "reading"
               PROVE  \A m \in Meas : written[m] = IF m \in accepted THEN 1 ELSE 0
    BY DEF ReadSeesAll
  <1>1. m_data = <<>> /\ m_thread_lock = t /\ m_size[m_cache] = 0
    BY DEF Inv, FlushOrder
  <1>2. wpc # "call"
    BY <1>1, StorageNamesAssumption DEF Inv, WriterOrder
  <1>3. m_cache \in Caches
    BY HasCache DEF Inv
  <1> QED BY <1>1, <1>2, <1>3, FlushedIsWritten

\* Close() returns after the writer's thread has ended.
LEMMA ClosedIsFlushed == Inv => ClosedIsComplete
  <1> SUFFICES ASSUME Inv, m_closed
               PROVE  \A m \in Meas : written[m] = IF m \in accepted THEN 1 ELSE 0
    BY DEF ClosedIsComplete
  <1>1. PICK t \in Threads : upc[t] = "closed"
    BY DEF Inv, FlushOrder
  <1>2. m_size[m_cache] = 0 /\ cpc[t] = "stopped"
    BY <1>1 DEF Inv, FlushOrder
  <1>3. wpc = "exited" /\ m_data = <<>>
    BY <1>2 DEF Inv, FlushOrder
  <1>4. m_cache \in Caches
    BY <1>1, HasCache DEF Inv
  <1> QED BY <1>2, <1>3, <1>4, FlushedIsWritten

\* Inv holds in every state of a storage with any number of threads, caches
\* and measurements, whatever the order of appends, reads, writer steps and
\* the close.
THEOREM StorageInvariant == Spec => []Inv
  <1>1. Init => Inv
    BY InvInit
  <1>2. Inv /\ [Next]_vars => Inv'
    BY InvNext
  <1> QED BY <1>1, <1>2, PTL DEF Spec

\* append(), writeCache(), getCache() and call() together neither lose nor
\* duplicate an accepted measurement.
THEOREM NothingLostOrDoubled == Spec => []ExactlyOnce
  <1>1. Inv => ExactlyOnce
    BY DEF Inv
  <1> QED BY <1>1, StorageInvariant, PTL

\* The cache append() fills is never in the writer's hands (sync_begin() and
\* sync_complete() in storage.cpp).
THEOREM CachesAreOwned == Spec => []CacheOwnership
  <1>1. Inv => CacheOwnership
    BY DEF Inv
  <1> QED BY <1>1, StorageInvariant, PTL

\* readInterval(), readInTimePoint(), minTime() and maxTime() read pages that
\* hold every accepted measurement once.
THEOREM ReadersSeeAll == Spec => []ReadSeesAll
  BY ReadingIsFlushed, StorageInvariant, PTL

\* After Close() every accepted measurement is on a page once.
THEOREM ClosedStorageIsComplete == Spec => []ClosedIsComplete
  BY ClosedIsFlushed, StorageInvariant, PTL
=============================================================================
