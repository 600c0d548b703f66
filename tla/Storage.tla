------------------------------- MODULE Storage -------------------------------
(***************************************************************************)
(* nkvdb::Storage (libnkvdb/storage.cpp) composed with the caches of its   *)
(* pool (libnkvdb/cache.cpp), its AsyncWriter (AsyncWorker with call()     *)
(* that writes a cache to the current page) and the fill level of that     *)
(* page.  It follows every measurement from append() through a cache and   *)
(* the writer's queue to the pages, while other threads read and close.    *)
(*                                                                         *)
(* A measurement stands for one element of one append(): the model appends *)
(* each at most once, so a set of them is enough for a cache's array, and  *)
(* written[m] counts the records of m on all pages.  How a page lays its   *)
(* records out, its header, its index and its write window are the matter  *)
(* of other modules; here a page only has room for PageCap records.        *)
(*                                                                         *)
(* upc[t] is where thread t is in a method of Storage.  A thread that      *)
(* waits for m_write_mutex has not begun: it is "idle".  writeCache() is a *)
(* subroutine that continues at ret[t].                                    *)
(***************************************************************************)
EXTENDS Naturals, Sequences, FiniteSets

CONSTANTS
    Threads,    \* the user's threads
    Caches,     \* the caches of CachePool
    Meas,       \* the measurements that may be appended
    Old,        \* those that checkPastTime may reject, as the clock advances
    CacheSize,  \* Cache::m_max_size
    PageCap,    \* records a page has room for
    MaxBatch,   \* bound: the longest array given to append()
    Worker, NoThread, NoCache

ASSUME SizesAssumption ==
    /\ CacheSize \in Nat \ {0}
    /\ PageCap \in Nat \ {0}
    /\ MaxBatch \in Nat \ {0}
    /\ Old \subseteq Meas
    /\ IsFiniteSet(Meas)

ASSUME StorageNamesAssumption ==
    /\ Worker \notin Threads
    /\ NoThread \notin Threads
    /\ Worker # NoThread
    /\ NoCache \notin Caches

VARIABLES
    m_data, m_thread_lock, m_stop_flag, m_thread_work, wpc, cur, cpc,
    m_write_mutex,  \* the thread that holds it
    m_cache,        \* the cache append() fills
    meases,         \* the stored elements of each cache's array
    m_size,         \* Cache::m_size, their number
    m_sync,         \* Cache::m_sync: handed to the writer
    upc, ret, todo, \* the method each thread executes, and its array
    rest,           \* AsyncWriter::call: records not yet on a page
    wstep,          \* AsyncWriter::call: where it is
    written,        \* number of records of each measurement on the pages
    write_pos,      \* records on the current page
    issued,         \* measurements given to some append()
    accepted,       \* measurements append() counted as written, not ignored
    m_closed

workerVars == <<m_data, m_thread_lock, m_stop_flag, m_thread_work, wpc, cur, cpc>>
cacheVars == <<m_cache, meases, m_size, m_sync>>
userVars == <<m_write_mutex, upc, ret, todo>>
callVars == <<rest, wstep, written, write_pos>>
histVars == <<issued, accepted>>
vars == <<workerVars, cacheVars, userVars, callVars, histVars, m_closed>>

W == INSTANCE AsyncWorker WITH Clients <- Threads, Items <- Caches, NoItem <- NoCache

Places == {"idle", "one", "array", "chunk", "write_cache", "get_cache",
           "drain", "pause", "reading", "cur_drain",
           "close", "stopping", "close_page", "closed"}

TypeOK ==
    /\ W!TypeOK
    /\ m_write_mutex \in Threads \cup {NoThread}
    /\ m_cache \in Caches \cup {NoCache}
    /\ meases \in [Caches -> SUBSET Meas]
    /\ m_size \in [Caches -> 0..CacheSize]
    /\ m_sync \in [Caches -> BOOLEAN]
    /\ upc \in [Threads -> Places]
    /\ ret \in [Threads -> Places]
    /\ todo \in [Threads -> Seq(Meas)]
    /\ rest \in SUBSET Meas
    /\ wstep \in {"none", "write", "new_page", "clear", "sync_complete"}
    /\ written \in [Meas -> Nat]
    /\ write_pos \in 0..PageCap
    /\ issued \in SUBSET Meas
    /\ accepted \in SUBSET Meas
    /\ m_closed \in BOOLEAN

\* The constructor has taken a cache from the pool and started the writer;
\* Create() has made an empty page.
Init ==
    /\ m_data = <<>>
    /\ m_thread_lock = NoThread
    /\ m_stop_flag = FALSE
    /\ m_thread_work \in BOOLEAN
    /\ wpc = "created"
    /\ cur = NoCache
    /\ cpc = [t \in Threads |-> "out"]
    /\ m_write_mutex = NoThread
    /\ m_cache \in Caches
    /\ meases = [c \in Caches |-> {}]
    /\ m_size = [c \in Caches |-> 0]
    /\ m_sync = [c \in Caches |-> FALSE]
    /\ upc = [t \in Threads |-> "idle"]
    /\ ret = [t \in Threads |-> "idle"]
    /\ todo = [t \in Threads |-> <<>>]
    /\ rest = {}
    /\ wstep = "none"
    /\ written = [m \in Meas |-> 0]
    /\ write_pos = 0
    /\ issued = {}
    /\ accepted = {}
    /\ m_closed = FALSE

SetOf(s) == {s[i] : i \in 1..Len(s)}

Goto(t, place) == upc' = [upc EXCEPT ![t] = place]

-----------------------------------------------------------------------------
(* append *)

\* No thread is inside curValues() or Close(), which do not take
\* m_write_mutex: their callers must keep them apart from everything else.
NobodyUnlocked == \A u \in Threads : upc[u] # "idle" => m_write_mutex = u

Lock(t) ==
    /\ upc[t] = "idle"
    /\ ~m_closed
    /\ NobodyUnlocked
    /\ m_write_mutex = NoThread
    /\ m_write_mutex' = t

\* append(const Meas&) and append(PMeas, size_t) begin.
BeginAppend(t, batch, place) ==
    /\ Lock(t)
    /\ Goto(t, place)
    /\ todo' = [todo EXCEPT ![t] = batch]
    /\ issued' = issued \cup SetOf(batch)
    /\ UNCHANGED <<workerVars, cacheVars, callVars, ret, accepted, m_closed>>

\* Arrays of measurements that were not appended before.
Batches(n) ==
    {s \in UNION {[1..k -> Meas \ issued] : k \in 1..n} :
        \A i, j \in DOMAIN s : s[i] = s[j] => i = j}

AppendOne(t) == \E b \in Batches(1) : BeginAppend(t, b, "one")
AppendArray(t) == \E b \in Batches(MaxBatch) : BeginAppend(t, b, "array")

\* Call writeCache() and continue at place.
CallWriteCache(t, place) ==
    /\ Goto(t, "write_cache")
    /\ ret' = [ret EXCEPT ![t] = place]

\* A method returns: m_write_mutex is released by the lock_guard.
Unlock(t) ==
    /\ Goto(t, "idle")
    /\ m_write_mutex' = NoThread

Capacity(c) == CacheSize - m_size[c]

\* Cache::append(value) in the loop of Storage::append(value): an ignored
\* measurement counts as written even if the cache is full; a full cache is
\* sent to the writer and the loop tries again.
CacheAppendOne(t) ==
    /\ upc[t] = "one"
    /\ LET m == todo[t][1]
       IN \/ /\ m \in Old
             /\ Unlock(t)
             /\ todo' = [todo EXCEPT ![t] = <<>>]
             /\ UNCHANGED <<meases, m_size, accepted, ret>>
          \/ /\ Capacity(m_cache) > 0
             /\ meases' = [meases EXCEPT ![m_cache] = @ \cup {m}]
             /\ m_size' = [m_size EXCEPT ![m_cache] = @ + 1]
             /\ accepted' = accepted \cup {m}
             /\ Unlock(t)
             /\ todo' = [todo EXCEPT ![t] = <<>>]
             /\ UNCHANGED ret
          \/ /\ Capacity(m_cache) = 0
             /\ CallWriteCache(t, "one")
             /\ UNCHANGED <<meases, m_size, accepted, m_write_mutex, todo>>
    /\ UNCHANGED <<workerVars, m_cache, m_sync, callVars, issued, m_closed>>

\* append(array): if (m_cache->isFull()) writeCache().
ArrayEntry(t) ==
    /\ upc[t] = "array"
    /\ IF Capacity(m_cache) = 0
       THEN CallWriteCache(t, "chunk")
       ELSE Goto(t, "chunk") /\ UNCHANGED ret
    /\ UNCHANGED <<workerVars, cacheVars, callVars, histVars, m_write_mutex, todo, m_closed>>

Smaller(a, b) == IF a < b THEN a ELSE b

\* Cache::append(begin, size): the first `writed` elements of the array are
\* consumed, those that checkPastTime rejects without being stored.
CacheAppendArray(t) ==
    /\ upc[t] = "chunk"
    /\ LET writed == Smaller(Capacity(m_cache), Len(todo[t]))
       IN /\ \E ignored \in SUBSET {i \in 1..writed : todo[t][i] \in Old} :
                LET stored == {todo[t][i] : i \in (1..writed) \ ignored}
                IN /\ meases' = [meases EXCEPT ![m_cache] = @ \cup stored]
                   /\ m_size' = [m_size EXCEPT ![m_cache] =
                                    @ + (writed - Cardinality(ignored))]
                   /\ accepted' = accepted \cup stored
          /\ todo' = [todo EXCEPT ![t] = SubSeq(@, writed + 1, Len(@))]
          /\ IF writed = Len(todo[t])
             THEN Unlock(t) /\ UNCHANGED ret
             ELSE CallWriteCache(t, "chunk") /\ UNCHANGED m_write_mutex
    /\ UNCHANGED <<workerVars, m_cache, m_sync, callVars, issued, m_closed>>

-----------------------------------------------------------------------------
(* writeCache and CachePool::getCache *)

\* if (m_cache->size() == 0) return;
WriteCacheEmpty(t) ==
    /\ upc[t] = "write_cache"
    /\ m_size[m_cache] = 0
    /\ Goto(t, ret[t])
    /\ UNCHANGED <<workerVars, cacheVars, callVars, histVars, m_write_mutex, ret, todo, m_closed>>

\* Mutant of WriteCacheAdd: the cache is queued but not marked.
WriteCacheAddUnmarked(t) ==
    /\ upc[t] = "write_cache"
    /\ m_size[m_cache] # 0
    /\ W!Add(m_cache)
    /\ m_cache' = NoCache
    /\ Goto(t, "get_cache")
    /\ UNCHANGED <<m_sync, meases, m_size, callVars, histVars, m_write_mutex, ret, todo, m_closed>>

\* sync_begin(); m_cache_writer.add(m_cache); m_cache = nullptr;
WriteCacheAdd(t) ==
    /\ upc[t] = "write_cache"
    /\ m_size[m_cache] # 0
    /\ m_sync' = [m_sync EXCEPT ![m_cache] = TRUE]
    /\ W!Add(m_cache)
    /\ m_cache' = NoCache
    /\ Goto(t, "get_cache")
    /\ UNCHANGED <<meases, m_size, callVars, histVars, m_write_mutex, ret, todo, m_closed>>

\* The loop around getCache(): some cache that is not under sync.  Which one
\* depends on how the scan of the pool and the writer interleave.
GetCache(t) ==
    /\ upc[t] = "get_cache"
    /\ \E c \in Caches : ~m_sync[c] /\ m_cache' = c
    /\ Goto(t, ret[t])
    /\ UNCHANGED <<workerVars, meases, m_size, m_sync, callVars, histVars, m_write_mutex, ret, todo, m_closed>>

-----------------------------------------------------------------------------
(* readInterval, readInTimePoint, minTime, maxTime *)

\* All four lock m_write_mutex and call flush_and_stop().
BeginRead(t) ==
    /\ Lock(t)
    /\ CallWriteCache(t, "drain")
    /\ UNCHANGED <<workerVars, cacheVars, callVars, histVars, todo, m_closed>>

\* Mutant of Drained: flush_and_stop() that does not wait for the writer.
NotDrained(t) ==
    /\ upc[t] = "drain"
    /\ Goto(t, "pause")
    /\ UNCHANGED <<workerVars, cacheVars, callVars, histVars, m_write_mutex, ret, todo, m_closed>>

\* flush_and_stop(): !isBusy().
Drained(t) ==
    /\ upc[t] = "drain"
    /\ m_data = <<>>
    /\ Goto(t, "pause")
    /\ UNCHANGED <<workerVars, cacheVars, callVars, histVars, m_write_mutex, ret, todo, m_closed>>

\* Mutant of PauseWriter: reading begins without pause_work().
ReadUnpaused(t) ==
    /\ upc[t] = "pause"
    /\ Goto(t, "reading")
    /\ UNCHANGED <<workerVars, cacheVars, callVars, histVars, m_write_mutex, ret, todo, m_closed>>

\* pause_work(); then the page headers are read.
PauseWriter(t) ==
    /\ upc[t] = "pause"
    /\ W!Pause(t)
    /\ Goto(t, "reading")
    /\ UNCHANGED <<cacheVars, callVars, histVars, m_write_mutex, ret, todo, m_closed>>

\* Mutant of EndRead: an early return that skips continue_work().
EndReadStillPaused(t) ==
    /\ upc[t] = "reading"
    /\ Unlock(t)
    /\ UNCHANGED <<workerVars, cacheVars, callVars, histVars, ret, todo, m_closed>>

\* continue_work(); the method returns.
EndRead(t) ==
    /\ upc[t] = "reading"
    /\ W!Continue(t)
    /\ Unlock(t)
    /\ UNCHANGED <<cacheVars, callVars, histVars, ret, todo, m_closed>>

-----------------------------------------------------------------------------
(* curValues and Close: no mutex *)

\* The caller keeps the storage to itself.
Alone ==
    /\ \A u \in Threads : upc[u] = "idle"
    /\ ~m_closed

BeginCurValues(t) ==
    /\ Alone
    /\ CallWriteCache(t, "cur_drain")
    /\ UNCHANGED <<workerVars, cacheVars, callVars, histVars, m_write_mutex, todo, m_closed>>

CurValuesDrained(t) ==
    /\ upc[t] = "cur_drain"
    /\ m_data = <<>>
    /\ Goto(t, "idle")
    /\ UNCHANGED <<workerVars, cacheVars, callVars, histVars, m_write_mutex, ret, todo, m_closed>>

\* Mutant of BeginClose: Close() that stops the writer without writeCache().
BeginCloseUnflushed(t) ==
    /\ Alone
    /\ Goto(t, "close")
    /\ UNCHANGED <<workerVars, cacheVars, callVars, histVars, m_write_mutex, ret, todo, m_closed>>

\* ~Storage() of a storage that is not closed: Close() begins with
\* writeCache().
BeginClose(t) ==
    /\ Alone
    /\ CallWriteCache(t, "close")
    /\ UNCHANGED <<workerVars, cacheVars, callVars, histVars, m_write_mutex, todo, m_closed>>

\* m_cache_writer.stop()
StopWriter(t) ==
    /\ upc[t] = "close"
    /\ W!StopBegin(t)
    /\ Goto(t, "stopping")
    /\ UNCHANGED <<cacheVars, callVars, histVars, m_write_mutex, ret, todo, m_closed>>

StoppingWriter(t) ==
    /\ upc[t] = "stopping"
    /\ W!StopStep(t)
    /\ UNCHANGED <<cacheVars, callVars, histVars, userVars, m_closed>>

\* closeCurrentPage(), PageManager::stop(), m_closed = true.
EndClose(t) ==
    /\ upc[t] = "stopping"
    /\ cpc[t] = "stopped"
    /\ Goto(t, "closed")
    /\ m_closed' = TRUE
    /\ UNCHANGED <<workerVars, cacheVars, callVars, histVars, m_write_mutex, ret, todo>>

-----------------------------------------------------------------------------
(* The writer's thread: AsyncWorker with AsyncWriter::call *)

\* Steps of _thread_func outside call().
WriterIdles ==
    /\ W!ThreadStart \/ W!TestEmpty \/ W!WaitBlock \/ W!Reacquire \/ W!Exit
    /\ UNCHANGED <<cacheVars, callVars, histVars, userVars, m_closed>>

SpuriousWakeup ==
    /\ W!SpuriousWakeup
    /\ UNCHANGED <<cacheVars, callVars, histVars, userVars, m_closed>>

\* The thread pops a cache and enters call(): output is the cache's array.
CallBegin ==
    /\ W!Claim
    /\ IF m_stop_flag
       THEN UNCHANGED <<rest, wstep>>
       ELSE rest' = meases[cur'] /\ wstep' = "write"
    /\ UNCHANGED <<cacheVars, written, write_pos, histVars, userVars, m_closed>>

\* One round of while (to_write > 0): Page::append fills the page, with the
\* first `writed` records in the order of the sort by time (which ones these
\* are makes no difference here).
WritePage ==
    /\ wstep = "write"
    /\ LET writed == Smaller(PageCap - write_pos, Cardinality(rest))
       IN \E out \in {s \in SUBSET rest : Cardinality(s) = writed} :
             /\ written' = [m \in Meas |-> written[m] + IF m \in out THEN 1 ELSE 0]
             /\ write_pos' = write_pos + writed
             /\ rest' = rest \ out
             /\ wstep' = IF writed # Cardinality(rest) THEN "new_page" ELSE "clear"
    /\ UNCHANGED <<workerVars, cacheVars, histVars, userVars, m_closed>>

\* Mutant of NewPage: the new page is taken to be as full as the old one.
NewPageStillFull ==
    /\ wstep = "new_page"
    /\ wstep' = "write"
    /\ UNCHANGED <<write_pos, workerVars, cacheVars, rest, written, histVars, userVars, m_closed>>

\* PageManager::createNewPage()
NewPage ==
    /\ wstep = "new_page"
    /\ write_pos' = 0
    /\ wstep' = "write"
    /\ UNCHANGED <<workerVars, cacheVars, rest, written, histVars, userVars, m_closed>>

\* Mutant of ClearCache and SyncComplete in the opposite order: the cache
\* is free before it is cleared.
SyncBeforeClear ==
    /\ wstep = "clear"
    /\ m_sync' = [m_sync EXCEPT ![cur] = FALSE]
    /\ wstep' = "sync_complete"
    /\ UNCHANGED <<workerVars, m_cache, meases, m_size, rest, written, write_pos, histVars, userVars, m_closed>>

ClearAfterSync ==
    /\ wstep = "sync_complete"
    /\ meases' = [meases EXCEPT ![cur] = {}]
    /\ m_size' = [m_size EXCEPT ![cur] = 0]
    /\ wstep' = "none"
    /\ W!Return
    /\ UNCHANGED <<m_cache, m_sync, rest, written, write_pos, histVars, userVars, m_closed>>

\* data->clear()
ClearCache ==
    /\ wstep = "clear"
    /\ meases' = [meases EXCEPT ![cur] = {}]
    /\ m_size' = [m_size EXCEPT ![cur] = 0]
    /\ wstep' = "sync_complete"
    /\ UNCHANGED <<workerVars, m_cache, m_sync, rest, written, write_pos, histVars, userVars, m_closed>>

\* data->sync_complete() and the end of call().
SyncComplete ==
    /\ wstep = "sync_complete"
    /\ m_sync' = [m_sync EXCEPT ![cur] = FALSE]
    /\ wstep' = "none"
    /\ W!Return
    /\ UNCHANGED <<m_cache, meases, m_size, rest, written, write_pos, histVars, userVars, m_closed>>

\* Mutant of CallEnd: sync_complete() before clear().
CallEndSwapped == SyncBeforeClear \/ ClearAfterSync

\* The last two lines of call().
CallEnd == ClearCache \/ SyncComplete

WriterStep == WriterIdles \/ CallBegin \/ WritePage \/ NewPage \/ CallEnd

-----------------------------------------------------------------------------
AppendStep(t) ==
    \/ AppendOne(t) \/ AppendArray(t)
    \/ CacheAppendOne(t) \/ ArrayEntry(t) \/ CacheAppendArray(t)

FlushStep(t) == WriteCacheEmpty(t) \/ WriteCacheAdd(t) \/ GetCache(t)

ReadStep(t) == BeginRead(t) \/ Drained(t) \/ PauseWriter(t) \/ EndRead(t)

CurValuesStep(t) == BeginCurValues(t) \/ CurValuesDrained(t)

CloseStep(t) == BeginClose(t) \/ StopWriter(t) \/ StoppingWriter(t) \/ EndClose(t)

UserStep(t) ==
    \/ AppendStep(t) \/ FlushStep(t) \/ ReadStep(t)
    \/ CurValuesStep(t) \/ CloseStep(t)

Next ==
    \/ WriterStep
    \/ SpuriousWakeup
    \/ \E t \in Threads : UserStep(t)

Spec == Init /\ [][Next]_vars

(***************************************************************************)
(* Fairness.  The writer's thread runs whenever it can.  A reader that     *)
(* waits in pause_work() competes with the writer for m_thread_lock; the   *)
(* writer gives it up each time it sleeps, and a mutex that is released    *)
(* again and again is eventually granted (SF).  Users are free to call or  *)
(* not.                                                                    *)
(***************************************************************************)
FairSpec ==
    /\ Spec
    /\ WF_vars(WriterStep)
    /\ \A t \in Threads : SF_vars(PauseWriter(t)) /\ WF_vars(EndRead(t))

-----------------------------------------------------------------------------
(* Properties *)

\* What cache c holds that is on no page yet: while call() works on c, only
\* the records it has not written.
Unwritten(c) == IF wstep # "none" /\ cur = c THEN rest ELSE meases[c]

\* Every accepted measurement is in exactly one place: one cache, or one
\* record on one page.  No hand-over between append(), the pool, the queue,
\* call() and the pages loses or duplicates one, and nothing else appears.
ExactlyOnce ==
    \A m \in Meas :
        \/ /\ written[m] = IF m \in accepted THEN 1 ELSE 0
           /\ \A c \in Caches : m \notin Unwritten(c)
        \/ /\ written[m] = 0 /\ m \in accepted
           /\ \E c \in Caches :
                 \A d \in Caches : m \in Unwritten(d) <=> d = c

\* A thread that reads the pages finds all that was accepted before,
\* exactly once: writeCache(), the wait for an empty queue and pause_work()
\* together flush the whole pipeline, a call() in progress included.
ReadSeesAll ==
    \A t \in Threads : upc[t] = "reading" =>
        \A m \in Meas : written[m] = IF m \in accepted THEN 1 ELSE 0

\* A closed storage has all that was accepted on its pages.
ClosedIsComplete ==
    m_closed => \A m \in Meas : written[m] = IF m \in accepted THEN 1 ELSE 0

\* The cache under append() never reaches the writer's hands: it is not
\* marked, not queued and not in call(); a marked cache is in the queue once
\* or in call(); a free cache is empty when getCache() hands it out.
CacheOwnership ==
    /\ m_cache # NoCache => ~m_sync[m_cache]
    /\ \A i \in 1..Len(m_data) : m_sync[m_data[i]] /\ m_data[i] # cur
    /\ \A i, j \in 1..Len(m_data) : m_data[i] = m_data[j] => i = j
    /\ cur # NoCache => m_sync[cur]
    /\ \A c \in Caches :
          /\ m_sync[c] => c = cur \/ \E i \in 1..Len(m_data) : m_data[i] = c
          /\ ~m_sync[c] /\ c # m_cache => m_size[c] = 0
          /\ m_size[c] = 0 => meases[c] = {}

\* call() ends: each new page takes records, so the loop over to_write
\* terminates and the cache comes back to the pool.
CallReturns == (wpc = "call") ~> (wpc = "test")

\* A reader that has seen the queue empty is let through by pause_work(),
\* although the writer may be in call() or be woken again and again.
ReaderProceeds ==
    \A t \in Threads : (upc[t] = "pause") ~> (upc[t] = "idle")

-----------------------------------------------------------------------------
(* The inductive invariant *)

InWriteCache(t) == upc[t] \in {"write_cache", "get_cache"}

Appending(t) ==
    \/ upc[t] \in {"one", "array", "chunk"}
    \/ InWriteCache(t) /\ ret[t] \in {"one", "chunk"}

\* One thread at a time is inside a method, and only getCache() leaves the
\* storage without a cache.
UserOrder ==
    /\ \A t, u \in Threads : upc[t] # "idle" /\ upc[u] # "idle" => t = u
    /\ m_cache = NoCache <=> \E t \in Threads : upc[t] = "get_cache"
    /\ \A t \in Threads :
          /\ InWriteCache(t) =>
                ret[t] \in {"one", "chunk", "drain", "cur_drain", "close"}
          /\ ~Appending(t) => todo[t] = <<>>
          /\ upc[t] = "one" \/ (InWriteCache(t) /\ ret[t] = "one")
                => Len(todo[t]) = 1

\* What is still to be appended has not been accepted yet.
TodoIsFresh ==
    /\ accepted \subseteq issued
    /\ \A t \in Threads :
          /\ \A i \in 1..Len(todo[t]) : todo[t][i] \in issued \ accepted
          /\ \A i, j \in 1..Len(todo[t]) : todo[t][i] = todo[t][j] => i = j

\* The writer's thread, its mutex and its progress in call() agree.
WriterOrder ==
    /\ m_thread_lock = Worker <=> wpc \in {"test", "wait", "claim", "call", "exit"}
    /\ wpc # "none"
    /\ wpc = "claim" => m_data # <<>>
    /\ wpc \in {"exit", "exited"} => m_stop_flag
    /\ wpc = "call" <=> wstep # "none"
    /\ wpc = "call" <=> cur # NoCache
    /\ wstep \in {"write", "new_page"} => rest \subseteq meases[cur]
    /\ wstep \in {"clear", "sync_complete"} => rest = {}
    /\ wstep = "sync_complete" => m_size[cur] = 0

\* How far the pipeline is flushed at each place of a reading or closing
\* thread.
FlushOrder ==
    /\ \A t \in Threads :
          /\ upc[t] \in {"drain", "pause", "reading", "cur_drain",
                         "close", "stopping", "closed"} => m_size[m_cache] = 0
          /\ upc[t] \in {"pause", "reading"} => m_data = <<>>
          /\ upc[t] = "reading" <=> m_thread_lock = t
          /\ cpc[t] # "out" <=> upc[t] \in {"stopping", "closed"}
          /\ cpc[t] = "stopped" => wpc = "exited"
          /\ cpc[t] \in {"killing", "joining", "stopped"} => m_stop_flag
          /\ upc[t] = "closed" => cpc[t] = "stopped"
    /\ m_stop_flag => m_data = <<>> /\ ~W!Usable
    /\ m_closed => \E t \in Threads : upc[t] = "closed"

\* The inductive invariant of the storage.
Inv ==
    /\ TypeOK
    /\ UserOrder
    /\ TodoIsFresh
    /\ WriterOrder
    /\ FlushOrder
    /\ CacheOwnership
    /\ ExactlyOnce
=============================================================================
