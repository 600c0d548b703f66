------------------------------- MODULE PastTime -------------------------------
(***************************************************************************)
(* setPastTime and checkPastTime (libnkvdb/meas.cpp): append() drops the   *)
(* measurements that are too old by the clock of the moment each of them   *)
(* is looked at, while it fills caches and hands them on.  One thread      *)
(* appends, as m_write_mutex makes it, and the clock advances between any  *)
(* two of its steps; Storage.tla has the writer and the pool, here         *)
(* writeCache() always finds an empty cache.                               *)
(*                                                                         *)
(* Time is an unsigned integer: subtraction is modulo Modulus (2^64).      *)
(***************************************************************************)
EXTENDS Integers, Sequences

CONSTANTS
    Modulus,        \* 2^64 in the build
    MaxTime,        \* times of measurements and of the clock: 0..MaxTime
    Pasts,          \* arguments of setPastTime()
    CacheSize,      \* the size of a cache
    MaxBatch        \* bound: measurements of a call

ASSUME PastTimeAssumption ==
    /\ Modulus \in Nat /\ MaxTime \in Nat /\ MaxBatch \in Nat
    /\ CacheSize \in Nat \ {0}
    /\ Pasts \subseteq Nat
    /\ \A p \in Pasts : p + MaxTime < Modulus

Times == 0..MaxTime

Batches == UNION {[1..n -> Times] : n \in 1..MaxBatch}

VARIABLES
    now,            \* CurrentUtcTime()
    m_past_time,
    m_size,         \* the measurements in m_cache
    kind,           \* append(PMeas, size): "array", append(MeasList): "list"
    batch, pos,     \* the measurements of the call, and the next of them
    left,           \* those Cache::append(array) will still look at
    called,         \* the clock when the call began
    kept            \* the positions in batch of the measurements stored

cacheVars == <<m_size, pos, left, kept>>
callVars == <<kind, batch, called>>
pastVars == <<now, m_past_time, cacheVars, callVars>>

Busy == pos <= Len(batch)

PastTypeOK ==
    /\ now \in Times /\ called \in Times
    /\ m_past_time \in Pasts \cup {0}
    /\ m_size \in 0..CacheSize
    /\ left \in 0..CacheSize
    /\ kind \in {"array", "list"}
    /\ batch \in Seq(Times)
    /\ pos \in 1 .. Len(batch) + 1
    /\ kept \in SUBSET (1 .. pos - 1)

-----------------------------------------------------------------------------

\* Mutant: the age is compared as if times were signed and had no limit.
checkPastTime_future(t, past_time) ==
    past_time = 0 \/ now - t <= past_time

checkPastTime(t, past_time) ==
    past_time = 0 \/ (now - t) % Modulus <= past_time

PastInit ==
    /\ now \in Times /\ called = now
    /\ m_past_time = 0
    /\ m_size = 0 /\ left = 0
    /\ kind = "list"
    /\ batch = <<>> /\ pos = 1
    /\ kept = {}

Tick ==
    /\ now < MaxTime
    /\ now' = now + 1
    /\ UNCHANGED <<m_past_time, cacheVars, callVars>>

\* setPastTime, between two calls; the last call is forgotten.
setPastTime(p) ==
    /\ ~Busy
    /\ m_past_time' = p
    /\ batch' = <<>> /\ pos' = 1 /\ kept' = {} /\ called' = now /\ left' = 0
    /\ UNCHANGED <<now, m_size, kind>>

\* Mutant: the space already used in the cache is not subtracted.
AppendArray_whole(b) ==
    /\ ~Busy
    /\ kind' = "array" /\ batch' = b /\ pos' = 1 /\ kept' = {} /\ called' = now
    /\ m_size' = IF m_size = CacheSize THEN 0 ELSE m_size
    /\ left' = CacheSize
    /\ UNCHANGED <<now, m_past_time>>

\* append(array): a full cache is handed on first; Cache::append will look
\* at as many measurements as it has free space.
AppendArray(b) ==
    /\ ~Busy
    /\ kind' = "array" /\ batch' = b /\ pos' = 1 /\ kept' = {} /\ called' = now
    /\ m_size' = IF m_size = CacheSize THEN 0 ELSE m_size
    /\ left' = CacheSize - m_size'
    /\ UNCHANGED <<now, m_past_time>>

\* One measurement of the loop: stored, or ignored.
ArrayElement ==
    /\ Busy /\ kind = "array" /\ left > 0
    /\ \/ /\ checkPastTime(batch[pos], m_past_time)
          /\ m_size' = m_size + 1
          /\ kept' = kept \cup {pos}
       \/ /\ ~checkPastTime(batch[pos], m_past_time)
          /\ UNCHANGED <<m_size, kept>>
    /\ pos' = pos + 1
    /\ left' = left - 1
    /\ UNCHANGED <<now, m_past_time, callVars>>

\* Mutant: the next call goes to the same cache.
HandOn_same ==
    /\ Busy /\ kind = "array" /\ left = 0
    /\ left' = CacheSize - m_size
    /\ UNCHANGED <<now, m_past_time, m_size, pos, kept, callVars>>

\* Cache::append has looked at fewer than were left: writeCache(), which
\* hands on a cache that is not empty, full or not (ignored measurements
\* leave room in it), and the next call of Cache::append.
HandOn ==
    /\ Busy /\ kind = "array" /\ left = 0
    /\ m_size' = 0
    /\ left' = CacheSize
    /\ UNCHANGED <<now, m_past_time, pos, kept, callVars>>

\* append(list) appends them one by one.
AppendList(b) ==
    /\ ~Busy
    /\ kind' = "list" /\ batch' = b /\ pos' = 1 /\ kept' = {} /\ called' = now
    /\ left' = 0
    /\ UNCHANGED <<now, m_past_time, m_size>>

\* One turn of the loop of append(value): it is ignored, or stored, or the
\* full cache is handed on and its age is checked again.
ListElement ==
    /\ Busy /\ kind = "list"
    /\ \/ /\ ~checkPastTime(batch[pos], m_past_time)
          /\ pos' = pos + 1
          /\ UNCHANGED <<m_size, kept>>
       \/ /\ checkPastTime(batch[pos], m_past_time)
          /\ m_size < CacheSize
          /\ m_size' = m_size + 1
          /\ kept' = kept \cup {pos}
          /\ pos' = pos + 1
       \/ /\ checkPastTime(batch[pos], m_past_time)
          /\ m_size = CacheSize
          /\ m_size' = 0
          /\ UNCHANGED <<pos, kept>>
    /\ UNCHANGED <<now, m_past_time, left, callVars>>

Step == ArrayElement \/ HandOn \/ ListElement

PastNext ==
    \/ Tick
    \/ \E p \in Pasts : setPastTime(p)
    \/ \E b \in Batches : AppendArray(b) \/ AppendList(b)
    \/ ArrayElement
    \/ HandOn
    \/ ListElement

PastSpec == PastInit /\ [][PastNext]_pastVars

\* The thread that appends goes on.
LivePast == PastSpec /\ WF_pastVars(Step)

-----------------------------------------------------------------------------
(* Properties *)

\* What pastTime() promises, whenever the clock advances during a call and
\* through all caches a call fills.  Without a limit everything is stored.
\* With one, a measurement taken before the call that is still less than the
\* limit away from the clock is stored, and one that is stored was not further
\* away than the limit: before the clock when the call began, or ahead of the
\* clock of now.  Between these two, at the limit itself or a little ahead of
\* the clock, the code and its comment differ and nothing is said.
RecentKept ==
    \A i \in 1 .. pos - 1 :
        /\ m_past_time = 0 \/ (batch[i] <= called /\ now - batch[i] < m_past_time) => i \in kept
        /\ i \in kept /\ m_past_time # 0 =>
              batch[i] - now <= m_past_time /\ called - batch[i] <= m_past_time

\* The loops never store outside the array of the cache: what is in it and
\* what Cache::append will still look at fits.
Fits ==
    /\ m_size <= CacheSize
    /\ Busy /\ kind = "array" => m_size + left <= CacheSize

\* Each call of append returns: the loop hands on full caches and ignored
\* measurements count as written.
Returns == Busy ~> ~Busy
==============================================================================
