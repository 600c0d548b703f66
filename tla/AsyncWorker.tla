----------------------------- MODULE AsyncWorker -----------------------------
(***************************************************************************)
(* nkvdb::utils::AsyncWorker<T> (include/asyncworker.h): one background    *)
(* thread that takes jobs from a FIFO queue and passes them to call().     *)
(*                                                                         *)
(* Two mutexes and one condition variable synchronise it.  m_add_lock      *)
(* protects the queue for the short push and pop; m_thread_lock is held by *)
(* the thread from its start to its end, EXCEPT while it sleeps in         *)
(* m_have_data.wait, and pause_work() takes that same mutex.  The decisive *)
(* detail is that add() pushes and notifies without m_thread_lock, so it   *)
(* can run between the thread's test of m_data.empty() and its wait.       *)
(*                                                                         *)
(* The model is open: clients may call add, pause_work, continue_work,     *)
(* stop and the destructor as often as they like, under the rules every    *)
(* owner of a C++ object obeys (nobody uses an object that is being        *)
(* destroyed).  A step of the model is an interval of the code between two *)
(* accesses to shared state that other threads can tell apart.  push and   *)
(* notify_one are one step: a thread that goes to sleep between them is    *)
(* woken by the notify, exactly as if it had slept before the push.        *)
(***************************************************************************)
EXTENDS Naturals, Sequences

CONSTANTS
    Clients,    \* threads that call the worker's methods
    Items,      \* the jobs, T
    Worker,     \* the identity of m_thread as a holder of m_thread_lock
    NoThread,   \* m_thread_lock is free
    NoItem      \* no call() in progress

ASSUME NamesAssumption ==
    /\ Worker \notin Clients
    /\ NoThread \notin Clients
    /\ Worker # NoThread
    /\ NoItem \notin Items

VARIABLES
    m_data,         \* std::queue<T>
    m_thread_lock,  \* who holds the mutex
    m_stop_flag,
    m_thread_work,
    wpc,            \* where the thread is in _thread_func
    cur,            \* the argument of the call() in progress
    cpc             \* where each client is in stop(), kill() and join()

vars == <<m_data, m_thread_lock, m_stop_flag, m_thread_work, wpc, cur, cpc>>

(***************************************************************************)
(* Places in _thread_func.  "wait": m_data was seen empty, wait() not yet  *)
(* entered.  "blocked": asleep on m_have_data.  "woken": notified, has to  *)
(* take m_thread_lock again.  "claim": m_data was seen non-empty.          *)
(***************************************************************************)
WorkerPlaces == {"none", "created", "test", "wait", "blocked", "woken",
                 "claim", "call", "exit", "exited"}

ClientPlaces == {"out", "stopping", "killing", "joining", "stopped"}

TypeOK ==
    /\ m_data \in Seq(Items)
    /\ m_thread_lock \in Clients \cup {Worker, NoThread}
    /\ m_stop_flag \in BOOLEAN
    /\ m_thread_work \in BOOLEAN
    /\ wpc \in WorkerPlaces
    /\ cur \in Items \cup {NoItem}
    /\ cpc \in [Clients -> ClientPlaces]

\* m_thread_work has no initialiser (asyncworker.h:95): before the thread
\* stores to it, it holds whatever the allocation held.
Init ==
    /\ m_data = <<>>
    /\ m_thread_lock = NoThread
    /\ m_stop_flag = FALSE
    /\ m_thread_work \in BOOLEAN
    /\ wpc = "none"
    /\ cur = NoItem
    /\ cpc = [t \in Clients |-> "out"]

-----------------------------------------------------------------------------
(* The thread: _thread_func *)

\* std::thread runs the function: lock m_thread_lock, m_thread_work = true.
ThreadStart ==
    /\ wpc = "created"
    /\ m_thread_lock = NoThread
    /\ m_thread_lock' = Worker
    /\ m_thread_work' = TRUE
    /\ wpc' = "test"
    /\ UNCHANGED <<m_data, m_stop_flag, cur, cpc>>

\* while (m_data.empty())
TestEmpty ==
    /\ wpc = "test"
    /\ wpc' = IF m_data = <<>> THEN "wait" ELSE "claim"
    /\ UNCHANGED <<m_data, m_thread_lock, m_stop_flag, m_thread_work, cur, cpc>>

\* m_have_data.wait(lock): releases the mutex and sleeps, atomically.
WaitBlock ==
    /\ wpc = "wait"
    /\ wpc' = "blocked"
    /\ m_thread_lock' = NoThread
    /\ UNCHANGED <<m_data, m_stop_flag, m_thread_work, cur, cpc>>

\* A condition variable may return from wait() without a notify.
SpuriousWakeup ==
    /\ wpc = "blocked"
    /\ wpc' = "woken"
    /\ UNCHANGED <<m_data, m_thread_lock, m_stop_flag, m_thread_work, cur, cpc>>

\* Mutant of Reacquire: wait() returns without waiting for the mutex.
ReacquireWithoutLock ==
    /\ wpc = "woken"
    /\ wpc' = IF m_stop_flag THEN "exit" ELSE "test"
    /\ UNCHANGED <<m_data, m_thread_lock, m_stop_flag, m_thread_work, cur, cpc>>

\* wait() returns with the mutex held; a set m_stop_flag leaves both loops.
Reacquire ==
    /\ wpc = "woken"
    /\ m_thread_lock = NoThread
    /\ m_thread_lock' = Worker
    /\ wpc' = IF m_stop_flag THEN "exit" ELSE "test"
    /\ UNCHANGED <<m_data, m_stop_flag, m_thread_work, cur, cpc>>

\* Mutant of Claim: the front is read and never popped when it is the last.
ClaimKeepsLast ==
    /\ wpc = "claim"
    /\ IF m_stop_flag
       THEN wpc' = "exit" /\ UNCHANGED <<m_data, cur>>
       ELSE /\ wpc' = "call"
            /\ cur' = Head(m_data)
            /\ m_data' = IF Len(m_data) > 1 THEN Tail(m_data) ELSE m_data
    /\ UNCHANGED <<m_thread_lock, m_stop_flag, m_thread_work, cpc>>

\* if (m_stop_flag) break; otherwise front() and pop() under m_add_lock.
Claim ==
    /\ wpc = "claim"
    /\ IF m_stop_flag
       THEN wpc' = "exit" /\ UNCHANGED <<m_data, cur>>
       ELSE /\ wpc' = "call"
            /\ cur' = Head(m_data)
            /\ m_data' = Tail(m_data)
    /\ UNCHANGED <<m_thread_lock, m_stop_flag, m_thread_work, cpc>>

\* this->call(d) returns and the outer loop starts over.
Return ==
    /\ wpc = "call"
    /\ wpc' = "test"
    /\ cur' = NoItem
    /\ UNCHANGED <<m_data, m_thread_lock, m_stop_flag, m_thread_work, cpc>>

\* m_thread_work = false, the lock's destructor, end of the thread.
Exit ==
    /\ wpc = "exit"
    /\ wpc' = "exited"
    /\ m_thread_work' = FALSE
    /\ m_thread_lock' = NoThread
    /\ UNCHANGED <<m_data, m_stop_flag, cur, cpc>>

-----------------------------------------------------------------------------
(* The methods clients call *)

\* notify_one wakes the thread if it sleeps; otherwise it is lost.
Notified == IF wpc = "blocked" THEN "woken" ELSE wpc

\* No client has begun to stop or to destroy the worker.
Usable == \A t \in Clients : cpc[t] = "out"

\* start(): called once, by the constructor of the owner.
Start ==
    /\ wpc = "none"
    /\ m_stop_flag' = FALSE
    /\ wpc' = "created"
    /\ UNCHANGED <<m_data, m_thread_lock, m_thread_work, cur, cpc>>

\* add(data)
Add(x) ==
    /\ wpc # "none"
    /\ Usable
    /\ m_data' = Append(m_data, x)
    /\ wpc' = Notified
    /\ UNCHANGED <<m_thread_lock, m_stop_flag, m_thread_work, cur, cpc>>

\* Mutant of Pause: pause_work() that does not wait for the mutex of a call.
PauseDuringCall(t) ==
    /\ wpc # "none"
    /\ Usable
    /\ m_thread_lock = NoThread \/ wpc = "call"
    /\ m_thread_lock' = t
    /\ UNCHANGED <<m_data, m_stop_flag, m_thread_work, wpc, cur, cpc>>

\* pause_work()
Pause(t) ==
    /\ wpc # "none"
    /\ Usable
    /\ m_thread_lock = NoThread
    /\ m_thread_lock' = t
    /\ UNCHANGED <<m_data, m_stop_flag, m_thread_work, wpc, cur, cpc>>

\* continue_work()
Continue(t) ==
    /\ m_thread_lock = t
    /\ m_thread_lock' = NoThread
    /\ UNCHANGED <<m_data, m_stop_flag, m_thread_work, wpc, cur, cpc>>

\* stop() of a worker that was not stopped before: enters the waiting loop.
\* The owner calls it when no other client uses the worker any more.
StopBegin(t) ==
    /\ wpc # "none"
    /\ Usable
    /\ m_thread_lock \notin Clients
    /\ ~m_stop_flag
    /\ cpc' = [cpc EXCEPT ![t] = "stopping"]
    /\ UNCHANGED <<m_data, m_thread_lock, m_stop_flag, m_thread_work, wpc, cur>>

\* Mutant of StopDrained: stop() that kills without waiting for !isBusy().
StopWithoutWaiting(t) ==
    /\ cpc[t] = "stopping"
    /\ m_stop_flag' = TRUE
    /\ cpc' = [cpc EXCEPT ![t] = "killing"]
    /\ UNCHANGED <<m_data, m_thread_lock, m_thread_work, wpc, cur>>

\* stop(): !isBusy(), then the first line of kill().
StopDrained(t) ==
    /\ cpc[t] = "stopping"
    /\ m_data = <<>>
    /\ m_stop_flag' = TRUE
    /\ cpc' = [cpc EXCEPT ![t] = "killing"]
    /\ UNCHANGED <<m_data, m_thread_lock, m_thread_work, wpc, cur>>

\* ~AsyncWorker: kill() if the thread runs, whatever is still queued.
Destroy(t) ==
    /\ wpc # "none"
    /\ Usable
    /\ m_thread_lock \notin Clients
    /\ m_thread_work
    /\ m_stop_flag' = TRUE
    /\ cpc' = [cpc EXCEPT ![t] = "killing"]
    /\ UNCHANGED <<m_data, m_thread_lock, m_thread_work, wpc, cur>>

\* Mutant of KillNotify: kill() that notifies only a thread with work to do.
KillNotifyOnlyBusy(t) ==
    /\ cpc[t] = "killing"
    /\ m_thread_work
    /\ wpc' = IF m_data # <<>> THEN Notified ELSE wpc
    /\ UNCHANGED <<m_data, m_thread_lock, m_stop_flag, m_thread_work, cur, cpc>>

\* kill(): one round of while (m_thread_work) notify_one().
KillNotify(t) ==
    /\ cpc[t] = "killing"
    /\ m_thread_work
    /\ wpc' = Notified
    /\ UNCHANGED <<m_data, m_thread_lock, m_stop_flag, m_thread_work, cur, cpc>>

\* kill(): the loop ends.
KillLoopEnds(t) ==
    /\ cpc[t] = "killing"
    /\ ~m_thread_work
    /\ cpc' = [cpc EXCEPT ![t] = "joining"]
    /\ UNCHANGED <<m_data, m_thread_lock, m_stop_flag, m_thread_work, wpc, cur>>

\* m_thread.join() returns when the thread function has returned.
Join(t) ==
    /\ cpc[t] = "joining"
    /\ wpc = "exited"
    /\ cpc' = [cpc EXCEPT ![t] = "stopped"]
    /\ UNCHANGED <<m_data, m_thread_lock, m_stop_flag, m_thread_work, wpc, cur>>

-----------------------------------------------------------------------------
\* What the thread does without anybody's help.
ThreadStep ==
    \/ ThreadStart \/ TestEmpty \/ WaitBlock \/ Reacquire
    \/ Claim \/ Return \/ Exit

\* What a client inside stop() or kill() does.
StopStep(t) == StopDrained(t) \/ KillNotify(t) \/ KillLoopEnds(t) \/ Join(t)

Next ==
    \/ ThreadStep
    \/ SpuriousWakeup
    \/ Start
    \/ \E x \in Items : Add(x)
    \/ \E t \in Clients :
          \/ Pause(t) \/ Continue(t)
          \/ StopBegin(t) \/ Destroy(t) \/ StopStep(t)

Spec == Init /\ [][Next]_vars

=============================================================================
