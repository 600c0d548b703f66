--------------------------- MODULE AsyncWorkerJobs ---------------------------
(***************************************************************************)
(* AsyncWorker with the history of its jobs, so that its promise can be    *)
(* stated: added and done record what add() was given and what call() has  *)
(* finished, closing records which method ended the worker.  The history   *)
(* changes no step of the worker; MaxJobs bounds the number of add()s.     *)
(***************************************************************************)
EXTENDS AsyncWorker

CONSTANT MaxJobs

ASSUME MaxJobsAssumption == MaxJobs \in Nat

VARIABLES added, done, closing

jvars == <<vars, added, done, closing>>

JInit ==
    /\ Init
    /\ added = <<>>
    /\ done = <<>>
    /\ closing = "no"

JAdd(x) ==
    /\ Len(added) < MaxJobs
    /\ Add(x)
    /\ added' = Append(added, x)
    /\ UNCHANGED <<done, closing>>

JReturn ==
    /\ Return
    /\ done' = Append(done, cur)
    /\ UNCHANGED <<added, closing>>

JStopBegin(t) ==
    /\ StopBegin(t)
    /\ closing' = "stop"
    /\ UNCHANGED <<added, done>>

JDestroy(t) ==
    /\ Destroy(t)
    /\ closing' = "destructor"
    /\ UNCHANGED <<added, done>>

\* The steps of the worker that the history does not record.
JSilent(A) == A /\ UNCHANGED <<added, done, closing>>

JThreadStep ==
    \/ JSilent(ThreadStart)
    \/ JSilent(TestEmpty)
    \/ JSilent(WaitBlock)
    \/ JSilent(Reacquire)
    \/ JSilent(Claim)
    \/ JReturn
    \/ JSilent(Exit)

JStopStep(t) ==
    \/ JSilent(StopDrained(t))
    \/ JSilent(KillNotify(t))
    \/ JSilent(KillLoopEnds(t))
    \/ JSilent(Join(t))

JNext ==
    \/ JThreadStep
    \/ JSilent(SpuriousWakeup)
    \/ JSilent(Start)
    \/ \E x \in Items : JAdd(x)
    \/ \E t \in Clients :
          \/ JSilent(Pause(t))
          \/ JSilent(Continue(t))
          \/ JStopBegin(t)
          \/ JDestroy(t)
          \/ JStopStep(t)

JSpec == JInit /\ [][JNext]_jvars

(***************************************************************************)
(* Fairness: the scheduler runs the thread and a thread inside stop().     *)
(* Nothing promises that clients add, pause or stop, nor that wait()       *)
(* returns without a notify.                                               *)
(***************************************************************************)
JFairSpec ==
    /\ JSpec
    /\ WF_jvars(JThreadStep)
    /\ \A t \in Clients : WF_jvars(JStopStep(t))

-----------------------------------------------------------------------------
(* Properties *)

\* Types of the worker and of the history.
JTypeOK ==
    /\ TypeOK
    /\ added \in Seq(Items)
    /\ done \in Seq(Items)
    /\ closing \in {"no", "stop", "destructor"}

\* Number of jobs inside call(): asyncworker.h runs one at a time.
InCall == IF wpc = "call" THEN 1 ELSE 0

\* No job is lost, duplicated or overtaken between add() and the end of
\* call(): done, the job in call() and m_data are, in this order, added.
Fifo ==
    /\ Len(added) = Len(done) + InCall + Len(m_data)
    /\ \A i \in 1..Len(done) : done[i] = added[i]
    /\ wpc = "call" => cur = added[Len(done) + 1]
    /\ \A i \in 1..Len(m_data) : m_data[i] = added[Len(done) + InCall + i]

\* The mutex is the thread's exactly while it is between ThreadStart and
\* Exit and not asleep in wait(), so pause_work() cannot return during a
\* call() and the thread cannot leave wait() while a client pauses it.
LockOwner ==
    m_thread_lock = Worker
        <=> wpc \in {"test", "wait", "claim", "call", "exit"}

\* What flush_and_stop() followed by pause_work() relies on (storage.cpp):
\* isBusy() was false and the mutex is ours, so every job has been
\* executed to its end, although isBusy() alone says nothing about the job
\* in call().
PausedAndEmptyIsDone ==
    (m_thread_lock \in Clients /\ m_data = <<>>) => done = added

\* Where the thread is tells what it may find: a queue it saw non-empty
\* still is when it pops, and it only leaves its loop when told to stop.
ThreadOrder ==
    /\ wpc = "claim" => m_data # <<>>
    /\ wpc \in {"exit", "exited"} => m_stop_flag
    /\ wpc = "none" => Usable

\* At most one client closes the worker, nobody pauses it meanwhile, the
\* stop flag is set by kill() only, after stop() has seen the queue empty,
\* and join() returns after the thread.
CloseOrder ==
    /\ closing = "no" <=> Usable
    /\ Usable => ~m_stop_flag
    /\ ~Usable => m_thread_lock \notin Clients
    /\ closing = "stop" /\ m_stop_flag => m_data = <<>>
    /\ \A t \in Clients :
          /\ cpc[t] \in {"killing", "joining", "stopped"} => m_stop_flag
          /\ cpc[t] = "stopped" => wpc = "exited"
          /\ \A u \in Clients : cpc[t] # "out" /\ cpc[u] # "out" => t = u

\* The inductive invariant behind the refinement of JobQueue.
JInv == JTypeOK /\ Fifo /\ LockOwner /\ ThreadOrder /\ CloseOrder

\* AsyncWorker implements JobQueue: its methods may be understood as
\* atomic submissions, in-order executions and one final drain or drop.
Status ==
    IF \E t \in Clients : cpc[t] = "stopped"
    THEN IF closing = "stop" THEN "drained" ELSE "dropped"
    ELSE "open"

Q == INSTANCE JobQueue WITH status <- Status

ImplementsJobQueue == Q!Spec

\* kill() ends: once its loop has seen the thread running, the repeated
\* notify_one() reaches the thread even if it was just going to sleep, and
\* join() returns.
KillEnds ==
    \A t \in Clients :
        (cpc[t] = "killing" /\ m_thread_work) ~> (cpc[t] = "stopped")

\* What asyncworker.h:44 says of stop(): "whait, while all works done and
\* stop thread."  Here: the waiting loop ends once jobs stop arriving.
StopLoopEnds ==
    \A t \in Clients : (cpc[t] = "stopping") ~> (cpc[t] # "stopping")
=============================================================================
