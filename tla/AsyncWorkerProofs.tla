-------------------------- MODULE AsyncWorkerProofs --------------------------
(***************************************************************************)
(* Proofs about AsyncWorker and its history, for any number of clients,    *)
(* any set of jobs and any number of add()s.                               *)
(***************************************************************************)
EXTENDS AsyncWorkerJobs, TLAPS

-----------------------------------------------------------------------------
(* Facts about the queue operations the worker uses *)

\* add() makes the queue one longer, keeps its elements and puts the new one
\* at the end.
LEMMA AppendFacts ==
    ASSUME NEW S, NEW s \in Seq(S), NEW x \in S
    PROVE  /\ Append(s, x) \in Seq(S)
           /\ Len(Append(s, x)) = Len(s) + 1
           /\ \A i \in 1..Len(s) : Append(s, x)[i] = s[i]
           /\ Append(s, x)[Len(s) + 1] = x
  OBVIOUS

\* pop() of a non-empty queue makes it one shorter and shifts it by one.
LEMMA TailFacts ==
    ASSUME NEW S, NEW s \in Seq(S), s # <<>>
    PROVE  /\ Head(s) = s[1]
           /\ Head(s) \in S
           /\ Tail(s) \in Seq(S)
           /\ Len(s) \in Nat /\ Len(s) > 0
           /\ Len(Tail(s)) = Len(s) - 1
           /\ \A i \in 1..Len(Tail(s)) : Tail(s)[i] = s[i + 1]
  OBVIOUS

\* An element of a sequence is of its type.
LEMMA ElementFacts ==
    ASSUME NEW S, NEW s \in Seq(S), NEW i \in 1..Len(s)
    PROVE  s[i] \in S
  OBVIOUS

\* Two sequences of the same length with the same elements are equal.
LEMMA SeqEqual ==
    ASSUME NEW S, NEW s \in Seq(S), NEW u \in Seq(S),
           Len(s) = Len(u), \A i \in 1..Len(s) : s[i] = u[i]
    PROVE  s = u
  OBVIOUS

-----------------------------------------------------------------------------
(* The inductive invariant *)

\* A worker that was just constructed satisfies the invariant.
LEMMA InvInit == JInit => JInv
  <1> SUFFICES ASSUME JInit PROVE JInv
    OBVIOUS
  <1> USE NamesAssumption DEF JInit, Init
  <1>1. JTypeOK
    <2>1. cpc \in [Clients -> ClientPlaces]
      BY DEF ClientPlaces
    <2>2. <<>> \in Seq(Items)
      OBVIOUS
    <2> QED BY <2>1, <2>2 DEF JTypeOK, TypeOK, WorkerPlaces
  <1>2. Fifo
    BY DEF Fifo, InCall
  <1>3. LockOwner
    BY DEF LockOwner
  <1>4. ThreadOrder /\ CloseOrder
    BY DEF ThreadOrder, CloseOrder, Usable
  <1> QED BY <1>1, <1>2, <1>3, <1>4 DEF JInv

\* Every step keeps the invariant: the steps that move a job have a proof of
\* each part they disturb, the others follow from the definitions at once.
LEMMA InvNext == JInv /\ [JNext]_jvars => JInv'
  <1> SUFFICES ASSUME JInv, [JNext]_jvars PROVE JInv'
    OBVIOUS
  <1> USE NamesAssumption
  <1> USE DEF JInv, InCall, LockOwner, ThreadOrder, CloseOrder, Usable,
              JTypeOK, TypeOK, WorkerPlaces, ClientPlaces, JSilent
  <1>1. CASE JSilent(ThreadStart)
    BY <1>1 DEF ThreadStart, Fifo
  <1>2. CASE JSilent(TestEmpty)
    BY <1>2 DEF TestEmpty, Fifo
  <1>3. CASE JSilent(WaitBlock)
    BY <1>3 DEF WaitBlock, Fifo
  <1>4. CASE JSilent(Reacquire)
    BY <1>4 DEF Reacquire, Fifo
  <1>5. CASE JSilent(Claim)
    <2>1. CASE m_stop_flag
      BY <1>5, <2>1 DEF Claim, Fifo
    <2>2. CASE ~m_stop_flag
      <3>1. /\ wpc = "claim" /\ wpc' = "call"
            /\ cur' = Head(m_data) /\ m_data' = Tail(m_data)
            /\ UNCHANGED <<m_thread_lock, m_stop_flag, m_thread_work, cpc,
                           added, done, closing>>
        BY <1>5, <2>2 DEF Claim
      <3>2. /\ Head(m_data) = m_data[1]
            /\ Head(m_data) \in Items
            /\ Tail(m_data) \in Seq(Items)
            /\ Len(m_data) \in Nat /\ Len(m_data) > 0
            /\ Len(Tail(m_data)) = Len(m_data) - 1
            /\ \A i \in 1..Len(Tail(m_data)) : Tail(m_data)[i] = m_data[i + 1]
        <4>1. m_data # <<>> /\ m_data \in Seq(Items)
          BY <3>1
        <4> QED BY <4>1, TailFacts
      <3>3. Fifo'
        <4>1. Len(done) \in Nat /\ Len(added) \in Nat
          OBVIOUS
        <4>2. /\ Len(added) = Len(done) + Len(m_data)
              /\ \A i \in 1..Len(done) : done[i] = added[i]
              /\ \A i \in 1..Len(m_data) : m_data[i] = added[Len(done) + i]
          BY <3>1, <4>1 DEF Fifo
        <4>3. Head(m_data) = added[Len(done) + 1]
          BY <3>2, <4>2
        <4>4. \A i \in 1..Len(Tail(m_data)) :
                 Tail(m_data)[i] = added[Len(done) + 1 + i]
          <5> TAKE i \in 1..Len(Tail(m_data))
          <5>1. i + 1 \in 1..Len(m_data) /\ Len(done) + (i + 1) = Len(done) + 1 + i
            BY <3>2, <4>1
          <5> QED BY <5>1, <3>2, <4>2
        <4>5. InCall' = 1
          BY <3>1
        <4> HIDE DEF InCall, JInv
        <4>6. Len(added') = Len(done') + InCall' + Len(m_data')
          BY <3>1, <3>2, <4>1, <4>2, <4>5
        <4>7. \A i \in 1..Len(m_data') : m_data'[i] = added'[Len(done') + InCall' + i]
          BY <3>1, <4>4, <4>5
        <4> QED BY <3>1, <4>2, <4>3, <4>6, <4>7 DEF Fifo
      <3> QED BY <3>1, <3>2, <3>3
    <2> QED BY <2>1, <2>2
  <1>6. CASE JReturn
    <2>1. /\ wpc = "call" /\ wpc' = "test" /\ cur' = NoItem
          /\ done' = Append(done, cur)
          /\ UNCHANGED <<m_data, m_thread_lock, m_stop_flag, m_thread_work, cpc,
                         added, closing>>
      BY <1>6 DEF JReturn, Return
    <2>2. /\ Len(added) = Len(done) + 1 + Len(m_data)
          /\ \A i \in 1..Len(done) : done[i] = added[i]
          /\ cur = added[Len(done) + 1]
          /\ \A i \in 1..Len(m_data) : m_data[i] = added[Len(done) + 1 + i]
          /\ Len(done) \in Nat /\ Len(added) \in Nat /\ Len(m_data) \in Nat
      <3>1. InCall = 1 /\ Fifo
        BY <2>1
      <3>2. Len(done) \in Nat /\ Len(added) \in Nat /\ Len(m_data) \in Nat
        OBVIOUS
      <3> QED BY <2>1, <3>1, <3>2 DEF Fifo
    <2>3. cur \in Items
      <3>1. added \in Seq(Items) /\ Len(done) + 1 \in 1..Len(added)
        BY <2>2
      <3>2. added[Len(done) + 1] \in Items
        BY <3>1, ElementFacts
      <3> QED BY <3>2, <2>2
    <2>4. /\ Append(done, cur) \in Seq(Items)
          /\ Len(Append(done, cur)) = Len(done) + 1
          /\ \A i \in 1..Len(done) : Append(done, cur)[i] = done[i]
          /\ Append(done, cur)[Len(done) + 1] = cur
      BY <2>3, AppendFacts
    <2>5. \A i \in 1..Len(done)' : done'[i] = added[i]
      BY <2>1, <2>2, <2>4
    <2>6. \A i \in 1..Len(m_data) : m_data[i] = added[Len(done') + 0 + i]
      BY <2>1, <2>2, <2>4
    <2>7. Fifo'
      BY <2>1, <2>2, <2>4, <2>5, <2>6 DEF Fifo
    <2> QED BY <2>1, <2>4, <2>7
  <1>7. CASE JSilent(Exit)
    BY <1>7 DEF Exit, Fifo
  <1>8. CASE JSilent(SpuriousWakeup)
    BY <1>8 DEF SpuriousWakeup, Fifo
  <1>9. CASE JSilent(Start)
    BY <1>9 DEF Start, Fifo
  <1>10. ASSUME NEW x \in Items, JAdd(x) PROVE JInv'
    <2>1. /\ Usable /\ wpc # "none"
          /\ m_data' = Append(m_data, x) /\ added' = Append(added, x)
          /\ wpc' = Notified
          /\ UNCHANGED <<m_thread_lock, m_stop_flag, m_thread_work, cur, cpc,
                         done, closing>>
      BY <1>10 DEF JAdd, Add
    <2>2. /\ Len(m_data) \in Nat /\ Len(added) \in Nat /\ Len(done) \in Nat
          /\ Len(added) = Len(done) + InCall + Len(m_data)
          /\ \A i \in 1..Len(done) : done[i] = added[i]
          /\ wpc = "call" => cur = added[Len(done) + 1]
          /\ \A i \in 1..Len(m_data) : m_data[i] = added[Len(done) + InCall + i]
      BY DEF Fifo
    <2>3. /\ m_data' \in Seq(Items) /\ added' \in Seq(Items)
          /\ Len(m_data') = Len(m_data) + 1 /\ Len(added') = Len(added) + 1
          /\ \A i \in 1..Len(m_data) : m_data'[i] = m_data[i]
          /\ m_data'[Len(m_data) + 1] = x
          /\ \A i \in 1..Len(added) : added'[i] = added[i]
          /\ added'[Len(added) + 1] = x
      BY <1>10, <2>1, AppendFacts
    <2>4. /\ InCall' = InCall /\ InCall \in {0, 1}
          /\ wpc' = "call" => wpc = "call" /\ InCall = 1
      BY <2>1 DEF Notified
    <2>5. Fifo'
      <3> HIDE DEF InCall, JInv
      <3>1. \A i \in 1..Len(done) : done[i] = added'[i]
        BY <2>2, <2>3, <2>4
      <3>2. wpc' = "call" => cur = added'[Len(done) + 1]
        BY <2>2, <2>3, <2>4
      <3>3. \A i \in 1..Len(m_data') : m_data'[i] = added'[Len(done) + InCall + i]
        <4> SUFFICES ASSUME NEW i \in 1..Len(m_data')
                     PROVE  m_data'[i] = added'[Len(done) + InCall + i]
          OBVIOUS
        <4>1. CASE i \in 1..Len(m_data)
          <5>1. Len(done) + InCall + i \in 1..Len(added)
            BY <4>1, <2>2, <2>4
          <5>2. m_data'[i] = m_data[i] /\ m_data[i] = added[Len(done) + InCall + i]
            BY <4>1, <2>2, <2>3
          <5> QED BY <5>1, <5>2, <2>3
        <4>2. CASE i = Len(m_data) + 1
          <5>1. Len(done) + InCall + i = Len(added) + 1
            BY <4>2, <2>2, <2>4
          <5> QED BY <4>2, <5>1, <2>3
        <4> QED BY <4>1, <4>2, <2>2, <2>3
      <3>4. Len(added') = Len(done') + InCall' + Len(m_data')
        BY <2>1, <2>2, <2>3, <2>4
      <3> QED BY <2>1, <2>4, <3>1, <3>2, <3>3, <3>4 DEF Fifo
    <2> QED BY <2>1, <2>3, <2>5 DEF Notified
  <1>11. ASSUME NEW t \in Clients, JSilent(Pause(t)) PROVE JInv'
    BY <1>11 DEF Pause, Fifo
  <1>12. ASSUME NEW t \in Clients, JSilent(Continue(t)) PROVE JInv'
    BY <1>12 DEF Continue, Fifo
  <1>13. ASSUME NEW t \in Clients, JStopBegin(t) PROVE JInv'
    BY <1>13 DEF JStopBegin, StopBegin, Fifo
  <1>14. ASSUME NEW t \in Clients, JDestroy(t) PROVE JInv'
    BY <1>14 DEF JDestroy, Destroy, Fifo
  <1>15. ASSUME NEW t \in Clients, JSilent(StopDrained(t)) PROVE JInv'
    BY <1>15 DEF StopDrained, Fifo
  <1>16. ASSUME NEW t \in Clients, JSilent(KillNotify(t)) PROVE JInv'
    BY <1>16 DEF KillNotify, Notified, Fifo
  <1>17. ASSUME NEW t \in Clients, JSilent(KillLoopEnds(t)) PROVE JInv'
    BY <1>17 DEF KillLoopEnds, Fifo
  <1>18. ASSUME NEW t \in Clients, JSilent(Join(t)) PROVE JInv'
    BY <1>18 DEF Join, Fifo
  <1>19. CASE UNCHANGED jvars
    BY <1>19 DEF jvars, vars, Fifo
  <1> QED
    BY <1>1, <1>2, <1>3, <1>4, <1>5, <1>6, <1>7, <1>8, <1>9, <1>10, <1>11,
       <1>12, <1>13, <1>14, <1>15, <1>16, <1>17, <1>18, <1>19
    DEF JNext, JThreadStep, JStopStep

\* No job is lost, duplicated or overtaken, the mutex is the thread's while
\* it works, and closing happens in order: in every reachable state.
THEOREM InvariantHolds == JSpec => []JInv
  BY InvInit, InvNext, PTL DEF JSpec

\* Between add() and the end of call() no job is lost, duplicated or
\* overtaken, whatever wakeups are lost (include/asyncworker.h).
THEOREM JobsInOrder == JSpec => []Fifo
  <1>1. JInv => Fifo
    BY DEF JInv
  <1> QED BY <1>1, InvariantHolds, PTL

-----------------------------------------------------------------------------
(* What the owner relies on *)

\* With nothing queued and nothing in call(), everything added is done.
LEMMA EmptyIsDone ==
    ASSUME JInv, m_data = <<>>, wpc # "call" PROVE done = added
  <1>1. done \in Seq(Items) /\ added \in Seq(Items)
    BY DEF JInv, JTypeOK
  <1>2. Len(added) = Len(done) /\ \A i \in 1..Len(done) : done[i] = added[i]
    BY <1>1 DEF JInv, Fifo, InCall
  <1> QED BY <1>1, <1>2, SeqEqual

\* A client that holds m_thread_lock and has seen the queue empty finds
\* every job executed: the mutex excludes a call() in progress.
THEOREM PausedIsDone == JSpec => []PausedAndEmptyIsDone
  <1>1. JInv => PausedAndEmptyIsDone
    <2> SUFFICES ASSUME JInv, m_thread_lock \in Clients, m_data = <<>>
                 PROVE  done = added
      BY DEF PausedAndEmptyIsDone
    <2>1. wpc # "call"
      BY NamesAssumption DEF JInv, LockOwner
    <2> QED BY <2>1, EmptyIsDone
  <1> QED BY <1>1, InvariantHolds, PTL

-----------------------------------------------------------------------------
(* The refinement *)

\* Status changes only when a client's join() returns.
LEMMA StatusOpen ==
    ASSUME \A t \in Clients : cpc[t] # "stopped" PROVE Status = "open"
  BY DEF Status

\* Every step of the worker is a step of the abstract queue or changes
\* nothing the owner can see.
LEMMA StepRefines == JInv /\ [JNext]_jvars => [Q!Next]_(Q!vars)
  <1> SUFFICES ASSUME JInv, [JNext]_jvars PROVE [Q!Next]_(Q!vars)
    OBVIOUS
  <1> USE DEF Q!vars, JSilent
  <1>1. CASE JThreadStep
    <2>1. CASE JReturn
      <3>1. /\ wpc = "call" /\ done' = Append(done, cur)
            /\ UNCHANGED <<cpc, added, closing>>
        BY <2>1 DEF JReturn, Return
      <3>2. Status = "open" /\ Status' = Status
        BY <3>1 DEF JInv, CloseOrder, Status
      <3>3. cur = added[Len(done) + 1] /\ Len(done) < Len(added)
        <4>1. /\ Len(done) \in Nat /\ Len(m_data) \in Nat
              /\ Len(added) = Len(done) + 1 + Len(m_data)
              /\ cur = added[Len(done) + 1]
          BY <3>1 DEF JInv, JTypeOK, TypeOK, Fifo, InCall
        <4> QED BY <4>1
      <3>4. Q!Finish
        BY <3>1, <3>2, <3>3 DEF Q!Finish
      <3> QED BY <3>4 DEF Q!Next
    <2>2. CASE ~JReturn
      <3>1. UNCHANGED <<cpc, added, done, closing>>
        BY <1>1, <2>2 DEF JThreadStep, ThreadStart, TestEmpty, WaitBlock,
                          Reacquire, Claim, Exit
      <3> QED BY <3>1 DEF Status
    <2> QED BY <2>1, <2>2
  <1>2. CASE JSilent(SpuriousWakeup) \/ JSilent(Start)
    BY <1>2 DEF SpuriousWakeup, Start, Status
  <1>3. ASSUME NEW x \in Items, JAdd(x) PROVE [Q!Next]_(Q!vars)
    <2>1. /\ Usable /\ added' = Append(added, x)
          /\ UNCHANGED <<cpc, done, closing>>
      BY <1>3 DEF JAdd, Add
    <2>2. Status = "open" /\ Status' = Status
      BY <2>1 DEF Usable, Status
    <2>3. Q!Submit(x)
      BY <2>1, <2>2 DEF Q!Submit
    <2> QED BY <2>3 DEF Q!Next
  <1>4. ASSUME NEW t \in Clients,
               JSilent(Pause(t)) \/ JSilent(Continue(t)) \/ JSilent(KillNotify(t))
        PROVE  [Q!Next]_(Q!vars)
    BY <1>4 DEF Pause, Continue, KillNotify, Status
  <1>5. ASSUME NEW t \in Clients, JStopBegin(t) \/ JDestroy(t)
        PROVE  [Q!Next]_(Q!vars)
    <2>1. /\ Usable /\ UNCHANGED <<added, done>>
          /\ cpc' \in {[cpc EXCEPT ![t] = "stopping"], [cpc EXCEPT ![t] = "killing"]}
      BY <1>5 DEF JStopBegin, JDestroy, StopBegin, Destroy
    <2>2. \A u \in Clients : cpc[u] # "stopped" /\ cpc'[u] # "stopped"
      BY <2>1 DEF JInv, JTypeOK, TypeOK, Usable
    <2>3. Status = "open" /\ Status' = "open"
      BY <2>2 DEF Status
    <2> QED BY <2>1, <2>3
  <1>6. ASSUME NEW t \in Clients,
               JSilent(StopDrained(t)) \/ JSilent(KillLoopEnds(t))
        PROVE  [Q!Next]_(Q!vars)
    <2>1. /\ UNCHANGED <<added, done, closing>>
          /\ cpc[t] \in {"stopping", "killing"}
          /\ cpc' \in {[cpc EXCEPT ![t] = "killing"], [cpc EXCEPT ![t] = "joining"]}
      BY <1>6 DEF StopDrained, KillLoopEnds
    <2>2. \A u \in Clients : cpc'[u] = "stopped" <=> cpc[u] = "stopped"
      BY <2>1 DEF JInv, JTypeOK, TypeOK
    <2> QED BY <2>1, <2>2 DEF Status
  <1>7. ASSUME NEW t \in Clients, JSilent(Join(t)) PROVE [Q!Next]_(Q!vars)
    <2>1. /\ UNCHANGED <<m_data, wpc, added, done, closing>>
          /\ cpc[t] = "joining" /\ wpc = "exited"
          /\ cpc' = [cpc EXCEPT ![t] = "stopped"]
      BY <1>7 DEF Join
    <2>2. \A u \in Clients : cpc[u] # "stopped"
      BY <2>1 DEF JInv, CloseOrder
    <2>3. Status = "open"
      BY <2>2, StatusOpen
    <2>4. cpc'[t] = "stopped"
      BY <2>1 DEF JInv, JTypeOK, TypeOK
    <2>5. CASE closing = "stop"
      <3>1. Status' = "drained"
        BY <2>1, <2>4, <2>5 DEF Status
      <3>2. m_data = <<>>
        BY <2>1, <2>5 DEF JInv, CloseOrder
      <3>3. done = added
        BY <2>1, <3>2, EmptyIsDone
      <3>4. Q!Drain
        BY <2>1, <2>3, <3>1, <3>3 DEF Q!Drain
      <3> QED BY <3>4 DEF Q!Next
    <2>6. CASE closing # "stop"
      <3>1. Status' = "dropped"
        BY <2>1, <2>4, <2>6 DEF Status
      <3>2. Q!Drop
        BY <2>1, <2>3, <3>1 DEF Q!Drop
      <3> QED BY <3>2 DEF Q!Next
    <2> QED BY <2>5, <2>6
  <1>8. CASE UNCHANGED jvars
    BY <1>8 DEF jvars, vars, Status
  <1> QED
    BY <1>1, <1>2, <1>3, <1>4, <1>5, <1>6, <1>7, <1>8 DEF JNext, JStopStep

\* AsyncWorker implements JobQueue: in-order, exactly-once execution, and a
\* stop() that returns has executed every job.
THEOREM Refinement == JSpec => ImplementsJobQueue
  <1>1. JInit => Q!Init
    BY DEF JInit, Init, Q!Init, Status
  <1> QED BY <1>1, StepRefines, InvariantHolds, PTL DEF JSpec, ImplementsJobQueue, Q!Spec

=============================================================================
