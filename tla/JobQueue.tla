------------------------------ MODULE JobQueue ------------------------------
(***************************************************************************)
(* What AsyncWorker promises its owner, without threads, locks or a        *)
(* condition variable: jobs are executed one at a time, each exactly once, *)
(* in the order of add(); a worker that was stopped with stop() has        *)
(* executed all of them ("whait, while all works done and stop thread.",   *)
(* include/asyncworker.h:44); a worker that was merely destroyed may leave *)
(* the last ones undone.                                                   *)
(***************************************************************************)
EXTENDS Naturals, Sequences

CONSTANT Items

VARIABLES
    added,      \* the jobs handed over, in order
    done,       \* the jobs executed, in order
    status      \* "open", "drained" by stop() or "dropped" by the destructor

vars == <<added, done, status>>

Init ==
    /\ added = <<>>
    /\ done = <<>>
    /\ status = "open"

Submit(x) ==
    /\ status = "open"
    /\ added' = Append(added, x)
    /\ UNCHANGED <<done, status>>

Finish ==
    /\ status = "open"
    /\ Len(done) < Len(added)
    /\ done' = Append(done, added[Len(done) + 1])
    /\ UNCHANGED <<added, status>>

Drain ==
    /\ status = "open"
    /\ done = added
    /\ status' = "drained"
    /\ UNCHANGED <<added, done>>

Drop ==
    /\ status = "open"
    /\ status' = "dropped"
    /\ UNCHANGED <<added, done>>

Next ==
    \/ \E x \in Items : Submit(x)
    \/ Finish
    \/ Drain
    \/ Drop

Spec == Init /\ [][Next]_vars
=============================================================================
