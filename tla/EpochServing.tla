----------------------------- MODULE EpochServing -----------------------------
(***************************************************************************)
(* What the online scheduler promises about precision changes: a batch of  *)
(* requests is admitted and answered piece by piece, every request exactly *)
(* once, and the weights change only while no request is in flight.        *)
(***************************************************************************)
EXTENDS Integers

CONSTANT Requests

VARIABLES
    epoch,      \* number of weight changes
    waiting,    \* requests of the batch not yet admitted
    inflight    \* requests being computed

vars == <<epoch, waiting, inflight>>

Init == epoch = 0 /\ waiting = Requests /\ inflight = {}

Admit ==
    \E S \in (SUBSET waiting) \ {{}} :
        /\ waiting' = waiting \ S
        /\ inflight' = inflight \union S
        /\ UNCHANGED epoch

Answer ==
    \E S \in (SUBSET inflight) \ {{}} :
        /\ inflight' = inflight \ S
        /\ UNCHANGED <<epoch, waiting>>

Change ==
    /\ inflight = {}
    /\ epoch' = epoch + 1
    /\ UNCHANGED <<waiting, inflight>>

Next == Admit \/ Answer \/ Change

\* Every request is admitted and answered.
Fairness == WF_vars(Admit) /\ WF_vars(Answer)

Safety == Init /\ [][Next]_vars

Spec == Safety /\ Fairness

=============================================================================
