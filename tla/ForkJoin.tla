------------------------------- MODULE ForkJoin -------------------------------
(***************************************************************************)
(* What a dispatch on a worker pool promises its caller: the caller forks  *)
(* one request, every share computes that request and no other, and the    *)
(* caller goes on only when all shares are done.                           *)
(***************************************************************************)
CONSTANTS
    Shares,     \* the shares a request is split into
    Requests,   \* what a caller may ask for
    None        \* no request, or a share not yet computed

VARIABLES
    asked,      \* the request being computed, None between dispatches
    result,     \* what each share has computed of it
    closed      \* the pool has been shut down

vars == <<asked, result, closed>>

Init ==
    /\ asked = None
    /\ result = [s \in Shares |-> None]
    /\ closed = FALSE

Fork(r) ==
    /\ asked = None
    /\ ~closed
    /\ asked' = r
    /\ result' = [s \in Shares |-> None]
    /\ UNCHANGED closed

Share(s) ==
    /\ asked # None
    /\ result[s] = None
    /\ result' = [result EXCEPT ![s] = asked]
    /\ UNCHANGED <<asked, closed>>

Join ==
    /\ asked # None
    /\ \A s \in Shares : result[s] = asked
    /\ asked' = None
    /\ UNCHANGED <<result, closed>>

Close ==
    /\ asked = None
    /\ ~closed
    /\ closed' = TRUE
    /\ UNCHANGED <<asked, result>>

Next ==
    \/ \E r \in Requests : Fork(r)
    \/ \E s \in Shares : Share(s)
    \/ Join
    \/ Close

Safety == Init /\ [][Next]_vars

Spec == Safety /\ \A s \in Shares : WF_vars(Share(s)) /\ WF_vars(Join)

=============================================================================
