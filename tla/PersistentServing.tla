--------------------------- MODULE PersistentServing ---------------------------
(***************************************************************************)
(* The persistent transport: a supervisor process keeps one GPU worker     *)
(* resident and talks to it through files of one directory                 *)
(* (src/tools/production_serving_supervisor_persistent.py).  request.txt   *)
(* carries a batch to the worker, which claims it by renaming, answers it  *)
(* in a result file of its own and is served one batch at a time           *)
(* (src/qwen_infer.c, moe_gpu_persistent_wait_request).  txn.cmd asks for  *)
(* another precision policy; the worker looks at it only while it serves a *)
(* batch, applies it when no request is in flight and acknowledges it.     *)
(*                                                                         *)
(* Three kinds of call share a worker:                                     *)
(*   direct    submit: the batch is answered under whatever policy is on;  *)
(*   policy    PrecisionEpochScheduler.run: one admission lock from        *)
(*             reading the acknowledgement to verifying the next one;      *)
(*   adaptive  a pass at the low width and, when a near tie is seen, one   *)
(*             at the high width; the commands are written outside the     *)
(*             lock, which only the submissions take.                      *)
(* The worker may crash, a call may give up waiting while the worker goes  *)
(* on, and the supervisor may be restarted together with its worker.       *)
(***************************************************************************)
EXTENDS Integers, FiniteSets

CONSTANTS
    Callers,        \* threads of the supervisor
    Kinds,          \* kinds of call they make
    Low, High,      \* the two policies
    Parts,          \* requests of a batch
    MaxCalls,       \* bound: calls made
    MaxTimeouts,    \* bound: waits given up
    MaxCrashes,     \* bound: crashes of the worker
    MaxRestarts,    \* bound: restarts of the supervisor
    None            \* no file, no command, no owner

ASSUME KindsAssumption == Kinds \subseteq {"direct", "policy", "adaptive"}
ASSUME BoundAssumption == {Parts, MaxCalls, MaxTimeouts, MaxCrashes, MaxRestarts} \subseteq Nat

\* An empty batch is refused before it is submitted.
ASSUME BatchAssumption == Parts # 0
ASSUME PolicyAssumption == Low # High

VARIABLES
    request,        \* request.txt: the id of a published batch
    processing,     \* request.processing: the id of a batch being claimed
    shutdown,       \* the shutdown file is there
    txn,            \* txn.cmd
    ack,            \* the acknowledgement file
    result,         \* result files: for each id the policies it was computed under
    w,              \* the worker process
    lock,           \* owner of the admission lock
    call,           \* for each caller the state of its call
    ids,            \* identifiers drawn (uuid4)
    count,          \* calls, timeouts, crashes and restarts so far
    served          \* history: the batches the worker has begun

files == <<request, processing, shutdown, txn, ack, result>>
vars  == <<files, w, lock, call, ids, count, served>>

Policies == {Low, High}
Ids      == 1 .. 4 * MaxCalls

\* A worker process as it is spawned: the startup policy, epoch zero.
Spawned(run) ==
    [alive |-> TRUE, run |-> run, pc |-> "idle", epoch |-> 0, policy |-> Low,
     job |-> None, left |-> 0, cmd |-> None, used |-> {}]

StartupAck == [txn |-> None, status |-> "STARTUP_STATE", epoch |-> 0, policy |-> Low]

NoCall == [kind |-> "direct", pc |-> "idle", target |-> Low, cmd |-> None, req |-> None,
           before |-> StartupAck, got |-> {}]

Init ==
    /\ request = None /\ processing = None /\ shutdown = FALSE /\ txn = None
    /\ ack = StartupAck
    /\ result = [i \in Ids |-> None]
    /\ w = Spawned(0)
    /\ lock = None
    /\ call = [c \in Callers |-> NoCall]
    /\ ids = 0
    /\ count = [calls |-> 0, timeouts |-> 0, crashes |-> 0, restarts |-> 0]
    /\ served = {}

-----------------------------------------------------------------------------
(* The worker.                                                             *)

Idle == w.alive /\ w.pc = "idle"

\* Variant: the request is read where it is and left there.
ClaimByReading ==
    /\ Idle /\ request # None
    /\ processing' = request
    /\ w' = [w EXCEPT !.pc = "claim"]
    /\ UNCHANGED <<request, shutdown, txn, ack, result, lock, call, ids, count, served>>

Claim ==
    /\ Idle /\ request # None
    /\ processing' = request
    /\ request' = None
    /\ w' = [w EXCEPT !.pc = "claim"]
    /\ UNCHANGED <<shutdown, txn, ack, result, lock, call, ids, count, served>>

\* The claimed file is read and removed before anything is computed.
ReadRequest ==
    /\ w.alive /\ w.pc = "claim"
    /\ w' = [w EXCEPT !.pc = "serve", !.job = processing, !.left = Parts, !.used = {}]
    /\ served' = served \union {processing}
    /\ processing' = None
    /\ UNCHANGED <<request, shutdown, txn, ack, result, lock, call, ids, count>>

\* A shutdown is noticed only while idle.
ExitIdle ==
    /\ Idle /\ shutdown
    /\ w' = [w EXCEPT !.alive = FALSE]
    /\ UNCHANGED <<files, lock, call, ids, count, served>>

\* The command file holds a command without an answer.
Unanswered == txn # None /\ txn.id # ack.txn
Serving    == w.alive /\ w.pc = "serve" /\ w.cmd = None
Matches(m) == m.epoch = w.epoch /\ m.from = w.policy

Answer(m, status) ==
    ack' = [txn |-> m.id, status |-> status, epoch |-> w'.epoch, policy |-> w'.policy]

\* Admission pauses until what is in flight has been answered.
AcceptTxn ==
    /\ Serving /\ Unanswered /\ Matches(txn)
    /\ w' = [w EXCEPT !.cmd = txn]
    /\ UNCHANGED <<files, lock, call, ids, count, served>>

RejectTxn ==
    /\ Serving /\ Unanswered /\ ~Matches(txn)
    /\ w' = w
    /\ Answer(txn, "STALE_COMMAND")
    /\ UNCHANGED <<request, processing, shutdown, txn, result, lock, call, ids, count, served>>

\* At the quiescent boundary the command is applied, or fails and is undone.
ApplyTxn ==
    /\ w.alive /\ w.cmd # None
    /\ \/ /\ w' = [w EXCEPT !.policy = w.cmd.to, !.epoch = @ + 1, !.cmd = None]
          /\ Answer(w.cmd, "APPLIED")
       \/ /\ w' = [w EXCEPT !.cmd = None]
          /\ Answer(w.cmd, "FAILED")
    /\ UNCHANGED <<request, processing, shutdown, txn, result, lock, call, ids, count, served>>

\* The next request of the batch is admitted and answered under the policy on.
ServePart ==
    /\ Serving /\ ~Unanswered /\ w.left > 0
    /\ w' = [w EXCEPT !.left = @ - 1, !.used = @ \union {w.policy}]
    /\ UNCHANGED <<files, lock, call, ids, count, served>>

WriteResult ==
    /\ Serving /\ ~Unanswered /\ w.left = 0
    /\ result' = [result EXCEPT ![w.job] = w.used]
    /\ w' = [w EXCEPT !.pc = "idle", !.job = None, !.used = {}]
    /\ UNCHANGED <<request, processing, shutdown, txn, ack, lock, call, ids, count, served>>

Worker ==
    \/ Claim \/ ReadRequest \/ ExitIdle
    \/ AcceptTxn \/ RejectTxn \/ ApplyTxn \/ ServePart \/ WriteResult

Crash ==
    /\ w.alive /\ (count.crashes < MaxCrashes \/ shutdown)
    /\ w' = [w EXCEPT !.alive = FALSE]
    /\ count' = IF shutdown THEN count ELSE [count EXCEPT !.crashes = @ + 1]
    /\ UNCHANGED <<files, lock, call, ids, served>>

-----------------------------------------------------------------------------
(* The calls.                                                              *)

At(c, kind, pc) == call[c].kind = kind /\ call[c].pc = pc
Over            == {"idle", "done"}

\* The HTTP service makes one call at a time (gpu_lock); policy admissions
\* come from other threads.
Begin(c, kind, target) ==
    /\ call[c].pc \in Over
    /\ count.calls < MaxCalls
    /\ kind # "policy" =>
          /\ \A d \in Callers : call[d].kind # "policy" => call[d].pc \in Over
          /\ target = Low
    /\ count' = [count EXCEPT !.calls = @ + 1]
    /\ call' = [call EXCEPT ![c] =
                  [NoCall EXCEPT !.kind = kind, !.target = target,
                                 !.pc = IF kind = "adaptive" THEN "look" ELSE "lock"]]
    /\ UNCHANGED <<files, w, lock, ids, served>>

Acquire(c) ==
    /\ call[c].pc = "lock" /\ lock = None
    /\ lock' = c
    /\ call' = [call EXCEPT ![c].pc = IF call[c].kind = "policy" THEN "read" ELSE "submit"]
    /\ UNCHANGED <<files, w, ids, count, served>>

Release(c) == lock' = IF lock = c THEN None ELSE lock

\* Variant: the lock is kept when the call raises.
FailHolding(c) ==
    /\ lock' = lock
    /\ call' = [call EXCEPT ![c].pc = "idle"]

\* The call raises.
Fail(c) ==
    /\ Release(c)
    /\ call' = [call EXCEPT ![c].pc = "idle"]

\* The preimage a policy admission plans its transition from.
ReadAck(c) ==
    /\ At(c, "policy", "read")
    /\ call' = [call EXCEPT ![c].before = ack,
                            ![c].pc = IF ack.policy = call[c].target THEN "submit" ELSE "check"]
    /\ UNCHANGED <<files, w, lock, ids, count, served>>

\* An adaptive call that finds the worker at the width of the last recovery
\* asks for the low one before its first pass.
LookAtWidth(c) ==
    /\ At(c, "adaptive", "look")
    /\ call' = [call EXCEPT ![c].pc = IF ack.policy = High THEN "check" ELSE "lock"]
    /\ UNCHANGED <<files, w, lock, ids, count, served>>

\* The acknowledgement is compared once more before a command is written.
Stale(c) ==
    IF call[c].kind = "policy"
      THEN ack.epoch # call[c].before.epoch \/ ack.policy # call[c].before.policy
      ELSE ack.policy = call[c].target

Check(c) ==
    /\ call[c].pc = "check"
    /\ IF Stale(c) THEN Fail(c)
         ELSE /\ call' = [call EXCEPT ![c].pc = "write", ![c].before = ack]
              /\ lock' = lock
    /\ UNCHANGED <<files, w, ids, count, served>>

\* It replaces whatever command is there.  run is history: the worker process
\* the command was meant for.
WriteTxn(c) ==
    /\ call[c].pc = "write"
    /\ ids' = ids + 1
    /\ txn' = [id |-> ids', epoch |-> call[c].before.epoch, from |-> call[c].before.policy,
               to |-> call[c].target, run |-> w.run]
    /\ call' = [call EXCEPT ![c].cmd = ids',
                            ![c].pc = IF call[c].kind = "policy" THEN "submit" ELSE "lock"]
    /\ UNCHANGED <<request, processing, shutdown, ack, result, w, lock, count, served>>

\* submit: refused when the worker is gone or a batch is not yet claimed.
Submit(c) ==
    /\ call[c].pc = "submit"
    /\ IF ~w.alive \/ request # None \/ processing # None
         THEN Fail(c) /\ UNCHANGED <<request, ids>>
         ELSE /\ ids' = ids + 1
              /\ request' = ids'
              /\ call' = [call EXCEPT ![c].pc = "wait", ![c].req = ids']
              /\ lock' = lock
    /\ UNCHANGED <<processing, shutdown, txn, ack, result, w, count, served>>

\* Variant: only the result file and the deadline are looked at.
WorkerGoneUnnoticed(c) ==
    /\ call[c].pc = "wait" /\ ~w.alive /\ result[call[c].req] # None
    /\ Fail(c)
    /\ UNCHANGED <<files, w, ids, count, served>>

\* The wait polls the process first, then the result file.
WorkerGone(c) ==
    /\ call[c].pc = "wait" /\ ~w.alive
    /\ Fail(c)
    /\ UNCHANGED <<files, w, ids, count, served>>

\* The adaptive call leaves submit, and the lock, before it verifies.
Receive(c) ==
    /\ call[c].pc = "wait" /\ w.alive /\ result[call[c].req] # None
    /\ call' = [call EXCEPT ![c].got = result[call[c].req],
                            ![c].pc = IF call[c].kind = "direct" THEN "done" ELSE "verify"]
    /\ IF call[c].kind = "policy" THEN lock' = lock ELSE Release(c)
    /\ UNCHANGED <<files, w, ids, count, served>>

\* The worker is not told: it will still serve the batch.
Timeout(c) ==
    /\ call[c].pc = "wait"
    /\ count.timeouts < MaxTimeouts
    /\ count' = [count EXCEPT !.timeouts = @ + 1]
    /\ Fail(c)
    /\ UNCHANGED <<files, w, ids, served>>

\* Variant: any applied transaction will do.
VerifiedAnyTxn(c) ==
    IF call[c].cmd # None THEN ack.status = "APPLIED"
    ELSE call[c].kind = "policy" => ack.epoch = call[c].before.epoch

\* The acknowledgement is that of the call's own transaction; without one a
\* policy admission requires the epoch it started from.
Verified(c) ==
    IF call[c].cmd # None THEN ack.txn = call[c].cmd /\ ack.status = "APPLIED"
    ELSE call[c].kind = "policy" => ack.epoch = call[c].before.epoch

VerifyPolicy(c) ==
    /\ At(c, "policy", "verify")
    /\ IF Verified(c) /\ ack.policy = call[c].target
         THEN Release(c) /\ call' = [call EXCEPT ![c].pc = "done"]
         ELSE Fail(c)
    /\ UNCHANGED <<files, w, ids, count, served>>

\* A near tie in the low pass asks for a second one; the caller's target is
\* the width the pass claims.
VerifyPass(c) ==
    /\ At(c, "adaptive", "verify")
    /\ IF ~Verified(c) THEN Fail(c)
         ELSE /\ \/ call' = [call EXCEPT ![c].pc = "done"]
                 \/ /\ call[c].target = Low
                    /\ call' = [call EXCEPT ![c].pc = "check", ![c].target = High,
                                            ![c].cmd = None]
              /\ lock' = lock
    /\ UNCHANGED <<files, w, ids, count, served>>

Step(c) ==
    \/ Acquire(c) \/ ReadAck(c) \/ LookAtWidth(c) \/ Check(c) \/ WriteTxn(c) \/ Submit(c)
    \/ WorkerGone(c) \/ Receive(c) \/ VerifyPolicy(c) \/ VerifyPass(c)

-----------------------------------------------------------------------------
(* The supervisor process.                                                 *)

\* stop: the shutdown file, and a termination if the worker does not leave.
Stop ==
    /\ w.alive /\ ~shutdown
    /\ count.restarts < MaxRestarts
    /\ shutdown' = TRUE
    /\ UNCHANGED <<request, processing, txn, ack, result, w, lock, call, ids, count, served>>

\* Variant: the command file is left where it is.
PrepareFilesKeepingTxn ==
    /\ request' = None /\ processing' = None /\ shutdown' = FALSE
    /\ UNCHANGED txn

PrepareFiles ==
    /\ request' = None /\ processing' = None /\ shutdown' = FALSE
    /\ txn' = None

\* The supervisor and its worker end, whatever they are doing, and begin
\* again: the files of the old worker go before the new one is spawned, and
\* calls are taken when it has written its first acknowledgement.
Restart ==
    /\ count.restarts < MaxRestarts
    /\ count' = [count EXCEPT !.restarts = @ + 1]
    /\ PrepareFiles
    /\ ack' = StartupAck
    /\ w' = Spawned(w.run + 1)
    /\ lock' = None
    /\ call' = [c \in Callers |-> NoCall]
    /\ UNCHANGED <<result, ids, served>>

Next ==
    \/ Worker \/ Crash \/ Stop \/ Restart
    \/ \E c \in Callers :
          \/ Step(c) \/ Timeout(c)
          \/ \E kind \in Kinds, target \in Policies : Begin(c, kind, target)

\* The worker runs and so does every thread that waits on it.  Giving up a
\* wait is left out: a call must not need its deadline (REQUEST_TIMEOUT_SECONDS) to end.
Fairness == WF_vars(Worker) /\ \A c \in Callers : WF_vars(Step(c))

Spec == Init /\ [][Next]_vars /\ Fairness

-----------------------------------------------------------------------------
(* Properties.                                                             *)

Command == [id : Ids, epoch : Nat, from : Policies, to : Policies, run : 0 .. MaxRestarts]

ASSUME NoneAssumption ==
    None \notin Callers \union Nat \union Command /\ \A S \in SUBSET Policies : None # S

\* The lock is held by a call that is inside it and will release it, and the
\* files hold what their writers put there.
TypeOK ==
    /\ {request, processing} \subseteq Ids \union {None}
    /\ shutdown \in BOOLEAN
    /\ {txn, w.cmd} \subseteq Command \union {None}
    /\ ack.txn \in Ids \union {None} /\ ack.policy \in Policies
    /\ result \in [Ids -> (SUBSET Policies) \union {None}]
    /\ w.pc \in {"idle", "claim", "serve"} /\ w.left \in 0 .. Parts
    /\ ids \in Ids \union {0}
    /\ served \subseteq Ids
    /\ lock # None =>
          call[lock].pc \in {"submit", "wait"} \union
             (IF call[lock].kind = "policy" THEN {"read", "check", "write", "verify"} ELSE {})

\* A policy admission that returns, and an adaptive pass whose transition was
\* verified, was computed from its first request to its last under the policy
\* it claims, whatever late batch, other call or stale command the worker met
\* meanwhile.
AnswersAsAdmitted ==
    \A c \in Callers :
        call[c].pc = "done" /\ (call[c].kind = "policy" \/ call[c].cmd # None)
            => call[c].got = {call[c].target}

\* A worker applies only commands written for it: none of a process before it.
NoInheritedCommand ==
    [][w'.run = w.run /\ w'.epoch # w.epoch => w.cmd.run = w.run]_vars

\* A batch is begun at most once, across crashes, restarts and calls that gave
\* up: a caller that publishes again has not run its batch twice.
ServedOnce ==
    [][w.pc = "claim" /\ w'.pc = "serve" => w'.job \notin served]_vars

\* Every call ends, by an answer or an error, and never needs its deadline: a
\* batch the worker took with it in a crash is noticed.
EveryCallEnds ==
    \A c \in Callers : call[c].pc \notin Over ~> call[c].pc \in Over

\* An adaptive answer of a single pass was computed at the low width it is
\* reported to have been computed at.
BasePassAtBase ==
    \A c \in Callers :
        At(c, "adaptive", "done") /\ call[c].target = Low => call[c].got = {Low}

=============================================================================
