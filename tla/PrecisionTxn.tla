----------------------------- MODULE PrecisionTxn -----------------------------
(***************************************************************************)
(* The durable policy transaction of tools/precision_transactions.py, run  *)
(* by one controller process against a worker that outlives it (the        *)
(* adapter operations of tools/backend_adapters.py).  The journal holds    *)
(* one entry per transaction id; every entry is replaced atomically        *)
(* (_atomic_json), so a crash falls between an adapter call and the save   *)
(* that records it, never inside either.                                   *)
(*                                                                         *)
(* One call of execute_policy_transaction is the walk of the controller    *)
(* through stages.  A stage is an adapter call followed by a journal save  *)
(* ("saving" is TRUE between the two); the stages rollback and isolate     *)
(* only save.  The in-memory state of the code always equals the entry on  *)
(* disk, because it is reassigned from what save returns.                  *)
(***************************************************************************)
EXTENDS Integers

CONSTANTS
    Txns,           \* transaction ids
    Policies,       \* normalised precision policies (stand for their hashes)
    Contexts,       \* execution context hashes
    InitPolicy,     \* policy the worker starts with
    WorkerContext,  \* the context the adapter reports
    MaxEpoch,       \* bound: no transaction starts above MaxEpoch - 2
    MaxActive,      \* bound: requests in flight on the worker
    Absent,         \* no journal file for this transaction id
    Unset           \* a field or a local variable that holds nothing

ASSUME ConstantsAssumption ==
    /\ InitPolicy \in Policies
    /\ WorkerContext \in Contexts
    /\ MaxEpoch \in Nat
    /\ MaxActive \in Nat

VARIABLES
    journal,   \* the transaction files
    pc,        \* stage of the running call, "idle" when none runs
    saving,    \* the stage's adapter call returned, its save has not
    cur,       \* transaction id of the running call
    snap,      \* the local variable "snapshot"
    policy,    \* worker: the policy whose weights are live
    epoch,     \* worker: weight epoch
    paused,    \* worker: admission paused
    active,    \* worker: requests in flight
    synced,    \* worker: GPU synchronised since the last mutation
    aborted,   \* history: some call ended without returning
    applies    \* history: how often each transaction ran apply_policy

controller == <<journal, pc, saving, cur, snap>>
worker     == <<policy, epoch, paused, active, synced>>
history    == <<aborted, applies>>
vars       == <<controller, worker, history>>

-----------------------------------------------------------------------------
Epochs == 0 .. MaxEpoch
States == [epoch : Nat, policy : Policies]

TERMINAL == {"APPLIED", "ROLLBACK_APPLIED", "FAILED_ISOLATED", "STALE_COMMAND"}

Statuses == TERMINAL \union
    {"REQUESTED", "ADMISSION_PAUSED", "DRAINED", "GPU_SYNCED",
     "SNAPSHOT_DURABLE", "VERIFYING", "ROLLBACK_REQUESTED"}

Entries == [status : Statuses, ctx : Contexts, expEpoch : Nat,
            expPolicy : Policies, request : Policies,
            applied : States \union {Unset}, rolled : States \union {Unset}]

ASSUME SentinelsAssumption == Absent \notin Entries /\ Unset \notin States

CallStages == {"pause", "drain", "sync", "snapshot", "apply", "verify",
               "resume", "restore", "reopen"}
SaveStages == {"rollback", "isolate"}

\* query_applied_state: what a query of the worker reports of its weights.
Live == [epoch |-> epoch, policy |-> policy]

\* The journal entry _new_state builds.
NewState(c, e, p, q) ==
    [status |-> "REQUESTED", ctx |-> c, expEpoch |-> e, expPolicy |-> p,
     request |-> q, applied |-> Unset, rolled |-> Unset]

-----------------------------------------------------------------------------
(* Adapter preconditions: an operation whose precondition fails raises.    *)

Quiesced == paused /\ active = 0

\* Variant: restore without its quiescence check.
ReadyUnlessRestore(stage) ==
    CASE stage = "drain"    -> paused
      [] stage = "sync"     -> Quiesced
      [] stage = "snapshot" -> Quiesced /\ synced
      [] stage = "apply"    -> Quiesced /\ synced
      [] OTHER              -> TRUE

Ready(stage) ==
    CASE stage = "pause"    -> TRUE
      [] stage = "drain"    -> paused
      [] stage = "sync"     -> Quiesced
      [] stage = "snapshot" -> Quiesced /\ synced
      [] stage = "apply"    -> Quiesced /\ synced
      [] stage = "verify"   -> policy = journal[cur].request /\ active = 0
      [] stage = "resume"   -> active = 0
      [] stage = "restore"  -> Quiesced
      [] stage = "reopen"   -> active = 0

\* The operations that may fail although their precondition holds.
Faulty == {"sync", "apply", "restore"}

-----------------------------------------------------------------------------
(* What a stage saves, and where the controller goes next.                 *)

Recorded(entry, stage) ==
    CASE stage = "pause"    -> [entry EXCEPT !.status = "ADMISSION_PAUSED"]
      [] stage = "drain"    -> [entry EXCEPT !.status = "DRAINED"]
      [] stage = "sync"     -> [entry EXCEPT !.status = "GPU_SYNCED"]
      [] stage = "snapshot" -> [entry EXCEPT !.status = "SNAPSHOT_DURABLE"]
      [] stage = "apply"    -> [entry EXCEPT !.status = "VERIFYING"]
      [] stage = "verify"   -> [entry EXCEPT !.status = "APPLIED",
                                             !.applied = Live]
      [] stage = "rollback" -> [entry EXCEPT !.status = "ROLLBACK_REQUESTED"]
      [] stage = "restore"  -> [entry EXCEPT !.status = "ROLLBACK_APPLIED",
                                             !.rolled = Live]
      [] stage = "isolate"  -> [entry EXCEPT !.status = "FAILED_ISOLATED"]
      [] OTHER              -> entry     \* only admission_resumed_at changes

\* Variants: admission resumes before the durable acknowledgement; admission
\* stays paused after a rollback.
NextStageResumesEarly(stage) ==
    CASE stage = "pause"    -> "drain"
      [] stage = "drain"    -> "sync"
      [] stage = "sync"     -> "snapshot"
      [] stage = "snapshot" -> "apply"
      [] stage = "apply"    -> "resume"
      [] stage = "resume"   -> "verify"
      [] stage = "rollback" -> IF snap = Unset THEN "isolate" ELSE "restore"
      [] stage = "restore"  -> "reopen"
      [] OTHER              -> "idle"

NextStageStaysPaused(stage) ==
    CASE stage = "pause"    -> "drain"
      [] stage = "drain"    -> "sync"
      [] stage = "sync"     -> "snapshot"
      [] stage = "snapshot" -> "apply"
      [] stage = "apply"    -> "verify"
      [] stage = "verify"   -> "resume"
      [] stage = "rollback" -> IF snap = Unset THEN "isolate" ELSE "restore"
      [] OTHER              -> "idle"

NextStage(stage) ==
    CASE stage = "pause"    -> "drain"
      [] stage = "drain"    -> "sync"
      [] stage = "sync"     -> "snapshot"
      [] stage = "snapshot" -> "apply"
      [] stage = "apply"    -> "verify"
      [] stage = "verify"   -> "resume"
      [] stage = "rollback" -> IF snap = Unset THEN "isolate" ELSE "restore"
      [] stage = "restore"  -> "reopen"
      [] OTHER              -> "idle"

\* The except clause that an exception raised in a stage reaches.  One raised
\* while saving in rollback or isolate leaves the function (Abort).
Handler(stage) == IF stage \in {"restore", "reopen"} THEN "isolate" ELSE "rollback"

GoTo(stage) ==
    /\ pc' = stage
    /\ saving' = (stage \in SaveStages)

-----------------------------------------------------------------------------
Init ==
    /\ journal = [t \in Txns |-> Absent]
    /\ pc = "idle"
    /\ saving = FALSE
    /\ cur \in Txns
    /\ snap = Unset
    /\ policy = InitPolicy
    /\ epoch = 0
    /\ paused = FALSE
    /\ active = 0
    /\ synced = FALSE
    /\ aborted = FALSE
    /\ applies = [t \in Txns |-> 0]

\* A call with an id that has no file: the REQUESTED entry is saved.
Begin(t, c, e, p, q) ==
    /\ pc = "idle"
    /\ journal[t] = Absent
    /\ epoch + 2 <= MaxEpoch
    /\ journal' = [journal EXCEPT ![t] = NewState(c, e, p, q)]
    /\ cur' = t
    /\ snap' = Unset
    /\ GoTo("check")
    /\ UNCHANGED <<worker, history>>

\* A call with an id whose entry is not terminal starts over from that entry.
\* (On a terminal entry the call returns it and changes nothing.)
Retry(t) ==
    /\ pc = "idle"
    /\ journal[t] # Absent
    /\ journal[t].status \notin TERMINAL
    /\ epoch + 2 <= MaxEpoch
    /\ cur' = t
    /\ snap' = Unset
    /\ GoTo("check")
    /\ UNCHANGED <<journal, worker, history>>

\* Variants: a preimage check that leaves out the epoch, or the policy hash.
CurrentIgnoringEpoch(entry) ==
    entry.ctx = WorkerContext /\ entry.expPolicy = policy

CurrentIgnoringPolicy(entry) ==
    entry.ctx = WorkerContext /\ entry.expEpoch = epoch

\* The context and the epoch and policy preimage the entry asks for still hold.
Current(entry) ==
    /\ entry.ctx = WorkerContext
    /\ entry.expEpoch = epoch
    /\ entry.expPolicy = policy

CheckPreimage ==
    /\ pc = "check"
    /\ Current(journal[cur])
    /\ GoTo("pause")
    /\ UNCHANGED <<journal, cur, snap, worker, history>>

RejectStale ==
    /\ pc = "check"
    /\ ~Current(journal[cur])
    /\ journal' = [journal EXCEPT ![cur].status = "STALE_COMMAND"]
    /\ GoTo("idle")
    /\ UNCHANGED <<cur, snap, worker, history>>

-----------------------------------------------------------------------------
(* The adapter calls.                                                      *)

Returns(stage) ==
    /\ pc = stage
    /\ ~saving
    /\ Ready(stage)
    /\ saving' = TRUE
    /\ UNCHANGED <<pc, cur, journal, aborted>>

PauseAdmission ==
    /\ Returns("pause")
    /\ paused' = TRUE
    /\ UNCHANGED <<snap, policy, epoch, active, synced, applies>>

\* Variant: drain retires one request instead of waiting for all of them.
DrainOne ==
    /\ Returns("drain")
    /\ active' = active - 1
    /\ UNCHANGED <<snap, policy, epoch, paused, synced, applies>>

Drain ==
    /\ Returns("drain")
    /\ active' = 0
    /\ UNCHANGED <<snap, policy, epoch, paused, synced, applies>>

Synchronize ==
    /\ Returns("sync")
    /\ synced' = TRUE
    /\ UNCHANGED <<snap, policy, epoch, paused, active, applies>>

Snapshot ==
    /\ Returns("snapshot")
    /\ snap' = Live
    /\ UNCHANGED <<worker, applies>>

ApplyPolicy ==
    /\ Returns("apply")
    /\ policy' = journal[cur].request
    /\ epoch' = epoch + 1
    /\ synced' = FALSE
    /\ applies' = [applies EXCEPT ![cur] = @ + 1]
    /\ UNCHANGED <<snap, paused, active>>

VerifyPolicy ==
    /\ Returns("verify")
    /\ UNCHANGED <<snap, worker, applies>>

\* restore, followed by the verification of what it restored.
Restore ==
    /\ Returns("restore")
    /\ policy' = snap.policy
    /\ epoch' = epoch + 1
    /\ synced' = FALSE
    /\ UNCHANGED <<snap, paused, active, applies>>

ResumeAdmission ==
    /\ Returns("resume") \/ Returns("reopen")
    /\ paused' = FALSE
    /\ synced' = FALSE
    /\ UNCHANGED <<snap, policy, epoch, active, applies>>

CallFails ==
    /\ pc \in CallStages
    /\ ~saving
    /\ Ready(pc) => pc \in Faulty
    /\ GoTo(Handler(pc))
    /\ UNCHANGED <<journal, cur, snap, worker, history>>

-----------------------------------------------------------------------------
(* The journal saves.                                                      *)

Save ==
    /\ saving
    /\ journal' = [journal EXCEPT ![cur] = Recorded(@, pc)]
    /\ GoTo(NextStage(pc))
    /\ UNCHANGED <<cur, snap, worker, history>>

\* The temporary file cannot be written, synced or renamed: journal.save
\* raises inside the try block, as any adapter call would.
SaveFails ==
    /\ saving
    /\ pc \in CallStages
    /\ GoTo(Handler(pc))
    /\ UNCHANGED <<journal, cur, snap, worker, history>>

\* The controller dies, or an exception leaves the function.
Abort ==
    /\ pc # "idle"
    /\ GoTo("idle")
    /\ aborted' = TRUE
    /\ UNCHANGED <<journal, cur, snap, worker, applies>>

-----------------------------------------------------------------------------
(* The worker serves requests of its own while admission is open.          *)

Admit ==
    /\ ~paused
    /\ active < MaxActive
    /\ active' = active + 1
    /\ UNCHANGED <<controller, policy, epoch, paused, synced, history>>

Finish ==
    /\ active > 0
    /\ active' = active - 1
    /\ UNCHANGED <<controller, policy, epoch, paused, synced, history>>

AdapterCall ==
    \/ PauseAdmission \/ Drain \/ Synchronize \/ Snapshot \/ ApplyPolicy
    \/ VerifyPolicy \/ Restore \/ ResumeAdmission

Step == CheckPreimage \/ RejectStale \/ AdapterCall \/ CallFails \/ Save \/ SaveFails

Next ==
    \/ \E t \in Txns, c \in Contexts, e \in Epochs, p, q \in Policies :
          Begin(t, c, e, p, q)
    \/ \E t \in Txns : Retry(t)
    \/ Step
    \/ Abort
    \/ Admit
    \/ Finish

\* The call is straight-line code: once begun it runs on unless it is aborted.
Spec == Init /\ [][Next]_vars /\ WF_vars(Step)

-----------------------------------------------------------------------------
(* Properties.                                                             *)

\* Every variable has its type; in particular a journal entry is complete and
\* the number of requests in flight is never negative.
TypeOK ==
    /\ journal \in [Txns -> Entries \union {Absent}]
    /\ pc \in CallStages \union SaveStages \union {"idle", "check"}
    /\ saving \in BOOLEAN
    /\ cur \in Txns
    /\ snap \in States \union {Unset}
    /\ policy \in Policies
    /\ epoch \in Nat
    /\ paused \in BOOLEAN
    /\ active \in Nat
    /\ synced \in BOOLEAN
    /\ aborted \in BOOLEAN
    /\ applies \in [Txns -> Nat]

\* The weights change only while admission is paused and no request is in
\* flight, whichever of apply and restore changes them, also when restore runs
\* because a save failed after admission had resumed.
EpochIsolation ==
    [][epoch' # epoch \/ policy' # policy => Quiesced /\ Quiesced']_vars

\* The live epoch and policy are the initial ones or have been recorded in a
\* journal entry, under the applied_* or the rollback_* fields.
Acknowledged ==
    \/ epoch = 0 /\ policy = InitPolicy
    \/ \E t \in Txns : /\ journal[t] # Absent
                       /\ Live \in {journal[t].applied, journal[t].rolled}

\* "APPLIED is the durable ACK.  Admission resumes only after this write
\* succeeds": an open worker serves weights some durable entry acknowledges,
\* across crashes, retries and later transactions.
OpenIsAcknowledged == ~paused => Acknowledged

\* Whatever crashes and retries happen, apply_policy runs at most once for a
\* transaction id: the epoch preimage turns every later attempt away.
AppliedAtMostOnce == \A t \in Txns : applies[t] <= 1

\* A rollback that is recorded brought back the policy the transaction named
\* as its preimage.
RollbackRestoresPreimage ==
    \A t \in Txns :
        journal[t] # Absent => \/ journal[t].rolled = Unset
                               \/ journal[t].rolled.policy = journal[t].expPolicy

\* While no call is cut short, a paused worker is opened again or some
\* transaction has declared it isolated.
AdmissionReopens ==
    paused /\ ~aborted ~>
        \/ ~paused
        \/ aborted
        \/ \E t \in Txns : journal[t] # Absent /\ journal[t].status = "FAILED_ISOLATED"

\* A transaction that ends FAILED_ISOLATED with no rollback recorded (its restore
\* failed, or it had no snapshot) leaves admission paused, as
\* test_restore_failure_leaves_worker_isolated says.
IsolatedWorkerIsPaused ==
    [][\A t \in Txns :
         ( /\ journal[t] # Absent
           /\ journal[t].status # "FAILED_ISOLATED"
           /\ journal'[t].status = "FAILED_ISOLATED"
           /\ journal'[t].rolled = Unset ) => paused']_vars

\* A transaction that ends STALE_COMMAND was rejected without mutation (what
\* test_stale_epoch_is_rejected_without_mutation says of it).
StaleIsRejectedWithoutMutation ==
    \A t \in Txns :
        journal[t] # Absent /\ journal[t].status = "STALE_COMMAND" => applies[t] = 0

=============================================================================
