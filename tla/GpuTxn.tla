-------------------------------- MODULE GpuTxn --------------------------------
(***************************************************************************)
(* The precision transactions of the GPU worker: one command file, one     *)
(* acknowledgement file and one legacy demotion file, shared by the worker *)
(* (qwen_infer.c) and the controllers of tools/gpu_runtime_control.py.     *)
(*                                                                         *)
(* A controller reads the acknowledgement, checks it against what it       *)
(* expects, and publishes a command that names the epoch and the widths it *)
(* was derived from.  The worker polls the file between scheduler steps,   *)
(* copies the command, drains, and changes the bindings of all targets or  *)
(* of none.  Files are replaced by rename, so a read and a write of one is *)
(* one step each; everything else of the worker is lost when it exits.     *)
(***************************************************************************)
EXTENDS Integers, Sequences, FiniteSets

CONSTANTS
    Targets,      \* the (role, layer) pairs with a production tensor
    Widths,       \* the qNg64 widths the GPU can bind
    Lines,        \* QWEN_MOE_PROMOTION_FILE_NQ: a sequence of <<target, width>>
    Demotions,    \* the contents an operator gives the legacy demotion file
    MaxTxns,      \* bound on the transactions the controllers begin
    MaxCrashes,   \* bound on the exits of the worker
    None

ASSUME TxnAssumption ==
    /\ Widths \subseteq Nat \ {0}
    /\ Lines \in Seq(Targets \X Widths)
    /\ MaxTxns \in Nat /\ MaxCrashes \in Nat
    /\ Demotions \subseteq SUBSET Targets

Base  == 0     \* the production binding, not a qNg64 width
Wrong == -1    \* a binding of another kind or width than asked for

VARIABLES
    (* Files. *)
    cmdFile,      \* QWEN_MOE_GPU_TXN_FILE
    ackFile,      \* QWEN_MOE_GPU_APPLIED_ACK
    demoteFile,   \* QWEN_MOE_DEMOTION_FILE_NQ, the targets it lists
    (* The worker. *)
    pc,
    line,         \* lines of the promotion file read so far
    epoch,        \* g_moe_gpu_weight_epoch
    bound,        \* the MLX registry: the width each target is bound to
    promoted,     \* g_moe_promoted_nq_gpu
    baseline,     \* g_moe_promoted_nq_gpu_snapshot, the binding it holds
    attempt,      \* attempt_sids, the bindings they hold
    pending,      \* g_moe_gpu_pending_txn
    verified,     \* the targets bound and verified so far
    status,       \* the status the next acknowledgement carries
    lastTxn,      \* g_moe_gpu_last_txn_id
    kv,           \* the bindings the KV state was computed with, None if reset
    (* The commands the controllers have prepared, the worker's exits. *)
    issued, crashes,
    (* History: answered transactions, and those this run applied. *)
    answered, appliedNow

files   == <<cmdFile, ackFile, demoteFile>>
binding == <<bound, promoted, baseline, attempt, kv>>
control == <<pending, verified, status, lastTxn>>
history == <<answered, appliedNow>>
vars == <<files, pc, line, epoch, binding, control, issued, crashes, history>>

Txns     == 1 .. MaxTxns
Policies == [Targets -> Widths \union {Base}]
Nothing  == [t \in Targets |-> None]

APPLIED == {"ROLLBACK_APPLIED", "REBIND_APPLIED", "REBIND_SET_APPLIED"}

-----------------------------------------------------------------------------
Init ==
    /\ cmdFile = None /\ ackFile = None /\ demoteFile = {}
    /\ pc = "boot" /\ line = 0 /\ epoch = 0
    /\ bound = [t \in Targets |-> Base] /\ promoted = bound
    /\ baseline = Nothing /\ attempt = Nothing /\ kv = None
    /\ pending = None /\ verified = {} /\ status = None /\ lastTxn = None
    /\ issued = {}
    /\ crashes = 0
    /\ answered = {} /\ appliedNow = {}

-----------------------------------------------------------------------------
(* Controllers.                                                            *)

\* The widths a command may ask for, given the acknowledged policy p.
Changes(p) ==
    LET active == {t \in Targets : p[t] # Base}
    IN  [DEMOTE     |-> {[t \in {x} |-> Base] : x \in active},
         REBIND     |-> UNION {[{x} -> Widths \ {p[x]}] : x \in active},
         REBIND_SET |-> {f \in UNION {[S -> Widths] : S \in (SUBSET active) \ {{}}} :
                            \A t \in DOMAIN f : f[t] # p[t]}]

\* prepare_demote, prepare_rebind, prepare_rebind_set up to the write: the
\* checks pass when the expectations are those the acknowledgement states.
\* A transaction id is used once; run is history, the worker run that wrote
\* the acknowledgement.
Prepare(op, to) ==
    /\ Cardinality(issued) < MaxTxns
    /\ ackFile # None
    /\ to \in Changes(ackFile.policy)[op]
    /\ issued' = issued \union
         {[id |-> Cardinality(issued) + 1, op |-> op, epoch |-> ackFile.epoch,
           policy |-> ackFile.policy, to |-> to, run |-> ackFile.run]}
    /\ UNCHANGED <<files, pc, line, epoch, binding, control, crashes, history>>

\* The write, some time later, replaces whatever command is there; a command
\* that got no answer, or whose answer was replaced, may be written again.
Publish(m) ==
    /\ m \in issued
    /\ cmdFile' = m
    /\ UNCHANGED <<ackFile, demoteFile, pc, line, epoch, binding, control, issued, crashes,
                   history>>

\* An operator rewrites the legacy demotion file.
WriteDemotion(S) ==
    /\ demoteFile # S
    /\ demoteFile' = S
    /\ UNCHANGED <<cmdFile, ackFile, pc, line, epoch, binding, control, issued,
                   crashes, history>>

-----------------------------------------------------------------------------
(* The worker starts: moe_promotion_nq_init_gpu.                           *)

\* The snapshot of the production binding is kept, also by a second line.
Promote ==
    /\ pc = "boot" /\ line < Len(Lines)
    /\ LET t == Lines[line + 1][1]
           n == Lines[line + 1][2]
       IN  /\ bound' = [bound EXCEPT ![t] = n]
           /\ promoted' = [promoted EXCEPT ![t] = n]
           /\ baseline' = [baseline EXCEPT ![t] = IF @ = None THEN bound[t] ELSE @]
    /\ line' = line + 1
    /\ epoch' = epoch + 1
    /\ UNCHANGED <<files, pc, attempt, kv, control, issued, crashes, history>>

\* A line that is refused, or whose bind fails and is rolled back.
Refuse ==
    /\ pc = "boot" /\ line < Len(Lines)
    /\ line' = line + 1
    /\ UNCHANGED <<files, pc, epoch, binding, control, issued, crashes, history>>

\* Variant: the acknowledgement repeats the epoch the command expected.
AckExpectedEpoch(i, s) ==
    [txn |-> i, status |-> s, epoch |-> IF pending = None THEN epoch ELSE pending.epoch,
     policy |-> promoted, run |-> crashes]

Ack(i, s) ==
    [txn |-> i, status |-> s, epoch |-> epoch, policy |-> promoted, run |-> crashes]

StartupAck ==
    /\ pc = "boot" /\ line = Len(Lines)
    /\ ackFile' = Ack(None, IF epoch > 0 THEN "PROMOTION_APPLIED" ELSE "STARTUP_STATE")
    /\ pc' = "serve"
    /\ UNCHANGED <<cmdFile, demoteFile, line, epoch, binding, control, issued,
                   crashes, history>>

-----------------------------------------------------------------------------
(* moe_gpu_demotion_pending, between two scheduler steps.                  *)

AlreadyAnswered(i) == lastTxn = i \/ (ackFile # None /\ ackFile.txn = i)

\* Variant: the epoch is not compared.
StaleByWidthOnly(m) == \E t \in DOMAIN m.to : promoted[t] # m.policy[t]

Stale(m) == m.epoch # epoch \/ \E t \in DOMAIN m.to : promoted[t] # m.policy[t]

AcceptCommand ==
    /\ pc = "serve"
    /\ cmdFile # None /\ ~AlreadyAnswered(cmdFile.id) /\ ~Stale(cmdFile)
    /\ pending' = cmdFile
    /\ pc' = "drain"
    /\ UNCHANGED <<files, line, epoch, binding, verified, status, lastTxn, issued,
                   crashes, history>>

\* Variant: a stale command is only logged.
RejectSilently ==
    /\ pc = "serve"
    /\ cmdFile # None /\ ~AlreadyAnswered(cmdFile.id) /\ Stale(cmdFile)
    /\ UNCHANGED vars

RejectCommand ==
    /\ pc = "serve"
    /\ cmdFile # None /\ ~AlreadyAnswered(cmdFile.id) /\ Stale(cmdFile)
    /\ pending' = cmdFile
    /\ status' = "STALE_COMMAND"
    /\ pc' = "ack"
    /\ UNCHANGED <<files, line, epoch, binding, verified, lastTxn, issued, crashes,
                   history>>

\* The legacy file is looked at only when there is no command file.
NoticeDemotion ==
    /\ pc = "serve"
    /\ cmdFile = None
    /\ \E t \in demoteFile : promoted[t] # Base
    /\ pc' = "drain"
    /\ UNCHANGED <<files, line, epoch, binding, control, issued, crashes, history>>

\* Decode and prefill steps fill the KV state.
Serve ==
    /\ pc \in {"serve", "drain"}
    /\ kv = None
    /\ kv' = bound
    /\ UNCHANGED <<files, pc, line, epoch, bound, promoted, baseline, attempt, control,
                   issued, crashes, history>>

-----------------------------------------------------------------------------
(* moe_gpu_demotion_apply_quiescent, when the last request has drained.    *)

\* Variant: the KV state survives a restored binding.
RestoreKeepsKv(S) ==
    /\ bound' = [t \in Targets |-> IF t \in S THEN baseline[t] ELSE bound[t]]
    /\ promoted' = [t \in Targets |-> IF t \in S THEN Base ELSE promoted[t]]
    /\ baseline' = [t \in Targets |-> IF t \in S THEN None ELSE baseline[t]]
    /\ kv' = kv
    /\ epoch' = epoch + 1

\* The targets S go back to their production binding; a missing snapshot or a
\* failing call makes the worker exit instead.
Restore(S) ==
    /\ bound' = [t \in Targets |-> IF t \in S THEN baseline[t] ELSE bound[t]]
    /\ promoted' = [t \in Targets |-> IF t \in S THEN Base ELSE promoted[t]]
    /\ baseline' = [t \in Targets |-> IF t \in S THEN None ELSE baseline[t]]
    /\ kv' = None
    /\ epoch' = epoch + 1

\* The legacy file is read again: it may have changed while draining.
DemoteListed ==
    /\ pc = "drain" /\ pending = None
    /\ LET S == {t \in demoteFile : promoted[t] # Base}
       IN  IF S = {} THEN pc' = "serve" /\ UNCHANGED <<epoch, binding, status>>
           ELSE /\ \A t \in S : baseline[t] # None
                /\ Restore(S)
                /\ status' = "ROLLBACK_APPLIED"
                /\ pc' = "ack"
                /\ UNCHANGED attempt
    /\ UNCHANGED <<files, line, pending, verified, lastTxn, issued, crashes, history>>

Demote ==
    /\ pc = "drain" /\ pending # None /\ pending.op = "DEMOTE" /\ ~Stale(pending)
    /\ \A t \in DOMAIN pending.to : baseline[t] # None
    /\ Restore(DOMAIN pending.to)
    /\ status' = "ROLLBACK_APPLIED"
    /\ pc' = "ack"
    /\ UNCHANGED <<files, line, attempt, pending, verified, lastTxn, issued, crashes,
                   history>>

Failed(m) == IF m.op = "REBIND" THEN "REBIND_FAILED" ELSE "REBIND_SET_FAILED"

\* All preimages are checked, then all snapshots taken.
BeginRebind ==
    /\ pc = "drain" /\ pending # None /\ pending.op # "DEMOTE" /\ ~Stale(pending)
    /\ \A t \in DOMAIN pending.to : baseline[t] # None /\ bound[t] = pending.policy[t]
    /\ attempt' = [t \in Targets |-> IF t \in DOMAIN pending.to THEN bound[t] ELSE None]
    /\ verified' = {}
    /\ pc' = "bind"
    /\ UNCHANGED <<files, line, epoch, bound, promoted, baseline, kv, pending, status,
                   lastTxn, issued, crashes, history>>

\* The synchronisation or a snapshot fails: nothing has been bound.
RebindUnready ==
    /\ pc = "drain" /\ pending # None /\ pending.op # "DEMOTE"
    /\ status' = Failed(pending)
    /\ pc' = "ack"
    /\ UNCHANGED <<files, line, epoch, binding, pending, verified, lastTxn, issued,
                   crashes, history>>

Bind(t) ==
    /\ pc = "bind"
    /\ t \in DOMAIN pending.to \ verified
    /\ bound' = [bound EXCEPT ![t] = pending.to[t]]
    /\ verified' = verified \union {t}
    /\ UNCHANGED <<files, pc, line, epoch, promoted, baseline, attempt, kv, pending, status,
                   lastTxn, issued, crashes, history>>

\* The bind fails, or succeeds and the registry shows something else.
BindFails(t) ==
    /\ pc = "bind"
    /\ t \in DOMAIN pending.to \ verified
    /\ \E b \in {bound[t], Wrong} : bound' = [bound EXCEPT ![t] = b]
    /\ pc' = "rollback"
    /\ UNCHANGED <<files, line, epoch, promoted, baseline, attempt, kv, control, issued,
                   crashes, history>>

\* Every target is bound: the runtime epoch is reset and the widths recorded.
Commit ==
    /\ pc = "bind"
    /\ verified = DOMAIN pending.to
    /\ kv' = None
    /\ attempt' = Nothing
    /\ promoted' = [t \in Targets |->
                      IF t \in DOMAIN pending.to THEN pending.to[t] ELSE promoted[t]]
    /\ epoch' = epoch + 1
    /\ status' = IF pending.op = "REBIND" THEN "REBIND_APPLIED" ELSE "REBIND_SET_APPLIED"
    /\ pc' = "ack"
    /\ UNCHANGED <<files, line, bound, baseline, pending, verified, lastTxn, issued,
                   crashes, history>>

ResetFails ==
    /\ pc = "bind"
    /\ verified = DOMAIN pending.to
    /\ pc' = "rollback"
    /\ UNCHANGED <<files, line, epoch, binding, control, issued, crashes, history>>

\* Variant: only the targets that were bound and verified are restored.
RollbackVerified ==
    /\ pc = "rollback"
    /\ bound' = [t \in Targets |-> IF t \in verified THEN attempt[t] ELSE bound[t]]
    /\ attempt' = Nothing
    /\ kv' = IF pending.op = "REBIND_SET" /\ verified # {} THEN None ELSE kv
    /\ status' = Failed(pending)
    /\ pc' = "ack"
    /\ UNCHANGED <<files, line, epoch, promoted, baseline, pending, verified, lastTxn,
                   issued, crashes, history>>

\* Variant: every target is restored, those without a snapshot included.
RollbackEverything ==
    /\ pc = "rollback"
    /\ bound' = attempt
    /\ attempt' = Nothing
    /\ kv' = IF pending.op = "REBIND_SET" /\ verified # {} THEN None ELSE kv
    /\ status' = Failed(pending)
    /\ pc' = "ack"
    /\ UNCHANGED <<files, line, epoch, promoted, baseline, pending, verified, lastTxn,
                   issued, crashes, history>>

\* Every snapshot of the attempt is restored; a set that had bound something
\* also resets the runtime epoch.
Rollback ==
    /\ pc = "rollback"
    /\ bound' = [t \in Targets |-> IF attempt[t] # None THEN attempt[t] ELSE bound[t]]
    /\ attempt' = Nothing
    /\ kv' = IF pending.op = "REBIND_SET" /\ verified # {} THEN None ELSE kv
    /\ status' = Failed(pending)
    /\ pc' = "ack"
    /\ UNCHANGED <<files, line, epoch, promoted, baseline, pending, verified, lastTxn,
                   issued, crashes, history>>

Answer(i) ==
    /\ answered' = answered \union {i}
    /\ appliedNow' = IF status \in APPLIED THEN appliedNow \union {i} ELSE appliedNow

\* moe_gpu_txn_mark_terminal; serving goes on only after a durable write.
WriteAck ==
    /\ pc = "ack"
    /\ IF pending = None
         THEN ackFile' = Ack(None, status) /\ UNCHANGED <<lastTxn, history>>
         ELSE ackFile' = Ack(pending.id, status) /\ lastTxn' = pending.id /\ Answer(pending.id)
    /\ pending' = None
    /\ verified' = {}
    /\ status' = None
    /\ pc' = "serve"
    /\ UNCHANGED <<cmdFile, demoteFile, line, epoch, binding, issued, crashes>>

-----------------------------------------------------------------------------
\* The worker exits, by a crash or after a failure it calls fatal, and is
\* started again: everything but the files is gone.
Crash ==
    /\ crashes < MaxCrashes
    /\ crashes' = crashes + 1
    /\ pc' = "boot" /\ line' = 0 /\ epoch' = 0
    /\ bound' = [t \in Targets |-> Base] /\ promoted' = [t \in Targets |-> Base]
    /\ baseline' = Nothing /\ attempt' = Nothing /\ kv' = None
    /\ pending' = None /\ verified' = {} /\ status' = None /\ lastTxn' = None
    /\ appliedNow' = {}
    /\ UNCHANGED <<files, issued, answered>>

Worker ==
    \/ Promote \/ Refuse \/ StartupAck
    \/ AcceptCommand \/ RejectCommand \/ NoticeDemotion \/ Serve
    \/ DemoteListed \/ Demote \/ BeginRebind \/ RebindUnready
    \/ (\E t \in Targets : Bind(t) \/ BindFails(t))
    \/ Commit \/ ResetFails \/ Rollback \/ WriteAck

Controller ==
    \/ /\ ackFile # None
       /\ \E op \in {"DEMOTE", "REBIND", "REBIND_SET"} :
             \E to \in Changes(ackFile.policy)[op] : Prepare(op, to)
    \/ \E m \in issued : Publish(m)

Next ==
    \/ Worker
    \/ Controller
    \/ \E S \in Demotions : WriteDemotion(S)
    \/ Crash

\* The scheduler loop polls on every iteration.
Spec == Init /\ [][Next]_vars /\ WF_vars(Worker)

-----------------------------------------------------------------------------
(* Properties.                                                             *)

Commands ==
    [id : Txns, op : {"DEMOTE", "REBIND", "REBIND_SET"}, epoch : Nat, policy : Policies,
     to : UNION {[S -> Widths \union {Base}] : S \in SUBSET Targets}, run : 0 .. MaxCrashes]

Bindings == Widths \union {Base, Wrong}

Statuses == APPLIED \union {"PROMOTION_APPLIED", "STARTUP_STATE", "STALE_COMMAND",
                            "REBIND_FAILED", "REBIND_SET_FAILED"}

Acks == [txn : Txns \union {None}, status : Statuses \union {None}, epoch : Nat, policy : Policies,
         run : 0 .. MaxCrashes]

\* None stands for the absence of each of these.
ASSUME NoneAssumption ==
    None \notin Commands \union Acks \union Bindings \union Statuses

TypeOK ==
    /\ cmdFile \in Commands \union {None}
    /\ ackFile \in Acks \union {None}
    /\ demoteFile \subseteq Targets
    /\ pc \in {"boot", "serve", "drain", "bind", "rollback", "ack"}
    /\ line \in 0 .. Len(Lines)
    /\ epoch \in Nat
    /\ bound \in [Targets -> Bindings]
    /\ {baseline, attempt} \subseteq [Targets -> Bindings \union {None}]
    /\ promoted \in Policies
    /\ kv \in [Targets -> Bindings] \union {None}
    /\ pending \in Commands \union {None}
    /\ verified \subseteq Targets
    /\ status \in Statuses \union {None}
    /\ lastTxn \in Txns \union {None}
    /\ issued \subseteq Commands
    /\ crashes \in 0 .. MaxCrashes
    /\ appliedNow \subseteq answered /\ answered \subseteq Txns

\* While requests are admitted the acknowledgement file states the epoch and
\* the policy in force: nothing is served that is not durably acknowledged.
AckIsRuntimeState ==
    pc = "serve" => ackFile # None /\ ackFile.epoch = epoch /\ ackFile.policy = promoted

\* Between transitions the registry holds what is recorded, and exactly the
\* promoted targets keep a snapshot of their production binding: no partial
\* failure of a set leaves one target behind.  The KV state a request reads was
\* computed with the bindings in force.
BindingsAreRecorded ==
    /\ pc \in {"serve", "drain"} => kv \in {None, bound}
    /\ pc \in {"serve", "drain", "ack"} =>
        /\ bound = promoted
        /\ attempt = Nothing
        /\ baseline = [t \in Targets |-> IF promoted[t] = Base THEN None ELSE Base]

Applies(i) == pc = "ack" /\ pc' = "serve" /\ pending # None
              /\ pending.id = i /\ status \in APPLIED

\* Comparing the epoch and the widths of the targets is as strong as comparing
\* the whole policy, for a command derived from this run's acknowledgement: it is
\* applied only to the policy the controller saw, and within one run of the worker
\* no transaction is applied twice, however often its command is published again.
AppliedToSeenPolicy ==
    [][/\ status \notin APPLIED /\ status' \in APPLIED /\ pending # None
              /\ pending.run = crashes
          => promoted = pending.policy
       /\ \A i \in Txns : Applies(i) => i \notin appliedNow]_vars

Waiting(i) == cmdFile # None /\ cmdFile.id = i

\* A published command is answered, unless another one replaces it.
CommandIsAnswered ==
    \A i \in Txns : Waiting(i) /\ i \notin answered ~> i \in answered \/ ~Waiting(i)

=============================================================================
