----------------------------- MODULE GpuTxnProofs -----------------------------
(***************************************************************************)
(* Proofs about GpuTxn for every set of targets and widths, every          *)
(* promotion file and every number of transactions and restarts.           *)
(***************************************************************************)
EXTENDS GpuTxn, FiniteSetTheorems, TLAPS

(***************************************************************************)
(* The strengthening.  Where the worker is determines what it holds of a   *)
(* command; outside of a rebind the registry is what is recorded, and      *)
(* inside of one the snapshots of the attempt are what it started from.    *)
(***************************************************************************)
PhaseInv ==
    /\ pc \in {"boot", "serve"} => pending = None
    /\ pc # "ack" => status = None
    /\ pc \in {"bind", "rollback"} =>
         pending # None /\ pending.op # "DEMOTE" /\ pending.epoch = epoch

Asked == DOMAIN pending.to

BindInv ==
    /\ baseline = [t \in Targets |-> IF promoted[t] = Base THEN None ELSE Base]
    /\ kv \in {None, promoted} /\ (pc = "boot" => kv = None)
    /\ pc \notin {"bind", "rollback"} => bound = promoted /\ attempt = Nothing
    /\ pc \in {"bind", "rollback"} =>
        /\ \A t \in Asked : promoted[t] # Base
        /\ attempt = [t \in Targets |-> IF t \in Asked THEN promoted[t] ELSE None]
        /\ \A t \in Targets \ Asked : bound[t] = promoted[t]
    /\ pc = "bind" => \A t \in verified : t \in Asked /\ bound[t] = pending.to[t]

\* Every command is one the controllers issued, and its id is its own.
CommandInv ==
    /\ {cmdFile, pending} \subseteq issued \union {None}
    /\ IsFiniteSet(issued)
    /\ \A m \in issued : m.id <= Cardinality(issued) /\ m.run <= crashes
    /\ \A m, n \in issued : m.id = n.id => m = n
    /\ \A m \in issued : m.op # "DEMOTE" => \A t \in DOMAIN m.to : m.to[t] \in Widths
    /\ \A i \in answered : \E m \in issued : m.id = i

\* The epoch of this run tells its policies apart.
Saw(m) == m.run = crashes => m.epoch <= epoch /\ (m.epoch = epoch => m.policy = promoted)

SeenInv ==
    /\ \A m \in issued : Saw(m)
    /\ ackFile # None => ackFile.run <= crashes /\ Saw(ackFile)

\* A transaction that was applied names an epoch that is over.
OnceInv ==
    /\ \A i \in appliedNow : \A m \in issued : m.id = i => m.epoch < epoch
    /\ pc = "ack" /\ pending # None /\ status \in APPLIED =>
          pending.epoch < epoch /\ pending.id \notin appliedNow

AckInv ==
    pc \notin {"boot", "ack"} =>
        ackFile # None /\ ackFile.epoch = epoch /\ ackFile.policy = promoted

IInv == TypeOK /\ PhaseInv /\ BindInv /\ CommandInv /\ SeenInv /\ OnceInv /\ AckInv

-----------------------------------------------------------------------------
(* Lemmas about commands.                                                  *)

Tos == UNION {[S -> Widths \union {Base}] : S \in SUBSET Targets}

LEMMA CommandFacts ==
    ASSUME NEW m \in Commands
    PROVE  /\ m.id \in Txns /\ m.epoch \in Nat /\ m.policy \in Policies /\ m.run \in 0 .. MaxCrashes
           /\ m.op \in {"DEMOTE", "REBIND", "REBIND_SET"}
           /\ DOMAIN m.to \subseteq Targets
           /\ \A t \in DOMAIN m.to : m.to[t] \in Widths \union {Base}
           /\ m # None
<1>1. m.to \in Tos
  BY DEF Commands, Tos
<1>2. PICK S \in SUBSET Targets : m.to \in [S -> Widths \union {Base}]
  BY <1>1 DEF Tos
<1> QED
  BY <1>2, NoneAssumption DEF Commands

\* What a controller may ask for is a command, and a rebind asks for widths.
LEMMA ChangesFacts ==
    ASSUME NEW p \in Policies, NEW op \in {"DEMOTE", "REBIND", "REBIND_SET"},
           NEW to \in Changes(p)[op]
    PROVE  /\ to \in Tos
           /\ op # "DEMOTE" => \A t \in DOMAIN to : to[t] \in Widths
<1> DEFINE active == {t \in Targets : p[t] # Base}
<1>1. CASE op = "DEMOTE"
  <2>1. PICK x \in active : to = [t \in {x} |-> Base]
    BY <1>1 DEF Changes
  <2>2. {x} \in SUBSET Targets /\ to \in [{x} -> Widths \union {Base}]
    BY <2>1
  <2> QED
    BY <1>1, <2>2 DEF Tos
<1>2. CASE op = "REBIND"
  <2>1. PICK x \in active : to \in [{x} -> Widths \ {p[x]}]
    BY <1>2 DEF Changes
  <2>2. {x} \in SUBSET Targets /\ to \in [{x} -> Widths \union {Base}]
    BY <2>1
  <2> QED
    BY <2>1, <2>2 DEF Tos
<1>3. CASE op = "REBIND_SET"
  <2>1. to \in UNION {[S -> Widths] : S \in (SUBSET active) \ {{}}}
    BY <1>3 DEF Changes
  <2>2. PICK S \in SUBSET active : to \in [S -> Widths]
    BY <2>1
  <2>3. S \in SUBSET Targets /\ to \in [S -> Widths \union {Base}]
    BY <2>2
  <2> QED
    BY <2>2, <2>3 DEF Tos
<1> QED
  BY <1>1, <1>2, <1>3

-----------------------------------------------------------------------------
(* The invariant is inductive.                                             *)

LEMMA InitIInv == Init => IInv
<1> SUFFICES ASSUME Init PROVE IInv
  OBVIOUS
<1> USE TxnAssumption, NoneAssumption DEF Init, Base
<1>1. TypeOK
  BY DEF TypeOK, Policies, Bindings, Nothing
<1>2. PhaseInv
  BY DEF PhaseInv
<1>3. BindInv
  BY DEF BindInv, Nothing
<1>4. CommandInv
  BY FS_EmptySet DEF CommandInv
<1>5. SeenInv /\ OnceInv /\ AckInv
  BY DEF SeenInv, OnceInv, AckInv
<1> QED
  BY <1>1, <1>2, <1>3, <1>4, <1>5 DEF IInv

LEMMA PromoteStep == ASSUME IInv, Promote PROVE IInv'
<1> USE TxnAssumption, NoneAssumption, CommandFacts
    DEF Promote, files, binding, control, history, IInv
<1>1. TypeOK'
  BY DEF TypeOK, Policies, Bindings
<1>2. PhaseInv'
  BY DEF PhaseInv
<1>3. BindInv'
  <2> DEFINE u == Lines[line + 1][1]
             n == Lines[line + 1][2]
  <2>1. Lines[line + 1] \in Targets \X Widths
    BY DEF TypeOK
  <2>2. u \in Targets /\ n \in Widths /\ n # Base
    BY <2>1 DEF Base
  <2>3. bound = promoted /\ attempt = Nothing /\ kv = None
    BY DEF BindInv
  <2>4. /\ bound' = [bound EXCEPT ![u] = n] /\ promoted' = [promoted EXCEPT ![u] = n]
        /\ baseline' = [baseline EXCEPT ![u] = IF @ = None THEN bound[u] ELSE @]
    OBVIOUS
  <2> HIDE DEF u, n
  <2>5. baseline' = [t \in Targets |-> IF promoted'[t] = Base THEN None ELSE Base]
    BY <2>2, <2>3, <2>4 DEF BindInv, TypeOK, Bindings
  <2> QED
    BY <2>2, <2>3, <2>4, <2>5 DEF BindInv
<1>4. CommandInv'
  BY DEF CommandInv
<1>5. SeenInv'
  BY DEF SeenInv, Saw, TypeOK, Acks
<1>6. OnceInv'
  BY DEF OnceInv, TypeOK
<1>7. AckInv'
  BY DEF AckInv
<1> QED
  BY <1>1, <1>2, <1>3, <1>4, <1>5, <1>6, <1>7

LEMMA RefuseStep == ASSUME IInv, Refuse PROVE IInv'
<1> USE TxnAssumption, NoneAssumption, CommandFacts
    DEF Refuse, files, binding, control, history, IInv
<1>1. TypeOK'
  BY DEF TypeOK
<1>2. PhaseInv'
  BY DEF PhaseInv
<1>3. BindInv'
  BY DEF BindInv
<1>4. CommandInv'
  BY DEF CommandInv
<1>5. SeenInv'
  BY DEF SeenInv, Saw
<1>6. OnceInv'
  BY DEF OnceInv
<1>7. AckInv'
  BY DEF AckInv
<1> QED
  BY <1>1, <1>2, <1>3, <1>4, <1>5, <1>6, <1>7

LEMMA StartupAckStep == ASSUME IInv, StartupAck PROVE IInv'
<1> USE TxnAssumption, NoneAssumption, CommandFacts
    DEF StartupAck, files, binding, control, history, IInv
<1>1. TypeOK'
  BY DEF TypeOK, Ack, Acks, Statuses
<1>2. PhaseInv'
  BY DEF PhaseInv
<1>3. BindInv'
  BY DEF BindInv
<1>4. CommandInv'
  BY DEF CommandInv
<1>5. SeenInv'
  BY DEF SeenInv, Saw, TypeOK, Ack
<1>6. OnceInv'
  BY DEF OnceInv
<1>7. AckInv'
  BY DEF AckInv, TypeOK, Ack, Acks, Statuses
<1> QED
  BY <1>1, <1>2, <1>3, <1>4, <1>5, <1>6, <1>7

LEMMA AcceptCommandStep == ASSUME IInv, AcceptCommand PROVE IInv'
<1> USE TxnAssumption, NoneAssumption, CommandFacts
    DEF AcceptCommand, files, binding, control, history, IInv
<1>1. TypeOK'
  BY DEF TypeOK
<1>2. PhaseInv'
  BY DEF PhaseInv
<1>3. BindInv'
  BY DEF BindInv
<1>4. CommandInv'
  BY DEF CommandInv
<1>5. SeenInv'
  BY DEF SeenInv, Saw
<1>6. OnceInv'
  BY DEF OnceInv
<1>7. AckInv'
  BY DEF AckInv
<1> QED
  BY <1>1, <1>2, <1>3, <1>4, <1>5, <1>6, <1>7

LEMMA RejectCommandStep == ASSUME IInv, RejectCommand PROVE IInv'
<1> USE TxnAssumption, NoneAssumption, CommandFacts
    DEF RejectCommand, files, binding, control, history, IInv
<1>1. TypeOK'
  BY DEF TypeOK, Statuses
<1>2. PhaseInv'
  BY DEF PhaseInv
<1>3. BindInv'
  BY DEF BindInv
<1>4. CommandInv'
  BY DEF CommandInv
<1>5. SeenInv'
  BY DEF SeenInv, Saw
<1>6. OnceInv'
  BY DEF OnceInv, APPLIED
<1>7. AckInv'
  BY DEF AckInv
<1> QED
  BY <1>1, <1>2, <1>3, <1>4, <1>5, <1>6, <1>7

LEMMA NoticeDemotionStep == ASSUME IInv, NoticeDemotion PROVE IInv'
<1> USE TxnAssumption, NoneAssumption, CommandFacts
    DEF NoticeDemotion, files, binding, control, history, IInv
<1>1. TypeOK'
  BY DEF TypeOK
<1>2. PhaseInv'
  BY DEF PhaseInv
<1>3. BindInv'
  BY DEF BindInv
<1>4. CommandInv'
  BY DEF CommandInv
<1>5. SeenInv'
  BY DEF SeenInv, Saw
<1>6. OnceInv'
  BY DEF OnceInv
<1>7. AckInv'
  BY DEF AckInv
<1> QED
  BY <1>1, <1>2, <1>3, <1>4, <1>5, <1>6, <1>7

LEMMA ServeStep == ASSUME IInv, Serve PROVE IInv'
<1> USE TxnAssumption, NoneAssumption, CommandFacts
    DEF Serve, files, binding, control, history, IInv
<1>1. TypeOK'
  BY DEF TypeOK
<1>2. PhaseInv'
  BY DEF PhaseInv
<1>3. BindInv'
  BY DEF BindInv
<1>4. CommandInv'
  BY DEF CommandInv
<1>5. SeenInv'
  BY DEF SeenInv, Saw
<1>6. OnceInv'
  BY DEF OnceInv
<1>7. AckInv'
  BY DEF AckInv
<1> QED
  BY <1>1, <1>2, <1>3, <1>4, <1>5, <1>6, <1>7

LEMMA DemoteListedStep == ASSUME IInv, DemoteListed PROVE IInv'
<1> USE TxnAssumption, NoneAssumption, CommandFacts
    DEF DemoteListed, files, binding, control, history, IInv
<1>1. TypeOK'
  BY DEF TypeOK, Restore, Policies, Bindings, Statuses, APPLIED
<1>2. PhaseInv'
  BY DEF PhaseInv
<1>3. BindInv'
  BY DEF BindInv, CommandInv, Restore, Nothing
<1>4. CommandInv'
  BY DEF CommandInv
<1>5. SeenInv'
  BY DEF SeenInv, Saw, TypeOK, Restore, Acks
<1>6. OnceInv'
  BY DEF OnceInv, TypeOK, Restore
<1>7. AckInv'
  BY DEF AckInv
<1> QED
  BY <1>1, <1>2, <1>3, <1>4, <1>5, <1>6, <1>7

LEMMA DemoteStep == ASSUME IInv, Demote PROVE IInv'
<1> USE TxnAssumption, NoneAssumption, CommandFacts
    DEF Demote, files, binding, control, history, IInv
<1>1. TypeOK'
  <2>1. \A t \in Asked : baseline[t] = Base
    BY DEF Asked, BindInv, TypeOK
  <2>2. bound' \in [Targets -> Bindings] /\ promoted' \in Policies
    BY <2>1 DEF Restore, TypeOK, Policies
  <2>3. baseline' \in [Targets -> Bindings \union {None}]
    BY DEF Restore, TypeOK
  <2>4. epoch' \in Nat /\ kv' = None /\ status' \in Statuses
    BY DEF Restore, TypeOK, Statuses, APPLIED
  <2> QED
    BY <2>2, <2>3, <2>4 DEF TypeOK
<1>2. PhaseInv'
  BY DEF PhaseInv
<1>3. BindInv'
  <2>1. \A t \in Asked : baseline[t] = Base
    BY DEF Asked, BindInv, TypeOK
  <2>2. bound = promoted /\ attempt' = Nothing
    BY DEF BindInv
  <2>3. bound' = promoted' /\ kv' = None
    BY <2>1, <2>2 DEF Asked, Restore
  <2>4. baseline' = [t \in Targets |-> IF promoted'[t] = Base THEN None ELSE Base]
    BY <2>1 DEF Restore, BindInv
  <2> QED
    BY <2>2, <2>3, <2>4 DEF BindInv
<1>4. CommandInv'
  BY DEF CommandInv
<1>5. SeenInv'
  BY DEF SeenInv, Saw, TypeOK, Restore, Acks
<1>6. OnceInv'
  BY DEF OnceInv, TypeOK, CommandInv, Restore, Stale
<1>7. AckInv'
  BY DEF AckInv
<1> QED
  BY <1>1, <1>2, <1>3, <1>4, <1>5, <1>6, <1>7

LEMMA BeginRebindStep == ASSUME IInv, BeginRebind PROVE IInv'
<1> USE TxnAssumption, NoneAssumption, CommandFacts
    DEF BeginRebind, files, binding, control, history, IInv
<1>1. TypeOK'
  BY DEF TypeOK
<1>2. PhaseInv'
  BY DEF PhaseInv, Stale
<1>3. BindInv'
  BY DEF BindInv, TypeOK, Asked
<1>4. CommandInv'
  BY DEF CommandInv
<1>5. SeenInv'
  BY DEF SeenInv, Saw
<1>6. OnceInv'
  BY DEF OnceInv
<1>7. AckInv'
  BY DEF AckInv
<1> QED
  BY <1>1, <1>2, <1>3, <1>4, <1>5, <1>6, <1>7

LEMMA RebindUnreadyStep == ASSUME IInv, RebindUnready PROVE IInv'
<1> USE TxnAssumption, NoneAssumption, CommandFacts
    DEF RebindUnready, files, binding, control, history, IInv
<1>1. TypeOK'
  BY DEF TypeOK, Failed, Statuses
<1>2. PhaseInv'
  BY DEF PhaseInv
<1>3. BindInv'
  BY DEF BindInv
<1>4. CommandInv'
  BY DEF CommandInv
<1>5. SeenInv'
  BY DEF SeenInv, Saw
<1>6. OnceInv'
  BY DEF OnceInv, Failed, APPLIED
<1>7. AckInv'
  BY DEF AckInv
<1> QED
  BY <1>1, <1>2, <1>3, <1>4, <1>5, <1>6, <1>7

LEMMA BindStep == ASSUME IInv, NEW t \in Targets, Bind(t) PROVE IInv'
<1> USE TxnAssumption, NoneAssumption, CommandFacts
    DEF Bind, files, binding, control, history, IInv
<1>1. TypeOK'
  BY DEF TypeOK, PhaseInv, Bindings
<1>2. PhaseInv'
  BY DEF PhaseInv
<1>3. BindInv'
  BY DEF BindInv, TypeOK, Asked
<1>4. CommandInv'
  BY DEF CommandInv
<1>5. SeenInv'
  BY DEF SeenInv, Saw
<1>6. OnceInv'
  BY DEF OnceInv
<1>7. AckInv'
  BY DEF AckInv
<1> QED
  BY <1>1, <1>2, <1>3, <1>4, <1>5, <1>6, <1>7

LEMMA BindFailsStep == ASSUME IInv, NEW t \in Targets, BindFails(t) PROVE IInv'
<1> USE TxnAssumption, NoneAssumption, CommandFacts
    DEF BindFails, files, binding, control, history, IInv
<1>1. TypeOK'
  BY DEF TypeOK, Bindings
<1>2. PhaseInv'
  BY DEF PhaseInv
<1>3. BindInv'
  BY DEF BindInv, Asked
<1>4. CommandInv'
  BY DEF CommandInv
<1>5. SeenInv'
  BY DEF SeenInv, Saw
<1>6. OnceInv'
  BY DEF OnceInv
<1>7. AckInv'
  BY DEF AckInv
<1> QED
  BY <1>1, <1>2, <1>3, <1>4, <1>5, <1>6, <1>7

LEMMA CommitStep == ASSUME IInv, Commit PROVE IInv'
<1> USE TxnAssumption, NoneAssumption, CommandFacts
    DEF Commit, files, binding, control, history, IInv
<1>1. TypeOK'
  BY DEF TypeOK, PhaseInv, Policies, Nothing, Statuses, APPLIED
<1>2. PhaseInv'
  BY DEF PhaseInv
<1>3. BindInv'
  BY DEF BindInv, PhaseInv, TypeOK, CommandInv, Asked, Base
<1>4. CommandInv'
  BY DEF CommandInv
<1>5. SeenInv'
  BY DEF SeenInv, Saw, TypeOK, Acks
<1>6. OnceInv'
  BY DEF OnceInv, TypeOK, CommandInv, PhaseInv
<1>7. AckInv'
  BY DEF AckInv
<1> QED
  BY <1>1, <1>2, <1>3, <1>4, <1>5, <1>6, <1>7

LEMMA ResetFailsStep == ASSUME IInv, ResetFails PROVE IInv'
<1> USE TxnAssumption, NoneAssumption, CommandFacts
    DEF ResetFails, files, binding, control, history, IInv
<1>1. TypeOK'
  BY DEF TypeOK
<1>2. PhaseInv'
  BY DEF PhaseInv
<1>3. BindInv'
  BY DEF BindInv, Asked
<1>4. CommandInv'
  BY DEF CommandInv
<1>5. SeenInv'
  BY DEF SeenInv, Saw
<1>6. OnceInv'
  BY DEF OnceInv
<1>7. AckInv'
  BY DEF AckInv
<1> QED
  BY <1>1, <1>2, <1>3, <1>4, <1>5, <1>6, <1>7

LEMMA RollbackStep == ASSUME IInv, Rollback PROVE IInv'
<1> USE TxnAssumption, NoneAssumption, CommandFacts
    DEF Rollback, files, binding, control, history, IInv
<1>1. TypeOK'
  BY DEF TypeOK, Failed, Nothing, Statuses
<1>2. PhaseInv'
  BY DEF PhaseInv
<1>3. BindInv'
  BY DEF BindInv, TypeOK, Policies, Bindings
<1>4. CommandInv'
  BY DEF CommandInv
<1>5. SeenInv'
  BY DEF SeenInv, Saw
<1>6. OnceInv'
  BY DEF OnceInv, Failed, APPLIED
<1>7. AckInv'
  BY DEF AckInv
<1> QED
  BY <1>1, <1>2, <1>3, <1>4, <1>5, <1>6, <1>7

LEMMA WriteAckStep == ASSUME IInv, WriteAck PROVE IInv'
<1> USE TxnAssumption, NoneAssumption, CommandFacts
    DEF WriteAck, files, binding, control, history, IInv
<1>1. TypeOK'
  BY DEF TypeOK, Ack, Acks, Answer
<1>2. PhaseInv'
  BY DEF PhaseInv
<1>3. BindInv'
  BY DEF BindInv
<1>4. CommandInv'
  BY DEF CommandInv, Answer
<1>5. SeenInv'
  BY DEF SeenInv, Saw, TypeOK, Ack
<1>6. OnceInv'
  BY DEF OnceInv, CommandInv, Answer
<1>7. AckInv'
  BY DEF AckInv, TypeOK, Ack, Acks
<1> QED
  BY <1>1, <1>2, <1>3, <1>4, <1>5, <1>6, <1>7

LEMMA PrepareStep ==
    ASSUME IInv, NEW op \in {"DEMOTE", "REBIND", "REBIND_SET"},
           NEW to \in Changes(ackFile.policy)[op], Prepare(op, to)
    PROVE  IInv'
<1> USE TxnAssumption, NoneAssumption, CommandFacts
    DEF Prepare, files, binding, control, history, IInv
<1> DEFINE new == [id |-> Cardinality(issued) + 1, op |-> op, epoch |-> ackFile.epoch,
                   policy |-> ackFile.policy, to |-> to, run |-> ackFile.run]
<1>a. ackFile \in Acks
  BY DEF TypeOK
<1>b. ackFile.epoch \in Nat /\ ackFile.policy \in Policies /\ ackFile.run \in 0 .. MaxCrashes
  BY <1>a DEF Acks
<1>c. to \in Tos /\ (op # "DEMOTE" => \A t \in DOMAIN to : to[t] \in Widths)
  BY <1>b, ChangesFacts
<1>d. Cardinality(issued) \in Nat /\ Cardinality(issued) + 1 \in Txns
  BY FS_CardinalityType DEF CommandInv, Txns
<1>e. new \in Commands
  BY <1>b, <1>c, <1>d DEF Commands, Tos
<1>1. TypeOK'
  BY <1>e DEF TypeOK
<1>2. PhaseInv'
  BY DEF PhaseInv
<1>3. BindInv'
  BY DEF BindInv, Asked
<1>4. CommandInv'
  <2>1. new \notin issued /\ \A m \in issued : m.id # new.id
    BY <1>d DEF CommandInv
  <2>2. IsFiniteSet(issued') /\ Cardinality(issued') = Cardinality(issued) + 1
    <3>1. issued' = issued \union {new} /\ IsFiniteSet(issued)
      BY DEF CommandInv
    <3> HIDE DEF new, Prepare
    <3> QED
      BY <2>1, <3>1, FS_AddElement
  <2>3. \A m \in issued' : m.id <= Cardinality(issued') /\ m.run <= crashes
    BY <1>d, <2>2 DEF CommandInv, TypeOK, SeenInv, Txns
  <2>4. \A m, n \in issued' : m.id = n.id => m = n
    BY <2>1 DEF CommandInv
  <2>5. \A m \in issued' : m.op # "DEMOTE" => \A t \in DOMAIN m.to : m.to[t] \in Widths
    BY <1>c DEF CommandInv
  <2>6. \A i \in answered' : \E m \in issued' : m.id = i
    BY DEF CommandInv
  <2> QED
    BY <2>2, <2>3, <2>4, <2>5, <2>6 DEF CommandInv
<1>5. SeenInv'
  BY DEF SeenInv, Saw
<1>6. OnceInv'
  <2>1. \A i \in appliedNow : i # new.id
    BY <1>d DEF TypeOK, CommandInv
  <2> QED
    BY <2>1 DEF OnceInv
<1>7. AckInv'
  BY DEF AckInv
<1> QED
  BY <1>1, <1>2, <1>3, <1>4, <1>5, <1>6, <1>7

LEMMA PublishStep == ASSUME IInv, NEW m \in issued, Publish(m) PROVE IInv'
<1> USE TxnAssumption, NoneAssumption, CommandFacts
    DEF Publish, files, binding, control, history, IInv
<1>1. TypeOK'
  BY DEF TypeOK
<1>2. PhaseInv'
  BY DEF PhaseInv
<1>3. BindInv'
  BY DEF BindInv, Asked
<1>4. CommandInv'
  BY DEF CommandInv
<1>5. SeenInv'
  BY DEF SeenInv, Saw
<1>6. OnceInv'
  BY DEF OnceInv
<1>7. AckInv'
  BY DEF AckInv
<1> QED
  BY <1>1, <1>2, <1>3, <1>4, <1>5, <1>6, <1>7

LEMMA WriteDemotionStep == ASSUME IInv, NEW S \in Demotions, WriteDemotion(S) PROVE IInv'
<1> USE TxnAssumption, NoneAssumption, CommandFacts
    DEF WriteDemotion, files, binding, control, history, IInv
<1>1. TypeOK'
  BY DEF TypeOK
<1>2. PhaseInv'
  BY DEF PhaseInv
<1>3. BindInv'
  BY DEF BindInv, Asked
<1>4. CommandInv'
  BY DEF CommandInv
<1>5. SeenInv'
  BY DEF SeenInv, Saw
<1>6. OnceInv'
  BY DEF OnceInv
<1>7. AckInv'
  BY DEF AckInv
<1> QED
  BY <1>1, <1>2, <1>3, <1>4, <1>5, <1>6, <1>7

LEMMA CrashStep == ASSUME IInv, Crash PROVE IInv'
<1> USE TxnAssumption, NoneAssumption, CommandFacts
    DEF Crash, files, binding, control, history, IInv
<1>1. TypeOK'
  BY DEF TypeOK, Policies, Bindings, Nothing
<1>2. PhaseInv'
  BY DEF PhaseInv
<1>3. BindInv'
  BY DEF BindInv, Nothing
<1>4. CommandInv'
  BY DEF CommandInv, TypeOK
<1>5. SeenInv'
  BY DEF SeenInv, Saw, TypeOK, CommandInv, Acks
<1>6. OnceInv'
  BY DEF OnceInv
<1>7. AckInv'
  BY DEF AckInv
<1> QED
  BY <1>1, <1>2, <1>3, <1>4, <1>5, <1>6, <1>7

LEMMA NextIInv == IInv /\ [Next]_vars => IInv'
<1> SUFFICES ASSUME IInv, [Next]_vars PROVE IInv'
  OBVIOUS
<1>1. CASE Worker
  BY <1>1, PromoteStep, RefuseStep, StartupAckStep, AcceptCommandStep,
     RejectCommandStep, NoticeDemotionStep, ServeStep, DemoteListedStep,
     DemoteStep, BeginRebindStep, RebindUnreadyStep, CommitStep,
     BindStep, BindFailsStep, ResetFailsStep, RollbackStep,
     WriteAckStep
     DEF Worker
<1>2. CASE Controller
  BY <1>2, PrepareStep, PublishStep DEF Controller
<1>3. ASSUME NEW S \in Demotions, WriteDemotion(S) PROVE IInv'
  BY <1>3, WriteDemotionStep
<1>4. CASE Crash
  BY <1>4, CrashStep
<1>5. CASE UNCHANGED vars
  BY <1>5 DEF vars, files, binding, control, history, IInv, TypeOK, PhaseInv, BindInv, Asked,
              CommandInv, SeenInv, Saw, OnceInv, AckInv
<1> QED
  BY <1>1, <1>2, <1>3, <1>4, <1>5 DEF Next

LEMMA InductiveInvariant == Spec => []IInv
  BY InitIInv, NextIInv, PTL DEF Spec

-----------------------------------------------------------------------------
(* The results.                                                            *)

\* Every variable has its type.
THEOREM TypeCorrect == Spec => []TypeOK
<1>1. IInv => TypeOK
  BY DEF IInv
<1> QED
  BY <1>1, InductiveInvariant, PTL

\* Nothing is served that the acknowledgement file does not state.
THEOREM ServesTheAcknowledged == Spec => []AckIsRuntimeState
<1>1. IInv => AckIsRuntimeState
  BY DEF IInv, AckInv, AckIsRuntimeState
<1> QED
  BY <1>1, InductiveInvariant, PTL

\* A set of targets changes wholly or not at all, and what remains of the KV
\* state was computed with the bindings in force.
THEOREM SetsChangeWhole == Spec => []BindingsAreRecorded
<1>1. IInv => BindingsAreRecorded
  BY DEF IInv, BindInv, BindingsAreRecorded
<1> QED
  BY <1>1, InductiveInvariant, PTL

\* A command is applied only to the policy its author saw, and once per run.
THEOREM AppliesToTheSeen == Spec => AppliedToSeenPolicy
<1> DEFINE Seen == /\ status \notin APPLIED /\ status' \in APPLIED /\ pending # None
                          /\ pending.run = crashes
                      => promoted = pending.policy
           Once == \A i \in Txns : Applies(i) => i \notin appliedNow
<1>1. ASSUME IInv, [Next]_vars PROVE [Seen /\ Once]_vars
  <2>1. ASSUME pending # None, pending.epoch = epoch, pending.run = crashes
        PROVE  promoted = pending.policy
    BY <1>1, <2>1 DEF IInv, CommandInv, SeenInv, Saw
  <2>2. ASSUME Demote PROVE Seen
    BY <1>1, <2>1, <2>2 DEF Demote, Stale
  <2>3. ASSUME Commit PROVE Seen
    BY <1>1, <2>1, <2>3 DEF Commit, IInv, PhaseInv
  <2>4. ASSUME DemoteListed PROVE Seen
    BY <2>4 DEF DemoteListed
  <2>5. ASSUME ~Demote, ~Commit, ~DemoteListed PROVE Seen
    <3>1. status' \notin APPLIED \/ UNCHANGED status
      BY <1>1, <2>5, NoneAssumption
         DEF Next, Worker, Controller, Promote, Refuse, StartupAck, AcceptCommand, RejectCommand,
             NoticeDemotion, Serve, BeginRebind, RebindUnready, Bind, BindFails, ResetFails,
             Rollback, WriteAck, Prepare, Publish, WriteDemotion, Crash, vars, control, Failed,
             APPLIED, Statuses
    <3> QED
      BY <3>1
  <2>6. Once
    BY <1>1 DEF IInv, OnceInv, Applies
  <2> QED
    BY <2>2, <2>3, <2>4, <2>5, <2>6
<1> QED
  BY <1>1, InductiveInvariant, PTL DEF Spec, AppliedToSeenPolicy

=============================================================================
