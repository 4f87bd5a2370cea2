-------------------------- MODULE PrecisionTxnProofs --------------------------
(***************************************************************************)
(* Proofs about PrecisionTxn for every set of transactions, policies and   *)
(* contexts and every bound.                                               *)
(***************************************************************************)
EXTENDS PrecisionTxn, TLAPS

Stages == CallStages \union SaveStages \union {"idle", "check"}

(***************************************************************************)
(* What the controller knows of its own call: it works on an entry that    *)
(* exists, it restores only from a snapshot, it opens admission only after *)
(* an acknowledgement, and until it applies the policy the transaction has *)
(* never been applied and the worker is at the epoch it expects.           *)
(***************************************************************************)
BeforeApply ==
    \/ pc \in {"pause", "drain", "sync", "snapshot"}
    \/ pc = "apply" /\ ~saving

CallInv ==
    /\ pc # "idle" => journal[cur] # Absent
    /\ saving => pc \notin {"idle", "check"}
    /\ pc \in SaveStages => saving
    /\ pc = "restore" => snap # Unset
    /\ pc \in {"resume", "reopen"} => Acknowledged
    /\ BeforeApply => epoch = journal[cur].expEpoch

OnceInv ==
    \A t \in Txns :
        \/ applies[t] = 0
        \/ applies[t] = 1 /\ journal[t] # Absent /\ epoch > journal[t].expEpoch

IInv == TypeOK /\ CallInv /\ OnceInv /\ OpenIsAcknowledged

-----------------------------------------------------------------------------
(* Lemmas about the operators.                                             *)

\* What a save may do to an entry: its arguments stay, and the fields that
\* acknowledge an epoch are kept or set to the live state.
LEMMA RecordedEntry ==
    ASSUME NEW entry \in Entries, NEW stage \in CallStages \union SaveStages,
           Live \in States
    PROVE  LET r == Recorded(entry, stage)
           IN  /\ r \in Entries
               /\ r.expEpoch = entry.expEpoch
               /\ r.applied \in {entry.applied, Live}
               /\ r.rolled \in {entry.rolled, Live}
               /\ stage = "verify" => r.applied = Live
               /\ stage = "restore" => r.rolled = Live
  BY DEF Recorded, Entries, CallStages, SaveStages, Statuses, TERMINAL

\* Which stages a save leads to: calls before apply_policy follow each other,
\* restore needs a snapshot, and admission opens only after the two saves that
\* acknowledge an epoch.
LEMMA NextStageFacts ==
    ASSUME NEW stage \in CallStages \union SaveStages
    PROVE  LET n == NextStage(stage)
           IN  /\ n \in Stages \ {"check", "rollback"}
               /\ n \in {"pause", "drain", "sync", "snapshot", "apply"}
                    => stage \in {"pause", "drain", "sync", "snapshot"}
               /\ n = "restore" => snap # Unset
               /\ n \in {"resume", "reopen"} => stage \in {"verify", "restore"}
  BY DEF NextStage, Stages, CallStages, SaveStages

LEMMA HandlerType == \A stage : Handler(stage) \in SaveStages
  BY DEF Handler, SaveStages

-----------------------------------------------------------------------------
LEMMA InitIInv == Init => IInv
<1> SUFFICES ASSUME Init PROVE IInv
  OBVIOUS
<1> USE ConstantsAssumption
<1>1. TypeOK
  BY DEF Init, TypeOK
<1>2. CallInv
  BY DEF Init, CallInv, BeforeApply, SaveStages
<1>3. OnceInv
  BY DEF Init, OnceInv
<1>4. OpenIsAcknowledged
  BY DEF Init, OpenIsAcknowledged, Acknowledged
<1> QED
  BY <1>1, <1>2, <1>3, <1>4 DEF IInv

LEMMA NextIInv == IInv /\ [Next]_vars => IInv'
<1> SUFFICES ASSUME IInv, [Next]_vars PROVE IInv'
  OBVIOUS
<1> USE ConstantsAssumption, SentinelsAssumption
<1> USE DEF IInv, GoTo, BeforeApply, Acknowledged, Live, controller, worker, history,
            CallStages, SaveStages
<1>1. ASSUME NEW t \in Txns, NEW c \in Contexts, NEW e \in Epochs,
              NEW p \in Policies, NEW q \in Policies, Begin(t, c, e, p, q)
       PROVE IInv'
  <2>1. TypeOK'
    BY <1>1 DEF Begin, NewState, Epochs, Entries, Statuses, TypeOK
  <2>2. CallInv'
    BY <1>1 DEF Begin, NewState, Epochs, Entries, Statuses, CallInv, TypeOK
  <2>3. OnceInv'
    BY <1>1 DEF Begin, NewState, Epochs, Entries, Statuses, OnceInv, CallInv, TypeOK
  <2>4. OpenIsAcknowledged'
    BY <1>1 DEF Begin, NewState, Epochs, Entries, Statuses, OpenIsAcknowledged, CallInv, TypeOK
  <2> QED
    BY <2>1, <2>2, <2>3, <2>4 DEF IInv
<1>2. ASSUME NEW t \in Txns, Retry(t) PROVE IInv'
  <2>1. TypeOK'
    BY <1>2 DEF Retry, TypeOK
  <2>2. CallInv'
    BY <1>2 DEF Retry, CallInv, TypeOK
  <2>3. OnceInv'
    BY <1>2 DEF Retry, OnceInv, CallInv, TypeOK
  <2>4. OpenIsAcknowledged'
    BY <1>2 DEF Retry, OpenIsAcknowledged, CallInv, TypeOK
  <2> QED
    BY <2>1, <2>2, <2>3, <2>4 DEF IInv
<1>3. ASSUME CheckPreimage PROVE IInv'
  <2>1. TypeOK'
    BY <1>3 DEF CheckPreimage, Current, TypeOK
  <2>2. CallInv'
    BY <1>3 DEF CheckPreimage, Current, CallInv, TypeOK
  <2>3. OnceInv'
    BY <1>3 DEF CheckPreimage, Current, OnceInv, CallInv, TypeOK
  <2>4. OpenIsAcknowledged'
    BY <1>3 DEF CheckPreimage, Current, OpenIsAcknowledged, CallInv, TypeOK
  <2> QED
    BY <2>1, <2>2, <2>3, <2>4 DEF IInv
<1>4. ASSUME RejectStale PROVE IInv'
  <2>1. TypeOK'
    <3>1. journal[cur] \in Entries
      BY <1>4 DEF RejectStale, CallInv, TypeOK
    <3>2. [journal[cur] EXCEPT !.status = "STALE_COMMAND"] \in Entries
      BY <3>1 DEF Entries, Statuses, TERMINAL
    <3> QED
      BY <1>4, <3>1, <3>2 DEF RejectStale, TypeOK
  <2>2. CallInv'
    BY <1>4 DEF RejectStale, Entries, Statuses, TERMINAL, CallInv, TypeOK
  <2>3. OnceInv'
    BY <1>4 DEF RejectStale, Entries, Statuses, TERMINAL, OnceInv, CallInv, TypeOK
  <2>4. OpenIsAcknowledged'
    BY <1>4 DEF RejectStale, Entries, Statuses, TERMINAL, OpenIsAcknowledged, CallInv, TypeOK
  <2> QED
    BY <2>1, <2>2, <2>3, <2>4 DEF IInv
<1>5. ASSUME PauseAdmission PROVE IInv'
  <2>1. TypeOK'
    BY <1>5 DEF PauseAdmission, Returns, Ready, Quiesced, TypeOK
  <2>2. CallInv'
    BY <1>5 DEF PauseAdmission, Returns, Ready, Quiesced, CallInv, TypeOK
  <2>3. OnceInv'
    BY <1>5 DEF PauseAdmission, Returns, Ready, Quiesced, OnceInv, CallInv, TypeOK
  <2>4. OpenIsAcknowledged'
    BY <1>5 DEF PauseAdmission, Returns, Ready, Quiesced, OpenIsAcknowledged, CallInv, TypeOK
  <2> QED
    BY <2>1, <2>2, <2>3, <2>4 DEF IInv
<1>6. ASSUME Drain PROVE IInv'
  <2>1. TypeOK'
    BY <1>6 DEF Drain, Returns, Ready, Quiesced, TypeOK
  <2>2. CallInv'
    BY <1>6 DEF Drain, Returns, Ready, Quiesced, CallInv, TypeOK
  <2>3. OnceInv'
    BY <1>6 DEF Drain, Returns, Ready, Quiesced, OnceInv, CallInv, TypeOK
  <2>4. OpenIsAcknowledged'
    BY <1>6 DEF Drain, Returns, Ready, Quiesced, OpenIsAcknowledged, CallInv, TypeOK
  <2> QED
    BY <2>1, <2>2, <2>3, <2>4 DEF IInv
<1>7. ASSUME Synchronize PROVE IInv'
  <2>1. TypeOK'
    BY <1>7 DEF Synchronize, Returns, Ready, Quiesced, TypeOK
  <2>2. CallInv'
    BY <1>7 DEF Synchronize, Returns, Ready, Quiesced, CallInv, TypeOK
  <2>3. OnceInv'
    BY <1>7 DEF Synchronize, Returns, Ready, Quiesced, OnceInv, CallInv, TypeOK
  <2>4. OpenIsAcknowledged'
    BY <1>7 DEF Synchronize, Returns, Ready, Quiesced, OpenIsAcknowledged, CallInv, TypeOK
  <2> QED
    BY <2>1, <2>2, <2>3, <2>4 DEF IInv
<1>8. ASSUME Snapshot PROVE IInv'
  <2>1. TypeOK'
    BY <1>8 DEF Snapshot, Returns, Ready, Quiesced, States, Entries, TypeOK
  <2>2. CallInv'
    BY <1>8 DEF Snapshot, Returns, Ready, Quiesced, States, Entries, CallInv, TypeOK
  <2>3. OnceInv'
    BY <1>8 DEF Snapshot, Returns, Ready, Quiesced, States, Entries, OnceInv, CallInv, TypeOK
  <2>4. OpenIsAcknowledged'
    BY <1>8 DEF Snapshot, Returns, Ready, Quiesced, States, Entries, OpenIsAcknowledged, CallInv, TypeOK
  <2> QED
    BY <2>1, <2>2, <2>3, <2>4 DEF IInv
<1>9. ASSUME ApplyPolicy PROVE IInv'
  <2>1. TypeOK'
    <3>1. journal[cur].request \in Policies
      BY <1>9 DEF ApplyPolicy, Returns, CallInv, TypeOK, Entries
    <3>2. policy' \in Policies /\ epoch' \in Nat
      BY <1>9, <3>1 DEF ApplyPolicy, TypeOK
    <3>3. applies' \in [Txns -> Nat]
      BY <1>9 DEF ApplyPolicy, TypeOK
    <3> QED
      BY <1>9, <3>2, <3>3 DEF ApplyPolicy, Returns, TypeOK
  <2>2. CallInv'
    BY <1>9 DEF ApplyPolicy, Returns, Ready, Quiesced, States, Entries, CallInv, TypeOK
  <2>3. OnceInv'
    BY <1>9 DEF ApplyPolicy, Returns, Ready, Quiesced, States, Entries, OnceInv, CallInv, TypeOK
  <2>4. OpenIsAcknowledged'
    BY <1>9 DEF ApplyPolicy, Returns, Ready, Quiesced, States, Entries, OpenIsAcknowledged, CallInv, TypeOK
  <2> QED
    BY <2>1, <2>2, <2>3, <2>4 DEF IInv
<1>10. ASSUME VerifyPolicy PROVE IInv'
  <2>1. TypeOK'
    BY <1>10 DEF VerifyPolicy, Returns, Ready, Quiesced, TypeOK
  <2>2. CallInv'
    BY <1>10 DEF VerifyPolicy, Returns, Ready, Quiesced, CallInv, TypeOK
  <2>3. OnceInv'
    BY <1>10 DEF VerifyPolicy, Returns, Ready, Quiesced, OnceInv, CallInv, TypeOK
  <2>4. OpenIsAcknowledged'
    BY <1>10 DEF VerifyPolicy, Returns, Ready, Quiesced, OpenIsAcknowledged, CallInv, TypeOK
  <2> QED
    BY <2>1, <2>2, <2>3, <2>4 DEF IInv
<1>11. ASSUME Restore PROVE IInv'
  <2>1. TypeOK'
    <3>1. snap.policy \in Policies
      BY <1>11 DEF Restore, Returns, CallInv, TypeOK, States
    <3>2. policy' \in Policies /\ epoch' \in Nat
      BY <1>11, <3>1 DEF Restore, TypeOK
    <3>3. applies' \in [Txns -> Nat]
      BY <1>11 DEF Restore, TypeOK
    <3> QED
      BY <1>11, <3>2, <3>3 DEF Restore, Returns, TypeOK
  <2>2. CallInv'
    BY <1>11 DEF Restore, Returns, Ready, Quiesced, States, Entries, CallInv, TypeOK
  <2>3. OnceInv'
    BY <1>11 DEF Restore, Returns, Ready, Quiesced, States, Entries, OnceInv, CallInv, TypeOK
  <2>4. OpenIsAcknowledged'
    BY <1>11 DEF Restore, Returns, Ready, Quiesced, States, Entries, OpenIsAcknowledged, CallInv, TypeOK
  <2> QED
    BY <2>1, <2>2, <2>3, <2>4 DEF IInv
<1>12. ASSUME ResumeAdmission PROVE IInv'
  <2>1. TypeOK'
    BY <1>12 DEF ResumeAdmission, Returns, Ready, Quiesced, TypeOK
  <2>2. CallInv'
    BY <1>12 DEF ResumeAdmission, Returns, Ready, Quiesced, CallInv, TypeOK
  <2>3. OnceInv'
    BY <1>12 DEF ResumeAdmission, Returns, Ready, Quiesced, OnceInv, CallInv, TypeOK
  <2>4. OpenIsAcknowledged'
    BY <1>12 DEF ResumeAdmission, Returns, Ready, Quiesced, OpenIsAcknowledged, CallInv, TypeOK
  <2> QED
    BY <2>1, <2>2, <2>3, <2>4 DEF IInv
<1>13. ASSUME CallFails PROVE IInv'
  <2>1. TypeOK'
    BY <1>13, HandlerType DEF CallFails, Handler, TypeOK
  <2>2. CallInv'
    BY <1>13, HandlerType DEF CallFails, Handler, CallInv, TypeOK
  <2>3. OnceInv'
    BY <1>13, HandlerType DEF CallFails, Handler, OnceInv, CallInv, TypeOK
  <2>4. OpenIsAcknowledged'
    BY <1>13, HandlerType DEF CallFails, Handler, OpenIsAcknowledged, CallInv, TypeOK
  <2> QED
    BY <2>1, <2>2, <2>3, <2>4 DEF IInv
<1>14. ASSUME Save PROVE IInv'
  <2> DEFINE r == Recorded(journal[cur], pc)
             n == NextStage(pc)
  <2>1. /\ pc \in CallStages \union SaveStages
        /\ journal[cur] \in Entries
        /\ Live \in States
    BY <1>14 DEF Save, CallInv, TypeOK, States
  <2>2. /\ r \in Entries
        /\ r.expEpoch = journal[cur].expEpoch
        /\ r.applied \in {journal[cur].applied, Live}
        /\ r.rolled \in {journal[cur].rolled, Live}
        /\ pc = "verify" => r.applied = Live
        /\ pc = "restore" => r.rolled = Live
    BY <2>1, RecordedEntry
  <2>3. /\ n \in Stages \ {"check", "rollback"}
        /\ n \in {"pause", "drain", "sync", "snapshot", "apply"}
             => pc \in {"pause", "drain", "sync", "snapshot"}
        /\ n = "restore" => snap # Unset
        /\ n \in {"resume", "reopen"} => pc \in {"verify", "restore"}
    BY <2>1, NextStageFacts
  <2>4. /\ journal' = [journal EXCEPT ![cur] = r]
        /\ pc' = n
        /\ saving' = (n \in SaveStages)
        /\ UNCHANGED <<cur, snap, worker, history>>
    BY <1>14 DEF Save
  <2>5. cur \in Txns /\ journal'[cur] = r /\ r # Absent
    BY <2>2, <2>4 DEF TypeOK
  <2> HIDE DEF r, n
  <2>6. Acknowledged => Acknowledged'
    BY <2>1, <2>2, <2>4, <2>5 DEF TypeOK
  <2>7. TypeOK'
    BY <2>2, <2>3, <2>4 DEF TypeOK, Stages
  <2>8. CallInv'
    <3>1. pc \in {"verify", "restore"} => Acknowledged'
      BY <2>2, <2>4, <2>5
    <3> QED
      BY <2>2, <2>3, <2>4, <2>5, <3>1 DEF CallInv, Stages
  <2>9. OnceInv'
    BY <2>2, <2>4, <2>5 DEF OnceInv, TypeOK
  <2>10. OpenIsAcknowledged'
    BY <2>4, <2>6 DEF OpenIsAcknowledged
  <2> QED
    BY <2>7, <2>8, <2>9, <2>10 DEF IInv
<1>15. ASSUME SaveFails PROVE IInv'
  <2>1. TypeOK'
    BY <1>15, HandlerType DEF SaveFails, Handler, TypeOK
  <2>2. CallInv'
    BY <1>15, HandlerType DEF SaveFails, Handler, CallInv, TypeOK
  <2>3. OnceInv'
    BY <1>15, HandlerType DEF SaveFails, Handler, OnceInv, CallInv, TypeOK
  <2>4. OpenIsAcknowledged'
    BY <1>15, HandlerType DEF SaveFails, Handler, OpenIsAcknowledged, CallInv, TypeOK
  <2> QED
    BY <2>1, <2>2, <2>3, <2>4 DEF IInv
<1>16. ASSUME Abort PROVE IInv'
  <2>1. TypeOK'
    BY <1>16 DEF Abort, TypeOK
  <2>2. CallInv'
    BY <1>16 DEF Abort, CallInv, TypeOK
  <2>3. OnceInv'
    BY <1>16 DEF Abort, OnceInv, CallInv, TypeOK
  <2>4. OpenIsAcknowledged'
    BY <1>16 DEF Abort, OpenIsAcknowledged, CallInv, TypeOK
  <2> QED
    BY <2>1, <2>2, <2>3, <2>4 DEF IInv
<1>17. ASSUME Admit PROVE IInv'
  <2>1. TypeOK'
    BY <1>17 DEF Admit, TypeOK
  <2>2. CallInv'
    BY <1>17 DEF Admit, CallInv, TypeOK
  <2>3. OnceInv'
    BY <1>17 DEF Admit, OnceInv, CallInv, TypeOK
  <2>4. OpenIsAcknowledged'
    BY <1>17 DEF Admit, OpenIsAcknowledged, CallInv, TypeOK
  <2> QED
    BY <2>1, <2>2, <2>3, <2>4 DEF IInv
<1>18. ASSUME Finish PROVE IInv'
  <2>1. TypeOK'
    BY <1>18 DEF Finish, TypeOK
  <2>2. CallInv'
    BY <1>18 DEF Finish, CallInv, TypeOK
  <2>3. OnceInv'
    BY <1>18 DEF Finish, OnceInv, CallInv, TypeOK
  <2>4. OpenIsAcknowledged'
    BY <1>18 DEF Finish, OpenIsAcknowledged, CallInv, TypeOK
  <2> QED
    BY <2>1, <2>2, <2>3, <2>4 DEF IInv
<1>19. ASSUME UNCHANGED vars PROVE IInv'
  <2>1. TypeOK'
    BY <1>19 DEF vars, TypeOK
  <2>2. CallInv'
    BY <1>19 DEF vars, CallInv, TypeOK
  <2>3. OnceInv'
    BY <1>19 DEF vars, OnceInv, CallInv, TypeOK
  <2>4. OpenIsAcknowledged'
    BY <1>19 DEF vars, OpenIsAcknowledged, CallInv, TypeOK
  <2> QED
    BY <2>1, <2>2, <2>3, <2>4 DEF IInv
<1> QED
  BY <1>1, <1>2, <1>3, <1>4, <1>5, <1>6, <1>7, <1>8, <1>9, <1>10, <1>11, <1>12, <1>13, <1>14, <1>15, <1>16, <1>17, <1>18, <1>19 DEF Next, Step, AdapterCall

-----------------------------------------------------------------------------
(* The theorems.                                                           *)

LEMMA InductiveInvariant == Spec => []IInv
  BY InitIInv, NextIInv, PTL DEF Spec

\* Type correctness of the transaction for every set of transactions, policies
\* and contexts.
THEOREM TypeCorrect == Spec => []TypeOK
<1>1. IInv => TypeOK
  BY DEF IInv
<1> QED
  BY <1>1, InductiveInvariant, PTL

\* Admission is open only on weights a durable journal entry acknowledges.
THEOREM AckBeforeOpen == Spec => []OpenIsAcknowledged
<1>1. IInv => OpenIsAcknowledged
  BY DEF IInv
<1> QED
  BY <1>1, InductiveInvariant, PTL

\* A transaction id applies its policy at most once, however often it is
\* retried after a crash.
THEOREM AppliesOnce == Spec => []AppliedAtMostOnce
<1>1. IInv => AppliedAtMostOnce
  <2> SUFFICES ASSUME OnceInv, NEW t \in Txns PROVE applies[t] <= 1
    BY DEF IInv, AppliedAtMostOnce
  <2>1. applies[t] = 0 \/ applies[t] = 1
    BY DEF OnceInv
  <2> QED
    BY <2>1
<1> QED
  BY <1>1, InductiveInvariant, PTL

\* The weights change only on a paused worker without requests in flight.
THEOREM MutationIsIsolated == Spec => EpochIsolation
<1>1. ASSUME [Next]_vars
      PROVE  [epoch' # epoch \/ policy' # policy => Quiesced /\ Quiesced']_vars
  <2>1. CASE ApplyPolicy
    BY <2>1 DEF ApplyPolicy, Returns, Ready, Quiesced
  <2>2. CASE Restore
    BY <2>2 DEF Restore, Returns, Ready, Quiesced
  <2>3. CASE ~ApplyPolicy /\ ~Restore
    <3>1. UNCHANGED <<epoch, policy>>
      BY <1>1, <2>3
         DEF Next, Step, AdapterCall, Begin, Retry, CheckPreimage, RejectStale,
             PauseAdmission, Drain, Synchronize, Snapshot, VerifyPolicy,
             ResumeAdmission, CallFails, Save, SaveFails, Abort, Admit, Finish,
             vars, worker
    <3> QED
      BY <3>1
  <2> QED
    BY <2>1, <2>2, <2>3
<1> QED
  BY <1>1, PTL DEF Spec, EpochIsolation

-----------------------------------------------------------------------------
(***************************************************************************)
(* A recorded rollback.  The snapshot is taken while the worker is still   *)
(* at the preimage the transaction named, and restore brings that back.    *)
(***************************************************************************)
PreimageInv ==
    /\ BeforeApply => policy = journal[cur].expPolicy
    /\ pc # "idle" /\ snap # Unset => snap.policy = journal[cur].expPolicy
    /\ pc = "restore" /\ saving => policy = journal[cur].expPolicy
    /\ RollbackRestoresPreimage

LEMMA RecordedPreimage ==
    ASSUME NEW entry \in Entries, NEW stage \in CallStages \union SaveStages,
           Live \in States
    PROVE  LET r == Recorded(entry, stage)
           IN  /\ r.expPolicy = entry.expPolicy
               /\ r.rolled # entry.rolled => stage = "restore" /\ r.rolled = Live
  BY DEF Recorded, Entries, CallStages, SaveStages, Statuses, TERMINAL

LEMMA NextPreimageInv == IInv /\ PreimageInv /\ [Next]_vars => PreimageInv'
<1> SUFFICES ASSUME IInv, PreimageInv, [Next]_vars PROVE PreimageInv'
  OBVIOUS
<1> USE SentinelsAssumption
<1> USE DEF IInv, PreimageInv, RollbackRestoresPreimage, BeforeApply, GoTo,
            controller, worker, history
<1>1. ASSUME NEW t \in Txns, NEW c \in Contexts, NEW e \in Epochs,
             NEW p \in Policies, NEW q \in Policies, Begin(t, c, e, p, q)
      PROVE  PreimageInv'
  BY <1>1 DEF Begin, NewState, TypeOK
<1>2. ASSUME NEW t \in Txns, Retry(t) PROVE PreimageInv'
  BY <1>2 DEF Retry
<1>3. ASSUME CheckPreimage PROVE PreimageInv'
  BY <1>3 DEF CheckPreimage, Current
<1>4. ASSUME RejectStale PROVE PreimageInv'
  <2>1. journal[cur] \in Entries /\ cur \in Txns
    BY <1>4 DEF RejectStale, CallInv, TypeOK
  <2> QED
    BY <1>4, <2>1 DEF RejectStale, TypeOK, Entries, SaveStages
<1>5. ASSUME PauseAdmission \/ Drain \/ Synchronize \/ VerifyPolicy \/ ResumeAdmission
      PROVE  PreimageInv'
  BY <1>5 DEF PauseAdmission, Drain, Synchronize, VerifyPolicy, ResumeAdmission, Returns
<1>6. ASSUME Snapshot PROVE PreimageInv'
  BY <1>6 DEF Snapshot, Returns, Live
<1>7. ASSUME ApplyPolicy PROVE PreimageInv'
  BY <1>7 DEF ApplyPolicy, Returns
<1>8. ASSUME Restore PROVE PreimageInv'
  BY <1>8 DEF Restore, Returns, CallInv
<1>9. ASSUME CallFails PROVE PreimageInv'
  BY <1>9, HandlerType DEF CallFails, CallStages, SaveStages
<1>10. ASSUME Save PROVE PreimageInv'
  <2> DEFINE r == Recorded(journal[cur], pc)
             n == NextStage(pc)
  <2>1. /\ pc \in CallStages \union SaveStages
        /\ journal[cur] \in Entries
        /\ Live \in States
    BY <1>10 DEF Save, CallInv, TypeOK, States, Live
  <2>2. /\ r.expPolicy = journal[cur].expPolicy
        /\ r.rolled # journal[cur].rolled => pc = "restore" /\ r.rolled = Live
    BY <2>1, RecordedPreimage
  <2>3. /\ n \in {"pause", "drain", "sync", "snapshot", "apply"}
             => pc \in {"pause", "drain", "sync", "snapshot"}
        /\ n # "rollback"
    BY <2>1, NextStageFacts
  <2>4. /\ journal' = [journal EXCEPT ![cur] = r]
        /\ pc' = n
        /\ saving' = (n \in SaveStages)
        /\ UNCHANGED <<cur, snap, worker, history>>
    BY <1>10 DEF Save
  <2>5. cur \in Txns /\ journal'[cur] = r
    BY <2>4 DEF TypeOK
  <2>6. saving /\ pc # "idle" /\ journal[cur] # Absent
    BY <1>10 DEF Save, CallInv
  <2> HIDE DEF r, n
  <2>7. ASSUME NEW t \in Txns, journal'[t] # Absent, journal'[t].rolled # Unset
        PROVE  journal'[t].rolled.policy = journal'[t].expPolicy
    <3>1. CASE t # cur
      BY <2>4, <2>7, <3>1 DEF TypeOK
    <3>2. CASE t = cur /\ r.rolled = journal[cur].rolled
      BY <2>2, <2>5, <2>6, <2>7, <3>2
    <3>3. CASE t = cur /\ r.rolled # journal[cur].rolled
      BY <2>2, <2>5, <2>6, <3>3 DEF Live
    <3> QED
      BY <3>1, <3>2, <3>3
  <2> QED
    BY <2>2, <2>3, <2>4, <2>5, <2>6, <2>7 DEF SaveStages
<1>11. ASSUME SaveFails PROVE PreimageInv'
  BY <1>11, HandlerType DEF SaveFails, CallStages, SaveStages
<1>12. ASSUME Abort PROVE PreimageInv'
  BY <1>12 DEF Abort
<1>13. ASSUME Admit \/ Finish PROVE PreimageInv'
  BY <1>13 DEF Admit, Finish
<1>14. ASSUME UNCHANGED vars PROVE PreimageInv'
  BY <1>14 DEF vars
<1> QED
  BY <1>1, <1>2, <1>3, <1>4, <1>5, <1>6, <1>7, <1>8, <1>9, <1>10, <1>11, <1>12,
     <1>13, <1>14 DEF Next, Step, AdapterCall

\* A rollback the journal records brought back the policy the transaction
\* named as its preimage.
THEOREM RollbackRestores == Spec => []RollbackRestoresPreimage
<1>1. Init => PreimageInv
  BY DEF Init, PreimageInv, BeforeApply, RollbackRestoresPreimage
<1>2. PreimageInv => RollbackRestoresPreimage
  BY DEF PreimageInv
<1> QED
  BY <1>1, <1>2, NextPreimageInv, InductiveInvariant, PTL DEF Spec

=============================================================================
