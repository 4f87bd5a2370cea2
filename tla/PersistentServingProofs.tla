------------------------ MODULE PersistentServingProofs ------------------------
(***************************************************************************)
(* Proofs about PersistentServing for every set of callers, every size of  *)
(* a batch and every bound on calls, timeouts, crashes and restarts.       *)
(***************************************************************************)
EXTENDS PersistentServing, FiniteSetTheorems, TLAPS

-----------------------------------------------------------------------------
(* The types.                                                              *)

Acks == [txn : Ids \union {None}, status : {"STARTUP_STATE", "APPLIED", "FAILED", "STALE_COMMAND"},
         epoch : Nat, policy : Policies]

Workers == [alive : BOOLEAN, run : 0 .. MaxRestarts, pc : {"idle", "claim", "serve"},
            epoch : Nat, policy : Policies, job : Ids \union {None}, left : 0 .. Parts,
            cmd : Command \union {None}, used : SUBSET Policies]

Stages == {"idle", "look", "lock", "read", "check", "write", "submit", "wait", "verify", "done"}

Calls == [kind : {"direct", "policy", "adaptive"}, pc : Stages, target : Policies,
          cmd : Ids \union {None}, req : Ids \union {None}, before : Acks, got : SUBSET Policies]

Counts == [calls : 0 .. MaxCalls, timeouts : 0 .. MaxTimeouts, crashes : 0 .. MaxCrashes,
           restarts : 0 .. MaxRestarts]

Types ==
    /\ request \in Ids \union {None} /\ processing \in Ids \union {None}
    /\ shutdown \in BOOLEAN
    /\ txn \in Command \union {None}
    /\ ack \in Acks
    /\ result \in [Ids -> (SUBSET Policies) \union {None}]
    /\ w \in Workers
    /\ lock \in Callers \union {None}
    /\ call \in [Callers -> Calls]
    /\ ids \in Nat
    /\ count \in Counts
    /\ served \in SUBSET Ids

\* Which stages a kind of call passes, and where it can have written a command.
StagesOf(c) ==
    /\ call[c].kind = "direct"
          => call[c].cmd = None /\ call[c].pc \in {"idle", "lock", "submit", "wait", "done"}
    /\ call[c].kind = "policy"
          => /\ call[c].pc # "look"
             /\ call[c].pc \in {"lock", "read", "check", "write"} => call[c].cmd = None
    /\ call[c].kind = "adaptive"
          => /\ call[c].pc # "read"
             /\ call[c].pc \in {"look", "check", "write"} => call[c].cmd = None
    /\ call[c].pc \in {"wait", "verify"} => call[c].req # None

\* The holder of the admission lock is inside it.
LockHeld ==
    lock # None =>
        call[lock].pc \in {"submit", "wait"} \union
            (IF call[lock].kind = "policy" THEN {"read", "check", "write", "verify"} ELSE {})

-----------------------------------------------------------------------------
(* Identifiers.                                                            *)

\* How many identifiers the call may still draw: one for each command and each
\* batch, and an adaptive call may make two passes.
Need(c) ==
    LET pc == call[c].pc IN
    CASE call[c].kind = "direct"
           -> IF pc \in {"lock", "submit"} THEN 1 ELSE 0
      [] call[c].kind = "policy"
           -> IF pc \in {"lock", "read", "check", "write"} THEN 2 ELSE IF pc = "submit" THEN 1 ELSE 0
      [] call[c].kind = "adaptive"
           -> IF pc \in Over THEN 0
              ELSE (IF call[c].target = Low THEN 2 ELSE 0)
                   + (IF pc \in {"look", "check", "write"} THEN 2
                      ELSE IF pc \in {"lock", "submit"} THEN 1 ELSE 0)

Owing == {p \in Callers \X (1 .. 4) : p[2] <= Need(p[1])}

\* They suffice: what was drawn and what may be drawn is at most four for each
\* call made.
Drawn == IsFiniteSet(Owing) /\ ids + Cardinality(Owing) <= 4 * count.calls

\* Nothing in the system names an identifier that was not drawn.
NoneFromTheFuture ==
    /\ {request, processing, ack.txn, w.job} \subseteq 1 .. ids \union {None}
    /\ txn # None => txn.id \in 1 .. ids
    /\ w.cmd # None => w.cmd.id \in 1 .. ids
    /\ served \subseteq 1 .. ids
    /\ \A i \in Ids : result[i] # None => i <= ids
    /\ \A c \in Callers : {call[c].cmd, call[c].req} \subseteq 1 .. ids \union {None}

-----------------------------------------------------------------------------
(* The worker and its files.                                               *)

WorkerInv ==
    /\ ack.epoch = w.epoch /\ ack.policy = w.policy
    /\ w.run = count.restarts
    /\ w.pc = "serve" <=> w.job # None
    /\ w.pc = "serve" /\ w.left < Parts => w.used # {}
    /\ w.cmd # None => w.pc = "serve" /\ Unanswered

\* A batch is in one place, and is begun when it leaves the files.
BatchInv ==
    /\ request = None \/ processing = None
    /\ w.pc = "claim" <=> processing # None
    /\ {request, processing} \intersect served = {}

\* The commands there are were written for the worker there is.
OwnCommands ==
    /\ txn # None => txn.run = w.run
    /\ w.cmd # None => w.cmd.run = w.run

-----------------------------------------------------------------------------
(* The calls.                                                              *)

\* The command of the call may still be applied, or has been applied last.
Pending(c) ==
    \/ txn # None /\ txn.id = call[c].cmd /\ ack.txn # call[c].cmd
    \/ w.cmd # None /\ w.cmd.id = call[c].cmd
Applied(c) == ack.txn = call[c].cmd /\ ack.status = "APPLIED"

\* What has been computed of the call's batch so far is within S.
ComputedIn(c, S) ==
    /\ call[c].pc = "wait" =>
          /\ w.job = call[c].req => w.used \subseteq S
          /\ result[call[c].req] # None => result[call[c].req] = S
    /\ call[c].pc = "verify" => call[c].got = S

\* A call that wrote a command: it asks for the call's target, nothing of the
\* batch is computed while it is pending, and what is computed after it was
\* applied is computed under the target, as long as it is the last.
Commanded(c) ==
    call[c].cmd # None /\ call[c].pc \in {"lock", "submit", "wait", "verify"} =>
        /\ txn # None /\ txn.id = call[c].cmd => txn.to = call[c].target
        /\ w.cmd # None /\ w.cmd.id = call[c].cmd => w.cmd.to = call[c].target
        /\ Pending(c) =>
              /\ call[c].pc # "verify"
              /\ call[c].pc = "wait" =>
                    /\ w.job = call[c].req => w.used = {}
                    /\ result[call[c].req] = None
        /\ Applied(c) => w.policy = call[c].target /\ ComputedIn(c, {call[c].target})

\* A policy admission that found its policy in force: as long as the epoch
\* stays, so does the policy.
Unchanged(c) ==
    call[c].kind = "policy" /\ call[c].cmd = None /\ call[c].pc \in {"submit", "wait", "verify"} =>
        /\ call[c].before.epoch <= w.epoch
        /\ call[c].before.epoch = w.epoch =>
              w.policy = call[c].target /\ ComputedIn(c, {call[c].target})

CallInv(c) ==
    /\ StagesOf(c) /\ Commanded(c) /\ Unchanged(c)
    /\ call[c].pc = "done" /\ (call[c].kind = "policy" \/ call[c].cmd # None)
          => call[c].got = {call[c].target}

CallsInv == \A c \in Callers : CallInv(c)

IInv ==
    /\ Types /\ LockHeld /\ Drawn /\ NoneFromTheFuture
    /\ WorkerInv /\ BatchInv /\ OwnCommands /\ CallsInv

-----------------------------------------------------------------------------
LEMMA Bounds ==
    /\ Parts \in Nat /\ Parts # 0 /\ MaxCalls \in Nat /\ MaxTimeouts \in Nat
    /\ MaxCrashes \in Nat /\ MaxRestarts \in Nat
  BY BoundAssumption, BatchAssumption

-----------------------------------------------------------------------------
(* The start.                                                              *)

LEMMA InitIInv == Init => IInv
<1> SUFFICES ASSUME Init PROVE IInv
  OBVIOUS
<1> USE BoundAssumption, BatchAssumption, PolicyAssumption, NoneAssumption
<1>1. Types
  <2>1. StartupAck \in Acks
    BY DEF StartupAck, Acks, Policies
  <2>2. NoCall \in Calls
    BY <2>1 DEF NoCall, Calls, Policies, Stages
  <2>3. Spawned(0) \in Workers
    BY DEF Spawned, Workers, Policies
  <2>4. count \in Counts
    BY DEF Init, Counts
  <2> QED
    BY <2>1, <2>2, <2>3, <2>4 DEF Init, Types
<1>2. LockHeld
  BY DEF Init, LockHeld
<1>3. Drawn
  <2>1. Owing = {}
    BY DEF Init, Owing, Need, NoCall
  <2> QED
    BY <2>1, FS_EmptySet DEF Init, Drawn
<1>4. NoneFromTheFuture
  BY DEF Init, NoneFromTheFuture, Spawned, StartupAck, NoCall, Ids
<1>5. WorkerInv
  BY DEF Init, WorkerInv, Spawned, StartupAck, Ids
<1>6. BatchInv
  BY DEF Init, BatchInv, Spawned
<1>7. OwnCommands
  BY DEF Init, OwnCommands, Spawned
<1>8. CallsInv
  BY DEF Init, CallsInv, CallInv, StagesOf, Commanded, Unchanged, NoCall
<1> QED
  BY <1>1, <1>2, <1>3, <1>4, <1>5, <1>6, <1>7, <1>8 DEF IInv

-----------------------------------------------------------------------------
(* Identifiers are enough: the lemmas about what a call owes.              *)

LEMMA NeedBounds ==
    ASSUME Types, NEW c \in Callers
    PROVE  Need(c) \in 0 .. 4
<1>1. call[c] \in Calls
  BY DEF Types
<1> QED
  BY <1>1 DEF Need, Calls

\* When no call owes more than before, nothing is to be shown.
LEMMA OweNoMore ==
    ASSUME Drawn, Owing' \subseteq Owing, ids' = ids, count'.calls = count.calls,
           ids \in Nat, count.calls \in Nat
    PROVE  Drawn'
<1>1. IsFiniteSet(Owing') /\ Cardinality(Owing') <= Cardinality(Owing)
  BY FS_Subset DEF Drawn
<1>2. Cardinality(Owing) \in Nat /\ Cardinality(Owing') \in Nat
  BY <1>1, FS_CardinalityType DEF Drawn
<1> QED
  BY <1>1, <1>2 DEF Drawn

\* A call that draws an identifier owes one less.
LEMMA OweOneLess ==
    ASSUME Drawn, NEW p \in Owing, Owing' \subseteq Owing \ {p}, ids' = ids + 1,
           count'.calls = count.calls, ids \in Nat, count.calls \in Nat
    PROVE  Drawn'
<1>1. IsFiniteSet(Owing \ {p}) /\ Cardinality(Owing \ {p}) = Cardinality(Owing) - 1
  BY FS_RemoveElement DEF Drawn
<1>2. IsFiniteSet(Owing') /\ Cardinality(Owing') <= Cardinality(Owing \ {p})
  BY <1>1, FS_Subset
<1>3. Cardinality(Owing) \in Nat /\ Cardinality(Owing') \in Nat
  BY <1>2, FS_CardinalityType DEF Drawn
<1> QED
  BY <1>1, <1>2, <1>3 DEF Drawn

LEMMA OneMore ==
    ASSUME NEW S, IsFiniteSet(S), NEW n \in Nat, Cardinality(S) <= n, NEW x
    PROVE  IsFiniteSet(S \union {x}) /\ Cardinality(S \union {x}) <= n + 1
<1>1. Cardinality(S) \in Nat
  BY FS_CardinalityType
<1>2. IsFiniteSet(S \union {x})
  BY FS_AddElement
<1>3. Cardinality(S \union {x}) = Cardinality(S) \/ Cardinality(S \union {x}) = Cardinality(S) + 1
  BY FS_AddElement
<1> QED
  BY <1>1, <1>2, <1>3

LEMMA FourAtMost ==
    ASSUME NEW x, NEW y, NEW z, NEW u
    PROVE  IsFiniteSet({x, y, z, u}) /\ Cardinality({x, y, z, u}) <= 4
<1> DEFINE A == {x}  B == A \union {y}  C == B \union {z}  D == C \union {u}
<1>1. IsFiniteSet(A) /\ Cardinality(A) <= 1
  BY FS_Singleton
<1> HIDE DEF A
<1>2. IsFiniteSet(B) /\ Cardinality(B) <= 2
  BY <1>1, OneMore, 1 + 1 = 2
<1> HIDE DEF B
<1>3. IsFiniteSet(C) /\ Cardinality(C) <= 3
  BY <1>2, OneMore, 2 + 1 = 3
<1> HIDE DEF C
<1>4. IsFiniteSet(D) /\ Cardinality(D) <= 4
  BY <1>3, OneMore, 3 + 1 = 4
<1>5. D = {x, y, z, u}
  BY DEF A, B, C
<1> HIDE DEF D
<1> QED
  BY <1>4, <1>5

\* A call that begins owes at most four.
LEMMA OweFour ==
    ASSUME Drawn, NEW c, Owing' \subseteq Owing \union ({c} \X (1 .. 4)), ids' = ids,
           count'.calls = count.calls + 1, ids \in Nat, count.calls \in Nat
    PROVE  Drawn'
<1> DEFINE F == {<<c, 1>>, <<c, 2>>, <<c, 3>>, <<c, 4>>}
<1>1. IsFiniteSet(F) /\ Cardinality(F) <= 4
  BY FourAtMost
<1>2. {c} \X (1 .. 4) = F
  OBVIOUS
<1> HIDE DEF F
<1>3. IsFiniteSet(Owing \union F) /\ Cardinality(Owing \union F) <= Cardinality(Owing) + 4
  <2>1. /\ IsFiniteSet(Owing \union F) /\ IsFiniteSet(Owing \intersect F)
        /\ Cardinality(Owing \union F) = Cardinality(Owing) + Cardinality(F) - Cardinality(Owing \intersect F)
    BY <1>1, FS_Union, FS_Intersection DEF Drawn
  <2>2. Cardinality(Owing) \in Nat /\ Cardinality(F) \in Nat /\ Cardinality(Owing \intersect F) \in Nat
    BY <1>1, <2>1, FS_CardinalityType DEF Drawn
  <2> QED
    BY <1>1, <2>1, <2>2
<1>4. IsFiniteSet(Owing') /\ Cardinality(Owing') <= Cardinality(Owing \union F)
  BY <1>2, <1>3, FS_Subset
<1>5. /\ Cardinality(Owing) \in Nat /\ Cardinality(Owing') \in Nat
      /\ Cardinality(Owing \union F) \in Nat
  BY <1>3, <1>4, FS_CardinalityType DEF Drawn
<1> QED
  BY <1>3, <1>4, <1>5 DEF Drawn

\* Who still owes one may draw it: the identifier is in range.
LEMMA MayDraw ==
    ASSUME Types, Drawn, NEW c \in Callers, Need(c) >= 1
    PROVE  ids + 1 \in Ids
<1>1. <<c, 1>> \in Owing
  BY DEF Owing
<1>2. Cardinality(Owing) \in Nat /\ Cardinality(Owing) # 0
  BY <1>1, FS_CardinalityType, FS_EmptySet DEF Drawn
<1>3. count.calls \in 0 .. MaxCalls /\ MaxCalls \in Nat /\ ids \in Nat
  BY BoundAssumption DEF Types, Counts
<1>4. 4 * count.calls <= 4 * MaxCalls
  BY <1>3
<1> QED
  BY <1>2, <1>3, <1>4 DEF Drawn, Ids

-----------------------------------------------------------------------------
(* What three of the steps do, said once.                                  *)

\* A command is written under a new identifier.
LEMMA Written ==
    ASSUME IInv, NEW c \in Callers, WriteTxn(c)
    PROVE  /\ txn' \in Command /\ txn' # None /\ txn'.id = ids + 1 /\ txn'.to = call[c].target
           /\ txn'.run = w.run /\ ids + 1 \in Ids /\ ids' = ids + 1
<1>1. call[c] \in Calls /\ w \in Workers /\ ids \in Nat
  BY DEF IInv, Types
<1>2. Need(c) >= 1
  BY <1>1 DEF WriteTxn, Need, Calls, Over, IInv, CallsInv, CallInv, StagesOf
<1>3. ids + 1 \in Ids
  BY <1>2, MayDraw DEF IInv
<1>4. txn' \in Command
  BY <1>1, <1>3 DEF WriteTxn, Command, Calls, Acks, Workers
<1> QED
  BY <1>3, <1>4, NoneAssumption DEF WriteTxn

\* So is a batch.
LEMMA Published ==
    ASSUME IInv, NEW c \in Callers, Submit(c)
    PROVE  ids + 1 \in Ids
<1>1. call[c] \in Calls
  BY DEF IInv, Types
<1>2. Need(c) >= 1
  BY <1>1 DEF Submit, Need, Calls, Over
<1> QED
  BY <1>2, MayDraw DEF IInv

\* A command that is applied or fails is answered, and only then forgotten.
LEMMA Applying ==
    ASSUME IInv, ApplyTxn
    PROVE  /\ w.cmd \in Command /\ w.cmd # None /\ w.pc = "serve"
           /\ w'.cmd = None /\ w'.pc = w.pc /\ w'.job = w.job /\ w'.run = w.run
           /\ w'.left = w.left /\ w'.used = w.used
           /\ ack' \in Acks /\ w' \in Workers
           /\ ack'.txn = w.cmd.id /\ ack'.epoch = w'.epoch /\ ack'.policy = w'.policy
           /\ \/ w'.policy = w.cmd.to /\ w'.epoch = w.epoch + 1
              \/ w'.policy = w.policy /\ w'.epoch = w.epoch /\ ack'.status = "FAILED"
<1>1. w \in Workers /\ w.cmd # None /\ w.pc = "serve"
  BY DEF ApplyTxn, IInv, Types, WorkerInv
<1>2. w.cmd \in Command /\ w.cmd.to \in Policies /\ w.cmd.id \in Ids /\ w.epoch + 1 \in Nat
  BY <1>1 DEF Workers, Command
<1>3. CASE w' = [w EXCEPT !.policy = w.cmd.to, !.epoch = @ + 1, !.cmd = None]
           /\ Answer(w.cmd, "APPLIED")
  <2>1. w' \in Workers
    BY <1>1, <1>2, <1>3 DEF Workers
  <2> QED
    BY <1>1, <1>2, <1>3, <2>1 DEF Workers, Answer, Acks
<1>4. CASE w' = [w EXCEPT !.cmd = None] /\ Answer(w.cmd, "FAILED")
  <2>1. w' \in Workers
    BY <1>1, <1>2, <1>4 DEF Workers
  <2> QED
    BY <1>1, <1>2, <1>4, <2>1 DEF Workers, Answer, Acks
<1> QED
  BY <1>3, <1>4 DEF ApplyTxn

-----------------------------------------------------------------------------
(* Every step keeps the types.                                             *)

\* An identifier that is drawn is in range, since the call still owes it.
LEMMA TypesStep == IInv /\ [Next]_vars => Types'
<1> SUFFICES ASSUME IInv, [Next]_vars PROVE Types'
  OBVIOUS
<1> USE NoneAssumption
<1> USE DEF IInv, Types
<1>1. ASSUME Claim PROVE Types'
  BY <1>1 DEF Claim, Idle, Workers
<1>2. ASSUME ReadRequest PROVE Types'
  <2>1. w \in Workers /\ processing \in Ids
    BY <1>2 DEF ReadRequest, BatchInv
  <2>2. w' \in Workers
    <3>1. Parts \in 0 .. Parts /\ {} \in SUBSET Policies
      BY Bounds
    <3> HIDE DEF Types, IInv
    <3> QED
      BY <1>2, <2>1, <3>1 DEF ReadRequest, Workers
  <2> QED
    BY <1>2, <2>1, <2>2 DEF ReadRequest
<1>3. ASSUME ExitIdle PROVE Types'
  BY <1>3 DEF ExitIdle, files, Workers
<1>4. ASSUME AcceptTxn PROVE Types'
  <2>1. w \in Workers /\ txn \in Command
    BY <1>4 DEF AcceptTxn, Unanswered
  <2>2. w' \in Workers
    BY <1>4, <2>1 DEF AcceptTxn, Workers
  <2> QED
    BY <1>4, <2>2 DEF AcceptTxn, files
<1>5. ASSUME RejectTxn PROVE Types'
  <2>1. w \in Workers /\ txn.id \in Ids
    BY <1>5 DEF RejectTxn, Command, Unanswered
  <2>2. ack' \in Acks
    BY <1>5, <2>1 DEF RejectTxn, Answer, Acks, Workers
  <2> QED
    BY <1>5, <2>2 DEF RejectTxn
<1>6. ASSUME ApplyTxn PROVE Types'
  BY <1>6, Applying DEF ApplyTxn
<1>7. ASSUME ServePart PROVE Types'
  <2>1. w \in Workers /\ w.left - 1 \in 0 .. Parts
    BY <1>7, Bounds DEF ServePart, Workers
  <2>2. w' \in Workers
    BY <1>7, <2>1 DEF ServePart, Workers
  <2> QED
    BY <1>7, <2>2 DEF ServePart, files
<1>8. ASSUME WriteResult PROVE Types'
  <2>1. w \in Workers /\ w.job \in Ids
    BY <1>8 DEF WriteResult, Workers, WorkerInv, Serving
  <2>2. w' \in Workers
    BY <1>8, <2>1 DEF WriteResult, Workers
  <2>3. result' \in [Ids -> (SUBSET Policies) \union {None}]
    BY <1>8, <2>1 DEF WriteResult, Workers
  <2> QED
    BY <1>8, <2>2, <2>3 DEF WriteResult
<1>9. ASSUME Crash PROVE Types'
  <2>1. count \in Counts /\ w \in Workers
    OBVIOUS
  <2>2. count' \in Counts
    <3>1. ~shutdown => count.crashes + 1 \in 0 .. MaxCrashes
      BY <1>9, <2>1, Bounds DEF Crash, Counts
    <3> QED
      BY <1>9, <2>1, <3>1 DEF Crash, Counts
  <2>3. w' \in Workers
    BY <1>9, <2>1 DEF Crash, Workers
  <2> QED
    BY <1>9, <2>2, <2>3 DEF Crash, files
<1>10. ASSUME Stop PROVE Types'
  BY <1>10 DEF Stop
<1>11. ASSUME Restart PROVE Types'
  <2>1. StartupAck \in Acks
    BY DEF StartupAck, Acks, Policies
  <2>2. NoCall \in Calls
    BY <2>1 DEF NoCall, Calls, Stages, Policies
  <2>3. count \in Counts /\ w.run = count.restarts /\ count.restarts + 1 \in 0 .. MaxRestarts
    BY <1>11, Bounds DEF Restart, WorkerInv, Counts
  <2>4. count' \in Counts
    BY <1>11, <2>3 DEF Restart, Counts
  <2>5. Spawned(w.run + 1) \in Workers
    BY <2>3, Bounds DEF Spawned, Workers, Policies
  <2> QED
    BY <1>11, <2>1, <2>2, <2>4, <2>5 DEF Restart, PrepareFiles
<1>12. ASSUME NEW c \in Callers, Acquire(c) PROVE Types'
  BY <1>12 DEF Acquire, files, Calls, Stages
<1>13. ASSUME NEW c \in Callers, ReadAck(c) PROVE Types'
  BY <1>13 DEF ReadAck, files, At, Calls, Stages
<1>14. ASSUME NEW c \in Callers, LookAtWidth(c) PROVE Types'
  BY <1>14 DEF LookAtWidth, files, At, Calls, Stages
<1>15. ASSUME NEW c \in Callers, Check(c) PROVE Types'
  <2>1. call[c] \in Calls
    OBVIOUS
  <2>2. call' \in [Callers -> Calls]
    BY <1>15, <2>1 DEF Check, Fail, Calls, Stages
  <2> QED
    BY <1>15, <2>2 DEF Check, Fail, Release, files
<1>16. ASSUME NEW c \in Callers, WriteTxn(c) PROVE Types'
  <2>1. call[c] \in Calls /\ ids' \in Ids /\ ids' \in Nat /\ txn' \in Command
    <3>1. txn' \in Command /\ ids + 1 \in Ids /\ ids' = ids + 1
      BY <1>16, Written
    <3> QED
      BY <3>1
  <2>2. call' \in [Callers -> Calls]
    BY <1>16, <2>1 DEF WriteTxn, Calls, Stages
  <2> QED
    BY <1>16, <2>1, <2>2 DEF WriteTxn
<1>17. ASSUME NEW c \in Callers, Submit(c) PROVE Types'
  <2>1. call[c] \in Calls /\ ids + 1 \in Ids
    BY <1>17, Published
  <2>2. call' \in [Callers -> Calls]
    BY <1>17, <2>1 DEF Submit, Fail, Calls, Stages
  <2> QED
    BY <1>17, <2>1, <2>2 DEF Submit, Fail, Release
<1>18. ASSUME NEW c \in Callers, WorkerGone(c) PROVE Types'
  BY <1>18 DEF WorkerGone, files, Fail, Release, Calls, Stages
<1>19. ASSUME NEW c \in Callers, Receive(c) PROVE Types'
  <2>1. call[c] \in Calls /\ result[call[c].req] \in SUBSET Policies
    BY <1>19 DEF Receive, Calls, CallsInv, CallInv, StagesOf
  <2>2. call' \in [Callers -> Calls]
    BY <1>19, <2>1 DEF Receive, Calls, Stages
  <2> QED
    BY <1>19, <2>2 DEF Receive, Release, files
<1>20. ASSUME NEW c \in Callers, VerifyPolicy(c) PROVE Types'
  <2>1. call[c] \in Calls
    OBVIOUS
  <2>2. call' \in [Callers -> Calls]
    BY <1>20, <2>1 DEF VerifyPolicy, Fail, Calls, Stages
  <2> QED
    BY <1>20, <2>2 DEF VerifyPolicy, Fail, Release, files
<1>21. ASSUME NEW c \in Callers, VerifyPass(c) PROVE Types'
  <2>1. call[c] \in Calls
    OBVIOUS
  <2>2. call' \in [Callers -> Calls]
    BY <1>21, <2>1 DEF VerifyPass, Fail, Calls, Stages, Policies
  <2> QED
    BY <1>21, <2>2 DEF VerifyPass, Fail, Release, files
<1>22. ASSUME NEW c \in Callers, Timeout(c) PROVE Types'
  <2>1. call[c] \in Calls /\ count \in Counts /\ count.timeouts + 1 \in 0 .. MaxTimeouts
    BY <1>22, Bounds DEF Timeout, Counts
  <2>2. count' \in Counts
    BY <1>22, <2>1 DEF Timeout, Counts
  <2>3. call' \in [Callers -> Calls]
    BY <1>22, <2>1 DEF Timeout, Fail, Calls, Stages
  <2> QED
    BY <1>22, <2>2, <2>3 DEF Timeout, Fail, Release, files
<1>23. ASSUME NEW c \in Callers, NEW kind \in Kinds, NEW target \in Policies,
             Begin(c, kind, target)
       PROVE  Types'
  <2>1. NoCall \in Calls /\ kind \in {"direct", "policy", "adaptive"}
    <3>1. StartupAck \in Acks
      BY DEF StartupAck, Acks, Policies
    <3> QED
      BY <3>1, KindsAssumption DEF NoCall, Calls, Stages, Policies
  <2>2. count \in Counts /\ count.calls + 1 \in 0 .. MaxCalls
    BY <1>23, Bounds DEF Begin, Counts
  <2>3. count' \in Counts
    BY <1>23, <2>2 DEF Begin, Counts
  <2>4. call' \in [Callers -> Calls]
    BY <1>23, <2>1 DEF Begin, Calls, Stages
  <2> QED
    BY <1>23, <2>3, <2>4 DEF Begin, files
<1>24. CASE UNCHANGED vars
  BY <1>24 DEF vars, files
<1> QED
  BY <1>1, <1>2, <1>3, <1>4, <1>5, <1>6, <1>7, <1>8, <1>9, <1>10, <1>11, <1>12, <1>13, <1>14,
     <1>15, <1>16, <1>17, <1>18, <1>19, <1>20, <1>21, <1>22, <1>23, <1>24 DEF Next, Worker, Step

-----------------------------------------------------------------------------
(* Every step keeps the count of identifiers.                              *)

LEMMA StillEnough ==
    ASSUME IInv, Types', \A d \in Callers : Need(d)' <= Need(d), ids' = ids, count'.calls = count.calls
    PROVE  Drawn'
<1>1. \A d \in Callers : Need(d) \in 0 .. 4 /\ Need(d)' \in 0 .. 4
  <2>1. \A d \in Callers : Need(d) \in 0 .. 4
    BY NeedBounds DEF IInv
  <2>2. \A d \in Callers : call'[d] \in Calls
    BY DEF Types
  <2>3. \A d \in Callers : Need(d)' \in 0 .. 4
    BY <2>2 DEF Need, Calls
  <2> QED
    BY <2>1, <2>3
<1>2. Owing' \subseteq Owing
  BY <1>1 DEF Owing
<1>3. ids \in Nat /\ count.calls \in Nat
  BY Bounds DEF IInv, Types, Counts
<1> QED
  BY <1>2, <1>3, OweNoMore DEF IInv

LEMMA OneIsDrawn ==
    ASSUME IInv, Types', NEW c \in Callers, Need(c) >= 1, Need(c)' <= Need(c) - 1,
           \A d \in Callers \ {c} : Need(d)' = Need(d), ids' = ids + 1, count'.calls = count.calls
    PROVE  Drawn'
<1>1. \A d \in Callers : Need(d) \in 0 .. 4
  BY NeedBounds DEF IInv
<1>2. Need(c)' \in Int
  <2>1. call'[c] \in Calls
    BY DEF Types
  <2> QED
    BY <2>1 DEF Need, Calls
<1>3. <<c, Need(c)>> \in Owing
  BY <1>1 DEF Owing
<1>4. Owing' \subseteq Owing \ {<<c, Need(c)>>}
  <2> SUFFICES ASSUME NEW d \in Callers, NEW k \in 1 .. 4, k <= Need(d)'
               PROVE  k <= Need(d) /\ <<d, k>> # <<c, Need(c)>>
    BY DEF Owing
  <2> QED
    BY <1>1, <1>2
<1>5. ids \in Nat /\ count.calls \in Nat
  BY Bounds DEF IInv, Types, Counts
<1> QED
  BY <1>3, <1>4, <1>5, OweOneLess DEF IInv

\* A call that is left in its stage, or fails, or goes on as below, owes no more;
\* the two stages that draw take away what they draw.
LEMMA DrawnStep == IInv /\ [Next]_vars => Drawn'
<1> SUFFICES ASSUME IInv, [Next]_vars PROVE Drawn'
  OBVIOUS
<1>1. Types' /\ \A d \in Callers : call[d] \in Calls
  BY TypesStep DEF IInv, Types
<1>2. ASSUME Worker \/ Crash \/ Stop \/ UNCHANGED vars PROVE Drawn'
  <2>1. call' = call /\ ids' = ids /\ count'.calls = count.calls
    <3>1. ASSUME Crash PROVE call' = call /\ ids' = ids /\ count'.calls = count.calls
      <4>1. count \in Counts
        BY DEF IInv, Types
      <4> QED
        BY <3>1, <4>1 DEF Crash, Counts
    <3> QED
      BY <1>2, <3>1 DEF Worker, Claim, ReadRequest, ExitIdle, AcceptTxn, RejectTxn, ApplyTxn,
         ServePart,
            WriteResult, Stop, vars
  <2>2. \A d \in Callers : Need(d)' <= Need(d)
    <3>1. \A d \in Callers : Need(d)' = Need(d)
      BY <2>1 DEF Need
    <3> QED
      BY <3>1, NeedBounds DEF IInv
  <2> QED
    BY <1>1, <2>1, <2>2, StillEnough
<1>3. ASSUME Restart PROVE Drawn'
  <2>1. \A d \in Callers : Need(d)' <= Need(d)
    <3>1. \A d \in Callers : Need(d)' = 0
      BY <1>3 DEF Restart, Need, NoCall
    <3> QED
      BY <3>1, NeedBounds DEF IInv
  <2>2. count'.calls = count.calls
    <3>1. count \in Counts
      BY DEF IInv, Types
    <3> QED
      BY <1>3, <3>1 DEF Restart, Counts
  <2> QED
    BY <1>1, <1>3, <2>1, <2>2, StillEnough DEF Restart
<1>4. ASSUME NEW c \in Callers,
             Acquire(c) \/ ReadAck(c) \/ LookAtWidth(c) \/ Check(c) \/ WorkerGone(c) \/ Receive(c)
               \/ VerifyPolicy(c) \/ VerifyPass(c) \/ Timeout(c)
      PROVE  Drawn'
  <2>1. ids' = ids /\ count'.calls = count.calls
    <3>1. count \in Counts
      BY DEF IInv, Types
    <3> QED
      BY <1>4, <3>1 DEF Acquire, ReadAck, LookAtWidth, Check, WorkerGone, Receive, VerifyPolicy,
         VerifyPass,
           Timeout, Counts
  <2>2. \A d \in Callers \ {c} : call'[d] = call[d]
    BY <1>4 DEF Acquire, ReadAck, LookAtWidth, Check, WorkerGone, Receive, VerifyPolicy, VerifyPass,
         Timeout, Fail, IInv, Types
  <2>3. Need(c)' <= Need(c)
    <3> USE <1>1 DEF IInv, Types, Calls, Need, Over, Fail
    <3>1. ASSUME Acquire(c) PROVE Need(c)' <= Need(c)
      BY <3>1 DEF Acquire
    <3>2. ASSUME ReadAck(c) \/ LookAtWidth(c) PROVE Need(c)' <= Need(c)
      BY <3>2 DEF ReadAck, LookAtWidth, At
    <3>3. ASSUME Check(c) PROVE Need(c)' <= Need(c)
      BY <3>3 DEF Check
    <3>4. ASSUME WorkerGone(c) \/ Timeout(c) PROVE Need(c)' <= Need(c)
      BY <3>4 DEF WorkerGone, Timeout
    <3>5. ASSUME Receive(c) PROVE Need(c)' <= Need(c)
      BY <3>5 DEF Receive
    <3>6. ASSUME VerifyPolicy(c) PROVE Need(c)' <= Need(c)
      BY <3>6 DEF VerifyPolicy, At
    <3>7. ASSUME VerifyPass(c) PROVE Need(c)' <= Need(c)
      BY <3>7, PolicyAssumption DEF VerifyPass, At
    <3> QED
      BY <1>4, <3>1, <3>2, <3>3, <3>4, <3>5, <3>6, <3>7
  <2>4. \A d \in Callers : Need(d)' <= Need(d)
    <3>1. \A d \in Callers \ {c} : Need(d)' = Need(d)
      BY <2>2 DEF Need
    <3> QED
      BY <2>3, <3>1, NeedBounds DEF IInv
  <2> QED
    BY <1>1, <2>1, <2>4, StillEnough
<1>5. ASSUME NEW c \in Callers, WriteTxn(c) \/ Submit(c) PROVE Drawn'
  <2>1. count'.calls = count.calls /\ \A d \in Callers \ {c} : Need(d)' = Need(d)
    BY <1>5 DEF WriteTxn, Submit, Need, Fail, IInv, Types
  <2>2. CASE ids' = ids + 1
    <3> USE <1>1 DEF IInv, Types, Calls, Need, Over
    <3>1. ASSUME WriteTxn(c) PROVE Need(c) >= 1 /\ Need(c)' <= Need(c) - 1
      BY <3>1 DEF WriteTxn, CallsInv, CallInv, StagesOf
    <3>2. ASSUME Submit(c) PROVE Need(c) >= 1 /\ Need(c)' <= Need(c) - 1
      BY <2>2, <3>2 DEF Submit
    <3> QED
      BY ONLY <1>1, <1>5, <2>1, <2>2, <3>1, <3>2, IInv, OneIsDrawn
  <2>3. CASE ids' # ids + 1
    <3>1. Submit(c) /\ ids' = ids /\ Fail(c)
      BY <1>5, <2>3 DEF WriteTxn, Submit
    <3>2. Need(c)' <= Need(c)
      BY <1>1, <3>1 DEF Fail, Submit, IInv, Types, Calls, Need, Over
    <3>3. \A d \in Callers : Need(d) \in 0 .. 4
      BY NeedBounds DEF IInv
    <3>4. \A d \in Callers : Need(d)' <= Need(d)
      BY <2>1, <3>2, <3>3
    <3> QED
      BY <1>1, <2>1, <3>1, <3>4, StillEnough
  <2> QED
    BY <2>2, <2>3
<1>6. ASSUME NEW c \in Callers, NEW kind \in Kinds, NEW target \in Policies, Begin(c, kind, target)
      PROVE  Drawn'
  <2>1. \A d \in Callers \ {c} : Need(d)' = Need(d)
    BY <1>6 DEF Begin, Need, IInv, Types
  <2>2. Owing' \subseteq Owing \union ({c} \X (1 .. 4))
    BY <2>1 DEF Owing
  <2>3. count'.calls = count.calls + 1 /\ ids' = ids /\ ids \in Nat /\ count.calls \in Nat
    <3>1. count \in Counts
      BY DEF IInv, Types
    <3> QED
      BY <1>6, <3>1, Bounds DEF Begin, Counts, IInv, Types
  <2> QED
    BY <2>2, <2>3, OweFour DEF IInv
<1> QED
  BY <1>2, <1>3, <1>4, <1>5, <1>6 DEF Next, Step

-----------------------------------------------------------------------------
(* Every step keeps the invariants of the files, the worker and the lock.  *)

\* Only the holder leaves the stages of the lock, and it gives the lock back.
LEMMA LockHeldStep == IInv /\ [Next]_vars => LockHeld'
<1> SUFFICES ASSUME IInv, [Next]_vars PROVE LockHeld'
  OBVIOUS
<1> USE NoneAssumption
<1> USE DEF IInv, Types, LockHeld
<1>1. ASSUME Claim PROVE LockHeld'
  BY <1>1 DEF Claim, Idle
<1>2. ASSUME ReadRequest PROVE LockHeld'
  BY <1>2 DEF ReadRequest
<1>3. ASSUME ExitIdle PROVE LockHeld'
  BY <1>3 DEF ExitIdle, files
<1>4. ASSUME AcceptTxn PROVE LockHeld'
  BY <1>4 DEF AcceptTxn, files
<1>5. ASSUME RejectTxn PROVE LockHeld'
  BY <1>5 DEF RejectTxn, Answer
<1>6. ASSUME ApplyTxn PROVE LockHeld'
  BY <1>6 DEF ApplyTxn, Answer
<1>7. ASSUME ServePart PROVE LockHeld'
  BY <1>7 DEF ServePart, files
<1>8. ASSUME WriteResult PROVE LockHeld'
  BY <1>8 DEF WriteResult
<1>9. ASSUME Crash PROVE LockHeld'
  BY <1>9 DEF Crash, files
<1>10. ASSUME Stop PROVE LockHeld'
  BY <1>10 DEF Stop
<1>11. ASSUME Restart PROVE LockHeld'
  BY <1>11 DEF Restart, PrepareFiles
<1>12. ASSUME NEW c \in Callers, Acquire(c) PROVE LockHeld'
  BY <1>12 DEF Acquire, files
<1>13. ASSUME NEW c \in Callers, ReadAck(c) PROVE LockHeld'
  BY <1>13 DEF ReadAck, files, At
<1>14. ASSUME NEW c \in Callers, LookAtWidth(c) PROVE LockHeld'
  BY <1>14 DEF LookAtWidth, files, At
<1>15. ASSUME NEW c \in Callers, Check(c) PROVE LockHeld'
  BY <1>15 DEF Check, files, Fail, Release, Calls
<1>16. ASSUME NEW c \in Callers, WriteTxn(c) PROVE LockHeld'
  BY <1>16 DEF WriteTxn
<1>17. ASSUME NEW c \in Callers, Submit(c) PROVE LockHeld'
  BY <1>17 DEF Submit, Fail, Release, Calls
<1>18. ASSUME NEW c \in Callers, WorkerGone(c) PROVE LockHeld'
  BY <1>18 DEF WorkerGone, files, Fail, Release
<1>19. ASSUME NEW c \in Callers, Receive(c) PROVE LockHeld'
  BY <1>19 DEF Receive, files, Release
<1>20. ASSUME NEW c \in Callers, VerifyPolicy(c) PROVE LockHeld'
  BY <1>20 DEF VerifyPolicy, files, At, Fail, Release
<1>21. ASSUME NEW c \in Callers, VerifyPass(c) PROVE LockHeld'
  BY <1>21 DEF VerifyPass, files, At, Fail, Release
<1>22. ASSUME NEW c \in Callers, Timeout(c) PROVE LockHeld'
  BY <1>22 DEF Timeout, files, Fail, Release
<1>23. ASSUME NEW c \in Callers, NEW kind \in Kinds, NEW target \in Policies,
             Begin(c, kind, target)
       PROVE  LockHeld'
  BY <1>23 DEF Begin, files, Over, NoCall
<1>24. CASE UNCHANGED vars
  BY <1>24 DEF vars, files
<1> QED
  BY <1>1, <1>2, <1>3, <1>4, <1>5, <1>6, <1>7, <1>8, <1>9, <1>10, <1>11, <1>12, <1>13, <1>14,
     <1>15, <1>16, <1>17, <1>18, <1>19, <1>20, <1>21, <1>22, <1>23, <1>24 DEF Next, Worker, Step

\* What is named was drawn: names are copied, and the two that are new are drawn.
LEMMA NoneFromTheFutureStep == IInv /\ [Next]_vars => NoneFromTheFuture'
<1> SUFFICES ASSUME IInv, [Next]_vars PROVE NoneFromTheFuture'
  OBVIOUS
<1> USE NoneAssumption
<1> USE DEF IInv, Types, NoneFromTheFuture
<1>1. ASSUME Claim PROVE NoneFromTheFuture'
  BY <1>1 DEF Claim, Idle
<1>2. ASSUME ReadRequest PROVE NoneFromTheFuture'
  BY <1>2 DEF ReadRequest, Serving, Unanswered, BatchInv
<1>3. ASSUME ExitIdle PROVE NoneFromTheFuture'
  BY <1>3 DEF ExitIdle, files
<1>4. ASSUME AcceptTxn PROVE NoneFromTheFuture'
  BY <1>4 DEF AcceptTxn, files, Serving, Unanswered, BatchInv
<1>5. ASSUME RejectTxn PROVE NoneFromTheFuture'
  BY <1>5 DEF RejectTxn, Answer, Serving, Unanswered, BatchInv
<1>6. ASSUME ApplyTxn PROVE NoneFromTheFuture'
  <2>1. w.cmd # None /\ w'.cmd = None /\ w'.job = w.job /\ ack'.txn = w.cmd.id
    BY <1>6, Applying
  <2> QED
    BY <1>6, <2>1 DEF ApplyTxn
<1>7. ASSUME ServePart PROVE NoneFromTheFuture'
  BY <1>7 DEF ServePart, files
<1>8. ASSUME WriteResult PROVE NoneFromTheFuture'
  <2>1. w \in Workers /\ w.job \in Ids /\ w.job \in 1 .. ids
    BY <1>8 DEF WriteResult, Workers, WorkerInv, Serving
  <2>2. w'.job = None /\ w'.cmd = w.cmd
    BY <1>8, <2>1 DEF WriteResult, Workers
  <2> QED
    BY <1>8, <2>1, <2>2 DEF WriteResult, Ids
<1>9. ASSUME Crash PROVE NoneFromTheFuture'
  BY <1>9 DEF Crash, files
<1>10. ASSUME Stop PROVE NoneFromTheFuture'
  BY <1>10 DEF Stop
<1>11. ASSUME Restart PROVE NoneFromTheFuture'
  BY <1>11 DEF Restart, PrepareFiles, NoCall, Spawned, StartupAck
<1>12. ASSUME NEW c \in Callers, Acquire(c) PROVE NoneFromTheFuture'
  BY <1>12 DEF Acquire, files
<1>13. ASSUME NEW c \in Callers, ReadAck(c) PROVE NoneFromTheFuture'
  BY <1>13 DEF ReadAck, files, At
<1>14. ASSUME NEW c \in Callers, LookAtWidth(c) PROVE NoneFromTheFuture'
  BY <1>14 DEF LookAtWidth, files, At
<1>15. ASSUME NEW c \in Callers, Check(c) PROVE NoneFromTheFuture'
  <2>1. \A d \in Callers : {call'[d].cmd, call'[d].req} \subseteq 1 .. ids \union {None}
    BY <1>15 DEF Check, Fail, Calls
  <2> QED
    BY <1>15, <2>1 DEF Check, files
<1>16. ASSUME NEW c \in Callers, WriteTxn(c) PROVE NoneFromTheFuture'
  <2>1. ids' = ids + 1 /\ ids + 1 \in 1 .. ids' /\ \A i \in 1 .. ids : i \in 1 .. ids'
    BY <1>16 DEF WriteTxn
  <2>2. txn'.id = ids + 1
    BY <1>16 DEF WriteTxn
  <2>3. \A d \in Callers : {call'[d].cmd, call'[d].req} \subseteq 1 .. ids' \union {None}
    BY <1>16, <2>1 DEF WriteTxn, Calls
  <2>4. \A i \in Ids : result'[i] # None => i <= ids'
    BY <1>16, <2>1 DEF WriteTxn, Ids
  <2> QED
    BY <1>16, <2>1, <2>2, <2>3, <2>4 DEF WriteTxn
<1>17. ASSUME NEW c \in Callers, Submit(c) PROVE NoneFromTheFuture'
  <2>1. CASE Fail(c) /\ UNCHANGED <<request, ids>>
    <3>1. \A d \in Callers : {call'[d].cmd, call'[d].req} \subseteq 1 .. ids \union {None}
      BY <2>1 DEF Fail, Calls
    <3> QED
      BY <1>17, <2>1, <3>1 DEF Submit
  <2>2. CASE ids' = ids + 1
    <3>1. ids + 1 \in 1 .. ids' /\ \A i \in 1 .. ids : i \in 1 .. ids'
      BY <2>2
    <3>2. request' = ids + 1
      BY <1>17, <2>2 DEF Submit
    <3>3. \A d \in Callers : {call'[d].cmd, call'[d].req} \subseteq 1 .. ids' \union {None}
      BY <1>17, <2>2, <3>1 DEF Submit, Fail, Calls
    <3>4. \A i \in Ids : result'[i] # None => i <= ids'
      BY <1>17, <2>2 DEF Submit, Ids
    <3> QED
      BY <1>17, <3>1, <3>2, <3>3, <3>4 DEF Submit
  <2> QED
    BY <1>17, <2>1, <2>2 DEF Submit
<1>18. ASSUME NEW c \in Callers, WorkerGone(c) PROVE NoneFromTheFuture'
  BY <1>18 DEF WorkerGone, files, Fail, Release
<1>19. ASSUME NEW c \in Callers, Receive(c) PROVE NoneFromTheFuture'
  BY <1>19 DEF Receive, files, Release
<1>20. ASSUME NEW c \in Callers, VerifyPolicy(c) PROVE NoneFromTheFuture'
  <2>1. \A d \in Callers : {call'[d].cmd, call'[d].req} \subseteq 1 .. ids \union {None}
    BY <1>20 DEF VerifyPolicy, Fail, Calls
  <2> QED
    BY <1>20, <2>1 DEF VerifyPolicy, files
<1>21. ASSUME NEW c \in Callers, VerifyPass(c) PROVE NoneFromTheFuture'
  <2>1. \A d \in Callers : {call'[d].cmd, call'[d].req} \subseteq 1 .. ids \union {None}
    BY <1>21 DEF VerifyPass, Fail, Calls
  <2> QED
    BY <1>21, <2>1 DEF VerifyPass, files
<1>22. ASSUME NEW c \in Callers, Timeout(c) PROVE NoneFromTheFuture'
  BY <1>22 DEF Timeout, files, Fail, Release
<1>23. ASSUME NEW c \in Callers, NEW kind \in Kinds, NEW target \in Policies,
             Begin(c, kind, target)
       PROVE  NoneFromTheFuture'
  <2>1. \A d \in Callers : {call'[d].cmd, call'[d].req} \subseteq 1 .. ids \union {None}
    BY <1>23 DEF Begin, NoCall
  <2> QED
    BY <1>23, <2>1 DEF Begin, files
<1>24. CASE UNCHANGED vars
  BY <1>24 DEF vars, files
<1> QED
  BY <1>1, <1>2, <1>3, <1>4, <1>5, <1>6, <1>7, <1>8, <1>9, <1>10, <1>11, <1>12, <1>13, <1>14,
     <1>15, <1>16, <1>17, <1>18, <1>19, <1>20, <1>21, <1>22, <1>23, <1>24 DEF Next, Worker, Step

\* The acknowledgement is replaced whenever the policy is, and a command is
\* kept only while nothing answers it.
LEMMA WorkerInvStep == IInv /\ [Next]_vars => WorkerInv'
<1> SUFFICES ASSUME IInv, [Next]_vars PROVE WorkerInv'
  OBVIOUS
<1> USE NoneAssumption
<1> USE DEF IInv, Types, WorkerInv, Unanswered
<1>1. ASSUME Claim PROVE WorkerInv'
  BY <1>1 DEF Claim, Idle, Serving, Workers, Matches
<1>2. ASSUME ReadRequest PROVE WorkerInv'
  <2>1. w \in Workers /\ w.cmd = None /\ processing # None
    BY <1>2 DEF ReadRequest, BatchInv
  <2>2. w' = [w EXCEPT !.pc = "serve", !.job = processing, !.left = Parts, !.used = {}]
    BY <1>2 DEF ReadRequest
  <2>3. /\ w'.pc = "serve" /\ w'.job = processing /\ w'.left = Parts /\ w'.cmd = None
        /\ w'.epoch = w.epoch /\ w'.policy = w.policy /\ w'.run = w.run
    BY <2>1, <2>2 DEF Workers
  <2> QED
    BY <1>2, <2>1, <2>3, Bounds DEF ReadRequest
<1>3. ASSUME ExitIdle PROVE WorkerInv'
  BY <1>3 DEF ExitIdle, files, Serving, Workers, Matches
<1>4. ASSUME AcceptTxn PROVE WorkerInv'
  BY <1>4 DEF AcceptTxn, files, Serving, Workers, Matches
<1>5. ASSUME RejectTxn PROVE WorkerInv'
  BY <1>5 DEF RejectTxn, Answer, Serving, Workers, Matches
<1>6. ASSUME ApplyTxn PROVE WorkerInv'
  <2>1. /\ w'.cmd = None /\ w'.job = w.job /\ w'.pc = w.pc /\ w'.run = w.run /\ w'.left = w.left
        /\ w'.used = w.used /\ ack'.epoch = w'.epoch /\ ack'.policy = w'.policy
    BY <1>6, Applying
  <2> QED
    BY <1>6, <2>1 DEF ApplyTxn
<1>7. ASSUME ServePart PROVE WorkerInv'
  BY <1>7 DEF ServePart, files, Serving, Workers, Matches
<1>8. ASSUME WriteResult PROVE WorkerInv'
  BY <1>8 DEF WriteResult, Serving, Workers, Matches
<1>9. ASSUME Crash PROVE WorkerInv'
  BY <1>9 DEF Crash, files
<1>10. ASSUME Stop PROVE WorkerInv'
  BY <1>10 DEF Stop
<1>11. ASSUME Restart PROVE WorkerInv'
  BY <1>11 DEF Restart, PrepareFiles, Spawned, StartupAck, Workers, Counts
<1>12. ASSUME NEW c \in Callers, Acquire(c) PROVE WorkerInv'
  BY <1>12 DEF Acquire, files
<1>13. ASSUME NEW c \in Callers, ReadAck(c) PROVE WorkerInv'
  BY <1>13 DEF ReadAck, files, At
<1>14. ASSUME NEW c \in Callers, LookAtWidth(c) PROVE WorkerInv'
  BY <1>14 DEF LookAtWidth, files, At
<1>15. ASSUME NEW c \in Callers, Check(c) PROVE WorkerInv'
  BY <1>15 DEF Check, files, Fail, Release
<1>16. ASSUME NEW c \in Callers, WriteTxn(c) PROVE WorkerInv'
  <2>1. txn' # None /\ txn'.id = ids + 1
    BY <1>16, Written
  <2>2. ack.txn # ids + 1
    BY DEF NoneFromTheFuture
  <2> QED
    BY <1>16, <2>1, <2>2 DEF WriteTxn
<1>17. ASSUME NEW c \in Callers, Submit(c) PROVE WorkerInv'
  BY <1>17 DEF Submit, Fail, Release
<1>18. ASSUME NEW c \in Callers, WorkerGone(c) PROVE WorkerInv'
  BY <1>18 DEF WorkerGone, files, Fail, Release
<1>19. ASSUME NEW c \in Callers, Receive(c) PROVE WorkerInv'
  BY <1>19 DEF Receive, files, Release
<1>20. ASSUME NEW c \in Callers, VerifyPolicy(c) PROVE WorkerInv'
  BY <1>20 DEF VerifyPolicy, files, At, Fail, Release
<1>21. ASSUME NEW c \in Callers, VerifyPass(c) PROVE WorkerInv'
  BY <1>21 DEF VerifyPass, files, At, Fail, Release
<1>22. ASSUME NEW c \in Callers, Timeout(c) PROVE WorkerInv'
  BY <1>22 DEF Timeout, files, Fail, Release
<1>23. ASSUME NEW c \in Callers, NEW kind \in Kinds, NEW target \in Policies,
             Begin(c, kind, target)
       PROVE  WorkerInv'
  BY <1>23 DEF Begin, files
<1>24. CASE UNCHANGED vars
  BY <1>24 DEF vars, files
<1> QED
  BY <1>1, <1>2, <1>3, <1>4, <1>5, <1>6, <1>7, <1>8, <1>9, <1>10, <1>11, <1>12, <1>13, <1>14,
     <1>15, <1>16, <1>17, <1>18, <1>19, <1>20, <1>21, <1>22, <1>23, <1>24 DEF Next, Worker, Step

\* A new batch has a new identifier: it was never begun.
LEMMA BatchInvStep == IInv /\ [Next]_vars => BatchInv'
<1> SUFFICES ASSUME IInv, [Next]_vars PROVE BatchInv'
  OBVIOUS
<1> USE NoneAssumption
<1> USE DEF IInv, Types, BatchInv
<1>1. ASSUME Claim PROVE BatchInv'
  BY <1>1 DEF Claim, Idle
<1>2. ASSUME ReadRequest PROVE BatchInv'
  BY <1>2 DEF ReadRequest
<1>3. ASSUME ExitIdle PROVE BatchInv'
  BY <1>3 DEF ExitIdle, files
<1>4. ASSUME AcceptTxn PROVE BatchInv'
  BY <1>4 DEF AcceptTxn, files
<1>5. ASSUME RejectTxn PROVE BatchInv'
  BY <1>5 DEF RejectTxn, Answer
<1>6. ASSUME ApplyTxn PROVE BatchInv'
  BY <1>6 DEF ApplyTxn, Answer, Workers, Serving
<1>7. ASSUME ServePart PROVE BatchInv'
  BY <1>7 DEF ServePart, files
<1>8. ASSUME WriteResult PROVE BatchInv'
  BY <1>8 DEF WriteResult, Workers, Serving
<1>9. ASSUME Crash PROVE BatchInv'
  BY <1>9 DEF Crash, files
<1>10. ASSUME Stop PROVE BatchInv'
  BY <1>10 DEF Stop
<1>11. ASSUME Restart PROVE BatchInv'
  BY <1>11 DEF Restart, PrepareFiles, Spawned
<1>12. ASSUME NEW c \in Callers, Acquire(c) PROVE BatchInv'
  BY <1>12 DEF Acquire, files
<1>13. ASSUME NEW c \in Callers, ReadAck(c) PROVE BatchInv'
  BY <1>13 DEF ReadAck, files, At
<1>14. ASSUME NEW c \in Callers, LookAtWidth(c) PROVE BatchInv'
  BY <1>14 DEF LookAtWidth, files, At
<1>15. ASSUME NEW c \in Callers, Check(c) PROVE BatchInv'
  BY <1>15 DEF Check, files, Fail, Release
<1>16. ASSUME NEW c \in Callers, WriteTxn(c) PROVE BatchInv'
  BY <1>16 DEF WriteTxn
<1>17. ASSUME NEW c \in Callers, Submit(c) PROVE BatchInv'
  <2>1. CASE Fail(c) /\ UNCHANGED <<request, ids>>
    BY <1>17, <2>1 DEF Submit
  <2>2. CASE ids' = ids + 1
    <3>1. request' = ids + 1 /\ request = None /\ processing = None
      BY <1>17, <2>2 DEF Submit
    <3>2. ids + 1 \notin served
      BY DEF NoneFromTheFuture
    <3> QED
      BY <1>17, <3>1, <3>2 DEF Submit
  <2> QED
    BY <1>17, <2>1, <2>2 DEF Submit
<1>18. ASSUME NEW c \in Callers, WorkerGone(c) PROVE BatchInv'
  BY <1>18 DEF WorkerGone, files, Fail, Release
<1>19. ASSUME NEW c \in Callers, Receive(c) PROVE BatchInv'
  BY <1>19 DEF Receive, files, Release
<1>20. ASSUME NEW c \in Callers, VerifyPolicy(c) PROVE BatchInv'
  BY <1>20 DEF VerifyPolicy, files, At, Fail, Release
<1>21. ASSUME NEW c \in Callers, VerifyPass(c) PROVE BatchInv'
  BY <1>21 DEF VerifyPass, files, At, Fail, Release
<1>22. ASSUME NEW c \in Callers, Timeout(c) PROVE BatchInv'
  BY <1>22 DEF Timeout, files, Fail, Release
<1>23. ASSUME NEW c \in Callers, NEW kind \in Kinds, NEW target \in Policies,
             Begin(c, kind, target)
       PROVE  BatchInv'
  BY <1>23 DEF Begin, files
<1>24. CASE UNCHANGED vars
  BY <1>24 DEF vars, files
<1> QED
  BY <1>1, <1>2, <1>3, <1>4, <1>5, <1>6, <1>7, <1>8, <1>9, <1>10, <1>11, <1>12, <1>13, <1>14,
     <1>15, <1>16, <1>17, <1>18, <1>19, <1>20, <1>21, <1>22, <1>23, <1>24 DEF Next, Worker, Step

\* The command file goes before a new worker is spawned.
LEMMA OwnCommandsStep == IInv /\ [Next]_vars => OwnCommands'
<1> SUFFICES ASSUME IInv, [Next]_vars PROVE OwnCommands'
  OBVIOUS
<1> USE NoneAssumption
<1> USE DEF IInv, Types, OwnCommands
<1>1. ASSUME Claim PROVE OwnCommands'
  BY <1>1 DEF Claim, Idle
<1>2. ASSUME ReadRequest PROVE OwnCommands'
  BY <1>2 DEF ReadRequest
<1>3. ASSUME ExitIdle PROVE OwnCommands'
  BY <1>3 DEF ExitIdle, files
<1>4. ASSUME AcceptTxn PROVE OwnCommands'
  BY <1>4 DEF AcceptTxn, files
<1>5. ASSUME RejectTxn PROVE OwnCommands'
  BY <1>5 DEF RejectTxn, Answer
<1>6. ASSUME ApplyTxn PROVE OwnCommands'
  BY <1>6 DEF ApplyTxn, Answer, Workers
<1>7. ASSUME ServePart PROVE OwnCommands'
  BY <1>7 DEF ServePart, files
<1>8. ASSUME WriteResult PROVE OwnCommands'
  BY <1>8 DEF WriteResult
<1>9. ASSUME Crash PROVE OwnCommands'
  BY <1>9 DEF Crash, files
<1>10. ASSUME Stop PROVE OwnCommands'
  BY <1>10 DEF Stop
<1>11. ASSUME Restart PROVE OwnCommands'
  BY <1>11 DEF Restart, PrepareFiles, Spawned
<1>12. ASSUME NEW c \in Callers, Acquire(c) PROVE OwnCommands'
  BY <1>12 DEF Acquire, files
<1>13. ASSUME NEW c \in Callers, ReadAck(c) PROVE OwnCommands'
  BY <1>13 DEF ReadAck, files, At
<1>14. ASSUME NEW c \in Callers, LookAtWidth(c) PROVE OwnCommands'
  BY <1>14 DEF LookAtWidth, files, At
<1>15. ASSUME NEW c \in Callers, Check(c) PROVE OwnCommands'
  BY <1>15 DEF Check, files, Fail, Release
<1>16. ASSUME NEW c \in Callers, WriteTxn(c) PROVE OwnCommands'
  BY <1>16 DEF WriteTxn
<1>17. ASSUME NEW c \in Callers, Submit(c) PROVE OwnCommands'
  BY <1>17 DEF Submit, Fail, Release
<1>18. ASSUME NEW c \in Callers, WorkerGone(c) PROVE OwnCommands'
  BY <1>18 DEF WorkerGone, files, Fail, Release
<1>19. ASSUME NEW c \in Callers, Receive(c) PROVE OwnCommands'
  BY <1>19 DEF Receive, files, Release
<1>20. ASSUME NEW c \in Callers, VerifyPolicy(c) PROVE OwnCommands'
  BY <1>20 DEF VerifyPolicy, files, At, Fail, Release
<1>21. ASSUME NEW c \in Callers, VerifyPass(c) PROVE OwnCommands'
  BY <1>21 DEF VerifyPass, files, At, Fail, Release
<1>22. ASSUME NEW c \in Callers, Timeout(c) PROVE OwnCommands'
  BY <1>22 DEF Timeout, files, Fail, Release
<1>23. ASSUME NEW c \in Callers, NEW kind \in Kinds, NEW target \in Policies,
             Begin(c, kind, target)
       PROVE  OwnCommands'
  BY <1>23 DEF Begin, files
<1>24. CASE UNCHANGED vars
  BY <1>24 DEF vars, files
<1> QED
  BY <1>1, <1>2, <1>3, <1>4, <1>5, <1>6, <1>7, <1>8, <1>9, <1>10, <1>11, <1>12, <1>13, <1>14,
     <1>15, <1>16, <1>17, <1>18, <1>19, <1>20, <1>21, <1>22, <1>23, <1>24 DEF Next, Worker, Step

-----------------------------------------------------------------------------
(* Every step keeps what is known of the calls.                            *)

\* A call does not notice a step that leaves it, the files it looks at and
\* what the worker computes alone.
LEMMA LeftAlone ==
    ASSUME IInv, NEW d \in Callers, call'[d] = call[d], UNCHANGED <<txn, ack, result>>,
           w'.job = w.job, w'.used = w.used, w'.cmd = w.cmd, w'.policy = w.policy,
           w'.epoch = w.epoch
    PROVE  CallInv(d)'
<1>1. CallInv(d)
  BY DEF IInv, CallsInv
<1>2. StagesOf(d)'
  BY <1>1 DEF CallInv, StagesOf
<1>3. Commanded(d)'
  BY <1>1 DEF CallInv, Commanded, Pending, Applied, ComputedIn
<1>4. Unchanged(d)'
  BY <1>1 DEF CallInv, Unchanged, ComputedIn
<1> QED
  BY <1>1, <1>2, <1>3, <1>4 DEF CallInv

\* Neither does it notice a command written by another call: it names a new
\* identifier, and what it replaces could only be pending.
LEMMA CommandOfAnother ==
    ASSUME IInv, NEW c \in Callers, WriteTxn(c), NEW d \in Callers \ {c}
    PROVE  CallInv(d)'
<1>1. CallInv(d) /\ call'[d] = call[d] /\ UNCHANGED <<ack, result, w>>
  BY DEF IInv, Types, CallsInv, WriteTxn
<1>2. txn'.id # call[d].cmd
  <2>1. call[d].cmd \in 1 .. ids \union {None} /\ ids \in Nat
    BY DEF IInv, Types, NoneFromTheFuture
  <2> QED
    BY <2>1, Written, NoneAssumption
<1>3. StagesOf(d)'
  BY <1>1 DEF CallInv, StagesOf
<1>4. Commanded(d)'
  BY <1>1, <1>2 DEF CallInv, Commanded, Pending, Applied, ComputedIn
<1>5. Unchanged(d)'
  BY <1>1 DEF CallInv, Unchanged, ComputedIn
<1> QED
  BY <1>1, <1>3, <1>4, <1>5 DEF CallInv

\* A step that gives up, or leaves the call where nothing is claimed of it.
LEMMA NothingClaimed ==
    ASSUME NEW d \in Callers, StagesOf(d)', call'[d].pc \in {"idle", "look", "read", "check", "write"}
    PROVE  CallInv(d)'
BY DEF CallInv, Commanded, Unchanged

\* The steps of a call.
LEMMA CallStep ==
    ASSUME IInv, NEW c \in Callers, Step(c) \/ Timeout(c)
    PROVE  CallInv(c)'
<1>1. call[c] \in Calls /\ w \in Workers /\ ack \in Acks
  BY DEF IInv, Types
<1>2. StagesOf(c) /\ Commanded(c) /\ Unchanged(c)
  BY DEF IInv, CallsInv, CallInv
<1>3. call \in [Callers -> Calls]
  BY DEF IInv, Types
<1>4. ASSUME Acquire(c) PROVE CallInv(c)'
  <2>1. UNCHANGED <<txn, ack, result, w>>
    BY <1>4 DEF Acquire, files
  <2>2. StagesOf(c)'
    BY <1>1, <1>2, <1>3, <1>4 DEF Acquire, StagesOf, Calls
  <2>3. CASE call'[c].pc = "read"
    BY <2>2, <2>3, NothingClaimed
  <2>4. CASE call'[c].pc # "read"
    <3>1. /\ call'[c].pc = "submit" /\ call'[c].kind = call[c].kind /\ call'[c].cmd = call[c].cmd
          /\ call'[c].target = call[c].target /\ call[c].kind # "policy" /\ call[c].pc = "lock"
      BY <1>1, <1>3, <1>4, <2>4 DEF Acquire, Calls
    <3>2. Commanded(c)'
      BY <1>2, <2>1, <3>1 DEF Commanded, Pending, Applied, ComputedIn
    <3> QED
      BY <2>2, <3>1, <3>2 DEF CallInv, Unchanged
  <2> QED
    BY <2>3, <2>4
<1>5. ASSUME ReadAck(c) PROVE CallInv(c)'
  <2>1. UNCHANGED <<txn, ack, result, w>>
    BY <1>5 DEF ReadAck, files
  <2>2. StagesOf(c)'
    BY <1>1, <1>2, <1>3, <1>5 DEF ReadAck, At, StagesOf, Calls
  <2>3. CASE call'[c].pc = "check"
    BY <2>2, <2>3, NothingClaimed
  <2>4. CASE call'[c].pc # "check"
    <3>1. /\ call'[c].pc = "submit" /\ call'[c].cmd = None /\ call'[c].before = ack
          /\ call'[c].target = ack.policy
      BY <1>1, <1>2, <1>3, <1>5, <2>4 DEF ReadAck, At, StagesOf, Calls
    <3>2. ack.epoch = w.epoch /\ ack.policy = w.policy /\ w.epoch \in Nat
      BY <1>1 DEF IInv, WorkerInv, Workers
    <3> QED
      BY <2>1, <2>2, <3>1, <3>2 DEF CallInv, Commanded, Unchanged, ComputedIn
  <2> QED
    BY <2>3, <2>4
<1>6. ASSUME LookAtWidth(c) PROVE CallInv(c)'
  <2>1. StagesOf(c)'
    BY <1>1, <1>2, <1>3, <1>6 DEF LookAtWidth, At, StagesOf, Calls
  <2>2. call'[c].kind = "adaptive" /\ call'[c].cmd = None /\ call'[c].pc \in {"check", "lock"}
    BY <1>1, <1>2, <1>3, <1>6 DEF LookAtWidth, At, StagesOf, Calls
  <2> QED
    BY <2>1, <2>2 DEF CallInv, Commanded, Unchanged
<1>7. ASSUME Check(c) PROVE CallInv(c)'
  <2>1. StagesOf(c)' /\ call'[c].pc \in {"write", "idle"}
    BY <1>1, <1>2, <1>3, <1>7 DEF Check, Fail, StagesOf, Calls
  <2> QED
    BY <2>1, NothingClaimed
<1>8. ASSUME WriteTxn(c) PROVE CallInv(c)'
  <2>1. UNCHANGED <<ack, result, w>>
    BY <1>8 DEF WriteTxn
  <2>2. /\ call'[c].cmd = ids + 1 /\ call'[c].kind = call[c].kind
        /\ call'[c].target = call[c].target /\ call'[c].req = call[c].req
        /\ call'[c].pc = IF call[c].kind = "policy" THEN "submit" ELSE "lock"
    BY <1>1, <1>3, <1>8 DEF WriteTxn, Calls
  <2>3. /\ ack.txn # ids + 1 /\ ids + 1 # None
        /\ w.cmd # None => w.cmd.id # ids + 1
    BY NoneAssumption DEF IInv, Types, NoneFromTheFuture
  <2>4. StagesOf(c)'
    BY <1>2, <1>8, <2>2 DEF StagesOf, WriteTxn
  <2>5. txn'.to = call[c].target
    BY <1>8, Written
  <2>6. Commanded(c)'
    BY <2>1, <2>2, <2>3, <2>5 DEF Commanded, Pending, Applied
  <2> QED
    BY <2>2, <2>3, <2>4, <2>6 DEF CallInv, Unchanged
<1>9. ASSUME Submit(c) PROVE CallInv(c)'
  <2>1. UNCHANGED <<txn, ack, result, w>>
    BY <1>9 DEF Submit
  <2>2. CASE Fail(c)
    <3>1. StagesOf(c)' /\ call'[c].pc = "idle"
      BY <1>1, <1>2, <1>3, <1>9, <2>2 DEF Submit, Fail, StagesOf, Calls
    <3> QED
      BY <3>1, NothingClaimed
  <2>3. CASE ~Fail(c)
    <3>1. /\ call'[c].kind = call[c].kind /\ call'[c].cmd = call[c].cmd
          /\ call'[c].target = call[c].target /\ call'[c].before = call[c].before
          /\ call'[c].pc = "wait" /\ call'[c].req = ids + 1 /\ call[c].pc = "submit"
      BY <1>1, <1>3, <1>9, <2>3 DEF Submit, Calls
    <3>2. w.job # ids + 1 /\ result[ids + 1] = None /\ ids + 1 # None
      <4>1. ids + 1 \in Ids /\ ids \in Nat
        BY <1>9, Published DEF IInv, Types
      <4> QED
        BY <4>1, NoneAssumption DEF IInv, NoneFromTheFuture
    <3>3. StagesOf(c)'
      BY <1>2, <3>1, <3>2 DEF StagesOf
    <3>4. Commanded(c)'
      BY <1>2, <2>1, <3>1, <3>2 DEF Commanded, Pending, Applied, ComputedIn
    <3>5. Unchanged(c)'
      BY <1>2, <2>1, <3>1, <3>2 DEF Unchanged, ComputedIn
    <3> QED
      BY <3>1, <3>3, <3>4, <3>5 DEF CallInv
  <2> QED
    BY <2>2, <2>3
<1>10. ASSUME WorkerGone(c) \/ Timeout(c) PROVE CallInv(c)'
  <2>1. StagesOf(c)' /\ call'[c].pc = "idle"
    BY <1>1, <1>2, <1>3, <1>10 DEF WorkerGone, Timeout, Fail, StagesOf, Calls
  <2> QED
    BY <2>1, NothingClaimed
<1>11. ASSUME Receive(c) PROVE CallInv(c)'
  <2>1. UNCHANGED <<txn, ack, result, w>>
    BY <1>11 DEF Receive, files
  <2>2. /\ call'[c].kind = call[c].kind /\ call'[c].cmd = call[c].cmd
        /\ call'[c].target = call[c].target /\ call'[c].before = call[c].before
        /\ call'[c].req = call[c].req /\ call'[c].got = result[call[c].req]
        /\ call'[c].pc = IF call[c].kind = "direct" THEN "done" ELSE "verify"
        /\ call[c].pc = "wait" /\ result[call[c].req] # None
    BY <1>1, <1>3, <1>11 DEF Receive, Calls
  <2>3. StagesOf(c)'
    BY <1>2, <2>2 DEF StagesOf
  <2>4. Commanded(c)'
    BY <1>2, <2>1, <2>2 DEF Commanded, Pending, Applied, ComputedIn
  <2>5. Unchanged(c)'
    BY <1>2, <2>1, <2>2 DEF Unchanged, ComputedIn
  <2> QED
    BY <1>2, <2>2, <2>3, <2>4, <2>5 DEF CallInv, StagesOf
<1>12. ASSUME VerifyPolicy(c) PROVE CallInv(c)'
  <2>1. UNCHANGED <<txn, ack, result, w>>
    BY <1>12 DEF VerifyPolicy, files
  <2>2. CASE Verified(c) /\ ack.policy = call[c].target
    <3>1. /\ call'[c].kind = call[c].kind /\ call'[c].cmd = call[c].cmd
          /\ call'[c].target = call[c].target /\ call'[c].got = call[c].got
          /\ call'[c].pc = "done" /\ call[c].pc = "verify" /\ call[c].kind = "policy"
      BY <1>1, <1>3, <1>12, <2>2 DEF VerifyPolicy, At, Calls
    <3>2. call[c].got = {call[c].target}
      <4>1. CASE call[c].cmd # None
        BY <1>2, <2>2, <3>1, <4>1 DEF Verified, Commanded, Applied, ComputedIn
      <4>2. CASE call[c].cmd = None
        BY <1>2, <2>2, <3>1, <4>2 DEF Verified, Unchanged, ComputedIn, IInv, WorkerInv
      <4> QED
        BY <4>1, <4>2
    <3>3. StagesOf(c)'
      BY <3>1 DEF StagesOf
    <3> QED
      BY <3>1, <3>2, <3>3 DEF CallInv, Commanded, Unchanged
  <2>3. CASE ~(Verified(c) /\ ack.policy = call[c].target)
    <3>1. StagesOf(c)' /\ call'[c].pc = "idle"
      BY <1>1, <1>2, <1>3, <1>12, <2>3 DEF VerifyPolicy, At, Fail, StagesOf, Calls
    <3> QED
      BY <3>1, NothingClaimed
  <2> QED
    BY <2>2, <2>3
<1>13. ASSUME VerifyPass(c) PROVE CallInv(c)'
  <2>1. UNCHANGED <<txn, ack, result, w>>
    BY <1>13 DEF VerifyPass, files
  <2>2. CASE call'[c].pc = "done"
    <3>1. /\ call'[c].kind = call[c].kind /\ call'[c].cmd = call[c].cmd
          /\ call'[c].target = call[c].target /\ call'[c].got = call[c].got
          /\ call[c].pc = "verify" /\ call[c].kind = "adaptive" /\ Verified(c)
      BY <1>1, <1>3, <1>13, <2>2 DEF VerifyPass, At, Fail, Calls
    <3>2. call[c].cmd # None => call[c].got = {call[c].target}
      BY <1>2, <3>1 DEF Verified, Commanded, Applied, ComputedIn
    <3>3. StagesOf(c)'
      BY <2>2, <3>1 DEF StagesOf
    <3> QED
      BY <2>2, <3>1, <3>2, <3>3 DEF CallInv, Commanded, Unchanged
  <2>3. CASE call'[c].pc # "done"
    <3>1. StagesOf(c)' /\ call'[c].pc \in {"idle", "check"}
      BY <1>1, <1>2, <1>3, <1>13, <2>3 DEF VerifyPass, At, Fail, StagesOf, Calls
    <3> QED
      BY <3>1, NothingClaimed
  <2> QED
    BY <2>2, <2>3
<1> QED
  BY <1>4, <1>5, <1>6, <1>7, <1>8, <1>9, <1>10, <1>11, <1>12, <1>13 DEF Step

\* The steps of the worker that change what the calls look at.  A call whose
\* command is met has had nothing computed; one whose command is overtaken
\* claims nothing any more.
LEMMA WorkerStep ==
    ASSUME IInv, Worker, NEW d \in Callers
    PROVE  CallInv(d)'
<1>1. call[d] \in Calls /\ w \in Workers /\ ack \in Acks /\ call' = call
  BY DEF IInv, Types, Worker, Claim, ReadRequest, ExitIdle, AcceptTxn, RejectTxn, ApplyTxn,
     ServePart,
       WriteResult
<1>2. CallInv(d) /\ StagesOf(d) /\ Commanded(d) /\ Unchanged(d)
  BY DEF IInv, CallsInv, CallInv
<1>3. StagesOf(d)'
  BY <1>1, <1>2 DEF StagesOf
<1>4. Commanded(d)' /\ Unchanged(d)' => CallInv(d)'
  BY <1>1, <1>2, <1>3 DEF CallInv
<1>5. ASSUME Claim \/ ExitIdle PROVE CallInv(d)'
  <2>1. /\ w'.job = w.job /\ w'.used = w.used /\ w'.cmd = w.cmd /\ w'.policy = w.policy
        /\ w'.epoch = w.epoch
    BY <1>1, <1>5 DEF Claim, ExitIdle, Workers
  <2> QED
    BY <1>1, <1>5, <2>1, LeftAlone DEF Claim, ExitIdle, files
<1>6. ASSUME ReadRequest PROVE CallInv(d)'
  <2>1. /\ w'.used = {} /\ w'.cmd = w.cmd /\ w'.policy = w.policy /\ w'.epoch = w.epoch
        /\ UNCHANGED <<txn, ack, result>>
    BY <1>1, <1>6 DEF ReadRequest, Workers
  <2>2. Commanded(d)'
    BY <1>1, <1>2, <2>1 DEF Commanded, Pending, Applied, ComputedIn
  <2>3. Unchanged(d)'
    BY <1>1, <1>2, <2>1 DEF Unchanged, ComputedIn
  <2> QED
    BY <1>4, <2>2, <2>3
<1>7. ASSUME AcceptTxn PROVE CallInv(d)'
  <2>1. /\ w'.job = w.job /\ w'.used = w.used /\ w'.cmd = txn /\ w'.policy = w.policy
        /\ w'.epoch = w.epoch /\ w.cmd = None /\ txn # None /\ txn.id # ack.txn
        /\ UNCHANGED <<txn, ack, result>>
    BY <1>1, <1>7 DEF AcceptTxn, Serving, Unanswered, files, Workers
  <2>2. Commanded(d)'
    BY <1>1, <1>2, <2>1 DEF Commanded, Pending, Applied, ComputedIn
  <2>3. Unchanged(d)'
    BY <1>1, <1>2, <2>1 DEF Unchanged, ComputedIn
  <2> QED
    BY <1>4, <2>2, <2>3
<1>8. ASSUME RejectTxn PROVE CallInv(d)'
  <2>1. /\ w' = w /\ w.cmd = None /\ txn # None /\ txn.id # ack.txn
        /\ ack'.txn = txn.id /\ ack'.status = "STALE_COMMAND" /\ UNCHANGED <<txn, result>>
    BY <1>8 DEF RejectTxn, Answer, Serving, Unanswered
  <2>2. Commanded(d)'
    BY <1>1, <1>2, <2>1 DEF Commanded, Pending, Applied, ComputedIn
  <2>3. Unchanged(d)'
    BY <1>1, <1>2, <2>1 DEF Unchanged, ComputedIn
  <2> QED
    BY <1>4, <2>2, <2>3
<1>9. ASSUME ApplyTxn PROVE CallInv(d)'
  <2>1. UNCHANGED <<txn, result>> /\ txn # None /\ txn.id # ack.txn
    BY <1>9 DEF ApplyTxn, IInv, WorkerInv, Unanswered
  <2>2. /\ w.cmd # None /\ w'.cmd = None /\ w'.job = w.job /\ w'.used = w.used
        /\ ack'.txn = w.cmd.id
        /\ \/ w'.policy = w.cmd.to /\ w'.epoch = w.epoch + 1
           \/ w'.policy = w.policy /\ w'.epoch = w.epoch /\ ack'.status = "FAILED"
    BY <1>9, Applying
  <2>3. Commanded(d)'
    <3>1. CASE w.cmd.id = call[d].cmd
      BY <1>1, <1>2, <2>1, <2>2, <3>1 DEF Commanded, Pending, Applied, ComputedIn
    <3>2. CASE w.cmd.id # call[d].cmd
      BY <1>1, <1>2, <2>1, <2>2, <3>2 DEF Commanded, Pending, Applied, ComputedIn
    <3> QED
      BY <3>1, <3>2
  <2>4. Unchanged(d)'
    <3>1. w.epoch \in Nat /\ call[d].before.epoch \in Nat
      BY <1>1 DEF Workers, Calls, Acks
    <3> QED
      BY <1>1, <1>2, <2>1, <2>2, <3>1 DEF Unchanged, ComputedIn
  <2> QED
    BY <1>4, <2>3, <2>4
<1>10. ASSUME ServePart PROVE CallInv(d)'
  <2>1. /\ w'.job = w.job /\ w'.used = w.used \union {w.policy} /\ w'.cmd = None
        /\ w'.policy = w.policy /\ w'.epoch = w.epoch /\ w.cmd = None
        /\ txn # None => txn.id = ack.txn
    BY <1>1, <1>10 DEF ServePart, Serving, Unanswered, Workers
  <2>2. UNCHANGED <<txn, ack, result>>
    BY <1>10 DEF ServePart, files
  <2>3. Commanded(d)'
    BY <1>1, <1>2, <2>1, <2>2 DEF Commanded, Pending, Applied, ComputedIn
  <2>4. Unchanged(d)'
    BY <1>1, <1>2, <2>1, <2>2 DEF Unchanged, ComputedIn
  <2> QED
    BY <1>4, <2>3, <2>4
<1>11. ASSUME WriteResult PROVE CallInv(d)'
  <2>1. /\ w'.job = None /\ w'.cmd = None /\ w'.policy = w.policy /\ w'.epoch = w.epoch
        /\ w.cmd = None
        /\ txn # None => txn.id = ack.txn
    BY <1>1, <1>11 DEF WriteResult, Serving, Unanswered, Workers
  <2>2. UNCHANGED <<txn, ack>>
    BY <1>11 DEF WriteResult
  <2>3. w.job \in Ids /\ w.used # {}
    BY <1>1, <1>11, Bounds DEF WriteResult, Serving, IInv, WorkerInv, Workers
  <2>4. \A i \in Ids : result'[i] = IF i = w.job THEN w.used ELSE result[i]
    BY <1>11, <2>3 DEF WriteResult, IInv, Types
  <2>5. call[d].pc = "wait" => call[d].req \in Ids /\ call[d].req # None
    BY <1>1, <1>2 DEF StagesOf, Calls
  <2>6. ASSUME ComputedIn(d, {call[d].target}) PROVE ComputedIn(d, {call[d].target})'
    BY <1>1, <2>1, <2>3, <2>4, <2>5, <2>6 DEF ComputedIn
  <2>7. ~Pending(d)' /\ (Applied(d)' <=> Applied(d))
    BY <1>1, <2>1, <2>2 DEF Pending, Applied
  <2>8. Commanded(d)'
    BY <1>1, <1>2, <2>1, <2>2, <2>6, <2>7 DEF Commanded
  <2>9. Unchanged(d)'
    BY <1>1, <1>2, <2>1, <2>2, <2>6 DEF Unchanged
  <2> QED
    BY <1>4, <2>8, <2>9
<1> QED
  BY <1>5, <1>6, <1>7, <1>8, <1>9, <1>10, <1>11 DEF Worker

LEMMA CallsInvStep == IInv /\ [Next]_vars => CallsInv'
<1> SUFFICES ASSUME IInv, [Next]_vars, NEW d \in Callers PROVE CallInv(d)'
  BY DEF CallsInv
<1>1. w \in Workers /\ call \in [Callers -> Calls]
  BY DEF IInv, Types
<1>2. ASSUME Worker PROVE CallInv(d)'
  BY <1>2, WorkerStep
<1>3. ASSUME Crash \/ Stop \/ UNCHANGED vars PROVE CallInv(d)'
  <2>1. /\ w'.job = w.job /\ w'.used = w.used /\ w'.cmd = w.cmd /\ w'.policy = w.policy
        /\ w'.epoch = w.epoch
    BY <1>1, <1>3 DEF Crash, Stop, vars, Workers
  <2>2. UNCHANGED <<txn, ack, result, call>>
    BY <1>3 DEF Crash, Stop, vars, files
  <2> QED
    BY <2>1, <2>2, LeftAlone
<1>4. ASSUME Restart PROVE CallInv(d)'
  BY <1>4 DEF Restart, NoCall, CallInv, StagesOf, Commanded, Unchanged
<1>5. ASSUME NEW c \in Callers, Step(c) \/ Timeout(c) PROVE CallInv(d)'
  <2>1. CASE d = c
    BY <1>5, <2>1, CallStep
  <2>2. CASE d # c /\ WriteTxn(c)
    BY <2>2, CommandOfAnother
  <2>3. CASE d # c /\ ~WriteTxn(c)
    <3>1. UNCHANGED <<txn, ack, result, w>>
      BY <1>5, <2>3 DEF Step, Acquire, ReadAck, LookAtWidth, Check, Submit, WorkerGone, Receive,
           VerifyPolicy, VerifyPass, Timeout, files
    <3>2. call'[d] = call[d]
      BY <1>1, <1>5, <2>3 DEF Step, Acquire, ReadAck, LookAtWidth, Check, Submit, WorkerGone,
           Receive, VerifyPolicy, VerifyPass, Timeout, Fail
    <3> QED
      BY <3>1, <3>2, LeftAlone
  <2> QED
    BY <2>1, <2>2, <2>3
<1>6. ASSUME NEW c \in Callers, NEW kind \in Kinds, NEW target \in Policies, Begin(c, kind, target)
      PROVE  CallInv(d)'
  <2>1. UNCHANGED <<txn, ack, result, w>>
    BY <1>6 DEF Begin, files
  <2>2. CASE d = c
    <3>1. /\ call'[d].kind = kind /\ call'[d].cmd = None
          /\ call'[d].pc = IF kind = "adaptive" THEN "look" ELSE "lock"
      BY <1>1, <1>6, <2>2 DEF Begin, NoCall
    <3> QED
      BY <3>1 DEF CallInv, StagesOf, Commanded, Unchanged
  <2>3. CASE d # c
    BY <1>1, <1>6, <2>1, <2>3, LeftAlone DEF Begin
  <2> QED
    BY <2>2, <2>3
<1> QED
  BY <1>2, <1>3, <1>4, <1>5, <1>6 DEF Next

-----------------------------------------------------------------------------
(* The theorems.                                                           *)

LEMMA NextIInv == IInv /\ [Next]_vars => IInv'
  BY TypesStep, LockHeldStep, DrawnStep, NoneFromTheFutureStep, WorkerInvStep, BatchInvStep,
     OwnCommandsStep, CallsInvStep DEF IInv

\* The invariant holds of every state the transport reaches.
THEOREM Invariance == Spec => []IInv
<1>1. Init => IInv
  BY InitIInv
<1>2. IInv /\ [Next]_vars => IInv'
  BY NextIInv
<1> QED
  BY <1>1, <1>2, PTL DEF Spec

\* The lock is never held by a call that will not release it, and identifiers,
\* files and the worker's state stay within their ranges: there are as many
\* identifiers as the calls can need.
THEOREM TypeCorrect == Spec => []TypeOK
<1>1. IInv => TypeOK
  <2> SUFFICES ASSUME IInv PROVE TypeOK
    OBVIOUS
  <2>1. ids \in Ids \union {0}
    <3>1. Cardinality(Owing) \in Nat /\ ids + Cardinality(Owing) <= 4 * count.calls
      BY FS_CardinalityType DEF IInv, Drawn
    <3>2. count.calls \in 0 .. MaxCalls /\ MaxCalls \in Nat /\ ids \in Nat
      BY Bounds DEF IInv, Types, Counts
    <3> QED
      BY <3>1, <3>2 DEF Ids
  <2>2. w \in Workers /\ ack \in Acks
    BY DEF IInv, Types
  <2>3. w.cmd \in Command \union {None} /\ w.pc \in {"idle", "claim", "serve"} /\ w.left \in 0 .. Parts
    BY <2>2 DEF Workers
  <2>4. ack.txn \in Ids \union {None} /\ ack.policy \in Policies
    BY <2>2 DEF Acks
  <2> QED
    BY <2>1, <2>3, <2>4 DEF IInv, Types, LockHeld, TypeOK
<1> QED
  BY <1>1, Invariance, PTL

\* A policy admission that returns, and an adaptive pass whose transition was
\* verified, was computed from its first request to its last under the policy
\* it claims, for any number of callers, batches, crashes and restarts.
THEOREM AnswersComputedAsAdmitted == Spec => []AnswersAsAdmitted
<1>1. IInv => AnswersAsAdmitted
  BY DEF IInv, CallsInv, CallInv, AnswersAsAdmitted
<1> QED
  BY <1>1, Invariance, PTL

\* A worker applies no command written for a process before it: the command
\* file goes before a worker is spawned.
THEOREM CommandsAreOwn == Spec => NoInheritedCommand
<1>1. IInv /\ [Next]_vars => [w'.run = w.run /\ w'.epoch # w.epoch => w.cmd.run = w.run]_vars
  <2> SUFFICES ASSUME IInv, Next, w'.run = w.run, w'.epoch # w.epoch PROVE w.cmd.run = w.run
    OBVIOUS
  <2>1. w \in Workers
    BY DEF IInv, Types
  <2>2. ~Restart
    BY <2>1, Bounds DEF Restart, Spawned, Workers
  <2>3. ApplyTxn
    BY <2>1, <2>2 DEF Next, Worker, Claim, ReadRequest, ExitIdle, AcceptTxn, RejectTxn, ServePart,
         WriteResult, Crash, Stop, Step, Acquire, ReadAck, LookAtWidth, Check, WriteTxn, Submit,
         WorkerGone, Receive, VerifyPolicy, VerifyPass, Timeout, Begin, Workers
  <2> QED
    BY <2>3, Applying DEF IInv, OwnCommands
<1> QED
  BY <1>1, Invariance, PTL DEF Spec, NoInheritedCommand

\* A batch is begun at most once, across crashes, restarts and calls that gave
\* up: it leaves the files when it is begun, and its identifier is not reused.
THEOREM BatchesBegunOnce == Spec => ServedOnce
<1>1. IInv /\ [Next]_vars => [w.pc = "claim" /\ w'.pc = "serve" => w'.job \notin served]_vars
  <2> SUFFICES ASSUME IInv, Next, w.pc = "claim", w'.pc = "serve" PROVE w'.job \notin served
    OBVIOUS
  <2>1. w \in Workers
    BY DEF IInv, Types
  <2>2. ReadRequest
    <3>1. ~ApplyTxn /\ ~Restart
      BY Applying DEF Restart, Spawned
    <3>2. ~(ExitIdle \/ AcceptTxn \/ RejectTxn \/ ServePart \/ WriteResult \/ Claim)
      BY DEF ExitIdle, AcceptTxn, RejectTxn, ServePart, WriteResult, Claim, Serving, Idle
    <3>3. w' # w
      OBVIOUS
    <3>4. ~Crash /\ ~Stop
      BY <2>1, <3>3 DEF Crash, Stop, Workers
    <3>5. \A c \in Callers : ~Step(c) /\ ~Timeout(c)
      BY <3>3 DEF Step, Acquire, ReadAck, LookAtWidth, Check, WriteTxn, Submit, WorkerGone,
           Receive, VerifyPolicy, VerifyPass, Timeout
    <3>6. \A c \in Callers, kind \in Kinds, target \in Policies : ~Begin(c, kind, target)
      BY <3>3 DEF Begin
    <3> QED
      BY <3>1, <3>2, <3>4, <3>5, <3>6 DEF Next, Worker
  <2>3. processing \notin served
    BY <2>2, NoneAssumption DEF ReadRequest, IInv, BatchInv
  <2> QED
    BY <2>1, <2>2, <2>3 DEF ReadRequest, Workers
<1> QED
  BY <1>1, Invariance, PTL DEF Spec, ServedOnce
=============================================================================
