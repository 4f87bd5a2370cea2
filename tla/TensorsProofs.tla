---------------------------- MODULE TensorsProofs ----------------------------
(***************************************************************************)
(* Proofs about Tensors for every number of layers, experts and tensors,   *)
(* every job, every sequence of control files and every order of replays.  *)
(***************************************************************************)
EXTENDS Tensors, FiniteSetTheorems, SequenceTheorems, WellFoundedInduction, TLAPS

\* Every set of naturals that is not empty has a least element.
LEMMA LeastNumber ==
    ASSUME NEW T, T \subseteq Nat, T # {}
    PROVE  \E x \in T : \A y \in T : x <= y
<1>1. IsWellFoundedOn(OpToRel(<, Nat), Nat)
  BY NatLessThanWellFounded
<1>2. PICK x \in T : \A y \in T : <<y, x>> \notin OpToRel(<, Nat)
  BY <1>1, WFMin
<1>3. \A y \in T : ~ (y < x)
  BY <1>2 DEF OpToRel
<1> QED
  BY <1>3

-----------------------------------------------------------------------------
(* Where the program is.                                                   *)

MoeSources == {"blob", "safetensors", "gguf"}

Replaying == {"correct", "attribute", "search", "ddmin"}
Serving   == {"poll", "commit", "admit", "step", "emit", "log"} \cup Replaying
Policied  == {"start", "nq"} \cup Serving
Resolved  == {"gather", "verify", "mirrors", "mirrored"} \cup Policied
Loading   == {"load", "resolve", "unloaded", "denseload", "promote", "export", "gate"}
Early     == Loading \cup (Resolved \ (Serving \cup {"nq"}))

\* Which sources reach a point of the program.
ControlInv ==
  /\ job \in Jobs
  /\ pc \in {"done", "fatal"} \cup Loading \cup Resolved
  /\ pc \in {"load", "resolve", "gather"} => job.source \in MoeSources
  /\ pc \in {"mirrors", "mirrored"} \cup Policied => job.source = "blob"
  /\ pc = "verify" => job.source \in {"safetensors", "gguf"}
  /\ pc \in {"promote", "export"} => job.source \in {"gguf", "dense"}
  /\ pc = "unloaded" => job.source = "gguf"
  /\ pc = "denseload" => job.source = "dense"
  /\ pc = "gate" => job.source = "gate"
  /\ pc \in {"mirrors", "mirrored"} \cup Replaying => job.correct
  /\ pc = "denseload" => reg = {}

CountersInv ==
  /\ layer \in 0 .. NL
  /\ pc = "resolve" => layer < NL \/ NL = 0
  /\ busy \in 0 .. Tokens /\ left \in 0 .. Requests /\ drain \in BOOLEAN
  /\ pc \in {"step", "emit", "log"} \cup Replaying => busy > 0
  /\ cur = "active"
  /\ version \in Nat /\ version <= Len(job.files)

-----------------------------------------------------------------------------
(* The registry and the tables.                                            *)

Here == {s \in Slots : IsGlobal(s) \/ ValidAt(s)}

\* What a table may hold.
Held == reg \cup {NoTensor} \cup {Wide(s) : s \in Slots}

RegistryInv ==
  /\ reg \subseteq Names \ {Wide(s) : s \in Slots} /\ IsFiniteSet(reg)
  /\ job.source # "dense" => HasRoom(reg)
  /\ job.source \in MoeSources => \A t \in reg : ReadAsWritten(Content(t))

BaseInv ==
  /\ base \in [Slots -> Held]
  /\ \A s \in Slots : base[s] \in {NoTensor, Prod(s), Wide(s)} /\ (base[s] = Prod(s) => Prod(s) \in reg)
  /\ job.source \notin {"gguf", "dense"} => \A s \in Slots : base[s] # Wide(s)
  /\ pc = "resolve" => \A s \in Here : s[2] < layer => base[s] # NoTensor
  /\ pc \in Resolved \cup {"promote"} /\ job.source # "dense" => \A s \in Here : base[s] # NoTensor

MirrorsInv ==
  /\ {hi, sel} \subseteq [Slots -> Held]
  /\ pc \in Loading => \A s \in Slots : hi[s] = NoTensor /\ sel[s] = NoTensor
  /\ \A s \in Slots : hi[s] \in {NoTensor, Mirror(s), base[s]} /\ (hi[s] = Mirror(s) => Mirror(s) \in reg)
  /\ \A s \in Slots : sel[s] \in {NoTensor, hi[s], base[s]}
  /\ pc \in Policied /\ job.correct =>
       /\ \A s \in Slots : Mirror(s) \in reg => hi[s] = Mirror(s)
       /\ \A s \in Here : ~ IsGlobal(s) => hi[s] # NoTensor /\ sel[s] # NoTensor

\* What a slot serves under the policy.
Policy(s) == IF s \in promoted THEN hi[s] ELSE IF nq[s] # 0 THEN Nq(s, nq[s]) ELSE base[s]

PolicyInv ==
  /\ active \in [Slots -> Held] /\ DOMAIN nq = Slots /\ promoted \subseteq Slots
  /\ \A s \in Slots : nq[s] # 0 => ~ IsGlobal(s) /\ nq[s] \in 2 .. 15 /\ Nq(s, nq[s]) \in reg
  /\ \A s \in promoted : IsGlobal(s) => hi[s] # NoTensor
  /\ pc \in Early \cup {"nq"} => promoted = {}
  /\ promoted # {} => job.correct
  /\ pc \in Early => \A s \in Slots : nq[s] = 0 /\ active[s] = NoTensor
  /\ pc \in {"nq"} \cup Serving => \A s \in Slots : active[s] = Policy(s)

PackedInv == packed \in [PackSlots -> [src : Held, ready : {-1, 0, 1}]]

PassInv ==
  /\ mats \subseteq Materialized
  /\ pass.bad \subseteq Unmaterialized
  /\ pc \in {"attribute", "search", "ddmin"} => pass.kind \in {"correct", "attribute", "search"}
  /\ ServedMirrorsStay

TablesInv ==
  /\ ControlInv /\ CountersInv /\ RegistryInv /\ BaseInv /\ MirrorsInv /\ PolicyInv
  /\ PackedInv /\ PassInv

-----------------------------------------------------------------------------
(* Slots and names.                                                        *)

LEMMA Bounds == NL \in Nat /\ MaxAf \in Nat /\ Tokens \in Nat /\ Requests \in Nat /\ Experts \in Nat \ {0}
  BY TableBounds, ExpertsAssumption

LEMMA SlotsArePairs == \A s \in Slots : s = <<s[1], s[2]>> /\ s[1] \in Roles /\ s[2] \in 0 .. NL - 1
  BY DEF Slots, Layers

LEMMA FiniteImage ==
    ASSUME NEW S, IsFiniteSet(S), NEW f, DOMAIN f = S, f = [x \in S |-> f[x]]
    PROVE  IsFiniteSet({f[x] : x \in S})
<1> DEFINE T == {f[x] : x \in S}
<1>1. f \in Surjection(S, T)
  BY DEF Surjection
<1> HIDE DEF T
<1>2. IsFiniteSet(T)
  BY <1>1, FS_Surjection
<1> QED
  BY <1>2 DEF T

LEMMA SlotsAreFinite == IsFiniteSet(Slots)
<1>1. /\ DOMAIN RoleOrder = 1 .. 11
      /\ RoleOrder = [x \in 1 .. 11 |-> RoleOrder[x]]
  BY DEF RoleOrder
<1>2. IsFiniteSet(1 .. 11)
  <2>1. \A n \in Int : IsFiniteSet(1 .. n)
    BY FS_Interval
  <2>2. PICK n \in Int : n = 11
    OBVIOUS
  <2>3. IsFiniteSet(1 .. n)
    BY <2>1
  <2> QED
    BY <2>2, <2>3
<1>3. IsFiniteSet(Roles)
  BY <1>1, <1>2, FiniteImage DEF Roles
<1>4. IsFiniteSet(Layers)
  BY Bounds, FS_Interval DEF Layers
<1>5. IsFiniteSet(Roles \X Layers)
  BY <1>3, <1>4, FS_Product
<1> QED
  BY <1>5, FS_Subset DEF Slots

\* A name tells its slot and what it is.
LEMMA NameFacts ==
    ASSUME NEW s \in Slots
    PROVE  /\ SlotOf(Prod(s)) = s /\ SlotOf(Mirror(s)) = s /\ SlotOf(Wide(s)) = s
           /\ Prod(s)[3] = "prod" /\ Mirror(s)[3] = "hi" /\ Wide(s)[3] = "wide"
           /\ Prod(s) # NoTensor /\ Mirror(s) # NoTensor /\ Wide(s) # NoTensor
           /\ \A n \in 2 .. 15 : SlotOf(Nq(s, n)) = s /\ Nq(s, n)[3] = "nq" /\ Nq(s, n)[4] = n
                                 /\ Nq(s, n) # NoTensor
  BY SlotsArePairs DEF SlotOf, Prod, Mirror, Wide, Nq, NoTensor

LEMMA NamesOf ==
    /\ NoTensor \notin Names
    /\ \A s \in Slots : /\ Prod(s) \in Names /\ Mirror(s) \in Names /\ Wide(s) \in Names
                        /\ \A n \in 2 .. 15 : Nq(s, n) \in Names
    /\ \A t \in Names : /\ SlotOf(t) \in Slots
                        /\ t[3] \in {"prod", "hi", "wide", "nq"}
                        /\ t[3] = "prod" => t = Prod(SlotOf(t))
                        /\ t[3] = "hi" => t = Mirror(SlotOf(t))
                        /\ t[3] = "wide" => t = Wide(SlotOf(t))
                        /\ t[3] = "nq" => t[4] \in 2 .. 15 /\ t = Nq(SlotOf(t), t[4])
<1>1. NoTensor \notin Names
  BY NameFacts DEF Names
<1>2. ASSUME NEW t \in Names
      PROVE  /\ SlotOf(t) \in Slots
             /\ t[3] \in {"prod", "hi", "wide", "nq"}
             /\ t[3] = "prod" => t = Prod(SlotOf(t))
             /\ t[3] = "hi" => t = Mirror(SlotOf(t))
             /\ t[3] = "wide" => t = Wide(SlotOf(t))
             /\ t[3] = "nq" => t[4] \in 2 .. 15 /\ t = Nq(SlotOf(t), t[4])
  BY NameFacts DEF Names
<1> QED
  BY <1>1, <1>2 DEF Names

-----------------------------------------------------------------------------
(* Every tensor is read in the layout it was written in.                   *)

LEMMA FirstOf ==
    ASSUME NEW T, T \subseteq Nat, T # {}
    PROVE  (CHOOSE i \in T : \A k \in T : i <= k) \in T
  BY LeastNumber

LEMMA RoleBitsAreWidths ==
    ASSUME job \in Jobs, NEW s, NEW d \in RoleWidths
    PROVE  RoleBits(s, d) \in RoleWidths
<1> DEFINE at == IF IsGlobal(s) THEN -1 ELSE s[2]
           fits == {i \in DOMAIN job.bits : job.bits[i].role = s[1] /\ job.bits[i].layer \in {-1, at}}
<1>1. fits \subseteq Nat /\ \A i \in fits : job.bits[i].bits \in RoleWidths
  BY JobsAssumption
<1>2. fits # {} => (CHOOSE i \in fits : \A k \in fits : i <= k) \in fits
  <2> HIDE DEF fits
  <2> QED
    BY <1>1, FirstOf
<1>3. RoleBits(s, d) = IF fits = {} THEN d
                       ELSE job.bits[CHOOSE i \in fits : \A k \in fits : i <= k].bits
  BY DEF RoleBits
<1> QED
  <2> HIDE DEF fits
  <2> QED
    BY <1>1, <1>2, <1>3

LEMMA UniformReads ==
    /\ ReadAsWritten(AffineTensor) /\ ReadAsWritten(Q4Tensor) /\ ReadAsWritten(Q8Tensor)
    /\ ReadAsWritten(F16Tensor) /\ ReadAsWritten(F32Tensor) /\ ReadAsWritten(MxFp4Tensor)
  BY DEF ReadAsWritten, DecodedAs, Width, Tensor, Uniform, AffineTensor, Q4Tensor, Q8Tensor,
         F16Tensor, F32Tensor, MxFp4Tensor, MxFp4Bits, QNg64Supported

LEMMA PlanesRead ==
    ASSUME NEW n, QNg64Supported(n)
    PROVE  ReadAsWritten(QNg64Tensor(n))
  BY DEF ReadAsWritten, DecodedAs, Width, Tensor, Uniform, QNg64Tensor, MxFp4Bits, QNg64Supported

LEMMA MixedReads ==
    ASSUME NEW eb \in [1 .. Experts -> RoleWidths]
    PROVE  ReadAsWritten(MixedTensor(eb))
<1>1. eb # <<>>
  BY Bounds
<1> SUFFICES ASSUME NEW e \in 1 .. Experts
             PROVE  DecodedAs(MixedTensor(eb), e) = MixedTensor(eb).packs[e]
  BY DEF ReadAsWritten
<1>2. eb[e] \in RoleWidths
  OBVIOUS
<1> QED
  BY <1>1, <1>2
     DEF DecodedAs, Width, Tensor, MixedTensor, MixedLayout, MxFp4Bits, QNg64Supported, RoleWidths

LEMMA DenseReads ==
    ASSUME NEW b \in RoleWidths
    PROVE  ReadAsWritten(DenseTensor(b))
<1>1. b \in {32, 16, 8, 4} \/ QNg64Supported(b)
  BY DEF RoleWidths, QNg64Supported
<1> QED
  BY <1>1, UniformReads, PlanesRead DEF DenseTensor

\* What a loader of the MoE engine writes is read back.
LEMMA ProductionReads ==
    ASSUME job \in Jobs, job.source \in MoeSources, NEW s
    PROVE  ReadAsWritten(Production(s))
<1>1. CASE job.source = "blob"
  BY <1>1, UniformReads DEF Production
<1>2. CASE job.source = "gguf"
  BY <1>2, UniformReads DEF Production
<1>3. CASE job.source = "safetensors"
  <2>1. RoleBits(s, 32) \in RoleWidths /\ RoleBits(s, 8) \in RoleWidths
    BY RoleBitsAreWidths DEF RoleWidths
  <2>2. job.ebits = <<>> \/ job.ebits \in [1 .. Experts -> RoleWidths]
    BY JobsAssumption
  <2> QED
    BY <1>3, <2>1, <2>2, UniformReads, DenseReads, MixedReads DEF Production
<1> QED
  BY <1>1, <1>2, <1>3 DEF MoeSources

-----------------------------------------------------------------------------
(* The run is chosen once, and with it what the names stand for.           *)

LEMMA JobStays == [Next]_vars => job' = job
  BY DEF Next, TensorNext, ExportNext, Ended, vars, tensorVars, LoadLayer, LoadGlobals,
         ResolveLayer, RegisterMirrors, ResolveMirrors, ActiveInit, NqLine, NqDone, Verify,
         VerifyGather, Publish, Poll, Commit, Admit, Step, Emit, Log, Correct, Attribute,
         SearchStart, SearchStep, DenseLoad, PromoteLine, PromoteDone, Export, ExportUnloaded,
         GateStep

LEMMA JobDecides ==
    ASSUME job' = job
    PROVE  /\ \A s : ValidAt(s)' = ValidAt(s)
           /\ \A t : Content(t)' = Content(t)
           /\ \A t : IsLazy(t)' = IsLazy(t)
           /\ \A t : InF32Store(t)' = InF32Store(t)
           /\ \A s : Wanted(s)' = Wanted(s)
           /\ Here' = Here
<1>1. \A s : ValidAt(s)' = ValidAt(s)
  BY DEF ValidAt
<1>2. \A t : Content(t)' = Content(t)
  <2>1. \A s, d : RoleBits(s, d)' = RoleBits(s, d)
    BY DEF RoleBits
  <2>2. \A s : Production(s)' = Production(s)
    BY <2>1 DEF Production
  <2>3. \A s : MirrorTensor(s)' = MirrorTensor(s)
    BY DEF MirrorTensor
  <2> QED
    BY <2>2, <2>3 DEF Content
<1>3. \A t : IsLazy(t)' = IsLazy(t)
  BY <1>2 DEF IsLazy
<1>4. \A t : InF32Store(t)' = InF32Store(t)
  BY <1>2 DEF InF32Store
<1>5. \A s : Wanted(s)' = Wanted(s)
  BY DEF Wanted
<1>6. Here' = Here
  BY <1>1 DEF Here
<1> QED
  BY <1>1, <1>2, <1>3, <1>4, <1>5, <1>6

-----------------------------------------------------------------------------
(* The order of the steps, and the counters.                               *)

\* Each point of the program belongs to the runs of some loaders.
LEMMA ControlStep == TablesInv /\ [Next]_vars => ControlInv'
<1> SUFFICES ASSUME TablesInv, [Next]_vars PROVE ControlInv'
  OBVIOUS
<1> USE DEF loadVars, mirrorVars, policyVars, replayVars, controlVars, Goto, TablesInv, ControlInv,
            AfterResolve, Resolved, Policied, Serving, Replaying, MoeSources, Loading
<1>1. ASSUME LoadLayer PROVE ControlInv'
  BY <1>1 DEF LoadLayer, Register, Stop
<1>2. ASSUME LoadGlobals PROVE ControlInv'
  BY <1>2 DEF LoadGlobals, Register, Stop
<1>3. ASSUME ResolveLayer PROVE ControlInv'
  BY <1>3 DEF ResolveLayer, Stop
<1>4. ASSUME RegisterMirrors PROVE ControlInv'
  BY <1>4 DEF RegisterMirrors
<1>5. ASSUME ResolveMirrors PROVE ControlInv'
  BY <1>5 DEF ResolveMirrors
<1>6. ASSUME ActiveInit PROVE ControlInv'
  BY <1>6 DEF ActiveInit
<1>7. ASSUME NqLine PROVE ControlInv'
  BY <1>7 DEF NqLine
<1>8. ASSUME NqDone PROVE ControlInv'
  BY <1>8 DEF NqDone
<1>9. ASSUME Verify PROVE ControlInv'
  BY <1>9 DEF Verify, Pass
<1>10. ASSUME VerifyGather PROVE ControlInv'
  BY <1>10 DEF VerifyGather, Batched
<1>11. ASSUME Publish PROVE ControlInv'
  BY <1>11 DEF Publish
<1>12. ASSUME Poll PROVE ControlInv'
  BY <1>12 DEF Poll
<1>13. ASSUME Commit PROVE ControlInv'
  BY <1>13 DEF Commit
<1>14. ASSUME Admit PROVE ControlInv'
  BY <1>14 DEF Admit
<1>15. ASSUME Step PROVE ControlInv'
  BY <1>15 DEF Step, Batched, Looked
<1>16. ASSUME Emit PROVE ControlInv'
  BY <1>16 DEF Emit
<1>17. ASSUME Log PROVE ControlInv'
  BY <1>17 DEF Log, Pass
<1>18. ASSUME Correct PROVE ControlInv'
  BY <1>18 DEF Correct, Pass, Corrected
<1>19. ASSUME Attribute PROVE ControlInv'
  BY <1>19 DEF Attribute, Pass
<1>20. ASSUME SearchStart PROVE ControlInv'
  <2>1. job.search.kind \in {"none", "full", "list"}
    BY JobsAssumption
  <2> QED
    BY <1>20, <2>1 DEF SearchStart, Pass, Corrected
<1>21. ASSUME SearchStep PROVE ControlInv'
  BY <1>21 DEF SearchStep, Pass, Corrected
<1>22. ASSUME DenseLoad PROVE ControlInv'
  BY <1>22 DEF DenseLoad, Stop, exportVars
<1>23. ASSUME PromoteLine PROVE ControlInv'
  BY <1>23 DEF PromoteLine, PromoteSlot
<1>24. ASSUME PromoteDone PROVE ControlInv'
  <2>1. job.export \in BOOLEAN
    BY JobsAssumption
  <2> QED
    BY <1>24, <2>1 DEF PromoteDone, exportVars, IsDenseEngine
<1>25. ASSUME Export PROVE ControlInv'
  BY <1>25 DEF Export
<1>26. ASSUME ExportUnloaded PROVE ControlInv'
  BY <1>26 DEF ExportUnloaded
<1>27. ASSUME GateStep PROVE ControlInv'
  BY <1>27 DEF GateStep
<1>28. CASE UNCHANGED vars
  BY <1>28 DEF vars, tensorVars, exportVars, gateVars
<1> QED
  BY <1>1, <1>2, <1>3, <1>4, <1>5, <1>6, <1>7, <1>8, <1>9, <1>10, <1>11, <1>12, <1>13, <1>14,
     <1>15, <1>16, <1>17, <1>18, <1>19, <1>20, <1>21, <1>22, <1>23, <1>24, <1>25, <1>26, <1>27,
     <1>28
     DEF Next, TensorNext, ExportNext, Ended

\* A token is served only while a request is in progress.
LEMMA CountersStep == TablesInv /\ [Next]_vars => CountersInv'
<1> SUFFICES ASSUME TablesInv, [Next]_vars PROVE CountersInv'
  OBVIOUS
<1> USE Bounds
<1> USE DEF loadVars, mirrorVars, policyVars, replayVars, controlVars, Goto, TablesInv,
            CountersInv, AfterResolve, Serving, Replaying
<1>1. ASSUME LoadLayer PROVE CountersInv'
  BY <1>1 DEF LoadLayer, Register, Stop
<1>2. ASSUME LoadGlobals PROVE CountersInv'
  BY <1>2 DEF LoadGlobals, Register, Stop
<1>3. ASSUME ResolveLayer PROVE CountersInv'
  <2>1. layer < NL /\ layer \in Nat
    BY <1>3 DEF ResolveLayer
  <2>2. (layer + 1) % NL = IF layer + 1 = NL THEN 0 ELSE layer + 1
    BY <2>1
  <2>3. layer' \in 0 .. NL /\ (pc' = "resolve" => layer' < NL)
    <3>1. layer' \in {layer, (layer + 1) % NL}
      BY <1>3 DEF ResolveLayer, Stop
    <3> QED
      BY <2>1, <2>2, <3>1
  <2>4. pc' \in {"fatal", "resolve", "gather", "mirrors", "start", "promote", "verify"}
    <3>1. job.source \in MoeSources
      BY <1>3 DEF ResolveLayer, ControlInv
    <3> QED
      BY <1>3, <3>1 DEF ResolveLayer, Stop, MoeSources
  <2>5. UNCHANGED <<job, cur, busy, left, drain, version>>
    BY <1>3 DEF ResolveLayer
  <2> QED
    BY <2>3, <2>4, <2>5
<1>4. ASSUME RegisterMirrors PROVE CountersInv'
  BY <1>4 DEF RegisterMirrors
<1>5. ASSUME ResolveMirrors PROVE CountersInv'
  BY <1>5 DEF ResolveMirrors
<1>6. ASSUME ActiveInit PROVE CountersInv'
  BY <1>6 DEF ActiveInit
<1>7. ASSUME NqLine PROVE CountersInv'
  BY <1>7 DEF NqLine
<1>8. ASSUME NqDone PROVE CountersInv'
  BY <1>8 DEF NqDone
<1>9. ASSUME Verify PROVE CountersInv'
  BY <1>9 DEF Verify, Pass
<1>10. ASSUME VerifyGather PROVE CountersInv'
  BY <1>10 DEF VerifyGather, Batched
<1>11. ASSUME Publish PROVE CountersInv'
  BY <1>11 DEF Publish
<1>12. ASSUME Poll PROVE CountersInv'
  BY <1>12 DEF Poll
<1>13. ASSUME Commit PROVE CountersInv'
  BY <1>13 DEF Commit
<1>14. ASSUME Admit PROVE CountersInv'
  BY <1>14 DEF Admit
<1>15. ASSUME Step PROVE CountersInv'
  BY <1>15 DEF Step, Batched, Looked
<1>16. ASSUME Emit PROVE CountersInv'
  BY <1>16 DEF Emit
<1>17. ASSUME Log PROVE CountersInv'
  BY <1>17 DEF Log, Pass
<1>18. ASSUME Correct PROVE CountersInv'
  BY <1>18 DEF Correct, Pass, Corrected
<1>19. ASSUME Attribute PROVE CountersInv'
  BY <1>19 DEF Attribute, Pass
<1>20. ASSUME SearchStart PROVE CountersInv'
  <2>1. job.search.kind \in {"none", "full", "list"}
    BY JobsAssumption DEF ControlInv
  <2> QED
    BY <1>20, <2>1 DEF SearchStart, Pass, Corrected
<1>21. ASSUME SearchStep PROVE CountersInv'
  BY <1>21 DEF SearchStep, Pass, Corrected
<1>22. ASSUME DenseLoad PROVE CountersInv'
  BY <1>22 DEF DenseLoad, Stop, exportVars
<1>23. ASSUME PromoteLine PROVE CountersInv'
  BY <1>23 DEF PromoteLine, PromoteSlot
<1>24. ASSUME PromoteDone PROVE CountersInv'
  BY <1>24 DEF PromoteDone, exportVars
<1>25. ASSUME Export PROVE CountersInv'
  BY <1>25 DEF Export
<1>26. ASSUME ExportUnloaded PROVE CountersInv'
  BY <1>26 DEF ExportUnloaded
<1>27. ASSUME GateStep PROVE CountersInv'
  BY <1>27 DEF GateStep
<1>28. CASE UNCHANGED vars
  BY <1>28 DEF vars, tensorVars, exportVars, gateVars
<1> QED
  BY <1>1, <1>2, <1>3, <1>4, <1>5, <1>6, <1>7, <1>8, <1>9, <1>10, <1>11, <1>12, <1>13, <1>14,
     <1>15, <1>16, <1>17, <1>18, <1>19, <1>20, <1>21, <1>22, <1>23, <1>24, <1>25, <1>26, <1>27,
     <1>28
     DEF Next, TensorNext, ExportNext, Ended

-----------------------------------------------------------------------------
(* The registry.                                                           *)

\* The names that belong to slots.
LEMMA NamesAreFinite ==
    ASSUME NEW S, S \subseteq Slots
    PROVE  /\ IsFiniteSet(S)
           /\ IsFiniteSet({Prod(s) : s \in S}) /\ IsFiniteSet({Mirror(s) : s \in S})
<1>1. IsFiniteSet(S)
  BY SlotsAreFinite, FS_Subset
<1>2. IsFiniteSet({Prod(s) : s \in S})
  <2> DEFINE f == [s \in S |-> Prod(s)]
  <2>1. IsFiniteSet({f[s] : s \in S})
    BY <1>1, FiniteImage
  <2>2. {f[s] : s \in S} = {Prod(s) : s \in S}
    OBVIOUS
  <2> QED
    BY <2>1, <2>2
<1>3. IsFiniteSet({Mirror(s) : s \in S})
  <2> DEFINE f == [s \in S |-> Mirror(s)]
  <2>1. IsFiniteSet({f[s] : s \in S})
    BY <1>1, FiniteImage
  <2>2. {f[s] : s \in S} = {Mirror(s) : s \in S}
    OBVIOUS
  <2> QED
    BY <2>1, <2>2
<1> QED
  BY <1>1, <1>2, <1>3

\* A part of what there is room for fits as well.
LEMMA RoomForLess ==
    ASSUME NEW S, NEW T, T \subseteq S, IsFiniteSet(S), HasRoom(S)
    PROVE  HasRoom(T)
<1> DEFINE big == {t \in S : ~ InF32Store(t)}
           small == {t \in T : ~ InF32Store(t)}
<1>1. IsFiniteSet(big) /\ small \subseteq big
  BY FS_Subset
<1>2. Cardinality(small) <= Cardinality(big) /\ Cardinality(big) \in Nat /\ Cardinality(small) \in Nat
  BY <1>1, FS_Subset, FS_CardinalityType
<1>3. Cardinality(big) <= MaxAf
  BY DEF HasRoom
<1>4. Cardinality(small) <= MaxAf
  <2> HIDE DEF big, small
  <2> QED
    BY <1>2, <1>3, Bounds
<1> QED
  BY <1>4 DEF HasRoom

LEMMA RegistryIs ==
    ASSUME job' = job,
           reg' \subseteq Names \ {Wide(s) : s \in Slots}, IsFiniteSet(reg'),
           job.source # "dense" => HasRoom(reg'),
           job.source \in MoeSources => \A t \in reg' : ReadAsWritten(Content(t))
    PROVE  RegistryInv'
<1>1. {t \in reg' : ~ InF32Store(t)'} = {t \in reg' : ~ InF32Store(t)}
  BY JobDecides
<1>2. HasRoom(reg') <=> HasRoom(reg)'
  BY <1>1 DEF HasRoom
<1>3. \A t : Content(t)' = Content(t)
  BY JobDecides
<1> QED
  BY <1>2, <1>3 DEF RegistryInv

LEMMA RegistryKept ==
    ASSUME RegistryInv, job' = job, reg' = reg
    PROVE  RegistryInv'
  BY RegistryIs DEF RegistryInv

\* Production tensors are registered as far as the registry has room.
LEMMA ProductionRegistered ==
    ASSUME RegistryInv, job \in Jobs, job.source \in MoeSources, job' = job,
           NEW S, S \subseteq Slots, HasRoom(reg \cup {Prod(s) : s \in S}),
           reg' = reg \cup {t \in {Prod(s) : s \in S} : SlotOf(t) # job.missing}
    PROVE  RegistryInv'
<1> DEFINE mine == {Prod(s) : s \in S}
<1>1. IsFiniteSet(reg \cup mine) /\ reg' \subseteq reg \cup mine
  <2>1. IsFiniteSet(mine)
    BY NamesAreFinite
  <2> QED
    BY <2>1, FS_Union DEF RegistryInv
<1>2. IsFiniteSet(reg') /\ HasRoom(reg')
  BY <1>1, RoomForLess, FS_Subset
<1>3. reg' \subseteq Names \ {Wide(s) : s \in Slots}
  <2>1. \A s \in S : Prod(s) \in Names /\ Prod(s) \notin {Wide(x) : x \in Slots}
    BY NamesOf, NameFacts
  <2> QED
    BY <2>1, <1>1 DEF RegistryInv
<1>4. \A t \in reg' : ReadAsWritten(Content(t))
  <2>1. \A s \in S : Content(Prod(s)) = Production(s)
    BY NameFacts DEF Content
  <2>2. \A s \in S : ReadAsWritten(Production(s))
    BY ProductionReads
  <2> QED
    BY <1>1, <2>1, <2>2 DEF RegistryInv
<1> QED
  BY <1>2, <1>3, <1>4, RegistryIs

\* The registry never holds more than it has room for, and everything that the
\* MoE engine registers is read in the layout it was written in.
LEMMA RegistryStep == TablesInv /\ [Next]_vars => RegistryInv'
<1> SUFFICES ASSUME TablesInv, [Next]_vars PROVE RegistryInv'
  OBVIOUS
<1> USE DEF loadVars, mirrorVars, policyVars, replayVars, controlVars, Goto
<1>1. ASSUME LoadLayer PROVE RegistryInv'
  <2>1. job.source \in MoeSources /\ job \in Jobs /\ LayerSlots(layer) \subseteq Slots
    BY <1>1 DEF LoadLayer, TablesInv, ControlInv, LayerSlots
  <2> DEFINE mine == LayerSlots(layer)
  <2>2. \/ reg' = reg
        \/ /\ HasRoom(reg \cup {Prod(s) : s \in mine})
           /\ reg' = reg \cup {t \in {Prod(s) : s \in mine} : SlotOf(t) # job.missing}
    BY <1>1 DEF LoadLayer, Register, Stop
  <2>3. job' = job /\ RegistryInv
    BY <1>1 DEF LoadLayer, TablesInv
  <2> HIDE DEF mine
  <2> QED
    BY <2>1, <2>2, <2>3, RegistryKept, ProductionRegistered DEF mine
<1>2. ASSUME LoadGlobals PROVE RegistryInv'
  <2>1. job.source \in MoeSources /\ job \in Jobs /\ GlobalSlots \subseteq Slots
    BY <1>2 DEF LoadGlobals, TablesInv, ControlInv, GlobalSlots
  <2>2. \/ reg' = reg
        \/ /\ HasRoom(reg \cup {Prod(s) : s \in GlobalSlots})
           /\ reg' = reg \cup {t \in {Prod(s) : s \in GlobalSlots} : SlotOf(t) # job.missing}
    BY <1>2 DEF LoadGlobals, Register, Stop
  <2>3. job' = job /\ RegistryInv
    BY <1>2 DEF LoadGlobals, TablesInv
  <2> QED
    BY <2>1, <2>2, <2>3, RegistryKept, ProductionRegistered
<1>3. ASSUME ResolveLayer PROVE RegistryInv'
  BY <1>3, RegistryKept DEF ResolveLayer, Stop, TablesInv
<1>4. ASSUME RegisterMirrors PROVE RegistryInv'
  <2> DEFINE slots == {s \in Slots : /\ ValidAt(s) /\ Wanted(s)
                                     /\ s[1] = "expert" => s[2] \in job.expertLayers}
             mine == {Mirror(s) : s \in slots}
  <2>1. /\ job' = job /\ RegistryInv
        /\ \/ reg' = reg
           \/ /\ reg' = reg \cup mine /\ HasRoom(reg \cup mine)
              /\ \A s \in slots : ~ (job.sim.slot = s /\ job.sim.n # 32 /\ ~ QNg64Supported(job.sim.n))
    BY <1>4 DEF RegisterMirrors, TablesInv
  <2>2. CASE reg' = reg
    BY <2>1, <2>2, RegistryKept
  <2>3. CASE reg' # reg
    <3>1. slots \subseteq Slots
      OBVIOUS
    <3>2. IsFiniteSet(reg')
      <4>1. IsFiniteSet(mine)
        BY <3>1, NamesAreFinite
      <4> QED
        BY <2>1, <2>3, <4>1, FS_Union DEF RegistryInv
    <3>3. reg' \subseteq Names \ {Wide(s) : s \in Slots}
      <4>1. \A s \in slots : Mirror(s) \in Names /\ Mirror(s) \notin {Wide(x) : x \in Slots}
        BY <3>1, NamesOf, NameFacts
      <4> QED
        BY <2>1, <2>3, <4>1 DEF RegistryInv
    <3>4. \A s \in slots : ReadAsWritten(Content(Mirror(s)))
      <4> SUFFICES ASSUME NEW s \in slots PROVE ReadAsWritten(Content(Mirror(s)))
        OBVIOUS
      <4>1. Content(Mirror(s)) = MirrorTensor(s)
        BY <3>1, NameFacts DEF Content
      <4>2. job.sim.slot = s => job.sim.n = 32 \/ QNg64Supported(job.sim.n)
        BY <2>1, <2>3
      <4> QED
        BY <4>1, <4>2, UniformReads, PlanesRead DEF MirrorTensor
    <3>5. job.source \in MoeSources => \A t \in reg' : ReadAsWritten(Content(t))
      <4> HIDE DEF slots
      <4> QED
        BY <2>1, <2>3, <3>4 DEF RegistryInv
    <3> QED
      BY <2>1, <2>3, <3>2, <3>3, <3>5, RegistryIs
  <2> QED
    BY <2>2, <2>3
<1>5. ASSUME ResolveMirrors PROVE RegistryInv'
  BY <1>5, RegistryKept DEF ResolveMirrors, TablesInv
<1>6. ASSUME ActiveInit PROVE RegistryInv'
  BY <1>6, RegistryKept DEF ActiveInit, TablesInv
<1>7. ASSUME NqLine PROVE RegistryInv'
  <2> DEFINE s == job.nq[line].slot
             n == job.nq[line].n
  <2>1. /\ job' = job /\ RegistryInv
        /\ \/ reg' = reg
           \/ ~ NqInvalid(s, n) /\ HasRoom(reg \cup {Nq(s, n)}) /\ reg' = reg \cup {Nq(s, n)}
    BY <1>7 DEF NqLine, TablesInv
  <2> HIDE DEF s, n
  <2>2. CASE reg' = reg
    BY <2>1, <2>2, RegistryKept
  <2>3. CASE ~ NqInvalid(s, n) /\ HasRoom(reg \cup {Nq(s, n)}) /\ reg' = reg \cup {Nq(s, n)}
    <3>1. s \in Slots /\ QNg64Supported(n) /\ n \in 2 .. 15
      BY <2>3 DEF NqInvalid, QNg64Supported
    <3>2. Nq(s, n) \in Names \ {Wide(x) : x \in Slots} /\ Content(Nq(s, n)) = QNg64Tensor(n)
      <4>1. Nq(s, n) \in Names /\ Nq(s, n)[3] = "nq" /\ Nq(s, n)[4] = n
        BY <3>1, NamesOf, NameFacts
      <4>2. \A x \in Slots : Wide(x)[3] = "wide"
        BY NameFacts
      <4> QED
        BY <4>1, <4>2 DEF Content
    <3>3. IsFiniteSet(reg')
      BY <2>1, <2>3, FS_AddElement DEF RegistryInv
    <3>4. job.source \in MoeSources => \A t \in reg' : ReadAsWritten(Content(t))
      BY <2>1, <2>3, <3>1, <3>2, PlanesRead DEF RegistryInv
    <3>5. reg' \subseteq Names \ {Wide(x) : x \in Slots}
      BY <2>1, <2>3, <3>2 DEF RegistryInv
    <3> QED
      BY <2>1, <2>3, <3>3, <3>4, <3>5, RegistryIs
  <2> QED
    BY <2>1, <2>2, <2>3
<1>8. ASSUME NqDone PROVE RegistryInv'
  BY <1>8, RegistryKept DEF NqDone, TablesInv
<1>9. ASSUME Verify PROVE RegistryInv'
  BY <1>9, RegistryKept DEF Verify, Pass, TablesInv
<1>10. ASSUME VerifyGather PROVE RegistryInv'
  BY <1>10, RegistryKept DEF VerifyGather, Batched, TablesInv
<1>11. ASSUME Publish PROVE RegistryInv'
  BY <1>11, RegistryKept DEF Publish, TablesInv
<1>12. ASSUME Poll PROVE RegistryInv'
  BY <1>12, RegistryKept DEF Poll, TablesInv
<1>13. ASSUME Commit PROVE RegistryInv'
  BY <1>13, RegistryKept DEF Commit, TablesInv
<1>14. ASSUME Admit PROVE RegistryInv'
  BY <1>14, RegistryKept DEF Admit, TablesInv
<1>15. ASSUME Step PROVE RegistryInv'
  BY <1>15, RegistryKept DEF Step, Batched, Looked, TablesInv
<1>16. ASSUME Emit PROVE RegistryInv'
  BY <1>16, RegistryKept DEF Emit, TablesInv
<1>17. ASSUME Log PROVE RegistryInv'
  BY <1>17, RegistryKept DEF Log, Pass, TablesInv
<1>18. ASSUME Correct PROVE RegistryInv'
  BY <1>18, RegistryKept DEF Correct, Pass, Corrected, TablesInv
<1>19. ASSUME Attribute PROVE RegistryInv'
  BY <1>19, RegistryKept DEF Attribute, Pass, TablesInv
<1>20. ASSUME SearchStart PROVE RegistryInv'
  BY <1>20, RegistryKept DEF SearchStart, Pass, Corrected, TablesInv
<1>21. ASSUME SearchStep PROVE RegistryInv'
  BY <1>21, RegistryKept DEF SearchStep, Pass, Corrected, TablesInv
<1>22. ASSUME DenseLoad PROVE RegistryInv'
  <2> DEFINE mine == {s \in Slots : IsGlobal(s) \/ s[1] \in DenseWtRoles}
  <2>1. /\ job' = job /\ RegistryInv /\ job.source = "dense"
        /\ reg' = reg \/ reg' = {Prod(s) : s \in mine}
    BY <1>22 DEF DenseLoad, Stop, TablesInv, ControlInv
  <2>2. IsFiniteSet({Prod(s) : s \in mine})
    BY NamesAreFinite
  <2>3. {Prod(s) : s \in mine} \subseteq Names \ {Wide(s) : s \in Slots}
    BY NamesOf, NameFacts
  <2> QED
    BY <2>1, <2>2, <2>3, RegistryKept, RegistryIs DEF MoeSources
<1>23. ASSUME PromoteLine PROVE RegistryInv'
  BY <1>23, RegistryKept DEF PromoteLine, PromoteSlot, TablesInv
<1>24. ASSUME PromoteDone PROVE RegistryInv'
  BY <1>24, RegistryKept DEF PromoteDone, exportVars, TablesInv
<1>25. ASSUME Export PROVE RegistryInv'
  BY <1>25, RegistryKept DEF Export, TablesInv
<1>26. ASSUME ExportUnloaded PROVE RegistryInv'
  BY <1>26, RegistryKept DEF ExportUnloaded, TablesInv
<1>27. ASSUME GateStep PROVE RegistryInv'
  BY <1>27, RegistryKept DEF GateStep, TablesInv
<1>28. CASE UNCHANGED vars
  BY <1>28, RegistryKept DEF vars, tensorVars, exportVars, gateVars, TablesInv
<1> QED
  BY <1>1, <1>2, <1>3, <1>4, <1>5, <1>6, <1>7, <1>8, <1>9, <1>10, <1>11, <1>12, <1>13, <1>14,
     <1>15, <1>16, <1>17, <1>18, <1>19, <1>20, <1>21, <1>22, <1>23, <1>24, <1>25, <1>26, <1>27,
     <1>28
     DEF Next, TensorNext, ExportNext, Ended

-----------------------------------------------------------------------------
(* The production table.                                                   *)

\* What the tables hold stays in the registry.
LEMMA HeldGrows ==
    ASSUME reg \subseteq reg'
    PROVE  Held \subseteq Held'
  BY DEF Held

LEMMA BaseKept ==
    ASSUME BaseInv, job' = job, base' = base, reg \subseteq reg',
           pc' = "resolve" => layer' = 0 \/ (pc = "resolve" /\ layer' = layer),
           pc' \in Resolved \cup {"promote"} /\ job.source # "dense" => pc \in Resolved \cup {"promote"}
    PROVE  BaseInv'
<1>1. Here' = Here
  BY JobDecides
<1>2. layer' = 0 => \A s \in Here : ~ (s[2] < layer')
  BY SlotsArePairs, Bounds DEF Here
<1>3. base' \in [Slots -> Held']
  BY HeldGrows DEF BaseInv
<1> QED
  BY <1>1, <1>2, <1>3 DEF BaseInv

\* After its layer is resolved no slot of the model is without a tensor, and it
\* holds the production tensor until it is promoted to 32 bits.
LEMMA BaseStep == TablesInv /\ [Next]_vars => BaseInv'
<1> SUFFICES ASSUME TablesInv, [Next]_vars PROVE BaseInv'
  OBVIOUS
<1> USE DEF loadVars, mirrorVars, policyVars, replayVars, controlVars, Goto
<1>1. ASSUME LoadLayer PROVE BaseInv'
  BY <1>1, BaseKept DEF LoadLayer, Register, Stop, TablesInv, Resolved, Policied, Serving,
      Replaying
<1>2. ASSUME LoadGlobals PROVE BaseInv'
  BY <1>2, BaseKept DEF LoadGlobals, Register, Stop, TablesInv, Resolved, Policied, Serving,
      Replaying
<1>3. ASSUME ResolveLayer PROVE BaseInv'
  <2> DEFINE mine == {s \in Slots : s[2] = layer /\ (IsGlobal(s) \/ ValidAt(s))}
  <2>1. /\ BaseInv /\ job' = job /\ reg' = reg /\ pc = "resolve" /\ layer < NL /\ layer \in 0 .. NL
        /\ job.source \in MoeSources
    BY <1>3 DEF ResolveLayer, Stop, TablesInv, CountersInv, ControlInv
  <2>2. CASE pc' = "fatal" /\ base' = base
    BY <2>1, <2>2, BaseKept DEF Resolved, Policied, Serving, Replaying
  <2>3. CASE /\ \A s \in mine : Prod(s) \in reg
             /\ base' = [s \in Slots |-> IF s \in mine THEN Prod(s) ELSE base[s]]
             /\ layer' = (layer + 1) % NL
             /\ pc' = IF layer + 1 = NL THEN AfterResolve ELSE "resolve"
    <3>1. Here' = Here
      BY <2>1, JobDecides
    <3>2. /\ base' \in [Slots -> Held']
          /\ \A s \in Slots : /\ base'[s] \in {NoTensor, Prod(s), Wide(s)}
                              /\ base'[s] = Prod(s) => Prod(s) \in reg'
                              /\ job.source \notin {"gguf", "dense"} => base'[s] # Wide(s)
      <4>1. \A s \in Slots : Prod(s) # Wide(s)
        BY NameFacts
      <4> HIDE DEF mine
      <4> QED
        BY <2>1, <2>3, <4>1 DEF BaseInv, Held
    <3>3. \A s \in Here : s[2] < layer + 1 => base'[s] # NoTensor
      <4> SUFFICES ASSUME NEW s \in Here, s[2] < layer + 1 PROVE base'[s] # NoTensor
        OBVIOUS
      <4>1. s \in Slots /\ s[2] \in Int /\ layer \in Int
        BY <2>1, SlotsArePairs, Bounds DEF Here
      <4>2. CASE s[2] = layer
        <5>1. s \in mine
          BY <4>1, <4>2 DEF Here
        <5> QED
          BY <2>3, <4>1, <5>1, NameFacts
      <4>3. CASE s[2] < layer
        <5>1. s \notin mine
          BY <4>1, <4>3
        <5> QED
          BY <2>1, <2>3, <4>1, <4>3, <5>1 DEF BaseInv
      <4> QED
        BY <4>1, <4>2, <4>3
    <3>4. CASE layer + 1 = NL
      <4>1. pc' # "resolve"
        BY <2>1, <2>3, <3>4 DEF AfterResolve, MoeSources
      <4>2. \A s \in Here : s[2] < layer + 1
        BY <3>4, SlotsArePairs, Bounds DEF Here
      <4> QED
        BY <2>1, <3>1, <3>2, <3>3, <4>1, <4>2 DEF BaseInv
    <3>5. CASE layer + 1 # NL
      <4>1. layer + 1 < NL /\ layer \in Nat
        BY <2>1, <3>5, Bounds
      <4>2. layer' = layer + 1
        BY <2>3, <4>1, Bounds
      <4>3. pc' = "resolve"
        BY <2>3, <3>5
      <4> QED
        BY <2>1, <3>1, <3>2, <3>3, <4>2, <4>3 DEF BaseInv, Resolved, Policied, Serving, Replaying
    <3> QED
      BY <3>4, <3>5
  <2> QED
    BY <1>3, <2>1, <2>2, <2>3 DEF ResolveLayer, Stop
<1>4. ASSUME RegisterMirrors PROVE BaseInv'
  BY <1>4, BaseKept DEF RegisterMirrors, TablesInv, Resolved, Policied, Serving, Replaying
<1>5. ASSUME ResolveMirrors PROVE BaseInv'
  BY <1>5, BaseKept DEF ResolveMirrors, TablesInv, Resolved, Policied, Serving, Replaying
<1>6. ASSUME ActiveInit PROVE BaseInv'
  BY <1>6, BaseKept DEF ActiveInit, TablesInv, Resolved, Policied, Serving, Replaying
<1>7. ASSUME NqLine PROVE BaseInv'
  BY <1>7, BaseKept DEF NqLine, TablesInv, Resolved, Policied, Serving, Replaying
<1>8. ASSUME NqDone PROVE BaseInv'
  BY <1>8, BaseKept DEF NqDone, TablesInv, Resolved, Policied, Serving, Replaying
<1>9. ASSUME Verify PROVE BaseInv'
  BY <1>9, BaseKept DEF Verify, Pass, TablesInv, Resolved, Policied, Serving, Replaying
<1>10. ASSUME VerifyGather PROVE BaseInv'
  BY <1>10, BaseKept DEF VerifyGather, Batched, TablesInv, Resolved, Policied, Serving, Replaying
<1>11. ASSUME Publish PROVE BaseInv'
  BY <1>11, BaseKept DEF Publish, TablesInv, Resolved, Policied, Serving, Replaying
<1>12. ASSUME Poll PROVE BaseInv'
  BY <1>12, BaseKept DEF Poll, TablesInv, Resolved, Policied, Serving, Replaying
<1>13. ASSUME Commit PROVE BaseInv'
  BY <1>13, BaseKept DEF Commit, TablesInv, Resolved, Policied, Serving, Replaying
<1>14. ASSUME Admit PROVE BaseInv'
  BY <1>14, BaseKept DEF Admit, TablesInv, Resolved, Policied, Serving, Replaying
<1>15. ASSUME Step PROVE BaseInv'
  BY <1>15, BaseKept DEF Step, Batched, Looked, TablesInv, Resolved, Policied, Serving, Replaying
<1>16. ASSUME Emit PROVE BaseInv'
  BY <1>16, BaseKept DEF Emit, TablesInv, Resolved, Policied, Serving, Replaying
<1>17. ASSUME Log PROVE BaseInv'
  BY <1>17, BaseKept DEF Log, Pass, TablesInv, Resolved, Policied, Serving, Replaying
<1>18. ASSUME Correct PROVE BaseInv'
  BY <1>18, BaseKept DEF Correct, Pass, Corrected, TablesInv, Resolved, Policied, Serving,
      Replaying
<1>19. ASSUME Attribute PROVE BaseInv'
  BY <1>19, BaseKept DEF Attribute, Pass, TablesInv, Resolved, Policied, Serving, Replaying
<1>20. ASSUME SearchStart PROVE BaseInv'
  <2>1. job.search.kind \in {"none", "full", "list"} /\ BaseInv
    BY JobsAssumption DEF TablesInv, ControlInv
  <2> QED
    BY <1>20, <2>1, BaseKept
       DEF SearchStart, Pass, Corrected, Resolved, Policied, Serving, Replaying
<1>21. ASSUME SearchStep PROVE BaseInv'
  BY <1>21, BaseKept DEF SearchStep, Pass, Corrected, TablesInv, Resolved, Policied, Serving,
      Replaying
<1>22. ASSUME DenseLoad PROVE BaseInv'
  <2> DEFINE mine == {s \in Slots : IsGlobal(s) \/ s[1] \in DenseWtRoles}
  <2>1. /\ BaseInv /\ job' = job /\ pc = "denseload" /\ job.source = "dense" /\ reg = {}
        /\ \/ pc' = "fatal" /\ base' = base /\ reg' = reg
           \/ /\ reg' = {Prod(s) : s \in mine} /\ pc' = "promote"
              /\ base' = [s \in Slots |-> IF s \in mine THEN Prod(s) ELSE NoTensor]
    BY <1>22 DEF DenseLoad, Stop, TablesInv, ControlInv
  <2>2. \A s \in Slots : Prod(s) # NoTensor
    BY NameFacts
  <2>3. CASE base' = [s \in Slots |-> IF s \in mine THEN Prod(s) ELSE NoTensor] /\ pc' = "promote"
                                      /\ reg' = {Prod(s) : s \in mine}
    <3>1. base' \in [Slots -> Held']
      BY <2>3 DEF Held
    <3> QED
      BY <2>1, <2>2, <2>3, <3>1 DEF BaseInv, Resolved, Policied, Serving, Replaying
  <2> QED
    BY <2>1, <2>3, BaseKept DEF Resolved, Policied, Serving, Replaying
<1>23. ASSUME PromoteLine PROVE BaseInv'
  <2> DEFINE s == job.promo[pline]
  <2>1. /\ BaseInv /\ job' = job /\ pc = "promote" /\ job.source \in {"gguf", "dense"} /\ reg' = reg
        /\ pc' \in {"promote", "fatal"}
        /\ base' = base \/ (s \in Slots /\ base' = [base EXCEPT ![s] = Wide(s)])
    BY <1>23 DEF PromoteLine, PromoteSlot, TablesInv, ControlInv
  <2> HIDE DEF s
  <2>2. CASE base' = base
    BY <2>1, <2>2, BaseKept DEF Resolved, Policied, Serving, Replaying
  <2>3. CASE s \in Slots /\ base' = [base EXCEPT ![s] = Wide(s)]
    <3>1. Here' = Here /\ Here \subseteq Slots
      BY <2>1, JobDecides DEF Here
    <3>2. Wide(s) # NoTensor /\ Wide(s) # Prod(s)
      BY <2>3, NameFacts
    <3>3. \A x \in Slots : base'[x] = IF x = s THEN Wide(s) ELSE base[x]
      BY <2>1, <2>3 DEF BaseInv
    <3>4. base' \in [Slots -> Held']
      BY <2>1, <2>3 DEF BaseInv, Held
    <3> QED
      BY <2>1, <2>3, <3>1, <3>2, <3>3, <3>4 DEF BaseInv, Resolved, Policied, Serving, Replaying
  <2> QED
    BY <2>1, <2>2, <2>3
<1>24. ASSUME PromoteDone PROVE BaseInv'
  <2>1. job.export \in BOOLEAN /\ BaseInv
    BY JobsAssumption DEF TablesInv, ControlInv
  <2> QED
    BY <1>24, <2>1, BaseKept
       DEF PromoteDone, exportVars, IsDenseEngine, Resolved, Policied, Serving, Replaying
<1>25. ASSUME Export PROVE BaseInv'
  BY <1>25, BaseKept DEF Export, TablesInv, Resolved, Policied, Serving, Replaying
<1>26. ASSUME ExportUnloaded PROVE BaseInv'
  BY <1>26, BaseKept DEF ExportUnloaded, TablesInv, Resolved, Policied, Serving, Replaying
<1>27. ASSUME GateStep PROVE BaseInv'
  BY <1>27, BaseKept DEF GateStep, TablesInv, Resolved, Policied, Serving, Replaying
<1>28. CASE UNCHANGED vars
  BY <1>28, BaseKept DEF vars, tensorVars, exportVars, gateVars, TablesInv, Resolved, Policied,
      Serving, Replaying
<1> QED
  BY <1>1, <1>2, <1>3, <1>4, <1>5, <1>6, <1>7, <1>8, <1>9, <1>10, <1>11, <1>12, <1>13, <1>14,
     <1>15, <1>16, <1>17, <1>18, <1>19, <1>20, <1>21, <1>22, <1>23, <1>24, <1>25, <1>26, <1>27,
     <1>28
     DEF Next, TensorNext, ExportNext, Ended

-----------------------------------------------------------------------------
(* The mirrors and the policy.                                             *)

LEMMA MirrorsKept ==
    ASSUME MirrorsInv, job' = job, hi' = hi, sel' = sel, base' = base \/ pc \in Loading, reg \subseteq reg',
           pc' \in Loading => pc \in Loading,
           pc' \in Policied /\ job.correct =>
             pc \in Policied /\ (\A s \in Slots : Mirror(s) \in reg' => Mirror(s) \in reg)
    PROVE  MirrorsInv'
<1>1. Here' = Here
  BY JobDecides
<1>2. \A s \in Slots : /\ hi[s] \in {NoTensor, Mirror(s), base'[s]}
                       /\ sel[s] \in {NoTensor, hi[s], base'[s]}
  BY DEF MirrorsInv
<1>3. {hi', sel'} \subseteq [Slots -> Held']
  BY HeldGrows DEF MirrorsInv
<1> QED
  BY <1>1, <1>2, <1>3 DEF MirrorsInv

LEMMA TablesHeld ==
    ASSUME TablesInv, NEW s \in Slots
    PROVE  /\ base[s] \in Held /\ hi[s] \in Held /\ sel[s] \in Held
           /\ nq[s] # 0 => Nq(s, nq[s]) \in Held
<1>1. base[s] \in Held
  BY DEF TablesInv, BaseInv
<1>2. hi[s] \in Held
  BY DEF TablesInv, MirrorsInv
<1>3. sel[s] \in Held
  BY DEF TablesInv, MirrorsInv
<1>4. nq[s] # 0 => Nq(s, nq[s]) \in Held
  BY DEF TablesInv, PolicyInv, Held
<1> QED
  BY <1>1, <1>2, <1>3, <1>4

LEMMA PolicyKept ==
    ASSUME PolicyInv, job' = job, active' = active, promoted' = promoted, nq' = nq, reg \subseteq reg',
           hi' = hi \/ pc \in Early, base' = base \/ pc \in Early,
           pc' \in Early => pc \in Early,
           pc' \in {"nq"} \cup Serving => pc \in {"nq"} \cup Serving /\ hi' = hi /\ base' = base,
           pc' = "nq" => pc = "nq"
    PROVE  PolicyInv'
<1>1. active' \in [Slots -> Held']
  BY HeldGrows DEF PolicyInv
<1>2. \A s \in promoted' : IsGlobal(s) => hi'[s] # NoTensor
  BY DEF PolicyInv
<1>3. pc' \in {"nq"} \cup Serving => \A s \in Slots : active'[s] = Policy(s)'
  BY DEF PolicyInv, Policy
<1> QED
  BY <1>1, <1>2, <1>3 DEF PolicyInv

\* Once the mirrors are resolved a slot of the model has a tensor in the table of
\* mirrors, the mirror if it was registered.
LEMMA MirrorsStep == TablesInv /\ [Next]_vars => MirrorsInv'
<1> SUFFICES ASSUME TablesInv, [Next]_vars PROVE MirrorsInv'
  OBVIOUS
<1> USE DEF loadVars, mirrorVars, policyVars, replayVars, controlVars, Goto
<1>1. ASSUME LoadLayer PROVE MirrorsInv'
  BY <1>1, MirrorsKept DEF LoadLayer, Register, Stop, TablesInv, Loading, Policied, Serving,
      Replaying
<1>2. ASSUME LoadGlobals PROVE MirrorsInv'
  BY <1>2, MirrorsKept DEF LoadGlobals, Register, Stop, TablesInv, Loading, Policied, Serving,
      Replaying
<1>3. ASSUME ResolveLayer PROVE MirrorsInv'
  <2>1. MirrorsInv /\ job' = job /\ pc = "resolve" /\ UNCHANGED <<hi, sel, reg>> /\ job.source \in MoeSources
    BY <1>3 DEF ResolveLayer, Stop, TablesInv, ControlInv
  <2>2. pc' \in Policied => ~ job.correct
    BY <1>3, <2>1 DEF ResolveLayer, Stop, AfterResolve, MoeSources, Policied, Serving, Replaying
  <2> QED
    BY <2>1, <2>2, MirrorsKept DEF Loading
<1>4. ASSUME RegisterMirrors PROVE MirrorsInv'
  <2>1. MirrorsInv /\ job' = job /\ pc = "mirrors" /\ pc' \in {"fatal", "mirrored"} /\ reg \subseteq reg'
    BY <1>4 DEF RegisterMirrors, TablesInv
  <2> QED
    BY <1>4, <2>1, MirrorsKept DEF RegisterMirrors, Policied, Serving, Replaying, Loading
<1>5. ASSUME ResolveMirrors PROVE MirrorsInv'
  <2>1. /\ MirrorsInv /\ BaseInv /\ job' = job /\ pc = "mirrored" /\ pc' = "start"
        /\ base' = base /\ reg' = reg /\ job.source = "blob"
    BY <1>5 DEF ResolveMirrors, TablesInv, ControlInv
  <2>2. \A s \in Slots : /\ hi'[s] = IF Mirror(s) \in reg THEN Mirror(s)
                                     ELSE IF IsGlobal(s) THEN NoTensor ELSE base[s]
                         /\ sel'[s] \in {hi'[s], base[s]}
    BY <1>5 DEF ResolveMirrors
  <2>3. {hi', sel'} \subseteq [Slots -> Held']
    <3>1. \A s \in Slots : hi'[s] \in Held' /\ sel'[s] \in Held'
      BY <2>1, <2>2, TablesHeld DEF Held
    <3>2. hi' = [s \in Slots |-> hi'[s]] /\ sel' = [s \in Slots |-> sel'[s]]
      BY <1>5 DEF ResolveMirrors
    <3> QED
      BY <3>1, <3>2
  <2>4. Here' = Here
    BY <2>1, JobDecides
  <2>5. \A s \in Here : ~ IsGlobal(s) => base[s] # NoTensor /\ hi'[s] # NoTensor /\ sel'[s] # NoTensor
    BY <2>1, <2>2, NameFacts DEF BaseInv, Resolved, Here
  <2>6. \A s \in Slots : Mirror(s) \notin {NoTensor, base[s]}
    BY <2>1, NameFacts DEF BaseInv
  <2> QED
    BY <2>1, <2>2, <2>3, <2>4, <2>5, <2>6 DEF MirrorsInv, Loading
<1>6. ASSUME ActiveInit PROVE MirrorsInv'
  BY <1>6, MirrorsKept DEF ActiveInit, TablesInv, Loading, Policied, Serving, Replaying
<1>7. ASSUME NqLine PROVE MirrorsInv'
  <2>1. MirrorsInv /\ job' = job /\ pc = "nq" /\ pc' \in {"fatal", "nq"} /\ UNCHANGED <<hi, sel, base>>
    BY <1>7 DEF NqLine, TablesInv
  <2>2. reg' = reg \/ reg' = reg \cup {Nq(job.nq[line].slot, job.nq[line].n)}
    BY <1>7 DEF NqLine
  <2>3. \A s \in Slots : Mirror(s) # Nq(job.nq[line].slot, job.nq[line].n)
    BY DEF Mirror, Nq
  <2> QED
    BY <2>1, <2>2, <2>3, MirrorsKept DEF Policied, Serving, Replaying, Loading
<1>8. ASSUME NqDone PROVE MirrorsInv'
  BY <1>8, MirrorsKept DEF NqDone, TablesInv, Loading, Policied, Serving, Replaying
<1>9. ASSUME Verify PROVE MirrorsInv'
  BY <1>9, MirrorsKept DEF Verify, Pass, TablesInv, Loading, Policied, Serving, Replaying
<1>10. ASSUME VerifyGather PROVE MirrorsInv'
  BY <1>10, MirrorsKept DEF VerifyGather, Batched, TablesInv, Loading, Policied, Serving,
      Replaying
<1>11. ASSUME Publish PROVE MirrorsInv'
  BY <1>11, MirrorsKept DEF Publish, TablesInv, Loading, Policied, Serving, Replaying
<1>12. ASSUME Poll PROVE MirrorsInv'
  BY <1>12, MirrorsKept DEF Poll, TablesInv, Loading, Policied, Serving, Replaying
<1>13. ASSUME Commit PROVE MirrorsInv'
  BY <1>13, MirrorsKept DEF Commit, TablesInv, Loading, Policied, Serving, Replaying
<1>14. ASSUME Admit PROVE MirrorsInv'
  BY <1>14, MirrorsKept DEF Admit, TablesInv, Loading, Policied, Serving, Replaying
<1>15. ASSUME Step PROVE MirrorsInv'
  BY <1>15, MirrorsKept DEF Step, Batched, Looked, TablesInv, Loading, Policied, Serving,
      Replaying
<1>16. ASSUME Emit PROVE MirrorsInv'
  BY <1>16, MirrorsKept DEF Emit, TablesInv, Loading, Policied, Serving, Replaying
<1>17. ASSUME Log PROVE MirrorsInv'
  BY <1>17, MirrorsKept DEF Log, Pass, TablesInv, Loading, Policied, Serving, Replaying
<1>18. ASSUME Correct PROVE MirrorsInv'
  BY <1>18, MirrorsKept DEF Correct, Pass, Corrected, TablesInv, Loading, Policied, Serving,
      Replaying
<1>19. ASSUME Attribute PROVE MirrorsInv'
  BY <1>19, MirrorsKept DEF Attribute, Pass, TablesInv, Loading, Policied, Serving, Replaying
<1>20. ASSUME SearchStart PROVE MirrorsInv'
  <2>1. job.search.kind \in {"none", "full", "list"} /\ MirrorsInv
    BY JobsAssumption DEF TablesInv, ControlInv
  <2> QED
    BY <1>20, <2>1, MirrorsKept
       DEF SearchStart, Pass, Corrected, Loading, Policied, Serving, Replaying
<1>21. ASSUME SearchStep PROVE MirrorsInv'
  BY <1>21, MirrorsKept DEF SearchStep, Pass, Corrected, TablesInv, Loading, Policied, Serving,
      Replaying
<1>22. ASSUME DenseLoad PROVE MirrorsInv'
  <2>1. /\ MirrorsInv /\ job' = job /\ pc = "denseload" /\ UNCHANGED <<hi, sel>> /\ reg = {}
        /\ pc' \in {"fatal", "promote"}
    BY <1>22 DEF DenseLoad, Stop, TablesInv, ControlInv
  <2> QED
    BY <2>1, MirrorsKept DEF Loading, Policied, Serving, Replaying
<1>23. ASSUME PromoteLine PROVE MirrorsInv'
  BY <1>23, MirrorsKept DEF PromoteLine, PromoteSlot, TablesInv, Loading, Policied, Serving,
      Replaying
<1>24. ASSUME PromoteDone PROVE MirrorsInv'
  <2>1. job.export \in BOOLEAN /\ MirrorsInv
    BY JobsAssumption DEF TablesInv, ControlInv
  <2> QED
    BY <1>24, <2>1, MirrorsKept
       DEF PromoteDone, exportVars, IsDenseEngine, Loading, Policied, Serving, Replaying
<1>25. ASSUME Export PROVE MirrorsInv'
  BY <1>25, MirrorsKept DEF Export, TablesInv, Loading, Policied, Serving, Replaying
<1>26. ASSUME ExportUnloaded PROVE MirrorsInv'
  BY <1>26, MirrorsKept DEF ExportUnloaded, TablesInv, Loading, Policied, Serving, Replaying
<1>27. ASSUME GateStep PROVE MirrorsInv'
  BY <1>27, MirrorsKept DEF GateStep, TablesInv, Loading, Policied, Serving, Replaying
<1>28. CASE UNCHANGED vars
  BY <1>28, MirrorsKept DEF vars, tensorVars, exportVars, gateVars, TablesInv, Loading, Policied,
      Serving, Replaying
<1> QED
  BY <1>1, <1>2, <1>3, <1>4, <1>5, <1>6, <1>7, <1>8, <1>9, <1>10, <1>11, <1>12, <1>13, <1>14,
     <1>15, <1>16, <1>17, <1>18, <1>19, <1>20, <1>21, <1>22, <1>23, <1>24, <1>25, <1>26, <1>27,
     <1>28
     DEF Next, TensorNext, ExportNext, Ended

\* What a slot serves is decided by the lines accepted so far, in whatever order
\* the promotions and the demotions came.
LEMMA PolicyStep == TablesInv /\ [Next]_vars => PolicyInv'
<1> SUFFICES ASSUME TablesInv, [Next]_vars PROVE PolicyInv'
  OBVIOUS
<1> USE DEF loadVars, mirrorVars, policyVars, replayVars, controlVars, Goto, Early, Loading,
            Resolved, Policied, Serving, Replaying
<1>1. ASSUME LoadLayer PROVE PolicyInv'
  BY <1>1, PolicyKept DEF LoadLayer, Register, Stop, TablesInv
<1>2. ASSUME LoadGlobals PROVE PolicyInv'
  BY <1>2, PolicyKept DEF LoadGlobals, Register, Stop, TablesInv
<1>3. ASSUME ResolveLayer PROVE PolicyInv'
  <2>1. PolicyInv /\ pc = "resolve" /\ UNCHANGED <<job, hi, reg, active, promoted, nq>> /\ job.source \in MoeSources
    BY <1>3 DEF ResolveLayer, Stop, TablesInv, ControlInv
  <2>2. pc' \in Early \cup {"fatal"} /\ pc' # "nq" /\ pc' \notin Serving
    BY <1>3, <2>1 DEF ResolveLayer, Stop, AfterResolve, MoeSources
  <2> QED
    BY <2>1, <2>2, PolicyKept
<1>4. ASSUME RegisterMirrors PROVE PolicyInv'
  <2>1. PolicyInv /\ job' = job /\ pc = "mirrors" /\ pc' \in {"fatal", "mirrored"} /\ reg \subseteq reg'
    BY <1>4 DEF RegisterMirrors, TablesInv
  <2> QED
    BY <1>4, <2>1, PolicyKept DEF RegisterMirrors
<1>5. ASSUME ResolveMirrors PROVE PolicyInv'
  BY <1>5, PolicyKept DEF ResolveMirrors, TablesInv
<1>6. ASSUME ActiveInit PROVE PolicyInv'
  <2>1. /\ PolicyInv /\ BaseInv /\ pc = "start" /\ pc' = "nq" /\ active' = base
        /\ UNCHANGED <<job, base, hi, reg, promoted, nq>>
    BY <1>6 DEF ActiveInit, TablesInv
  <2>2. active' \in [Slots -> Held']
    BY <2>1, TablesHeld, HeldGrows DEF BaseInv
  <2>3. \A s \in Slots : active'[s] = Policy(s)'
    BY <2>1 DEF PolicyInv, Policy
  <2> QED
    BY <2>1, <2>2, <2>3 DEF PolicyInv
<1>7. ASSUME NqLine PROVE PolicyInv'
  <2> DEFINE s == job.nq[line].slot
             n == job.nq[line].n
  <2>1. /\ PolicyInv /\ job' = job /\ pc = "nq" /\ UNCHANGED <<hi, base, promoted>>
        /\ \/ UNCHANGED <<reg, active, nq>> /\ pc' \in {"fatal", "nq"}
           \/ /\ ~ NqInvalid(s, n) /\ pc' = "nq"
              /\ reg' = reg \cup {Nq(s, n)}
              /\ active' = [active EXCEPT ![s] = Nq(s, n)]
              /\ nq' = [nq EXCEPT ![s] = n]
    BY <1>7 DEF NqLine, TablesInv
  <2> HIDE DEF s, n
  <2>2. CASE UNCHANGED <<reg, active, nq>>
    BY <2>1, <2>2, PolicyKept
  <2>3. CASE /\ ~ NqInvalid(s, n) /\ pc' = "nq"
             /\ reg' = reg \cup {Nq(s, n)}
             /\ active' = [active EXCEPT ![s] = Nq(s, n)]
             /\ nq' = [nq EXCEPT ![s] = n]
    <3>1. s \in Slots /\ ~ IsGlobal(s) /\ n \in 2 .. 15
      BY <2>3 DEF NqInvalid, QNg64Supported
    <3>2. Nq(s, n) \in reg' /\ Nq(s, n) \in Held'
      BY <2>3 DEF Held
    <3>3. active' \in [Slots -> Held']
      BY <2>1, <2>3, <3>1, <3>2, HeldGrows DEF PolicyInv
    <3>4. DOMAIN nq' = Slots /\ \A x \in Slots : nq'[x] = IF x = s THEN n ELSE nq[x]
      BY <2>1, <2>3, <3>1 DEF PolicyInv
    <3>5. \A x \in Slots : active'[x] = IF x = s THEN Nq(s, n) ELSE active[x]
      BY <2>1, <2>3, <3>1 DEF PolicyInv
    <3>6. promoted = {} /\ \A x \in Slots : active[x] = Policy(x)
      BY <2>1 DEF PolicyInv
    <3>7. \A x \in Slots : active'[x] = Policy(x)'
      BY <2>1, <3>1, <3>4, <3>5, <3>6 DEF Policy
    <3>8. \A x \in Slots : nq'[x] # 0 => ~ IsGlobal(x) /\ nq'[x] \in 2 .. 15 /\ Nq(x, nq'[x]) \in reg'
      BY <2>1, <2>3, <3>1, <3>2, <3>4 DEF PolicyInv
    <3> QED
      BY <2>1, <2>3, <3>3, <3>4, <3>6, <3>7, <3>8 DEF PolicyInv
  <2> QED
    BY <2>1, <2>2, <2>3
<1>8. ASSUME NqDone PROVE PolicyInv'
  BY <1>8, PolicyKept DEF NqDone, TablesInv
<1>9. ASSUME Verify PROVE PolicyInv'
  BY <1>9, PolicyKept DEF Verify, Pass, TablesInv
<1>10. ASSUME VerifyGather PROVE PolicyInv'
  BY <1>10, PolicyKept DEF VerifyGather, Batched, TablesInv
<1>11. ASSUME Publish PROVE PolicyInv'
  BY <1>11, PolicyKept DEF Publish, TablesInv
<1>12. ASSUME Poll PROVE PolicyInv'
  BY <1>12, PolicyKept DEF Poll, TablesInv
<1>13. ASSUME Commit PROVE PolicyInv'
  <2> DEFINE now == {s \in PromotionLines \ promoted : IsGlobal(s) => hi[s] # NoTensor}
  <2>1. /\ PolicyInv /\ pc = "commit" /\ pc' = "admit" /\ UNCHANGED <<job, hi, base, reg>>
        /\ active' = [s \in Slots |-> ServedAfter(s, now)]
        /\ promoted' = promoted \cup now
        /\ nq' = [s \in Slots |-> IF s \in DemotionLines THEN 0 ELSE nq[s]]
    BY <1>13 DEF Commit, TablesInv
  <2>2. now \subseteq Slots /\ (now # {} => job.correct)
    <3>1. PromotionLines \subseteq Slots /\ (PromotionLines # {} => job.correct)
      <4>1. version = 0 \/ version \in DOMAIN job.files
        BY JobsAssumption DEF TablesInv, ControlInv, CountersInv
      <4> QED
        BY <4>1, JobsAssumption DEF TablesInv, ControlInv, PromotionLines
    <3> QED
      BY <3>1
  <2>3. \A s \in now : IsGlobal(s) => hi[s] # NoTensor
    OBVIOUS
  <2> HIDE DEF now
  <2>4. \A s \in Slots : active[s] = Policy(s)
    BY <2>1 DEF PolicyInv
  <2>5. \A s \in Slots : active'[s] = Policy(s)'
    <3> SUFFICES ASSUME NEW s \in Slots PROVE active'[s] = Policy(s)'
      OBVIOUS
    <3>1. active[s] = Policy(s) /\ (nq[s] # 0 => ~ IsGlobal(s))
      BY <2>1, <2>4 DEF PolicyInv
    <3>2. nq'[s] = IF s \in DemotionLines THEN 0 ELSE nq[s]
      BY <2>1
    <3> QED
      BY <2>1, <3>1, <3>2 DEF Policy, ServedAfter
  <2>6. \A s \in Slots : nq'[s] # 0 => nq'[s] = nq[s]
    BY <2>1
  <2>7. active' \in [Slots -> Held']
    <3>1. \A s \in Slots : ServedAfter(s, now) \in Held
      BY TablesHeld, <2>1 DEF PolicyInv, ServedAfter
    <3> QED
      BY <2>1, <3>1, HeldGrows
  <2> QED
    BY <2>1, <2>2, <2>3, <2>5, <2>6, <2>7
       DEF PolicyInv, Early, Resolved, Policied, Serving, Replaying, Loading
<1>14. ASSUME Admit PROVE PolicyInv'
  BY <1>14, PolicyKept DEF Admit, TablesInv
<1>15. ASSUME Step PROVE PolicyInv'
  BY <1>15, PolicyKept DEF Step, Batched, Looked, TablesInv
<1>16. ASSUME Emit PROVE PolicyInv'
  BY <1>16, PolicyKept DEF Emit, TablesInv
<1>17. ASSUME Log PROVE PolicyInv'
  BY <1>17, PolicyKept DEF Log, Pass, TablesInv
<1>18. ASSUME Correct PROVE PolicyInv'
  BY <1>18, PolicyKept DEF Correct, Pass, Corrected, TablesInv
<1>19. ASSUME Attribute PROVE PolicyInv'
  BY <1>19, PolicyKept DEF Attribute, Pass, TablesInv
<1>20. ASSUME SearchStart PROVE PolicyInv'
  <2>1. job.search.kind \in {"none", "full", "list"} /\ PolicyInv
    BY JobsAssumption DEF TablesInv, ControlInv
  <2> QED
    BY <1>20, <2>1, PolicyKept
       DEF SearchStart, Pass, Corrected, Early, Loading, Resolved, Policied, Serving, Replaying
<1>21. ASSUME SearchStep PROVE PolicyInv'
  BY <1>21, PolicyKept DEF SearchStep, Pass, Corrected, TablesInv
<1>22. ASSUME DenseLoad PROVE PolicyInv'
  <2>1. /\ PolicyInv /\ pc = "denseload" /\ pc' \in {"fatal", "promote"} /\ reg = {}
        /\ UNCHANGED <<job, active, promoted, nq>>
    BY <1>22 DEF DenseLoad, Stop, TablesInv, ControlInv
  <2> QED
    BY <2>1, PolicyKept
<1>23. ASSUME PromoteLine PROVE PolicyInv'
  BY <1>23, PolicyKept DEF PromoteLine, PromoteSlot, TablesInv
<1>24. ASSUME PromoteDone PROVE PolicyInv'
  <2>1. job.export \in BOOLEAN /\ PolicyInv
    BY JobsAssumption DEF TablesInv, ControlInv
  <2> QED
    BY <1>24, <2>1, PolicyKept DEF PromoteDone, exportVars, IsDenseEngine
<1>25. ASSUME Export PROVE PolicyInv'
  BY <1>25, PolicyKept DEF Export, TablesInv
<1>26. ASSUME ExportUnloaded PROVE PolicyInv'
  BY <1>26, PolicyKept DEF ExportUnloaded, TablesInv
<1>27. ASSUME GateStep PROVE PolicyInv'
  BY <1>27, PolicyKept DEF GateStep, TablesInv
<1>28. CASE UNCHANGED vars
  BY <1>28, PolicyKept DEF vars, tensorVars, exportVars, gateVars, TablesInv
<1> QED
  BY <1>1, <1>2, <1>3, <1>4, <1>5, <1>6, <1>7, <1>8, <1>9, <1>10, <1>11, <1>12, <1>13, <1>14,
     <1>15, <1>16, <1>17, <1>18, <1>19, <1>20, <1>21, <1>22, <1>23, <1>24, <1>25, <1>26, <1>27,
     <1>28
     DEF Next, TensorNext, ExportNext, Ended

-----------------------------------------------------------------------------
(* What the passes read.                                                   *)

Replayed == {"attribute", "search", "ddmin", "log", "emit"}

LEMMA LazyIsAMirror ==
    ASSUME NEW t, IsLazy(t)
    PROVE  t[3] = "hi"
  BY DEF IsLazy

\* A tensor of the production table reads well in every pass.
LEMMA BaseReadsWell ==
    ASSUME TablesInv, job.source \in MoeSources, pc \in Resolved, NEW s \in Here, NEW with
    PROVE  ReadsWell(base[s], with) /\ (job.source = "blob" => base[s] = Prod(s) /\ base[s] \in reg)
<1>1. s \in Slots /\ base[s] \in {Prod(s), Wide(s)} /\ (base[s] = Prod(s) => Prod(s) \in reg)
  BY DEF TablesInv, BaseInv, MoeSources, Here
<1>2. job.source = "blob" => base[s] # Wide(s)
  BY <1>1 DEF TablesInv, BaseInv
<1>3. base[s][3] # "hi"
  BY <1>1, NameFacts
<1>4. ReadAsWritten(Content(base[s]))
  <2>1. CASE base[s] = Prod(s)
    BY <1>1, <2>1 DEF TablesInv, RegistryInv
  <2>2. CASE base[s] = Wide(s)
    <3>1. Content(Wide(s)) = F32Tensor
      BY <1>1, NameFacts DEF Content
    <3> QED
      BY <2>2, <3>1, UniformReads
  <2> QED
    BY <1>1, <2>1, <2>2
<1>5. ~ IsLazy(base[s])
  BY <1>3, LazyIsAMirror
<1> QED
  BY <1>1, <1>2, <1>4, <1>5 DEF ReadsWell

\* A slot of the model serves a registered tensor, a mirror only if promoted.
LEMMA ServedReads ==
    ASSUME TablesInv, pc \in Serving, NEW s \in Here
    PROVE  /\ active[s] \in reg
           /\ IsLazy(active[s]) => s \in promoted /\ SlotOf(active[s]) = s
<1>1. /\ s \in Slots /\ job.source = "blob" /\ active[s] = Policy(s)
      /\ pc \in Policied /\ pc \in Resolved /\ job.source \in MoeSources
  BY DEF TablesInv, ControlInv, PolicyInv, Here, Policied, Resolved, MoeSources
<1>2. base[s] = Prod(s) /\ base[s] \in reg
  BY <1>1, BaseReadsWell
<1>3. CASE s \in promoted
  <2>1. job.correct
    BY <1>3 DEF TablesInv, PolicyInv
  <2>2. hi[s] # NoTensor
    BY <1>1, <1>3, <2>1 DEF TablesInv, PolicyInv, MirrorsInv
  <2>3. hi[s] \in {Mirror(s), base[s]} /\ hi[s] \in reg
    BY <1>1, <1>2, <2>2 DEF TablesInv, MirrorsInv
  <2>4. SlotOf(hi[s]) = s
    BY <1>1, <1>2, <2>3, NameFacts
  <2> QED
    BY <1>1, <1>3, <2>3, <2>4 DEF Policy
<1>4. CASE s \notin promoted /\ nq[s] # 0
  <2>1. active[s] = Nq(s, nq[s]) /\ nq[s] \in 2 .. 15 /\ Nq(s, nq[s]) \in reg
    BY <1>1, <1>4 DEF TablesInv, PolicyInv, Policy
  <2> QED
    BY <1>1, <2>1, NameFacts, LazyIsAMirror
<1>5. CASE s \notin promoted /\ nq[s] = 0
  <2>1. active[s] = base[s]
    BY <1>1, <1>5 DEF Policy
  <2> QED
    BY <1>1, <1>2, <2>1, NameFacts, LazyIsAMirror
<1> QED
  BY <1>3, <1>4, <1>5

\* A replay finds a registered tensor in every table it reads.
LEMMA ReplayedAreRegistered ==
    ASSUME TablesInv, pc \in Replaying, NEW s \in Here
    PROVE  /\ base[s] \in reg /\ active[s] \in reg
           /\ hi[s] # NoTensor => hi[s] \in reg
           /\ ~ IsGlobal(s) => hi[s] \in reg /\ sel[s] \in reg
<1>1. /\ s \in Slots /\ job.source = "blob" /\ job.correct
      /\ pc \in Serving /\ pc \in Policied /\ pc \in Resolved /\ job.source \in MoeSources
  BY DEF TablesInv, ControlInv, Here, Serving, Policied, Resolved, MoeSources
<1>2. base[s] = Prod(s) /\ base[s] \in reg
  BY <1>1, BaseReadsWell
<1>3. hi[s] # NoTensor => hi[s] \in reg
  BY <1>1, <1>2 DEF TablesInv, MirrorsInv
<1>4. ~ IsGlobal(s) => hi[s] # NoTensor /\ sel[s] # NoTensor
  BY <1>1 DEF TablesInv, MirrorsInv
<1>5. sel[s] \in {NoTensor, hi[s], base[s]}
  BY <1>1 DEF TablesInv, MirrorsInv
<1> QED
  BY <1>1, <1>2, <1>3, <1>4, <1>5, ServedReads

\* With its data present every registered tensor reads well.
LEMMA RegisteredReadsWell ==
    ASSUME TablesInv, job.source \in MoeSources, NEW t \in reg, NEW with, IsLazy(t) => t \in with
    PROVE  ReadsWell(t, with)
  BY DEF TablesInv, RegistryInv, ReadsWell

LEMMA TensorsOfTables ==
    ASSUME NEW t, NEW globals, NEW x \in TensorsOf(t, globals)
    PROVE  \/ \E s \in Here : ~ IsGlobal(s) /\ x = t[s]
           \/ \E s \in Here : s \in GlobalSlots /\ x = globals[s]
  BY DEF TensorsOf, Here, GlobalSlots

LEMMA ReplayReads ==
    ASSUME TablesInv, pc \in Replaying, NEW combo, NEW ablate
    PROVE  ReplayTensors(combo, ablate) \subseteq reg
<1> SUFFICES ASSUME NEW x \in ReplayTensors(combo, ablate) PROVE x \in reg
  OBVIOUS
<1> DEFINE t == [s \in Slots |-> IF (s \in combo) # ablate THEN hi[s] ELSE base[s]]
           g == [s \in GlobalSlots |-> IF s \in combo /\ ~ ablate /\ hi[s] # NoTensor
                                       THEN hi[s] ELSE active[s]]
<1>1. x \in TensorsOf(t, g)
  BY DEF ReplayTensors
<1> HIDE DEF t, g
<1>2. \/ \E s \in Here : ~ IsGlobal(s) /\ x = t[s]
      \/ \E s \in Here : s \in GlobalSlots /\ x = g[s]
  BY <1>1, TensorsOfTables
<1>3. \A s \in Here : s \in Slots
  BY DEF Here
<1>4. \A s \in Here : ~ IsGlobal(s) => t[s] \in reg
  BY <1>3, ReplayedAreRegistered DEF t
<1>5. \A s \in Here : s \in GlobalSlots => g[s] \in reg
  BY <1>3, ReplayedAreRegistered DEF g
<1> QED
  BY <1>2, <1>4, <1>5

\* A replay of a correction or an attribution, which has all the data.
LEMMA AllReadWell ==
    ASSUME TablesInv, job.source \in MoeSources, NEW S, S \subseteq reg
    PROVE  {t \in S : ~ ReadsWell(t, Materialized)} = {}
<1> SUFFICES ASSUME NEW t \in S PROVE ReadsWell(t, Materialized)
  OBVIOUS
<1> QED
  BY RegisteredReadsWell DEF Materialized

LEMMA PassKept ==
    ASSUME PassInv, job' = job, mats' = mats, pass' = pass, reg \subseteq reg', promoted \subseteq promoted',
           pc' \in Replayed => pc \in Replayed /\ active' = active,
           pc' \in {"attribute", "search", "ddmin"} => pc \in {"attribute", "search", "ddmin"}
    PROVE  PassInv'
<1>1. \A t : IsLazy(t)' = IsLazy(t)
  BY JobDecides
<1>2. mats' \subseteq Materialized'
  BY <1>1 DEF PassInv, Materialized
<1>3. pass'.bad \subseteq Unmaterialized'
  BY <1>1 DEF PassInv, Unmaterialized
<1>4. ServedMirrorsStay'
  BY <1>1 DEF PassInv, ServedMirrorsStay, Replayed
<1> QED
  BY <1>2, <1>3, <1>4 DEF PassInv

\* A pass has been run.
LEMMA PassRun ==
    ASSUME job' = job, reg' = reg, promoted' = promoted, mats' \subseteq Materialized,
           \A t \in pass'.bad : /\ t \in reg /\ IsLazy(t)
                                /\ \/ SlotOf(t) \in promoted /\ pass'.kind \in {"serve", "log"}
                                   \/ pass'.kind = "search",
           pc' \in {"attribute", "search", "ddmin"} => pass'.kind \in {"correct", "attribute", "search"},
           ServedMirrorsStay'
    PROVE  PassInv'
<1>1. \A t : IsLazy(t)' = IsLazy(t)
  BY JobDecides
<1>2. mats' \subseteq Materialized'
  BY <1>1 DEF Materialized
<1>3. pass'.bad \subseteq Unmaterialized'
  BY <1>1 DEF Unmaterialized
<1> QED
  BY <1>2, <1>3 DEF PassInv

\* A release keeps what the layers serve.
LEMMA ReleaseKeepsServed ==
    ASSUME TablesInv, job' = job, active' = active, mats' = Released(Materialized)
    PROVE  ServedMirrorsStay' /\ mats' \subseteq Materialized
<1>1. \A t : IsLazy(t)' = IsLazy(t)
  BY JobDecides
<1>2. ASSUME NEW s \in Slots, active[s] # NoTensor, IsLazy(active[s]), ~ IsGlobal(s)
      PROVE  active[s] \in mats'
  <2>1. active[s] \in Held /\ active[s] \notin {Wide(x) : x \in Slots}
    BY <1>2, LazyIsAMirror, NameFacts DEF TablesInv, PolicyInv
  <2>2. active[s] \in Materialized
    BY <1>2, <2>1 DEF Held, Materialized
  <2> QED
    BY <1>2, <2>2 DEF Released
<1> QED
  BY <1>1, <1>2 DEF ServedMirrorsStay, Released

-----------------------------------------------------------------------------
(* The weights repacked for the matrix unit.                               *)

LEMMA PackedKept ==
    ASSUME PackedInv, reg \subseteq reg', packed' = packed
    PROVE  PackedInv'
  BY HeldGrows DEF PackedInv

\* A batched step multiplies with what it was asked for, and never with what
\* was repacked from another tensor.
LEMMA BatchedReads ==
    ASSUME TablesInv, NEW next, NEW wanted, DOMAIN wanted \subseteq Slots,
           \A s \in DOMAIN wanted : wanted[s] \in Held,
           reg' = reg, Batched(wanted, next)
    PROVE  /\ PackedInv'
           /\ \/ pc' = "fatal" /\ pass' = pass
              \/ /\ next /\ pass'.kind = "serve"
                 /\ \A t \in pass'.bad : \E s \in DOMAIN wanted : t = wanted[s] /\ ~ ReadsWell(t, mats)
<1> DEFINE mine == DOMAIN wanted
<1>1. PackedInv
  BY DEF TablesInv
<1>2. CASE pc' = "fatal" /\ UNCHANGED <<pass, packed>>
  BY <1>1, <1>2, PackedKept
<1>3. CASE /\ packed' = [s \in PackSlots |-> IF s \in mine THEN EnsureReady(s, wanted[s]) ELSE packed[s]]
           /\ pass' = [kind |-> "serve",
                       bad |-> {wanted[s] : s \in {x \in mine : \/ Used(x, wanted[x]) # wanted[x]
                                                                \/ ~ ReadsWell(wanted[x], mats)}}]
           /\ next
  <2>1. \A s \in mine : s \in PackSlots => /\ packed'[s] = EnsureReady(s, wanted[s])
                                           /\ packed'[s].src = wanted[s]
    BY <1>3 DEF EnsureReady
  <2>2. \A s \in mine : Used(s, wanted[s]) = wanted[s]
    BY <2>1 DEF Used
  <2>3. \A s \in PackSlots : packed'[s] \in [src : Held, ready : {-1, 0, 1}]
    <3> SUFFICES ASSUME NEW s \in PackSlots PROVE packed'[s] \in [src : Held, ready : {-1, 0, 1}]
      OBVIOUS
    <3>1. packed[s] \in [src : Held, ready : {-1, 0, 1}]
      BY <1>1 DEF PackedInv
    <3>2. \A t : Verdict(t) \in {-1, 0, 1}
      BY DEF Verdict
    <3>3. s \in mine => EnsureReady(s, wanted[s]) \in [src : Held, ready : {-1, 0, 1}]
      BY <3>1, <3>2 DEF EnsureReady
    <3> QED
      BY <1>3, <3>1, <3>3
  <2>4. PackedInv'
    <3>1. Held' = Held
      BY DEF Held
    <3>2. packed' = [s \in PackSlots |-> packed'[s]]
      BY <1>3
    <3>3. packed' \in [PackSlots -> [src : Held, ready : {-1, 0, 1}]]
      BY <2>3, <3>2
    <3> QED
      BY <3>1, <3>3 DEF PackedInv
  <2> QED
    BY <1>3, <2>2, <2>4
<1> QED
  BY <1>2, <1>3 DEF Batched, Goto

LEMMA PassStepOfStep ==
    ASSUME TablesInv, Step
    PROVE  PackedInv' /\ PassInv'
<1>1. /\ pc = "step" /\ UNCHANGED <<job, reg, promoted, active, mats>> /\ cur = "active"
      /\ pc \in Serving
  BY DEF Step, TablesInv, CountersInv, loadVars, policyVars, Serving
<1>2. PICK idle \in IdleExperts : Batched(StepTensors(Table(cur), active, idle), Looked)
  BY DEF Step
<1> DEFINE wanted == StepTensors(Table(cur), active, idle)
<1>3. DOMAIN wanted \subseteq Here /\ \A s \in DOMAIN wanted : wanted[s] = active[s]
  BY <1>1 DEF StepTensors, Table, Here
<1> HIDE DEF wanted
<1>4. Here \subseteq Slots
  BY DEF Here
<1>5. \A s \in DOMAIN wanted : wanted[s] \in Held
  BY <1>3, <1>4 DEF TablesInv, PolicyInv
<1>6. /\ PackedInv'
      /\ \/ pc' = "fatal" /\ pass' = pass
         \/ /\ Looked /\ pass'.kind = "serve"
            /\ \A t \in pass'.bad : \E s \in DOMAIN wanted : t = wanted[s] /\ ~ ReadsWell(t, mats)
  BY <1>1, <1>2, <1>3, <1>4, <1>5, BatchedReads DEF wanted
<1>7. CASE pc' = "fatal" /\ pass' = pass
  BY <1>1, <1>6, <1>7, PassKept DEF TablesInv, Replayed
<1>8. CASE /\ Looked /\ pass'.kind = "serve"
           /\ \A t \in pass'.bad : \E s \in DOMAIN wanted : t = wanted[s] /\ ~ ReadsWell(t, mats)
  <2>1. ASSUME NEW t \in pass'.bad
        PROVE  t \in reg /\ IsLazy(t) /\ SlotOf(t) \in promoted
    <3>1. PICK s \in DOMAIN wanted : t = wanted[s] /\ ~ ReadsWell(t, mats)
      BY <1>8
    <3>2. s \in Here /\ t = active[s]
      BY <1>3, <3>1
    <3>3. t \in reg /\ (IsLazy(t) => s \in promoted /\ SlotOf(t) = s)
      BY <1>1, <3>2, ServedReads
    <3>4. job.source \in MoeSources
      BY <1>1 DEF TablesInv, ControlInv, MoeSources, Policied
    <3>5. IsLazy(t)
      BY <3>1, <3>3, <3>4, RegisteredReadsWell
    <3> QED
      BY <3>3, <3>5
  <2>2. ServedMirrorsStay' /\ pc' \notin {"attribute", "search", "ddmin"}
    BY <1>8 DEF ServedMirrorsStay, Looked, Goto
  <2>3. mats' \subseteq Materialized
    BY <1>1 DEF TablesInv, PassInv
  <2> QED
    BY <1>1, <1>6, <1>8, <2>1, <2>2, <2>3, PassRun
<1> QED
  BY <1>6, <1>7, <1>8

LEMMA PassStepOfGather ==
    ASSUME TablesInv, VerifyGather
    PROVE  PackedInv' /\ PassInv'
<1>1. /\ pc = "gather" /\ UNCHANGED <<job, reg, promoted, active, mats>>
      /\ pc \in Resolved /\ job.source \in MoeSources
  BY DEF VerifyGather, TablesInv, ControlInv, loadVars, policyVars, Resolved
<1> DEFINE next == Goto("gather") \/ Goto("done")
<1>2. PICK idle \in IdleExperts : Batched(StepTensors(base, base, idle), next)
  BY DEF VerifyGather
<1> DEFINE wanted == StepTensors(base, base, idle)
<1>3. DOMAIN wanted \subseteq Here /\ \A s \in DOMAIN wanted : wanted[s] = base[s]
  BY DEF StepTensors, Here
<1> HIDE DEF wanted, next
<1>4. Here \subseteq Slots
  BY DEF Here
<1>5. \A s \in DOMAIN wanted : wanted[s] \in Held
  BY <1>3, <1>4 DEF TablesInv, BaseInv
<1>6. /\ PackedInv'
      /\ \/ pc' = "fatal" /\ pass' = pass
         \/ /\ next /\ pass'.kind = "serve"
            /\ \A t \in pass'.bad : \E s \in DOMAIN wanted : t = wanted[s] /\ ~ ReadsWell(t, mats)
  BY <1>1, <1>2, <1>3, <1>4, <1>5, BatchedReads DEF wanted
<1>7. CASE pc' = "fatal" /\ pass' = pass
  BY <1>1, <1>6, <1>7, PassKept DEF TablesInv, Replayed
<1>8. CASE /\ next /\ pass'.kind = "serve"
           /\ \A t \in pass'.bad : \E s \in DOMAIN wanted : t = wanted[s] /\ ~ ReadsWell(t, mats)
  <2>1. pass'.bad = {}
    BY <1>1, <1>3, <1>8, BaseReadsWell
  <2>2. ServedMirrorsStay' /\ pc' \notin {"attribute", "search", "ddmin"}
    BY <1>8 DEF ServedMirrorsStay, next, Goto
  <2>3. mats' \subseteq Materialized
    BY <1>1 DEF TablesInv, PassInv
  <2> QED
    BY <1>1, <1>6, <2>1, <2>2, <2>3, PassRun
<1> QED
  BY <1>6, <1>7, <1>8

LEMMA PassStepOfVerify ==
    ASSUME TablesInv, Verify
    PROVE  PassInv'
<1>1. /\ pc = "verify" /\ UNCHANGED <<job, reg, promoted, active, mats>>
      /\ pc \in Resolved /\ job.source \in MoeSources
  BY DEF Verify, TablesInv, ControlInv, loadVars, policyVars, Resolved, MoeSources
<1>2. \/ pass' = pass /\ pc' = "fatal"
      \/ pass' = [kind |-> "serve", bad |-> {t \in TensorsOf(base, base) : ~ ReadsWell(t, mats)}]
  BY DEF Verify, Pass, Goto
<1>3. CASE pass' = pass /\ pc' = "fatal"
  BY <1>1, <1>3, PassKept DEF TablesInv, Replayed
<1>4. CASE pass' = [kind |-> "serve", bad |-> {t \in TensorsOf(base, base) : ~ ReadsWell(t, mats)}]
  <2>1. \A t \in TensorsOf(base, base) : ReadsWell(t, mats)
    BY <1>1, TensorsOfTables, BaseReadsWell
  <2>2. pass'.bad = {} /\ pass'.kind = "serve"
    BY <1>4, <2>1
  <2>3. ServedMirrorsStay' /\ pc' \notin {"attribute", "search", "ddmin"}
    BY <2>2 DEF Verify, Goto, ServedMirrorsStay
  <2>4. mats' \subseteq Materialized
    BY <1>1 DEF TablesInv, PassInv
  <2> QED
    BY <1>1, <2>2, <2>3, <2>4, PassRun
<1> QED
  BY <1>2, <1>3, <1>4

LEMMA ReplayingFacts ==
    ASSUME TablesInv, pc \in Replaying
    PROVE  job.source = "blob" /\ job.source \in MoeSources /\ pc \in Serving
  BY DEF TablesInv, ControlInv, MoeSources, Policied, Serving

LEMMA PassStepOfLog ==
    ASSUME TablesInv, Log
    PROVE  PassInv'
<1>1. /\ pc = "log" /\ UNCHANGED <<job, reg, promoted, active, mats>>
      /\ pc \in Serving /\ pc \in Resolved /\ job.source \in MoeSources /\ job.source = "blob"
  BY DEF Log, TablesInv, ControlInv, loadVars, policyVars, Resolved, MoeSources, Policied, Serving
<1>2. pass' = [kind |-> "log", bad |-> {t \in TensorsOf(base, active) : ~ ReadsWell(t, mats)}]
  BY DEF Log, Pass
<1>3. ASSUME NEW t \in pass'.bad
      PROVE  t \in reg /\ IsLazy(t) /\ SlotOf(t) \in promoted
  <2>1. t \in TensorsOf(base, active) /\ ~ ReadsWell(t, mats)
    BY <1>2
  <2>2. PICK s \in Here : t = base[s] \/ t = active[s]
    BY <2>1, TensorsOfTables
  <2>3. t = active[s]
    BY <1>1, <2>1, <2>2, BaseReadsWell
  <2>4. t \in reg /\ (IsLazy(t) => s \in promoted /\ SlotOf(t) = s)
    BY <1>1, <2>3, ServedReads
  <2> QED
    BY <1>1, <2>1, <2>4, RegisteredReadsWell
<1>4. ServedMirrorsStay' /\ pc' = "emit"
  BY <1>2 DEF ServedMirrorsStay, Log, Goto
<1>5. mats' \subseteq Materialized
  BY <1>1 DEF TablesInv, PassInv
<1> QED
  BY <1>1, <1>2, <1>3, <1>4, <1>5, PassRun

LEMMA PassStepOfCorrect ==
    ASSUME TablesInv, Correct
    PROVE  PassInv'
<1>1. /\ pc = "correct" /\ UNCHANGED <<job, reg, promoted, active>>
      /\ pc \in Replaying /\ job.source \in MoeSources
  BY ReplayingFacts DEF Correct, Replaying, loadVars, policyVars
<1>2. \/ UNCHANGED <<pass, mats>> /\ pc' = "fatal"
      \/ /\ pass' = [kind |-> "correct", bad |-> {t \in CorrectedFrom : ~ ReadsWell(t, Materialized)}]
         /\ mats' = Released(Materialized)
  BY DEF Correct, Pass, Goto
<1>3. CASE UNCHANGED <<pass, mats>> /\ pc' = "fatal"
  BY <1>1, <1>3, PassKept DEF TablesInv, Replayed
<1>4. CASE /\ pass' = [kind |-> "correct", bad |-> {t \in CorrectedFrom : ~ ReadsWell(t, Materialized)}]
           /\ mats' = Released(Materialized)
  <2>1. CorrectedFrom \subseteq reg
    <3> SUFFICES ASSUME NEW x \in CorrectedFrom PROVE x \in reg
      OBVIOUS
    <3> DEFINE t == Table(IF job.combosOn THEN "sel" ELSE "hi")
    <3>1. t = hi \/ t = sel
      BY DEF Table
    <3>2. x \in TensorsOf(t, active)
      BY DEF CorrectedFrom
    <3> HIDE DEF t
    <3>3. \/ \E s \in Here : ~ IsGlobal(s) /\ x = t[s]
          \/ \E s \in Here : x = active[s]
      BY <3>2, TensorsOfTables
    <3> QED
      BY <1>1, <3>1, <3>3, ReplayedAreRegistered
  <2>2. {t \in CorrectedFrom : ~ ReadsWell(t, Materialized)} = {}
    BY <1>1, <2>1, AllReadWell
  <2>3. pass'.bad = {}
    BY <1>4, <2>2
  <2> QED
    BY <1>1, <1>4, <2>3, ReleaseKeepsServed, PassRun
<1> QED
  BY <1>2, <1>3, <1>4

LEMMA PassStepOfAttribute ==
    ASSUME TablesInv, Attribute
    PROVE  PassInv'
<1>1. /\ pc = "attribute" /\ UNCHANGED <<job, reg, promoted, active>>
      /\ pc \in Replaying /\ job.source \in MoeSources
  BY ReplayingFacts DEF Attribute, Replaying, loadVars, policyVars
<1> DEFINE combos(ab) == {s \in Slots : Effective(s, ab) /\ Wanted(s)}
           replays(ab, swept) ==
             ReplayTensors({}, ab)
               \cup (IF ab \in swept THEN UNION {ReplayTensors({s}, ab) : s \in combos(ab)} ELSE {})
           read(swept) == UNION {replays(ab, swept) : ab \in job.attrib}
<1>2. \/ UNCHANGED <<pass, mats>>
      \/ \E swept \in SUBSET job.attrib :
           /\ pass' = [kind |-> "attribute", bad |-> {t \in read(swept) : ~ ReadsWell(t, Materialized)}]
           /\ mats' = Released(Materialized)
  BY DEF Attribute, Pass
<1>3. CASE UNCHANGED <<pass, mats>>
  <2>1. pc' = "search" /\ PassInv
    BY DEF Attribute, Goto, TablesInv
  <2> QED
    BY <1>1, <1>3, <2>1, PassKept DEF Replayed
<1>4. ASSUME NEW swept,
             pass' = [kind |-> "attribute", bad |-> {t \in read(swept) : ~ ReadsWell(t, Materialized)}],
             mats' = Released(Materialized)
      PROVE  PassInv'
  <2>1. \A ab : replays(ab, swept) \subseteq reg
    <3>1. \A ab, combo : ReplayTensors(combo, ab) \subseteq reg
      BY <1>1, ReplayReads
    <3> QED
      BY <3>1
  <2> HIDE DEF replays
  <2>2. read(swept) \subseteq reg
    BY <2>1
  <2> HIDE DEF read
  <2>3. {t \in read(swept) : ~ ReadsWell(t, Materialized)} = {}
    BY <1>1, <2>2, AllReadWell
  <2>4. pass'.bad = {}
    BY <1>4, <2>3
  <2> QED
    BY <1>1, <1>4, <2>4, ReleaseKeepsServed, PassRun
<1> QED
  BY <1>2, <1>3, <1>4

LEMMA SearchPass ==
    ASSUME TablesInv, pc \in {"search", "ddmin"}, UNCHANGED <<job, reg, promoted, active, mats>>,
           NEW combo, NEW ablate, Pass("search", ReplayTensors(combo, ablate), mats)
    PROVE  PassInv'
<1>1. pc \in Replaying /\ job.source \in MoeSources
  BY ReplayingFacts DEF Replaying
<1>2. pass' = [kind |-> "search", bad |-> {t \in ReplayTensors(combo, ablate) : ~ ReadsWell(t, mats)}]
  BY DEF Pass
<1>3. \A t \in pass'.bad : t \in reg /\ IsLazy(t)
  BY <1>1, <1>2, ReplayReads, RegisteredReadsWell
<1>4. mats' \subseteq Materialized
  BY DEF TablesInv, PassInv
<1>5. ServedMirrorsStay'
  <2>1. \A t : IsLazy(t)' = IsLazy(t)
    BY JobDecides
  <2>2. pass.kind \in {"correct", "attribute", "search"} /\ ServedMirrorsStay
    BY DEF TablesInv, PassInv
  <2> QED
    BY <2>1, <2>2 DEF ServedMirrorsStay
<1> QED
  BY <1>2, <1>3, <1>4, <1>5, PassRun

LEMMA PassStepOfSearchStart ==
    ASSUME TablesInv, SearchStart
    PROVE  PassInv'
<1>1. pc = "search" /\ UNCHANGED <<job, reg, promoted, active, mats>> /\ PassInv
  BY DEF SearchStart, TablesInv, loadVars, policyVars
<1>2. job.search.kind \in {"none", "full", "list"}
  BY JobsAssumption DEF TablesInv, ControlInv
<1>3. pass' = pass \/ Pass("search", ReplayTensors(SetOf(Ground), job.search.ablate), mats)
  BY <1>2 DEF SearchStart
<1> QED
  BY <1>1, <1>3, SearchPass, PassKept DEF Replayed

LEMMA PassStepOfSearchStep ==
    ASSUME TablesInv, SearchStep
    PROVE  PassInv'
<1>1. pc = "ddmin" /\ UNCHANGED <<job, reg, promoted, active, mats>> /\ PassInv
  BY DEF SearchStep, TablesInv, loadVars, policyVars
<1>2. \/ pass' = pass
      \/ Pass("search", ReplayTensors(SetOf(Candidate(search)), job.search.ablate), mats)
  BY DEF SearchStep
<1> QED
  BY <1>1, <1>2, SearchPass, PassKept DEF Replayed

\* The weights repacked for a slot are those of a tensor of the tables.
LEMMA PackedStep == TablesInv /\ [Next]_vars => PackedInv'
<1> SUFFICES ASSUME TablesInv, [Next]_vars PROVE PackedInv'
  OBVIOUS
<1> USE DEF loadVars, mirrorVars, policyVars, replayVars, controlVars, Goto
<1>1. ASSUME LoadLayer PROVE PackedInv'
  BY <1>1, PackedKept DEF LoadLayer, Register, Stop, TablesInv
<1>2. ASSUME LoadGlobals PROVE PackedInv'
  BY <1>2, PackedKept DEF LoadGlobals, Register, Stop, TablesInv
<1>3. ASSUME ResolveLayer PROVE PackedInv'
  <2>1. /\ PackedInv /\ PassInv /\ UNCHANGED <<job, mats, pass, packed, reg, promoted, active>>
        /\ job.source \in MoeSources
    BY <1>3 DEF ResolveLayer, Stop, TablesInv, ControlInv
  <2>2. pc' \notin Replayed
    BY <1>3, <2>1 DEF ResolveLayer, Stop, AfterResolve, MoeSources, Replayed
  <2> QED
    BY <2>1, <2>2, PackedKept DEF Replayed
<1>4. ASSUME RegisterMirrors PROVE PackedInv'
  BY <1>4, PackedKept DEF RegisterMirrors, TablesInv
<1>5. ASSUME ResolveMirrors PROVE PackedInv'
  BY <1>5, PackedKept DEF ResolveMirrors, TablesInv
<1>6. ASSUME ActiveInit PROVE PackedInv'
  BY <1>6, PackedKept DEF ActiveInit, TablesInv
<1>7. ASSUME NqLine PROVE PackedInv'
  BY <1>7, PackedKept DEF NqLine, TablesInv
<1>8. ASSUME NqDone PROVE PackedInv'
  BY <1>8, PackedKept DEF NqDone, TablesInv
<1>9. ASSUME Verify PROVE PackedInv'
  BY <1>9, PackedKept DEF Verify, Pass, TablesInv
<1>10. ASSUME VerifyGather PROVE PackedInv'
  BY <1>10, PassStepOfGather
<1>11. ASSUME Publish PROVE PackedInv'
  BY <1>11, PackedKept DEF Publish, TablesInv
<1>12. ASSUME Poll PROVE PackedInv'
  BY <1>12, PackedKept DEF Poll, TablesInv
<1>13. ASSUME Commit PROVE PackedInv'
  BY <1>13, PackedKept DEF Commit, TablesInv
<1>14. ASSUME Admit PROVE PackedInv'
  BY <1>14, PackedKept DEF Admit, TablesInv
<1>15. ASSUME Step PROVE PackedInv'
  BY <1>15, PassStepOfStep
<1>16. ASSUME Emit PROVE PackedInv'
  BY <1>16, PackedKept DEF Emit, TablesInv
<1>17. ASSUME Log PROVE PackedInv'
  BY <1>17, PackedKept DEF Log, Pass, TablesInv
<1>18. ASSUME Correct PROVE PackedInv'
  BY <1>18, PackedKept DEF Correct, Pass, Corrected, TablesInv
<1>19. ASSUME Attribute PROVE PackedInv'
  BY <1>19, PackedKept DEF Attribute, Pass, TablesInv
<1>20. ASSUME SearchStart PROVE PackedInv'
  <2>1. job.search.kind \in {"none", "full", "list"} /\ PackedInv
    BY JobsAssumption DEF TablesInv, ControlInv
  <2> QED
    BY <1>20, <2>1, PackedKept DEF SearchStart
<1>21. ASSUME SearchStep PROVE PackedInv'
  BY <1>21, PackedKept DEF SearchStep, Pass, Corrected, TablesInv
<1>22. ASSUME DenseLoad PROVE PackedInv'
  <2>1. reg = {} /\ pc' \in {"fatal", "promote"}
    BY <1>22 DEF DenseLoad, Stop, TablesInv, ControlInv
  <2> QED
    BY <1>22, <2>1, PackedKept DEF DenseLoad, exportVars, TablesInv, Replayed
<1>23. ASSUME PromoteLine PROVE PackedInv'
  BY <1>23, PackedKept DEF PromoteLine, PromoteSlot, TablesInv
<1>24. ASSUME PromoteDone PROVE PackedInv'
  BY <1>24, PackedKept DEF PromoteDone, exportVars, TablesInv
<1>25. ASSUME Export PROVE PackedInv'
  BY <1>25, PackedKept DEF Export, TablesInv
<1>26. ASSUME ExportUnloaded PROVE PackedInv'
  BY <1>26, PackedKept DEF ExportUnloaded, TablesInv
<1>27. ASSUME GateStep PROVE PackedInv'
  BY <1>27, PackedKept DEF GateStep, TablesInv
<1>28. CASE UNCHANGED vars
  BY <1>28, PackedKept DEF vars, tensorVars, exportVars, gateVars, TablesInv
<1> QED
  BY <1>1, <1>2, <1>3, <1>4, <1>5, <1>6, <1>7, <1>8, <1>9, <1>10, <1>11, <1>12, <1>13, <1>14,
     <1>15, <1>16, <1>17, <1>18, <1>19, <1>20, <1>21, <1>22, <1>23, <1>24, <1>25, <1>26, <1>27,
     <1>28
     DEF Next, TensorNext, ExportNext, Ended

\* A pass misses at most the data of a lazy mirror that was promoted before any
\* replay materialized it, or that a search asks for.
LEMMA PassStep == TablesInv /\ [Next]_vars => PassInv'
<1> SUFFICES ASSUME TablesInv, [Next]_vars PROVE PassInv'
  OBVIOUS
<1> USE DEF loadVars, mirrorVars, policyVars, replayVars, controlVars, Goto
<1>1. ASSUME LoadLayer PROVE PassInv'
  BY <1>1, PassKept DEF LoadLayer, Register, Stop, TablesInv, Replayed
<1>2. ASSUME LoadGlobals PROVE PassInv'
  BY <1>2, PassKept DEF LoadGlobals, Register, Stop, TablesInv, Replayed
<1>3. ASSUME ResolveLayer PROVE PassInv'
  <2>1. /\ PackedInv /\ PassInv /\ UNCHANGED <<job, mats, pass, packed, reg, promoted, active>>
        /\ job.source \in MoeSources
    BY <1>3 DEF ResolveLayer, Stop, TablesInv, ControlInv
  <2>2. pc' \notin Replayed
    BY <1>3, <2>1 DEF ResolveLayer, Stop, AfterResolve, MoeSources, Replayed
  <2> QED
    BY <2>1, <2>2, PassKept DEF Replayed
<1>4. ASSUME RegisterMirrors PROVE PassInv'
  BY <1>4, PassKept DEF RegisterMirrors, TablesInv, Replayed
<1>5. ASSUME ResolveMirrors PROVE PassInv'
  BY <1>5, PassKept DEF ResolveMirrors, TablesInv, Replayed
<1>6. ASSUME ActiveInit PROVE PassInv'
  BY <1>6, PassKept DEF ActiveInit, TablesInv, Replayed
<1>7. ASSUME NqLine PROVE PassInv'
  BY <1>7, PassKept DEF NqLine, TablesInv, Replayed
<1>8. ASSUME NqDone PROVE PassInv'
  BY <1>8, PassKept DEF NqDone, TablesInv, Replayed
<1>9. ASSUME Verify PROVE PassInv'
  BY <1>9, PassStepOfVerify
<1>10. ASSUME VerifyGather PROVE PassInv'
  BY <1>10, PassStepOfGather
<1>11. ASSUME Publish PROVE PassInv'
  BY <1>11, PassKept DEF Publish, TablesInv, Replayed
<1>12. ASSUME Poll PROVE PassInv'
  BY <1>12, PassKept DEF Poll, TablesInv, Replayed
<1>13. ASSUME Commit PROVE PassInv'
  BY <1>13, PassKept DEF Commit, TablesInv, Replayed
<1>14. ASSUME Admit PROVE PassInv'
  BY <1>14, PassKept DEF Admit, TablesInv, Replayed
<1>15. ASSUME Step PROVE PassInv'
  BY <1>15, PassStepOfStep
<1>16. ASSUME Emit PROVE PassInv'
  BY <1>16, PassKept DEF Emit, TablesInv, Replayed
<1>17. ASSUME Log PROVE PassInv'
  BY <1>17, PassStepOfLog
<1>18. ASSUME Correct PROVE PassInv'
  BY <1>18, PassStepOfCorrect
<1>19. ASSUME Attribute PROVE PassInv'
  BY <1>19, PassStepOfAttribute
<1>20. ASSUME SearchStart PROVE PassInv'
  BY <1>20, PassStepOfSearchStart
<1>21. ASSUME SearchStep PROVE PassInv'
  BY <1>21, PassStepOfSearchStep
<1>22. ASSUME DenseLoad PROVE PassInv'
  <2>1. reg = {} /\ pc' \in {"fatal", "promote"}
    BY <1>22 DEF DenseLoad, Stop, TablesInv, ControlInv
  <2> QED
    BY <1>22, <2>1, PassKept DEF DenseLoad, exportVars, TablesInv, Replayed
<1>23. ASSUME PromoteLine PROVE PassInv'
  BY <1>23, PassKept DEF PromoteLine, PromoteSlot, TablesInv, Replayed
<1>24. ASSUME PromoteDone PROVE PassInv'
  BY <1>24, PassKept DEF PromoteDone, exportVars, TablesInv, Replayed
<1>25. ASSUME Export PROVE PassInv'
  BY <1>25, PassKept DEF Export, TablesInv, Replayed
<1>26. ASSUME ExportUnloaded PROVE PassInv'
  BY <1>26, PassKept DEF ExportUnloaded, TablesInv, Replayed
<1>27. ASSUME GateStep PROVE PassInv'
  BY <1>27, PassKept DEF GateStep, TablesInv, Replayed
<1>28. CASE UNCHANGED vars
  BY <1>28, PassKept DEF vars, tensorVars, exportVars, gateVars, TablesInv, Replayed
<1> QED
  BY <1>1, <1>2, <1>3, <1>4, <1>5, <1>6, <1>7, <1>8, <1>9, <1>10, <1>11, <1>12, <1>13, <1>14,
     <1>15, <1>16, <1>17, <1>18, <1>19, <1>20, <1>21, <1>22, <1>23, <1>24, <1>25, <1>26, <1>27,
     <1>28
     DEF Next, TensorNext, ExportNext, Ended

-----------------------------------------------------------------------------
(* The setup of the modes.                                                 *)

StepNames ==
  {"device", "config", "validate", "rowsMLA", "buffers", "yarn", "af", "f32", "resolve", "heads",
   "bind", "deviceMLA", "layerConfig", "onlyGQA", "rowsGQA", "ropeGqa", "deviceGQA", "reference",
   "attentionMLA", "gpuAttentionMLA", "token", "gpuMLA", "nq", "shortPrompt", "batchRange",
   "columns", "batch", "columnsN", "gpuLanesMLA", "slotRange", "columnsSlots", "prompt",
   "tokens", "gpuGQA", "gpuLanesGQA", "laneRoom", "slotLanes", "gpuAttentionGQA", "probe",
   "depth", "mirrors", "mirrorTable", "mirrorProbe", "storeProbe", "expertProbe", "testedLayers",
   "rowsByKind", "slots", "ropeGqaIfGqa", "fixedLanes", "nqHost", "store", "yarnNeoxIfGptoss",
   "raggedLane", "ownLayer", "attention", "resolveAttention", "ownTable", "yarnNeox",
   "ownBuffers", "onlyMLA"}

Steps(list) == list \in Seq(StepNames) /\ list # <<>>

LEMMA Joined ==
    ASSUME NEW s \in Seq(StepNames), NEW t \in Seq(StepNames), s # <<>> \/ t # <<>>
    PROVE  Steps(s \o t)
  BY DEF Steps

LEMMA DeviceBound ==
    ASSUME NEW d \in Seq(StepNames)
    PROVE  Steps(VerifyBound(d))
<1>1. /\ Steps(VerifyLoad) /\ Steps(Blobs) /\ Steps(<<"device", "bind">>)
      /\ Steps(<<"heads", "prompt", "tokens">>) /\ <<>> \in Seq(StepNames)
  BY DEF VerifyLoad, Blobs, Steps, StepNames
<1>2. Steps(VerifyLoad \o Blobs) /\ Steps(<<"device", "bind">> \o d)
  BY <1>1, Joined DEF Steps
<1>3. Steps(VerifyLoad \o Blobs \o (IF job.attn = "GQA" THEN <<"device", "bind">> \o d ELSE <<>>))
  BY <1>1, <1>2, Joined DEF Steps
<1> QED
  BY <1>1, <1>3, Joined DEF VerifyBound, Steps

LEMMA BlocksAreLists ==
    /\ \A c \in {"any", "onlyMLA"} : Steps(MlaLoad(c))
    /\ Steps(MlaDevice) /\ Steps(GqaLoad) /\ Steps(GqaDevice) /\ Steps(GqaBound)
    /\ Steps(VerifyLoad) /\ Steps(Blobs)
<1>1. Steps(MlaDevice) /\ Steps(GqaLoad) /\ Steps(GqaDevice) /\ Steps(VerifyLoad) /\ Steps(Blobs)
  BY DEF MlaDevice, GqaLoad, GqaDevice, VerifyLoad, Blobs, Steps, StepNames
<1>2. \A c \in {"any", "onlyMLA"} : Steps(MlaLoad(c))
  <2>1. \A c \in {"any", "onlyMLA"} : Kind(c) \in Seq(StepNames)
    <3>1. <<>> \in Seq(StepNames) /\ <<"onlyMLA">> \in Seq(StepNames)
      BY DEF StepNames
    <3> QED
      BY <3>1 DEF Kind
  <2>2. <<"device", "config">> \in Seq(StepNames) /\ <<"device", "config">> # <<>>
    BY DEF StepNames
  <2>3. <<"validate", "rowsMLA", "buffers", "yarn", "af", "f32", "resolve", "heads", "bind">>
          \in Seq(StepNames)
    BY DEF StepNames
  <2> QED
    BY <2>1, <2>2, <2>3, Joined DEF MlaLoad, Steps
<1>3. Steps(GqaBound)
  BY <1>1, Joined DEF GqaBound, Steps, StepNames
<1> QED
  BY <1>1, <1>2, <1>3

\* Every mode has a step to take.
LEMMA GatesHaveSteps == \A m \in GateModes : Steps(Gates[m])
<1>1. Steps(MlaDevice) /\ Steps(GqaLoad) /\ Steps(GqaDevice) /\ Steps(VerifyLoad) /\ Steps(Blobs)
  BY BlocksAreLists
<1>2. \A c \in {"any", "onlyMLA"} : Steps(MlaLoad(c))
  BY BlocksAreLists
<1>3. Steps(GqaBound)
  BY BlocksAreLists
<1>4. Steps(MlaGate)
  BY <1>1, <1>2, <1>3, Joined DEF MlaGate, Steps, StepNames
<1>5. Steps(FullGate)
  BY <1>1, <1>2, <1>3, Joined DEF FullGate, Steps, StepNames
<1>6. Steps(FusedGate)
  BY <1>1, <1>2, <1>3, Joined DEF FusedGate, Steps, StepNames
<1>7. Steps(GenerateGate)
  BY <1>1, <1>2, <1>3, Joined DEF GenerateGate, Steps, StepNames
<1>8. Steps(BatchGate)
  BY <1>1, <1>2, <1>3, Joined DEF BatchGate, Steps, StepNames
<1>9. Steps(CbatchGate)
  BY <1>1, <1>2, <1>3, Joined DEF CbatchGate, Steps, StepNames
<1>10. Steps(PrefillGate)
  BY <1>1, <1>2, <1>3, Joined DEF PrefillGate, Steps, StepNames
<1>11. Steps(OnlineGate)
  BY <1>1, <1>2, <1>3, Joined DEF OnlineGate, Steps, StepNames
<1>12. Steps(GqaFusedGate)
  BY <1>1, <1>2, <1>3, Joined DEF GqaFusedGate, Steps, StepNames
<1>13. Steps(GqaBatchGate)
  BY <1>1, <1>2, <1>3, Joined DEF GqaBatchGate, Steps, StepNames
<1>14. Steps(GqaGenerateGate)
  BY <1>1, <1>2, <1>3, Joined DEF GqaGenerateGate, Steps, StepNames
<1>15. Steps(GqaCbatchGate)
  BY <1>1, <1>2, <1>3, Joined DEF GqaCbatchGate, Steps, StepNames
<1>16. Steps(GqaPrefillGate)
  BY <1>1, <1>2, <1>3, Joined DEF GqaPrefillGate, Steps, StepNames
<1>17. Steps(GqaOnlineGate)
  BY <1>1, <1>2, <1>3, Joined DEF GqaOnlineGate, Steps, StepNames
<1>18. Steps(GqaOnlineCpuGate)
  BY <1>1, <1>2, <1>3, Joined DEF GqaOnlineCpuGate, Steps, StepNames
<1>19. Steps(GqaGpuGate)
  BY <1>1, <1>2, <1>3, Joined DEF GqaGpuGate, Steps, StepNames
<1>20. Steps(GpuMode)
  <2>1. /\ Steps(GpuModeBind) /\ Steps(GpuModeMirrors)
        /\ Steps(GpuModeWidths) /\ Steps(GpuModePolicy)
    BY DEF GpuModeBind, GpuModeMirrors, GpuModeWidths, GpuModePolicy, Steps, StepNames
  <2>2. Steps(GpuModeMirrors \o GpuModeWidths \o GpuModePolicy)
    BY <2>1, Joined DEF Steps
  <2> QED
    BY <2>1, <2>2, Joined DEF GpuMode, Steps
<1>21. Steps(VerifyScalar)
  BY <1>1, <1>2, <1>3, Joined DEF VerifyScalar, Steps, StepNames
<1>22. Steps(VerifyBatch)
  BY <1>1, <1>2, <1>3, Joined DEF VerifyBatch, Steps, StepNames
<1>23. Steps(VerifyLanes)
  BY <1>1, <1>2, <1>3, Joined DEF VerifyLanes, Steps, StepNames
<1>24. Steps(VerifyOnline)
  BY <1>1, <1>2, <1>3, Joined DEF VerifyOnline, Steps, StepNames
<1>25. Steps(VerifyBound(<<>>))
  <2>1. <<>> \in Seq(StepNames)
    OBVIOUS
  <2> QED
    BY <2>1, DeviceBound
<1>26. Steps(VerifyBound(GqaDevice))
  BY <1>1, DeviceBound DEF Steps
<1>27. Steps(SafetensorsGate)
  BY <1>1, <1>2, <1>3, Joined DEF SafetensorsGate, Steps, StepNames
<1>28. Steps(GgufGate)
  BY <1>1, <1>2, <1>3, Joined DEF GgufGate, Steps, StepNames
<1>29. Steps(GgufCheck)
  <2>1. <<"raggedLane", "batch">> \in Seq(StepNames)
    BY DEF StepNames
  <2> QED
    BY <1>28, <2>1, Joined DEF GgufCheck, Steps
<1>30. Steps(SymSelftest)
  BY <1>1, <1>2, <1>3, Joined DEF SymSelftest, Steps, StepNames
<1>31. Steps(MqaSelftest)
  BY <1>1, <1>2, <1>3, Joined DEF MqaSelftest, Steps, StepNames
<1>32. Steps(GqaSelftest)
  BY <1>1, <1>2, <1>3, Joined DEF GqaSelftest, Steps, StepNames
<1>33. Steps(OlmoeSelftest)
  BY <1>1, <1>2, <1>3, Joined DEF OlmoeSelftest, Steps, StepNames
<1>34. Steps(GptossAttention)
  BY <1>1, <1>2, <1>3, Joined DEF GptossAttention, Steps, StepNames
<1> QED
  BY <1>4, <1>5, <1>6, <1>7, <1>8, <1>9, <1>10, <1>11, <1>12, <1>13, <1>14, <1>15, <1>16, <1>17,
     <1>18, <1>19, <1>20, <1>21, <1>22, <1>23, <1>24, <1>25, <1>26, <1>27, <1>28, <1>29, <1>30,
     <1>31, <1>32, <1>33, <1>34
     DEF GateModes, Gates

SetupInv ==
  /\ setup.cap \in 1 .. BatchMax
  /\ pc = "gate" => setup.todo # <<>>
  /\ pc \notin {"gate", "fatal"} => setup.todo = <<>>

LEMMA SetupInit == Init => SetupInv
<1> SUFFICES ASSUME Init PROVE SetupInv
  OBVIOUS
<1>1. setup.cap = BatchMax /\ BatchMax \in Nat \ {0}
  BY GateBounds DEF Init, GateInit
<1>2. setup.todo = IF job.source = "gate" THEN Gates[job.gate.mode] ELSE <<>>
  BY DEF Init, GateInit
<1>3. job.source = "gate" => Gates[job.gate.mode] # <<>>
  BY ModeAssumption, GatesHaveSteps DEF Init, Steps
<1>4. pc = "gate" <=> job.source = "gate"
  BY DEF Init, Begin
<1> QED
  BY <1>1, <1>2, <1>3, <1>4 DEF SetupInv

\* The other parts of the program neither end a mode nor begin one.
Elsewhere == pc \notin {"gate", "fatal", "done"} /\ pc' # "gate"

LEMMA OtherSteps ==
    ASSUME TablesInv, TensorNext \/ ExportNext
    PROVE  Elsewhere
<1> USE DEF Goto
<1>1. ASSUME LoadLayer PROVE Elsewhere
  BY <1>1 DEF Elsewhere, LoadLayer, Register, Stop
<1>2. ASSUME LoadGlobals PROVE Elsewhere
  BY <1>2 DEF Elsewhere, LoadGlobals, Register, Stop
<1>3. ASSUME ResolveLayer PROVE Elsewhere
  <2>1. job.source \in MoeSources
    BY <1>3 DEF ResolveLayer, TablesInv, ControlInv
  <2> QED
    BY <1>3, <2>1 DEF Elsewhere, ResolveLayer, Stop, AfterResolve, MoeSources
<1>4. ASSUME RegisterMirrors PROVE Elsewhere
  BY <1>4 DEF Elsewhere, RegisterMirrors
<1>5. ASSUME ResolveMirrors PROVE Elsewhere
  BY <1>5 DEF Elsewhere, ResolveMirrors
<1>6. ASSUME ActiveInit PROVE Elsewhere
  BY <1>6 DEF Elsewhere, ActiveInit
<1>7. ASSUME NqLine PROVE Elsewhere
  BY <1>7 DEF Elsewhere, NqLine
<1>8. ASSUME NqDone PROVE Elsewhere
  BY <1>8 DEF Elsewhere, NqDone
<1>9. ASSUME Verify PROVE Elsewhere
  BY <1>9 DEF Elsewhere, Verify, Pass
<1>10. ASSUME VerifyGather PROVE Elsewhere
  BY <1>10 DEF Elsewhere, VerifyGather, Batched
<1>11. ASSUME Publish PROVE Elsewhere
  BY <1>11 DEF Elsewhere, Publish
<1>12. ASSUME Poll PROVE Elsewhere
  BY <1>12 DEF Elsewhere, Poll
<1>13. ASSUME Commit PROVE Elsewhere
  BY <1>13 DEF Elsewhere, Commit
<1>14. ASSUME Admit PROVE Elsewhere
  BY <1>14 DEF Elsewhere, Admit
<1>15. ASSUME Step PROVE Elsewhere
  BY <1>15 DEF Elsewhere, Step, Batched, Looked
<1>16. ASSUME Emit PROVE Elsewhere
  BY <1>16 DEF Elsewhere, Emit
<1>17. ASSUME Log PROVE Elsewhere
  BY <1>17 DEF Elsewhere, Log, Pass
<1>18. ASSUME Correct PROVE Elsewhere
  BY <1>18 DEF Elsewhere, Correct, Pass, Corrected
<1>19. ASSUME Attribute PROVE Elsewhere
  BY <1>19 DEF Elsewhere, Attribute, Pass
<1>20. ASSUME SearchStart PROVE Elsewhere
  <2>1. job.search.kind \in {"none", "full", "list"}
    BY JobsAssumption DEF TablesInv, ControlInv
  <2> QED
    BY <1>20, <2>1 DEF Elsewhere, SearchStart, Pass, Corrected
<1>21. ASSUME SearchStep PROVE Elsewhere
  BY <1>21 DEF Elsewhere, SearchStep, Pass, Corrected
<1>22. ASSUME DenseLoad PROVE Elsewhere
  BY <1>22 DEF Elsewhere, DenseLoad, Stop, exportVars
<1>23. ASSUME PromoteLine PROVE Elsewhere
  BY <1>23 DEF Elsewhere, PromoteLine, PromoteSlot
<1>24. ASSUME PromoteDone PROVE Elsewhere
  BY <1>24 DEF Elsewhere, PromoteDone, exportVars
<1>25. ASSUME Export PROVE Elsewhere
  BY <1>25 DEF Elsewhere, Export
<1>26. ASSUME ExportUnloaded PROVE Elsewhere
  BY <1>26 DEF Elsewhere, ExportUnloaded
<1> QED
  BY <1>1, <1>2, <1>3, <1>4, <1>5, <1>6, <1>7, <1>8, <1>9, <1>10, <1>11, <1>12, <1>13, <1>14,
     <1>15, <1>16, <1>17, <1>18, <1>19, <1>20, <1>21, <1>22, <1>23, <1>24, <1>25, <1>26 DEF TensorNext, ExportNext

\* A mode ends with its last step, and only the lanes asked for change its room.
LEMMA SetupStep == SetupInv /\ TablesInv /\ [Next]_vars => SetupInv'
<1> SUFFICES ASSUME SetupInv, TablesInv, [Next]_vars PROVE SetupInv'
  OBVIOUS
<1>1. CASE GateStep
  <2> DEFINE step == Head(setup.todo)
  <2>1. /\ pc = "gate"
        /\ \/ pc' = "fatal" /\ UNCHANGED setup
           \/ /\ setup'.todo = Tail(setup.todo) /\ setup'.cap = Room(step)
              /\ pc' = IF Tail(setup.todo) = <<>> THEN "done" ELSE "gate"
    <3>1. CASE Stops(step)
      BY <1>1, <3>1 DEF GateStep
    <3>2. CASE ~ Stops(step)
      <4>1. setup' = [todo  |-> Tail(setup.todo),
                      have  |-> setup.have \cup Sets(step, setup.have),
                      cap   |-> Room(step),
                      unset |-> setup.unset \cup (Reads(step) \ setup.have),
                      over  |-> setup.over \cup Overruns(step)]
        BY <1>1, <3>2 DEF GateStep
      <4>2. setup'.todo = Tail(setup.todo) /\ setup'.cap = Room(step)
        BY <4>1
      <4>3. pc = "gate" /\ pc' = IF Tail(setup.todo) = <<>> THEN "done" ELSE "gate"
        BY <1>1, <3>2 DEF GateStep
      <4> QED
        BY <4>2, <4>3
    <3> QED
      BY <3>1, <3>2
  <2>2. Room(step) \in 1 .. BatchMax
    BY DEF Room, SetupInv
  <2> HIDE DEF step
  <2> QED
    BY <2>1, <2>2 DEF SetupInv
<1>2. CASE UNCHANGED vars
  BY <1>2 DEF vars, gateVars, tensorVars, SetupInv
<1>3. CASE UNCHANGED setup /\ (TensorNext \/ ExportNext)
  <2>1. Elsewhere
    BY <1>3, OtherSteps
  <2> QED
    BY <1>3, <2>1 DEF Elsewhere, SetupInv
<1> QED
  BY <1>1, <1>2, <1>3 DEF Next, Ended, gateVars

-----------------------------------------------------------------------------
(* The invariant and the theorems.                                         *)

LEMMA TablesInit == Init => TablesInv
<1> SUFFICES ASSUME Init PROVE TablesInv
  OBVIOUS
<1> USE DEF Init, TensorInit, Begin
<1>1. job.source \in {"blob", "safetensors", "gguf", "dense", "gate"} /\ job \in Jobs
  BY JobsAssumption
<1>2. ControlInv
  BY <1>1 DEF ControlInv, MoeSources, Loading, Resolved, Policied, Serving, Replaying
<1>3. CountersInv
  <2>1. Len(job.files) \in Nat
    BY <1>1, JobsAssumption
  <2>2. pc \notin {"resolve", "step", "emit", "log"} \cup Replaying
    BY <1>1 DEF Replaying
  <2>3. layer = 0 /\ busy = 0 /\ left = Requests /\ drain = FALSE /\ cur = "active" /\ version = 0
    OBVIOUS
  <2>4. 0 \in 0 .. NL /\ 0 \in 0 .. Tokens /\ Requests \in 0 .. Requests
    BY Bounds
  <2>5. layer \in 0 .. NL /\ busy \in 0 .. Tokens /\ left \in 0 .. Requests
    BY <2>3, <2>4
  <2>6. version \in Nat /\ version <= Len(job.files)
    BY <2>1, <2>3
  <2> QED
    BY <2>2, <2>3, <2>5, <2>6 DEF CountersInv
<1>4. RegistryInv
  <2>1. IsFiniteSet({}) /\ Cardinality({}) = 0
    BY FS_EmptySet
  <2>2. {t \in reg : ~ InF32Store(t)} = {}
    OBVIOUS
  <2>3. HasRoom(reg)
    BY <2>1, <2>2, Bounds DEF HasRoom
  <2> QED
    BY <2>1, <2>3 DEF RegistryInv
<1>5. \A s \in Slots : base[s] = NoTensor /\ hi[s] = NoTensor /\ sel[s] = NoTensor /\ active[s] = NoTensor
  BY DEF Empty
<1>6. {base, hi, sel, active} \subseteq [Slots -> Held]
  BY DEF Empty, Held
<1>7. BaseInv
  <2>1. \A s \in Slots : Prod(s) # NoTensor /\ Wide(s) # NoTensor
    BY NameFacts
  <2>2. pc \notin Resolved \cup {"promote", "resolve"}
    BY <1>1 DEF Resolved, Policied, Serving, Replaying
  <2> QED
    BY <1>5, <1>6, <2>1, <2>2 DEF BaseInv
<1>8. MirrorsInv
  <2>1. \A s \in Slots : Mirror(s) # NoTensor
    BY NameFacts
  <2>2. pc \notin Policied
    BY <1>1 DEF Policied, Serving, Replaying
  <2> QED
    BY <1>5, <1>6, <2>1, <2>2 DEF MirrorsInv
<1>9. PolicyInv
  <2>1. pc \notin Serving \cup {"nq"}
    BY <1>1 DEF Serving, Replaying
  <2>2. \A s \in Slots : nq[s] = 0
    OBVIOUS
  <2> QED
    BY <1>5, <1>6, <2>1, <2>2 DEF PolicyInv
<1>10. PackedInv
  BY DEF PackedInv, NotPacked, Held
<1>11. PassInv
  <2>1. pc \notin {"attribute", "search", "ddmin"}
    BY <1>1
  <2>2. mats = {} /\ pass.bad = {} /\ pass.kind = "none"
    OBVIOUS
  <2> QED
    BY <2>1, <2>2 DEF PassInv, ServedMirrorsStay
<1> QED
  BY <1>2, <1>3, <1>4, <1>7, <1>8, <1>9, <1>10, <1>11 DEF TablesInv

LEMMA TablesNext == TablesInv /\ [Next]_vars => TablesInv'
<1> SUFFICES ASSUME TablesInv, [Next]_vars PROVE TablesInv'
  OBVIOUS
<1>1. ControlInv' /\ CountersInv' /\ RegistryInv' /\ BaseInv'
  BY ControlStep, CountersStep, RegistryStep, BaseStep
<1>2. MirrorsInv' /\ PolicyInv' /\ PackedInv' /\ PassInv'
  BY MirrorsStep, PolicyStep, PackedStep, PassStep
<1> QED
  BY <1>1, <1>2 DEF TablesInv

\* The inductive invariant of the tables, the registry, the policy and the
\* passes, and of the setup of the modes.
THEOREM Invariance == Spec => [](TablesInv /\ SetupInv)
<1>1. Init => TablesInv /\ SetupInv
  BY TablesInit, SetupInit
<1>2. TablesInv /\ SetupInv /\ [Next]_vars => (TablesInv /\ SetupInv)'
  BY TablesNext, SetupStep
<1> QED
  BY <1>1, <1>2, PTL DEF Spec

\* The tables hold registered names or nothing, the registry of the MoE engine
\* never overflows, a lazy mirror with data is registered, and a mode is at a
\* step exactly while it has one to take.
THEOREM TypeCorrect == Spec => []TypeOK
<1>1. TablesInv /\ SetupInv => TypeOK
  <2> SUFFICES ASSUME TablesInv, SetupInv PROVE TypeOK
    OBVIOUS
  <2>1. reg \subseteq Names /\ (job.source # "dense" => HasRoom(reg))
    BY DEF TablesInv, RegistryInv
  <2>2. layer \in 0 .. NL /\ busy \in 0 .. Tokens /\ left \in 0 .. Requests /\ drain \in BOOLEAN
        /\ cur = "active"
    BY DEF TablesInv, CountersInv
  <2>3. \A t \in {base, hi, sel, active} : t \in [Slots -> Held]
    BY DEF TablesInv, BaseInv, MirrorsInv, PolicyInv
  <2>4. packed \in [PackSlots -> [src : Held, ready : {-1, 0, 1}]]
    BY DEF TablesInv, PackedInv
  <2>5. mats \subseteq Materialized /\ pass.bad \subseteq Names /\ promoted \subseteq Slots
    BY <2>1 DEF TablesInv, PassInv, PolicyInv, Unmaterialized
  <2>6. setup.cap \in 1 .. BatchMax /\ (pc = "gate" <=> setup.todo # <<>> /\ pc # "fatal")
    BY DEF SetupInv
  <2> QED
    BY <2>1, <2>2, <2>3, <2>4, <2>5, <2>6 DEF TypeOK, HasRoom, Held
<1> QED
  BY <1>1, Invariance, PTL

\* Whatever the order of the promotion and demotion files and of the replays, a
\* token is served from the tensors that the lines accepted so far ask for.
THEOREM ServesPolicy == Spec => []ServesItsPolicy
<1>1. TablesInv => ServesItsPolicy
  <2> SUFFICES ASSUME TablesInv, pc = "step" PROVE ServesItsPolicy
    BY DEF ServesItsPolicy
  <2>1. cur = "active" /\ \A s \in Slots : active[s] = Policy(s)
    BY DEF TablesInv, CountersInv, PolicyInv, Serving
  <2>2. ASSUME NEW s \in promoted, Mirror(s) \in reg
        PROVE  active[s] = Mirror(s)
    <3>1. s \in Slots /\ job.correct
      BY <2>2 DEF TablesInv, PolicyInv
    <3>2. hi[s] = Mirror(s)
      BY <2>2, <3>1 DEF TablesInv, MirrorsInv, Policied, Serving
    <3> QED
      BY <2>1, <2>2, <3>1, <3>2 DEF Policy
  <2> QED
    BY <2>1, <2>2 DEF ServesItsPolicy, Policy
<1> QED
  BY <1>1, Invariance, PTL

\* Every pass of every run reads each tensor in the layout its registrar wrote,
\* with its data present unless it is a lazy mirror promoted before a replay,
\* and never through weights repacked from the tensor a slot served before.
THEOREM ReadsItsData == Spec => []PassReadsItsData
<1>1. TablesInv => PassReadsItsData
  BY DEF TablesInv, PassInv, PassReadsItsData
<1> QED
  BY <1>1, Invariance, PTL

-----------------------------------------------------------------------------
(* The promotion and the export of a checkpoint.                           *)

\* The int that remembers the promoted layers of a role has a bit for each.
OneBitPerLayer == MaskBits \in Nat /\ NL <= MaskBits

Checkpoint == job.source \in {"gguf", "dense"}

\* The slots that the lines before line k of the promotion file ask for.
Asked(k) ==
  {s \in Slots : /\ \E i \in DOMAIN job.promo : i < k /\ job.promo[i] = s
                 /\ s[1] \in (IF IsDenseEngine THEN DenseWtRoles ELSE MoeRoles)}

PromotedSoFar ==
  /\ pline \in 1 .. Len(job.promo) + 1
  /\ mask \in [Roles -> SUBSET Nat]
  /\ \A s \in Slots : /\ s[2] \in mask[s[1]] <=> s \in Asked(pline)
                      /\ base[s] = Wide(s) <=> s \in Asked(pline)

ExportedSoFar ==
  /\ pc \in {"denseload", "load", "resolve", "unloaded"} => pline = 1
  /\ pc \in {"export", "verify", "gather", "done", "unloaded"} => pline > Len(job.promo)
  /\ pc # "done" => \A s \in Slots : exported[s] = "no"
  /\ \A s \in Slots : exported[s] # "no" /\ ~ IsDenseEngine =>
       exported[s] = IF s \in Asked(pline) THEN "f32" ELSE "source"

ExportInv == Checkpoint => PromotedSoFar /\ ExportedSoFar

\* The bit of a layer is its own.
LEMMA BitIsLayer ==
    ASSUME OneBitPerLayer, NEW s \in Slots
    PROVE  Bit(s) = s[2] /\ s[1] \in Roles /\ s[2] \in Nat
<1>1. s[1] \in Roles /\ s[2] \in Nat /\ s[2] < MaskBits /\ MaskBits \in Nat \ {0}
  BY SlotsArePairs, Bounds DEF OneBitPerLayer
<1>2. s[2] % MaskBits = s[2]
  BY <1>1
<1> QED
  BY <1>1, <1>2 DEF Bit

LEMMA AskedStays ==
    ASSUME job' = job, pline' = pline
    PROVE  Asked(pline)' = Asked(pline) /\ (IsDenseEngine' <=> IsDenseEngine)
<1>1. IsDenseEngine' <=> IsDenseEngine
  BY DEF IsDenseEngine
<1> QED
  BY <1>1 DEF Asked

LEMMA NothingAskedFirst ==
    ASSUME job \in Jobs
    PROVE  Asked(1) = {}
<1>1. DOMAIN job.promo = 1 .. Len(job.promo) /\ Len(job.promo) \in Nat
  BY JobsAssumption
<1> QED
  BY <1>1 DEF Asked

LEMMA ExportInit0 == Init => ExportInv
<1> SUFFICES ASSUME Init, Checkpoint PROVE PromotedSoFar /\ ExportedSoFar
  BY DEF ExportInv
<1>1. job \in Jobs /\ Len(job.promo) \in Nat /\ pline = 1 /\ mask = [r \in Roles |-> {}]
      /\ exported = [s \in Slots |-> "no"] /\ base = [s \in Slots |-> NoTensor]
  BY JobsAssumption DEF Init, ExportInit, TensorInit, Empty
<1>2. Asked(1) = {}
  BY <1>1, NothingAskedFirst
<1>3. PromotedSoFar
  <2>1. \A s \in Slots : s[1] \in Roles /\ Wide(s) # NoTensor
    BY SlotsArePairs, NameFacts
  <2> QED
    BY <1>1, <1>2, <2>1 DEF PromotedSoFar
<1>4. pc \in {"denseload", "unloaded", "load"} /\ (pc = "unloaded" => job.promo = <<>>)
  BY DEF Init, Begin, Checkpoint
<1>5. pc = "unloaded" => Len(job.promo) = 0
  BY <1>4
<1> QED
  BY <1>1, <1>2, <1>3, <1>4, <1>5 DEF ExportedSoFar

LEMMA ExportKept ==
    ASSUME ExportInv, Checkpoint, job' = job, base' = base, UNCHANGED exportVars,
           pc' \in {"denseload", "load", "resolve", "unloaded"} => pc \in {"load", "resolve"},
           pc' \in {"export", "verify", "gather", "done", "unloaded"} =>
             pc \in {"export", "verify", "gather", "unloaded"},
           pc # "done"
    PROVE  ExportInv'
<1>1. Asked(pline)' = Asked(pline) /\ (IsDenseEngine' <=> IsDenseEngine)
  BY AskedStays DEF exportVars
<1>2. PromotedSoFar'
  BY <1>1 DEF ExportInv, PromotedSoFar, exportVars
<1>3. ExportedSoFar'
  BY <1>1 DEF ExportInv, ExportedSoFar, exportVars
<1> QED
  BY <1>2, <1>3 DEF ExportInv

\* What a loader of a checkpoint does.
LEMMA CheckpointSteps ==
    ASSUME TablesInv, Checkpoint, TensorNext
    PROVE  LoadLayer \/ LoadGlobals \/ ResolveLayer \/ Verify \/ VerifyGather
<1>1. job.source # "blob" /\ pc \notin {"mirrors", "mirrored"} \cup Policied
  BY DEF TablesInv, ControlInv, Checkpoint
<1> QED
  BY <1>1
     DEF TensorNext, RegisterMirrors, ResolveMirrors, ActiveInit, NqLine, NqDone, Publish, Poll,
         Commit, Admit, Step, Emit, Log, Correct, Attribute, SearchStart, SearchStep, Policied,
         Serving, Replaying

LEMMA LoaderStepsExport ==
    ASSUME TablesInv, ExportInv, Checkpoint, TensorNext, UNCHANGED exportVars
    PROVE  ExportInv'
<1> USE DEF loadVars, Goto
<1>1. CASE LoadLayer
  BY <1>1, ExportKept DEF LoadLayer, Register, Stop
<1>2. CASE LoadGlobals
  BY <1>2, ExportKept DEF LoadGlobals, Register, Stop
<1>3. CASE Verify
  BY <1>3, ExportKept DEF Verify, Pass
<1>4. CASE VerifyGather
  BY <1>4, ExportKept DEF VerifyGather, Batched
<1>5. CASE ResolveLayer
  <2> DEFINE mine == {s \in Slots : s[2] = layer /\ (IsGlobal(s) \/ ValidAt(s))}
  <2>1. /\ pc = "resolve" /\ job' = job /\ job \in Jobs /\ job.source = "gguf"
        /\ base' = base \/ base' = [s \in Slots |-> IF s \in mine THEN Prod(s) ELSE base[s]]
    BY <1>5 DEF ResolveLayer, Stop, TablesInv, ControlInv, Checkpoint, MoeSources
  <2>2. pc' \in {"fatal", "resolve", "promote"}
    BY <1>5, <2>1 DEF ResolveLayer, Stop, AfterResolve
  <2>3. pline = 1 /\ Asked(pline) = {} /\ Asked(pline)' = Asked(pline)
        /\ (IsDenseEngine' <=> IsDenseEngine) /\ UNCHANGED <<mask, pline, exported>>
    BY <2>1, NothingAskedFirst, AskedStays DEF ExportInv, ExportedSoFar, exportVars
  <2>4. \A s \in Slots : base'[s] # Wide(s)
    <3>1. \A s \in Slots : base[s] # Wide(s) /\ Prod(s) # Wide(s)
      BY <2>3, NameFacts DEF ExportInv, PromotedSoFar
    <3> HIDE DEF mine
    <3> QED
      BY <2>1, <3>1
  <2>5. PromotedSoFar'
    BY <2>1, <2>3, <2>4 DEF ExportInv, PromotedSoFar
  <2>6. ExportedSoFar'
    BY <2>1, <2>2, <2>3 DEF ExportInv, ExportedSoFar
  <2> QED
    BY <2>5, <2>6 DEF ExportInv
<1> QED
  BY <1>1, <1>2, <1>3, <1>4, <1>5, CheckpointSteps

\* One line of the promotion file is remembered under its own layer.
LEMMA PromoteLineExport ==
    ASSUME OneBitPerLayer, TablesInv, ExportInv, Checkpoint, PromoteLine
    PROVE  ExportInv'
<1> DEFINE p == job.promo[pline]
           roles == IF IsDenseEngine THEN DenseWtRoles ELSE MoeRoles
<1>1. /\ pc = "promote" /\ job' = job /\ job \in Jobs /\ pline' = pline + 1 /\ exported' = exported
      /\ pline \in 1 .. Len(job.promo) /\ Len(job.promo) \in Nat
      /\ DOMAIN job.promo = 1 .. Len(job.promo)
      /\ pc' \in {"promote", "fatal"}
  <2>1. pline \in 1 .. Len(job.promo) + 1 /\ pline <= Len(job.promo)
    BY DEF PromoteLine, ExportInv, PromotedSoFar
  <2>2. job \in Jobs /\ Len(job.promo) \in Nat /\ DOMAIN job.promo = 1 .. Len(job.promo)
    BY JobsAssumption DEF TablesInv, ControlInv
  <2>3. pc = "promote" /\ job' = job /\ pline' = pline + 1 /\ exported' = exported
        /\ pc' \in {"promote", "fatal"}
    BY DEF PromoteLine, PromoteSlot, Goto
  <2> QED
    BY <2>1, <2>2, <2>3
<1>2. /\ IsDenseEngine' <=> IsDenseEngine
      /\ Asked(pline)' = Asked(pline) \cup (IF p \in Slots /\ p[1] \in roles THEN {p} ELSE {})
  <2>1. IsDenseEngine' <=> IsDenseEngine
    BY <1>1 DEF IsDenseEngine
  <2>2. \A i \in DOMAIN job.promo : i < pline + 1 <=> i < pline \/ i = pline
    BY <1>1
  <2>3. \A s \in Slots : (\E i \in DOMAIN job.promo : i < pline + 1 /\ job.promo[i] = s)
                           <=> (\E i \in DOMAIN job.promo : i < pline /\ job.promo[i] = s) \/ s = p
    BY <1>1, <2>2
  <2>4. Asked(pline)' = {s \in Slots : /\ \E i \in DOMAIN job.promo : i < pline + 1 /\ job.promo[i] = s
                                       /\ s[1] \in roles}
    BY <1>1, <2>1 DEF Asked
  <2>5. Asked(pline) = {s \in Slots : /\ \E i \in DOMAIN job.promo : i < pline /\ job.promo[i] = s
                                      /\ s[1] \in roles}
    BY DEF Asked
  <2> HIDE DEF p, roles
  <2>6. \A s \in Slots : s \in Asked(pline)' <=> s \in Asked(pline) \/ (s = p /\ p[1] \in roles)
    BY <2>3, <2>4, <2>5
  <2>7. Asked(pline)' \subseteq Slots /\ Asked(pline) \subseteq Slots
    BY <2>4, <2>5
  <2> QED
    BY <2>1, <2>6, <2>7
<1>3. /\ DOMAIN base = Slots /\ mask \in [Roles -> SUBSET Nat]
      /\ \A s \in Slots : /\ s[2] \in mask[s[1]] <=> s \in Asked(pline)
                          /\ base[s] = Wide(s) <=> s \in Asked(pline)
  BY DEF TablesInv, BaseInv, ExportInv, PromotedSoFar
<1>4. \/ /\ UNCHANGED <<base, mask>>
         /\ p \notin Slots \/ p[1] \notin roles \/ (p \in Slots /\ IsDenseEngine /\ Marked(p))
      \/ p \in Slots /\ p[1] \in roles /\ PromoteSlot(p)
  BY DEF PromoteLine, Goto
<1>5. PromotedSoFar'
  <2> HIDE DEF p, roles
  <2>1. pline' \in 1 .. Len(job'.promo) + 1
    BY <1>1
  <2>2. CASE /\ UNCHANGED <<base, mask>>
             /\ p \notin Slots \/ p[1] \notin roles \/ (p \in Slots /\ IsDenseEngine /\ Marked(p))
    <3>1. Asked(pline)' = Asked(pline)
      <4>1. p \in Slots /\ Marked(p) => p \in Asked(pline)
        BY <1>3, BitIsLayer DEF Marked
      <4> QED
        BY <1>2, <2>2, <4>1
    <3> QED
      BY <1>3, <2>1, <2>2, <3>1 DEF PromotedSoFar
  <2>3. CASE p \in Slots /\ p[1] \in roles /\ PromoteSlot(p)
    <3>1. /\ base' = [base EXCEPT ![p] = Wide(p)]
          /\ mask' = [mask EXCEPT ![p[1]] = @ \cup {p[2]}]
          /\ p[1] \in Roles /\ p[2] \in Nat
      BY <2>3, BitIsLayer DEF PromoteSlot
    <3>2. mask' \in [Roles -> SUBSET Nat]
      BY <1>3, <3>1
    <3>3. ASSUME NEW s \in Slots
          PROVE  /\ s[2] \in mask'[s[1]] <=> s \in Asked(pline)'
                 /\ base'[s] = Wide(s) <=> s \in Asked(pline)'
      <4>1. s \in Asked(pline)' <=> s \in Asked(pline) \/ s = p
        BY <1>2, <2>3
      <4>2. s = <<s[1], s[2]>> /\ p = <<p[1], p[2]>> /\ s[1] \in Roles
        BY <2>3, SlotsArePairs
      <4>3. s[2] \in mask'[s[1]] <=> s[2] \in mask[s[1]] \/ (s[1] = p[1] /\ s[2] = p[2])
        BY <1>3, <3>1, <4>2
      <4>4. base'[s] = IF s = p THEN Wide(p) ELSE base[s]
        BY <1>3, <2>3, <3>1
      <4> QED
        BY <1>3, <4>1, <4>2, <4>3, <4>4
    <3> QED
      BY <2>1, <3>2, <3>3 DEF PromotedSoFar
  <2> QED
    BY <1>4, <2>2, <2>3
<1>6. ExportedSoFar'
  <2>1. \A s \in Slots : exported'[s] = "no"
    BY <1>1 DEF ExportInv, ExportedSoFar
  <2> QED
    BY <1>1, <2>1 DEF ExportedSoFar
<1> QED
  BY <1>5, <1>6 DEF ExportInv

LEMMA ExportStepsExport ==
    ASSUME OneBitPerLayer, TablesInv, ExportInv, Checkpoint, ExportNext
    PROVE  ExportInv'
<1> USE DEF loadVars, Goto
<1>1. CASE DenseLoad
  <2>1. /\ pc = "denseload" /\ job' = job /\ job \in Jobs /\ UNCHANGED <<mask, pline, exported>>
        /\ pc' \in {"fatal", "promote"}
        /\ base' = base \/ \A s \in Slots : base'[s] \in {Prod(s), NoTensor}
    BY <1>1 DEF DenseLoad, Stop, TablesInv, ControlInv, exportVars
  <2>2. pline = 1 /\ Asked(pline) = {} /\ Asked(pline)' = Asked(pline)
        /\ (IsDenseEngine' <=> IsDenseEngine)
    BY <2>1, NothingAskedFirst, AskedStays DEF ExportInv, ExportedSoFar
  <2>3. \A s \in Slots : base'[s] # Wide(s)
    BY <2>1, <2>2, NameFacts DEF ExportInv, PromotedSoFar
  <2>4. PromotedSoFar'
    BY <2>1, <2>2, <2>3 DEF ExportInv, PromotedSoFar
  <2>5. ExportedSoFar'
    BY <2>1, <2>2 DEF ExportInv, ExportedSoFar
  <2> QED
    BY <2>4, <2>5 DEF ExportInv
<1>2. CASE PromoteLine
  BY <1>2, PromoteLineExport
<1>3. CASE PromoteDone
  <2>1. /\ pc = "promote" /\ pline > Len(job.promo) /\ UNCHANGED <<job, base, mask, pline, exported>>
        /\ pc' \in {"export", "done", "verify"}
    BY <1>3 DEF PromoteDone, exportVars
  <2>2. Asked(pline)' = Asked(pline) /\ (IsDenseEngine' <=> IsDenseEngine)
    BY <2>1, AskedStays
  <2>3. PromotedSoFar'
    BY <2>1, <2>2 DEF ExportInv, PromotedSoFar
  <2>4. ExportedSoFar'
    BY <2>1, <2>2 DEF ExportInv, ExportedSoFar
  <2> QED
    BY <2>3, <2>4 DEF ExportInv
<1>4. CASE Export
  <2>1. /\ pc = "export" /\ UNCHANGED <<job, base, mask, pline>> /\ pc' = "done"
        /\ exported' = [s \in Slots |-> IF Prod(s) \in reg THEN Written(s) ELSE "no"]
    BY <1>4 DEF Export
  <2>2. Asked(pline)' = Asked(pline) /\ (IsDenseEngine' <=> IsDenseEngine)
    BY <2>1, AskedStays
  <2>3. PromotedSoFar'
    BY <2>1, <2>2 DEF ExportInv, PromotedSoFar
  <2>4. ASSUME NEW s \in Slots, ~ IsDenseEngine
        PROVE  Written(s) = IF s \in Asked(pline) THEN "f32" ELSE "source"
    <3>1. Marked(s) <=> s \in Asked(pline)
      BY BitIsLayer DEF Marked, ExportInv, PromotedSoFar
    <3>2. s \in Asked(pline) => s[1] \in MoeRoles /\ base[s] = Wide(s)
      BY <2>4 DEF Asked, ExportInv, PromotedSoFar
    <3>3. Content(Wide(s)) = F32Tensor
      BY NameFacts DEF Content
    <3> QED
      BY <2>4, <3>1, <3>2, <3>3 DEF Written
  <2>5. ExportedSoFar'
    BY <2>1, <2>2, <2>4 DEF ExportInv, ExportedSoFar
  <2> QED
    BY <2>3, <2>5 DEF ExportInv
<1>5. CASE ExportUnloaded
  <2>1. /\ pc = "unloaded" /\ UNCHANGED <<job, base, mask, pline>> /\ pc' = "done" /\ job \in Jobs
        /\ exported' = [s \in Slots |-> IF IsGlobal(s) \/ ValidAt(s) THEN "source" ELSE "no"]
    BY <1>5 DEF ExportUnloaded, TablesInv, ControlInv
  <2>2. Asked(pline)' = Asked(pline) /\ (IsDenseEngine' <=> IsDenseEngine)
    BY <2>1, AskedStays
  <2>3. PromotedSoFar'
    BY <2>1, <2>2 DEF ExportInv, PromotedSoFar
  <2>4. pline = 1 /\ pline > Len(job.promo) /\ Asked(pline) = {}
    BY <2>1, NothingAskedFirst DEF ExportInv, ExportedSoFar
  <2>5. ExportedSoFar'
    BY <2>1, <2>2, <2>4 DEF ExportedSoFar
  <2> QED
    BY <2>3, <2>5 DEF ExportInv
<1> QED
  BY <1>1, <1>2, <1>3, <1>4, <1>5 DEF ExportNext

LEMMA ExportStep == OneBitPerLayer /\ TablesInv /\ ExportInv /\ [Next]_vars => ExportInv'
<1> SUFFICES ASSUME OneBitPerLayer, TablesInv, ExportInv, [Next]_vars PROVE ExportInv'
  OBVIOUS
<1>1. job' = job
  BY JobStays
<1>2. CASE ~ Checkpoint
  BY <1>1, <1>2 DEF ExportInv, Checkpoint
<1>3. CASE Checkpoint /\ TensorNext /\ UNCHANGED exportVars
  BY <1>3, LoaderStepsExport
<1>4. CASE Checkpoint /\ ExportNext
  BY <1>4, ExportStepsExport
<1>5. CASE Checkpoint /\ UNCHANGED vars
  <2>1. UNCHANGED <<base, pc, exportVars>>
    BY <1>5 DEF vars, tensorVars, loadVars
  <2>2. Asked(pline)' = Asked(pline) /\ (IsDenseEngine' <=> IsDenseEngine)
    BY <1>1, <2>1, AskedStays DEF exportVars
  <2> QED
    BY <1>1, <2>1, <2>2 DEF ExportInv, PromotedSoFar, ExportedSoFar, exportVars, Checkpoint
<1>6. Checkpoint => ~ GateStep
  BY DEF GateStep, TablesInv, ControlInv, Checkpoint
<1> QED
  BY <1>2, <1>3, <1>4, <1>5, <1>6 DEF Next, Ended

\* As long as a layer has a bit of its own in the int of its role, a tensor of
\* a checkpoint is held and exported at 32 bits exactly if the file names it.
THEOREM PromotionsReachTheExport ==
    ASSUME OneBitPerLayer
    PROVE  Spec => []ExportReflectsPromotions
<1>1. Init => TablesInv /\ ExportInv
  BY TablesInit, ExportInit0
<1>2. TablesInv /\ ExportInv /\ [Next]_vars => (TablesInv /\ ExportInv)'
  BY TablesNext, ExportStep
<1>3. TablesInv /\ ExportInv => ExportReflectsPromotions
  <2> SUFFICES ASSUME TablesInv, ExportInv, pc = "done", Checkpoint, NEW s \in Slots
               PROVE  LET asked == /\ s \in SetOf(job.promo)
                                   /\ s[1] \in (IF IsDenseEngine THEN DenseWtRoles ELSE MoeRoles) IN
                      /\ base[s] = Wide(s) <=> asked
                      /\ exported[s] # "no" /\ ~ IsDenseEngine =>
                           (exported[s] = IF asked THEN "f32" ELSE "source")
    BY DEF ExportReflectsPromotions, Checkpoint
  <2> DEFINE asked == /\ s \in SetOf(job.promo)
                      /\ s[1] \in (IF IsDenseEngine THEN DenseWtRoles ELSE MoeRoles)
  <2>1. pline \in Int /\ pline > Len(job.promo) /\ Len(job.promo) \in Nat
        /\ DOMAIN job.promo = 1 .. Len(job.promo)
    BY JobsAssumption DEF TablesInv, ControlInv, ExportInv, PromotedSoFar, ExportedSoFar
  <2>2. \A i \in DOMAIN job.promo : i < pline
    BY <2>1
  <2>3. asked <=> s \in Asked(pline)
    BY <2>2 DEF Asked, SetOf
  <2> HIDE DEF asked
  <2>4. /\ base[s] = Wide(s) <=> asked
        /\ exported[s] # "no" /\ ~ IsDenseEngine => (exported[s] = IF asked THEN "f32" ELSE "source")
    BY <2>3 DEF ExportInv, PromotedSoFar, ExportedSoFar
  <2> QED
    BY <2>4 DEF asked
<1> QED
  BY <1>1, <1>2, <1>3, PTL DEF Spec

-----------------------------------------------------------------------------
(* The search for a smallest set.                                          *)

Phases == {"head", "chunks", "complements", "grow", "converged", "exhausted"}

DdStates(S) ==
  [cur : Seq(S), n : {k \in Nat : k >= 2}, c : Nat, phase : Phases, tests : Nat]

SearchStates == DdStates(SetOf(Ground))

\* Leaving out chunk k does not hit, if there is a chunk k and something else.
Missed(d, k) ==
  LET e == [d EXCEPT !.c = k] IN
  Chunk(e) # <<>> /\ Complement(e) # <<>> => ~ Hits(Complement(e))

\* No single combination can be left out.
Minimal(list) == \A x \in SetOf(list) : SetOf(list) \ {x} \notin job.search.works

SearchInv(d) ==
  /\ d \in SearchStates
  /\ Hits(Ground) => Hits(d.cur)
  /\ d.phase \in {"chunks", "complements", "grow"} => Len(d.cur) >= 2
  /\ d.tests < job.search.max =>
       /\ d.phase = "complements" => \A k \in 0 .. d.c - 1 : k < d.n => Missed(d, k)
       /\ d.phase = "grow" => \A k \in 0 .. d.n - 1 : Missed(d, k)
       /\ d.phase = "converged" /\ Hits(Ground) /\ Len(d.cur) >= 2 => Minimal(d.cur)

LEMMA DivNat == \A a, b \in Nat : b >= 2 => a \div b \in Nat
  OBVIOUS

LEMMA DivOne == \A a, b \in Nat : b >= 2 /\ b <= a /\ a < 2 * b => a \div b = 1
  OBVIOUS

\* The chunks are not empty before they are through the list.
LEMMA ChunkBounds ==
    ASSUME NEW d \in SearchStates
    PROVE  /\ ChunkSize(d) \in Nat /\ Len(d.cur) \in Nat
           /\ d.c * ChunkSize(d) \in Nat
           /\ (d.c + 1) * ChunkSize(d) = d.c * ChunkSize(d) + ChunkSize(d)
           /\ Chunk(d) # <<>> => d.c * ChunkSize(d) < Len(d.cur)
<1>1. Len(d.cur) \in Nat /\ d.n \in {k \in Nat : k >= 2} /\ d.c \in Nat
  BY DEF SearchStates, DdStates
<1>2. ChunkSize(d) \in Nat
  <2>1. Len(d.cur) + d.n - 1 \in Nat /\ d.n \in Nat /\ d.n >= 2
    BY <1>1
  <2> QED
    BY <2>1, DivNat DEF ChunkSize
<1> DEFINE a == d.c * ChunkSize(d)
           b == (d.c + 1) * ChunkSize(d)
<1>3. a \in Nat /\ b = a + ChunkSize(d)
  BY <1>1, <1>2
<1>4. Chunk(d) = SubSeq(d.cur, a + 1, IF b < Len(d.cur) THEN b ELSE Len(d.cur))
  BY DEF Chunk
<1> HIDE DEF a, b
<1>5. a >= Len(d.cur) => Chunk(d) = <<>>
  BY <1>1, <1>2, <1>3, <1>4, SubSeqEmpty
<1> QED
  BY <1>1, <1>2, <1>3, <1>5 DEF a, b

LEMMA PartsAreLists ==
    ASSUME NEW d \in SearchStates, Chunk(d) # <<>>
    PROVE  Chunk(d) \in Seq(SetOf(Ground)) /\ Complement(d) \in Seq(SetOf(Ground))
<1> DEFINE a == d.c * ChunkSize(d)
           b == (d.c + 1) * ChunkSize(d)
           len == Len(d.cur)
           S == SetOf(Ground)
<1>1. a \in Nat /\ b \in Nat /\ len \in Nat /\ a < len /\ a <= b
  BY ChunkBounds
<1>2. \A i \in 1 .. len : d.cur[i] \in S
  BY DEF SearchStates, DdStates
<1>3. /\ Chunk(d) = SubSeq(d.cur, a + 1, IF b < len THEN b ELSE len)
      /\ Complement(d) = SubSeq(d.cur, 1, a) \o SubSeq(d.cur, b + 1, len)
  BY DEF Chunk, Complement
<1> HIDE DEF a, b, len, S
<1>4. SubSeq(d.cur, a + 1, IF b < len THEN b ELSE len) \in Seq(S)
  <2> DEFINE m == IF b < len THEN b ELSE len
  <2>1. m \in Int /\ a + 1 \in Int /\ \A i \in a + 1 .. m : d.cur[i] \in S
    BY <1>1, <1>2
  <2> HIDE DEF m
  <2>2. SubSeq(d.cur, a + 1, m) \in Seq(S)
    BY <2>1, SubSeqProperties
  <2> QED
    BY <2>2 DEF m
<1>5. SubSeq(d.cur, 1, a) \in Seq(S) /\ SubSeq(d.cur, b + 1, len) \in Seq(S)
  <2>1. \A i \in 1 .. a : d.cur[i] \in S
    BY <1>1, <1>2
  <2>2. \A i \in b + 1 .. len : d.cur[i] \in S
    BY <1>1, <1>2
  <2>3. b + 1 \in Int /\ len \in Int /\ a \in Int
    BY <1>1
  <2>4. SubSeq(d.cur, 1, a) \in Seq(S)
    BY <2>1, <2>3, SubSeqProperties
  <2>5. SubSeq(d.cur, b + 1, len) \in Seq(S)
    BY <2>2, <2>3, SubSeqProperties
  <2> QED
    BY <2>4, <2>5
<1>6. SubSeq(d.cur, 1, a) \o SubSeq(d.cur, b + 1, len) \in Seq(S)
  BY <1>5, ConcatProperties
<1> QED
  BY <1>3, <1>4, <1>6 DEF S

\* With parts of one element each, leaving out part k leaves out element k + 1.
LEMMA SinglePart ==
    ASSUME NEW d \in SearchStates, Len(d.cur) >= 2, d.n >= Len(d.cur), NEW i \in 1 .. Len(d.cur)
    PROVE  LET e == [d EXCEPT !.c = i - 1] IN
           /\ Chunk(e) # <<>> /\ Complement(e) # <<>>
           /\ SetOf(Complement(e)) = {d.cur[j] : j \in 1 .. Len(d.cur) \ {i}}
<1> DEFINE e == [d EXCEPT !.c = i - 1]
           len == Len(d.cur)
           S == SetOf(Ground)
           front == SubSeq(d.cur, 1, i - 1)
           back == SubSeq(d.cur, i + 1, len)
<1>1. /\ len \in Nat /\ d.n \in Nat /\ i \in 1 .. len /\ len >= 2 /\ d.n >= len
      /\ d.cur \in Seq(S) /\ e.cur = d.cur /\ e.n = d.n /\ e.c = i - 1
  BY DEF SearchStates, DdStates
<1>2. ChunkSize(e) = 1
  <2>1. /\ len + d.n - 1 \in Nat /\ d.n \in Nat /\ d.n >= 2
        /\ d.n <= len + d.n - 1 /\ len + d.n - 1 < 2 * d.n
    BY <1>1
  <2>2. (len + d.n - 1) \div d.n = 1
    BY <2>1, DivOne
  <2>3. ChunkSize(e) = (len + d.n - 1) \div d.n
    BY <1>1 DEF ChunkSize
  <2> QED
    BY <2>2, <2>3
<1> HIDE DEF e
<1>3. Complement(e) = front \o back
  <2>1. e.c * ChunkSize(e) = i - 1 /\ (e.c + 1) * ChunkSize(e) + 1 = i + 1
    BY <1>1, <1>2
  <2> QED
    BY <1>1, <2>1 DEF Complement
<1>4. Chunk(e) # <<>>
  <2>1. Chunk(e) = SubSeq(d.cur, i, i)
    <3>1. e.c * ChunkSize(e) + 1 = i /\ (e.c + 1) * ChunkSize(e) = i
      BY <1>1, <1>2
    <3>2. (IF i < len THEN i ELSE len) = i
      BY <1>1
    <3>3. Len(e.cur) = len
      BY <1>1
    <3> QED
      BY <1>1, <3>1, <3>2, <3>3 DEF Chunk
  <2>2. \A k \in i .. i : d.cur[k] \in S
    BY <1>1
  <2>3. Len(SubSeq(d.cur, i, i)) = 1
    BY <1>1, <2>2, SubSeqProperties
  <2> QED
    BY <2>1, <2>3
<1> HIDE DEF S
<1>5. /\ front \in Seq(S) /\ Len(front) = i - 1
      /\ \A k \in 1 .. i - 1 : front[k] = d.cur[k]
  <2>1. \A k \in 1 .. i - 1 : d.cur[k] \in S
    BY <1>1
  <2>2. i - 1 \in Int
    BY <1>1
  <2>3. /\ SubSeq(d.cur, 1, i - 1) \in Seq(S)
        /\ Len(SubSeq(d.cur, 1, i - 1)) = IF 1 <= i - 1 THEN i - 1 - 1 + 1 ELSE 0
        /\ \A k \in 1 .. i - 1 - 1 + 1 : SubSeq(d.cur, 1, i - 1)[k] = d.cur[1 + k - 1]
    BY <2>1, <2>2, SubSeqProperties
  <2> QED
    BY <1>1, <2>3
<1>6. /\ back \in Seq(S) /\ Len(back) = len - i
      /\ \A k \in 1 .. len - i : back[k] = d.cur[i + k]
  <2>1. \A k \in i + 1 .. len : d.cur[k] \in S
    BY <1>1
  <2>2. i + 1 \in Int /\ len \in Int
    BY <1>1
  <2>3. /\ SubSeq(d.cur, i + 1, len) \in Seq(S)
        /\ Len(SubSeq(d.cur, i + 1, len)) = IF i + 1 <= len THEN len - (i + 1) + 1 ELSE 0
        /\ \A k \in 1 .. len - (i + 1) + 1 : SubSeq(d.cur, i + 1, len)[k] = d.cur[i + 1 + k - 1]
    BY <2>1, <2>2, SubSeqProperties
  <2> QED
    BY <1>1, <2>3
<1> HIDE DEF front, back, len
<1>7. /\ front \o back \in Seq(S) /\ Len(front \o back) = len - 1
      /\ \A k \in 1 .. len - 1 : (front \o back)[k] = IF k < i THEN d.cur[k] ELSE d.cur[k + 1]
  <2>1. /\ front \o back \in Seq(S) /\ Len(front \o back) = Len(front) + Len(back)
        /\ \A k \in 1 .. Len(front) + Len(back) :
             (front \o back)[k] = IF k <= Len(front) THEN front[k] ELSE back[k - Len(front)]
    <3>1. front \in Seq(S) /\ back \in Seq(S)
      BY <1>5, <1>6
    <3> QED
      BY ONLY <3>1, ConcatProperties
  <2>2. Len(front) = i - 1 /\ Len(back) = len - i /\ len \in Nat /\ i \in Nat /\ i <= len
    BY <1>1, <1>5, <1>6
  <2>3. ASSUME NEW k \in 1 .. len - 1
        PROVE  (front \o back)[k] = IF k < i THEN d.cur[k] ELSE d.cur[k + 1]
    <3>1. (front \o back)[k] = IF k <= i - 1 THEN front[k] ELSE back[k - (i - 1)]
      BY <2>1, <2>2
    <3>2. CASE k < i
      BY <1>5, <2>2, <3>1, <3>2
    <3>3. CASE ~ (k < i)
      <4>1. k - (i - 1) \in 1 .. len - i /\ i + (k - (i - 1)) = k + 1
        BY <2>2, <3>3
      <4>2. back[k - (i - 1)] = d.cur[i + (k - (i - 1))]
        BY <1>6, <4>1
      <4> QED
        BY <2>2, <3>1, <3>3, <4>1, <4>2
    <3> QED
      BY <3>2, <3>3
  <2>4. Len(front \o back) = len - 1
    BY <2>1, <2>2
  <2> QED
    BY <2>1, <2>3, <2>4
<1>8. DOMAIN (front \o back) = 1 .. len - 1
  BY <1>1, <1>7
<1>9. SetOf(front \o back) = {d.cur[j] : j \in 1 .. len \ {i}}
  <2>1. ASSUME NEW k \in 1 .. len - 1
        PROVE  \E j \in 1 .. len \ {i} : (front \o back)[k] = d.cur[j]
    <3>1. CASE k < i
      <4>1. k \in 1 .. len \ {i} /\ (front \o back)[k] = d.cur[k]
        BY <1>1, <1>7, <3>1
      <4> QED
        BY <4>1
    <3>2. CASE ~ (k < i)
      <4>1. k + 1 \in 1 .. len \ {i} /\ (front \o back)[k] = d.cur[k + 1]
        BY <1>1, <1>7, <3>2
      <4> QED
        BY <4>1
    <3> QED
      BY <3>1, <3>2
  <2>2. ASSUME NEW j \in 1 .. len \ {i}
        PROVE  \E k \in 1 .. len - 1 : (front \o back)[k] = d.cur[j]
    <3>1. CASE j < i
      <4>1. j \in 1 .. len - 1 /\ (front \o back)[j] = d.cur[j]
        BY <1>1, <1>7, <3>1
      <4> QED
        BY <4>1
    <3>2. CASE j > i
      <4>1. j - 1 \in 1 .. len - 1 /\ ~ (j - 1 < i)
        BY <1>1, <3>2
      <4>2. (front \o back)[j - 1] = d.cur[j - 1 + 1]
        BY <1>7, <4>1
      <4>3. j - 1 + 1 = j
        BY <1>1
      <4> QED
        BY <4>1, <4>2, <4>3
    <3>3. j < i \/ j > i
      BY <1>1
    <3> QED
      BY <3>1, <3>2, <3>3
  <2>3. SetOf(front \o back) = {(front \o back)[k] : k \in 1 .. len - 1}
    BY <1>8 DEF SetOf
  <2> DEFINE all == {(front \o back)[k] : k \in 1 .. len - 1}
             rest == {d.cur[j] : j \in 1 .. len \ {i}}
  <2>4. \A x \in all : x \in rest
    BY <2>1
  <2>5. \A x \in rest : x \in all
    BY <2>2
  <2> HIDE DEF all, rest
  <2>6. all = rest
    BY <2>4, <2>5
  <2> QED
    BY <2>3, <2>6 DEF all, rest
<1>10. front \o back # <<>>
  BY <1>1, <1>7
<1> QED
  BY <1>3, <1>4, <1>9, <1>10 DEF e, len

\* When no element alone can be front out the list is minimal: a list that holds
\* an element twice would still hit without one of them.
LEMMA SinglesAreMinimal ==
    ASSUME NEW d \in SearchStates, Len(d.cur) >= 2, d.n >= Len(d.cur), Hits(d.cur),
           \A k \in 0 .. d.n - 1 : Missed(d, k)
    PROVE  Minimal(d.cur)
<1> SUFFICES ASSUME NEW x \in SetOf(d.cur) PROVE SetOf(d.cur) \ {x} \notin job.search.works
  BY DEF Minimal
<1>1. Len(d.cur) \in Nat /\ d.n \in Nat /\ DOMAIN d.cur = 1 .. Len(d.cur)
  BY DEF SearchStates, DdStates
<1>2. PICK i \in 1 .. Len(d.cur) : x = d.cur[i]
  BY <1>1 DEF SetOf
<1> DEFINE e == [d EXCEPT !.c = i - 1]
           rest == {d.cur[j] : j \in 1 .. Len(d.cur) \ {i}}
<1>3. Chunk(e) # <<>> /\ Complement(e) # <<>> /\ SetOf(Complement(e)) = rest
  BY SinglePart
<1>4. Missed(d, i - 1)
  BY <1>1
<1>5. rest \notin job.search.works
  BY <1>3, <1>4 DEF Missed, Hits
<1>6. rest = SetOf(d.cur) \/ rest = SetOf(d.cur) \ {x}
  <2>1. SetOf(d.cur) = rest \cup {x} /\ rest \subseteq SetOf(d.cur)
    BY <1>1, <1>2 DEF SetOf
  <2> HIDE DEF rest
  <2> QED
    BY <2>1
<1> QED
  BY <1>5, <1>6 DEF Hits

\* What was missed depends on the list and on the number of its parts.
LEMMA MissedSame ==
    ASSUME NEW d \in SearchStates, NEW D \in SearchStates, D.cur = d.cur, D.n = d.n, NEW k
    PROVE  Missed(D, k) <=> Missed(d, k)
<1> DEFINE e == [d EXCEPT !.c = k]
           E == [D EXCEPT !.c = k]
<1>1. e.cur = d.cur /\ e.n = d.n /\ e.c = k /\ E.cur = d.cur /\ E.n = d.n /\ E.c = k
  BY DEF SearchStates, DdStates
<1> HIDE DEF e, E
<1>2. ChunkSize(E) = ChunkSize(e)
  BY <1>1 DEF ChunkSize
<1>3. Chunk(E) = Chunk(e) /\ Complement(E) = Complement(e)
  BY <1>1, <1>2 DEF Chunk, Complement
<1> QED
  BY <1>3 DEF Missed, e, E

\* One turn of a loop of the search, by the phase it is in.
LEMMA HeadTurn ==
    ASSUME NEW S, NEW d \in DdStates(S), NEW max \in Int, NEW hit, d.phase = "head"
    PROVE  LET D == DdStep(d, max, hit) IN
           /\ D \in DdStates(S) /\ D.cur = d.cur /\ D.tests = d.tests
           /\ D.phase \in {"converged", "exhausted", "chunks"}
           /\ D.phase = "converged" <=> Len(d.cur) < 2
<1> DEFINE D == DdStep(d, max, hit)
<1>1. D = Round(d, max)
  <2>1. ~ Tests(d, max) /\ d.phase # "grow"
    BY DEF Tests
  <2> QED
    BY <2>1 DEF DdStep
<1> HIDE DEF D
<1>2. /\ D \in DdStates(S) /\ D.cur = d.cur /\ D.tests = d.tests
      /\ D.phase \in {"converged", "exhausted", "chunks"}
      /\ D.phase = "converged" <=> Len(d.cur) < 2
  BY <1>1 DEF Round, DdStates, Phases
<1> QED
  BY <1>2 DEF D

LEMMA GrowTurn ==
    ASSUME NEW S, NEW d \in DdStates(S), NEW max \in Int, NEW hit, d.phase = "grow", Len(d.cur) >= 2
    PROVE  LET D == DdStep(d, max, hit) IN
           /\ D \in DdStates(S) /\ D.cur = d.cur /\ D.tests = d.tests
           /\ D.phase \in {"converged", "head"}
           /\ D.phase = "converged" <=> d.n >= Len(d.cur)
<1> DEFINE D == DdStep(d, max, hit)
<1>1. D = Grow(d)
  <2>1. ~ Tests(d, max) /\ d.phase # "head"
    BY DEF Tests
  <2> QED
    BY <2>1 DEF DdStep
<1> HIDE DEF D
<1>2. (IF 2 * d.n > Len(d.cur) THEN Len(d.cur) ELSE 2 * d.n) \in {k \in Nat : k >= 2}
  BY DEF DdStates
<1>3. /\ D \in DdStates(S) /\ D.cur = d.cur /\ D.tests = d.tests
      /\ D.phase \in {"converged", "head"}
      /\ D.phase = "converged" <=> d.n >= Len(d.cur)
  BY <1>1, <1>2 DEF Grow, DdStates, Phases
<1> QED
  BY <1>3 DEF D

LEMMA HitTurn ==
    ASSUME NEW S, NEW d \in DdStates(S), NEW max \in Int, NEW hit, hit, Tests(d, max),
           Candidate(d) \in Seq(S)
    PROVE  LET D == DdStep(d, max, hit) IN
           D \in DdStates(S) /\ D.cur = Candidate(d) /\ D.phase = "head"
<1> DEFINE D == DdStep(d, max, hit)
<1>1. D = [Keep(d, Candidate(d)) EXCEPT !.tests = @ + 1]
  <2>1. d.phase # "head" /\ d.phase # "grow"
    BY DEF Tests
  <2>2. D = Tested(d, hit)
    BY <2>1 DEF DdStep
  <2> QED
    BY <2>2 DEF Tested
<1> HIDE DEF D
<1>2. Keep(d, Candidate(d)) =
        [d EXCEPT !.cur = Candidate(d), !.phase = "head",
                  !.n = IF d.phase = "chunks" \/ d.n = 2 THEN 2 ELSE d.n - 1]
  BY DEF Keep
<1>3. (IF d.phase = "chunks" \/ d.n = 2 THEN 2 ELSE d.n - 1) \in {k \in Nat : k >= 2}
  BY DEF DdStates
<1>4. Keep(d, Candidate(d)) \in DdStates(S)
  BY <1>2, <1>3 DEF DdStates, Phases
<1>5. Keep(d, Candidate(d)).cur = Candidate(d) /\ Keep(d, Candidate(d)).phase = "head"
  BY <1>2 DEF DdStates
<1>6. D \in DdStates(S) /\ D.cur = Candidate(d) /\ D.phase = "head"
  <2> DEFINE K == Keep(d, Candidate(d))
  <2> HIDE DEF K
  <2>1. K \in DdStates(S) /\ D = [K EXCEPT !.tests = K.tests + 1]
    BY <1>1, <1>4 DEF K
  <2>2. PICK t \in Nat : t = K.tests + 1
    BY <2>1 DEF DdStates
  <2>3. D = [K EXCEPT !.tests = t]
    BY <2>1, <2>2
  <2>4. D \in DdStates(S) /\ D.cur = K.cur /\ D.phase = K.phase
    BY <2>1, <2>3 DEF DdStates
  <2> QED
    BY <1>5, <2>4 DEF K
<1> QED
  BY <1>6 DEF D

LEMMA MissTurn ==
    ASSUME NEW S, NEW d \in DdStates(S), NEW max \in Int, NEW hit, ~ hit, Tests(d, max)
    PROVE  LET D == DdStep(d, max, hit) IN
           /\ D \in DdStates(S) /\ D.cur = d.cur /\ D.n = d.n /\ D.phase = d.phase
           /\ D.tests = d.tests + 1 /\ D.c = d.c + 1
<1> DEFINE D == DdStep(d, max, hit)
<1>1. D = [d EXCEPT !.tests = @ + 1, !.c = @ + 1]
  <2>1. d.phase # "head" /\ d.phase # "grow"
    BY DEF Tests
  <2>2. D = Tested(d, hit)
    BY <2>1 DEF DdStep
  <2> QED
    BY <2>2 DEF Tested
<1> HIDE DEF D
<1>2. /\ D \in DdStates(S) /\ D.cur = d.cur /\ D.n = d.n /\ D.phase = d.phase
      /\ D.tests = d.tests + 1 /\ D.c = d.c + 1
  <2>1. PICK t \in Nat : t = d.tests + 1
    BY DEF DdStates
  <2>2. PICK c \in Nat : c = d.c + 1
    BY DEF DdStates
  <2>3. D = [d EXCEPT !.tests = t, !.c = c]
    BY <1>1, <2>1, <2>2
  <2> QED
    BY <2>1, <2>2, <2>3 DEF DdStates
<1> QED
  BY <1>2 DEF D

LEMMA LeaveTurn ==
    ASSUME NEW S, NEW d \in DdStates(S), NEW max \in Int, NEW hit, ~ Tests(d, max),
           d.phase \in {"chunks", "complements"}, d.c >= d.n \/ d.tests >= max
    PROVE  LET D == DdStep(d, max, hit) IN
           /\ D \in DdStates(S) /\ D.cur = d.cur /\ D.n = d.n /\ D.tests = d.tests
           /\ D.phase = IF d.phase = "chunks" THEN "complements" ELSE "grow"
           /\ D.c = 0
<1> DEFINE D == DdStep(d, max, hit)
<1>1. D = Untested(d, max)
  BY DEF DdStep
<1> HIDE DEF D
<1>2. /\ D \in DdStates(S) /\ D.cur = d.cur /\ D.n = d.n /\ D.tests = d.tests
      /\ D.phase = IF d.phase = "chunks" THEN "complements" ELSE "grow"
      /\ D.c = 0
  BY <1>1 DEF Untested, After, DdStates, Phases
<1> QED
  BY <1>2 DEF D

LEMMA SkipTurn ==
    ASSUME NEW S, NEW d \in DdStates(S), NEW max \in Int, NEW hit, ~ Tests(d, max),
           d.phase \in {"chunks", "complements"}, ~ (d.c >= d.n \/ d.tests >= max)
    PROVE  LET D == DdStep(d, max, hit) IN
           /\ D \in DdStates(S) /\ D.cur = d.cur /\ D.n = d.n /\ D.phase = d.phase
           /\ D.tests = d.tests /\ D.c = d.c + 1
<1> DEFINE D == DdStep(d, max, hit)
<1>1. D = Untested(d, max)
  BY DEF DdStep
<1> HIDE DEF D
<1>2. /\ D \in DdStates(S) /\ D.cur = d.cur /\ D.n = d.n /\ D.phase = d.phase
      /\ D.tests = d.tests /\ D.c = d.c + 1
  BY <1>1 DEF Untested, DdStates, Phases
<1> QED
  BY <1>2 DEF D

\* A turn keeps what is known of the search.
LEMMA SearchTurn ==
    ASSUME NEW d, SearchInv(d), ~ DdOver(d), job.search.max \in Int
    PROVE  SearchInv(DdStep(d, job.search.max, Hits(Candidate(d))))
<1> DEFINE max == job.search.max
           hit == Hits(Candidate(d))
           D == DdStep(d, max, hit)
           S == SetOf(Ground)
<1>1. /\ d \in SearchStates /\ d.phase \in {"head", "chunks", "complements", "grow"}
      /\ Len(d.cur) \in Nat /\ d.n \in Nat /\ d.n >= 2 /\ d.c \in Nat /\ d.tests \in Nat
  BY DEF SearchInv, SearchStates, DdStates, DdOver, Phases
<1>2. d \in DdStates(S) /\ max \in Int
  BY <1>1 DEF SearchStates
<1> HIDE DEF max, hit, S
<1>3. CASE d.phase = "head"
  <2>1. /\ D \in SearchStates /\ D.cur = d.cur /\ D.tests = d.tests
        /\ D.phase \in {"converged", "exhausted", "chunks"}
        /\ D.phase = "converged" <=> Len(d.cur) < 2
    BY <1>2, <1>3, HeadTurn DEF SearchStates, S
  <2> HIDE DEF D
  <2>2. SearchInv(D)
    BY <1>1, <2>1 DEF SearchInv
  <2> QED
    BY <2>2 DEF D, max, hit
<1>4. CASE d.phase = "grow"
  <2>1. Len(d.cur) >= 2
    BY <1>4 DEF SearchInv
  <2>2. /\ D \in SearchStates /\ D.cur = d.cur /\ D.tests = d.tests
        /\ D.phase \in {"converged", "head"}
        /\ D.phase = "converged" <=> d.n >= Len(d.cur)
    BY <1>2, <1>4, <2>1, GrowTurn DEF SearchStates, S
  <2> HIDE DEF D
  <2>3. D.phase = "converged" /\ D.tests < max /\ Hits(Ground) => Minimal(d.cur)
    <3> SUFFICES ASSUME D.phase = "converged", D.tests < max, Hits(Ground)
                 PROVE  Minimal(d.cur)
      OBVIOUS
    <3>1. Hits(d.cur) /\ d.tests < job.search.max /\ d.n >= Len(d.cur)
      BY <2>2 DEF SearchInv, max
    <3>2. \A k \in 0 .. d.n - 1 : Missed(d, k)
      BY <1>4, <3>1 DEF SearchInv
    <3> QED
      BY <1>1, <2>1, <3>1, <3>2, SinglesAreMinimal
  <2>4. SearchInv(D)
    BY <2>1, <2>2, <2>3 DEF SearchInv, max
  <2> QED
    BY <2>4 DEF D, max, hit
<1>5. CASE Tests(d, max) /\ hit
  <2>1. Chunk(d) # <<>>
    BY <1>5 DEF Tests
  <2>2. Candidate(d) \in Seq(S)
    BY <1>1, <2>1, PartsAreLists DEF Candidate, S
  <2>3. D \in SearchStates /\ D.cur = Candidate(d) /\ D.phase = "head"
    BY <1>2, <1>5, <2>2, HitTurn DEF SearchStates, S
  <2> HIDE DEF D
  <2>4. Hits(D.cur)
    BY <1>5, <2>3 DEF hit
  <2>5. SearchInv(D)
    BY <2>3, <2>4 DEF SearchInv
  <2> QED
    BY <2>5 DEF D, max, hit
<1>6. CASE Tests(d, max) /\ ~ hit
  <2>1. /\ D \in SearchStates /\ D.cur = d.cur /\ D.n = d.n /\ D.phase = d.phase
        /\ D.tests = d.tests + 1 /\ D.c = d.c + 1
    BY <1>2, <1>6, MissTurn DEF SearchStates, S
  <2> HIDE DEF D
  <2>2. \A k : Missed(D, k) <=> Missed(d, k)
    BY <1>1, <2>1, MissedSame
  <2>3. d.phase = "complements" => Missed(d, d.c)
    <3>1. [d EXCEPT !.c = d.c] = d
      BY <1>1 DEF SearchStates, DdStates
    <3> QED
      BY <1>6, <3>1 DEF Missed, Candidate, hit
  <2>4. d.phase \in {"chunks", "complements"} /\ d.tests < max
    BY <1>6 DEF Tests
  <2>5. D.phase = "complements" => \A k \in 0 .. D.c - 1 : k < D.n => Missed(D, k)
    <3> SUFFICES ASSUME D.phase = "complements", NEW k \in 0 .. D.c - 1, k < D.n
                 PROVE  Missed(d, k)
      BY <2>2
    <3>1. k \in 0 .. d.c - 1 \/ k = d.c
      BY <1>1, <2>1
    <3>2. CASE k \in 0 .. d.c - 1
      BY <2>1, <2>4, <3>2 DEF SearchInv, max
    <3> QED
      BY <2>1, <2>3, <3>1, <3>2
  <2>6. SearchInv(D)
    BY <2>1, <2>4, <2>5 DEF SearchInv
  <2> QED
    BY <2>6 DEF D, max, hit
<1>7. CASE /\ d.phase \in {"chunks", "complements"} /\ ~ Tests(d, max)
           /\ d.c >= d.n \/ d.tests >= max
  <2>1. /\ D \in SearchStates /\ D.cur = d.cur /\ D.n = d.n /\ D.tests = d.tests
        /\ D.phase = IF d.phase = "chunks" THEN "complements" ELSE "grow"
        /\ D.c = 0
    BY <1>2, <1>7, LeaveTurn DEF SearchStates, S
  <2> HIDE DEF D
  <2>2. \A k : Missed(D, k) <=> Missed(d, k)
    BY <1>1, <2>1, MissedSame
  <2>3. D.tests < max /\ D.phase = "grow" => \A k \in 0 .. D.n - 1 : Missed(D, k)
    <3> SUFFICES ASSUME D.tests < max, D.phase = "grow", NEW k \in 0 .. D.n - 1
                 PROVE  Missed(d, k)
      BY <2>2
    <3>1. d.phase = "complements" /\ k \in 0 .. d.c - 1 /\ k < d.n
      BY <1>1, <1>2, <1>7, <2>1
    <3> QED
      BY <2>1, <3>1 DEF SearchInv, max
  <2>4. Len(D.cur) >= 2
    BY <1>7, <2>1 DEF SearchInv
  <2>5. D.phase = "complements" => 0 .. D.c - 1 = {}
    BY <2>1
  <2>6. SearchInv(D)
    BY <2>1, <2>3, <2>4, <2>5 DEF SearchInv, max
  <2> QED
    BY <2>6 DEF D, max, hit
<1>8. CASE /\ d.phase \in {"chunks", "complements"} /\ ~ Tests(d, max)
           /\ ~ (d.c >= d.n \/ d.tests >= max)
  <2>1. /\ D \in SearchStates /\ D.cur = d.cur /\ D.n = d.n /\ D.phase = d.phase
        /\ D.tests = d.tests /\ D.c = d.c + 1
    BY <1>2, <1>8, SkipTurn DEF SearchStates, S
  <2> HIDE DEF D
  <2>2. \A k : Missed(D, k) <=> Missed(d, k)
    BY <1>1, <2>1, MissedSame
  <2>3. d.phase = "complements" => Missed(d, d.c)
    <3>1. [d EXCEPT !.c = d.c] = d
      BY <1>1 DEF SearchStates, DdStates
    <3>2. d.c < d.n /\ d.tests < max
      BY <1>1, <1>2, <1>8
    <3> QED
      BY <1>8, <3>1, <3>2 DEF Missed, Tests
  <2>4. D.phase = "complements" /\ D.tests < max =>
          \A k \in 0 .. D.c - 1 : k < D.n => Missed(D, k)
    <3> SUFFICES ASSUME D.phase = "complements", D.tests < max, NEW k \in 0 .. D.c - 1, k < D.n
                 PROVE  Missed(d, k)
      BY <2>2
    <3>1. k \in 0 .. d.c - 1 \/ k = d.c
      BY <1>1, <2>1
    <3>2. CASE k \in 0 .. d.c - 1
      BY <2>1, <3>2 DEF SearchInv, max
    <3> QED
      BY <2>1, <2>3, <3>1, <3>2
  <2>5. SearchInv(D)
    BY <1>8, <2>1, <2>4 DEF SearchInv, max
  <2> QED
    BY <2>5 DEF D, max, hit
<1> QED
  BY <1>1, <1>3, <1>4, <1>5, <1>6, <1>7, <1>8

LEMMA GroundIsList == job \in Jobs => Ground \in Seq(SetOf(Ground))
<1> SUFFICES ASSUME job \in Jobs PROVE Ground \in Seq(SetOf(Ground))
  OBVIOUS
<1>1. CASE job.search.kind = "full"
  <2> DEFINE keep == {i \in DOMAIN SlotOrder :
                        SlotOrder[i] \in Slots /\ Effective(SlotOrder[i], TRUE)}
             n == Cardinality(keep)
             elem(k) == SlotOrder[CHOOSE i \in keep : Cardinality({j \in keep : j <= i}) = k]
  <2>1. Ground = [k \in 1 .. n |-> elem(k)]
    BY <1>1 DEF Ground, Selected
  <2>2. IsFiniteSet(keep)
    <3>1. Len(RoleOrder) * NL \in Int
      <4>1. Len(RoleOrder) = 11
        BY DEF RoleOrder
      <4> QED
        BY <4>1, Bounds
    <3>2. DOMAIN SlotOrder = 1 .. Len(RoleOrder) * NL
      BY DEF SlotOrder
    <3>3. IsFiniteSet(DOMAIN SlotOrder)
      BY <3>1, <3>2, FS_Interval
    <3> QED
      BY <3>3, FS_Subset
  <2> HIDE DEF keep
  <2>3. n \in Nat
    BY <2>2, FS_CardinalityType
  <2> HIDE DEF n, elem
  <2>4. DOMAIN Ground = 1 .. n /\ \A k \in 1 .. n : Ground[k] \in SetOf(Ground)
    BY <2>1 DEF SetOf
  <2>5. Ground \in [1 .. n -> SetOf(Ground)]
    BY <2>1, <2>4
  <2> QED
    BY <2>3, <2>5, SeqDef
<1>2. CASE job.search.kind # "full"
  <2>1. Ground = job.search.list /\ Ground \in Seq(Slots)
    BY <1>2, JobsAssumption DEF Ground
  <2>2. \A i \in 1 .. Len(Ground) : Ground[i] \in SetOf(Ground)
    BY <2>1 DEF SetOf
  <2>3. Len(Ground) \in Nat /\ Ground = [i \in 1 .. Len(Ground) |-> Ground[i]]
    BY <2>1
  <2>4. Ground \in [1 .. Len(Ground) -> SetOf(Ground)]
    BY <2>2, <2>3
  <2> QED
    BY <2>3, <2>4, SeqDef
<1> QED
  BY <1>1, <1>2

LEMMA GroundStays == UNCHANGED <<job, hi, base>> => Ground' = Ground
<1> SUFFICES ASSUME UNCHANGED <<job, hi, base>> PROVE Ground' = Ground
  OBVIOUS
<1>1. \A s, ab : Effective(s, ab)' <=> Effective(s, ab)
  BY DEF Effective, ValidAt, IsGlobal
<1> QED
  BY <1>1 DEF Ground

\* What is known of a search depends on the job and on two tables only.
LEMMA SearchInvStays ==
    ASSUME UNCHANGED <<job, hi, base>>, SearchInv(search')
    PROVE  SearchInv(search)'
<1>1. Ground' = Ground
  BY GroundStays
<1>2. \A list : Hits(list)' <=> Hits(list)
  BY DEF Hits, SetOf
<1> QED
  BY <1>1, <1>2 DEF SearchInv, SearchStates, DdStates, Missed, Minimal, Hits, SetOf

SearchKnown == pc = "ddmin" => SearchInv(search)

LEMMA SearchStarts == TablesInv /\ SearchStart => SearchKnown'
<1> SUFFICES ASSUME TablesInv, SearchStart, pc' = "ddmin" PROVE SearchInv(search)'
  BY DEF SearchKnown
<1>1. UNCHANGED <<job, hi, base>> /\ job \in Jobs
  BY DEF SearchStart, loadVars, mirrorVars, TablesInv, ControlInv
<1>2. Ground' = Ground /\ Ground \in Seq(SetOf(Ground))
  BY <1>1, GroundStays, GroundIsList
<1>3. search' = DdStart(Ground)
  BY <1>1, JobsAssumption DEF SearchStart, Corrected, Goto
<1>4. DdStart(Ground) \in SearchStates
  BY <1>2 DEF DdStart, SearchStates, DdStates, Phases
<1>5. DdStart(Ground).cur = Ground /\ DdStart(Ground).phase = "head"
  BY DEF DdStart
<1>6. SearchInv(DdStart(Ground))
  BY <1>4, <1>5 DEF SearchInv
<1> QED
  BY <1>1, <1>2, <1>3, <1>6, SearchInvStays

LEMMA SearchGoes == TablesInv /\ SearchKnown /\ SearchStep => SearchKnown'
<1> SUFFICES ASSUME TablesInv, SearchKnown, SearchStep, pc' = "ddmin" PROVE SearchInv(search)'
  BY DEF SearchKnown
<1>1. UNCHANGED <<job, hi, base>> /\ job \in Jobs
  BY DEF SearchStep, loadVars, mirrorVars, TablesInv, ControlInv
<1>2. Ground' = Ground /\ job.search.max \in Int
  BY <1>1, GroundStays, JobsAssumption
<1>3. ~ DdOver(search) /\ search' = DdStep(search, job.search.max, Hits(Candidate(search)))
  BY DEF SearchStep, Corrected, Goto
<1>4. SearchInv(search)
  BY DEF SearchKnown, SearchStep
<1>5. SearchInv(DdStep(search, job.search.max, Hits(Candidate(search))))
  BY <1>2, <1>3, <1>4, SearchTurn
<1> QED
  BY <1>1, <1>3, <1>5, SearchInvStays

\* No other action leads into the search.
LEMMA NoOtherSearches ==
    ASSUME TablesInv, [Next]_vars, ~ SearchStart, ~ SearchStep
    PROVE  pc' = "ddmin" => pc = "ddmin" /\ UNCHANGED <<job, hi, base, search>>
<1>1. LoadLayer \/ LoadGlobals \/ ResolveLayer \/ RegisterMirrors \/ ResolveMirrors => pc' # "ddmin"
  BY DEF LoadLayer, LoadGlobals, ResolveLayer, RegisterMirrors, ResolveMirrors, Register, Stop,
         Goto, AfterResolve, TablesInv, ControlInv, MoeSources
<1>2. ActiveInit \/ NqLine \/ NqDone \/ Poll \/ Commit \/ Admit \/ Emit \/ Log \/ Publish => pc' # "ddmin"
  BY DEF ActiveInit, NqLine, NqDone, Poll, Commit, Admit, Emit, Log, Publish, Goto
<1>3. Verify \/ VerifyGather \/ Step => pc' # "ddmin"
  BY DEF Verify, VerifyGather, Step, Batched, Looked, Goto
<1>4. Correct \/ Attribute => pc' # "ddmin"
  BY DEF Correct, Attribute, Corrected, Goto
<1>5. ExportNext \/ GateStep => pc' # "ddmin"
  <2>1. job.export \in BOOLEAN
    BY JobsAssumption DEF TablesInv, ControlInv
  <2>2. PromoteDone => pc' # "ddmin"
    BY <2>1 DEF PromoteDone, Goto
  <2>3. DenseLoad \/ PromoteLine \/ Export \/ ExportUnloaded \/ GateStep => pc' # "ddmin"
    BY DEF DenseLoad, Stop, PromoteLine, PromoteSlot, Export, ExportUnloaded, GateStep, Goto
  <2> QED
    BY <2>2, <2>3 DEF ExportNext
<1>6. UNCHANGED vars => UNCHANGED <<pc, job, hi, base, search>>
  BY DEF vars, tensorVars, loadVars, mirrorVars, replayVars
<1> QED
  BY <1>1, <1>2, <1>3, <1>4, <1>5, <1>6 DEF Next, TensorNext, Ended

LEMMA SearchNext == TablesInv /\ SearchKnown /\ [Next]_vars => SearchKnown'
<1> SUFFICES ASSUME TablesInv, SearchKnown, [Next]_vars PROVE SearchKnown'
  OBVIOUS
<1>1. CASE ~ SearchStart /\ ~ SearchStep
  <2>1. pc' = "ddmin" => pc = "ddmin" /\ UNCHANGED <<job, hi, base, search>>
    BY <1>1, NoOtherSearches
  <2>2. ASSUME pc' = "ddmin" PROVE SearchInv(search)'
    <3>1. SearchInv(search) /\ search' = search /\ UNCHANGED <<job, hi, base>>
      BY <2>1, <2>2 DEF SearchKnown
    <3> QED
      BY <3>1, SearchInvStays
  <2> QED
    BY <2>2 DEF SearchKnown
<1> QED
  BY <1>1, SearchStarts, SearchGoes

\* A search that converges within its budget ends with a list that hits and
\* from which no single combination can be left out, whatever the replays
\* answer, for every list and every number of layers.
THEOREM SearchesAreMinimal == Spec => []SearchClaimsHold
<1>1. Init => TablesInv /\ SearchKnown
  <2>1. Init => pc # "ddmin"
    BY DEF Init, Begin
  <2> QED
    BY <2>1, TablesInit DEF SearchKnown
<1>2. TablesInv /\ SearchKnown /\ [Next]_vars => (TablesInv /\ SearchKnown)'
  BY TablesNext, SearchNext
<1>3. SearchKnown => SearchClaimsHold
  <2> SUFFICES ASSUME SearchInv(search), search.phase = "converged",
                      search.tests < job.search.max, Hits(Ground)
               PROVE  /\ Hits(search.cur)
                      /\ Len(search.cur) >= 2 =>
                           \A x \in SetOf(search.cur) : SetOf(search.cur) \ {x} \notin job.search.works
    BY DEF SearchKnown, SearchClaimsHold
  <2> QED
    BY DEF SearchInv, Minimal
<1> QED
  BY <1>1, <1>2, <1>3, PTL DEF Spec

-----------------------------------------------------------------------------
(* What the modes compute with.  A list of steps leads from what has been  *)
(* set before it to what has been set after it, if each of its steps reads *)
(* only what was set, and stays within the buffers as far as its mode      *)
(* looks at them.                                                          *)

Fits(step) ==
  /\ step = "tokens" => ~ (job.gate.n > Positions)
  /\ step = "batch" => ~ (job.gate.n > BatchMax)
  /\ step = "slotLanes" => SlotsAsked <= BatchMax
  /\ step = "fixedLanes" => job.gate.mode = "verifyLanes"
  /\ step = "raggedLane" => job.gate.mode = "ggufCheck"

\* A[i] is known to be set after i steps of s.
Annotates(A, s) ==
  \A i \in 1 .. Len(s) :
    /\ Fits(s[i]) /\ Reads(s[i]) \subseteq A[i - 1]
    /\ A[i] \subseteq A[i - 1] \cup Sets(s[i], A[i - 1])

Leads(s, P, Q) ==
  /\ s \in Seq(StepNames)
  /\ \E A : A[0] \subseteq P /\ Q \subseteq A[Len(s)] /\ Annotates(A, s)

\* More that is set lets a step set more.
LEMMA SetsMore ==
    ASSUME NEW x, NEW P, NEW Q, P \subseteq Q
    PROVE  Sets(x, P) \subseteq Sets(x, Q)
<1>1. Sized(P) \subseteq Sized(Q)
  BY DEF Sized
<1> QED
  BY <1>1 DEF Sets

LEMMA NothingLeads == ASSUME NEW P, NEW Q, Q \subseteq P PROVE Leads(<<>>, P, Q)
<1> DEFINE A == [i \in {0} |-> P]
<1>1. A[0] = P /\ Len(<<>>) = 0 /\ Annotates(A, <<>>)
  BY DEF Annotates
<1> QED
  BY <1>1 DEF Leads

LEMMA ChainLeads ==
    ASSUME NEW s, NEW t, NEW P, NEW Q, NEW R,
           Leads(s, P, Q), Leads(t, Q, R)
    PROVE  Leads(s \o t, P, R)
<1>1. PICK A : A[0] \subseteq P /\ Q \subseteq A[Len(s)] /\ Annotates(A, s)
  BY DEF Leads
<1>2. PICK B : B[0] \subseteq Q /\ R \subseteq B[Len(t)] /\ Annotates(B, t)
  BY DEF Leads
<1>3. PICK m, n, u : /\ m = Len(s) /\ n = Len(t) /\ u = s \o t
                     /\ s \in Seq(StepNames) /\ t \in Seq(StepNames)
  BY DEF Leads
<1>4. m \in Nat /\ n \in Nat /\ Len(u) = m + n
  BY <1>3
<1>5. /\ \A i \in 1 .. m : u[i] = s[i]
      /\ \A i \in m + 1 .. m + n : u[i] = t[i - m]
  BY <1>3, <1>4
<1> DEFINE C == [i \in 0 .. m + n |-> IF i <= m THEN A[i] ELSE B[i - m]]
<1>6. C[0] \subseteq P
  BY <1>1, <1>4
<1>7. R \subseteq C[m + n]
  <2>1. CASE n = 0
    BY <1>1, <1>2, <1>3, <1>4, <2>1
  <2>2. CASE n # 0
    <3>1. C[m + n] = B[n]
      BY <1>4, <2>2
    <3> QED
      BY <1>2, <1>3, <3>1
  <2> QED
    BY <2>1, <2>2
<1>8. ASSUME NEW i \in 1 .. m + n
      PROVE  /\ Fits(u[i]) /\ Reads(u[i]) \subseteq C[i - 1]
             /\ C[i] \subseteq C[i - 1] \cup Sets(u[i], C[i - 1])
  <2>1. CASE i <= m
    <3>1. i \in 1 .. m /\ C[i] = A[i] /\ C[i - 1] = A[i - 1] /\ u[i] = s[i]
      BY <1>4, <1>5, <2>1
    <3> HIDE DEF C
    <3> QED
      BY <1>1, <1>3, <3>1 DEF Annotates
  <2>2. CASE i > m
    <3>1. PICK k : k = i - m
      OBVIOUS
    <3>2. k \in 1 .. n /\ C[i] = B[k] /\ u[i] = t[k]
      BY <1>4, <1>5, <2>2, <3>1
    <3>3. B[k - 1] \subseteq C[i - 1]
      <4>1. CASE k = 1
        <5>1. C[i - 1] = A[m] /\ k - 1 = 0
          BY <1>4, <3>1, <3>2, <4>1
        <5> QED
          BY <1>1, <1>2, <1>3, <5>1
      <4>2. CASE k # 1
        BY <1>4, <3>1, <3>2, <4>2
      <4> QED
        BY <4>1, <4>2
    <3> HIDE DEF C
    <3>4. /\ Fits(t[k]) /\ Reads(t[k]) \subseteq B[k - 1]
          /\ B[k] \subseteq B[k - 1] \cup Sets(t[k], B[k - 1])
      BY <1>2, <1>3, <3>2 DEF Annotates
    <3>5. Sets(t[k], B[k - 1]) \subseteq Sets(t[k], C[i - 1])
      BY <3>3, SetsMore
    <3> QED
      BY <3>2, <3>3, <3>4, <3>5
  <2>3. i <= m \/ i > m
    BY <1>4
  <2> HIDE DEF C
  <2> QED
    BY <2>1, <2>2, <2>3
<1> HIDE DEF C
<1>9. u \in Seq(StepNames) /\ Annotates(C, u)
  BY <1>3, <1>4, <1>8 DEF Annotates
<1> QED
  BY <1>3, <1>4, <1>6, <1>7, <1>9 DEF Leads

\* A step passes from what has been set before it to what is known after it.
Passes(x, P, Q) ==
  x \in StepNames /\ Fits(x) /\ Reads(x) \subseteq P /\ Q \subseteq P \cup Sets(x, P)

LEMMA StepLeads == ASSUME NEW x, NEW P, NEW Q, Passes(x, P, Q) PROVE Leads(<<x>>, P, Q)
<1> DEFINE A == [i \in {0, 1} |-> IF i = 0 THEN P ELSE Q]
<1>1. A[0] = P /\ A[1] = Q
  OBVIOUS
<1> HIDE DEF A
<1>2. Annotates(A, <<x>>)
  <2> SUFFICES ASSUME NEW i \in 1 .. Len(<<x>>)
               PROVE  /\ Fits(<<x>>[i]) /\ Reads(<<x>>[i]) \subseteq A[i - 1]
                      /\ A[i] \subseteq A[i - 1] \cup Sets(<<x>>[i], A[i - 1])
    BY DEF Annotates
  <2>1. i = 1
    OBVIOUS
  <2>2. <<x>>[i] = x /\ i - 1 = 0
    BY <2>1
  <2> QED
    BY <1>1, <2>1, <2>2 DEF Passes
<1>3. Len(<<x>>) = 1 /\ <<x>> \in Seq(StepNames)
  BY DEF Passes
<1> QED
  BY <1>1, <1>2, <1>3 DEF Leads

LEMMA ConsLeads ==
    ASSUME NEW s \in Seq(StepNames), s # <<>>, NEW P, NEW Q, NEW R,
           Passes(Head(s), P, Q), Leads(Tail(s), Q, R)
    PROVE  Leads(s, P, R)
<1>1. <<Head(s)>> \o Tail(s) = s
  OBVIOUS
<1>2. Leads(<<Head(s)>> \o Tail(s), P, R)
  BY StepLeads, ChainLeads
<1> QED
  BY <1>1, <1>2

\* Lists of several steps, each of which passes on to the next.
LEMMA Leads2 ==
    ASSUME NEW x1, NEW x2, NEW P0, NEW P1, NEW P2,
           Passes(x1, P0, P1), Passes(x2, P1, P2)
    PROVE  Leads(<<x1, x2>>, P0, P2)
<1>1. Leads(<<x2>>, P1, P2)
  BY StepLeads
<1>2. /\ Head(<<x1, x2>>) = x1
      /\ Tail(<<x1, x2>>) = <<x2>>
  OBVIOUS
<1>3. /\ <<x1, x2>> \in Seq(StepNames)
      /\ <<x1, x2>> # <<>>
  BY DEF Passes
<1> QED
  BY <1>1, <1>2, <1>3, ConsLeads

LEMMA Leads3 ==
    ASSUME NEW x1, NEW x2, NEW x3, NEW P0, NEW P1, NEW P2, NEW P3,
           Passes(x1, P0, P1), Passes(x2, P1, P2), Passes(x3, P2, P3)
    PROVE  Leads(<<x1, x2, x3>>, P0, P3)
<1>1. Leads(<<x2, x3>>, P1, P3)
  BY Leads2
<1>2. /\ Head(<<x1, x2, x3>>) = x1
      /\ Tail(<<x1, x2, x3>>) = <<x2, x3>>
  OBVIOUS
<1>3. /\ <<x1, x2, x3>> \in Seq(StepNames)
      /\ <<x1, x2, x3>> # <<>>
  BY DEF Passes
<1> QED
  BY <1>1, <1>2, <1>3, ConsLeads

LEMMA Leads4 ==
    ASSUME NEW x1, NEW x2, NEW x3, NEW x4, NEW P0, NEW P1, NEW P2, NEW P3, NEW P4,
           Passes(x1, P0, P1), Passes(x2, P1, P2), Passes(x3, P2, P3), Passes(x4, P3, P4)
    PROVE  Leads(<<x1, x2, x3, x4>>, P0, P4)
<1>1. Leads(<<x2, x3, x4>>, P1, P4)
  BY Leads3
<1>2. /\ Head(<<x1, x2, x3, x4>>) = x1
      /\ Tail(<<x1, x2, x3, x4>>) = <<x2, x3, x4>>
  OBVIOUS
<1>3. /\ <<x1, x2, x3, x4>> \in Seq(StepNames)
      /\ <<x1, x2, x3, x4>> # <<>>
  BY DEF Passes
<1> QED
  BY <1>1, <1>2, <1>3, ConsLeads

LEMMA Leads5 ==
    ASSUME NEW x1, NEW x2, NEW x3, NEW x4, NEW x5, NEW P0, NEW P1, NEW P2, NEW P3, NEW P4, NEW
           P5,
           Passes(x1, P0, P1), Passes(x2, P1, P2), Passes(x3, P2, P3), Passes(x4, P3, P4),
           Passes(x5, P4, P5)
    PROVE  Leads(<<x1, x2, x3, x4, x5>>, P0, P5)
<1>1. Leads(<<x2, x3, x4, x5>>, P1, P5)
  BY Leads4
<1>2. /\ Head(<<x1, x2, x3, x4, x5>>) = x1
      /\ Tail(<<x1, x2, x3, x4, x5>>) = <<x2, x3, x4, x5>>
  OBVIOUS
<1>3. /\ <<x1, x2, x3, x4, x5>> \in Seq(StepNames)
      /\ <<x1, x2, x3, x4, x5>> # <<>>
  BY DEF Passes
<1> QED
  BY <1>1, <1>2, <1>3, ConsLeads

LEMMA Leads6 ==
    ASSUME NEW x1, NEW x2, NEW x3, NEW x4, NEW x5, NEW x6, NEW P0, NEW P1, NEW P2, NEW P3, NEW
           P4, NEW P5, NEW P6,
           Passes(x1, P0, P1), Passes(x2, P1, P2), Passes(x3, P2, P3), Passes(x4, P3, P4),
           Passes(x5, P4, P5), Passes(x6, P5, P6)
    PROVE  Leads(<<x1, x2, x3, x4, x5, x6>>, P0, P6)
<1>1. Leads(<<x2, x3, x4, x5, x6>>, P1, P6)
  BY Leads5
<1>2. /\ Head(<<x1, x2, x3, x4, x5, x6>>) = x1
      /\ Tail(<<x1, x2, x3, x4, x5, x6>>) = <<x2, x3, x4, x5, x6>>
  OBVIOUS
<1>3. /\ <<x1, x2, x3, x4, x5, x6>> \in Seq(StepNames)
      /\ <<x1, x2, x3, x4, x5, x6>> # <<>>
  BY DEF Passes
<1> QED
  BY <1>1, <1>2, <1>3, ConsLeads

LEMMA Leads7 ==
    ASSUME NEW x1, NEW x2, NEW x3, NEW x4, NEW x5, NEW x6, NEW x7, NEW P0, NEW P1, NEW P2, NEW
           P3, NEW P4, NEW P5, NEW P6, NEW P7,
           Passes(x1, P0, P1), Passes(x2, P1, P2), Passes(x3, P2, P3), Passes(x4, P3, P4),
           Passes(x5, P4, P5), Passes(x6, P5, P6), Passes(x7, P6, P7)
    PROVE  Leads(<<x1, x2, x3, x4, x5, x6, x7>>, P0, P7)
<1>1. Leads(<<x2, x3, x4, x5, x6, x7>>, P1, P7)
  BY Leads6
<1>2. /\ Head(<<x1, x2, x3, x4, x5, x6, x7>>) = x1
      /\ Tail(<<x1, x2, x3, x4, x5, x6, x7>>) = <<x2, x3, x4, x5, x6, x7>>
  OBVIOUS
<1>3. /\ <<x1, x2, x3, x4, x5, x6, x7>> \in Seq(StepNames)
      /\ <<x1, x2, x3, x4, x5, x6, x7>> # <<>>
  BY DEF Passes
<1> QED
  BY <1>1, <1>2, <1>3, ConsLeads

LEMMA Leads8 ==
    ASSUME NEW x1, NEW x2, NEW x3, NEW x4, NEW x5, NEW x6, NEW x7, NEW x8, NEW P0, NEW P1, NEW
           P2, NEW P3, NEW P4, NEW P5, NEW P6, NEW P7, NEW P8,
           Passes(x1, P0, P1), Passes(x2, P1, P2), Passes(x3, P2, P3), Passes(x4, P3, P4),
           Passes(x5, P4, P5), Passes(x6, P5, P6), Passes(x7, P6, P7), Passes(x8, P7, P8)
    PROVE  Leads(<<x1, x2, x3, x4, x5, x6, x7, x8>>, P0, P8)
<1>1. Leads(<<x2, x3, x4, x5, x6, x7, x8>>, P1, P8)
  BY Leads7
<1>2. /\ Head(<<x1, x2, x3, x4, x5, x6, x7, x8>>) = x1
      /\ Tail(<<x1, x2, x3, x4, x5, x6, x7, x8>>) = <<x2, x3, x4, x5, x6, x7, x8>>
  OBVIOUS
<1>3. /\ <<x1, x2, x3, x4, x5, x6, x7, x8>> \in Seq(StepNames)
      /\ <<x1, x2, x3, x4, x5, x6, x7, x8>> # <<>>
  BY DEF Passes
<1> QED
  BY <1>1, <1>2, <1>3, ConsLeads

LEMMA Leads9 ==
    ASSUME NEW x1, NEW x2, NEW x3, NEW x4, NEW x5, NEW x6, NEW x7, NEW x8, NEW x9, NEW P0, NEW
           P1, NEW P2, NEW P3, NEW P4, NEW P5, NEW P6, NEW P7, NEW P8, NEW P9,
           Passes(x1, P0, P1), Passes(x2, P1, P2), Passes(x3, P2, P3), Passes(x4, P3, P4),
           Passes(x5, P4, P5), Passes(x6, P5, P6), Passes(x7, P6, P7), Passes(x8, P7, P8),
           Passes(x9, P8, P9)
    PROVE  Leads(<<x1, x2, x3, x4, x5, x6, x7, x8, x9>>, P0, P9)
<1>1. Leads(<<x2, x3, x4, x5, x6, x7, x8, x9>>, P1, P9)
  BY Leads8
<1>2. /\ Head(<<x1, x2, x3, x4, x5, x6, x7, x8, x9>>) = x1
      /\ Tail(<<x1, x2, x3, x4, x5, x6, x7, x8, x9>>) = <<x2, x3, x4, x5, x6, x7, x8, x9>>
  OBVIOUS
<1>3. /\ <<x1, x2, x3, x4, x5, x6, x7, x8, x9>> \in Seq(StepNames)
      /\ <<x1, x2, x3, x4, x5, x6, x7, x8, x9>> # <<>>
  BY DEF Passes
<1> QED
  BY <1>1, <1>2, <1>3, ConsLeads

LEMMA Leads10 ==
    ASSUME NEW x1, NEW x2, NEW x3, NEW x4, NEW x5, NEW x6, NEW x7, NEW x8, NEW x9, NEW x10, NEW
           P0, NEW P1, NEW P2, NEW P3, NEW P4, NEW P5, NEW P6, NEW P7, NEW P8, NEW P9, NEW P10,
           Passes(x1, P0, P1), Passes(x2, P1, P2), Passes(x3, P2, P3), Passes(x4, P3, P4),
           Passes(x5, P4, P5), Passes(x6, P5, P6), Passes(x7, P6, P7), Passes(x8, P7, P8),
           Passes(x9, P8, P9), Passes(x10, P9, P10)
    PROVE  Leads(<<x1, x2, x3, x4, x5, x6, x7, x8, x9, x10>>, P0, P10)
<1>1. Leads(<<x2, x3, x4, x5, x6, x7, x8, x9, x10>>, P1, P10)
  BY Leads9
<1>2. /\ Head(<<x1, x2, x3, x4, x5, x6, x7, x8, x9, x10>>) = x1
      /\ Tail(<<x1, x2, x3, x4, x5, x6, x7, x8, x9, x10>>) = <<x2, x3, x4, x5, x6, x7, x8, x9, x10>>
  OBVIOUS
<1>3. /\ <<x1, x2, x3, x4, x5, x6, x7, x8, x9, x10>> \in Seq(StepNames)
      /\ <<x1, x2, x3, x4, x5, x6, x7, x8, x9, x10>> # <<>>
  BY DEF Passes
<1> QED
  BY <1>1, <1>2, <1>3, ConsLeads

LEMMA Leads11 ==
    ASSUME NEW x1, NEW x2, NEW x3, NEW x4, NEW x5, NEW x6, NEW x7, NEW x8, NEW x9, NEW x10, NEW
           x11, NEW P0, NEW P1, NEW P2, NEW P3, NEW P4, NEW P5, NEW P6, NEW P7, NEW P8, NEW P9,
           NEW P10, NEW P11,
           Passes(x1, P0, P1), Passes(x2, P1, P2), Passes(x3, P2, P3), Passes(x4, P3, P4),
           Passes(x5, P4, P5), Passes(x6, P5, P6), Passes(x7, P6, P7), Passes(x8, P7, P8),
           Passes(x9, P8, P9), Passes(x10, P9, P10), Passes(x11, P10, P11)
    PROVE  Leads(<<x1, x2, x3, x4, x5, x6, x7, x8, x9, x10, x11>>, P0, P11)
<1>1. Leads(<<x2, x3, x4, x5, x6, x7, x8, x9, x10, x11>>, P1, P11)
  BY Leads10
<1>2. /\ Head(<<x1, x2, x3, x4, x5, x6, x7, x8, x9, x10, x11>>) = x1
      /\ Tail(<<x1, x2, x3, x4, x5, x6, x7, x8, x9, x10, x11>>)
           = <<x2, x3, x4, x5, x6, x7, x8, x9, x10, x11>>
  OBVIOUS
<1>3. /\ <<x1, x2, x3, x4, x5, x6, x7, x8, x9, x10, x11>> \in Seq(StepNames)
      /\ <<x1, x2, x3, x4, x5, x6, x7, x8, x9, x10, x11>> # <<>>
  BY DEF Passes
<1> QED
  BY <1>1, <1>2, <1>3, ConsLeads

LEMMA Leads12 ==
    ASSUME NEW x1, NEW x2, NEW x3, NEW x4, NEW x5, NEW x6, NEW x7, NEW x8, NEW x9, NEW x10, NEW
           x11, NEW x12, NEW P0, NEW P1, NEW P2, NEW P3, NEW P4, NEW P5, NEW P6, NEW P7, NEW P8,
           NEW P9, NEW P10, NEW P11, NEW P12,
           Passes(x1, P0, P1), Passes(x2, P1, P2), Passes(x3, P2, P3), Passes(x4, P3, P4),
           Passes(x5, P4, P5), Passes(x6, P5, P6), Passes(x7, P6, P7), Passes(x8, P7, P8),
           Passes(x9, P8, P9), Passes(x10, P9, P10), Passes(x11, P10, P11), Passes(x12, P11,
           P12)
    PROVE  Leads(<<x1, x2, x3, x4, x5, x6, x7, x8, x9, x10, x11, x12>>, P0, P12)
<1>1. Leads(<<x2, x3, x4, x5, x6, x7, x8, x9, x10, x11, x12>>, P1, P12)
  BY Leads11
<1>2. /\ Head(<<x1, x2, x3, x4, x5, x6, x7, x8, x9, x10, x11, x12>>) = x1
      /\ Tail(<<x1, x2, x3, x4, x5, x6, x7, x8, x9, x10, x11, x12>>)
           = <<x2, x3, x4, x5, x6, x7, x8, x9, x10, x11, x12>>
  OBVIOUS
<1>3. /\ <<x1, x2, x3, x4, x5, x6, x7, x8, x9, x10, x11, x12>> \in Seq(StepNames)
      /\ <<x1, x2, x3, x4, x5, x6, x7, x8, x9, x10, x11, x12>> # <<>>
  BY DEF Passes
<1> QED
  BY <1>1, <1>2, <1>3, ConsLeads

\* The first step of a list that leads on from what has been set.
LEMMA FirstLeads ==
    ASSUME NEW s, s # <<>>, NEW P, NEW Q, Leads(s, P, Q)
    PROVE  /\ Fits(Head(s)) /\ Reads(Head(s)) \subseteq P
           /\ Leads(Tail(s), P \cup Sets(Head(s), P), Q)
<1>1. PICK A : A[0] \subseteq P /\ Q \subseteq A[Len(s)] /\ Annotates(A, s)
  BY DEF Leads
<1>2. PICK n, u, x : n = Len(s) /\ u = Tail(s) /\ x = Head(s) /\ s \in Seq(StepNames)
  BY DEF Leads
<1>3. /\ n \in Nat /\ n # 0 /\ u \in Seq(StepNames) /\ Len(u) = n - 1 /\ x = s[1]
      /\ \A i \in 1 .. n - 1 : u[i] = s[i + 1]
  BY <1>2
<1>4. Fits(x) /\ Reads(x) \subseteq A[0] /\ A[1] \subseteq A[0] \cup Sets(x, A[0])
  <2>1. 1 \in 1 .. Len(s) /\ 1 - 1 = 0
    BY <1>2, <1>3
  <2> QED
    BY <1>1, <1>3, <2>1 DEF Annotates
<1> DEFINE B == [i \in 0 .. n - 1 |-> A[i + 1]]
<1>5. B[0] = A[1] /\ B[n - 1] = A[n]
  BY <1>3
<1>6. Annotates(B, u)
  <2> SUFFICES ASSUME NEW i \in 1 .. n - 1
               PROVE  /\ Fits(u[i]) /\ Reads(u[i]) \subseteq B[i - 1]
                      /\ B[i] \subseteq B[i - 1] \cup Sets(u[i], B[i - 1])
    BY <1>3 DEF Annotates
  <2>1. PICK k : k = i + 1 /\ k \in 1 .. n
    BY <1>3
  <2>2. B[i] = A[k] /\ B[i - 1] = A[k - 1] /\ u[i] = s[k]
    BY <1>3, <2>1
  <2> HIDE DEF B
  <2> QED
    BY <1>1, <1>2, <2>1, <2>2 DEF Annotates
<1> HIDE DEF B
<1>7. Sets(x, A[0]) \subseteq Sets(x, P)
  BY <1>1, SetsMore
<1> QED
  BY <1>1, <1>2, <1>3, <1>4, <1>5, <1>6, <1>7 DEF Leads
\* The rows that have a length are sized.
LEMMA SizedRows ==
    \A P : /\ "rowsMLA" \in P => "kvMLA" \in Sized(P)
           /\ "rowsGQA" \in P => "kvGQA" \in Sized(P)
<1>1. PICK r, t : r = <<"rowsMLA", "kvMLA">> /\ t = <<"rowsGQA", "kvGQA">>
  OBVIOUS
<1>2. r[1] = "rowsMLA" /\ r[2] = "kvMLA" /\ t[1] = "rowsGQA" /\ t[2] = "kvGQA"
  BY <1>1
<1>3. \A P : Sized(P) = {x[2] : x \in {y \in {r, t} : y[1] \in P}}
  BY <1>1 DEF Sized
<1> QED
  BY <1>2, <1>3

\* What has been set after a block.
MlaLoaded == {"dims", "kvMLA", "yarn", "registry", "norms", "blob", "layers",
              "attention", "tested", "heads", "bound"}
MlaReady == {"dims", "kvMLA", "yarn", "registry", "norms", "blob", "layers",
             "attention", "tested", "heads", "bound", "devMLA", "devFfn"}
GqaLoaded == {"dims", "kvGQA", "ropeGqa", "registry", "norms", "blob", "layers",
              "attention", "tested", "heads"}
GqaTaken == {"dims", "kvGQA", "ropeGqa", "registry", "norms", "blob", "layers",
             "attention", "tested", "heads", "bound"}
GqaReady == {"dims", "kvGQA", "ropeGqa", "registry", "norms", "blob", "layers",
             "attention", "tested", "heads", "bound", "devGQA", "devFfn"}
GpuTaken == {"registry", "blob", "bound"}
GpuMirrored == {"registry", "blob", "bound", "depth", "mirrors"}
VerifyReady == {"dims", RowShape[job.attn], Rotation[job.attn]}
HostReady == {"dims", RowShape[job.attn], Rotation[job.attn], "registry", "norms",
              "blob", "layers", "tested"}
CheckReady == {RowShape[job.attn], Rotation[job.attn], "blob", "layers", "heads"}

\* Multi-head latent attention on the device.
LEMMA MlaLoadHead ==
    Leads(<<"device", "config">>,
          {}, {"dims"})
<1>1. Passes("device", {}, {})
  BY DEF Passes, StepNames, Fits, Reads, Sets, HostPasses
<1>2. Passes("config", {}, {"dims"})
  BY DEF Passes, StepNames, Fits, Reads, Sets, HostPasses
<1> QED
  BY <1>1, <1>2, Leads2

LEMMA MlaLoadRest ==
    Leads(<<"validate", "rowsMLA", "buffers", "yarn", "af", "f32", "resolve", "heads",
          "bind">>,
          {"dims"}, MlaLoaded)
<1>1. Passes("validate", {"dims"}, {"dims", "valid"})
  BY DEF Passes, StepNames, Fits, Reads, Sets, HostPasses
<1>2. Passes("rowsMLA", {"dims", "valid"}, {"dims", "valid", "rowsMLA"})
  BY DEF Passes, StepNames, Fits, Reads, Sets, HostPasses
<1>3. Passes("buffers", {"dims", "valid", "rowsMLA"}, {"dims", "tables", "kvMLA"})
  BY SizedRows DEF Passes, StepNames, Fits, Reads, Sets, HostPasses
<1>4. Passes("yarn", {"dims", "tables", "kvMLA"}, {"dims", "kvMLA", "yarn"})
  BY DEF Passes, StepNames, Fits, Reads, Sets, HostPasses
<1>5. Passes("af", {"dims", "kvMLA", "yarn"}, {"dims", "kvMLA", "yarn", "registry",
            "blob"})
  BY DEF Passes, StepNames, Fits, Reads, Sets, HostPasses
<1>6. Passes("f32", {"dims", "kvMLA", "yarn", "registry", "blob"}, {"dims", "kvMLA",
            "yarn", "registry", "norms", "blob"})
  BY DEF Passes, StepNames, Fits, Reads, Sets, HostPasses
<1>7. Passes("resolve", {"dims", "kvMLA", "yarn", "registry", "norms", "blob"},
            {"dims", "kvMLA", "yarn", "registry", "norms", "blob", "layers", "attention",
            "tested"})
  BY DEF Passes, StepNames, Fits, Reads, Sets, HostPasses
<1>8. Passes("heads", {"dims", "kvMLA", "yarn", "registry", "norms", "blob", "layers",
            "attention", "tested"}, {"dims", "kvMLA", "yarn", "registry", "norms", "blob",
            "layers", "attention", "tested", "heads"})
  BY DEF Passes, StepNames, Fits, Reads, Sets, HostPasses
<1>9. Passes("bind", {"dims", "kvMLA", "yarn", "registry", "norms", "blob", "layers",
            "attention", "tested", "heads"}, {"dims", "kvMLA", "yarn", "registry", "norms",
            "blob", "layers", "attention", "tested", "heads", "bound"})
  BY DEF Passes, StepNames, Fits, Reads, Sets, HostPasses
<1> QED
  BY <1>1, <1>2, <1>3, <1>4, <1>5, <1>6, <1>7, <1>8, <1>9, Leads9 DEF MlaLoaded

LEMMA MlaDeviceLeads ==
    Leads(<<"deviceMLA", "layerConfig">>,
          MlaLoaded, MlaReady)
<1>1. Passes("deviceMLA", {"dims", "kvMLA", "yarn", "registry", "norms", "blob",
            "layers", "attention", "tested", "heads", "bound"}, {"dims", "kvMLA", "yarn",
            "registry", "norms", "blob", "layers", "attention", "tested", "heads", "bound",
            "devMLA"})
  BY DEF Passes, StepNames, Fits, Reads, Sets, HostPasses
<1>2. Passes("layerConfig", {"dims", "kvMLA", "yarn", "registry", "norms", "blob",
            "layers", "attention", "tested", "heads", "bound", "devMLA"}, {"dims", "kvMLA",
            "yarn", "registry", "norms", "blob", "layers", "attention", "tested", "heads",
            "bound", "devMLA", "devFfn"})
  BY DEF Passes, StepNames, Fits, Reads, Sets, HostPasses
<1> QED
  BY <1>1, <1>2, Leads2 DEF MlaLoaded, MlaReady

LEMMA NqMla ==
    Leads(<<"nq">>,
          MlaLoaded, MlaLoaded)
<1>1. Passes("nq", {"dims", "kvMLA", "yarn", "registry", "norms", "blob", "layers",
            "attention", "tested", "heads", "bound"}, {"dims", "kvMLA", "yarn", "registry",
            "norms", "blob", "layers", "attention", "tested", "heads", "bound"})
  BY DEF Passes, StepNames, Fits, Reads, Sets, HostPasses
<1> QED
  BY <1>1, StepLeads DEF MlaLoaded

LEMMA NqSlotsMla ==
    Leads(<<"nq", "slotRange">>,
          MlaLoaded, MlaLoaded)
<1>1. Passes("nq", {"dims", "kvMLA", "yarn", "registry", "norms", "blob", "layers",
            "attention", "tested", "heads", "bound"}, {"dims", "kvMLA", "yarn", "registry",
            "norms", "blob", "layers", "attention", "tested", "heads", "bound"})
  BY DEF Passes, StepNames, Fits, Reads, Sets, HostPasses
<1>2. Passes("slotRange", {"dims", "kvMLA", "yarn", "registry", "norms", "blob",
            "layers", "attention", "tested", "heads", "bound"}, {"dims", "kvMLA", "yarn",
            "registry", "norms", "blob", "layers", "attention", "tested", "heads", "bound"})
  BY DEF Passes, StepNames, Fits, Reads, Sets, HostPasses
<1> QED
  BY <1>1, <1>2, Leads2 DEF MlaLoaded

LEMMA AttentionMla ==
    ASSUME job.attn = "MLA"
    PROVE  Leads(<<"deviceMLA", "reference", "attentionMLA", "gpuAttentionMLA">>,
                 MlaLoaded, {})
<1>1. Passes("deviceMLA", {"dims", "kvMLA", "yarn", "registry", "norms", "blob",
            "layers", "attention", "tested", "heads", "bound"}, {"kvMLA", "yarn", "norms", "blob",
            "attention", "bound", "devMLA"})
  BY DEF Passes, StepNames, Fits, Reads, Sets, HostPasses
<1>2. Passes("reference", {"kvMLA", "yarn", "norms", "blob", "attention", "bound",
            "devMLA"}, {"kvMLA", "yarn", "norms", "blob", "attention", "bound", "devMLA"})
  BY DEF Passes, StepNames, Fits, Reads, Sets, HostPasses
<1>3. Passes("attentionMLA", {"kvMLA", "yarn", "norms", "blob", "attention", "bound",
            "devMLA"}, {"norms", "bound", "devMLA"})
  BY DEF Passes, StepNames, Fits, Reads, Sets, HostPasses, HostAttention, Rotation, RowShape
<1>4. Passes("gpuAttentionMLA", {"norms", "bound", "devMLA"}, {})
  BY DEF Passes, StepNames, Fits, Reads, Sets, HostPasses
<1> QED
  BY <1>1, <1>2, <1>3, <1>4, Leads4 DEF MlaLoaded

LEMMA TokenMla ==
    ASSUME job.attn = "MLA"
    PROVE  Leads(<<"reference", "token", "gpuMLA">>,
                 MlaReady, {})
<1>1. Passes("reference", {"dims", "kvMLA", "yarn", "registry", "norms", "blob",
            "layers", "attention", "tested", "heads", "bound", "devMLA", "devFfn"}, {"kvMLA",
            "yarn", "blob", "layers", "heads", "bound", "devMLA", "devFfn"})
  BY DEF Passes, StepNames, Fits, Reads, Sets, HostPasses
<1>2. Passes("token", {"kvMLA", "yarn", "blob", "layers", "heads", "bound", "devMLA",
            "devFfn"}, {"layers", "heads", "bound", "devMLA", "devFfn"})
  BY DEF Passes, StepNames, Fits, Reads, Sets, HostPasses, HostToken, HostAttention, Rotation, RowShape
<1>3. Passes("gpuMLA", {"layers", "heads", "bound", "devMLA", "devFfn"}, {})
  BY DEF Passes, StepNames, Fits, Reads, Sets, HostPasses
<1> QED
  BY <1>1, <1>2, <1>3, Leads3 DEF MlaReady

LEMMA GenerateMla ==
    Leads(<<"shortPrompt", "gpuMLA">>,
          MlaReady, {})
<1>1. Passes("shortPrompt", {"dims", "kvMLA", "yarn", "registry", "norms", "blob",
            "layers", "attention", "tested", "heads", "bound", "devMLA", "devFfn"}, {"layers",
            "heads", "bound", "devMLA", "devFfn"})
  BY DEF Passes, StepNames, Fits, Reads, Sets, HostPasses
<1>2. Passes("gpuMLA", {"layers", "heads", "bound", "devMLA", "devFfn"}, {})
  BY DEF Passes, StepNames, Fits, Reads, Sets, HostPasses
<1> QED
  BY <1>1, <1>2, Leads2 DEF MlaReady

LEMMA BatchMla ==
    ASSUME job.attn = "MLA",
           ~ (job.gate.n > BatchMax)
    PROVE  Leads(<<"columns", "batch", "gpuMLA">>,
                 MlaReady, {})
<1>1. Passes("columns", {"dims", "kvMLA", "yarn", "registry", "norms", "blob",
            "layers", "attention", "tested", "heads", "bound", "devMLA", "devFfn"}, {"kvMLA",
            "yarn", "blob", "layers", "heads", "bound", "devMLA", "devFfn"})
  BY DEF Passes, StepNames, Fits, Reads, Sets, HostPasses
<1>2. Passes("batch", {"kvMLA", "yarn", "blob", "layers", "heads", "bound", "devMLA",
            "devFfn"}, {"layers", "heads", "bound", "devMLA", "devFfn"})
  BY DEF Passes, StepNames, Fits, Reads, Sets, HostPasses, HostToken, HostAttention, Rotation, RowShape
<1>3. Passes("gpuMLA", {"layers", "heads", "bound", "devMLA", "devFfn"}, {})
  BY DEF Passes, StepNames, Fits, Reads, Sets, HostPasses
<1> QED
  BY <1>1, <1>2, <1>3, Leads3 DEF MlaReady

LEMMA LanesMla ==
    Leads(<<"columnsN", "gpuLanesMLA">>,
          MlaReady, {})
<1>1. Passes("columnsN", {"dims", "kvMLA", "yarn", "registry", "norms", "blob",
            "layers", "attention", "tested", "heads", "bound", "devMLA", "devFfn"}, {"layers",
            "heads", "bound", "devMLA", "devFfn", "columns"})
  BY DEF Passes, StepNames, Fits, Reads, Sets, HostPasses
<1>2. Passes("gpuLanesMLA", {"layers", "heads", "bound", "devMLA", "devFfn",
            "columns"}, {})
  BY DEF Passes, StepNames, Fits, Reads, Sets, HostPasses
<1> QED
  BY <1>1, <1>2, Leads2 DEF MlaReady

LEMMA SlotsMla ==
    Leads(<<"columnsSlots", "gpuLanesMLA">>,
          MlaReady, {})
<1>1. Passes("columnsSlots", {"dims", "kvMLA", "yarn", "registry", "norms", "blob",
            "layers", "attention", "tested", "heads", "bound", "devMLA", "devFfn"}, {"layers",
            "heads", "bound", "devMLA", "devFfn", "columns"})
  BY DEF Passes, StepNames, Fits, Reads, Sets, HostPasses
<1>2. Passes("gpuLanesMLA", {"layers", "heads", "bound", "devMLA", "devFfn",
            "columns"}, {})
  BY DEF Passes, StepNames, Fits, Reads, Sets, HostPasses
<1> QED
  BY <1>1, <1>2, Leads2 DEF MlaReady

\* Grouped-query attention.
LEMMA GqaLoadLeads ==
    Leads(<<"config", "onlyGQA", "validate", "rowsGQA", "buffers", "yarn", "ropeGqa", "af",
          "f32", "resolve", "heads">>,
          {}, GqaLoaded)
<1>1. Passes("config", {}, {"dims"})
  BY DEF Passes, StepNames, Fits, Reads, Sets, HostPasses
<1>2. Passes("onlyGQA", {"dims"}, {"dims"})
  BY DEF Passes, StepNames, Fits, Reads, Sets, HostPasses
<1>3. Passes("validate", {"dims"}, {"dims", "valid"})
  BY DEF Passes, StepNames, Fits, Reads, Sets, HostPasses
<1>4. Passes("rowsGQA", {"dims", "valid"}, {"dims", "valid", "rowsGQA"})
  BY DEF Passes, StepNames, Fits, Reads, Sets, HostPasses
<1>5. Passes("buffers", {"dims", "valid", "rowsGQA"}, {"dims", "tables", "kvGQA"})
  BY SizedRows DEF Passes, StepNames, Fits, Reads, Sets, HostPasses
<1>6. Passes("yarn", {"dims", "tables", "kvGQA"}, {"dims", "tables", "kvGQA"})
  BY DEF Passes, StepNames, Fits, Reads, Sets, HostPasses
<1>7. Passes("ropeGqa", {"dims", "tables", "kvGQA"}, {"dims", "kvGQA", "ropeGqa"})
  BY DEF Passes, StepNames, Fits, Reads, Sets, HostPasses
<1>8. Passes("af", {"dims", "kvGQA", "ropeGqa"}, {"dims", "kvGQA", "ropeGqa",
            "registry", "blob"})
  BY DEF Passes, StepNames, Fits, Reads, Sets, HostPasses
<1>9. Passes("f32", {"dims", "kvGQA", "ropeGqa", "registry", "blob"}, {"dims",
            "kvGQA", "ropeGqa", "registry", "norms", "blob"})
  BY DEF Passes, StepNames, Fits, Reads, Sets, HostPasses
<1>10. Passes("resolve", {"dims", "kvGQA", "ropeGqa", "registry", "norms", "blob"},
            {"dims", "kvGQA", "ropeGqa", "registry", "norms", "blob", "layers", "attention",
            "tested"})
  BY DEF Passes, StepNames, Fits, Reads, Sets, HostPasses
<1>11. Passes("heads", {"dims", "kvGQA", "ropeGqa", "registry", "norms", "blob",
            "layers", "attention", "tested"}, {"dims", "kvGQA", "ropeGqa", "registry", "norms",
            "blob", "layers", "attention", "tested", "heads"})
  BY DEF Passes, StepNames, Fits, Reads, Sets, HostPasses
<1> QED
  BY <1>1, <1>2, <1>3, <1>4, <1>5, <1>6, <1>7, <1>8, <1>9, <1>10, <1>11, Leads11 DEF
     GqaLoaded

LEMMA BindGqa ==
    Leads(<<"bind">>,
          GqaLoaded, GqaTaken)
<1>1. Passes("bind", {"dims", "kvGQA", "ropeGqa", "registry", "norms", "blob",
            "layers", "attention", "tested", "heads"}, {"dims", "kvGQA", "ropeGqa", "registry",
            "norms", "blob", "layers", "attention", "tested", "heads", "bound"})
  BY DEF Passes, StepNames, Fits, Reads, Sets, HostPasses
<1> QED
  BY <1>1, StepLeads DEF GqaLoaded, GqaTaken

LEMMA GqaDeviceLeads ==
    Leads(<<"deviceGQA", "layerConfig">>,
          GqaTaken, GqaReady)
<1>1. Passes("deviceGQA", {"dims", "kvGQA", "ropeGqa", "registry", "norms", "blob",
            "layers", "attention", "tested", "heads", "bound"}, {"dims", "kvGQA", "ropeGqa",
            "registry", "norms", "blob", "layers", "attention", "tested", "heads", "bound",
            "devGQA"})
  BY DEF Passes, StepNames, Fits, Reads, Sets, HostPasses
<1>2. Passes("layerConfig", {"dims", "kvGQA", "ropeGqa", "registry", "norms", "blob",
            "layers", "attention", "tested", "heads", "bound", "devGQA"}, {"dims", "kvGQA",
            "ropeGqa", "registry", "norms", "blob", "layers", "attention", "tested", "heads",
            "bound", "devGQA", "devFfn"})
  BY DEF Passes, StepNames, Fits, Reads, Sets, HostPasses
<1> QED
  BY <1>1, <1>2, Leads2 DEF GqaTaken, GqaReady

LEMMA NqSlotsGqa ==
    Leads(<<"nq", "slotRange">>,
          GqaTaken, GqaTaken)
<1>1. Passes("nq", {"dims", "kvGQA", "ropeGqa", "registry", "norms", "blob", "layers",
            "attention", "tested", "heads", "bound"}, {"dims", "kvGQA", "ropeGqa", "registry",
            "norms", "blob", "layers", "attention", "tested", "heads", "bound"})
  BY DEF Passes, StepNames, Fits, Reads, Sets, HostPasses
<1>2. Passes("slotRange", {"dims", "kvGQA", "ropeGqa", "registry", "norms", "blob",
            "layers", "attention", "tested", "heads", "bound"}, {"dims", "kvGQA", "ropeGqa",
            "registry", "norms", "blob", "layers", "attention", "tested", "heads", "bound"})
  BY DEF Passes, StepNames, Fits, Reads, Sets, HostPasses
<1> QED
  BY <1>1, <1>2, Leads2 DEF GqaTaken

LEMMA TokensGqa ==
    ASSUME job.attn = "GQA",
           ~ (job.gate.n > Positions)
    PROVE  Leads(<<"prompt", "reference", "tokens", "gpuGQA">>,
                 GqaReady, {})
<1>1. Passes("prompt", {"dims", "kvGQA", "ropeGqa", "registry", "norms", "blob",
            "layers", "attention", "tested", "heads", "bound", "devGQA", "devFfn"}, {"kvGQA",
            "ropeGqa", "blob", "layers", "heads", "bound", "devGQA", "devFfn"})
  BY DEF Passes, StepNames, Fits, Reads, Sets, HostPasses
<1>2. Passes("reference", {"kvGQA", "ropeGqa", "blob", "layers", "heads", "bound",
            "devGQA", "devFfn"}, {"kvGQA", "ropeGqa", "blob", "layers", "heads", "bound",
            "devGQA", "devFfn"})
  BY DEF Passes, StepNames, Fits, Reads, Sets, HostPasses
<1>3. Passes("tokens", {"kvGQA", "ropeGqa", "blob", "layers", "heads", "bound",
            "devGQA", "devFfn"}, {"layers", "heads", "bound", "devGQA", "devFfn"})
  BY DEF Passes, StepNames, Fits, Reads, Sets, HostPasses, HostToken, HostAttention, Rotation, RowShape
<1>4. Passes("gpuGQA", {"layers", "heads", "bound", "devGQA", "devFfn"}, {})
  BY DEF Passes, StepNames, Fits, Reads, Sets, HostPasses
<1> QED
  BY <1>1, <1>2, <1>3, <1>4, Leads4 DEF GqaReady

LEMMA BatchGqa ==
    ASSUME job.attn = "GQA",
           ~ (job.gate.n > BatchMax)
    PROVE  Leads(<<"columns", "batch", "gpuGQA">>,
                 GqaReady, {})
<1>1. Passes("columns", {"dims", "kvGQA", "ropeGqa", "registry", "norms", "blob",
            "layers", "attention", "tested", "heads", "bound", "devGQA", "devFfn"}, {"kvGQA",
            "ropeGqa", "blob", "layers", "heads", "bound", "devGQA", "devFfn"})
  BY DEF Passes, StepNames, Fits, Reads, Sets, HostPasses
<1>2. Passes("batch", {"kvGQA", "ropeGqa", "blob", "layers", "heads", "bound",
            "devGQA", "devFfn"}, {"layers", "heads", "bound", "devGQA", "devFfn"})
  BY DEF Passes, StepNames, Fits, Reads, Sets, HostPasses, HostToken, HostAttention, Rotation, RowShape
<1>3. Passes("gpuGQA", {"layers", "heads", "bound", "devGQA", "devFfn"}, {})
  BY DEF Passes, StepNames, Fits, Reads, Sets, HostPasses
<1> QED
  BY <1>1, <1>2, <1>3, Leads3 DEF GqaReady

LEMMA GenerateGqa ==
    Leads(<<"shortPrompt", "gpuGQA">>,
          GqaReady, {})
<1>1. Passes("shortPrompt", {"dims", "kvGQA", "ropeGqa", "registry", "norms", "blob",
            "layers", "attention", "tested", "heads", "bound", "devGQA", "devFfn"}, {"layers",
            "heads", "bound", "devGQA", "devFfn"})
  BY DEF Passes, StepNames, Fits, Reads, Sets, HostPasses
<1>2. Passes("gpuGQA", {"layers", "heads", "bound", "devGQA", "devFfn"}, {})
  BY DEF Passes, StepNames, Fits, Reads, Sets, HostPasses
<1> QED
  BY <1>1, <1>2, Leads2 DEF GqaReady

LEMMA LanesGqa ==
    Leads(<<"columnsN", "gpuLanesGQA">>,
          GqaReady, {})
<1>1. Passes("columnsN", {"dims", "kvGQA", "ropeGqa", "registry", "norms", "blob",
            "layers", "attention", "tested", "heads", "bound", "devGQA", "devFfn"}, {"layers",
            "heads", "bound", "devGQA", "devFfn", "columns"})
  BY DEF Passes, StepNames, Fits, Reads, Sets, HostPasses
<1>2. Passes("gpuLanesGQA", {"layers", "heads", "bound", "devGQA", "devFfn",
            "columns"}, {})
  BY DEF Passes, StepNames, Fits, Reads, Sets, HostPasses
<1> QED
  BY <1>1, <1>2, Leads2 DEF GqaReady

LEMMA SlotsGqa ==
    Leads(<<"columnsSlots", "gpuLanesGQA">>,
          GqaReady, {})
<1>1. Passes("columnsSlots", {"dims", "kvGQA", "ropeGqa", "registry", "norms", "blob",
            "layers", "attention", "tested", "heads", "bound", "devGQA", "devFfn"}, {"layers",
            "heads", "bound", "devGQA", "devFfn", "columns"})
  BY DEF Passes, StepNames, Fits, Reads, Sets, HostPasses
<1>2. Passes("gpuLanesGQA", {"layers", "heads", "bound", "devGQA", "devFfn",
            "columns"}, {})
  BY DEF Passes, StepNames, Fits, Reads, Sets, HostPasses
<1> QED
  BY <1>1, <1>2, Leads2 DEF GqaReady

LEMMA SlotsCpu ==
    ASSUME job.attn = "GQA",
           SlotsAsked <= BatchMax
    PROVE  Leads(<<"slotRange", "laneRoom", "slotLanes">>,
                 GqaLoaded, {})
<1>1. Passes("slotRange", {"dims", "kvGQA", "ropeGqa", "registry", "norms", "blob",
            "layers", "attention", "tested", "heads"}, {"kvGQA", "ropeGqa", "blob", "layers",
            "heads"})
  BY DEF Passes, StepNames, Fits, Reads, Sets, HostPasses
<1>2. Passes("laneRoom", {"kvGQA", "ropeGqa", "blob", "layers", "heads"}, {"kvGQA",
            "ropeGqa", "blob", "layers", "heads"})
  BY DEF Passes, StepNames, Fits, Reads, Sets, HostPasses
<1>3. Passes("slotLanes", {"kvGQA", "ropeGqa", "blob", "layers", "heads"}, {})
  BY DEF Passes, StepNames, Fits, Reads, Sets, HostPasses, HostToken, HostAttention, Rotation, RowShape
<1> QED
  BY <1>1, <1>2, <1>3, Leads3 DEF GqaLoaded

LEMMA AttentionGqa ==
    Leads(<<"device", "config", "validate", "rowsGQA", "buffers", "yarn", "af", "f32",
          "bind", "deviceGQA", "gpuAttentionGQA">>,
          {}, {})
<1>1. Passes("device", {}, {})
  BY DEF Passes, StepNames, Fits, Reads, Sets, HostPasses
<1>2. Passes("config", {}, {"dims"})
  BY DEF Passes, StepNames, Fits, Reads, Sets, HostPasses
<1>3. Passes("validate", {"dims"}, {"dims", "valid"})
  BY DEF Passes, StepNames, Fits, Reads, Sets, HostPasses
<1>4. Passes("rowsGQA", {"dims", "valid"}, {"dims", "valid"})
  BY DEF Passes, StepNames, Fits, Reads, Sets, HostPasses
<1>5. Passes("buffers", {"dims", "valid"}, {"dims", "tables"})
  BY SizedRows DEF Passes, StepNames, Fits, Reads, Sets, HostPasses
<1>6. Passes("yarn", {"dims", "tables"}, {"dims"})
  BY DEF Passes, StepNames, Fits, Reads, Sets, HostPasses
<1>7. Passes("af", {"dims"}, {"dims", "registry", "blob"})
  BY DEF Passes, StepNames, Fits, Reads, Sets, HostPasses
<1>8. Passes("f32", {"dims", "registry", "blob"}, {"dims", "registry", "norms",
            "blob"})
  BY DEF Passes, StepNames, Fits, Reads, Sets, HostPasses
<1>9. Passes("bind", {"dims", "registry", "norms", "blob"}, {"dims", "norms",
            "bound"})
  BY DEF Passes, StepNames, Fits, Reads, Sets, HostPasses
<1>10. Passes("deviceGQA", {"dims", "norms", "bound"}, {"norms", "bound", "devGQA"})
  BY DEF Passes, StepNames, Fits, Reads, Sets, HostPasses
<1>11. Passes("gpuAttentionGQA", {"norms", "bound", "devGQA"}, {})
  BY DEF Passes, StepNames, Fits, Reads, Sets, HostPasses
<1> QED
  BY <1>1, <1>2, <1>3, <1>4, <1>5, <1>6, <1>7, <1>8, <1>9, <1>10, <1>11, Leads11

\* The mode without a configuration.
LEMMA GpuBindLeads ==
    Leads(<<"device", "af", "bind", "probe">>,
          {}, GpuTaken)
<1>1. Passes("device", {}, {})
  BY DEF Passes, StepNames, Fits, Reads, Sets, HostPasses
<1>2. Passes("af", {}, {"registry", "blob"})
  BY DEF Passes, StepNames, Fits, Reads, Sets, HostPasses
<1>3. Passes("bind", {"registry", "blob"}, {"registry", "blob", "bound"})
  BY DEF Passes, StepNames, Fits, Reads, Sets, HostPasses
<1>4. Passes("probe", {"registry", "blob", "bound"}, {"registry", "blob", "bound"})
  BY DEF Passes, StepNames, Fits, Reads, Sets, HostPasses
<1> QED
  BY <1>1, <1>2, <1>3, <1>4, Leads4 DEF GpuTaken

LEMMA GpuMirrorsLeads ==
    Leads(<<"depth", "mirrors", "mirrorTable", "bind", "mirrorProbe", "storeProbe">>,
          GpuTaken, GpuMirrored)
<1>1. Passes("depth", {"registry", "blob", "bound"}, {"registry", "blob", "depth"})
  BY DEF Passes, StepNames, Fits, Reads, Sets, HostPasses
<1>2. Passes("mirrors", {"registry", "blob", "depth"}, {"registry", "blob", "depth",
            "mirrors"})
  BY DEF Passes, StepNames, Fits, Reads, Sets, HostPasses
<1>3. Passes("mirrorTable", {"registry", "blob", "depth", "mirrors"}, {"registry",
            "blob", "depth", "mirrors", "mirrorTable"})
  BY DEF Passes, StepNames, Fits, Reads, Sets, HostPasses
<1>4. Passes("bind", {"registry", "blob", "depth", "mirrors", "mirrorTable"},
            {"registry", "blob", "bound", "depth", "mirrors", "mirrorTable"})
  BY DEF Passes, StepNames, Fits, Reads, Sets, HostPasses
<1>5. Passes("mirrorProbe", {"registry", "blob", "bound", "depth", "mirrors",
            "mirrorTable"}, {"registry", "blob", "bound", "depth", "mirrors"})
  BY DEF Passes, StepNames, Fits, Reads, Sets, HostPasses
<1>6. Passes("storeProbe", {"registry", "blob", "bound", "depth", "mirrors"},
            {"registry", "blob", "bound", "depth", "mirrors"})
  BY DEF Passes, StepNames, Fits, Reads, Sets, HostPasses
<1> QED
  BY <1>1, <1>2, <1>3, <1>4, <1>5, <1>6, Leads6 DEF GpuTaken, GpuMirrored

LEMMA GpuWidthsLeads ==
    Leads(<<"storeProbe", "expertProbe">>,
          GpuMirrored, GpuMirrored)
<1>1. Passes("storeProbe", {"registry", "blob", "bound", "depth", "mirrors"},
            {"registry", "blob", "bound", "depth", "mirrors"})
  BY DEF Passes, StepNames, Fits, Reads, Sets, HostPasses
<1>2. Passes("expertProbe", {"registry", "blob", "bound", "depth", "mirrors"},
            {"registry", "blob", "bound", "depth", "mirrors"})
  BY DEF Passes, StepNames, Fits, Reads, Sets, HostPasses
<1> QED
  BY <1>1, <1>2, Leads2 DEF GpuMirrored

LEMMA GpuPolicyLeads ==
    Leads(<<"testedLayers", "nq", "storeProbe">>,
          GpuMirrored, {})
<1>1. Passes("testedLayers", {"registry", "blob", "bound", "depth", "mirrors"},
            {"tested", "bound", "depth", "mirrors"})
  BY DEF Passes, StepNames, Fits, Reads, Sets, HostPasses
<1>2. Passes("nq", {"tested", "bound", "depth", "mirrors"}, {"bound", "depth",
            "mirrors"})
  BY DEF Passes, StepNames, Fits, Reads, Sets, HostPasses
<1>3. Passes("storeProbe", {"bound", "depth", "mirrors"}, {})
  BY DEF Passes, StepNames, Fits, Reads, Sets, HostPasses
<1> QED
  BY <1>1, <1>2, <1>3, Leads3 DEF GpuMirrored

\* The modes on the host, with the blobs.
LEMMA VerifyLoadMla ==
    ASSUME job.attn = "MLA"
    PROVE  Leads(<<"config", "validate", "rowsByKind", "slots", "buffers", "yarn",
                 "ropeGqaIfGqa">>,
                 {}, {"dims", "kvMLA", "yarn"})
<1>1. Passes("config", {}, {"dims"})
  BY DEF Passes, StepNames, Fits, Reads, Sets, HostPasses
<1>2. Passes("validate", {"dims"}, {"dims", "valid"})
  BY DEF Passes, StepNames, Fits, Reads, Sets, HostPasses
<1>3. Passes("rowsByKind", {"dims", "valid"}, {"dims", "valid", "rowsMLA"})
  BY DEF Passes, StepNames, Fits, Reads, Sets, HostPasses
<1>4. Passes("slots", {"dims", "valid", "rowsMLA"}, {"dims", "valid", "rowsMLA"})
  BY DEF Passes, StepNames, Fits, Reads, Sets, HostPasses
<1>5. Passes("buffers", {"dims", "valid", "rowsMLA"}, {"dims", "tables", "kvMLA"})
  BY SizedRows DEF Passes, StepNames, Fits, Reads, Sets, HostPasses
<1>6. Passes("yarn", {"dims", "tables", "kvMLA"}, {"dims", "tables", "kvMLA", "yarn"})
  BY DEF Passes, StepNames, Fits, Reads, Sets, HostPasses
<1>7. Passes("ropeGqaIfGqa", {"dims", "tables", "kvMLA", "yarn"}, {"dims", "kvMLA",
            "yarn"})
  BY DEF Passes, StepNames, Fits, Reads, Sets, HostPasses
<1> QED
  BY <1>1, <1>2, <1>3, <1>4, <1>5, <1>6, <1>7, Leads7

LEMMA VerifyLoadGqa ==
    ASSUME job.attn = "GQA"
    PROVE  Leads(<<"config", "validate", "rowsByKind", "slots", "buffers", "yarn",
                 "ropeGqaIfGqa">>,
                 {}, {"dims", "kvGQA", "ropeGqa"})
<1>1. Passes("config", {}, {"dims"})
  BY DEF Passes, StepNames, Fits, Reads, Sets, HostPasses
<1>2. Passes("validate", {"dims"}, {"dims", "valid"})
  BY DEF Passes, StepNames, Fits, Reads, Sets, HostPasses
<1>3. Passes("rowsByKind", {"dims", "valid"}, {"dims", "valid", "rowsGQA"})
  BY DEF Passes, StepNames, Fits, Reads, Sets, HostPasses
<1>4. Passes("slots", {"dims", "valid", "rowsGQA"}, {"dims", "valid", "rowsGQA"})
  BY DEF Passes, StepNames, Fits, Reads, Sets, HostPasses
<1>5. Passes("buffers", {"dims", "valid", "rowsGQA"}, {"dims", "tables", "kvGQA"})
  BY SizedRows DEF Passes, StepNames, Fits, Reads, Sets, HostPasses
<1>6. Passes("yarn", {"dims", "tables", "kvGQA"}, {"dims", "tables", "kvGQA"})
  BY DEF Passes, StepNames, Fits, Reads, Sets, HostPasses
<1>7. Passes("ropeGqaIfGqa", {"dims", "tables", "kvGQA"}, {"dims", "kvGQA",
            "ropeGqa"})
  BY DEF Passes, StepNames, Fits, Reads, Sets, HostPasses
<1> QED
  BY <1>1, <1>2, <1>3, <1>4, <1>5, <1>6, <1>7, Leads7

LEMMA BlobsLeads ==
    Leads(<<"af", "f32", "resolve">>,
          VerifyReady, HostReady)
<1>1. Passes("af", {"dims", RowShape[job.attn], Rotation[job.attn]}, {"dims",
            RowShape[job.attn], Rotation[job.attn], "registry", "blob"})
  BY DEF Passes, StepNames, Fits, Reads, Sets, HostPasses
<1>2. Passes("f32", {"dims", RowShape[job.attn], Rotation[job.attn], "registry",
            "blob"}, {"dims", RowShape[job.attn], Rotation[job.attn], "registry", "norms",
            "blob"})
  BY DEF Passes, StepNames, Fits, Reads, Sets, HostPasses
<1>3. Passes("resolve", {"dims", RowShape[job.attn], Rotation[job.attn], "registry",
            "norms", "blob"}, {"dims", RowShape[job.attn], Rotation[job.attn], "registry",
            "norms", "blob", "layers", "tested"})
  BY DEF Passes, StepNames, Fits, Reads, Sets, HostPasses
<1> QED
  BY <1>1, <1>2, <1>3, Leads3 DEF VerifyReady, HostReady

LEMMA BatchRangeLeads ==
    Leads(<<"batchRange">>,
          VerifyReady, VerifyReady)
<1>1. Passes("batchRange", {"dims", RowShape[job.attn], Rotation[job.attn]}, {"dims",
            RowShape[job.attn], Rotation[job.attn]})
  BY DEF Passes, StepNames, Fits, Reads, Sets, HostPasses
<1> QED
  BY <1>1, StepLeads DEF VerifyReady

LEMMA TokensHost ==
    ASSUME ~ (job.gate.n > Positions)
    PROVE  Leads(<<"heads", "prompt", "tokens">>,
                 HostReady, {})
<1>1. Passes("heads", {"dims", RowShape[job.attn], Rotation[job.attn], "registry",
            "norms", "blob", "layers", "tested"}, {RowShape[job.attn], Rotation[job.attn], "blob",
            "layers", "heads"})
  BY DEF Passes, StepNames, Fits, Reads, Sets, HostPasses
<1>2. Passes("prompt", {RowShape[job.attn], Rotation[job.attn], "blob", "layers",
            "heads"}, {RowShape[job.attn], Rotation[job.attn], "blob", "layers", "heads"})
  BY DEF Passes, StepNames, Fits, Reads, Sets, HostPasses
<1>3. Passes("tokens", {RowShape[job.attn], Rotation[job.attn], "blob", "layers",
            "heads"}, {})
  BY DEF Passes, StepNames, Fits, Reads, Sets, HostPasses, HostToken, HostAttention
<1> QED
  BY <1>1, <1>2, <1>3, Leads3 DEF HostReady

LEMMA BatchHost ==
    ASSUME ~ (job.gate.n > BatchMax)
    PROVE  Leads(<<"heads", "batch", "token">>,
                 HostReady, {})
<1>1. Passes("heads", {"dims", RowShape[job.attn], Rotation[job.attn], "registry",
            "norms", "blob", "layers", "tested"}, {RowShape[job.attn], Rotation[job.attn], "blob",
            "layers", "heads"})
  BY DEF Passes, StepNames, Fits, Reads, Sets, HostPasses
<1>2. Passes("batch", {RowShape[job.attn], Rotation[job.attn], "blob", "layers",
            "heads"}, {RowShape[job.attn], Rotation[job.attn], "blob", "layers", "heads"})
  BY DEF Passes, StepNames, Fits, Reads, Sets, HostPasses, HostToken, HostAttention
<1>3. Passes("token", {RowShape[job.attn], Rotation[job.attn], "blob", "layers",
            "heads"}, {})
  BY DEF Passes, StepNames, Fits, Reads, Sets, HostPasses, HostToken, HostAttention
<1> QED
  BY <1>1, <1>2, <1>3, Leads3 DEF HostReady

LEMMA LanesHost ==
    ASSUME job.gate.mode = "verifyLanes"
    PROVE  Leads(<<"heads", "token", "fixedLanes">>,
                 HostReady, {})
<1>1. Passes("heads", {"dims", RowShape[job.attn], Rotation[job.attn], "registry",
            "norms", "blob", "layers", "tested"}, {RowShape[job.attn], Rotation[job.attn], "blob",
            "layers", "heads"})
  BY DEF Passes, StepNames, Fits, Reads, Sets, HostPasses
<1>2. Passes("token", {RowShape[job.attn], Rotation[job.attn], "blob", "layers",
            "heads"}, {RowShape[job.attn], Rotation[job.attn], "blob", "layers", "heads"})
  BY DEF Passes, StepNames, Fits, Reads, Sets, HostPasses, HostToken, HostAttention
<1>3. Passes("fixedLanes", {RowShape[job.attn], Rotation[job.attn], "blob", "layers",
            "heads"}, {})
  BY DEF Passes, StepNames, Fits, Reads, Sets, HostPasses, HostToken, HostAttention
<1> QED
  BY <1>1, <1>2, <1>3, Leads3 DEF HostReady

LEMMA SlotsHost ==
    ASSUME SlotsAsked <= BatchMax
    PROVE  Leads(<<"heads", "nqHost", "slotRange", "laneRoom", "slotLanes">>,
                 HostReady, {})
<1>1. Passes("heads", {"dims", RowShape[job.attn], Rotation[job.attn], "registry",
            "norms", "blob", "layers", "tested"}, {RowShape[job.attn], Rotation[job.attn], "blob",
            "layers", "tested", "heads"})
  BY DEF Passes, StepNames, Fits, Reads, Sets, HostPasses
<1>2. Passes("nqHost", {RowShape[job.attn], Rotation[job.attn], "blob", "layers",
            "tested", "heads"}, {RowShape[job.attn], Rotation[job.attn], "blob", "layers",
            "heads"})
  BY DEF Passes, StepNames, Fits, Reads, Sets, HostPasses
<1>3. Passes("slotRange", {RowShape[job.attn], Rotation[job.attn], "blob", "layers",
            "heads"}, {RowShape[job.attn], Rotation[job.attn], "blob", "layers", "heads"})
  BY DEF Passes, StepNames, Fits, Reads, Sets, HostPasses
<1>4. Passes("laneRoom", {RowShape[job.attn], Rotation[job.attn], "blob", "layers",
            "heads"}, {RowShape[job.attn], Rotation[job.attn], "blob", "layers", "heads"})
  BY DEF Passes, StepNames, Fits, Reads, Sets, HostPasses
<1>5. Passes("slotLanes", {RowShape[job.attn], Rotation[job.attn], "blob", "layers",
            "heads"}, {})
  BY DEF Passes, StepNames, Fits, Reads, Sets, HostPasses, HostToken, HostAttention
<1> QED
  BY <1>1, <1>2, <1>3, <1>4, <1>5, Leads5 DEF HostReady

LEMMA DeviceBindHost ==
    Leads(<<"device", "bind">>,
          HostReady, HostReady)
<1>1. Passes("device", {"dims", RowShape[job.attn], Rotation[job.attn], "registry",
            "norms", "blob", "layers", "tested"}, {"dims", RowShape[job.attn], Rotation[job.attn],
            "registry", "norms", "blob", "layers", "tested"})
  BY DEF Passes, StepNames, Fits, Reads, Sets, HostPasses
<1>2. Passes("bind", {"dims", RowShape[job.attn], Rotation[job.attn], "registry",
            "norms", "blob", "layers", "tested"}, {"dims", RowShape[job.attn], Rotation[job.attn],
            "registry", "norms", "blob", "layers", "tested"})
  BY DEF Passes, StepNames, Fits, Reads, Sets, HostPasses
<1> QED
  BY <1>1, <1>2, Leads2 DEF HostReady

LEMMA DeviceGqaHost ==
    Leads(<<"deviceGQA", "layerConfig">>,
          HostReady, HostReady)
<1>1. Passes("deviceGQA", {"dims", RowShape[job.attn], Rotation[job.attn], "registry",
            "norms", "blob", "layers", "tested"}, {"dims", RowShape[job.attn], Rotation[job.attn],
            "registry", "norms", "blob", "layers", "tested"})
  BY DEF Passes, StepNames, Fits, Reads, Sets, HostPasses
<1>2. Passes("layerConfig", {"dims", RowShape[job.attn], Rotation[job.attn],
            "registry", "norms", "blob", "layers", "tested"}, {"dims", RowShape[job.attn],
            Rotation[job.attn], "registry", "norms", "blob", "layers", "tested"})
  BY DEF Passes, StepNames, Fits, Reads, Sets, HostPasses
<1> QED
  BY <1>1, <1>2, Leads2 DEF HostReady

\* The loaders of foreign formats.
LEMMA SafetensorsMla ==
    ASSUME job.attn = "MLA",
           ~ (job.gate.n > Positions)
    PROVE  Leads(<<"config", "validate", "rowsByKind", "buffers", "yarn", "ropeGqaIfGqa",
                 "store", "resolve", "heads", "prompt", "tokens">>,
                 {}, {})
<1>1. Passes("config", {}, {"dims"})
  BY DEF Passes, StepNames, Fits, Reads, Sets, HostPasses
<1>2. Passes("validate", {"dims"}, {"dims", "valid"})
  BY DEF Passes, StepNames, Fits, Reads, Sets, HostPasses
<1>3. Passes("rowsByKind", {"dims", "valid"}, {"dims", "valid", "rowsMLA"})
  BY DEF Passes, StepNames, Fits, Reads, Sets, HostPasses
<1>4. Passes("buffers", {"dims", "valid", "rowsMLA"}, {"dims", "tables", "kvMLA"})
  BY SizedRows DEF Passes, StepNames, Fits, Reads, Sets, HostPasses
<1>5. Passes("yarn", {"dims", "tables", "kvMLA"}, {"dims", "tables", "kvMLA", "yarn"})
  BY DEF Passes, StepNames, Fits, Reads, Sets, HostPasses
<1>6. Passes("ropeGqaIfGqa", {"dims", "tables", "kvMLA", "yarn"}, {"dims", "kvMLA",
            "yarn"})
  BY DEF Passes, StepNames, Fits, Reads, Sets, HostPasses
<1>7. Passes("store", {"dims", "kvMLA", "yarn"}, {"dims", "kvMLA", "yarn", "registry",
            "norms", "blob"})
  BY DEF Passes, StepNames, Fits, Reads, Sets, HostPasses
<1>8. Passes("resolve", {"dims", "kvMLA", "yarn", "registry", "norms", "blob"},
            {"kvMLA", "yarn", "registry", "norms", "blob", "layers"})
  BY DEF Passes, StepNames, Fits, Reads, Sets, HostPasses
<1>9. Passes("heads", {"kvMLA", "yarn", "registry", "norms", "blob", "layers"},
            {"kvMLA", "yarn", "blob", "layers", "heads"})
  BY DEF Passes, StepNames, Fits, Reads, Sets, HostPasses
<1>10. Passes("prompt", {"kvMLA", "yarn", "blob", "layers", "heads"}, {"kvMLA",
            "yarn", "blob", "layers", "heads"})
  BY DEF Passes, StepNames, Fits, Reads, Sets, HostPasses
<1>11. Passes("tokens", {"kvMLA", "yarn", "blob", "layers", "heads"}, {})
  BY DEF Passes, StepNames, Fits, Reads, Sets, HostPasses, HostToken, HostAttention, Rotation, RowShape
<1> QED
  BY <1>1, <1>2, <1>3, <1>4, <1>5, <1>6, <1>7, <1>8, <1>9, <1>10, <1>11, Leads11

LEMMA SafetensorsGqa ==
    ASSUME job.attn = "GQA",
           ~ (job.gate.n > Positions)
    PROVE  Leads(<<"config", "validate", "rowsByKind", "buffers", "yarn", "ropeGqaIfGqa",
                 "store", "resolve", "heads", "prompt", "tokens">>,
                 {}, {})
<1>1. Passes("config", {}, {"dims"})
  BY DEF Passes, StepNames, Fits, Reads, Sets, HostPasses
<1>2. Passes("validate", {"dims"}, {"dims", "valid"})
  BY DEF Passes, StepNames, Fits, Reads, Sets, HostPasses
<1>3. Passes("rowsByKind", {"dims", "valid"}, {"dims", "valid", "rowsGQA"})
  BY DEF Passes, StepNames, Fits, Reads, Sets, HostPasses
<1>4. Passes("buffers", {"dims", "valid", "rowsGQA"}, {"dims", "tables", "kvGQA"})
  BY SizedRows DEF Passes, StepNames, Fits, Reads, Sets, HostPasses
<1>5. Passes("yarn", {"dims", "tables", "kvGQA"}, {"dims", "tables", "kvGQA"})
  BY DEF Passes, StepNames, Fits, Reads, Sets, HostPasses
<1>6. Passes("ropeGqaIfGqa", {"dims", "tables", "kvGQA"}, {"dims", "kvGQA",
            "ropeGqa"})
  BY DEF Passes, StepNames, Fits, Reads, Sets, HostPasses
<1>7. Passes("store", {"dims", "kvGQA", "ropeGqa"}, {"dims", "kvGQA", "ropeGqa",
            "registry", "norms", "blob"})
  BY DEF Passes, StepNames, Fits, Reads, Sets, HostPasses
<1>8. Passes("resolve", {"dims", "kvGQA", "ropeGqa", "registry", "norms", "blob"},
            {"kvGQA", "ropeGqa", "registry", "norms", "blob", "layers"})
  BY DEF Passes, StepNames, Fits, Reads, Sets, HostPasses
<1>9. Passes("heads", {"kvGQA", "ropeGqa", "registry", "norms", "blob", "layers"},
            {"kvGQA", "ropeGqa", "blob", "layers", "heads"})
  BY DEF Passes, StepNames, Fits, Reads, Sets, HostPasses
<1>10. Passes("prompt", {"kvGQA", "ropeGqa", "blob", "layers", "heads"}, {"kvGQA",
            "ropeGqa", "blob", "layers", "heads"})
  BY DEF Passes, StepNames, Fits, Reads, Sets, HostPasses
<1>11. Passes("tokens", {"kvGQA", "ropeGqa", "blob", "layers", "heads"}, {})
  BY DEF Passes, StepNames, Fits, Reads, Sets, HostPasses, HostToken, HostAttention, Rotation, RowShape
<1> QED
  BY <1>1, <1>2, <1>3, <1>4, <1>5, <1>6, <1>7, <1>8, <1>9, <1>10, <1>11, Leads11

LEMMA GgufGqa ==
    ASSUME job.attn = "GQA",
           ~ (job.gate.n > Positions)
    PROVE  Leads(<<"config", "validate", "rowsGQA", "buffers", "yarn", "ropeGqa",
                 "yarnNeoxIfGptoss", "store", "resolve", "heads", "prompt", "tokens">>,
                 {}, {"kvGQA", "ropeGqa", "blob", "layers", "heads"})
<1>1. Passes("config", {}, {"dims"})
  BY DEF Passes, StepNames, Fits, Reads, Sets, HostPasses
<1>2. Passes("validate", {"dims"}, {"dims", "valid"})
  BY DEF Passes, StepNames, Fits, Reads, Sets, HostPasses
<1>3. Passes("rowsGQA", {"dims", "valid"}, {"dims", "valid", "rowsGQA"})
  BY DEF Passes, StepNames, Fits, Reads, Sets, HostPasses
<1>4. Passes("buffers", {"dims", "valid", "rowsGQA"}, {"dims", "tables", "kvGQA"})
  BY SizedRows DEF Passes, StepNames, Fits, Reads, Sets, HostPasses
<1>5. Passes("yarn", {"dims", "tables", "kvGQA"}, {"dims", "tables", "kvGQA"})
  BY DEF Passes, StepNames, Fits, Reads, Sets, HostPasses
<1>6. Passes("ropeGqa", {"dims", "tables", "kvGQA"}, {"dims", "tables", "kvGQA",
            "ropeGqa"})
  BY DEF Passes, StepNames, Fits, Reads, Sets, HostPasses
<1>7. Passes("yarnNeoxIfGptoss", {"dims", "tables", "kvGQA", "ropeGqa"}, {"dims",
            "kvGQA", "ropeGqa"})
  BY DEF Passes, StepNames, Fits, Reads, Sets, HostPasses
<1>8. Passes("store", {"dims", "kvGQA", "ropeGqa"}, {"dims", "kvGQA", "ropeGqa",
            "registry", "norms", "blob"})
  BY DEF Passes, StepNames, Fits, Reads, Sets, HostPasses
<1>9. Passes("resolve", {"dims", "kvGQA", "ropeGqa", "registry", "norms", "blob"},
            {"kvGQA", "ropeGqa", "registry", "norms", "blob", "layers"})
  BY DEF Passes, StepNames, Fits, Reads, Sets, HostPasses
<1>10. Passes("heads", {"kvGQA", "ropeGqa", "registry", "norms", "blob", "layers"},
            {"kvGQA", "ropeGqa", "blob", "layers", "heads"})
  BY DEF Passes, StepNames, Fits, Reads, Sets, HostPasses
<1>11. Passes("prompt", {"kvGQA", "ropeGqa", "blob", "layers", "heads"}, {"kvGQA",
            "ropeGqa", "blob", "layers", "heads"})
  BY DEF Passes, StepNames, Fits, Reads, Sets, HostPasses
<1>12. Passes("tokens", {"kvGQA", "ropeGqa", "blob", "layers", "heads"}, {"kvGQA",
            "ropeGqa", "blob", "layers", "heads"})
  BY DEF Passes, StepNames, Fits, Reads, Sets, HostPasses, HostToken, HostAttention, Rotation, RowShape
<1> QED
  BY <1>1, <1>2, <1>3, <1>4, <1>5, <1>6, <1>7, <1>8, <1>9, <1>10, <1>11, <1>12, Leads12

LEMMA GgufGptoss ==
    ASSUME job.attn = "GPTOSS",
           ~ (job.gate.n > Positions)
    PROVE  Leads(<<"config", "validate", "rowsGQA", "buffers", "yarn", "ropeGqa",
                 "yarnNeoxIfGptoss", "store", "resolve", "heads", "prompt", "tokens">>,
                 {}, {"kvGQA", "yarnNeox", "blob", "layers", "heads"})
<1>1. Passes("config", {}, {"dims"})
  BY DEF Passes, StepNames, Fits, Reads, Sets, HostPasses
<1>2. Passes("validate", {"dims"}, {"dims", "valid"})
  BY DEF Passes, StepNames, Fits, Reads, Sets, HostPasses
<1>3. Passes("rowsGQA", {"dims", "valid"}, {"dims", "valid", "rowsGQA"})
  BY DEF Passes, StepNames, Fits, Reads, Sets, HostPasses
<1>4. Passes("buffers", {"dims", "valid", "rowsGQA"}, {"dims", "tables", "kvGQA"})
  BY SizedRows DEF Passes, StepNames, Fits, Reads, Sets, HostPasses
<1>5. Passes("yarn", {"dims", "tables", "kvGQA"}, {"dims", "tables", "kvGQA"})
  BY DEF Passes, StepNames, Fits, Reads, Sets, HostPasses
<1>6. Passes("ropeGqa", {"dims", "tables", "kvGQA"}, {"dims", "tables", "kvGQA"})
  BY DEF Passes, StepNames, Fits, Reads, Sets, HostPasses
<1>7. Passes("yarnNeoxIfGptoss", {"dims", "tables", "kvGQA"}, {"dims", "kvGQA",
            "yarnNeox"})
  BY DEF Passes, StepNames, Fits, Reads, Sets, HostPasses
<1>8. Passes("store", {"dims", "kvGQA", "yarnNeox"}, {"dims", "kvGQA", "yarnNeox",
            "registry", "norms", "blob"})
  BY DEF Passes, StepNames, Fits, Reads, Sets, HostPasses
<1>9. Passes("resolve", {"dims", "kvGQA", "yarnNeox", "registry", "norms", "blob"},
            {"kvGQA", "yarnNeox", "registry", "norms", "blob", "layers"})
  BY DEF Passes, StepNames, Fits, Reads, Sets, HostPasses
<1>10. Passes("heads", {"kvGQA", "yarnNeox", "registry", "norms", "blob", "layers"},
            {"kvGQA", "yarnNeox", "blob", "layers", "heads"})
  BY DEF Passes, StepNames, Fits, Reads, Sets, HostPasses
<1>11. Passes("prompt", {"kvGQA", "yarnNeox", "blob", "layers", "heads"}, {"kvGQA",
            "yarnNeox", "blob", "layers", "heads"})
  BY DEF Passes, StepNames, Fits, Reads, Sets, HostPasses
<1>12. Passes("tokens", {"kvGQA", "yarnNeox", "blob", "layers", "heads"}, {"kvGQA",
            "yarnNeox", "blob", "layers", "heads"})
  BY DEF Passes, StepNames, Fits, Reads, Sets, HostPasses, HostToken, HostAttention, Rotation, RowShape
<1> QED
  BY <1>1, <1>2, <1>3, <1>4, <1>5, <1>6, <1>7, <1>8, <1>9, <1>10, <1>11, <1>12, Leads12

LEMMA CheckLeads ==
    ASSUME job.gate.mode = "ggufCheck",
           ~ (job.gate.n > BatchMax)
    PROVE  Leads(<<"raggedLane", "batch">>,
                 CheckReady, {})
<1>1. Passes("raggedLane", {RowShape[job.attn], Rotation[job.attn], "blob", "layers",
            "heads"}, {RowShape[job.attn], Rotation[job.attn], "blob", "layers", "heads"})
  BY DEF Passes, StepNames, Fits, Reads, Sets, HostPasses, HostToken, HostAttention
<1>2. Passes("batch", {RowShape[job.attn], Rotation[job.attn], "blob", "layers",
            "heads"}, {})
  BY DEF Passes, StepNames, Fits, Reads, Sets, HostPasses, HostToken, HostAttention
<1> QED
  BY <1>1, <1>2, Leads2 DEF CheckReady

\* The self tests of one layer and the probes of one file.
LEMMA SymLeads ==
    Leads(<<"config", "validate", "rowsGQA", "buffers">>,
          {}, {})
<1>1. Passes("config", {}, {"dims"})
  BY DEF Passes, StepNames, Fits, Reads, Sets, HostPasses
<1>2. Passes("validate", {"dims"}, {"dims", "valid"})
  BY DEF Passes, StepNames, Fits, Reads, Sets, HostPasses
<1>3. Passes("rowsGQA", {"dims", "valid"}, {"valid"})
  BY DEF Passes, StepNames, Fits, Reads, Sets, HostPasses
<1>4. Passes("buffers", {"valid"}, {})
  BY SizedRows DEF Passes, StepNames, Fits, Reads, Sets, HostPasses
<1> QED
  BY <1>1, <1>2, <1>3, <1>4, Leads4

LEMMA MqaLeads ==
    ASSUME job.attn = "GQA"
    PROVE  Leads(<<"config", "validate", "rowsGQA", "buffers", "ropeGqa", "ownLayer",
                 "attention">>,
                 {}, {})
<1>1. Passes("config", {}, {"dims"})
  BY DEF Passes, StepNames, Fits, Reads, Sets, HostPasses
<1>2. Passes("validate", {"dims"}, {"dims", "valid"})
  BY DEF Passes, StepNames, Fits, Reads, Sets, HostPasses
<1>3. Passes("rowsGQA", {"dims", "valid"}, {"dims", "valid", "rowsGQA"})
  BY DEF Passes, StepNames, Fits, Reads, Sets, HostPasses
<1>4. Passes("buffers", {"dims", "valid", "rowsGQA"}, {"dims", "tables", "kvGQA"})
  BY SizedRows DEF Passes, StepNames, Fits, Reads, Sets, HostPasses
<1>5. Passes("ropeGqa", {"dims", "tables", "kvGQA"}, {"kvGQA", "ropeGqa"})
  BY DEF Passes, StepNames, Fits, Reads, Sets, HostPasses
<1>6. Passes("ownLayer", {"kvGQA", "ropeGqa"}, {"kvGQA", "ropeGqa", "blob",
            "attention"})
  BY DEF Passes, StepNames, Fits, Reads, Sets, HostPasses
<1>7. Passes("attention", {"kvGQA", "ropeGqa", "blob", "attention"}, {})
  BY DEF Passes, StepNames, Fits, Reads, Sets, HostPasses, HostAttention, Rotation, RowShape
<1> QED
  BY <1>1, <1>2, <1>3, <1>4, <1>5, <1>6, <1>7, Leads7

LEMMA GqaLeads ==
    ASSUME job.attn = "GQA"
    PROVE  Leads(<<"config", "validate", "rowsGQA", "buffers", "yarn", "ropeGqa", "af",
                 "f32", "resolveAttention", "attention">>,
                 {}, {})
<1>1. Passes("config", {}, {"dims"})
  BY DEF Passes, StepNames, Fits, Reads, Sets, HostPasses
<1>2. Passes("validate", {"dims"}, {"dims", "valid"})
  BY DEF Passes, StepNames, Fits, Reads, Sets, HostPasses
<1>3. Passes("rowsGQA", {"dims", "valid"}, {"dims", "valid", "rowsGQA"})
  BY DEF Passes, StepNames, Fits, Reads, Sets, HostPasses
<1>4. Passes("buffers", {"dims", "valid", "rowsGQA"}, {"dims", "tables", "kvGQA"})
  BY SizedRows DEF Passes, StepNames, Fits, Reads, Sets, HostPasses
<1>5. Passes("yarn", {"dims", "tables", "kvGQA"}, {"dims", "tables", "kvGQA"})
  BY DEF Passes, StepNames, Fits, Reads, Sets, HostPasses
<1>6. Passes("ropeGqa", {"dims", "tables", "kvGQA"}, {"kvGQA", "ropeGqa"})
  BY DEF Passes, StepNames, Fits, Reads, Sets, HostPasses
<1>7. Passes("af", {"kvGQA", "ropeGqa"}, {"kvGQA", "ropeGqa", "registry", "blob"})
  BY DEF Passes, StepNames, Fits, Reads, Sets, HostPasses
<1>8. Passes("f32", {"kvGQA", "ropeGqa", "registry", "blob"}, {"kvGQA", "ropeGqa",
            "registry", "norms", "blob"})
  BY DEF Passes, StepNames, Fits, Reads, Sets, HostPasses
<1>9. Passes("resolveAttention", {"kvGQA", "ropeGqa", "registry", "norms", "blob"},
            {"kvGQA", "ropeGqa", "blob", "attention"})
  BY DEF Passes, StepNames, Fits, Reads, Sets, HostPasses
<1>10. Passes("attention", {"kvGQA", "ropeGqa", "blob", "attention"}, {})
  BY DEF Passes, StepNames, Fits, Reads, Sets, HostPasses, HostAttention, Rotation, RowShape
<1> QED
  BY <1>1, <1>2, <1>3, <1>4, <1>5, <1>6, <1>7, <1>8, <1>9, <1>10, Leads10

LEMMA GptossLeads ==
    ASSUME job.attn = "GPTOSS"
    PROVE  Leads(<<"config", "rowsGQA", "ownTable", "yarnNeox", "ownBuffers", "store",
                 "resolveAttention", "attention">>,
                 {}, {})
<1>1. Passes("config", {}, {"dims"})
  BY DEF Passes, StepNames, Fits, Reads, Sets, HostPasses
<1>2. Passes("rowsGQA", {"dims"}, {"dims", "rowsGQA"})
  BY DEF Passes, StepNames, Fits, Reads, Sets, HostPasses
<1>3. Passes("ownTable", {"dims", "rowsGQA"}, {"dims", "tables", "rowsGQA"})
  BY DEF Passes, StepNames, Fits, Reads, Sets, HostPasses
<1>4. Passes("yarnNeox", {"dims", "tables", "rowsGQA"}, {"dims", "rowsGQA",
            "yarnNeox"})
  BY DEF Passes, StepNames, Fits, Reads, Sets, HostPasses
<1>5. Passes("ownBuffers", {"dims", "rowsGQA", "yarnNeox"}, {"dims", "kvGQA",
            "yarnNeox"})
  BY SizedRows DEF Passes, StepNames, Fits, Reads, Sets, HostPasses
<1>6. Passes("store", {"dims", "kvGQA", "yarnNeox"}, {"kvGQA", "yarnNeox", "registry",
            "norms", "blob"})
  BY DEF Passes, StepNames, Fits, Reads, Sets, HostPasses
<1>7. Passes("resolveAttention", {"kvGQA", "yarnNeox", "registry", "norms", "blob"},
            {"kvGQA", "yarnNeox", "blob", "attention"})
  BY DEF Passes, StepNames, Fits, Reads, Sets, HostPasses
<1>8. Passes("attention", {"kvGQA", "yarnNeox", "blob", "attention"}, {})
  BY DEF Passes, StepNames, Fits, Reads, Sets, HostPasses, HostAttention, Rotation, RowShape
<1> QED
  BY <1>1, <1>2, <1>3, <1>4, <1>5, <1>6, <1>7, <1>8, Leads8

-----------------------------------------------------------------------------
(* What the modes check.                                                   *)

\* What stops a mode whatever it has set before.
Dooms(step) == Stops(step) /\ step # "laneRoom"
Undoomed(s) == \A i \in 1 .. Len(s) : ~ Dooms(s[i])

LEMMA UndoomedParts ==
    ASSUME NEW s \in Seq(StepNames), NEW t \in Seq(StepNames), Undoomed(s \o t)
    PROVE  Undoomed(s) /\ Undoomed(t)
<1>1. PICK m, n, u : m = Len(s) /\ n = Len(t) /\ u = s \o t
  OBVIOUS
<1>2. m \in Nat /\ n \in Nat /\ Len(u) = m + n
  BY <1>1
<1>3. /\ \A i \in 1 .. m : u[i] = s[i]
      /\ \A i \in 1 .. n : u[i + m] = t[i]
  BY <1>1, <1>2
<1>4. /\ \A i \in 1 .. m : i \in 1 .. m + n
      /\ \A i \in 1 .. n : i + m \in 1 .. m + n
  BY <1>2
<1> QED
  BY <1>1, <1>2, <1>3, <1>4 DEF Undoomed

LEMMA UndoomedThree ==
    ASSUME NEW s \in Seq(StepNames), NEW t \in Seq(StepNames), NEW u \in Seq(StepNames),
           Undoomed(s \o t \o u)
    PROVE  Undoomed(s) /\ Undoomed(t) /\ Undoomed(u)
<1>1. s \o t \in Seq(StepNames)
  OBVIOUS
<1>2. Undoomed(s \o t) /\ Undoomed(u)
  BY <1>1, UndoomedParts
<1> QED
  BY <1>2, UndoomedParts

LEMMA UndoomedFour ==
    ASSUME NEW s \in Seq(StepNames), NEW t \in Seq(StepNames), NEW u \in Seq(StepNames),
           NEW v \in Seq(StepNames), Undoomed(s \o t \o u \o v)
    PROVE  Undoomed(s) /\ Undoomed(t) /\ Undoomed(u) /\ Undoomed(v)
<1>1. s \o t \o u \in Seq(StepNames)
  OBVIOUS
<1>2. Undoomed(s \o t \o u) /\ Undoomed(v)
  BY <1>1, UndoomedParts
<1> QED
  BY <1>2, UndoomedThree

LEMMA ThreeLead ==
    ASSUME NEW s, NEW t, NEW u, NEW P, NEW Q, NEW R, NEW X,
           Leads(s, P, Q), Leads(t, Q, R), Leads(u, R, X)
    PROVE  Leads(s \o t \o u, P, X)
<1>1. Leads(s \o t, P, R)
  BY ChainLeads
<1> QED
  BY <1>1, ChainLeads

LEMMA FourLead ==
    ASSUME NEW s, NEW t, NEW u, NEW v, NEW P, NEW Q, NEW R, NEW X, NEW Y,
           Leads(s, P, Q), Leads(t, Q, R), Leads(u, R, X), Leads(v, X, Y)
    PROVE  Leads(s \o t \o u \o v, P, Y)
<1>1. Leads(s \o t \o u, P, X)
  BY ThreeLead
<1> QED
  BY <1>1, ChainLeads

\* The checks of a list, one by one.
LEMMA UndoomedSteps ==
    /\ \A a : Undoomed(<<a>>) => ~ Dooms(a)
    /\ \A a, b : Undoomed(<<a, b>>) => ~ Dooms(a) /\ ~ Dooms(b)
    /\ \A a, b, c : Undoomed(<<a, b, c>>) => ~ Dooms(a) /\ ~ Dooms(b) /\ ~ Dooms(c)
    /\ \A a, b, c, d : Undoomed(<<a, b, c, d>>) => ~ Dooms(a) /\ ~ Dooms(b) /\ ~ Dooms(c) /\ ~ Dooms(d)
  BY DEF Undoomed

\* What is known once a check has been passed.
LEMMA ChecksPassed ==
    /\ \A x \in {"onlyMLA", "attentionMLA", "gpuAttentionMLA", "gpuMLA", "gpuLanesMLA"} :
         ~ Dooms(x) => job.attn = "MLA"
    /\ \A x \in {"onlyGQA", "gpuAttentionGQA", "gpuGQA", "gpuLanesGQA"} :
         ~ Dooms(x) => job.attn = "GQA"
    /\ ~ Dooms("batchRange") => ~ (job.gate.n > BatchMax)
    /\ ~ Dooms("slotRange") => SlotsAsked <= BatchMax
    /\ ~ Dooms("prompt") => ~ (job.gate.n > Positions)
<1>1. BatchMax \in Nat
  BY GateBounds
<1>2. /\ job.gate.n \in 1 .. BatchMax => ~ (job.gate.n > BatchMax)
      /\ SlotsAsked \in 1 .. BatchMax => SlotsAsked <= BatchMax
  BY <1>1
<1> QED
  BY <1>2 DEF Dooms, Stops

-----------------------------------------------------------------------------
(* The modes.  A mode that asks for one kind of attention, here or by its  *)
(* tensors, ends on the other.                                             *)

LEMMA MlaLoads ==
    ASSUME NEW c \in {"any", "onlyMLA"}, job.attn = "MLA"
    PROVE  Leads(MlaLoad(c), {}, MlaLoaded)
<1>1. Leads(Kind(c), {"dims"}, {"dims"})
  <2>1. Leads(<<>>, {"dims"}, {"dims"})
    BY NothingLeads
  <2>2. Leads(<<"onlyMLA">>, {"dims"}, {"dims"})
    BY StepLeads DEF Passes, StepNames, Fits, Reads, Sets, HostPasses
  <2> QED
    BY <2>1, <2>2 DEF Kind
<1> QED
  BY <1>1, MlaLoadHead, MlaLoadRest, ThreeLead DEF MlaLoad

LEMMA BeforeConfig == Leads(<<"device">>, {}, {}) /\ Leads(<<"batchRange">>, {}, {})
  BY StepLeads DEF Passes, StepNames, Fits, Reads, Sets, HostPasses

LEMMA GqaBoundLeads == Leads(GqaBound, {}, GqaTaken)
  BY BeforeConfig, GqaLoadLeads, BindGqa, ThreeLead DEF GqaBound, GqaLoad

LEMMA MlaGateLeads == Undoomed(MlaGate) => Leads(MlaGate, {}, {})
<1> SUFFICES ASSUME Undoomed(MlaGate) PROVE Leads(MlaGate, {}, {})
  OBVIOUS
<1>1. <<"deviceMLA", "reference", "attentionMLA", "gpuAttentionMLA">> \in Seq(StepNames)
  BY DEF StepNames
<1>2. Undoomed(<<"deviceMLA", "reference", "attentionMLA", "gpuAttentionMLA">>)
  BY <1>1, BlocksAreLists, UndoomedParts DEF MlaGate, Steps
<1>3. job.attn = "MLA"
  BY <1>2, UndoomedSteps, ChecksPassed
<1> QED
  BY <1>3, MlaLoads, AttentionMla, ChainLeads DEF MlaGate

LEMMA FullGateLeads == Undoomed(FullGate) => Leads(FullGate, {}, {})
<1> SUFFICES ASSUME Undoomed(FullGate) PROVE Leads(FullGate, {}, {})
  OBVIOUS
<1>1. <<"reference", "token", "gpuMLA">> \in Seq(StepNames)
  BY DEF StepNames
<1>2. Undoomed(<<"reference", "token", "gpuMLA">>)
  BY <1>1, BlocksAreLists, UndoomedThree DEF FullGate, Steps
<1>3. job.attn = "MLA"
  BY <1>2, UndoomedSteps, ChecksPassed
<1> QED
  BY <1>3, MlaLoads, MlaDeviceLeads, TokenMla, ThreeLead DEF FullGate, MlaDevice

LEMMA FusedGateLeads == Undoomed(FusedGate) => Leads(FusedGate, {}, {})
<1> SUFFICES ASSUME Undoomed(FusedGate) PROVE Leads(FusedGate, {}, {})
  OBVIOUS
<1>1. <<"reference", "token", "gpuMLA">> \in Seq(StepNames)
  BY DEF StepNames
<1>2. Undoomed(<<"reference", "token", "gpuMLA">>)
  BY <1>1, BlocksAreLists, UndoomedThree DEF FusedGate, Steps
<1>3. job.attn = "MLA"
  BY <1>2, UndoomedSteps, ChecksPassed
<1> QED
  BY <1>3, MlaLoads, MlaDeviceLeads, TokenMla, ThreeLead DEF FusedGate, MlaDevice

LEMMA CbatchGateLeads == Undoomed(CbatchGate) => Leads(CbatchGate, {}, {})
<1> SUFFICES ASSUME Undoomed(CbatchGate) PROVE Leads(CbatchGate, {}, {})
  OBVIOUS
<1>1. <<"columnsN", "gpuLanesMLA">> \in Seq(StepNames)
  BY DEF StepNames
<1>2. Undoomed(<<"columnsN", "gpuLanesMLA">>)
  BY <1>1, BlocksAreLists, UndoomedThree DEF CbatchGate, Steps
<1>3. job.attn = "MLA"
  BY <1>2, UndoomedSteps, ChecksPassed
<1> QED
  BY <1>3, MlaLoads, MlaDeviceLeads, LanesMla, ThreeLead DEF CbatchGate, MlaDevice

LEMMA PrefillGateLeads == Undoomed(PrefillGate) => Leads(PrefillGate, {}, {})
<1> SUFFICES ASSUME Undoomed(PrefillGate) PROVE Leads(PrefillGate, {}, {})
  OBVIOUS
<1>1. <<"columnsN", "gpuLanesMLA">> \in Seq(StepNames)
  BY DEF StepNames
<1>2. Undoomed(<<"columnsN", "gpuLanesMLA">>)
  BY <1>1, BlocksAreLists, UndoomedThree DEF PrefillGate, Steps
<1>3. job.attn = "MLA"
  BY <1>2, UndoomedSteps, ChecksPassed
<1> QED
  BY <1>3, MlaLoads, MlaDeviceLeads, LanesMla, ThreeLead DEF PrefillGate, MlaDevice

LEMMA GenerateGateLeads == Undoomed(GenerateGate) => Leads(GenerateGate, {}, {})
<1> SUFFICES ASSUME Undoomed(GenerateGate) PROVE Leads(GenerateGate, {}, {})
  OBVIOUS
<1>1. <<"nq">> \in Seq(StepNames) /\ <<"shortPrompt", "gpuMLA">> \in Seq(StepNames)
  BY DEF StepNames
<1>2. Undoomed(<<"nq">>) /\ Undoomed(<<"shortPrompt", "gpuMLA">>)
  BY <1>1, BlocksAreLists, UndoomedFour DEF GenerateGate, Steps
<1>3. job.attn = "MLA"
  BY <1>2, UndoomedSteps, ChecksPassed
<1> QED
  BY <1>3, MlaLoads, NqMla, MlaDeviceLeads, GenerateMla, FourLead DEF GenerateGate, MlaDevice

LEMMA BatchGateLeads == Undoomed(BatchGate) => Leads(BatchGate, {}, {})
<1> SUFFICES ASSUME Undoomed(BatchGate) PROVE Leads(BatchGate, {}, {})
  OBVIOUS
<1>1. <<"batchRange">> \in Seq(StepNames) /\ <<"columns", "batch", "gpuMLA">> \in Seq(StepNames)
  BY DEF StepNames
<1>2. Undoomed(<<"batchRange">>) /\ Undoomed(<<"columns", "batch", "gpuMLA">>)
  BY <1>1, BlocksAreLists, UndoomedFour DEF BatchGate, Steps
<1>3. job.attn = "MLA" /\ ~ (job.gate.n > BatchMax)
  BY <1>2, UndoomedSteps, ChecksPassed
<1> QED
  BY <1>3, BeforeConfig, MlaLoads, MlaDeviceLeads, BatchMla, FourLead DEF BatchGate,
     MlaDevice

LEMMA OnlineGateLeads == Undoomed(OnlineGate) => Leads(OnlineGate, {}, {})
<1> SUFFICES ASSUME Undoomed(OnlineGate) PROVE Leads(OnlineGate, {}, {})
  OBVIOUS
<1>1. <<"nq", "slotRange">> \in Seq(StepNames) /\ <<"columnsSlots", "gpuLanesMLA">> \in
      Seq(StepNames)
  BY DEF StepNames
<1>2. Undoomed(<<"nq", "slotRange">>) /\ Undoomed(<<"columnsSlots", "gpuLanesMLA">>)
  BY <1>1, BlocksAreLists, UndoomedFour DEF OnlineGate, Steps
<1>3. job.attn = "MLA"
  BY <1>2, UndoomedSteps, ChecksPassed
<1> QED
  BY <1>3, MlaLoads, NqSlotsMla, MlaDeviceLeads, SlotsMla, FourLead DEF OnlineGate, MlaDevice

LEMMA GqaFusedGateLeads == Undoomed(GqaFusedGate) => Leads(GqaFusedGate, {}, {})
<1> SUFFICES ASSUME Undoomed(GqaFusedGate) PROVE Leads(GqaFusedGate, {}, {})
  OBVIOUS
<1>1. <<"prompt", "reference", "tokens", "gpuGQA">> \in Seq(StepNames)
  BY DEF StepNames
<1>2. Undoomed(<<"prompt", "reference", "tokens", "gpuGQA">>)
  BY <1>1, BlocksAreLists, UndoomedThree DEF GqaFusedGate, Steps
<1>3. job.attn = "GQA" /\ ~ (job.gate.n > Positions)
  BY <1>2, UndoomedSteps, ChecksPassed
<1> QED
  BY <1>3, GqaBoundLeads, GqaDeviceLeads, TokensGqa, ThreeLead DEF GqaFusedGate, GqaDevice

LEMMA GqaBatchGateLeads == Undoomed(GqaBatchGate) => Leads(GqaBatchGate, {}, {})
<1> SUFFICES ASSUME Undoomed(GqaBatchGate) PROVE Leads(GqaBatchGate, {}, {})
  OBVIOUS
<1>1. <<"batchRange">> \in Seq(StepNames) /\ <<"columns", "batch", "gpuGQA">> \in Seq(StepNames)
  BY DEF StepNames
<1>2. Undoomed(<<"batchRange">>) /\ Undoomed(<<"columns", "batch", "gpuGQA">>)
  BY <1>1, BlocksAreLists, UndoomedFour DEF GqaBatchGate, Steps
<1>3. job.attn = "GQA" /\ ~ (job.gate.n > BatchMax)
  BY <1>2, UndoomedSteps, ChecksPassed
<1> QED
  BY <1>3, BeforeConfig, GqaBoundLeads, GqaDeviceLeads, BatchGqa, FourLead DEF GqaBatchGate,
     GqaDevice

LEMMA GqaGenerateGateLeads == Undoomed(GqaGenerateGate) => Leads(GqaGenerateGate, {}, {})
<1> SUFFICES ASSUME Undoomed(GqaGenerateGate) PROVE Leads(GqaGenerateGate, {}, {})
  OBVIOUS
<1>1. <<"shortPrompt", "gpuGQA">> \in Seq(StepNames)
  BY DEF StepNames
<1>2. Undoomed(<<"shortPrompt", "gpuGQA">>)
  BY <1>1, BlocksAreLists, UndoomedThree DEF GqaGenerateGate, Steps
<1>3. job.attn = "GQA"
  BY <1>2, UndoomedSteps, ChecksPassed
<1> QED
  BY <1>3, GqaBoundLeads, GqaDeviceLeads, GenerateGqa, ThreeLead DEF GqaGenerateGate,
     GqaDevice

LEMMA GqaCbatchGateLeads == Undoomed(GqaCbatchGate) => Leads(GqaCbatchGate, {}, {})
<1> SUFFICES ASSUME Undoomed(GqaCbatchGate) PROVE Leads(GqaCbatchGate, {}, {})
  OBVIOUS
<1>1. <<"columnsN", "gpuLanesGQA">> \in Seq(StepNames)
  BY DEF StepNames
<1>2. Undoomed(<<"columnsN", "gpuLanesGQA">>)
  BY <1>1, BlocksAreLists, UndoomedThree DEF GqaCbatchGate, Steps
<1>3. job.attn = "GQA"
  BY <1>2, UndoomedSteps, ChecksPassed
<1> QED
  BY <1>3, GqaBoundLeads, GqaDeviceLeads, LanesGqa, ThreeLead DEF GqaCbatchGate, GqaDevice

LEMMA GqaPrefillGateLeads == Undoomed(GqaPrefillGate) => Leads(GqaPrefillGate, {}, {})
<1> SUFFICES ASSUME Undoomed(GqaPrefillGate) PROVE Leads(GqaPrefillGate, {}, {})
  OBVIOUS
<1>1. <<"columnsN", "gpuLanesGQA">> \in Seq(StepNames)
  BY DEF StepNames
<1>2. Undoomed(<<"columnsN", "gpuLanesGQA">>)
  BY <1>1, BlocksAreLists, UndoomedThree DEF GqaPrefillGate, Steps
<1>3. job.attn = "GQA"
  BY <1>2, UndoomedSteps, ChecksPassed
<1> QED
  BY <1>3, GqaBoundLeads, GqaDeviceLeads, LanesGqa, ThreeLead DEF GqaPrefillGate, GqaDevice

LEMMA GqaOnlineGateLeads == Undoomed(GqaOnlineGate) => Leads(GqaOnlineGate, {}, {})
<1> SUFFICES ASSUME Undoomed(GqaOnlineGate) PROVE Leads(GqaOnlineGate, {}, {})
  OBVIOUS
<1>1. <<"nq", "slotRange">> \in Seq(StepNames) /\ <<"columnsSlots", "gpuLanesGQA">> \in
      Seq(StepNames)
  BY DEF StepNames
<1>2. Undoomed(<<"nq", "slotRange">>) /\ Undoomed(<<"columnsSlots", "gpuLanesGQA">>)
  BY <1>1, BlocksAreLists, UndoomedFour DEF GqaOnlineGate, Steps
<1>3. job.attn = "GQA"
  BY <1>2, UndoomedSteps, ChecksPassed
<1> QED
  BY <1>3, GqaBoundLeads, NqSlotsGqa, GqaDeviceLeads, SlotsGqa, FourLead DEF GqaOnlineGate,
     GqaDevice

LEMMA GqaOnlineCpuGateLeads == Undoomed(GqaOnlineCpuGate) => Leads(GqaOnlineCpuGate, {}, {})
<1> SUFFICES ASSUME Undoomed(GqaOnlineCpuGate) PROVE Leads(GqaOnlineCpuGate, {}, {})
  OBVIOUS
<1>1. <<"slotRange", "laneRoom", "slotLanes">> \in Seq(StepNames)
  BY DEF StepNames
<1>2. Undoomed(GqaLoad) /\ Undoomed(<<"slotRange", "laneRoom", "slotLanes">>)
  BY <1>1, BlocksAreLists, UndoomedParts DEF GqaOnlineCpuGate, Steps
<1>3. ~ Dooms("onlyGQA") /\ ~ Dooms("slotRange")
  <2>1. 2 \in 1 .. Len(GqaLoad) /\ GqaLoad[2] = "onlyGQA"
    BY DEF GqaLoad
  <2> QED
    BY <1>2, <2>1, UndoomedSteps DEF Undoomed
<1>4. job.attn = "GQA" /\ SlotsAsked <= BatchMax
  BY <1>3, ChecksPassed
<1> QED
  BY <1>4, GqaLoadLeads, SlotsCpu, ChainLeads DEF GqaOnlineCpuGate, GqaLoad

LEMMA GpuModeLeads == Leads(GpuMode, {}, {})
<1>1. Leads(GpuModeBind, {}, GpuTaken)
  BY GpuBindLeads DEF GpuModeBind
<1>2. CASE job.correct
  <2>1. Leads(GpuModeMirrors \o GpuModeWidths \o GpuModePolicy, GpuTaken, {})
    BY GpuMirrorsLeads, GpuWidthsLeads, GpuPolicyLeads, ThreeLead
       DEF GpuModeMirrors, GpuModeWidths, GpuModePolicy
  <2> QED
    BY <1>1, <1>2, <2>1, ChainLeads DEF GpuMode
<1>3. CASE ~ job.correct
  <2>1. Leads(<<>>, GpuTaken, {})
    BY NothingLeads
  <2> QED
    BY <1>1, <1>3, <2>1, ChainLeads DEF GpuMode
<1> QED
  BY <1>2, <1>3

\* On the host both kinds of attention are at home.
LEMMA VerifyLoads ==
    ASSUME job.attn \in {"MLA", "GQA"}
    PROVE  Leads(VerifyLoad, {}, VerifyReady)
<1>1. CASE job.attn = "MLA"
  <2>1. VerifyReady = {"dims", "kvMLA", "yarn"}
    BY <1>1 DEF VerifyReady, Rotation, RowShape
  <2> QED
    BY <1>1, <2>1, VerifyLoadMla DEF VerifyLoad
<1>2. CASE job.attn = "GQA"
  <2>1. VerifyReady = {"dims", "kvGQA", "ropeGqa"}
    BY <1>2 DEF VerifyReady, Rotation, RowShape
  <2> QED
    BY <1>2, <2>1, VerifyLoadGqa DEF VerifyLoad
<1> QED
  BY <1>1, <1>2

LEMMA VerifyLeads ==
    ASSUME job.attn \in {"MLA", "GQA"}
    PROVE  /\ Undoomed(VerifyScalar) => Leads(VerifyScalar, {}, {})
           /\ Undoomed(VerifyBatch) => Leads(VerifyBatch, {}, {})
           /\ job.gate.mode = "verifyLanes" => Leads(VerifyLanes, {}, {})
           /\ Undoomed(VerifyOnline) => Leads(VerifyOnline, {}, {})
<1>1. ASSUME Undoomed(VerifyScalar) PROVE Leads(VerifyScalar, {}, {})
  <2>1. <<"heads", "prompt", "tokens">> \in Seq(StepNames)
    BY DEF StepNames
  <2>2. Undoomed(<<"heads", "prompt", "tokens">>)
    BY <1>1, <2>1, BlocksAreLists, UndoomedThree DEF VerifyScalar, Steps
  <2>3. ~ (job.gate.n > Positions)
    BY <2>2, UndoomedSteps, ChecksPassed
  <2> QED
    BY <2>3, VerifyLoads, BlobsLeads, TokensHost, ThreeLead DEF VerifyScalar, Blobs
<1>2. ASSUME Undoomed(VerifyBatch) PROVE Leads(VerifyBatch, {}, {})
  <2>1. <<"batchRange">> \in Seq(StepNames) /\ <<"heads", "batch", "token">> \in Seq(StepNames)
    BY DEF StepNames
  <2>2. Undoomed(<<"batchRange">>)
    BY <1>2, <2>1, BlocksAreLists, UndoomedFour DEF VerifyBatch, Steps
  <2>3. ~ (job.gate.n > BatchMax)
    BY <2>2, UndoomedSteps, ChecksPassed
  <2> QED
    BY <2>3, VerifyLoads, BatchRangeLeads, BlobsLeads, BatchHost, FourLead DEF VerifyBatch, Blobs
<1>3. ASSUME job.gate.mode = "verifyLanes" PROVE Leads(VerifyLanes, {}, {})
  BY <1>3, VerifyLoads, BlobsLeads, LanesHost, ThreeLead DEF VerifyLanes, Blobs
<1>4. ASSUME Undoomed(VerifyOnline) PROVE Leads(VerifyOnline, {}, {})
  <2>1. PICK t : t = <<"heads", "nqHost", "slotRange", "laneRoom", "slotLanes">>
    OBVIOUS
  <2>2. t \in Seq(StepNames) /\ 3 \in 1 .. Len(t) /\ t[3] = "slotRange"
    BY <2>1 DEF StepNames
  <2>3. Undoomed(t)
    BY <1>4, <2>1, <2>2, BlocksAreLists, UndoomedThree DEF VerifyOnline, Steps
  <2>4. SlotsAsked <= BatchMax
    BY <2>2, <2>3, ChecksPassed DEF Undoomed
  <2> QED
    BY <2>4, VerifyLoads, BlobsLeads, SlotsHost, ThreeLead DEF VerifyOnline, Blobs
<1> QED
  BY <1>1, <1>2, <1>3, <1>4

\* With the tensors bound to the device, and the device configured or not.
LEMMA VerifyBoundLeads ==
    ASSUME job.attn \in {"MLA", "GQA"}, NEW d \in {<<>>, GqaDevice}, Undoomed(VerifyBound(d))
    PROVE  Leads(VerifyBound(d), {}, {})
<1>1. PICK s, t : /\ s = (IF job.attn = "GQA" THEN <<"device", "bind">> \o d ELSE <<>>)
                  /\ t = <<"heads", "prompt", "tokens">>
  OBVIOUS
<1>2. Leads(d, HostReady, HostReady)
  <2>1. Leads(<<>>, HostReady, HostReady)
    BY NothingLeads
  <2>2. Leads(GqaDevice, HostReady, HostReady)
    BY DeviceGqaHost DEF GqaDevice
  <2> QED
    BY <2>1, <2>2
<1>3. Leads(s, HostReady, HostReady)
  <2>1. Leads(<<>>, HostReady, HostReady)
    BY NothingLeads
  <2>2. Leads(<<"device", "bind">> \o d, HostReady, HostReady)
    BY <1>2, DeviceBindHost, ChainLeads
  <2> QED
    BY <1>1, <2>1, <2>2
<1>4. s \in Seq(StepNames) /\ t \in Seq(StepNames)
  BY <1>1, <1>3 DEF Leads, StepNames
<1>5. VerifyBound(d) = VerifyLoad \o Blobs \o s \o t
  BY <1>1 DEF VerifyBound
<1>6. Undoomed(t)
  BY <1>4, <1>5, BlocksAreLists, UndoomedFour DEF Steps
<1>7. ~ (job.gate.n > Positions)
  BY <1>1, <1>6, UndoomedSteps, ChecksPassed
<1>8. Leads(t, HostReady, {})
  BY <1>1, <1>7, TokensHost
<1>9. Leads(VerifyLoad, {}, VerifyReady) /\ Leads(Blobs, VerifyReady, HostReady)
  BY VerifyLoads, BlobsLeads DEF Blobs
<1> QED
  BY <1>3, <1>5, <1>8, <1>9, FourLead

LEMMA SafetensorsGateLeads ==
    ASSUME job.attn \in {"MLA", "GQA"}, Undoomed(SafetensorsGate)
    PROVE  Leads(SafetensorsGate, {}, {})
<1>1. 10 \in 1 .. Len(SafetensorsGate) /\ SafetensorsGate[10] = "prompt"
  BY DEF SafetensorsGate
<1>2. ~ (job.gate.n > Positions)
  BY <1>1, ChecksPassed DEF Undoomed
<1> QED
  BY <1>2, SafetensorsMla, SafetensorsGqa DEF SafetensorsGate

LEMMA GgufGateReady ==
    ASSUME job.attn \in {"GQA", "GPTOSS"}, Undoomed(GgufGate)
    PROVE  ~ (job.gate.n > Positions) /\ Leads(GgufGate, {}, CheckReady)
<1>1. 11 \in 1 .. Len(GgufGate) /\ GgufGate[11] = "prompt"
  BY DEF GgufGate
<1>2. ~ (job.gate.n > Positions)
  BY <1>1, ChecksPassed DEF Undoomed
<1>3. CASE job.attn = "GQA"
  <2>1. CheckReady = {"kvGQA", "ropeGqa", "blob", "layers", "heads"}
    BY <1>3 DEF CheckReady, Rotation, RowShape
  <2> QED
    BY <1>2, <1>3, <2>1, GgufGqa DEF GgufGate
<1>4. CASE job.attn = "GPTOSS"
  <2>1. CheckReady = {"kvGQA", "yarnNeox", "blob", "layers", "heads"}
    BY <1>4 DEF CheckReady, Rotation, RowShape
  <2> QED
    BY <1>2, <1>4, <2>1, GgufGptoss DEF GgufGate
<1> QED
  BY <1>2, <1>3, <1>4

LEMMA GgufLeads ==
    ASSUME job.attn \in {"GQA", "GPTOSS"}, job.gate.n \in Int
    PROVE  /\ Undoomed(GgufGate) => Leads(GgufGate, {}, {})
           /\ Undoomed(GgufCheck) /\ job.gate.mode = "ggufCheck" => Leads(GgufCheck, {}, {})
<1>1. ASSUME Undoomed(GgufGate) PROVE Leads(GgufGate, {}, {})
  BY <1>1, GgufGateReady DEF Leads
<1>2. ASSUME Undoomed(GgufCheck), job.gate.mode = "ggufCheck" PROVE Leads(GgufCheck, {}, {})
  <2>1. <<"raggedLane", "batch">> \in Seq(StepNames) /\ GgufGate \in Seq(StepNames)
    BY DEF StepNames, GgufGate
  <2>2. Undoomed(GgufGate)
    BY <1>2, <2>1, UndoomedParts DEF GgufCheck
  <2>3. ~ (job.gate.n > BatchMax)
    BY <2>2, GgufGateReady, GateBounds
  <2> QED
    BY <1>2, <2>2, <2>3, GgufGateReady, CheckLeads, ChainLeads DEF GgufCheck
<1> QED
  BY <1>1, <1>2

\* Every mode that passes its checks computes only with what it has set.
LEMMA ModesLead ==
    ASSUME job \in Jobs, job.source = "gate", Undoomed(Gates[job.gate.mode])
    PROVE  Leads(Gates[job.gate.mode], {}, {})
<1>1. PICK mode, attn : mode = job.gate.mode /\ attn = job.attn
  OBVIOUS
<1>2. mode \in GateModes /\ attn \in KindsOf(mode) /\ job.gate.n \in Int
  BY <1>1, ModeAssumption
<1>3. CASE mode \in {"mla", "full", "fused", "generate", "batch", "cbatch", "prefill", "online"}
  <2>1. CASE mode = "mla"
    <3>1. Gates[job.gate.mode] = MlaGate
      BY <1>1, <2>1 DEF Gates
    <3> QED
      BY <3>1, MlaGateLeads
  <2>2. CASE mode = "full"
    <3>1. Gates[job.gate.mode] = FullGate
      BY <1>1, <2>2 DEF Gates
    <3> QED
      BY <3>1, FullGateLeads
  <2>3. CASE mode = "fused"
    <3>1. Gates[job.gate.mode] = FusedGate
      BY <1>1, <2>3 DEF Gates
    <3> QED
      BY <3>1, FusedGateLeads
  <2>4. CASE mode = "generate"
    <3>1. Gates[job.gate.mode] = GenerateGate
      BY <1>1, <2>4 DEF Gates
    <3> QED
      BY <3>1, GenerateGateLeads
  <2>5. CASE mode = "batch"
    <3>1. Gates[job.gate.mode] = BatchGate
      BY <1>1, <2>5 DEF Gates
    <3> QED
      BY <3>1, BatchGateLeads
  <2>6. CASE mode = "cbatch"
    <3>1. Gates[job.gate.mode] = CbatchGate
      BY <1>1, <2>6 DEF Gates
    <3> QED
      BY <3>1, CbatchGateLeads
  <2>7. CASE mode = "prefill"
    <3>1. Gates[job.gate.mode] = PrefillGate
      BY <1>1, <2>7 DEF Gates
    <3> QED
      BY <3>1, PrefillGateLeads
  <2>8. CASE mode = "online"
    <3>1. Gates[job.gate.mode] = OnlineGate
      BY <1>1, <2>8 DEF Gates
    <3> QED
      BY <3>1, OnlineGateLeads
  <2> QED
    BY <1>3, <2>1, <2>2, <2>3, <2>4, <2>5, <2>6, <2>7, <2>8
<1>4. CASE mode \in {"gqaFused", "gqaBatch", "gqaGenerate", "gqaCbatch", "gqaPrefill", "gqaOnline",
                     "gqaOnlineCpu"}
  <2>1. CASE mode = "gqaFused"
    <3>1. Gates[job.gate.mode] = GqaFusedGate
      BY <1>1, <2>1 DEF Gates
    <3> QED
      BY <3>1, GqaFusedGateLeads
  <2>2. CASE mode = "gqaBatch"
    <3>1. Gates[job.gate.mode] = GqaBatchGate
      BY <1>1, <2>2 DEF Gates
    <3> QED
      BY <3>1, GqaBatchGateLeads
  <2>3. CASE mode = "gqaGenerate"
    <3>1. Gates[job.gate.mode] = GqaGenerateGate
      BY <1>1, <2>3 DEF Gates
    <3> QED
      BY <3>1, GqaGenerateGateLeads
  <2>4. CASE mode = "gqaCbatch"
    <3>1. Gates[job.gate.mode] = GqaCbatchGate
      BY <1>1, <2>4 DEF Gates
    <3> QED
      BY <3>1, GqaCbatchGateLeads
  <2>5. CASE mode = "gqaPrefill"
    <3>1. Gates[job.gate.mode] = GqaPrefillGate
      BY <1>1, <2>5 DEF Gates
    <3> QED
      BY <3>1, GqaPrefillGateLeads
  <2>6. CASE mode = "gqaOnline"
    <3>1. Gates[job.gate.mode] = GqaOnlineGate
      BY <1>1, <2>6 DEF Gates
    <3> QED
      BY <3>1, GqaOnlineGateLeads
  <2>7. CASE mode = "gqaOnlineCpu"
    <3>1. Gates[job.gate.mode] = GqaOnlineCpuGate
      BY <1>1, <2>7 DEF Gates
    <3> QED
      BY <3>1, GqaOnlineCpuGateLeads
  <2> QED
    BY <1>4, <2>1, <2>2, <2>3, <2>4, <2>5, <2>6, <2>7
<1>5. CASE mode \in {"gqaGpu", "gpu"}
  BY <1>1, <1>5, AttentionGqa, GpuModeLeads DEF Gates, GqaGpuGate
<1>6. CASE mode \in {"verify", "verifyBatch", "verifyLanes", "verifyOnline", "bindOnly", "bindConfig",
                     "safetensors"}
  <2>1. job.attn \in {"MLA", "GQA"}
    BY <1>1, <1>2, <1>6 DEF KindsOf
  <2>2. CASE mode \in {"bindOnly", "bindConfig"}
    BY <1>1, <2>1, <2>2, VerifyBoundLeads DEF Gates
  <2>3. CASE mode \in {"verify", "verifyBatch", "verifyLanes", "verifyOnline"}
    <3>1. /\ Gates["verify"] = VerifyScalar /\ Gates["verifyBatch"] = VerifyBatch
          /\ Gates["verifyLanes"] = VerifyLanes /\ Gates["verifyOnline"] = VerifyOnline
      BY DEF Gates
    <3> QED
      BY <1>1, <2>1, <2>3, <3>1, VerifyLeads
  <2>4. CASE mode = "safetensors"
    BY <1>1, <2>1, <2>4, SafetensorsGateLeads DEF Gates
  <2> QED
    BY <1>6, <2>2, <2>3, <2>4
<1>7. CASE mode \in {"gguf", "ggufCheck"}
  <2>1. job.attn \in {"GQA", "GPTOSS"}
    BY <1>1, <1>2, <1>7 DEF KindsOf
  <2> QED
    BY <1>1, <1>2, <1>7, <2>1, GgufLeads DEF Gates
<1>8. CASE mode \in {"sym", "mqa", "gqa", "olmoe"}
  <2>1. job.attn = "GQA"
    BY <1>1, <1>2, <1>8 DEF KindsOf
  <2> QED
    BY <1>1, <1>8, <2>1, SymLeads, MqaLeads, GqaLeads
       DEF Gates, SymSelftest, MqaSelftest, GqaSelftest, OlmoeSelftest
<1>9. CASE mode = "gptoss"
  <2>1. job.attn = "GPTOSS"
    BY <1>1, <1>2, <1>9 DEF KindsOf
  <2> QED
    BY <1>1, <1>9, <2>1, GptossLeads DEF Gates, GptossAttention
<1> QED
  BY <1>2, <1>3, <1>4, <1>5, <1>6, <1>7, <1>8, <1>9 DEF GateModes

\* The room of the lanes, and what is left to do: unless a check will still
\* stop the mode, the rest computes only with what has been set.
GateInv ==
  job.source = "gate" =>
    /\ job \in Jobs /\ setup.todo \in Seq(StepNames)
    /\ \/ setup.cap = BatchMax
       \/ setup.cap = job.gate.slots /\ job.gate.slots \in 1 .. BatchMax
    /\ Undoomed(setup.todo) =>
         /\ setup.unset = {} /\ setup.over \subseteq Unsized
         /\ Leads(setup.todo, setup.have, {})

LEMMA GateInvInit == Init => GateInv
<1> SUFFICES ASSUME Init, job.source = "gate" PROVE GateInv
  BY DEF GateInv
<1>1. /\ job \in Jobs /\ setup.todo = Gates[job.gate.mode] /\ setup.cap = BatchMax
      /\ setup.have = {} /\ setup.unset = {} /\ setup.over = {}
  BY DEF Init, GateInit
<1>2. setup.todo \in Seq(StepNames)
  BY <1>1, ModeAssumption, GatesHaveSteps DEF Steps
<1>3. Undoomed(setup.todo) => Leads(setup.todo, setup.have, {})
  BY <1>1, ModesLead
<1> QED
  BY <1>1, <1>2, <1>3 DEF GateInv

\* A pass that its mode has looked at, or that finds all the lanes there are,
\* stays within the buffers.
LEMMA PassesFit ==
    ASSUME NEW x, Fits(x), job \in Jobs, job.source = "gate",
           \/ setup.cap = BatchMax
           \/ setup.cap = job.gate.slots /\ job.gate.slots \in 1 .. BatchMax
    PROVE  Overruns(x) \subseteq Unsized
<1>1. job.gate.n \in Int /\ job.gate.slots \in Int
  BY ModeAssumption
<1>2. x = "slotLanes" => ~ (SlotsAsked > setup.cap)
  BY <1>1, GateBounds DEF Fits, SlotsAsked
<1>3. x = "fixedLanes" /\ CbatchN > setup.cap => Unsized = {"lanes"}
  <2>1. SUFFICES ASSUME x = "fixedLanes", CbatchN > setup.cap
                 PROVE  job.gate.slots \in 1 .. CbatchN - 1
    BY DEF Fits, Unsized
  <2> QED
    BY <1>1, <2>1, GateBounds
<1>4. x = "raggedLane" /\ job.gate.n > LanePositions => Unsized = {"lane"}
  BY DEF Fits, Unsized
<1>5. CASE x = "slotLanes"
  BY <1>2, <1>5 DEF Overruns
<1>6. CASE x = "fixedLanes"
  BY <1>3, <1>6 DEF Overruns
<1>7. CASE x = "raggedLane"
  BY <1>4, <1>7 DEF Overruns
<1>8. CASE x \notin {"slotLanes", "fixedLanes", "raggedLane"}
  BY <1>8 DEF Overruns, Fits
<1> QED
  BY <1>5, <1>6, <1>7, <1>8

\* What a mode reads, sets and checks does not change while it runs.
LEMMA ModeStays ==
    ASSUME job' = job
    PROVE  /\ \A s : Undoomed(s)' <=> Undoomed(s)
           /\ \A s, P, Q : Leads(s, P, Q)' <=> Leads(s, P, Q)
           /\ Unsized' = Unsized
<1>1. \A x : Dooms(x)' <=> Dooms(x)
  BY DEF Dooms, Stops, SlotsAsked
<1>2. \A x : Fits(x)' <=> Fits(x)
  BY DEF Fits, SlotsAsked
<1>3. \A x : Reads(x)' = Reads(x)
  BY DEF Reads, HostPasses, HostToken, HostAttention, Rotation, RowShape
<1>4. \A x, P : Sets(x, P)' = Sets(x, P)
  BY DEF Sets, Sized
<1>5. \A s : Undoomed(s)' <=> Undoomed(s)
  BY <1>1 DEF Undoomed
<1>6. \A A, s : Annotates(A, s)' <=> Annotates(A, s)
  BY <1>2, <1>3, <1>4 DEF Annotates
<1>7. \A s, P, Q : Leads(s, P, Q)' <=> Leads(s, P, Q)
  BY <1>6 DEF Leads
<1>8. Unsized' = Unsized
  BY DEF Unsized
<1> QED
  BY <1>5, <1>7, <1>8

LEMMA GateInvStep ==
    ASSUME GateInv, SetupInv, GateStep
    PROVE  GateInv'
<1>1. job' = job /\ pc = "gate" /\ setup.todo # <<>>
  BY DEF GateStep, SetupInv
<1> SUFFICES ASSUME job.source = "gate" PROVE GateInv'
  BY <1>1 DEF GateInv
<1>2. PICK x, rest : x = Head(setup.todo) /\ rest = Tail(setup.todo)
  OBVIOUS
<1>3. CASE Stops(x)
  <2>1. setup' = setup
    BY <1>2, <1>3 DEF GateStep
  <2> QED
    BY <1>1, <2>1, ModeStays DEF GateInv
<1>4. CASE ~ Stops(x)
  <2>1. setup' = [todo  |-> rest,
                  have  |-> setup.have \cup Sets(x, setup.have),
                  cap   |-> Room(x),
                  unset |-> setup.unset \cup (Reads(x) \ setup.have),
                  over  |-> setup.over \cup Overruns(x)]
    BY <1>2, <1>4 DEF GateStep
  <2>2. /\ setup'.todo = rest /\ setup'.have = setup.have \cup Sets(x, setup.have)
        /\ setup'.cap = Room(x) /\ setup'.unset = setup.unset \cup (Reads(x) \ setup.have)
        /\ setup'.over = setup.over \cup Overruns(x)
    BY <2>1
  <2>3. job \in Jobs /\ setup.todo \in Seq(StepNames)
    BY DEF GateInv
  <2>4. rest \in Seq(StepNames)
    BY <1>1, <1>2, <2>3
  <2>5. \/ setup'.cap = BatchMax
        \/ setup'.cap = job.gate.slots /\ job.gate.slots \in 1 .. BatchMax
    BY <2>2 DEF GateInv, Room
  <2>6. ASSUME Undoomed(rest)
        PROVE  /\ setup'.unset = {} /\ setup'.over \subseteq Unsized
               /\ Leads(rest, setup'.have, {})
    <3>1. Undoomed(setup.todo)
      <4>1. ~ Dooms(x)
        BY <1>4 DEF Dooms
      <4>2. PICK n, s : n = Len(s) /\ s = setup.todo
        OBVIOUS
      <4>3. /\ n \in Nat \ {0} /\ Len(rest) = n - 1 /\ s[1] = x
            /\ \A i \in 2 .. n : s[i] = rest[i - 1]
        BY <1>1, <1>2, <2>3, <4>2
      <4>4. \A i \in 1 .. n : i = 1 \/ (i \in 2 .. n /\ i - 1 \in 1 .. n - 1)
        BY <4>3
      <4> QED
        BY <2>6, <4>1, <4>2, <4>3, <4>4 DEF Undoomed
    <3>2. /\ setup.unset = {} /\ setup.over \subseteq Unsized
          /\ Leads(setup.todo, setup.have, {})
      BY <3>1 DEF GateInv
    <3>3. /\ Fits(x) /\ Reads(x) \subseteq setup.have
          /\ Leads(rest, setup.have \cup Sets(x, setup.have), {})
      BY <1>1, <1>2, <3>2, FirstLeads
    <3>4. Overruns(x) \subseteq Unsized
      BY <2>3, <3>3, PassesFit DEF GateInv
    <3> QED
      BY <2>2, <3>2, <3>3, <3>4
  <2> QED
    BY <1>1, <2>2, <2>3, <2>4, <2>5, <2>6, ModeStays DEF GateInv
<1> QED
  BY <1>3, <1>4

LEMMA GateInvNext == TablesInv /\ SetupInv /\ GateInv /\ [Next]_vars => GateInv'
<1> SUFFICES ASSUME TablesInv, SetupInv, GateInv, [Next]_vars PROVE GateInv'
  OBVIOUS
<1>1. CASE GateStep
  BY <1>1, GateInvStep
<1>2. CASE ~ GateStep
  <2>1. setup' = setup
    BY <1>2 DEF Next, Ended, vars, gateVars
  <2>2. job' = job
    BY JobStays
  <2> QED
    BY <2>1, <2>2, ModeStays DEF GateInv
<1> QED
  BY <1>1, <1>2

\* A gate that prints a verdict has set all it computed with, in every mode and
\* for every kind of attention, and stayed within its buffers, whatever the
\* bounds and the numbers it is given (the copies of the setup of
\* qwen_infer.c:11926-11936, 15543-15556, 10486-10496 and their kin).
THEOREM GatesComputeWithWhatTheySet == Spec => []GateResultsAreComputed
<1>1. Init => TablesInv /\ SetupInv /\ GateInv
  BY TablesInit, SetupInit, GateInvInit
<1>2. TablesInv /\ SetupInv /\ GateInv /\ [Next]_vars => (TablesInv /\ SetupInv /\ GateInv)'
  BY TablesNext, SetupStep, GateInvNext
<1>3. SetupInv /\ GateInv => GateResultsAreComputed
  <2> SUFFICES ASSUME SetupInv, GateInv, pc = "done", job.source = "gate"
               PROVE  setup.unset = {} /\ setup.over \subseteq Unsized
    BY DEF GateResultsAreComputed
  <2>1. Undoomed(setup.todo)
    BY DEF SetupInv, Undoomed
  <2> QED
    BY <2>1 DEF GateInv
<1> QED
  BY <1>1, <1>2, <1>3, PTL DEF Spec
=============================================================================
