---------------------------- MODULE TensorTables ----------------------------
(***************************************************************************)
(* Which tensor each pass of the MoE engine multiplies with.               *)
(*                                                                         *)
(* A loader registers the tensors of a model by name and the layer table   *)
(* g_moe_lt (base) is resolved from the names.  A run that corrects near   *)
(* ties also registers 16-bit mirrors (g_moe_lt_hi, hi), possibly lazy     *)
(* ones whose data is read from the checkpoint for a replay and dropped    *)
(* afterwards, and possibly only for listed combinations (g_moe_lt_sel,    *)
(* sel).  The table tokens are served from (g_moe_lt_active, active)       *)
(* starts as base and follows the nQ lines read at startup and the         *)
(* promotion and demotion files polled between requests.  A replay points  *)
(* g_moe_lt_cur at another table and points it back.                       *)
(***************************************************************************)
EXTENDS TensorStore, Integers, FiniteSets, Ddmin

CONSTANTS
  NL,         \* layers (MOE_NL)
  MaxAf,      \* tensors the registry holds (MOE_MAX_AF_TENSORS)
  Tokens,     \* tokens of a request
  Requests,   \* requests of a serving run
  Jobs        \* the runs considered: model, options and files

ASSUME TableBounds == {NL, MaxAf, Tokens, Requests} \subseteq Nat

Layers == 0 .. NL - 1

\* The vocabulary of roles; of the gate, up and down projections of a part of
\* the feed-forward network one stands for the three.
RoleOrder == << "q_proj", "kv_a_proj", "kv_b_proj", "o_proj", "k_proj", "v_proj",
                "dense", "shared", "expert", "embed_tokens", "lm_head" >>
Roles == {RoleOrder[i] : i \in DOMAIN RoleOrder}
GlobalRoles == {"embed_tokens", "lm_head"}

\* A slot of a layer table, or one of the two global tensors at layer 0.
Slots == {s \in Roles \X Layers : s[1] \in GlobalRoles => s[2] = 0}
IsGlobal(s) == s[1] \in GlobalRoles
\* Every role with every layer, in the order of the loops over them.
SlotOrder ==
  [i \in 1 .. Len(RoleOrder) * NL |-> <<RoleOrder[(i - 1) \div NL + 1], (i - 1) % NL>>]

\* The runs are those the program accepts: the loaders stop at widths they do
\* not know, and lines of the control files that name no role or no layer are
\* skipped.
ASSUME JobsAssumption ==
  \A j \in Jobs :
    /\ j.source \in {"blob", "safetensors", "gguf", "dense", "gate"}
    /\ \A i \in DOMAIN j.bits : j.bits[i].bits \in RoleWidths
    /\ DOMAIN j.bits \subseteq Nat
    /\ j.ebits = <<>> \/ j.ebits \in [1 .. Experts -> RoleWidths]
    /\ \A i \in DOMAIN j.files : j.files[i].promote \subseteq Slots
    /\ Len(j.files) \in Nat /\ DOMAIN j.files = 1 .. Len(j.files)
    /\ Len(j.promo) \in Nat /\ DOMAIN j.promo = 1 .. Len(j.promo)
    /\ {j.correct, j.export} \subseteq BOOLEAN /\ j.search.kind \in {"none", "full", "list"}
    /\ j.search.list \in Seq(Slots) /\ j.search.max \in Int

NoTensor == <<>>
Prod(s) == <<s[1], s[2], "prod", 0>>
Mirror(s) == <<s[1], s[2], "hi", 0>>
Nq(s, n) == <<s[1], s[2], "nq", n>>
Wide(s) == <<s[1], s[2], "wide", 0>>
SlotOf(t) == <<t[1], t[2]>>
Names == {Prod(s) : s \in Slots} \cup {Mirror(s) : s \in Slots}
           \cup {Wide(s) : s \in Slots} \cup {Nq(s, n) : s \in Slots, n \in 2 .. 15}
Tables == [Slots -> Names \cup {NoTensor}]

VARIABLES
  job,        \* the run: chosen once
  pc, layer,  \* control, and the layer a loader or resolver is at
  reg,        \* names in the registry
  base, hi, sel, active,  \* the layer tables
  cur,        \* the table g_moe_lt_cur points at
  promoted,   \* g_moe_promoted: slots moved to their mirror
  nq,         \* g_moe_promoted_nq: the width of an nQ slot, or 0
  line,       \* the next line of the nQ file
  mats,       \* lazy mirrors that have data
  pass,       \* the last forward passes: kind and tensors read as garbage
  packed,     \* g_moe_sme2: the weights repacked for the matrix unit
  version,    \* the version of the control files on disk
  drain, epoch, left, busy, events,
  search      \* the delta debugging search, a record of Ddmin

loadVars == <<layer, reg, base, line>>
mirrorVars == <<hi, sel>>
policyVars == <<active, promoted, nq>>
replayVars == <<cur, mats, pass, packed, events, search>>
controlVars == <<version, drain, epoch, left, busy>>
tensorVars == <<job, pc, loadVars, mirrorVars, policyVars, replayVars, controlVars>>

-----------------------------------------------------------------------------
(* Models, roles and contents.                                             *)

\* moe_attrib_role_valid_at.
ValidAt(s) ==
  CASE s[1] = "dense"  -> s[2] < job.dense
    [] s[1] = "shared" -> s[2] >= job.dense /\ job.shared
    [] s[1] = "expert" -> s[2] >= job.dense
    [] s[1] \in {"kv_a_proj", "kv_b_proj"} -> job.attn = "MLA"
    [] s[1] \in {"k_proj", "v_proj"} -> job.attn # "MLA"
    [] OTHER -> TRUE

\* The tensors of a layer of the model, and of the whole model.
LayerSlots(l) == {s \in Slots : s[2] = l /\ ~ IsGlobal(s) /\ ValidAt(s)}
GlobalSlots == {s \in Slots : IsGlobal(s)}

\* moe_role_bits: the first line of the table for the role and the layer.  The
\* global tensors are looked up at layer -1.
RoleBits(s, default) ==
  LET at == IF IsGlobal(s) THEN -1 ELSE s[2]
      fits == {i \in DOMAIN job.bits : /\ job.bits[i].role = s[1]
                                      /\ job.bits[i].layer \in {-1, at}}
  IN  IF fits = {} THEN default
      ELSE job.bits[CHOOSE i \in fits : \A k \in fits : i <= k].bits

\* What the loader of the source writes for a production tensor.
Production(s) ==
  CASE job.source = "blob" -> AffineTensor
    [] job.source = "gguf" ->
         IF job.attn # "GPTOSS" THEN Q4Tensor
         ELSE IF s[1] = "expert" THEN MxFp4Tensor ELSE F16Tensor
    [] job.source = "safetensors" ->
         IF s[1] # "expert" THEN DenseTensor(RoleBits(s, IF IsGlobal(s) THEN 32 ELSE 8))
         ELSE IF job.ebits = <<>> THEN Q8Tensor ELSE MixedTensor(job.ebits)

\* moe_register_hi_role: 16 bits, or the simulated format of one slot.
MirrorTensor(s) ==
  IF job.sim.slot # s \/ s[1] = "expert" \/ IsGlobal(s) THEN F16Tensor
  ELSE IF job.sim.n = 32 THEN F32Tensor ELSE QNg64Tensor(job.sim.n)

Content(t) ==
  CASE t[3] = "prod" -> Production(SlotOf(t))
    [] t[3] = "hi"   -> MirrorTensor(SlotOf(t))
    [] t[3] = "nq"   -> QNg64Tensor(t[4])
    [] t[3] = "wide" -> F32Tensor

\* A lazy mirror is registered without data (lz_kind # 0).
IsLazy(t) == t[3] = "hi" /\ job.lazy /\ Content(t) = F16Tensor

\* A tensor is read as what was written if it has data and the layout fits.
ReadsWell(t, with) == ReadAsWritten(Content(t)) /\ (IsLazy(t) => t \in with)

-----------------------------------------------------------------------------
(* Loading and resolving.                                                  *)

Goto(p) == pc' = p
Stop(p) == pc' = p /\ UNCHANGED <<layer, reg, base>>

\* The 32-bit global tensors of a safetensors model are kept apart.
InF32Store(t) == job.source = "safetensors" /\ IsGlobal(SlotOf(t)) /\ Content(t) = F32Tensor

\* Variant: the registry is tested after the entry was taken.
HasRoomLate(names) == Cardinality({t \in names : ~ InF32Store(t)}) <= MaxAf + 1

HasRoom(names) == Cardinality({t \in names : ~ InF32Store(t)}) <= MaxAf

\* A loader registers what the model has, as far as the table has room.
Register(names, next) ==
  IF \/ ~ HasRoom(reg \cup names)
     \/ job.source # "blob" /\ job.missing \in {SlotOf(t) : t \in names}
  THEN Stop("fatal")
  ELSE /\ reg' = reg \cup {t \in names : SlotOf(t) # job.missing}
       /\ next /\ UNCHANGED base

LoadLayer ==
  /\ pc = "load" /\ layer < NL
  /\ Register({Prod(s) : s \in LayerSlots(layer)}, layer' = layer + 1 /\ Goto("load"))
  /\ UNCHANGED <<job, line, mirrorVars, policyVars, replayVars, controlVars>>

\* A global tensor of the safetensors loader at 16 bits has no registrar.
LoadGlobals ==
  /\ pc = "load" /\ layer = NL
  /\ IF job.source = "safetensors" /\ \E s \in GlobalSlots : RoleBits(s, 32) = 16
     THEN Stop("fatal")
     ELSE Register({Prod(s) : s \in GlobalSlots}, layer' = 0 /\ Goto("resolve"))
  /\ UNCHANGED <<job, line, mirrorVars, policyVars, replayVars, controlVars>>

AfterResolve ==
  CASE job.source = "blob" -> IF job.gather THEN "gather" ELSE IF job.correct THEN "mirrors" ELSE "start"
    [] job.source = "gguf" -> "promote"
    [] job.source = "safetensors" -> "verify"

\* moe_resolve_layer_tensors: every name must be found, with the shape the
\* configuration says.
ResolveLayer ==
  /\ pc = "resolve" /\ layer < NL
  /\ LET mine == {s \in Slots : s[2] = layer /\ (IsGlobal(s) \/ ValidAt(s))} IN
     IF \E s \in mine : Prod(s) \notin reg \/ s = job.misshapen THEN Stop("fatal")
     ELSE /\ base' = [s \in Slots |-> IF s \in mine THEN Prod(s) ELSE base[s]]
          /\ layer' = (layer + 1) % NL
          /\ Goto(IF layer + 1 = NL THEN AfterResolve ELSE "resolve")
          /\ UNCHANGED reg
  /\ UNCHANGED <<job, line, mirrorVars, policyVars, replayVars, controlVars>>

\* moe_neartie_correct_load_attn_hi: only the listed combinations when there is
\* a list; experts only in the layers asked for.
Wanted(s) == job.combosOn => s \in job.combos

RegisterMirrors ==
  /\ pc = "mirrors"
  /\ LET slots == {s \in Slots : /\ ValidAt(s) /\ Wanted(s)
                                 /\ s[1] = "expert" => s[2] \in job.expertLayers}
         all == reg \cup {Mirror(s) : s \in slots} IN
     IF \/ \E s \in slots : job.sim.slot = s /\ job.sim.n # 32 /\ ~ QNg64Supported(job.sim.n)
        \/ ~ HasRoom(all)
     THEN Goto("fatal") /\ UNCHANGED reg
     ELSE Goto("mirrored") /\ reg' = all
  /\ UNCHANGED <<job, layer, base, line, mirrorVars, policyVars, replayVars, controlVars>>

\* moe_resolve_layer_tensors_hi and moe_lt_sel_init: the mirror where it is
\* registered, the production tensor elsewhere; a global mirror or nothing.
ResolveMirrors ==
  /\ pc = "mirrored"
  /\ hi' = [s \in Slots |-> IF Mirror(s) \in reg THEN Mirror(s)
                            ELSE IF IsGlobal(s) THEN NoTensor ELSE base[s]]
  /\ sel' = [s \in Slots |-> IF job.combosOn /\ s \in job.combos /\ ~ IsGlobal(s)
                             THEN hi'[s] ELSE base[s]]
  /\ Goto("start")
  /\ UNCHANGED <<job, loadVars, policyVars, replayVars, controlVars>>

\* moe_lt_active_init.
ActiveInit ==
  /\ pc = "start"
  /\ active' = base /\ Goto("nq")
  /\ UNCHANGED <<job, loadVars, mirrorVars, promoted, nq, replayVars, controlVars>>

\* moe_promotion_nq_init, one line of the file: an invalid line stops the
\* program, a width below production's is refused, the last line for a slot wins.
NqInvalid(s, n) ==
  \/ ~ job.correct \/ s \notin Slots \/ IsGlobal(s) \/ ~ ValidAt(s) \/ ~ QNg64Supported(n)

NqLine ==
  /\ pc = "nq" /\ line <= Len(job.nq)
  /\ LET s == job.nq[line].slot
         n == job.nq[line].n IN
     IF NqInvalid(s, n) THEN Goto("fatal") /\ UNCHANGED <<reg, active, nq>>
     ELSE IF n < Content(base[s]).bits THEN Goto("nq") /\ UNCHANGED <<reg, active, nq>>
     ELSE IF ~ HasRoom(reg \cup {Nq(s, n)}) THEN Goto("fatal") /\ UNCHANGED <<reg, active, nq>>
     ELSE /\ reg' = reg \cup {Nq(s, n)}
          /\ active' = [active EXCEPT ![s] = Nq(s, n)]
          /\ nq' = [nq EXCEPT ![s] = n]
          /\ Goto("nq")
  /\ line' = line + 1
  /\ UNCHANGED <<job, layer, base, mirrorVars, promoted, replayVars, controlVars>>

NqDone ==
  /\ pc = "nq" /\ line > Len(job.nq)
  /\ Goto("poll")
  /\ UNCHANGED <<job, loadVars, mirrorVars, policyVars, replayVars, controlVars>>
-----------------------------------------------------------------------------
(* The control files.                                                      *)

\* Another program replaces the promotion and the demotion file.
Publish ==
  /\ pc \in {"poll", "commit", "admit", "step"} /\ version < Len(job.files)
  /\ version' = version + 1
  /\ UNCHANGED <<job, pc, loadVars, mirrorVars, policyVars, replayVars,
                 drain, epoch, left, busy>>

PromotionLines ==
  IF version = 0 \/ ~ job.correct THEN {} ELSE job.files[version].promote
DemotionLines == IF version = 0 THEN {} ELSE job.files[version].demote

\* moe_precision_control_pending_cpu.
Pending ==
  \/ PromotionLines \ promoted # {}
  \/ \E s \in DemotionLines : nq[s] # 0

Poll ==
  /\ pc = "poll"
  /\ drain' = (drain \/ Pending)
  /\ Goto(IF drain' /\ busy = 0 THEN "commit" ELSE "admit")
  /\ UNCHANGED <<job, loadVars, mirrorVars, policyVars, replayVars, version, epoch, left, busy>>

\* Variant: a demoted slot always goes back to the production tensor.
ServedAfterToBase(s, now) ==
  IF s \in now THEN hi[s]
  ELSE IF s \in DemotionLines /\ nq[s] # 0 /\ ~ IsGlobal(s) THEN base[s]
  ELSE active[s]

\* What slot s serves after the promotions now and the demotions of the file:
\* a demoted slot goes back to its mirror if it was ever promoted.
ServedAfter(s, now) ==
  IF s \in now THEN hi[s]
  ELSE IF s \in DemotionLines /\ nq[s] # 0 /\ ~ IsGlobal(s)
       THEN IF s \in promoted THEN hi[s] ELSE base[s]
  ELSE active[s]

\* moe_promotion_maybe_apply and moe_demotion_nq_maybe_apply at the quiescent
\* point.  A global tensor without a mirror is not promoted, nor marked.
Commit ==
  /\ pc = "commit"
  /\ LET now == {s \in PromotionLines \ promoted : IsGlobal(s) => hi[s] # NoTensor} IN
     /\ active' = [s \in Slots |-> ServedAfter(s, now)]
     /\ promoted' = promoted \cup now
  /\ nq' = [s \in Slots |-> IF s \in DemotionLines THEN 0 ELSE nq[s]]
  /\ epoch' = epoch + 1 /\ drain' = FALSE
  /\ Goto("admit")
  /\ UNCHANGED <<job, loadVars, mirrorVars, replayVars, version, left, busy>>

Admit ==
  /\ pc = "admit"
  /\ IF ~ drain /\ busy = 0 /\ left > 0
     THEN busy' = Tokens /\ left' = left - 1
     ELSE UNCHANGED <<busy, left>>
  /\ Goto(IF busy' = 0 THEN "done" ELSE "step")
  /\ UNCHANGED <<job, loadVars, mirrorVars, policyVars, replayVars, version, drain, epoch>>

-----------------------------------------------------------------------------
(* Passes and replays.                                                     *)

Table(name) ==
  CASE name = "active" -> active
    [] name = "hi"     -> hi
    [] name = "sel"    -> sel

\* A pass reads the layer slots of table t and the globals it is given.
TensorsOf(t, globals) ==
  {t[s] : s \in {x \in Slots : ~ IsGlobal(x) /\ ValidAt(x)}}
    \cup {globals[s] : s \in GlobalSlots}

\* A pass of a kind over tensors, with the lazy mirrors in with.
Pass(kind, tensors, with) ==
  pass' = [kind |-> kind, bad |-> {t \in tensors : ~ ReadsWell(t, with)}]

\* The embedding is decoded and a 32-bit global of its own store is multiplied
\* elsewhere; everything else goes through the row kernel.
Refused(tensors) ==
  job.vdsp /\ \E t \in tensors : /\ t[1] # "embed_tokens" /\ ~ InF32Store(t)
                               /\ VdspRefuses(Content(t))

\* Every lazy mirror of the registry.
Materialized == {t \in reg : IsLazy(t)}

\* Variant: a release that forgets what is served.
ReleasedAll(have) == {}

\* moe_lazy_hi_release_all: what a layer slot serves stays.
Released(have) == {t \in have : \E s \in Slots : ~ IsGlobal(s) /\ active[s] = t}

\* The verification modes of the loaders: one prompt over the resolved table.
Verify ==
  /\ pc = "verify"
  /\ LET read == TensorsOf(base, base) IN
     IF Refused(read) THEN Goto("fatal") /\ UNCHANGED pass
     ELSE Pass("serve", read, mats) /\ Goto(IF job.gather THEN "gather" ELSE "done")
  /\ UNCHANGED <<job, loadVars, mirrorVars, policyVars, controlVars, cur, mats, packed, events, search>>

-----------------------------------------------------------------------------
(* A batched step multiplies the feed-forward tensors and lm_head from     *)
(* weights repacked for the matrix unit, kept per slot and made when the   *)
(* slot is first used.  The slot remembers which tensor it was made from.  *)

PackSlots == {s \in Slots : s[1] \in {"dense", "shared", "expert", "lm_head"}}
NotPacked == [src |-> NoTensor, ready |-> 0]

\* Only 4-bit codes can be repacked, on a host with the unit.
Verdict(t) == IF job.sme2 /\ Content(t).bits = 4 THEN 1 ELSE -1

\* Variant: a verdict once taken is kept.
EnsureReadyOnce(s, t) ==
  IF packed[s].ready # 0 THEN packed[s] ELSE [src |-> t, ready |-> Verdict(t)]

\* moe_sme2_ensure_ready.
EnsureReady(s, t) ==
  IF packed[s].ready # 0 /\ packed[s].src = t THEN packed[s]
  ELSE [src |-> t, ready |-> Verdict(t)]

\* The tensor whose weights a slot multiplies with; -1 is the scalar fallback.
Used(s, t) == IF s \in PackSlots /\ packed'[s].ready = 1 THEN packed'[s].src ELSE t

\* The tensors a batched step asks for: no token may be routed to the experts
\* of the layers in idle.
StepTensors(table, globals, idle) ==
  [s \in {x \in Slots : IsGlobal(x) \/ (ValidAt(x) /\ x \notin idle)} |->
     IF IsGlobal(s) THEN globals[s] ELSE table[s]]

\* A batched step over the tensors wanted.
Batched(wanted, next) ==
  LET mine == DOMAIN wanted IN
  IF Refused({wanted[s] : s \in mine}) THEN Goto("fatal") /\ UNCHANGED <<pass, packed>>
  ELSE /\ packed' = [s \in PackSlots |-> IF s \in mine THEN EnsureReady(s, wanted[s]) ELSE packed[s]]
       /\ pass' = [kind |-> "serve",
                   bad |-> {wanted[s] : s \in {x \in mine : \/ Used(x, wanted[x]) # wanted[x]
                                                            \/ ~ ReadsWell(wanted[x], mats)}}]
       /\ next

IdleExperts == SUBSET {s \in PackSlots : s[1] = "expert" /\ job.sme2}

\* What follows a token that was served.
Looked == Goto("emit") \/ Goto("log") \/ (job.correct /\ Goto("correct"))

\* moe_cbatch_step over the table the pointer is at; then the margin is looked
\* at.
Step ==
  /\ pc = "step" /\ busy > 0
  /\ \E idle \in IdleExperts : Batched(StepTensors(Table(cur), active, idle), Looked)
  /\ UNCHANGED <<job, loadVars, mirrorVars, policyVars, controlVars, cur, mats, events, search>>

\* The batched verification modes: the same step over the resolved table, in
\* gather order, more than once.
VerifyGather ==
  /\ pc = "gather"
  /\ \E idle \in IdleExperts :
       Batched(StepTensors(base, base, idle), Goto("gather") \/ Goto("done"))
  /\ UNCHANGED <<job, loadVars, mirrorVars, policyVars, controlVars, cur, mats, events, search>>

Emit ==
  /\ pc = "emit"
  /\ busy' = busy - 1
  /\ Goto("poll")
  /\ UNCHANGED <<job, loadVars, mirrorVars, policyVars, replayVars, version, drain, epoch, left>>

\* After a correction the margin is looked at again.
Corrected == Goto("log") \/ Goto("emit")

\* moe_neartie_maybe_log: the baseline is replayed with the production table.
Log ==
  /\ pc = "log"
  /\ Pass("log", TensorsOf(base, active), mats)
  /\ cur' = "active" /\ Goto("emit")
  /\ UNCHANGED <<job, loadVars, mirrorVars, policyVars, controlVars, mats, packed, events, search>>

CorrectedFrom == TensorsOf(Table(IF job.combosOn THEN "sel" ELSE "hi"), active)

\* Variant: the replay leaves its table behind.
CorrectKeepsTable ==
  /\ pc = "correct"
  /\ IF Refused(CorrectedFrom) THEN Goto("fatal") /\ UNCHANGED <<pass, cur, mats>>
     ELSE /\ Pass("correct", CorrectedFrom, Materialized)
          /\ cur' = IF job.combosOn THEN "sel" ELSE "hi"
          /\ mats' = Released(Materialized)
          /\ Goto("attribute") \/ Corrected
  /\ UNCHANGED <<job, loadVars, mirrorVars, policyVars, controlVars, packed, events, search>>

\* moe_neartie_reverify_hi: materialize, replay at 16 bits, release.  When the
\* argmax changes the flip is attributed.
Correct ==
  /\ pc = "correct"
  /\ IF Refused(CorrectedFrom) THEN Goto("fatal") /\ UNCHANGED <<pass, cur, mats>>
     ELSE /\ Pass("correct", CorrectedFrom, Materialized)
          /\ cur' = "active"
          /\ mats' = Released(Materialized)
          /\ Goto("attribute") \/ Corrected
  /\ UNCHANGED <<job, loadVars, mirrorVars, policyVars, controlVars, packed, events, search>>

\* moe_attrib_replay_combo: production with the combination at 16 bits, or 16
\* bits with the combination at production.  Globals are only ever raised.
ReplayTensors(combo, ablate) ==
  TensorsOf([s \in Slots |-> IF (s \in combo) # ablate THEN hi[s] ELSE base[s]],
            [s \in GlobalSlots |-> IF s \in combo /\ ~ ablate /\ hi[s] # NoTensor
                                   THEN hi[s] ELSE active[s]])

\* moe_attrib_combo_effective: replaying the combination can make a difference.
Effective(s, ablate) ==
  /\ ValidAt(s)
  /\ IF IsGlobal(s) THEN ~ ablate /\ hi[s] # NoTensor ELSE hi[s] # base[s]

\* moe_neartie_attribute: the baselines, which may make a sweep pointless, and
\* the replays of every effective combination.
Attribute ==
  /\ pc = "attribute"
  /\ IF job.attrib = {} \/ events >= job.maxEvents
     THEN UNCHANGED <<pass, mats, events>>
     ELSE \E swept \in SUBSET job.attrib :
            LET combos(ab) == {s \in Slots : Effective(s, ab) /\ Wanted(s)}
                replays(ab) ==
                  ReplayTensors({}, ab)
                    \cup (IF ab \in swept
                          THEN UNION {ReplayTensors({s}, ab) : s \in combos(ab)} ELSE {})
            IN  /\ Pass("attribute", UNION {replays(ab) : ab \in job.attrib}, Materialized)
                /\ mats' = Released(Materialized)
                /\ events' = events + 1
  /\ cur' = "active" /\ Goto("search")
  /\ UNCHANGED <<job, loadVars, mirrorVars, policyVars, controlVars, packed, search>>

-----------------------------------------------------------------------------
(* The search for a smallest set of combinations.                          *)

\* The elements of list at the positions keep, in their order.
Selected(list, keep) ==
  [k \in 1 .. Cardinality(keep) |->
     list[CHOOSE i \in keep : Cardinality({j \in keep : j <= i}) = k]]

Ground ==
  IF job.search.kind = "full"
  THEN Selected(SlotOrder, {i \in DOMAIN SlotOrder :
                              SlotOrder[i] \in Slots /\ Effective(SlotOrder[i], TRUE)})
  ELSE job.search.list

SetOf(list) == {list[i] : i \in DOMAIN list}

\* What the replay of a combination would show.
Hits(list) == SetOf(list) \in job.search.works

\* The tests of a fixed list first replay the whole list; the search over all
\* combinations takes it for granted that all of them hit.
SearchStart ==
  /\ pc = "search"
  /\ CASE job.search.kind = "none" -> Corrected /\ UNCHANGED <<pass, search>>
       [] job.search.kind = "full" ->
            /\ search' = DdStart(Ground) /\ UNCHANGED pass
            /\ IF Len(Ground) < 2 THEN Corrected ELSE Goto("ddmin")
       [] job.search.kind = "list" ->
            /\ Pass("search", ReplayTensors(SetOf(Ground), job.search.ablate), mats)
            /\ search' = DdStart(Ground)
            /\ IF Hits(Ground) THEN Goto("ddmin") ELSE Corrected
  /\ UNCHANGED <<job, loadVars, mirrorVars, policyVars, controlVars, cur, mats, packed, events>>

SearchStep ==
  /\ pc = "ddmin"
  /\ IF DdOver(search) THEN Corrected /\ UNCHANGED <<search, pass>>
     ELSE /\ search' = DdStep(search, job.search.max, Hits(Candidate(search)))
          /\ IF Tests(search, job.search.max)
             THEN Pass("search", ReplayTensors(SetOf(Candidate(search)), job.search.ablate), mats)
             ELSE UNCHANGED pass
          /\ Goto("ddmin")
  /\ UNCHANGED <<job, loadVars, mirrorVars, policyVars, controlVars, cur, mats, packed, events>>

-----------------------------------------------------------------------------
Empty == [s \in Slots |-> NoTensor]

TensorInit ==
  /\ layer = 0 /\ reg = {} /\ line = 1
  /\ base = Empty /\ hi = Empty /\ sel = Empty /\ active = Empty
  /\ promoted = {} /\ nq = [s \in Slots |-> 0]
  /\ cur = "active" /\ mats = {} /\ pass = [kind |-> "none", bad |-> {}]
  /\ packed = [s \in PackSlots |-> NotPacked]
  /\ events = 0 /\ search = DdStart(<<>>)
  /\ version = 0 /\ drain = FALSE /\ epoch = 0 /\ left = Requests /\ busy = 0

TensorNext ==
  \/ LoadLayer \/ LoadGlobals \/ ResolveLayer
  \/ RegisterMirrors \/ ResolveMirrors \/ ActiveInit \/ NqLine \/ NqDone
  \/ Verify \/ VerifyGather \/ Publish \/ Poll \/ Commit \/ Admit
  \/ Step \/ Emit \/ Log \/ Correct \/ Attribute \/ SearchStart \/ SearchStep
=============================================================================
