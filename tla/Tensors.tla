------------------------------ MODULE Tensors ------------------------------
(***************************************************************************)
(* The runs that load weights: serving from the blobs with mirrors and     *)
(* control files, the verification modes of the safetensors and GGUF       *)
(* loaders, the promotion and export of a GGUF checkpoint, and the setup   *)
(* of every gate, benchmark and generation mode.                           *)
(***************************************************************************)
EXTENDS WeightExport, GateSetup

vars == <<tensorVars, exportVars, gateVars>>

\* Where the program starts: the MoE engine exports before it loads anything
\* when no promotion is asked for.
Begin ==
  CASE job.source = "dense" -> "denseload"
    [] job.source = "gate" -> "gate"
    [] job.source = "gguf" /\ job.export /\ job.promo = <<>> -> "unloaded"
    [] OTHER -> "load"

Init == job \in Jobs /\ pc = Begin /\ TensorInit /\ ExportInit /\ GateInit

Ended == pc \in {"done", "fatal"} /\ UNCHANGED vars

Next ==
  \/ TensorNext /\ UNCHANGED <<exportVars, gateVars>>
  \/ ExportNext /\ UNCHANGED gateVars
  \/ GateStep /\ UNCHANGED exportVars
  \/ Ended

Spec == Init /\ [][Next]_vars

-----------------------------------------------------------------------------
(* Properties.                                                             *)

\* The tables hold registered names or nothing, and the MoE engine never more
\* names than its registry has room for; a lazy mirror with data is registered.
TypeOK ==
  /\ reg \subseteq Names
  /\ job.source # "dense" => Cardinality({t \in reg : ~ InF32Store(t)}) <= MaxAf
  /\ layer \in 0 .. NL
  /\ LET held == reg \cup {NoTensor} \cup {Wide(s) : s \in Slots} IN
     /\ \A t \in {base, hi, sel, active} : t \in [Slots -> held]
     /\ packed \in [PackSlots -> [src : held, ready : {-1, 0, 1}]]
  /\ mats \subseteq Materialized /\ pass.bad \subseteq Names
  /\ cur \in {"active", "hi", "sel"} /\ promoted \subseteq Slots
  /\ busy \in 0 .. Tokens /\ left \in 0 .. Requests /\ drain \in BOOLEAN
  /\ setup.cap \in 1 .. BatchMax /\ (pc = "gate" <=> setup.todo # <<>> /\ pc # "fatal")

\* The mirrors that replays and serving may find without data: a lazy mirror is
\* promoted before a replay has materialized it, or is a global one, which
\* every release drops; and a search runs after the attribution has released.
Unmaterialized ==
  {t \in reg : /\ IsLazy(t)
               /\ \/ SlotOf(t) \in promoted /\ pass.kind \in {"serve", "log"}
                  \/ pass.kind = "search"}

\* After a replay every lazy mirror that a layer serves has its data, though
\* the release that ends the replay drops what the replay brought in: the mirror
\* that was just promoted stays (moe_af_reachable_from_active).
ServedMirrorsStay ==
  pass.kind \in {"correct", "attribute", "search"} /\ pc \in {"attribute", "search", "ddmin", "log", "emit"} =>
    \A s \in Slots : ~ IsGlobal(s) /\ active[s] # NoTensor /\ IsLazy(active[s]) => active[s] \in mats

\* Every pass and replay, of every table that any sequence of promotions,
\* demotions, corrections and searches can build, reads each tensor in the
\* layout its registrar wrote and with its data present, and a batched step
\* never multiplies with weights repacked from a tensor the slot served before
\* (moe_decode_af, the lazy mirrors of qwen_infer.c:16341, the staleness of
\* qwen_infer.c:5072-5092).
PassReadsItsData == pass.bad \subseteq Unmaterialized /\ ServedMirrorsStay

\* What a comment of the code asks for: a promoted tensor is read on every token
\* and must be resident (qwen_infer.c:16341).
PromotedAreResident ==
  pass.kind = "serve" => \A t \in pass.bad : SlotOf(t) \notin promoted

\* A token is served from exactly the tensors that the lines accepted so far
\* ask for: the mirror once promoted, else the nQ tensor while its policy holds,
\* else production, whatever the order of the lines and however many replays
\* ran in between; a slot whose mirror was registered is promoted to it.
ServesItsPolicy ==
  pc = "step" =>
    /\ cur = "active"
    /\ \A s \in Slots :
         active[s] = IF s \in promoted THEN hi[s]
                     ELSE IF nq[s] # 0 THEN Nq(s, nq[s]) ELSE base[s]
    /\ \A s \in promoted : Mirror(s) \in reg => active[s] = Mirror(s)

\* A search that reports CONVERGED within its budget, from a list that does
\* hit, ends with a list that hits and from which no single combination can be
\* left out (the claim of moe_ddmin_shrink), whatever the replays answer.
SearchClaimsHold ==
  /\ pc = "ddmin" /\ search.phase = "converged"
  /\ search.tests < job.search.max /\ Hits(Ground)
  => /\ Hits(search.cur)
     /\ Len(search.cur) >= 2 =>
          \A x \in SetOf(search.cur) : SetOf(search.cur) \ {x} \notin job.search.works

\* A tensor is held and exported at 32 bits exactly if the promotion file names
\* it: no promotion is lost, none reaches another layer.
ExportReflectsPromotions ==
  pc = "done" /\ job.source \in {"gguf", "dense"} =>
    \A s \in Slots :
      LET asked == /\ s \in SetOf(job.promo)
                   /\ s[1] \in (IF IsDenseEngine THEN DenseWtRoles ELSE MoeRoles) IN
      /\ base[s] = Wide(s) <=> asked
      /\ exported[s] # "no" /\ ~ IsDenseEngine => (exported[s] = IF asked THEN "f32" ELSE "source")

\* The lanes that a mode uses without comparing them with the room it has: the
\* fixed batch when fewer slots were asked for (qwen_infer.c:7868 compares only
\* in the online branch), and the check of a long GPT-OSS prompt in one lane.
Unsized ==
  IF job.gate.mode = "verifyLanes" /\ job.gate.slots \in 1 .. CbatchN - 1 THEN {"lanes"}
  ELSE IF job.gate.mode = "ggufCheck" /\ job.gate.n > LanePositions THEN {"lane"}
  ELSE {}

\* A gate that prints a verdict, on a checkpoint of either kind of attention,
\* has computed it from a layer table, rotations, blobs, bindings and a device
\* configuration that its own copy of the setup had set before they were used,
\* with K/V rows of the model's shape and within the buffers: no copy lacks or
\* misplaces a step, and a mode that does not look at the kind of attention
\* never gets as far as a verdict on the other one (qwen_infer.c:11926-11936,
\* 15543-15556, 10486-10496).
GateResultsAreComputed ==
  pc = "done" /\ job.source = "gate" => setup.unset = {} /\ setup.over \subseteq Unsized
=============================================================================
