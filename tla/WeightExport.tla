---------------------------- MODULE WeightExport ----------------------------
(***************************************************************************)
(* Static promotion of tensors to 32 bits from a GGUF checkpoint, and the  *)
(* export of the checkpoint, in the MoE engine and in the dense one.  Both *)
(* remember a promoted layer as a bit of an int per role; MaskBits is the  *)
(* width of that int, and a shift by a layer beyond it takes the layer     *)
(* modulo the width, as the shift instructions of the supported processors *)
(* do (the C standard leaves it undefined).                                *)
(***************************************************************************)
EXTENDS TensorTables

CONSTANT MaskBits

VARIABLES
  mask,       \* g_moe_gguf_promoted, g_wt_promoted
  pline,      \* the next line of the promotion file
  exported    \* how each tensor was written to the exported file

exportVars == <<mask, pline, exported>>

MoeRoles == {"q_proj", "k_proj", "v_proj", "o_proj", "expert"}
DenseWtRoles == {"q_proj", "k_proj", "v_proj", "o_proj", "dense"}

IsDenseEngine == job.source = "dense"

Bit(s) == s[2] % MaskBits
Marked(s) == Bit(s) \in mask[s[1]]

ExportInit ==
  /\ mask = [r \in Roles |-> {}] /\ pline = 1
  /\ exported = [s \in Slots |-> "no"]

\* load_gguf_weights of the dense engine and its table of roles.
DenseLoad ==
  /\ pc = "denseload"
  /\ LET mine == {s \in Slots : IsGlobal(s) \/ s[1] \in DenseWtRoles} IN
     IF job.missing \in mine THEN Stop("fatal")
     ELSE /\ reg' = {Prod(s) : s \in mine}
          /\ base' = [s \in Slots |-> IF s \in mine THEN Prod(s) ELSE NoTensor]
          /\ Goto("promote") /\ UNCHANGED layer
  /\ UNCHANGED <<job, line, mirrorVars, policyVars, replayVars, controlVars, exportVars>>

\* Variant: the line is applied and not marked.
PromoteSlotUnmarked(s) ==
  /\ base' = [base EXCEPT ![s] = Wide(s)]
  /\ Goto("promote") /\ UNCHANGED mask

\* One line of the promotion file.  The dense engine skips what it does not
\* know and what is marked already; the MoE engine replaces the tensor again,
\* and stops at a role it has no source pattern for.
PromoteSlot(s) ==
  /\ base' = [base EXCEPT ![s] = Wide(s)]
  /\ mask' = [mask EXCEPT ![s[1]] = @ \cup {Bit(s)}]
  /\ Goto("promote")

PromoteLine ==
  /\ pc = "promote" /\ pline <= Len(job.promo)
  /\ LET s == job.promo[pline]
         skip == Goto("promote") /\ UNCHANGED <<base, mask>> IN
     CASE s \notin Slots -> skip
       [] s \in Slots /\ IsDenseEngine ->
            IF s[1] \notin DenseWtRoles \/ Marked(s) THEN skip ELSE PromoteSlot(s)
       [] s \in Slots /\ ~ IsDenseEngine ->
            IF s[1] \notin MoeRoles THEN Goto("fatal") /\ UNCHANGED <<base, mask>>
            ELSE PromoteSlot(s)
  /\ pline' = pline + 1
  /\ UNCHANGED <<job, layer, reg, line, mirrorVars, policyVars, replayVars, controlVars, exported>>

PromoteDone ==
  /\ pc = "promote" /\ pline > Len(job.promo)
  /\ Goto(CASE job.export -> "export" [] ~ job.export /\ IsDenseEngine -> "done"
            [] OTHER -> "verify")
  /\ UNCHANGED <<job, loadVars, mirrorVars, policyVars, replayVars, controlVars, exportVars>>

\* What is written for a tensor: the dense engine encodes the source again; the
\* MoE engine writes the promoted tensor's bytes as 32-bit floats.
Written(s) ==
  IF IsDenseEngine \/ s[1] \notin MoeRoles \/ ~ Marked(s) THEN "source"
  ELSE IF Content(base[s]) = F32Tensor THEN "f32" ELSE "garbage"

Export ==
  /\ pc = "export"
  /\ exported' = [s \in Slots |-> IF Prod(s) \in reg THEN Written(s) ELSE "no"]
  /\ Goto("done")
  /\ UNCHANGED <<job, loadVars, mirrorVars, policyVars, replayVars, controlVars, mask, pline>>

\* Without a promotion file the MoE engine exports before it loads anything.
ExportUnloaded ==
  /\ pc = "unloaded"
  /\ exported' = [s \in Slots |-> IF IsGlobal(s) \/ ValidAt(s) THEN "source" ELSE "no"]
  /\ Goto("done")
  /\ UNCHANGED <<job, loadVars, mirrorVars, policyVars, replayVars, controlVars, mask, pline>>

ExportNext == DenseLoad \/ PromoteLine \/ PromoteDone \/ Export \/ ExportUnloaded
=============================================================================
