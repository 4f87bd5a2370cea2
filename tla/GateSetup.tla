------------------------------ MODULE GateSetup ------------------------------
(***************************************************************************)
(* The setup of every verification gate, benchmark and generation mode of  *)
(* the MoE engine.  Each mode is a function of its own that reads the      *)
(* configuration, sizes the global buffers, fills the rotation tables,     *)
(* maps the blobs, resolves the layer table, binds the tensors to the      *)
(* device and configures it, and then runs its passes: the same block,     *)
(* written out again in every mode, over globals that are zero or NULL     *)
(* until the block has set them.  A mode is written here as the order of   *)
(* its steps.  "setup" records what has been set, and what a step read     *)
(* before it was set.                                                      *)
(***************************************************************************)
EXTENDS TensorTables

CONSTANTS
  BatchMax,       \* columns of the batch buffers (MOE_BATCH_MAX)
  DeviceBatch,    \* columns the device accepts (mlx_gpu_set_batch)
  CbatchN,        \* sequences of the fixed continuous batch (MOE_CBATCH_N)
  DefaultSlots,   \* QWEN_MOE_CB_SLOTS when it is not set
  Positions,      \* positions of the scalar K/V buffers (MOE_MAXPOS)
  LanePositions   \* positions of a lane (MOE_CBATCH_MAXPOS)

ASSUME GateBounds ==
  /\ {BatchMax, DeviceBatch, CbatchN, DefaultSlots, Positions, LanePositions} \subseteq Nat
  /\ LanePositions < Positions /\ Positions <= BatchMax
  /\ DefaultSlots <= CbatchN /\ CbatchN <= DeviceBatch /\ DeviceBatch <= BatchMax

GateModes ==
  {"mla", "full", "fused", "generate", "batch", "cbatch", "prefill", "online", "gqaFused", "gqaBatch",
   "gqaGenerate", "gqaCbatch", "gqaPrefill", "gqaOnline", "gqaOnlineCpu", "gqaGpu", "gpu", "verify",
   "verifyBatch", "verifyLanes", "verifyOnline", "bindOnly", "bindConfig", "safetensors", "gguf",
   "ggufCheck", "sym", "mqa", "gqa", "olmoe", "gptoss"}

\* The kinds of attention a mode may meet: the loader of GGUF files knows no
\* MLA, only it and the probe of one layer know GPT-OSS, and the self tests of a
\* layer set a grouped-query configuration of their own.
KindsOf(mode) ==
  CASE mode \in {"sym", "mqa", "gqa", "olmoe", "gqaGpu"} -> {"GQA"}
    [] mode \in {"gguf", "ggufCheck"}                    -> {"GQA", "GPTOSS"}
    [] mode = "gptoss"                                   -> {"GPTOSS"}
    [] OTHER                                             -> {"MLA", "GQA"}

\* The command line selects one of the modes and gives it two numbers.
ASSUME ModeAssumption ==
  \A j \in Jobs : j.source = "gate" =>
    /\ j.gate.mode \in GateModes /\ j.attn \in KindsOf(j.gate.mode)
    /\ {j.gate.n, j.gate.slots} \subseteq Int

VARIABLE setup
gateVars == <<setup>>

-----------------------------------------------------------------------------
(* The modes.  Every mode that uses the device first asks whether there is *)
(* one, before or after it has looked at its own parameter.                *)

Kind(check) == IF check = "any" THEN <<>> ELSE <<check>>

MlaLoad(check) ==
  <<"device", "config">> \o Kind(check) \o
  <<"validate", "rowsMLA", "buffers", "yarn", "af", "f32", "resolve", "heads", "bind">>
MlaDevice == <<"deviceMLA", "layerConfig">>

\* Variant: the rotation table of grouped-query attention is left out.
GqaLoadWithoutRope ==
  <<"config", "onlyGQA", "validate", "rowsGQA", "buffers", "yarn",
    "af", "f32", "resolve", "heads">>

\* moe_load_gqa_cbatch_config, and the same block in the two oldest GQA modes.
GqaLoad ==
  <<"config", "onlyGQA", "validate", "rowsGQA", "buffers", "yarn", "ropeGqa",
    "af", "f32", "resolve", "heads">>
GqaDevice == <<"deviceGQA", "layerConfig">>
GqaBound == <<"device">> \o GqaLoad \o <<"bind">>

MlaGate      == MlaLoad("any") \o <<"deviceMLA", "reference", "attentionMLA", "gpuAttentionMLA">>
FullGate     == MlaLoad("any") \o MlaDevice \o <<"reference", "token", "gpuMLA">>
FusedGate    == MlaLoad("any") \o MlaDevice \o <<"reference", "token", "gpuMLA">>
GenerateGate == MlaLoad("onlyMLA") \o <<"nq">> \o MlaDevice \o <<"shortPrompt", "gpuMLA">>
BatchGate    == <<"batchRange">> \o MlaLoad("any") \o MlaDevice \o <<"columns", "batch", "gpuMLA">>
CbatchGate   == MlaLoad("any") \o MlaDevice \o <<"columnsN", "gpuLanesMLA">>
PrefillGate  == MlaLoad("any") \o MlaDevice \o <<"columnsN", "gpuLanesMLA">>
OnlineGate   == MlaLoad("any") \o <<"nq", "slotRange">> \o MlaDevice \o <<"columnsSlots", "gpuLanesMLA">>

GqaFusedGate     == GqaBound \o GqaDevice \o <<"prompt", "reference", "tokens", "gpuGQA">>
GqaBatchGate     == <<"batchRange">> \o GqaBound \o GqaDevice \o <<"columns", "batch", "gpuGQA">>
GqaGenerateGate  == GqaBound \o GqaDevice \o <<"shortPrompt", "gpuGQA">>
GqaCbatchGate    == GqaBound \o GqaDevice \o <<"columnsN", "gpuLanesGQA">>
GqaPrefillGate   == GqaBound \o GqaDevice \o <<"columnsN", "gpuLanesGQA">>
GqaOnlineGate    == GqaBound \o <<"nq", "slotRange">> \o GqaDevice \o <<"columnsSlots", "gpuLanesGQA">>
GqaOnlineCpuGate == GqaLoad \o <<"slotRange", "laneRoom", "slotLanes">>

\* run_moe_gqa_gpu_gate: a fixed one-layer configuration, attention only.
GqaGpuGate ==
  <<"device", "config", "validate", "rowsGQA", "buffers", "yarn", "af", "f32",
    "bind", "deviceGQA", "gpuAttentionGQA">>

\* run_moe_gpu_mode: weights only, no configuration until mirrors are asked for.
GpuModeBind == <<"device", "af", "bind", "probe">>
GpuModeMirrors == <<"depth", "mirrors", "mirrorTable", "bind", "mirrorProbe", "storeProbe">>
GpuModeWidths == <<"storeProbe", "expertProbe">>
GpuModePolicy == <<"testedLayers", "nq", "storeProbe">>
GpuMode ==
  GpuModeBind \o (IF job.correct THEN GpuModeMirrors \o GpuModeWidths \o GpuModePolicy ELSE <<>>)

\* run_moe_verify_mode and the modes it hands over to.
VerifyLoad ==
  <<"config", "validate", "rowsByKind", "slots", "buffers", "yarn", "ropeGqaIfGqa">>
Blobs == <<"af", "f32", "resolve">>
VerifyScalar == VerifyLoad \o Blobs \o <<"heads", "prompt", "tokens">>
VerifyBatch == VerifyLoad \o <<"batchRange">> \o Blobs \o <<"heads", "batch", "token">>
VerifyLanes == VerifyLoad \o Blobs \o <<"heads", "token", "fixedLanes">>
VerifyOnline == VerifyLoad \o Blobs \o <<"heads", "nqHost", "slotRange", "laneRoom", "slotLanes">>
VerifyBound(device) ==
  VerifyLoad \o Blobs \o
    (IF job.attn = "GQA" THEN <<"device", "bind">> \o device ELSE <<>>) \o
  <<"heads", "prompt", "tokens">>

\* The loaders of foreign formats, with a store instead of blobs.
SafetensorsGate ==
  <<"config", "validate", "rowsByKind", "buffers", "yarn", "ropeGqaIfGqa", "store",
    "resolve", "heads", "prompt", "tokens">>
GgufGate ==
  <<"config", "validate", "rowsGQA", "buffers", "yarn", "ropeGqa", "yarnNeoxIfGptoss",
    "store", "resolve", "heads", "prompt", "tokens">>
GgufCheck == GgufGate \o <<"raggedLane", "batch">>

\* The self tests of one layer and the probes of one file.
SymSelftest == <<"config", "validate", "rowsGQA", "buffers">>
MqaSelftest == <<"config", "validate", "rowsGQA", "buffers", "ropeGqa", "ownLayer", "attention">>
GqaSelftest ==
  <<"config", "validate", "rowsGQA", "buffers", "yarn", "ropeGqa", "af", "f32",
    "resolveAttention", "attention">>
OlmoeSelftest ==
  <<"config", "validate", "rowsGQA", "buffers", "yarn", "ropeGqa", "af", "f32",
    "resolveAttention", "attention">>
GptossAttention ==
  <<"config", "rowsGQA", "ownTable", "yarnNeox", "ownBuffers", "store", "resolveAttention", "attention">>

Gates ==
  [mla |-> MlaGate, full |-> FullGate, fused |-> FusedGate, generate |-> GenerateGate,
   batch |-> BatchGate, cbatch |-> CbatchGate, prefill |-> PrefillGate, online |-> OnlineGate,
   gqaFused |-> GqaFusedGate, gqaBatch |-> GqaBatchGate, gqaGenerate |-> GqaGenerateGate,
   gqaCbatch |-> GqaCbatchGate, gqaPrefill |-> GqaPrefillGate, gqaOnline |-> GqaOnlineGate,
   gqaOnlineCpu |-> GqaOnlineCpuGate, gqaGpu |-> GqaGpuGate, gpu |-> GpuMode,
   verify |-> VerifyScalar, verifyBatch |-> VerifyBatch, verifyLanes |-> VerifyLanes,
   verifyOnline |-> VerifyOnline, bindOnly |-> VerifyBound(<<>>), bindConfig |-> VerifyBound(GqaDevice),
   safetensors |-> SafetensorsGate, gguf |-> GgufGate, ggufCheck |-> GgufCheck,
   sym |-> SymSelftest, mqa |-> MqaSelftest, gqa |-> GqaSelftest, olmoe |-> OlmoeSelftest,
   gptoss |-> GptossAttention]

-----------------------------------------------------------------------------
(* The steps.                                                              *)

\* The rotation table and the shape of a K/V row that attention reads.
Rotation == [MLA |-> "yarn", GQA |-> "ropeGqa", GPTOSS |-> "yarnNeox"]
RowShape == [MLA |-> "kvMLA", GQA |-> "kvGQA", GPTOSS |-> "kvGQA"]
HostAttention == {"blob", Rotation[job.attn], RowShape[job.attn]}
HostToken == HostAttention \cup {"layers", "heads"}

HostPasses == {"token", "tokens", "batch", "fixedLanes", "slotLanes", "raggedLane"}

\* What a step reads.
Reads(step) ==
  CASE step \in {"validate", "rowsMLA", "rowsGQA", "rowsByKind", "ownTable", "store"} -> {"dims"}
    [] step \in {"yarn", "yarnNeox", "ropeGqa", "ropeGqaIfGqa", "yarnNeoxIfGptoss"} -> {"dims", "tables"}
    [] step = "buffers" -> {"valid"}
    [] step = "resolve" -> {"dims", "registry", "norms"}
    [] step \in {"resolveAttention", "heads"} -> {"registry", "norms"}
    [] step \in {"bind", "testedLayers"} -> {"registry", "blob"}
    [] step = "nq" -> {"bound", "tested"}
    [] step = "nqHost" -> {"tested"}
    [] step = "deviceMLA" -> {"dims", "yarn"}
    [] step \in {"deviceGQA", "layerConfig"} -> {"dims"}
    [] step \in {"attention", "attentionMLA"} -> HostAttention \cup {"attention"}
    [] step \in HostPasses -> HostToken
    [] step = "gpuAttentionMLA" -> {"bound", "norms", "devMLA"}
    [] step = "gpuAttentionGQA" -> {"bound", "norms", "devGQA"}
    [] step = "gpuMLA" -> {"bound", "layers", "heads", "devMLA", "devFfn"}
    [] step = "gpuGQA" -> {"bound", "layers", "heads", "devGQA", "devFfn"}
    [] step = "gpuLanesMLA" -> {"bound", "layers", "heads", "devMLA", "devFfn", "columns"}
    [] step = "gpuLanesGQA" -> {"bound", "layers", "heads", "devGQA", "devFfn", "columns"}
    [] step = "probe" -> {"bound", "blob"}
    [] step = "mirrors" -> {"depth", "registry"}
    [] step = "mirrorTable" -> {"depth", "mirrors"}
    [] step = "mirrorProbe" -> {"bound", "mirrorTable"}
    [] step \in {"storeProbe", "expertProbe"} -> {"bound", "depth", "mirrors"}
    [] OTHER -> {}

\* What a step sets.  alloc_moe_buffers sizes the K/V rows by the lengths that
\* stand when it is called.
Sized(have) == {r[2] : r \in {x \in {<<"rowsMLA", "kvMLA">>, <<"rowsGQA", "kvGQA">>} : x[1] \in have}}

Sets(step, have) ==
  CASE step = "config" -> {"dims"}
    [] step = "validate" -> {"valid"}
    [] step = "rowsByKind" -> {IF job.attn = "GQA" THEN "rowsGQA" ELSE "rowsMLA"}
    [] step = "buffers" -> Sized(have) \cup {"tables"}
    [] step = "ownBuffers" -> Sized(have)
    [] step = "ownTable" -> {"tables"}
    [] step = "ropeGqaIfGqa" -> IF job.attn = "GQA" THEN {"ropeGqa"} ELSE {}
    [] step = "yarnNeoxIfGptoss" -> IF job.attn = "GPTOSS" THEN {"yarnNeox"} ELSE {}
    [] step = "af" -> {"registry", "blob"}
    [] step = "f32" -> {"norms"}
    [] step = "store" -> {"registry", "norms", "blob"}
    [] step = "resolve" -> {"layers", "attention", "tested"}
    [] step = "resolveAttention" -> {"attention"}
    [] step = "ownLayer" -> {"attention", "blob"}
    [] step = "testedLayers" -> {"tested"}
    [] step = "bind" -> {"bound"}
    [] step = "deviceMLA" -> {"devMLA"}
    [] step = "deviceGQA" -> {"devGQA"}
    [] step = "layerConfig" -> {"devFfn"}
    [] step \in {"columns", "columnsN", "columnsSlots"} -> {"columns"}
    [] step \in {"rowsMLA", "rowsGQA", "yarn", "yarnNeox", "ropeGqa", "heads",
                 "depth", "mirrors", "mirrorTable"} -> {step}
    [] OTHER -> {}

SlotsAsked == IF job.gate.slots = 0 THEN DefaultSlots ELSE job.gate.slots

\* Where the program stops: what it checks, and the NULL tensors of another
\* kind of attention.
Stops(step) ==
  \/ step = "device" /\ ~ job.gate.device
  \/ step = "validate" /\ ~ job.gate.valid
  \/ step = "bind" /\ job.gate.refused
  \/ step = "reference" /\ ~ job.gate.ref
  \/ step \in {"onlyMLA", "attentionMLA", "gpuAttentionMLA", "gpuMLA", "gpuLanesMLA"} /\ job.attn # "MLA"
  \/ step \in {"onlyGQA", "gpuAttentionGQA", "gpuGQA", "gpuLanesGQA"} /\ job.attn # "GQA"
  \/ step = "batchRange" /\ job.gate.n \notin 1 .. BatchMax
  \/ step = "columns" /\ job.gate.n > DeviceBatch
  \/ step = "columnsSlots" /\ SlotsAsked > DeviceBatch
  \/ step = "slotRange" /\ SlotsAsked \notin 1 .. BatchMax
  \/ step = "laneRoom" /\ SlotsAsked > setup.cap
  \/ step = "prompt" /\ job.gate.n > Positions
  \/ step = "shortPrompt" /\ job.gate.n >= Positions

\* The buffers a pass goes beyond.
Overruns(step) ==
  CASE step = "tokens" /\ job.gate.n > Positions -> {"positions"}
    [] step = "batch" /\ job.gate.n > BatchMax -> {"columns"}
    [] step = "fixedLanes" /\ CbatchN > setup.cap -> {"lanes"}
    [] step = "slotLanes" /\ SlotsAsked > setup.cap -> {"lanes"}
    [] step = "raggedLane" /\ job.gate.n > LanePositions -> {"lane"}
    [] OTHER -> {}

Room(step) == IF step = "slots" /\ job.gate.slots \in 1 .. BatchMax THEN job.gate.slots ELSE setup.cap

\* One step of the mode.  The last one prints the verdict.
GateStep ==
  /\ pc = "gate"
  /\ LET step == Head(setup.todo) IN
     IF Stops(step) THEN pc' = "fatal" /\ UNCHANGED setup
     ELSE /\ setup' = [todo  |-> Tail(setup.todo),
                       have  |-> setup.have \cup Sets(step, setup.have),
                       cap   |-> Room(step),
                       unset |-> setup.unset \cup (Reads(step) \ setup.have),
                       over  |-> setup.over \cup Overruns(step)]
          /\ pc' = IF Tail(setup.todo) = <<>> THEN "done" ELSE "gate"
  /\ UNCHANGED <<job, loadVars, mirrorVars, policyVars, replayVars, controlVars>>

GateInit ==
  setup = [todo |-> IF job.source = "gate" THEN Gates[job.gate.mode] ELSE <<>>,
           have |-> {}, cap |-> BatchMax, unset |-> {}, over |-> {}]
=============================================================================
