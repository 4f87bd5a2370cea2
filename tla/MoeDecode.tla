-------------------------------- MODULE MoeDecode --------------------------------
(***************************************************************************)
(* The decoding modes of the mixture-of-experts engine (the gates and      *)
(* modes main of qwen_infer.c dispatches on), for models with MLA and with *)
(* GQA attention: generation on the GPU, generation on the CPU from a GGUF *)
(* file, the forced prompts of the verification modes and of the gates     *)
(* that compare CPU and GPU, batches in lockstep, and the batches of       *)
(* requests that are all admitted at once, with their prompts computed one *)
(* position at a time in the slots (feed), in one dispatch (combined), or  *)
(* alone on the CPU (scalar).                                              *)
(*                                                                         *)
(* A step on the GPU is a call per layer and one that finishes; the device *)
(* refuses a position beyond its window.  The CPU has a cache for a single *)
(* sequence, and one with a row per sequence of a batch.                   *)
(***************************************************************************)
EXTENDS DecodeEngine

CONSTANTS
    Window,     \* MLA_L0_MAXPOS, GQA_L0_MAXPOS, positions of a lane of the device
    MoeMaxPos,  \* MOE_MAXPOS, positions of the cache for a single sequence
    CbMaxPos,   \* MOE_CBATCH_MAXPOS, positions of a slot
    BatchMax,   \* MOE_BATCH_MAX, rows of a dispatch
    GateWarm    \* steps of a parity gate before it measures

MoeModes == {"generate", "gguf", "verify", "safetensors", "attention", "layers",
             "parity", "lockstep", "hybrid", "feed", "combined", "scalar"}
SlotModes == {"feed", "combined", "scalar"}

\* The prompts and targets of the batches are tables of the source.
ASSUME MoeAssumption ==
    /\ {Window, MoeMaxPos, CbMaxPos, BatchMax} \subseteq Nat \ {0}
    /\ CbMaxPos <= Window /\ Window <= MoeMaxPos /\ MoeMaxPos <= MaxSeq
    /\ B <= BatchMax /\ GateWarm \in Nat
    /\ \A j \in Jobs :
          /\ j.mode \in MoeModes => j.kind = "fp32" /\ j.attn \in {"mla", "gqa"}
          /\ j.mode \in {"generate", "gguf", "verify", "safetensors", "parity"} => Len(j.prompt) <= MoeMaxPos
          /\ j.mode = "layers" => j.attn = "mla"
          /\ j.mode \in {"attention", "layers"} \/ (j.mode = "parity" /\ j.attn = "mla") =>
                Len(j.prompt) <= Window
          /\ j.mode \in SlotModes => \A s \in Lanes :
                /\ j.windows[s + 1] \in Rows
                /\ Len(j.windows[s + 1]) \in 1 .. CbMaxPos - 1
                /\ j.maxnew[s] \in Nat \ {0}

\* The caches of the CPU: that of a single sequence, and the batch.
Single     == B
Batched(b) == B + 1 + b

MoeInit ==
    /\ job.mode \in MoeModes
    /\ pc = CASE job.mode \in {"lockstep", "hybrid", "scalar"} -> job.mode
              [] job.mode = "combined"                         -> "warmup"
              [] job.mode = "feed"                             -> "slots"
              [] OTHER                                         -> "moeprompt"
    /\ lanes = [l \in 0 .. 2 * B |-> EmptyLane]
    /\ active = [s \in Lanes |-> IF job.mode \in SlotModes THEN 1 ELSE 0]

-----------------------------------------------------------------------------
(* Steps.                                                                  *)

\* moe_forward_token.
HostToken(p, t) == <<Column(Single, p, t)>>

\* A position of the one sequence the device holds: its attention alone, a
\* layer whose result the host reads back, and the layers of a whole step
\* that is evaluated when it is finished.
AttentionToken(p, t) == <<Column(0, p, t)>>
LayerToken(p, t)     == <<Column(0, p, t)>>
MlaToken(p, t)       == <<Column(0, p, t)>>
GqaToken(p, t)       == <<Column(0, p, t)>>
DeviceToken(p, t)    == IF job.attn = "mla" THEN MlaToken(p, t) ELSE GqaToken(p, t)

\* The same functions with every sequence at one position.
DeviceStep(p, t) == [i \in 1 .. B |-> Column(i - 1, p, t[i - 1])]

\* moe_forward_batch: every sequence at its first position.
HostBatch(t) == [i \in 1 .. B |-> Column(Batched(i - 1), 0, t[i - 1])]

\* The device computes nothing for a step with a position outside its window.
Refused(cs) == \E i \in 1 .. Len(cs) : cs[i].lane < B /\ cs[i].pos >= Window

\* A refused step ends the program where its result is used.
FeedOrFail(cs) ==
    IF Refused(cs) THEN pc' = "failed" /\ UNCHANGED engine
                   ELSE Feed(cs) /\ UNCHANGED pc

\* Where only time is measured, it goes unnoticed.
FeedOrSkip(cs) == IF Refused(cs) THEN UNCHANGED engine ELSE Feed(cs)

-----------------------------------------------------------------------------
(* One sequence.                                                           *)

\* The generation gates refuse a prompt that fills the cache.
RefusePrompt ==
    /\ pc = "moeprompt" /\ pos = -1
    /\ job.mode = "generate" /\ Len(job.prompt) >= MoeMaxPos
    /\ pc' = "failed"
    /\ UNCHANGED <<job, engine, pos, out, slots>>

Accepted == job.mode = "generate" => Len(job.prompt) < MoeMaxPos

\* A prompt is fed one position at a time.
PromptStep(cs) ==
    /\ pc = "moeprompt" /\ Accepted
    /\ pos + 1 < Len(job.prompt)
    /\ FeedOrFail(cs)
    /\ pos' = pos + 1
    /\ UNCHANGED <<job, out, slots>>

At        == pos + 1
NextToken == job.prompt[pos + 2]

PromptMla == /\ job.mode = "generate" /\ job.attn = "mla"
             /\ PromptStep(DeviceToken(At, NextToken))
PromptGqa == /\ job.mode = "generate" /\ job.attn = "gqa"
             /\ PromptStep(DeviceToken(At, NextToken))

PromptGguf == job.mode = "gguf" /\ PromptStep(HostToken(At, NextToken))

\* The modes that only write down what the forced prompt yields, with the
\* converted weights and with those of a safetensors file.
Verify            == job.mode = "verify" /\ PromptStep(HostToken(At, NextToken))
VerifySafetensors == job.mode = "safetensors" /\ PromptStep(HostToken(At, NextToken))

\* The gates compare the CPU and the device at every position: the attention
\* of the first layer (for GQA the CPU has run before), all layers one by one,
\* and the whole step.
AttentionMla == /\ job.mode = "attention" /\ job.attn = "mla"
                /\ PromptStep(HostToken(At, NextToken) \o AttentionToken(At, NextToken))
AttentionGqa == /\ job.mode = "attention" /\ job.attn = "gqa"
                /\ PromptStep(AttentionToken(At, NextToken))
Layers       == /\ job.mode = "layers"
                /\ PromptStep(HostToken(At, NextToken) \o LayerToken(At, NextToken))
ParityMla    == /\ job.mode = "parity" /\ job.attn = "mla"
                /\ PromptStep(HostToken(At, NextToken) \o DeviceToken(At, NextToken))
ParityGqa    == /\ job.mode = "parity" /\ job.attn = "gqa"
                /\ PromptStep(HostToken(At, NextToken) \o DeviceToken(At, NextToken))

PromptDone ==
    /\ pc = "moeprompt" /\ Accepted
    /\ pos + 1 = Len(job.prompt)
    /\ pc' = job.mode
    /\ UNCHANGED <<job, engine, pos, out, slots>>

\* Generation ends with the text, or where the cache of the host would.
GenerationEnds(t) == t \in Eos \/ pos + 1 >= MoeMaxPos

\* The last token is fed too, although nothing is asked after it.
Generate(a) ==
    /\ pc = "generate" /\ job.attn = a
    /\ Len(out[0]) < job.n
    /\ out' = [out EXCEPT ![0] = Append(@, logits[0])]
    /\ IF GenerationEnds(logits[0])
         THEN pc' = "done" /\ UNCHANGED <<engine, pos>>
         ELSE /\ FeedOrFail(DeviceToken(pos + 1, logits[0]))
              /\ pos' = pos + 1
    /\ UNCHANGED <<job, slots>>

GenerateMla == Generate("mla")
GenerateGqa == Generate("gqa")

\* The choice after the prompt is fed before anything is written.
GgufGenerate ==
    /\ pc = "gguf"
    /\ Len(out[0]) < job.n /\ pos + 1 < MoeMaxPos
    /\ Feed(HostToken(pos + 1, logits[0]))
    /\ out' = [out EXCEPT ![0] = Append(@, logits'[0])]
    /\ pos' = pos + 1
    /\ UNCHANGED <<job, pc, slots>>

\* The gates go on with the device alone, to measure it.  Those for MLA know the
\* window; that for GQA measures job.n positions, fewer where the cache of the
\* host ends, but at least one after the warm-up.
MeasureEnd ==
    LET n == Len(job.prompt)
    IN  IF job.attn = "mla" THEN Window
        ELSE IF n + job.n <= MoeMaxPos THEN n + job.n
        ELSE IF n + GateWarm < MoeMaxPos THEN MoeMaxPos ELSE n + GateWarm + 1

Measure(cs) ==
    /\ pc = job.mode /\ pos + 1 < MeasureEnd
    /\ FeedOrSkip(cs)
    /\ pos' = pos + 1
    /\ UNCHANGED <<job, pc, out, slots>>

Recurring == job.prompt[((pos + 1) % Len(job.prompt)) + 1]

MeasureLayers == job.mode = "layers" /\ Measure(LayerToken(At, Recurring))
MeasureMla    == job.mode = "parity" /\ job.attn = "mla" /\ Measure(DeviceToken(At, Recurring))
MeasureGqa    == job.mode = "parity" /\ job.attn = "gqa" /\ Measure(DeviceToken(At, Recurring))

-----------------------------------------------------------------------------
(* A batch in lockstep.                                                    *)

\* The tokens of a step come from a text, each sequence one further on.
Corpus(i) == [b \in Lanes |-> job.prompt[((b + i) % Len(job.prompt)) + 1]]

\* The CPU computes the first position, then the device, and both are compared.
\* For GQA the CPU does so with both of its ways to dispatch the experts.
BatchGateMla ==
    /\ pc = "lockstep" /\ job.attn = "mla" /\ pos = -1
    /\ FeedOrFail(HostBatch(Corpus(0)) \o DeviceStep(0, Corpus(0)))
    /\ pos' = 0
    /\ UNCHANGED <<job, out, slots>>

BatchGateGqa ==
    /\ pc = "lockstep" /\ job.attn = "gqa" /\ pos = -1
    /\ FeedOrFail(HostBatch(Corpus(0)) \o DeviceStep(0, Corpus(0)))
    /\ pos' = 0
    /\ UNCHANGED <<job, out, slots>>

\* The gate for GQA takes the cache of the host for the window.
LockstepEnd == IF job.attn = "mla" THEN Window ELSE MoeMaxPos

MeasureBatch ==
    /\ pc = "lockstep" /\ pos \in 0 .. job.n - 1 /\ pos + 1 < LockstepEnd
    /\ FeedOrSkip(DeviceStep(pos + 1, Corpus(pos)))
    /\ pos' = pos + 1
    /\ UNCHANGED <<job, pc, out, slots>>

MeasureBatchMla == job.attn = "mla" /\ MeasureBatch
MeasureBatchGqa == job.attn = "gqa" /\ MeasureBatch

\* The CPU alone: the batch, and what a narrow margin makes it compute again,
\* one sequence at a time in the other cache.
HybridBatch ==
    /\ pc = "hybrid" /\ pos = -1
    /\ Feed(HostBatch(Corpus(0)))
    /\ pos' = 0
    /\ UNCHANGED <<job, pc, out, slots>>

HybridChoice ==
    /\ pc = "hybrid" /\ pos = 0 /\ scan < B
    /\ \/ /\ out' = [out EXCEPT ![scan] = Append(@, logits[scan])]
          /\ UNCHANGED <<lanes, cols, clear>>
       \/ \E cs \in {HostToken(0, Corpus(0)[scan])} : \E ls \in {Written(cs)} :
          /\ Compute(cs, ls)
          /\ out' = [out EXCEPT ![scan] = Append(@, Answer(ls, cs[1]))]
    /\ scan' = scan + 1
    /\ UNCHANGED <<job, pc, logits, pos, active, tok, cbpos>>

-----------------------------------------------------------------------------
(* Requests in slots, all admitted at the start.                           *)

PromptIn(s) == job.windows[s + 1]
Plen(s)     == Len(PromptIn(s))

\* The prompt of a slot, as columns of a lane.
PromptFor(s, l) == [i \in 1 .. Plen(s) |-> Column(l, i - 1, PromptIn(s)[i])]

\* A lane with the first n rows of another.
Copied(lane, from, n) ==
    [lane EXCEPT !.k = [p \in Positions |-> IF p < n THEN from.k[p] ELSE @[p]],
                 !.v = [p \in Positions |-> IF p < n THEN from.v[p] ELSE @[p]]]

\* The CPU computes a prompt in the cache for a single sequence, a position in
\* a step.
ScalarPrefill ==
    /\ pc = "scalar"
    /\ \E cs \in {PromptFor(scan, Single)} : \E ls \in {Written(cs)} :
       /\ cols' = <<cs[Plen(scan)]>>
       /\ clear' = \A i \in 1 .. Len(cs) : Clear(ls, cs[i])
       /\ lanes' = [ls EXCEPT ![scan] = Copied(@, ls[Single], Plen(scan))]
       /\ tok' = [tok EXCEPT ![scan] = Answer(ls, cs[Plen(scan)])]
    /\ cbpos' = [cbpos EXCEPT ![scan] = Plen(scan)]
    /\ scan' = scan + 1
    /\ pc' = IF scan + 1 = B THEN "slots" ELSE "scalar"
    /\ UNCHANGED <<job, logits, pos, out, active>>

AllPrompts ==
    LET upto[s \in 0 .. B] == IF s = 0 THEN <<>> ELSE upto[s - 1] \o PromptFor(s - 1, s - 1)
    IN  upto[B]

\* All prompts in one dispatch, twice: the first is not measured and its
\* outcome not looked at.
Warmup ==
    /\ pc = "warmup"
    /\ IF Len(AllPrompts) > BatchMax
         THEN pc' = "failed" /\ UNCHANGED <<lanes, cols, clear>>
         ELSE pc' = "combined" /\ Compute(AllPrompts, Written(AllPrompts))
    /\ UNCHANGED <<job, logits, pos, out, slots>>

CombinedPrefill ==
    /\ pc = "combined"
    /\ \E cs \in {AllPrompts} : \E ls \in {Written(cs)} :
       /\ Compute(cs, ls)
       /\ tok' = [s \in Lanes |-> Answer(ls, Column(s, Plen(s) - 1, PromptIn(s)[Plen(s)]))]
    /\ cbpos' = [s \in Lanes |-> Plen(s)]
    /\ pc' = "slots"
    /\ UNCHANGED <<job, logits, pos, out, active, scan>>

WarmupMla  == job.attn = "mla" /\ Warmup
WarmupGqa  == job.attn = "gqa" /\ Warmup
PrefillMla == job.attn = "mla" /\ CombinedPrefill
PrefillGqa == job.attn = "gqa" /\ CombinedPrefill

\* Slots that are not at their end.
Feeding == {s \in Lanes : active[s] = 1}

FedToken(s) == IF cbpos[s] < Plen(s) THEN PromptIn(s)[cbpos[s] + 1] ELSE tok[s]

SlotColumns ==
    LET nth(i) == CHOOSE s \in Feeding : Cardinality({u \in Feeding : u < s}) = i - 1
    IN  [i \in 1 .. Cardinality(Feeding) |-> Column(nth(i), cbpos[nth(i)], FedToken(nth(i)))]

\* A slot ends at its target or at the end of its lane.
SlotEnds(s, n, p) == n >= job.maxnew[s] \/ p >= CbMaxPos

\* The token after the prompt is only fed; those after it are recorded.
SlotStep ==
    /\ pc = "slots" /\ Feeding # {}
    /\ \E cs \in {SlotColumns} : \E ls \in {Written(cs)} :
       \E a \in {[s \in Feeding |-> Answer(ls, Column(s, cbpos[s], FedToken(s)))]} :
       LET past(s) == cbpos[s] + 1 - Plen(s)
           o == [r \in Streams |-> IF r \in Feeding /\ past(r) > 0 THEN Append(out[r], a[r])
                                                                   ELSE out[r]]
       IN
       /\ Compute(cs, ls)
       /\ out' = o
       /\ tok' = [s \in Lanes |-> IF s \in Feeding /\ past(s) >= 0 THEN a[s] ELSE tok[s]]
       /\ cbpos' = [s \in Lanes |-> IF s \in Feeding THEN cbpos[s] + 1 ELSE cbpos[s]]
       /\ active' = [s \in Lanes |-> IF s \in Feeding /\ ~SlotEnds(s, Len(o[s]), cbpos[s] + 1)
                                       THEN 1 ELSE 0]
    /\ UNCHANGED <<job, pc, logits, pos, scan>>

FeedMla      == job.mode = "feed" /\ job.attn = "mla" /\ SlotStep
FeedGqa      == job.mode = "feed" /\ job.attn = "gqa" /\ SlotStep
DecodeMla    == job.mode = "combined" /\ job.attn = "mla" /\ SlotStep
DecodeGqa    == job.mode = "combined" /\ job.attn = "gqa" /\ SlotStep
DecodeScalar == job.mode = "scalar" /\ SlotStep

MoeExhausted ==
    CASE pc = "generate" -> Len(out[0]) >= job.n
      [] pc = "gguf"     -> Len(out[0]) >= job.n \/ pos + 1 >= MoeMaxPos
      [] pc \in {"verify", "safetensors", "attention"} -> TRUE
      [] pc \in {"parity", "layers"}    -> pos + 1 >= MeasureEnd
      [] pc = "lockstep" -> pos >= job.n \/ (pos >= 0 /\ pos + 1 >= LockstepEnd)
      [] pc = "hybrid"   -> scan = B
      [] pc = "slots"    -> Feeding = {}
      [] OTHER           -> FALSE

MoeStop ==
    /\ MoeExhausted
    /\ pc' = "done"
    /\ UNCHANGED <<job, engine, pos, out, slots>>

MoeNext ==
    \/ RefusePrompt \/ PromptMla \/ PromptGqa \/ PromptGguf \/ Verify \/ VerifySafetensors
    \/ AttentionMla \/ AttentionGqa \/ Layers \/ ParityMla \/ ParityGqa \/ PromptDone
    \/ GenerateMla \/ GenerateGqa \/ GgufGenerate
    \/ MeasureLayers \/ MeasureMla \/ MeasureGqa
    \/ BatchGateMla \/ BatchGateGqa \/ MeasureBatchMla \/ MeasureBatchGqa
    \/ HybridBatch \/ HybridChoice
    \/ ScalarPrefill \/ WarmupMla \/ WarmupGqa \/ PrefillMla \/ PrefillGqa
    \/ FeedMla \/ FeedGqa \/ DecodeMla \/ DecodeGqa \/ DecodeScalar
    \/ MoeStop

=============================================================================
