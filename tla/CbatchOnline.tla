----------------------------- MODULE CbatchOnline -----------------------------
(***************************************************************************)
(* The online continuous-batching schedulers of qwen_infer.c, on the GPU   *)
(* and on the CPU, for MLA and for GQA models.  A batch is a table of      *)
(* requests; a fixed pool of slots, each with a lane of KV positions,      *)
(* computes them.  One loop iteration polls for a precision change, admits *)
(* requests to free slots in order of the table, packs one column per      *)
(* decoding slot and prompt columns under a budget, dispatches the columns *)
(* and emits tokens.  A GPU worker runs a warm-up pass, the batch, and in  *)
(* persistent mode further batches, all on the same KV lanes; a CPU gate   *)
(* runs its batch once.  CbatchReverify adds what a CPU gate does between  *)
(* computing a column and emitting its token.                              *)
(*                                                                         *)
(* Tokens are abstract: whether a token stops its request is a choice.     *)
(* The precision change itself is the subject of GpuTxn: here one is asked *)
(* for at any time, found stale, or applied.  A failing call makes the     *)
(* worker exit and ends the behaviour.                                     *)
(***************************************************************************)
EXTENDS Integers, FiniteSets

CONSTANTS
    B,           \* QWEN_MOE_CB_SLOTS
    R,           \* number of requests of a batch
    PfB,         \* QWEN_MOE_CB_PREFILL_BUDGET
    BatchMax,    \* MOE_BATCH_MAX, columns of one dispatch
    MaxPos,      \* MOE_CBATCH_MAXPOS, positions of a KV lane
    Gates,       \* the schedulers considered, see below
    Workloads,   \* the batches a client submits: prompt lengths, token limits, arrivals
    LastArrival, \* latest arrival, where the count of iterations stops
    MaxRuns,     \* bound on the passes over a batch
    MaxAsked     \* bound on the precision changes asked for

Slots == 0 .. B - 1
Reqs  == 0 .. R - 1

\* What a scheduler does: it runs on the GPU, looks for precision changes,
\* takes further batches, computes a prompt when it admits its request
\* (QWEN_MOE_CB_PREFILL_MODE=0); whether a promotion at startup changed its
\* weights; and how it verifies its columns (CbatchReverify).

\* run_moe_gpu_cbatch_online_gate.
GpuMla == [gpu |-> TRUE, polls |-> TRUE, persistent |-> TRUE, scalar |-> FALSE,
           promoted |-> FALSE, tier |-> 0, near |-> FALSE, resync |-> FALSE]

\* run_moe_gpu_gqa_cbatch_online_gate: the same loop on a warm-up and one batch.
GpuGqa == [GpuMla EXCEPT !.persistent = FALSE]

\* run_moe_gqa_cbatch_online_cpu_gate: the loop alone, on one batch.
CpuGqa == [GpuGqa EXCEPT !.gpu = FALSE, !.polls = FALSE]

\* The online part of run_moe_cbatch_verify_mode, by its options.
CpuMla(scalar, promoted, tier, near, resync) ==
    [CpuGqa EXCEPT !.polls = TRUE, !.scalar = scalar, !.promoted = promoted, !.tier = tier,
                   !.near = near, !.resync = resync]

ASSUME GateAssumption ==
    Gates \subseteq {GpuMla, GpuGqa, CpuGqa} \union
        {CpuMla(scalar, promoted, tier, near, resync) :
            scalar, promoted, near, resync \in BOOLEAN, tier \in 0 .. 2}

\* The manifest loader rejects empty prompts and prompts that fill a lane; a
\* non-positive budget is not rejected by the code, and never finishes.
ASSUME CbatchAssumption ==
    /\ BatchMax \in Nat /\ B \in 1 .. BatchMax
    /\ R \in Nat \ {0} /\ PfB \in Nat \ {0} /\ MaxPos \in Nat
    /\ LastArrival \in Nat /\ MaxRuns \in Nat /\ MaxAsked \in Nat
    /\ Workloads \subseteq [plen   : [Reqs -> 1 .. MaxPos - 1],
                            maxnew : [Reqs -> Int],
                            arrive : [Reqs -> 0 .. LastArrival]]

VARIABLES
    gate,      \* the scheduler; never changes
    pc,
    run,       \* passes begun: on the GPU 0 is the warm-up, later ones are served
    load,      \* the batch
    maxnew,    \* rq_maxnew, the limits clamped to the lane
    nout,      \* rq_nout, tokens emitted
    active,    \* mcb_active: 0 free, 1 decoding, 2 prefilling
    req,       \* mcb_req, the request in a slot
    pref,      \* mcb_pref, prompt positions computed
    pos,       \* mcb_pos, the position of the next decode column
    qhead,     \* next request to admit
    nact,      \* occupied slots
    drain,     \* gpu_demotion_drain, cpu_precision_drain
    step,      \* iterations, counted as far as arrivals tell them apart
    cols,      \* the columns of the last dispatch: slot and position
    fresh,     \* the last dispatch computed logits
    kv,        \* what each KV position holds
    epoch,     \* g_moe_gpu_weight_epoch, g_moe_cpu_weight_epoch
    asked,     \* a precision change is asked for
    nasked,    \* precision changes asked for so far
    stopped    \* requests whose last token was an end of text

table == <<load, maxnew>>
slots == <<active, req, pref, pos>>
txn   == <<epoch, asked, nasked>>
vars  == <<gate, pc, run, table, nout, slots, qhead, nact, drain, step, cols, fresh, kv, txn,
           stopped>>

Lesser(a, b)  == IF a <= b THEN a ELSE b
Greater(a, b) == IF a >= b THEN a ELSE b

Later == Lesser(step + 1, LastArrival)

\* A KV row: the pass and request it belongs to, the weights it was computed
\* with, and whether it is what computing the request token by token gives.
Row(r, w, exact) == [run |-> run, req |-> r, w |-> w, exact |-> exact]

\* The weights in force; 0 is the model as it was loaded, which a promotion at
\* startup replaces before the first request.
Weights == IF gate.promoted THEN epoch + 1 ELSE epoch

Unwritten == [run |-> -1, req |-> -1, w |-> -1, exact |-> FALSE]
ClearedKv == [s \in Slots |-> [p \in 0 .. MaxPos - 1 |-> Unwritten]]

-----------------------------------------------------------------------------
(* A pass begins.                                                          *)

\* Variant: the limit is not clamped to what the lane holds.
Unclamped(w) == w.maxnew

\* moe_cb4b_admit_guard.
Clamped(w) ==
    [r \in Reqs |-> Lesser(w.maxnew[r], MaxPos - w.plen[r])]

Init ==
    /\ gate \in Gates
    /\ pc = "loop" /\ run = 0
    /\ load \in Workloads /\ maxnew = Clamped(load)
    /\ nout = [r \in Reqs |-> 0] /\ stopped = {}
    /\ active = [s \in Slots |-> 0] /\ req = [s \in Slots |-> 0]
    /\ pref = [s \in Slots |-> 0] /\ pos = [s \in Slots |-> 0]
    /\ qhead = 0 /\ nact = 0 /\ drain = FALSE /\ step = 0
    /\ cols = {} /\ fresh = FALSE /\ kv = ClearedKv
    /\ epoch = 0 /\ asked = FALSE /\ nasked = 0

\* The pass after the warm-up repeats its batch; a persistent worker then
\* takes another one.  What the slots and lanes held stays.
Begin(w) ==
    /\ pc = "idle" /\ run < MaxRuns
    /\ gate.gpu
    /\ IF run = 0 THEN w = load ELSE gate.persistent
    /\ run' = run + 1
    /\ load' = w /\ maxnew' = Clamped(w)
    /\ nout' = [r \in Reqs |-> 0] /\ stopped' = {}
    /\ active' = [s \in Slots |-> 0]
    /\ qhead' = 0 /\ nact' = 0 /\ drain' = FALSE /\ step' = 0
    /\ pc' = "loop"
    /\ UNCHANGED <<gate, req, pref, pos, cols, fresh, kv, txn>>

-----------------------------------------------------------------------------
(* Precision changes.                                                      *)

\* The passes that look for changes: all but the warm-up.
Measured == gate.polls /\ (gate.gpu => run > 0)

\* Some controller asks for a change, at any time.
Ask ==
    /\ gate.polls
    /\ ~asked /\ nasked < MaxAsked
    /\ asked' = TRUE
    /\ nasked' = nasked + 1
    /\ UNCHANGED <<gate, pc, run, table, nout, slots, qhead, nact, drain, step, cols, fresh, kv,
                   epoch, stopped>>

\* moe_gpu_demotion_apply_quiescent: the change is applied, which clears the
\* KV lanes, or fails and leaves everything as it was.
ApplyGpu ==
    /\ asked' = FALSE
    /\ \/ epoch' = epoch + 1 /\ kv' = ClearedKv
       \/ UNCHANGED <<epoch, kv>>
    /\ UNCHANGED nasked

\* moe_promotion_maybe_apply and moe_demotion_nq_maybe_apply: pointers are
\* swapped and the lanes stay as they are.  A line that cannot be applied
\* stays in its file, which goes on asking.
ApplyCpu ==
    /\ epoch' = epoch + 1
    /\ asked' \in {FALSE, asked}
    /\ UNCHANGED <<nasked, kv>>

Apply == IF gate.gpu THEN ApplyGpu ELSE ApplyCpu

\* The loop goes on while a request waits or is in a slot.  The warm-up does
\* not look for changes; on the GPU a stale one is answered at once.
Poll ==
    /\ pc = "loop"
    /\ qhead < R \/ nact > 0
    /\ IF Measured /\ ~drain /\ asked
         THEN \/ drain' = TRUE /\ UNCHANGED asked
              \/ gate.gpu /\ asked' = FALSE /\ UNCHANGED drain
         ELSE UNCHANGED <<drain, asked>>
    /\ pc' = "boundary"
    /\ UNCHANGED <<gate, run, table, nout, slots, qhead, nact, step, cols, fresh, kv, epoch,
                   nasked, stopped>>

\* Variant: a change is applied as soon as admission has been paused.
AtOnce == drain

\* Variant: a change waits until the whole batch has been admitted.
AfterBatch == drain /\ nact = 0 /\ qhead = R

Quiescent == drain /\ nact = 0

Boundary ==
    /\ pc = "boundary"
    /\ IF Quiescent THEN Apply /\ drain' = FALSE ELSE UNCHANGED <<txn, kv, drain>>
    /\ pc' = "admit"
    /\ UNCHANGED <<gate, run, table, nout, slots, qhead, nact, step, cols, fresh, stopped>>

\* On the GPU one more change is looked for after the last request.
Finish ==
    /\ pc = "loop"
    /\ qhead = R /\ nact = 0
    /\ IF gate.gpu /\ Measured /\ asked
         THEN Apply \/ (asked' = FALSE /\ UNCHANGED <<epoch, nasked, kv>>)
         ELSE UNCHANGED <<txn, kv>>
    /\ pc' = "idle"
    /\ UNCHANGED <<gate, run, table, nout, slots, qhead, nact, drain, step, cols, fresh, stopped>>

-----------------------------------------------------------------------------
(* Admission: free slots in ascending order take the head of the queue, as *)
(* long as the head has arrived.                                           *)

Free == {s \in Slots : active[s] = 0}
Rank(s) == Cardinality({u \in Free : u < s})

Admitted ==
    IF drain THEN {}
    ELSE {s \in Free : /\ qhead + Rank(s) < R
                       /\ \A r \in qhead .. qhead + Rank(s) : load.arrive[r] <= step}

\* Variant: a slot keeps the prompt position of its previous request.
OccupyKeepsPref ==
    /\ active' = [s \in Slots |-> IF s \in Admitted THEN (IF gate.scalar THEN 1 ELSE 2)
                                  ELSE active[s]]
    /\ req' = [s \in Slots |-> IF s \in Admitted THEN qhead + Rank(s) ELSE req[s]]
    /\ UNCHANGED pref
    /\ pos' = [s \in Slots |-> IF s \notin Admitted THEN pos[s]
                               ELSE IF gate.scalar THEN load.plen[qhead + Rank(s)] ELSE 0]

Occupy ==
    /\ active' = [s \in Slots |-> IF s \in Admitted THEN (IF gate.scalar THEN 1 ELSE 2)
                                  ELSE active[s]]
    /\ req' = [s \in Slots |-> IF s \in Admitted THEN qhead + Rank(s) ELSE req[s]]
    /\ pref' = [s \in Slots |-> IF s \in Admitted /\ ~gate.scalar THEN 0 ELSE pref[s]]
    /\ pos' = [s \in Slots |-> IF s \notin Admitted THEN pos[s]
                               ELSE IF gate.scalar THEN load.plen[qhead + Rank(s)] ELSE 0]

\* The scalar prefill: the prompt is computed at once, its rows are copied to
\* the lane of the slot and its first token is emitted.  Nothing asks whether
\* that token is the last.
PrefillAlone ==
    /\ nout' = [r \in Reqs |-> nout[r] + Cardinality({s \in Admitted : qhead + Rank(s) = r})]
    /\ kv' = [s \in Slots |-> [p \in 0 .. MaxPos - 1 |->
                IF s \in Admitted /\ p < load.plen[qhead + Rank(s)]
                  THEN Row(qhead + Rank(s), Weights, TRUE) ELSE kv[s][p]]]

\* With no slot occupied the iteration ends here.
Admit ==
    /\ pc = "admit"
    /\ Occupy
    /\ IF gate.scalar THEN PrefillAlone ELSE UNCHANGED <<nout, kv>>
    /\ qhead' = qhead + Cardinality(Admitted)
    /\ nact' = nact + Cardinality(Admitted)
    /\ IF nact' = 0 THEN pc' = "loop" /\ step' = Later
                    ELSE pc' = "dispatch" /\ UNCHANGED step
    /\ UNCHANGED <<gate, run, table, drain, cols, fresh, txn, stopped>>

-----------------------------------------------------------------------------
(* Packing and computing.                                                  *)

Decoding   == {s \in Slots : active[s] = 1}
Prefilling == {s \in Slots : active[s] = 2}

\* Variant: the budget leaves no room for the decode columns.
BudgetAlone == PfB

\* The budget of prompt columns of one dispatch.
Budget == Lesser(PfB, BatchMax - Cardinality(Decoding))

\* Prompt positions the slots below s have left to compute.
Left(s) == IF active[s] = 2 THEN load.plen[req[s]] - pref[s] ELSE 0
LeftBelow[s \in 0 .. B] == IF s = 0 THEN 0 ELSE LeftBelow[s - 1] + Left(s - 1)

\* Lower slots are served first.
Take(s) == Greater(0, Lesser(Left(s), Budget - LeftBelow[s]))

PromptCols == {[slot |-> s, pos |-> p] : s \in Prefilling, p \in 0 .. MaxPos - 1}

\* Variant: logits are computed for decode columns only.
LogitsOfDecoding(c) == Decoding # {}

\* want_logits: a step that only begins prompts skips the last product; the
\* GPU computes it always.
WantLogits(c) ==
    \/ gate.gpu \/ Decoding # {}
    \/ \E s \in Prefilling : [slot |-> s, pos |-> load.plen[req[s]] - 1] \in c

\* Every column writes its KV position and then attends to all positions of
\* its lane up to its own.
\* The code also handles a dispatch without columns, which a positive budget
\* never leads to.
Dispatch ==
    /\ pc = "dispatch"
    /\ cols' = {[slot |-> s, pos |-> pos[s]] : s \in Decoding} \union
               {c \in PromptCols : c.pos \in pref[c.slot] .. pref[c.slot] + Take(c.slot) - 1}
    /\ pref' = [s \in Slots |-> pref[s] + Take(s)]
    /\ kv' = [s \in Slots |-> [p \in 0 .. MaxPos - 1 |->
                IF [slot |-> s, pos |-> p] \in cols' THEN Row(req[s], Weights, FALSE)
                ELSE kv[s][p]]]
    /\ fresh' = WantLogits(cols')
    /\ IF cols' = {} THEN pc' = "loop" /\ step' = Later
                     ELSE pc' = "emit" /\ UNCHANGED step
    /\ UNCHANGED <<gate, run, table, nout, active, req, pos, qhead, nact, drain, txn, stopped>>

\* The slots whose columns yield a token: all that decode, and those whose
\* last prompt position was computed.
Emitting ==
    Decoding \union
    {s \in Prefilling : [slot |-> s, pos |-> load.plen[req[s]] - 1] \in cols}

Position(s) == IF active[s] = 1 THEN pos[s] + 1 ELSE load.plen[req[s]]

\* Variant: only an end of text frees a slot that has just been prefilled.
EvictedLate(S) ==
    {s \in Emitting : s \in S \/ (active[s] = 1 /\ (nout[req[s]] + 1 >= maxnew[req[s]]
                                                      \/ Position(s) >= MaxPos))}

\* The slots freed, when the tokens of S end their text.
Evicted(S) ==
    {s \in Emitting : \/ s \in S
                      \/ nout[req[s]] + 1 >= maxnew[req[s]]
                      \/ active[s] = 1 /\ Position(s) >= MaxPos}

\* Variant: slots freed by the emission are not counted.
EmitMiscounts ==
    /\ pc = "emit"
    /\ \E S \in SUBSET Emitting :
         /\ active' = [s \in Slots |-> IF s \in Evicted(S) THEN 0
                                       ELSE IF s \in Emitting THEN 1 ELSE active[s]]
         /\ stopped' = stopped \union {req[s] : s \in S}
         /\ nact' = IF S = {} THEN nact ELSE nact - Cardinality(Evicted(S))
    /\ nout' = [r \in Reqs |-> nout[r] + Cardinality({s \in Emitting : req[s] = r})]
    /\ pos' = [s \in Slots |-> IF s \in Emitting THEN Position(s) ELSE pos[s]]
    /\ step' = Later
    /\ pc' = "loop"
    /\ UNCHANGED <<gate, run, table, req, pref, qhead, drain, cols, fresh, kv, txn>>

Emit ==
    /\ pc = "emit"
    /\ \E S \in SUBSET Emitting :
         /\ active' = [s \in Slots |-> IF s \in Evicted(S) THEN 0
                                       ELSE IF s \in Emitting THEN 1 ELSE active[s]]
         /\ stopped' = stopped \union {req[s] : s \in S}
         /\ nact' = nact - Cardinality(Evicted(S))
    /\ nout' = [r \in Reqs |-> nout[r] + Cardinality({s \in Emitting : req[s] = r})]
    /\ pos' = [s \in Slots |-> IF s \in Emitting THEN Position(s) ELSE pos[s]]
    /\ step' = Later
    /\ pc' = "loop"
    /\ UNCHANGED <<gate, run, table, req, pref, qhead, drain, cols, fresh, kv, txn>>

-----------------------------------------------------------------------------
Scheduler == Poll \/ Boundary \/ Finish \/ Admit \/ Dispatch \/ Emit

Next == Ask \/ (\E w \in Workloads : Begin(w)) \/ Scheduler

\* The loop runs by itself; nothing makes a client submit another batch.
Spec == Init /\ [][Next]_vars /\ WF_vars(Scheduler)

-----------------------------------------------------------------------------
(* Properties.                                                             *)

TypeOK ==
    /\ gate \in Gates
    /\ pc \in {"loop", "boundary", "admit", "dispatch", "emit", "idle"}
    /\ run \in 0 .. MaxRuns
    /\ load \in Workloads
    /\ maxnew \in [Reqs -> Int]
    /\ nout \in [Reqs -> 0 .. MaxPos]
    /\ active \in [Slots -> 0 .. 2]
    /\ req \in [Slots -> Reqs]
    /\ pref \in [Slots -> 0 .. MaxPos]
    /\ pos \in [Slots -> 0 .. MaxPos]
    /\ qhead \in 0 .. R
    /\ nact \in 0 .. B
    /\ {drain, asked, fresh} \subseteq BOOLEAN
    /\ step \in 0 .. LastArrival /\ epoch \in Nat
    /\ cols \subseteq [slot : Slots, pos : 0 .. MaxPos - 1]
    /\ stopped \subseteq Reqs

\* Every column attends only to rows of its own request, of this pass: never
\* to what an earlier request left in the lane or to a position not computed
\* yet; and to rows computed with the weights in force, or by the scalar step
\* of the first tier, which always uses the weights as loaded.
AttendsOwnContext ==
    pc = "emit" =>
        \A c \in cols : \A p \in 0 .. c.pos :
            /\ kv[c.slot][p].run = run /\ kv[c.slot][p].req = req[c.slot]
            /\ kv[c.slot][p].w \in {Weights} \union (IF gate.tier > 0 THEN {0} ELSE {})

\* What the comment on the drain of the CPU scheduler asks for ("That can make
\* one request use old-policy KV/history and new-policy weights"): no column
\* attends to rows of other weights than those in force.
OneWeightPolicy ==
    pc = "emit" => \A c \in cols : \A p \in 0 .. c.pos : kv[c.slot][p].w = Weights

\* A token is taken only from logits its own step computed.
EmitsFreshLogits == pc = "emit" /\ Emitting # {} => fresh

\* What is counted is what is used: a dispatch never exceeds the buffers sized
\* for it, nor its prompt columns the budget; the number of occupied slots, which
\* the loop and the quiescent point rely on, is right, and no request is in two.
ResourcesFit ==
    /\ pc = "emit" =>
        /\ Cardinality(cols) <= BatchMax
        /\ Cardinality({c \in cols : active[c.slot] = 2}) <= PfB
    /\ nact = Cardinality(Slots \ Free)
    /\ \A s, u \in Slots \ Free : req[s] = req[u] => s = u

\* When a pass ends every request has its tokens: as many as its limit unless
\* its text ended, and at least the one its prompt yields; after a scalar
\* prefill at least one more.
AnswersComplete ==
    LET least == IF gate.scalar THEN 2 ELSE 1
    IN  pc = "idle" => \A r \in Reqs :
            nout[r] >= least /\ (r \in stopped \/ nout[r] = Greater(least, maxnew[r]))

\* On the GPU a change asked for while a pass is under way is answered,
\* whatever keeps arriving; the warm-up leaves it to the pass after it.  And every
\* pass ends, also on the CPU under a control file that names a target nothing
\* can be done about and asks for a change at every poll.
ChangeIsAnswered ==
    /\ asked /\ gate.gpu /\ run > 0 /\ pc # "idle" ~> ~asked
    /\ pc # "idle" ~> pc = "idle"

\* The scheduler implements EpochServing.
ES == INSTANCE EpochServing WITH
        Requests <- {<<i, r>> : i \in 0 .. MaxRuns, r \in Reqs},
        waiting  <- {<<i, r>> : i \in run + 1 .. MaxRuns, r \in Reqs} \union
                    {<<run, r>> : r \in qhead .. R - 1},
        inflight <- {<<run, req[s]>> : s \in Slots \ Free}

ImplementsEpochServing == ES!Safety

=============================================================================
