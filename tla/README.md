# TLA+ models of beglin

beglin is an LLM inference engine in C (`qwen_infer.c`, with the quantised
kernels of `q4gemv.h` and `q4gemv_g256.h`), a GPU backend on MLX
(`mlx_moe.cpp`), and a control plane in Python (`tools/`) that changes the
precision of a serving model while it runs. Its hard part is not arithmetic, it
is that weights are replaced under a running server by processes that share
nothing but files, and that requests of different lengths share slots, KV lanes
and worker threads. These modules state what that part of the program promises,
check it with TLC on small instances and prove part of it with TLAPS.

Paths below are relative to the repository. Line numbers of every definition are
in `PROJECT.json` under `map`.

## Inventory

| Component | State it keeps | Operations | Interacts through | Hard behaviour | Correct when |
|---|---|---|---|---|---|
| Precision transactions (`tools/precision_transactions.py`, `tools/backend_adapters.py`) | one journal file per transaction id; the worker's epoch, policy, admission flag | begin or retry, preimage check, pause, drain, synchronise, snapshot, apply, verify, resume, restore | adapter calls on a worker that outlives the caller; atomic file replacement | crash between a call and the save that records it; failing calls and saves; retries | weights change only while isolated, what is served is recorded, a command is applied once, rollbacks are honest, admission reopens or is declared isolated |
| q4 worker pool (`q4gemv.h`, `q4gemv_g256.h`) | shared job record, dispatch counter, done count, stop flag | eleven entry points, dispatch, join, worker loop, shutdown | shared memory, atomics, mutex and condition variables | job refilled while read; stale flags; wrapping counter; missed wakeups | every row once and by the right kernel; no read of a changing job; shutdown ends |
| GPU precision transactions (`qwen_infer.c`, `tools/gpu_runtime_control.py`) | command, acknowledgement and legacy demotion files; bindings, promoted widths, snapshots, weight epoch, KV state | startup promotion, poll, demote, rebind, rebind of a set with rollback, acknowledge; prepare and publish commands | files replaced by rename; MLX registry calls | stale commands, replaced commands, failure half way through a set, restart with files left behind | acknowledged state is real, a set changes wholly or not at all, KV matches bindings, commands are answered and applied once |
| Online batching scheduler, GPU MLA gate (`qwen_infer.c`) | slots, queue, lanes, drain flag | admit, pack, dispatch, emit, evict, poll and quiescent point, repeated passes | the precision transaction at the quiescent point; MLX KV lanes | change asked for in mid-batch; lane reuse; shared column budget; limits of zero and one | columns attend only to their own context, dispatches fit, each request is answered, each change is answered |
| Online schedulers, CPU twin and GQA (`qwen_infer.c`) | as above, recorded tokens, shadow lanes | as above; scalar prefill; verification of a column by recomputation or replay | control files of promotions and demotions; shadow lanes shared by the requests | pointers swapped in mid-batch; lanes evicted; replays from what is cached | as above; shadow lanes hold what the request's tokens give; every pass ends |
| Dense engine decoding (`qwen_infer.c`) | KV lanes (fp32, int8, int4 with blocks and rings), history, slots | greedy, speculation by lookup, lockstep, two batched decoders | step functions shared by the modes | several columns of a lane in one step; blocks closed over rejected drafts; ring overwritten; lanes reused | each column sees exactly its own context; every mode emits the greedy continuation |
| MoE engine decoding and gates (`qwen_infer.c`) | K/V caches of one sequence and of a batch on the host, lanes on the device, slots; globals set by each mode's setup | generation, verification and parity gates, lockstep, speculation, continuous batches; twenty-odd modes that each repeat the setup | MLX backend; step functions shared by the modes | device window shorter than the host's; rows of host and device side by side; a step missing in one copy of the setup | as above; a gate that prints a verdict has set what it computed with |
| Weight tables and precision policy (`qwen_infer.c`) | registry of tensors, layer tables (base, high, selected, active), the table in use, promoted slots, lazy mirrors, packed weights | register from three formats, resolve, nQ lines, promotion and demotion files, correction replays, attribution, delta debugging, static promotion and export | polled control files; the online loops | a layout read as another one; mirrors dropped while served; packed weights of an earlier tensor; a table left repointed | every pass reads each tensor as it was written; tokens are served from the tensors asked for |
| Persistent transport (`qwen_infer.c`, `tools/production_serving_supervisor_persistent.py`) | request, claim, result, shutdown files; worker process | submit, claim by rename, publish result, shut down, restart | files and process lifetime | crash after a claim, restart with stale files, shutdown race | no request lost silently or answered twice |
| Precision control store (`tools/precision_control_state.py`) | desired, applied and quarantine documents | set, acknowledge, quarantine, validate | files shared by processes | read, change, replace without a lock | no entry lost, applied follows desired |
| Epoch scheduler and closed loop (`tools/precision_epoch_scheduler.py`, `precision_closed_loop.py`, `precision_dynamic_selector.py`, `precision_policy_refresh.py`) | current policy, queue of admissions | admit under a policy, transition, refresh | GPU precision transactions, transport | admissions with different policies | each inference runs under the policy it was admitted with |
| Manual canary and routing cutover (`tools/manual_canary_controller.py`, `production_routing_cutover.py`, `production_serving_supervisor.py`) | canary state, approvals, nonces, kill switch, route manifest | approve, start, observe, roll back, cut over | files, supervisor | restart in the middle of a run; two processes replacing a route | no approval used twice; a started canary ends in commit or rollback |
| Autopilot and promotion control (`tools/gpu_autopilot.py`, `gpu_observer_control.py`, `autopilot_*.py`, `promotion_*.py`) | observation windows, decisions | observe, promote, demote, write back | GPU precision transactions | decisions on stale observations | bounded, reversible changes |
| MLX backend (`mlx_moe.cpp`) | registry of bound tensors, snapshots, configuration, device K/V lanes with their window | bind, configure, layer step, finish, snapshot, restore, reset of the runtime epoch, graph evaluation | called by the engine | KV that outlives a binding; a position beyond the window | appears as the calls made to it in GpuTxn and CbatchOnline, with its lanes and refusals in MoeDecode, its configuration in GateSetup |
| MoE scalar pool (`qwen_infer.c`) | as the q4 pool | as the q4 pool | shared memory | as the q4 pool | the same protocol with another job record |
| CPU kernels, file parsers and tokenizer, KleidiAI kernels, evidence and telemetry, npm package | files, buffers | sequential parsing, numerics, reporting | | numeric edges | compared with oracles by the repository's tests |

How they meet: a controller reads the acknowledgement file and publishes a
command; the worker's scheduler polls it between two iterations, pauses
admission, drains its slots, applies the change at the quiescent point, resets
the KV state, writes the acknowledgement and admits again. The quantised matrix
products of the CPU paths go through the worker pool. The policy transaction of
`precision_transactions.py` is the same protocol written against an adapter
interface, with a journal instead of an acknowledgement file.

The components with their status are in `PROJECT.json`, the behaviours that are
hard to test, each at its line, under `hazards`.

## Modules

| Module | Role |
|---|---|
| `PrecisionTxn` | the durable policy transaction against its adapter |
| `PrecisionTxnProofs` | theorems about it |
| `ForkJoin` | abstract: what a dispatch on a worker pool promises |
| `Q4Pool` | the worker pool, both join protocols; implements `ForkJoin` |
| `Q4PoolProofs` | theorems about it, the refinement included |
| `GpuTxn` | the worker's precision transactions and its controllers |
| `GpuTxnProofs` | theorems about it |
| `EpochServing` | abstract: requests answered once, weights change only in between |
| `CbatchOnline` | the four online batching schedulers; implements `EpochServing` |
| `ShadowLanes` | pools of shadow KV lanes, as operators |
| `CbatchReverify` | `CbatchOnline` with the verification of columns in `ShadowLanes` |
| `SchedulerProofs` | theorems about both: counts, tokens, answers, the refinement, the rows of KV and shadow lanes |
| `KvLane` | one KV lane of the dense engine under each cache |
| `GreedyDecode` | abstract: an output is the greedy continuation of its prompt |
| `DecodeEngine` | what the decoding modes share: streams, columns, slots |
| `DenseServe` | the decoding modes of the dense engine |
| `MoeDecode` | the decoding modes of the mixture-of-experts engine |
| `DecodeModes` | both together, with their properties; implements `GreedyDecode` |
| `DecodeLaneProofs` | lanes, outputs and the modes that decode one sequence, or one a lane in lockstep |
| `DecodeProofs` | the modes with requests in slots, and the theorems about all modes |
| `PersistentServing` | supervisor, persistent worker and the calls that share it |
| `PersistentServingProofs` | theorems about it |
| `TensorStore` | layouts of a quantised tensor, as written and as read |
| `Ddmin` | the delta debugging search, as operators |
| `TensorTables` | loaders, layer tables, precision policy, mirrors, replays |
| `WeightExport` | static promotion and export of a checkpoint |
| `GateSetup` | the setup of every gate, benchmark and generation mode |
| `Tensors` | the last three together, with their properties |
| `TensorsProofs` | theorems about it |
| `MC*` | instances for TLC |

Definitions whose comment begins with "Variant" are single plausible mistakes in
the code (a dropped check, a missing reset, a swapped order). Nothing uses them
in the specifications; each is the definition after it, or near it, written
wrongly, and shows that the property named for it in `PROJECT.json` under
`mutants` can fail.

### PrecisionTxn

One call of `execute_policy_transaction` is a walk through stages; a stage is an
adapter call (`PauseAdmission`, `Drain`, `Synchronize`, `Snapshot`,
`ApplyPolicy`, `VerifyPolicy`, `ResumeAdmission`, `Restore`) followed by
`Save`. `pc` is the stage, `saving` tells the call from the save. `_atomic_json`
replaces a file by rename, so a crash (`Abort`) falls between the two and never
inside. An adapter call whose precondition fails raises, and those the mock can
be told to fail may raise anyway (`CallFails`); a save may raise (`SaveFails`);
both go to the except clause of the stage. `Retry` is a later call with an id
whose entry is not terminal: it starts from that entry with an empty snapshot.
The worker is the adapter the transaction is certified with
(`MockBackendAdapter`), its requests come and go by themselves (`Admit`,
`Finish`). Policies and contexts stand for their hashes; timestamps and
messages are left out. The validation of arguments before the first save
changes nothing and is left out.

### Q4Pool

The dispatcher is thread 0 and walks `main` through fill, reset of
`done_count`, publication of `gen`, its own range, join, clearing of flags. Each
access to an atomic outside a critical section is one action; a critical section,
up to the unlock or the wait that releases the mutex, is one action. `spin` picks
the join protocol for good, as `q4pool_start` does before it spawns. The job
record keeps its old flags unless the entry point assigns them, as in the code;
`Fill` and `Clean` say which each one assigns and clears. A computation is a
pair of kernel and row count, `ran` remembers what each thread did; the
arithmetic of the kernels is left out. `gen` wraps modulo `GenMod`. Memory is
sequentially consistent: the code publishes with release and reads with acquire,
and the job is plain memory ordered by them.

### GpuTxn

The worker boots (`Promote`, `Refuse` per line of the promotion file,
`StartupAck`), serves, and polls the command file between scheduler steps:
`AcceptCommand` or `RejectCommand` by `moe_gpu_demotion_pending`,
`NoticeDemotion` for the legacy file. At the quiescent point it demotes
(`Demote`, `DemoteListed`), or rebinds target by target (`BeginRebind`, `Bind`,
`BindFails`, `Commit`, `ResetFails`, `Rollback`), and acknowledges (`WriteAck`).
`Crash` loses everything but the files. Controllers read the acknowledgement
(`Prepare`) and write the command later (`Publish`), so commands can be stale,
replaced and repeated. A failing demotion makes the code exit: it is a `Crash`
from the drain. The code compares the preimage again at the quiescent point;
that comparison is in the guards of `Demote` and `BeginRebind`, and no other
action can make it fail, since the epoch and the widths do not move while a
command is pending.

Left out: the parsing of the command (only valid ones are written, as the
controllers validate them), the width cache and the transition telemetry, which
change no binding. The worker's supervisor, which removes the command and
acknowledgement files before it starts another worker
(`production_serving_supervisor_persistent.py:428-437`), is not part of this
module: a worker restarted by other means finds the files.

### CbatchOnline

One iteration of the loop is `Poll`, `Boundary`, `Admit`, `Dispatch`, `Emit`.
The four schedulers are one loop with options, which `gate` records: on the GPU
(`GpuMla`, `GpuGqa`) the first pass is a warm-up that does not poll, it is
repeated as the measured pass, and a persistent worker takes further batches on
the same lanes (`Begin`); on the CPU (`CpuMla`, `CpuGqa`) the loop runs once.
The GQA gate of the CPU does not poll. Slots, columns, budget and limits are
those of the code. Tokens are abstract: `Emit` chooses which of them end a text.
A KV position records who wrote it last (pass, request, weights), which is what
`AttendsOwnContext` compares, and whether it is exactly what computing the
request token by token gives. The precision change is reduced to what the
scheduler sees of it. On the GPU (`ApplyGpu`) it is applied with cleared lanes,
or fails without effect; `GpuTxn` is the rest of it. On the CPU (`ApplyCpu`)
pointers are swapped, the lanes stay, and a line of the file that cannot be
applied, for lack of a 16-bit mirror say, goes on asking. Weights are numbered
by epoch, also when an epoch changed nothing.

With `QWEN_MOE_CB_PREFILL_MODE=0` (`scalar`) a prompt is computed when its
request is admitted and its first token emitted at once; the code does not look
at its limit or at the end of its text there, so such a request yields two
tokens at least, which `AnswersComplete` states.

Iterations are counted up to the latest arrival, since only the comparison with
an arrival reads them. The manifest loader rejects prompts that are empty or
fill a lane, so the branch of the admission guard that drops a request is
unreachable and not modelled. `QWEN_MOE_CB_PREFILL_BUDGET` is not validated by
the code; a value of zero or less never finishes a prompt, and
`CbatchAssumption` excludes it by name.

### ShadowLanes and CbatchReverify

`CbatchReverify` puts `Reverify` and `Correct` between `Dispatch` and `Emit`,
for each emitting column in its order. `Reverify` is
`moe_cb4c_maybe_reverify`: nothing, or `FirstTier`, which recomputes the column
alone in the lane of its slot and extends the request's shadow lane with it, or
`SecondTier`, the replay of the request from its recorded tokens (`hist`), with
its rows copied back to the slot when `QWEN_MOE_CBATCH_RESYNC` is set. `Correct`
is the near-tie replay with 16-bit weights in the second pool. Both pay from
`budget`. Whether a margin is small and whether the tiers agree are choices. In
the code the column is verified and emitted before the next one; emission
touches only its own request, so all columns are verified first here. What
follows when a correction changes a token (attribution, ablation, minimisation)
is in `TensorTables` and `Ddmin`; the fields of the event log are left out.

`ShadowLanesHold` carries three conditions, each of which is a place where the
code does less than its comments say:

- After a scalar prefill the token it emits is not recorded, so a replay feeds
  the token -1 at that position (`qwen_infer.c:7994`; the comment at
  `qwen_infer.c:5808-5811` counts it among the emit sites).
- Without resync, a first tier after a second one attends to the rows of the
  dispatch, not to the replayed ones, and extends the lane with what it got
  (`qwen_infer.c:6077`; the comment above asks for exact predecessors).
- The first tier computes with the table as loaded (finding `cbatch_tier1`).

A fourth one concerns cost, which no property states: the first tier has just
extended the lane to the position asked for, the cost of the second is therefore
found to be zero, and the replay, which starts over when more is cached than
asked for, recomputes the whole request. The comment at
`qwen_infer.c:5859-5863` says a cached position is never recomputed; the budget
can fall below zero.

### KvLane, DecodeEngine, DenseServe, MoeDecode and DecodeModes

A row of a KV lane is what it was computed from: the tokens up to its own. So a
column that reads a row of a rejected draft, of the lane's previous request, or
a ring cell that was overwritten, sees a sequence that is not a prefix of its
context, and yields no token of the model (`Garbled`). `KvLane` has the int4
cache in full: K quantized a block at a time when the block's last position is
written, its rows staged in a ring of two blocks until then, V stored at once
and staged as well, and attention that reads full blocks from the cache and the
tail from the rings.

`DecodeEngine` is what both engines share: a step takes columns (lane,
position, token), writes all of them and lets each attend; the model is a
function from the last two tokens to the next; slots admit and advance requests.
`DenseServe` and `MoeDecode` run one job to its end.

`DenseServe`: `Prefill` and `Greedy`, `SpecRound` (draft by `Lookup`,
verification of all columns in one step, acceptance up to the first
disagreement), `Serve`, the two continuous batchers, `Admit`, `Chunk`, `Decode`
(prompts alone, in chunks) and `Mixed` (prompt columns under a budget), and the
bench, perplexity and dump modes. A step writes all its columns before the first
of them attends. That is safe for the rings as long as a step has at most W + 2
consecutive positions of a lane: `DenseAssumption` states it, and with W = 64 and
at most 64 columns it holds of the code, whose comment (`qwen_infer.c:960-1000`)
argues from 16. The comment at `qwen_infer.c:2157` describes the lookup as a
search for the longest suffix; the code, and `Lookup`, use a fixed length. Left
out: the mirror cache of KV mode 1.

`MoeDecode`: generation on the device (`generate`) and on the CPU from a GGUF
file (`gguf`), the forced prompts of the verification modes (`verify`,
`safetensors`), the comparisons of CPU and device (`attention`, `layers`,
`parity`), batches in lockstep (`lockstep`, `hybrid`), and the continuous batches
whose requests are admitted together, with their prompts computed position by
position in the slots (`feed`), in one dispatch (`combined`) or alone on the CPU
(`scalar`). The host has a cache for a single sequence (`Single`) and one with a
row per sequence of a batch (`Batched`); the device has lanes. The device refuses
a position beyond its window; some modes fail then (`FeedOrFail`), others count
the refusal and go on (`FeedOrSkip`).

### PersistentServing

The worker's part is `Claim`, `ReadRequest`, `ServePart`, `WriteResult` and the
reaction to `txn.cmd` (`AcceptTxn`, `RejectTxn`, `ApplyTxn`), all of it while it
serves, as the code polls nowhere else. A call of the supervisor walks through
`pc`: a direct call takes the admission lock, publishes and waits; a policy call
(`PrecisionEpochScheduler.run`) holds the lock from reading the acknowledgement
to verifying the next one; an adaptive call writes its commands outside the
lock. `gpu_lock` of the HTTP front end lets one direct or adaptive call run at a
time, which `Begin` states. A call that gives up (`Timeout`) leaves its batch and
its command with the worker. `Restart` ends supervisor and worker together,
removes the files and forgets the calls. A shutdown is noticed only by an idle
worker; a busy one is terminated, which is a `Crash`. A batch is `Parts`
requests, each answered wholly under one policy, which is what
`ImplementsEpochServing` of `CbatchOnline` establishes.

### TensorStore, TensorTables, Ddmin, WeightExport, GateSetup and Tensors

These modules follow a weight from the file it is loaded from to the pass that
multiplies with it.

`TensorStore` reduces the bytes of a tensor to the name of their layout.
A registrar writes one (`MixedLayout`, `Q4Tensor` and its like), the dispatch of
`moe_decode_af` reads one chosen from the declared width and flags, and
`ReadAsWritten` says whether they agree, for every expert when widths differ.

`TensorTables` starts at the loader of one of the formats, which registers
names up to the capacity of the registry, resolves the layer table (`base`) and,
for a run that corrects near ties, the tables of 16-bit mirrors (`hi`, `sel`).
`active` is the table tokens are served from and follows the nQ lines of the
startup file and the promotion and demotion files polled between requests;
`cur` is the table a pass uses, which a replay repoints and restores. Lazy
mirrors are registered without data: a replay materialises them and drops them
afterwards, except those a layer serves. The weights repacked for the matrix unit
are remembered with the tensor they were packed from. What stands for what: one
of the gate, up and down projections for the three; one packed entry for the
routed experts of a layer, with the idle layers a choice; whether a replay
changes a token, a choice. The attribution of a corrected token ends in the
search of `Ddmin`, one turn of a loop to a step, with the answers of the replays
given by the job.

`WeightExport` is the promotion of tensors of a GGUF or dense checkpoint to 32
bits and the export of the result; `MaskBits` is the width of the mask that
records which layers are promoted.

`GateSetup` is the block that each verification gate, benchmark and generation
mode writes out again: read the configuration, size the buffers, fill the
rotation tables, map the blobs, resolve, bind, configure the device, run. A mode
is the order of its steps (`MlaLoad`, `GqaOnlineGate`, ...); a step has what it
reads (`Reads`), what it sets (`Sets`), what ends the run there (`Stops`) and what
it writes beyond the room it has (`Overruns`). `setup.unset` collects what was
used before it was set. The kind of attention of the checkpoint is not always
checked: most MLA modes stop later, when a tensor of the MLA layer is missing.
`KindsOf` is what a mode can meet at all: the GGUF loader sets grouped-query
attention or GPT-OSS (`qwen_infer.c:9849-9896`), the probe of one layer sets
GPT-OSS (`9298`), the self tests and the gate of one GQA layer set grouped-query
attention themselves (`8416`, `8568`, `8642`, `8746`, `15377`), and the rest
take what the configuration file says, of which the blobs can hold the first two
(the sinks of GPT-OSS are tensors they have none of, `3708`).

`Tensors` joins the three and states the properties. Two exceptions are
part of them and named. `Unmaterialized` are the mirrors that may be read
without data: promoted lazy ones before a replay has brought them in, which is
finding `tensors_lazy`, the two global ones, which every release drops, and those
of a search that follows an attribution, whose release has dropped them.
`Unsized` are the lanes that two modes use without comparing them with their
room; see the notes under Findings.

### ForkJoin and EpochServing

`ForkJoin` is a caller that forks one request, shares that each compute that
request, and a join. `Q4Pool` maps `asked` to the request of the dispatch under
way, from the filling of the job to the return. `EpochServing` admits and
answers sets of requests and changes the epoch only with none in flight.
`CbatchOnline` maps a request to a pair of pass and index.

## What TLC checks

Run a check from this directory with `tlc -config <cfg> <module>`.

| Run | Distinct states | What it shows |
|---|---|---|
| `precision_txn` | 178,668 | With aborts and failing saves at every point: weights change only while paused and drained (`EpochIsolation`); an open worker serves weights some journal entry records (`OpenIsAcknowledged`); one application per id (`AppliedAtMostOnce`); a recorded rollback brought back the named preimage (`RollbackRestoresPreimage`); without an abort a paused worker reopens or is declared isolated (`AdmissionReopens`) |
| `precision_txn_isolated` | | expected violation of `IsolatedWorkerIsPaused` (a failed rollback leaves admission paused), see findings |
| `precision_txn_stale` | | expected violation of `StaleIsRejectedWithoutMutation` |
| `q4pool` | 40,183 | Every row once and by the kernel asked for (`EveryRowOnce`), the job changes only while no worker reads it (`JobStableWhileRead`), the pool is a fork-join with its progress (`ImplementsForkJoin`), shutdown ends (`StopCompletes`) |
| `gpu_txn` | 474,412 | What is served is acknowledged (`AckIsRuntimeState`); no set of targets is left half changed, and KV matches the bindings (`BindingsAreRecorded`); a command is applied to the policy its author saw and once per run of the worker (`AppliedToSeenPolicy`), and is answered (`CommandIsAnswered`) |
| `cbatch_online` | 308,046 | Columns attend only to their own request's context, under one epoch but for the first tier (`AttendsOwnContext`); dispatches fit and slots are counted (`ResourcesFit`); answers are complete (`AnswersComplete`); a token comes from logits of its own step (`EmitsFreshLogits`); shadow lanes hold rows of their request, exact ones where the code provides it (`ShadowLanesHold`); changes are answered and every pass ends (`ChangeIsAnswered`); no request spans two epochs (`ImplementsEpochServing`) |
| `cbatch_tier1` | | expected violation of `OneWeightPolicy` |
| `decoding` | 56,977 | Every decoding mode of both engines: steps fit their buffers and lanes (part of `TypeOK`); every column sees exactly its own context (`ReadsOwnContext`); outputs are complete, and a mode fails only where it refuses its prompt or the device's window ends (`AnswersComplete`); outputs are the greedy continuation (`ImplementsGreedy`); every mode ends (`Terminates`) |
| `tensors` | 140,438 | Each pass reads every tensor in the layout it was written in, with its data, and never with weights packed from another tensor (`PassReadsItsData`); tokens are served from the tensors the accepted lines ask for (`ServesItsPolicy`); a search that reports convergence is minimal (`SearchClaimsHold`); a tensor is exported at 32 bits exactly if it was promoted (`ExportReflectsPromotions`); a gate that prints a verdict has set what it computed with, within its buffers (`GateResultsAreComputed`) |
| `tensors_lazy` | | expected violation of `PromotedAreResident` |
| `persistent_serving` | 141,007 | A verified answer was computed wholly under the policy it names (`AnswersAsAdmitted`); no command outlives its worker (`NoInheritedCommand`); no batch is begun twice (`ServedOnce`); every call ends without its deadline (`EveryCallEnds`) |
| `persistent_adaptive` | | expected violation of `BasePassAtBase` |

Bounds, and why they are enough:

- `precision_txn*`: two ids, so that a transaction meets the epoch another one
  left; two policies and two contexts, so that a preimage can fail in each of
  its parts; one request in flight; epochs to 4, which is two transactions that
  each apply and roll back, and any number of retries that do neither.
- `q4pool`: four threads and row counts 2 and 7, so that ranges are full, short
  and empty; a counter that wraps after two dispatches, the smallest a worker
  can still tell apart, against any number of dispatches; all entry points in
  any order.
- `gpu_txn*`: two targets, so that a set can fail half way; two widths; two
  transactions, so that one can be stale, replaced or repeated after the other;
  one restart; two contents of the legacy file.
- `cbatch_online`: three requests on two slots, so that a slot is reused while
  another is busy; lanes of four positions, prompts of one to three, dispatches
  of three columns, so that prompts are split, the budget is shared and a limit
  meets the end of the lane; three workloads with simultaneous, late and
  unordered arrivals and limits of zero and one; the warm-up and two served
  passes; two changes; six gates, which are the two of the GPU, the one of the
  CPU for GQA, and for MLA on the CPU a promotion at startup, the second tier
  with resync, and scalar prefill with both kinds of verification; one shadow
  lane for two slots, so that lanes are evicted under a live request; a
  verification budget of three positions, so that it runs out.
- `decoding`: blocks of two positions and lanes of eight, so that a lane is four
  blocks, rings wrap and blocks are closed in the middle of a step; a device
  window of six positions, below the eight of the host's cache as 32 is below
  160, so that a text outgrows it; dispatches of six rows; twelve models (linear
  functions of the last two of three tokens) and prompts of one to seven tokens,
  so that drafts are accepted, rejected and cut, and prompts are refused; three
  requests on two lanes, two passes, budgets of one, two and four columns.
- `tensors*`: two layers, one dense and one with experts, and two experts, so
  that widths can differ within a tensor and lines name the wrong layer; a
  registry of 28 tensors, which production, mirrors and two nQ lines just fill and
  a longer file overflows; two requests of two tokens
  and two versions of the control files, so that a file is polled between
  requests, replayed over and demoted again; masks wider than the layers (see
  below for narrower ones). The jobs are five families: loaders with every pair of
  expert widths and every width of the role table; policies; searches, with every
  answer over a list of three, chosen ones over six and over all combinations,
  and budgets that run out; exports; gates, every mode on both kinds of
  checkpoint with lengths and slots below, at and above each limit. The limits of
  the gates (8, 5, 4, 2 columns and slots, 4 and 2 positions) keep the order of
  those of the code (256, 64, 8, 4 and 160, 32).
- `persistent_*`: two callers, calls of all three kinds, two calls, one timeout,
  one crash and one restart, so that a call meets what another one, or a worker
  before it, left behind; batches of two requests, so that a change can fall
  between them. With three calls and no restart (1.0 million states) the
  properties hold as well.

Deadlock checking is off where the system may stop: no transaction is submitted
any more, the pool is destroyed, every bounded command has been answered, no
client submits another batch.

### Fairness

- `PrecisionTxn`: weak fairness of the running call (`Step`), straight-line code
  whose adapter calls return or raise. Nothing is assumed of callers or aborts.
- `Q4Pool`: weak fairness of each thread. The operating system schedules
  threads, and the spin loop yields. Nothing makes a caller dispatch or stop the
  pool, and no spurious wakeup has to happen.
- `GpuTxn`: weak fairness of the worker, whose loop polls on every iteration.
  This holds while batches keep arriving: an idle persistent worker waits for a
  request and does not poll (`qwen_infer.c:14798`), so `CommandIsAnswered` is a
  promise of a worker that serves. Controllers, operators and crashes are not
  fair.
- `CbatchOnline`: weak fairness of the scheduler's loop. Nothing makes a client
  submit a batch or a controller ask for a change, so `ChangeIsAnswered` speaks
  of changes asked for while a served pass is under way. That every pass ends
  needs no more: a transition that cannot be completed drains the slots again and again,
  and each time the queue is served a little.
- `DecodeModes`: weak fairness of the one thread.
- `Tensors` states safety only and no fairness.
- `PersistentServing`: weak fairness of the worker and of each step of a call,
  which are running threads. No call has to give up, no process to crash or
  restart. Taking the lock needs no more, since calls are bounded.

## What is proved

TLAPS proves the following for all values of the constants that satisfy the
named assumptions of the modules. `tlapm <module>` checks them.

`PrecisionTxnProofs`, from `ConstantsAssumption` (the initial policy and the
worker's context are among the given ones, the bounds are numbers) and
`SentinelsAssumption` (the values that stand for "nothing" are not entries or
states):

- `TypeCorrect`, `AckBeforeOpen`, `AppliesOnce`: `TypeOK`,
  `OpenIsAcknowledged` and `AppliedAtMostOnce` are invariant. None of the last
  two is inductive: that admission opens on an acknowledgement depends on where
  the controller is, and that an id is applied once depends on the epoch having
  passed its preimage. `IInv` adds both (`CallInv`, `OnceInv`): until it applies
  the policy, a call is at the epoch its entry expects; an id that was applied
  expects an epoch that is over, and epochs only grow; a call opens admission
  only after it recorded the live state.
- `MutationIsIsolated`: `EpochIsolation`, from the guards of the two operations
  that change weights and the fact that nothing else does.
- `RollbackRestores`: `RollbackRestoresPreimage`, with the further invariant
  `PreimageInv` that a snapshot holds the policy the entry names.

`Q4PoolProofs`, from `PoolAssumption` (at least two threads, row counts are
numbers, the counter counts to two at least):

- `Invariance`: `IInv` = `TypeOK`, `Turns` (outside of a dispatch every worker
  has finished; one that has not taken a dispatch is not computing), `Counted`
  (`done_count` is the dispatcher and the workers that have finished),
  `Results` (who has computed what), `Selected` (the flags select the kernel
  asked for and are clear between dispatches), `Stopped`. The join is sound
  because the count equals the number of threads only if all workers have
  finished, which `WorkerCount` derives from cardinalities; the counter may wrap
  because one dispatch ahead always differs (`GenMoves`).
- `TypeCorrect`, `JobIsStable`, `RowsOnce`: the safety properties of the run.
  `RowsOnce` rests on `RowsPartition`: the ranges of the threads partition the
  rows for every row count and every number of threads.
- `Implements`: every behaviour of the pool is one of the safety part of
  `ForkJoin` under the refinement mapping.

`GpuTxnProofs`, from `TxnAssumption` (widths and promotions are those a worker
can hold, the bounds are numbers) and `NoneAssumption` (the value that stands
for "nothing" is none of them):

- `TypeCorrect`, `ServesTheAcknowledged`, `SetsChangeWhole`, `AppliesToTheSeen`:
  all safety properties of the run. What a worker serves is determined by the
  registry, the bindings of a set under way and its snapshots, so `IInv` says
  how they relate at each control point (`PhaseInv`, `BindInv`): inside of a
  rebind the snapshot holds the widths it started from and what lies outside of
  the set is untouched. That a command applies to the policy its author saw
  rests on `SeenInv`: within one run of the worker an epoch identifies a policy,
  because no two changes share one. That it applies once rests on `OnceInv`
  (what was applied names an epoch that is over) and on ids being different,
  which `CommandInv` gets from counting the commands issued.

`SchedulerProofs`, about `VSpec` of `CbatchReverify`, from `CbatchAssumption`
(at most as many slots as columns, a positive budget, prompts that are not empty
and leave a position of the lane) and `VerifyAssumption`; it holds for all four
schedulers and for any number of slots, requests and passes:

- `TypeCorrect`, `CountsAreRight`, `TokensAreFresh`, `AnswersAreComplete`: the
  safety properties of `CbatchOnline`. `SInv` ties the position of a slot to the
  tokens its request has been given (`ProgressInv`), says that a request taken is
  in a slot or answered (`DoneInv`) and what the columns of a dispatch are until
  their tokens are out (`ColsInv`). That a dispatch fits is an induction over the
  slots (`TakenFit`); the ranks of the slots admitted are 0, 1, ... without a gap
  because they are different and too few to skip one (`Ranks`).
- `ServesByEpochs`: `ImplementsEpochServing`. Every step admits, answers, changes
  the weights with nothing in flight, or changes nothing the abstract service
  sees (`StepRefines`).

The second part of `SchedulerProofs`, from `GateAssumption` (the schedulers are
those of the code) as well:

- `ColumnsAttendToTheirOwn`: `AttendsOwnContext`. It is not inductive, since it
  says nothing of a lane between two dispatches. `KvInv` does: the positions a
  slot has computed hold rows of its request, of this pass, and of the weights in
  force. A change of weights finds no slot occupied, on the CPU as on the GPU,
  which is what the drain is for.
- `LanesHold`: `ShadowLanesHold`. `PoolInv` adds that a lane belongs to a request
  already taken, `HistInv` that the tokens up to the position of a slot are
  recorded, `ExactInv` that, where results are copied back, the lane of a request
  agrees with its slot (`Agrees`), on which the exactness of the row that the
  first tier appends depends.

`PersistentServingProofs`, from `KindsAssumption` and `BoundAssumption` (the calls
are those of the code, the bounds are numbers), `BatchAssumption` (no batch is
empty), `PolicyAssumption` (the two policies differ) and `NoneAssumption` (the
value that stands for "nothing" is no file's content):

- `TypeCorrect`, `AnswersComputedAsAdmitted`, `CommandsAreOwn`, `BatchesBegunOnce`:
  `TypeOK`, `AnswersAsAdmitted`, `NoInheritedCommand` and `ServedOnce`. The files
  in the directory outlive the call that wrote them and the worker that reads
  them, so what makes an answer the answer to its question is the identifier:
  nothing names one that was not drawn (`NoneFromTheFuture`), and a new call's is
  therefore fresh. The identifiers suffice because what a call may still draw
  is paid for when the call is made (`Drawn`). That an answer was computed under
  the policy its call was admitted with rests on `Commanded`: nothing of a call's
  batch is computed while its command is pending, and what is computed after it
  was applied is computed under the target; where no command was written, on
  the epoch that has not moved (`Unchanged`).

`TensorsProofs`, from `TableBounds` and `ExpertsAssumption` (the bounds are
numbers, there is an expert), `JobsAssumption` (what a job is started with has the
form the command line and the environment give it), `ModeAssumption` (a gate is
one of the modes of the code, on one of the kinds of attention that mode can
meet, with two numbers) and `GateBounds` (the order of the sizes of the buffers):

- `TypeCorrect`, `ServesPolicy`, `ReadsItsData`: `TypeOK`, `ServesItsPolicy` and
  `PassReadsItsData`. The table that is read is a function of the policy alone
  (`Policy`), whatever the order in which promotions, replays, nQ overlays and
  releases touched it; that every tensor read has its data adds which mirrors are
  materialised at each control point, and that a release keeps what is served.
- `PromotionsReachTheExport`: `ExportReflectsPromotions`, under `OneBitPerLayer`
  (the layers fit the mask of promoted layers, which is an int; with more of them
  the statement is false, as said below). The lines marked as promoted are the
  bits of the mask in every state between a poll and an export.
- `SearchesAreMinimal`: `SearchClaimsHold`. A search that converged within its
  budget ends at a set that reproduces and from which no part could be dropped.
  `SearchInv` says of a search under way that the parts of the current round
  already tried did not reproduce, and that the current set does; when the
  round's parts are single elements and all were tried, it is minimal.
- `GatesComputeWithWhatTheySet`: `GateResultsAreComputed`. The property is not
  inductive: a mode that does not ask for the kind of attention does use what was
  never set on a checkpoint of the other kind, and is stopped before its verdict
  by a NULL tensor. `GateInv` speaks of what is left to do: unless one of the
  steps left will stop the mode (`Undoomed`), nothing was used unset so far, and
  what is left `Leads` from what has been set to the end, each step reading only
  what was set before it. A step takes a list that leads to one that leads
  (`FirstLeads`), the end of the list is undoomed, and lists that lead can be put
  together (`ChainLeads`), so that each block of the setup is shown once for all
  the modes that copy it. That every mode `Leads` from nothing, once its own
  checks hold, is shown mode by mode (`ModesLead`). Two modes without a check on
  the lanes are named in `Unsized`.

`DecodeLaneProofs` and `DecodeProofs`, about `Spec` of `DecodeModes`, from
`LaneAssumption` (a lane is a whole number of blocks), `EngineAssumption`,
`DenseAssumption` and `MoeAssumption` (what a job is started with has the form the
command line gives it, a step has at most W + 2 columns, and prompts fit where
the code refuses those that do not). They hold for every vocabulary, every model
(a function of the last two tokens), every size of blocks, lanes, windows, slots
and batches, and every one of the modes:

- `Invariance`: `IInv` is what is true between two iterations of the loop of each
  mode. `StreamsInv`: outputs are greedy continuations of their prompts. `StepInv`:
  the lanes are typed, and every column of the last step saw its own context.
  `Completed`: outputs are as long as the mode promises once it is done. For each
  family of modes, `SingleInv`, `SchedInv`, `MoeSingleInv` and `SlotsInv` say which
  text each lane `Holds` and how its length follows from the counters of the loop.
- `Holds` is what replaces the rows themselves. A plain lane holds a text if the
  row at each of its positions is that prefix of it. The int4 cache holds one if
  the blocks that are full, and V everywhere, hold its rows, and the rings hold
  those of its tail: the ring cell of a position also serves the position two
  blocks on, so what must be shown is that no cell is read after it was passed
  on. A dispatch keeps that, and each of its columns sees its own context, as
  long as its positions in a lane are consecutive and at most W + 2: a
  rejected draft leaves wrong rows beyond the text, which `Holds` does not speak
  of, and the next step writes them again before it reads them.
- `TypeCorrect`, `ColumnsSeeTheirContext`, `AnswersAreComplete`: `TypeOK`,
  `ReadsOwnContext` and `AnswersComplete`.
- `DecodesGreedily`: `ImplementsGreedy`. A step of any mode extends outputs by
  tokens that continue them greedily (`Abstract!Emit`), or empties all of them for
  another repetition of a benchmark (`Abstract!Again`), or leaves them. What
  the engine computes as the next token of a column is that of its context because
  the context it sees is its own; that an accepted draft is a greedy token is
  the comparison that accepts it.

Induction is available to these proofs only in the form of a lemma `Induction` in
the modules that need it: a set that holds 0 and the successor of each of its
numbers holds them all. It comes from the well-foundedness of the naturals, and is
enough for sums over slots, for counting and for texts of any length.

Only model-checked: everything about liveness and fairness (`AdmissionReopens`,
`StopCompletes`, the progress part of `ImplementsForkJoin`,
`CommandIsAnswered`, `ChangeIsAnswered`, `Terminates`, `EveryCallEnds`), which
is out of the prover's reach. Every invariant and every action property of a
passing run is stated by a theorem. No module declares a
recursive operator: where the code loops, the models use recursive functions and
folds.

## Findings

Five runs check a statement the repository makes and find it violated by what
the code does.

1. `precision_txn_isolated`, a defect of the code. `APPLIED` is saved and
   admission resumed; the save that follows
   (`tools/precision_transactions.py:187`) is still inside the try block. When it
   fails, the handler saves `ROLLBACK_REQUESTED` in place of `APPLIED`, `restore`
   refuses because admission is open (`tools/backend_adapters.py:293`), and the
   transaction ends `FAILED_ISOLATED`, with no rollback recorded, while the worker
   serves the policy it applied. `test_restore_failure_leaves_worker_isolated`
   expects admission to be paused when a restore failed. `EpochIsolation` holds
   all the same: the weights are not touched.
2. `precision_txn_stale`, a defect of the code. A call that dies between
   `apply_policy` and the save that follows leaves an entry that is not
   terminal. A retry with the same id finds its own new epoch in place of the
   preimage and records `STALE_COMMAND`, which the tests describe as a rejection
   without mutation, although the policy is live and admission stays paused.
3. `persistent_adaptive`, a defect of the code. The adaptive call looks at the
   width and writes its command before it takes the lock its submissions take
   (`tools/production_serving_supervisor_persistent.py:1274`). A recovery pass
   that times out leaves its command with the worker; the next adaptive call
   reads the low width, asks for nothing, and its base pass is computed after
   the command was applied, at the high width, and reported as a base pass.
4. `cbatch_tier1`, a defect of the code. The first tier of reverification
   (`moe_cbatch_step_scalar_one`, `qwen_infer.c:4234`) takes its tensors from
   the table as loaded, while the dispatch and the replay take them from the
   table promotions repoint, and writes its KV row into the lane of the slot.
   With a promotion active a verified request goes on with rows of both, which
   is what the drain is there to prevent (`qwen_infer.c:7943-7948`).

5. `tensors_lazy`, a comment and the code differ. The comment at
   `qwen_infer.c:16341` says a promoted tensor is read on every token and must be
   resident. With lazy mirrors a promotion repoints the table to a tensor that is
   registered without data (`qwen_infer.c:7370`), and tokens are computed from it
   until a replay materialises it; the mirrors of the embedding and of the output
   head are dropped by every release.

Seen while modelling, at places the models contain, without a run of their own:

- The second save after a resume, behind a rollback
  (`tools/precision_transactions.py:222`), is in the reach of an except clause too:
  when it fails, `FAILED_ISOLATED` replaces `ROLLBACK_APPLIED` with admission open,
  the preimage restored and the rollback still recorded in the entry.
  `IsolatedWorkerIsPaused` speaks of entries without a recorded rollback.
- A command file left in place is executed a second time after a restart,
  although `qwen_infer.c:17633-17635` says it is not: the startup
  acknowledgement replaces the one that names the transaction, and the epoch
  counts from 0 again. `AppliedToSeenPolicy` therefore speaks of one run of the
  worker.
- An answered command file that stays in place makes `moe_gpu_demotion_pending`
  return before it looks at the legacy demotion file (`qwen_infer.c:17981`), which
  `qwen_infer.c:17401-17402` says remains accepted.
- The device keeps 32 positions (`mlx_moe.cpp:709`, `900`), the host 160
  (`MOE_MAXPOS`). Generation on the device ends with a fatal error at position 32,
  where `qwen_infer.c:13201-13203` promises a graceful stop; the comments at
  `13195-13198`, `12159-12161` and `12704-12707` take the two bounds to be equal.
  The throughput loop of the fused GQA mode counts refused steps as done
  (`qwen_infer.c:12156-12166`) once its length passes 17.
- Generation from a GGUF file does not print the token chosen after the prompt
  (`qwen_infer.c:10183-10216`); the model's outputs start after it.
- With a list of combinations, promoting a role that is not listed marks it as
  promoted while production serves it, and undoes its nQ tensor; the embedding and
  the output head, when not listed, are never marked, so their line stays pending
  and every poll begins another epoch.
- A delta debugging search that its budget ends inside a loop may report
  convergence all the same, against `qwen_infer.c:6757-6760`; `SearchClaimsHold`
  speaks of searches within their budget. The comments at `6938-6948` and
  `6963-6981` call the unpromoted replay the production path, which it is not
  under a promotion or an nQ policy.
- The mask of promoted layers of the dense engine is an int shifted by the layer
  (`qwen_infer.c:19793`), whose comment allows 64 layers.
- The fixed batch uses eight lanes of buffers sized by `QWEN_MOE_CB_SLOTS`, which
  is compared only in the online branch (`qwen_infer.c:7868-7872`), although the
  comments at `7866-7869` and `15580-15583` say the agreement is asserted. The
  check of the GPT-OSS mode (`qwen_infer.c:10138-10150`) writes a prompt of up to
  160 positions into one lane of 32 and on into the following lanes, which it does
  not use. Both are in `Unsized`.

Abstractions a reader could miss:

- `ValidAt` says which tensors a model has, and so GPT-OSS has a k and a v
  projection; as roles of a correction the code has them for GQA only
  (`qwen_infer.c:6479-6480`). GPT-OSS comes from the GGUF loader only, and no job
  of `MCTensors` corrects one.
- An nQ line repeated word for word registers its tensor a second time in the code
  (`qwen_infer.c:17133-17136`); the registry of `TensorTables` is a set of names,
  and `HasRoom` counts the name once.
- `Mixed` of `DenseServe` leaves out the flag `want_logits`
  (`qwen_infer.c:20816-20823`): it is set exactly when a column decodes or a
  prompt ends in the step, the slots `from` takes its tokens from. The flag of the
  MoE schedulers is modelled (`EmitsFreshLogits`).

## What is not modelled

The rows of `PROJECT.json` with status `not_modelled` give the reason for each
component: planned, the same protocol as a modelled one, numerical, vendored, or
pure input and output. Within the modelled components: the arithmetic of
kernels; the parsing and formatting of files; logging, telemetry and validation
counters; `reconcile`, which only reads; the MLX adapter of
`backend_adapters.py`, whose mutations refuse; the start of the pool's threads
(the workers exist from the first state, with the protocol already chosen).

## Plan

The order follows what the system would lose most by getting wrong: wrong
weights served, wrong rows or wrong context computed, requests lost.

Done: (1) `PrecisionTxn` and its proofs; (2) `ForkJoin`, `Q4Pool` and their
proofs; (3) `GpuTxn`; (4) `EpochServing` and `CbatchOnline`; (5)
`PersistentServing`, the transport with the calls of the epoch scheduler and the
adaptive worker; (6) `KvLane`, `GreedyDecode`, `DecodeEngine`, `DenseServe`,
`MoeDecode` and `DecodeModes`, the decoding of both engines; (7) the other online
schedulers, `ShadowLanes` and `CbatchReverify`; (8) `TensorStore`,
`TensorTables`, `Ddmin`, `WeightExport` and `GateSetup`, the weights.

Next:

9. The control store's files and their lost updates.
10. `ManualCanary` and `RoutingCutover`: approvals, restart of the controller,
    compare and swap of the route. Two controllers, one restart.
11. Autopilot and promotion control, as far as their decisions change state.

Theorems worth proving next: with the control store, that no accepted change of
policy is lost; with the canary, that a route is replaced only by an approved one.
