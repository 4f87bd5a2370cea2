-------------------------------- MODULE Q4Pool --------------------------------
(***************************************************************************)
(* The worker pool of q4gemv.h: one dispatching thread, which is worker 0, *)
(* and NThreads - 1 spawned workers that compute row ranges of a shared    *)
(* job.  Both join protocols are modelled: the spin-wait one on the        *)
(* atomics alone and the one on a mutex and two condition variables.  A    *)
(* critical section, from lock to unlock or to the wait that releases the  *)
(* mutex, is one action; so is each access to an atomic outside one.       *)
(*                                                                         *)
(* The job record is plain shared memory, filled by the entry point that   *)
(* dispatches and never reset as a whole; an entry point assigns only some *)
(* of its flags and clears some after the join.                            *)
(***************************************************************************)
EXTENDS Integers, FiniteSets

CONSTANTS
    NThreads,   \* nthreads, the dispatcher included
    Outs,       \* values of job.out, the number of output rows
    GenMod      \* the dispatch counter gen wraps modulo this (2^32 in C)

ASSUME PoolAssumption ==
    /\ NThreads \in Nat /\ NThreads >= 2   \* one thread never dispatches
    /\ Outs \subseteq Nat
    /\ GenMod \in Nat /\ GenMod >= 2

VARIABLES
    spin,   \* join protocol, fixed before the workers are spawned
    job,    \* the flags of p->job that select a kernel, and its row count
    entry,  \* the entry point that dispatches
    gen,    \* dispatch counter
    done,   \* done_count
    stop,   \* workers must exit
    main,   \* control point of the dispatching thread
    pc,     \* control point of each worker
    last,   \* the last gen each worker has taken
    ran     \* what each thread computed in this dispatch: kernel and rows

vars == <<spin, job, entry, gen, done, stop, main, pc, last, ran>>

Workers == 1 .. NThreads - 1
Threads == 0 .. NThreads - 1

None == <<>>   \* no computation yet

-----------------------------------------------------------------------------
(* The entry points and the job flags.  A kernel is a path of q4_run_range *)
(* and the bits it reads; 246 is the sentinel of the g256sf format.        *)

Asked ==
    [gemv_q4g64_mt         |-> <<"unpack", 4>>,
     gemv_q4g64_mt_fused   |-> <<"fused", 4>>,
     gemv_q4g64_sdot_mt    |-> <<"row", 4>>,
     gemv_q8g64_sdot_mt    |-> <<"row", 8>>,
     gemv_q8g64_mt         |-> <<"unpack", 8>>,
     gemm_q4g64_mt         |-> <<"unpack", 4>>,
     gemm_q8g64_mt         |-> <<"unpack", 8>>,
     gemm_q4g64_sdot_mt    |-> <<"batch", 4>>,
     gemm_q8g64_sdot_mt    |-> <<"batch", 8>>,
     gemv_q4g256sf_sdot_mt |-> <<"row", 246>>,
     gemm_q4g256sf_sdot_mt |-> <<"batch", 246>>]

Entries      == DOMAIN Asked
BatchEntries == {"gemm_q4g64_sdot_mt", "gemm_q8g64_sdot_mt", "gemm_q4g256sf_sdot_mt"}
SdotEntries  == BatchEntries \union
    {"gemv_q4g64_sdot_mt", "gemv_q8g64_sdot_mt", "gemv_q4g256sf_sdot_mt"}

\* What a caller may ask for: a kernel, over a number of rows.
Requests == {<<Asked[e], n>> : e \in Entries, n \in Outs}

Jobs == [bits : {0, 4, 8, 246}, fused : BOOLEAN, sdot : BOOLEAN,
         sdotb : BOOLEAN, out : Nat]

\* The job fields an entry point assigns; the others keep their last value.
Fill(j, e, n) ==
    [bits  |-> Asked[e][2],
     fused |-> e = "gemv_q4g64_mt_fused",
     sdot  |-> e \in SdotEntries \/ (j.sdot /\ e # "gemv_q4g64_mt"),
     sdotb |-> e \in BatchEntries \/ (j.sdotb /\ e # "gemv_q4g256sf_sdot_mt"),
     out   |-> n]

\* Variant: the batched entry points leave sdotb set.
CleanLeavesSdotb(j, e) == [j EXCEPT !.sdot = @ /\ e \notin SdotEntries]

\* The flags an entry point clears after the join.
Clean(j, e) ==
    [j EXCEPT !.sdot  = @ /\ e \notin SdotEntries,
              !.sdotb = @ /\ e \notin BatchEntries]

\* The kernel q4_run_range selects from the flags.
Kernel(j) ==
    << IF j.sdot THEN IF j.sdotb THEN "batch" ELSE "row"
                 ELSE IF j.fused THEN "fused" ELSE "unpack",
       j.bits >>

\* Variant: the share of each thread rounded down.
PerRoundedDown(n) == n \div NThreads

\* The number of rows in a thread's range.
Per(n) == (n + NThreads - 1) \div NThreads

\* The rows q4_run_range computes as thread w.
RowsOf(w, n) == {r \in w * Per(n) .. (w + 1) * Per(n) - 1 : r < n}

Computed(j) == <<Kernel(j), j.out>>

-----------------------------------------------------------------------------
Init ==
    /\ spin \in BOOLEAN
    /\ job = [bits |-> 0, fused |-> FALSE, sdot |-> FALSE, sdotb |-> FALSE, out |-> 0]
    /\ entry \in Entries
    /\ gen = 0
    /\ done = 0
    /\ stop = FALSE
    /\ main = "idle"
    /\ pc = [w \in Workers |-> "check"]
    /\ last = [w \in Workers |-> 0]
    /\ ran = [t \in Threads |-> None]

(* The dispatching thread.                                                 *)

\* An entry point fills the job and calls q4pool_go_and_wait.
Dispatch(e, n) ==
    /\ main = "idle"
    /\ job' = Fill(job, e, n)
    /\ entry' = e
    /\ ran' = [t \in Threads |-> None]
    /\ main' = "go"
    /\ UNCHANGED <<spin, gen, done, stop, pc, last>>

\* Variant: the dispatcher adds itself to the count of the previous dispatch.
ResetDoneForgotten ==
    /\ spin
    /\ main = "go"
    /\ done' = done + 1
    /\ main' = "bump"
    /\ UNCHANGED <<spin, job, entry, gen, stop, pc, last, ran>>

\* Spin protocol: done_count is set before the release store of gen.
ResetDone ==
    /\ spin
    /\ main = "go"
    /\ done' = 1
    /\ main' = "bump"
    /\ UNCHANGED <<spin, job, entry, gen, stop, pc, last, ran>>

BumpGen ==
    /\ main = "bump"
    /\ gen' = (gen + 1) % GenMod
    /\ main' = "range"
    /\ UNCHANGED <<spin, job, entry, done, stop, pc, last, ran>>

\* A broadcast on cv_go, or a stop, makes sleeping workers test again.
Awakened == [w \in Workers |-> IF pc[w] = "asleep" THEN "check" ELSE pc[w]]

\* Condition variable protocol: both under one lock, with a broadcast.
ResetAndBump ==
    /\ ~spin
    /\ main = "go"
    /\ done' = 1
    /\ gen' = (gen + 1) % GenMod
    /\ pc' = Awakened
    /\ main' = "range"
    /\ UNCHANGED <<spin, job, entry, stop, last, ran>>

OwnRange ==
    /\ main = "range"
    /\ ran' = [ran EXCEPT ![0] = Computed(job)]
    /\ main' = "join"
    /\ UNCHANGED <<spin, job, entry, gen, done, stop, pc, last>>

\* Variant: the dispatcher waits for the spawned workers but one.
JoinedEarly == done >= NThreads - 1

\* What the dispatcher waits for.
Joined == done >= NThreads

JoinDone ==
    /\ main = "join"
    /\ Joined
    /\ main' = "clean"
    /\ UNCHANGED <<spin, job, entry, gen, done, stop, pc, last, ran>>

JoinSleep ==
    /\ ~spin
    /\ main = "join"
    /\ ~Joined
    /\ main' = "waiting"
    /\ UNCHANGED <<spin, job, entry, gen, done, stop, pc, last, ran>>

\* The entry point clears its flags and returns.
Return ==
    /\ main = "clean"
    /\ job' = Clean(job, entry)
    /\ main' = "idle"
    /\ UNCHANGED <<spin, entry, gen, done, stop, pc, last, ran>>

\* Variant: q4pool_destroy forgets to wake the sleeping workers.
StopUnheard ==
    /\ main = "idle"
    /\ stop' = TRUE
    /\ main' = "joining"
    /\ UNCHANGED <<spin, job, entry, gen, done, pc, last, ran>>

\* q4pool_destroy up to the joins.
Stop ==
    /\ main = "idle"
    /\ stop' = TRUE
    /\ pc' = IF spin THEN pc ELSE Awakened
    /\ main' = "joining"
    /\ UNCHANGED <<spin, job, entry, gen, done, last, ran>>

Destroyed ==
    /\ main = "joining"
    /\ \A w \in Workers : pc[w] = "exited"
    /\ main' = "destroyed"
    /\ UNCHANGED <<spin, job, entry, gen, done, stop, pc, last, ran>>

-----------------------------------------------------------------------------
(* A worker.                                                               *)

SpinLoad(w) ==
    /\ spin
    /\ pc[w] = "check"
    /\ IF gen = last[w]
         THEN pc' = [pc EXCEPT ![w] = "poll"] /\ UNCHANGED last
         ELSE pc' = [pc EXCEPT ![w] = "range"] /\ last' = [last EXCEPT ![w] = gen]
    /\ UNCHANGED <<spin, job, entry, gen, done, stop, main, ran>>

SpinPoll(w) ==
    /\ pc[w] = "poll"
    /\ pc' = [pc EXCEPT ![w] = IF stop THEN "exited" ELSE "check"]
    /\ UNCHANGED <<spin, job, entry, gen, done, stop, main, last, ran>>

CondTake(w) ==
    /\ ~spin
    /\ pc[w] = "check"
    /\ gen # last[w]
    /\ ~stop
    /\ last' = [last EXCEPT ![w] = gen]
    /\ pc' = [pc EXCEPT ![w] = "range"]
    /\ UNCHANGED <<spin, job, entry, gen, done, stop, main, ran>>

CondSleep(w) ==
    /\ ~spin
    /\ pc[w] = "check"
    /\ gen = last[w] \/ stop
    /\ pc' = [pc EXCEPT ![w] = IF stop THEN "exited" ELSE "asleep"]
    /\ UNCHANGED <<spin, job, entry, gen, done, stop, main, last, ran>>

RunRange(w) ==
    /\ pc[w] = "range"
    /\ ran' = [ran EXCEPT ![w] = Computed(job)]
    /\ pc' = [pc EXCEPT ![w] = "report"]
    /\ UNCHANGED <<spin, job, entry, gen, done, stop, main, last>>

\* The worker that completes the count signals cv_done.
Report(w) ==
    /\ pc[w] = "report"
    /\ done' = done + 1
    /\ main' = IF main = "waiting" /\ done + 1 = NThreads THEN "join" ELSE main
    /\ pc' = [pc EXCEPT ![w] = "check"]
    /\ UNCHANGED <<spin, job, entry, gen, stop, last, ran>>

-----------------------------------------------------------------------------
(* pthread_cond_wait may return without a signal.                          *)

SpuriousMain ==
    /\ main = "waiting"
    /\ main' = "join"
    /\ UNCHANGED <<spin, job, entry, gen, done, stop, pc, last, ran>>

SpuriousWorker(w) ==
    /\ pc[w] = "asleep"
    /\ pc' = [pc EXCEPT ![w] = "check"]
    /\ UNCHANGED <<spin, job, entry, gen, done, stop, main, last, ran>>

MainStep ==
    ResetDone \/ BumpGen \/ ResetAndBump \/ OwnRange \/ JoinDone \/ JoinSleep
    \/ Return \/ Destroyed

WorkerStep(w) ==
    SpinLoad(w) \/ SpinPoll(w) \/ CondTake(w) \/ CondSleep(w) \/ RunRange(w) \/ Report(w)

Next ==
    \/ \E e \in Entries, n \in Outs : Dispatch(e, n)
    \/ Stop
    \/ MainStep
    \/ \E w \in Workers : WorkerStep(w)
    \/ SpuriousMain
    \/ \E w \in Workers : SpuriousWorker(w)

\* Every thread is scheduled: the bounded spin yields the processor.
Spec == Init /\ [][Next]_vars
             /\ WF_vars(MainStep)
             /\ \A w \in Workers : WF_vars(WorkerStep(w))

-----------------------------------------------------------------------------
(* Properties.                                                             *)

TypeOK ==
    /\ spin \in BOOLEAN
    /\ job \in Jobs
    /\ entry \in Entries
    /\ gen \in 0 .. GenMod - 1
    /\ done \in 0 .. NThreads
    /\ stop \in BOOLEAN
    /\ main \in {"idle", "go", "bump", "range", "join", "waiting", "clean",
                 "joining", "destroyed"}
    /\ pc \in [Workers -> {"check", "poll", "asleep", "range", "report", "exited"}]
    /\ last \in [Workers -> 0 .. GenMod - 1]
    /\ ran \in [Threads -> {None} \union Requests]

\* No worker is about to read, or reading, the job while its fields change:
\* the next entry point fills them, and the last one clears its flags, only
\* after every worker is done with the previous dispatch.
JobStableWhileRead ==
    [][job' # job => \A w \in Workers : pc[w] \notin {"range", "report"}]_vars

\* When the dispatcher leaves the join every row of the job has been computed
\* by one thread, and by the kernel the caller asked for.
EveryRowOnce ==
    main = "clean" =>
        /\ \A t \in Threads : ran[t] = <<Asked[entry], job.out>>
        /\ \A r \in 0 .. job.out - 1 :
              Cardinality({t \in Threads : r \in RowsOf(t, ran[t][2])}) = 1

\* A dispatch is a fork-join of one request: the pool implements ForkJoin,
\* its progress included.
FJ == INSTANCE ForkJoin WITH
        Shares   <- Threads,
        Requests <- Requests,
        asked    <- IF main \in {"go", "bump", "range", "join", "waiting", "clean"}
                      THEN <<Asked[entry], job.out>> ELSE None,
        result   <- ran,
        closed   <- stop

ImplementsForkJoin == FJ!Spec

\* Once the pool is told to stop, every worker exits and the joins return,
\* whether a worker was polling, asleep or still coming from its last range.
StopCompletes == main = "joining" ~> main = "destroyed"

=============================================================================
