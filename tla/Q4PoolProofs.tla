----------------------------- MODULE Q4PoolProofs -----------------------------
(***************************************************************************)
(* Proofs about Q4Pool for every number of threads, every set of row       *)
(* counts and every modulus of the dispatch counter.                       *)
(***************************************************************************)
EXTENDS Q4Pool, FiniteSetTheorems, TLAPS

-----------------------------------------------------------------------------
(* Arithmetic: the ranges of the threads partition the rows.               *)

\* Division rounds down.
LEMMA DivFacts ==
    ASSUME NEW a \in Nat, NEW b \in Nat \ {0}
    PROVE  LET q == a \div b
           IN  q \in Nat /\ b * q <= a /\ a < b * (q + 1)
  BY Z3

\* The ranges reach the last row.
LEMMA PerCovers ==
    ASSUME NEW n \in Nat
    PROVE  Per(n) \in Nat /\ n <= NThreads * Per(n)
<1> DEFINE a == n + NThreads - 1
<1>1. a \in Nat /\ NThreads \in Nat \ {0}
  BY PoolAssumption
<1>2. Per(n) \in Nat /\ a < NThreads * (Per(n) + 1)
  BY <1>1, DivFacts DEF Per
<1>3. NThreads * (Per(n) + 1) = NThreads * Per(n) + NThreads
  BY <1>1, <1>2, Z3
<1> QED
  BY <1>1, <1>2, <1>3, Z3

\* Every row is in the range of exactly one thread.
LEMMA RowsPartition ==
    ASSUME NEW n \in Nat, NEW r \in 0 .. n - 1
    PROVE  \E t \in Threads :
              \A u \in Threads : r \in RowsOf(u, n) <=> u = t
<1> DEFINE p == Per(n)
           t == r \div p
<1>1. p \in Nat /\ n <= NThreads * p /\ r \in Nat /\ NThreads \in Nat /\ r < n
  BY PerCovers, PoolAssumption
<1>2. p # 0
  BY <1>1, Z3
<1>3. t \in Nat /\ p * t <= r /\ r < p * (t + 1)
  BY <1>1, <1>2, DivFacts
<1> HIDE DEF p, t
<1>4. t < NThreads
  <2> SUFFICES ASSUME NThreads <= t PROVE FALSE
    BY <1>1, <1>3
  <2>1. p * NThreads <= p * t
    BY <1>1, <1>3, Z3
  <2> QED
    BY <1>1, <1>3, <2>1, Z3
<1>5. ASSUME NEW u \in Nat PROVE u * p <= r /\ r <= (u + 1) * p - 1 <=> u = t
  <2>1. CASE u <= t - 1
    <3>1. (u + 1) * p <= t * p
      BY <1>1, <1>3, <1>5, <2>1, Z3
    <3> QED
      BY <1>1, <1>3, <1>5, <2>1, <3>1, Z3
  <2>2. CASE u = t
    BY <1>1, <1>3, <2>2, Z3
  <2>3. CASE u >= t + 1
    <3>1. u * p >= (t + 1) * p
      BY <1>1, <1>3, <1>5, <2>3, Z3
    <3> QED
      BY <1>1, <1>3, <1>5, <2>3, <3>1, Z3
  <2> QED
    BY <1>3, <1>5, <2>1, <2>2, <2>3
<1>6. ASSUME NEW u \in Threads PROVE r \in RowsOf(u, n) <=> u = t
  <2>1. u \in Nat /\ u * p \in Int /\ (u + 1) * p - 1 \in Int
    BY <1>1, Z3 DEF Threads
  <2>2. r \in RowsOf(u, n) <=> u * p <= r /\ r <= (u + 1) * p - 1
    BY <1>1, <2>1 DEF RowsOf, p
  <2> QED
    BY <1>5, <2>1, <2>2
<1>7. t \in Threads
  BY <1>1, <1>3, <1>4 DEF Threads
<1> QED
  BY <1>6, <1>7

\* The dispatch counter moves on every dispatch, also when it wraps.
LEMMA GenMoves ==
    ASSUME NEW g \in 0 .. GenMod - 1
    PROVE  (g + 1) % GenMod \in 0 .. GenMod - 1 /\ (g + 1) % GenMod # g
<1>1. GenMod \in Nat /\ GenMod >= 2
  BY PoolAssumption
<1>2. CASE g + 1 < GenMod
  <2>1. (g + 1) % GenMod = g + 1
    BY <1>1, <1>2, Z3
  <2> QED
    BY <1>1, <1>2, <2>1
<1>3. CASE g + 1 = GenMod
  <2>1. (g + 1) % GenMod = 0
    BY <1>1, <1>3, Z3
  <2> QED
    BY <1>1, <1>3, <2>1
<1> QED
  BY <1>1, <1>2, <1>3

-----------------------------------------------------------------------------
(* The job flags.                                                          *)

\* Between dispatches the two int8 flags are clear.
Flagless(j) == ~j.sdot /\ ~j.sdotb

\* From clear flags every entry point selects the kernel it stands for, and
\* leaves clear flags behind, whichever flags it does not assign.
LEMMA FillSelects ==
    ASSUME NEW j \in Jobs, Flagless(j), NEW e \in Entries, NEW n \in Nat
    PROVE  /\ Fill(j, e, n) \in Jobs
           /\ Computed(Fill(j, e, n)) = <<Asked[e], n>>
           /\ Fill(j, e, n).out = n
           /\ Flagless(Clean(Fill(j, e, n), e))
<1> DEFINE f == Fill(j, e, n)
<1>1. Asked[e][2] \in {4, 8, 246}
  BY DEF Entries, Asked
<1>2. f \in Jobs
  BY <1>1 DEF Fill, Jobs, SdotEntries, BatchEntries
<1>3. /\ f.bits = Asked[e][2]
      /\ f.fused = (e = "gemv_q4g64_mt_fused")
      /\ f.sdot = (e \in SdotEntries)
      /\ f.sdotb = (e \in BatchEntries)
      /\ f.out = n
  BY DEF Fill, Flagless
<1>4. Kernel(f) = Asked[e]
  <2>1. Asked[e] = << IF e \in BatchEntries THEN "batch"
                      ELSE IF e \in SdotEntries THEN "row"
                      ELSE IF e = "gemv_q4g64_mt_fused" THEN "fused" ELSE "unpack",
                      Asked[e][2] >>
    BY DEF Asked, Entries, SdotEntries, BatchEntries
  <2>2. e \in BatchEntries => e \in SdotEntries
    BY DEF SdotEntries
  <2> HIDE DEF f
  <2> QED
    BY <1>3, <2>1, <2>2 DEF Kernel
<1>5. Flagless(Clean(f, e))
  BY <1>2, <1>3 DEF Flagless, Clean, Jobs
<1> QED
  BY <1>2, <1>3, <1>4, <1>5 DEF Computed

\* Clearing flags keeps a job a job and its row count.
LEMMA FlagsJob ==
    ASSUME NEW j \in Jobs, NEW a \in BOOLEAN, NEW b \in BOOLEAN
    PROVE  /\ [j EXCEPT !.sdot = a, !.sdotb = b] \in Jobs
           /\ [j EXCEPT !.sdot = a, !.sdotb = b].out = j.out
<1>1. [j EXCEPT !.sdot = a, !.sdotb = b] \in Jobs
  BY DEF Jobs
<1>2. [j EXCEPT !.sdot = a, !.sdotb = b].out = j.out
  BY DEF Jobs
<1> QED
  BY <1>1, <1>2

LEMMA CleanJob ==
    ASSUME NEW j \in Jobs, NEW e \in Entries
    PROVE  Clean(j, e) \in Jobs /\ Clean(j, e).out = j.out
<1>1. PICK a \in BOOLEAN : a = (j.sdot /\ e \notin SdotEntries)
  OBVIOUS
<1>2. PICK b \in BOOLEAN : b = (j.sdotb /\ e \notin BatchEntries)
  OBVIOUS
<1>3. Clean(j, e) = [j EXCEPT !.sdot = a, !.sdotb = b]
  BY <1>1, <1>2 DEF Clean
<1>4. /\ [j EXCEPT !.sdot = a, !.sdotb = b] \in Jobs
      /\ [j EXCEPT !.sdot = a, !.sdotb = b].out = j.out
  BY FlagsJob
<1> QED
  BY <1>3, <1>4, Zenon

-----------------------------------------------------------------------------
(* The inductive invariant.                                                *)

Goal == <<Asked[entry], job.out>>   \* the request of the current dispatch

Busy     == main \in {"go", "bump", "range", "join", "waiting", "clean"}
InFlight == main \in {"range", "join", "waiting"}

\* Worker w has finished the dispatch gen counts.
Reported(w) == last[w] = gen /\ pc[w] \notin {"range", "report"}

Finished == {w \in Workers : Reported(w)}

\* Out of flight every worker has finished; in flight one that has not yet
\* taken the dispatch is not computing.
Turns ==
    /\ ~InFlight => \A w \in Workers : Reported(w)
    /\ \A w \in Workers : last[w] # gen => pc[w] \in {"check", "poll", "asleep"}

\* done_count is the dispatcher and the workers that have finished.
Counted ==
    /\ main = "bump" => done = 1
    /\ InFlight => done = 1 + Cardinality(Finished)

\* Who has computed what.
Results ==
    /\ main \in {"go", "bump"} => \A t \in Threads : ran[t] = None
    /\ main = "clean" => \A t \in Threads : ran[t] = Goal
    /\ InFlight =>
         /\ ran[0] = IF main = "range" THEN None ELSE Goal
         /\ \A w \in Workers :
               ran[w] = IF Reported(w) \/ pc[w] = "report" THEN Goal ELSE None

\* The flags select the kernel asked for, and are clear between dispatches.
Selected ==
    /\ Busy => /\ Computed(job) = Goal
               /\ job.out \in Outs
               /\ Flagless(Clean(job, entry))
    /\ ~Busy => Flagless(job)

Stopped ==
    /\ stop <=> main \in {"joining", "destroyed"}
    /\ \A w \in Workers : pc[w] = "exited" => stop

IInv == TypeOK /\ Turns /\ Counted /\ Results /\ Selected /\ Stopped

\* The workers are finitely many, and only all of them are NThreads - 1.
LEMMA WorkerCount ==
    ASSUME NEW S, S \subseteq Workers
    PROVE  /\ IsFiniteSet(S)
           /\ Cardinality(S) \in 0 .. NThreads - 1
           /\ Cardinality(S) >= NThreads - 1 => S = Workers
<1>1. IsFiniteSet(Workers) /\ Cardinality(Workers) = NThreads - 1
  <2>1. 1 \in Int /\ NThreads - 1 \in Int /\ 1 <= NThreads - 1
    BY PoolAssumption
  <2> QED
    BY <2>1, FS_Interval, PoolAssumption DEF Workers
<1>2. IsFiniteSet(S) /\ Cardinality(S) <= Cardinality(Workers)
      /\ (Cardinality(S) = Cardinality(Workers) => S = Workers)
  BY <1>1, FS_Subset
<1>3. Cardinality(S) \in Nat
  BY <1>2, FS_CardinalityType
<1> QED
  BY <1>1, <1>2, <1>3, PoolAssumption

LEMMA InitInv == Init => IInv
<1> SUFFICES ASSUME Init PROVE IInv
  OBVIOUS
<1> USE DEF Init
<1>1. TypeOK
  <2>1. job \in Jobs
    BY DEF Jobs
  <2>2. gen \in 0 .. GenMod - 1 /\ done \in 0 .. NThreads
    BY PoolAssumption
  <2>3. last \in [Workers -> 0 .. GenMod - 1]
    BY PoolAssumption
  <2> QED
    BY <2>1, <2>2, <2>3 DEF TypeOK
<1>2. Turns /\ Counted /\ Results
  BY DEF Turns, Counted, Results, InFlight, Reported
<1>3. Selected /\ Stopped
  BY DEF Selected, Stopped, Busy, Flagless
<1> QED
  BY <1>1, <1>2, <1>3 DEF IInv

-----------------------------------------------------------------------------
(* The steps.                                                              *)

LEMMA DispatchInv ==
    ASSUME IInv, NEW e \in Entries, NEW n \in Outs, Dispatch(e, n)
    PROVE  IInv'
<1> USE DEF IInv, Dispatch
<1>1. /\ job' \in Jobs /\ Computed(job') = <<Asked[e], n>> /\ job'.out = n
      /\ Flagless(Clean(job', e))
  <2>1. job \in Jobs /\ Flagless(job) /\ n \in Nat
    BY PoolAssumption DEF TypeOK, Selected, Busy
  <2>2. job' = Fill(job, e, n)
    OBVIOUS
  <2> QED
    BY <2>1, <2>2, FillSelects
<1>2. TypeOK'
  BY <1>1 DEF TypeOK
<1>3. Turns' /\ Counted' /\ Results'
  BY DEF Turns, Counted, Results, InFlight, Reported
<1>4. Selected'
  BY <1>1 DEF Selected, Busy, Goal
<1>5. Stopped'
  BY DEF Stopped
<1> QED
  BY <1>2, <1>3, <1>4, <1>5

\* What the steps that leave job, entry and stop alone need not prove again.
LEMMA SelectedKept ==
    ASSUME Selected, UNCHANGED <<job, entry>>, Busy' = Busy
    PROVE  Selected'
  BY Zenon DEF Selected, Goal, Computed, Kernel, Clean, Flagless

LEMMA FinishedKept ==
    ASSUME \A w \in Workers : Reported(w)' = Reported(w)
    PROVE  Finished' = Finished
  BY DEF Finished

LEMMA ResetDoneInv ==
    ASSUME IInv, ResetDone
    PROVE  IInv'
<1> USE DEF IInv, ResetDone
<1>1. TypeOK'
  BY PoolAssumption DEF TypeOK
<1>2. Turns' /\ Counted' /\ Results'
  BY DEF Turns, Counted, Results, InFlight, Reported
<1>3. Selected'
  BY SelectedKept DEF Busy
<1>4. Stopped'
  BY DEF Stopped
<1> QED
  BY <1>1, <1>2, <1>3, <1>4

\* A new dispatch: no worker has finished it and none is computing.
LEMMA TurnBegins ==
    ASSUME IInv, main \in {"go", "bump"}, done' = 1,
           gen' = (gen + 1) % GenMod, main' = "range",
           pc' = pc \/ pc' = Awakened,
           UNCHANGED <<spin, job, entry, stop, last, ran>>
    PROVE  IInv'
<1> USE DEF IInv
<1>1. gen' \in 0 .. GenMod - 1 /\ gen' # gen
  BY GenMoves DEF TypeOK
<1>2. \A w \in Workers :
         /\ last[w] = gen
         /\ pc[w] \in {"check", "poll", "asleep", "exited"}
         /\ pc'[w] = pc[w] \/ pc'[w] = "check"
  BY DEF Turns, InFlight, Reported, TypeOK, Awakened
<1>3. \A w \in Workers : pc[w] # "exited"
  BY DEF Stopped
<1>4. \A w \in Workers : ~Reported(w)' /\ pc'[w] \in {"check", "poll", "asleep"}
  BY <1>1, <1>2, <1>3 DEF Reported
<1>5. pc' \in [Workers -> {"check", "poll", "asleep", "range", "report", "exited"}]
  BY DEF TypeOK, Awakened
<1>6. TypeOK'
  BY <1>1, <1>5, PoolAssumption DEF TypeOK
<1>7. Turns'
  BY <1>4 DEF Turns, InFlight
<1>8. Counted'
  <2>1. Finished' = {}
    BY <1>4 DEF Finished
  <2> QED
    BY <2>1, FS_EmptySet DEF Counted
<1>9. Results'
  <2>1. \A t \in Threads : ran'[t] = None
    BY DEF Results
  <2>2. 0 \in Threads /\ Workers \subseteq Threads
    BY PoolAssumption DEF Threads, Workers
  <2>3. \A w \in Workers : ~(Reported(w)' \/ pc'[w] = "report")
    BY <1>4
  <2> HIDE DEF IInv
  <2> QED
    BY <2>1, <2>2, <2>3 DEF Results, InFlight
<1>10. Selected'
  BY SelectedKept DEF Busy
<1>11. Stopped'
  BY <1>4 DEF Stopped
<1> QED
  BY <1>6, <1>7, <1>8, <1>9, <1>10, <1>11

LEMMA OwnRangeInv ==
    ASSUME IInv, OwnRange
    PROVE  IInv'
<1> USE DEF IInv, OwnRange
<1>1. Computed(job) = Goal /\ entry \in Entries /\ job.out \in Outs
  BY DEF Selected, Busy, TypeOK
<1>2. /\ ran' \in [Threads -> {None} \union Requests]
      /\ ran'[0] = Goal
      /\ \A w \in Workers : ran'[w] = ran[w]
  <2>1. Goal \in Requests
    BY <1>1 DEF Goal, Requests
  <2>2. 0 \in Threads /\ Workers \subseteq Threads /\ 0 \notin Workers
    BY PoolAssumption DEF Threads, Workers
  <2> QED
    BY <1>1, <2>1, <2>2 DEF TypeOK
<1>3. TypeOK'
  BY <1>2 DEF TypeOK
<1>4. \A w \in Workers : Reported(w)' = Reported(w)
  BY DEF Reported
<1>5. Turns' /\ Counted'
  BY <1>4, FinishedKept DEF Turns, Counted, InFlight
<1>6. Results'
  <2>1. /\ main' = "join" /\ InFlight /\ Goal' = Goal
        /\ \A w \in Workers : pc'[w] = pc[w]
    BY DEF InFlight, Goal
  <2>2. \A w \in Workers :
           ran'[w] = IF Reported(w)' \/ pc'[w] = "report" THEN Goal' ELSE None
    <3>1. \A w \in Workers :
             ran[w] = IF Reported(w) \/ pc[w] = "report" THEN Goal ELSE None
      BY <2>1 DEF Results
    <3> QED
      BY <1>2, <1>4, <2>1, <3>1, Zenon
  <2>3. ran'[0] = IF main' = "range" THEN None ELSE Goal'
    BY <1>2, <2>1
  <2>4. main' \notin {"go", "bump", "clean"}
    BY <2>1
  <2> QED
    BY <2>2, <2>3, <2>4, Zenon DEF Results
<1>7. Selected'
  BY SelectedKept DEF Busy
<1>8. Stopped'
  BY DEF Stopped
<1> QED
  BY <1>3, <1>5, <1>6, <1>7, <1>8

LEMMA JoinDoneInv ==
    ASSUME IInv, JoinDone
    PROVE  IInv'
<1> USE DEF IInv, JoinDone
<1>1. Finished = Workers
  <2>1. Cardinality(Finished) >= NThreads - 1
    <3>1. done >= NThreads /\ done = 1 + Cardinality(Finished)
      BY DEF Joined, Counted, InFlight
    <3>2. Cardinality(Finished) \in Nat
      BY WorkerCount, PoolAssumption DEF Finished
    <3> QED
      BY <3>1, <3>2, PoolAssumption
  <2> QED
    BY <2>1, WorkerCount DEF Finished
<1>2. TypeOK'
  BY DEF TypeOK
<1>3. \A w \in Workers : Reported(w) /\ Reported(w)'
  BY <1>1 DEF Finished, Reported
<1>4. Turns' /\ Counted'
  BY <1>3 DEF Turns, Counted, InFlight
<1>5. Results'
  BY <1>3, PoolAssumption DEF Results, InFlight, Goal, Threads, Workers
<1>6. Selected'
  BY SelectedKept DEF Busy
<1>7. Stopped'
  BY DEF Stopped
<1> QED
  BY <1>2, <1>4, <1>5, <1>6, <1>7

LEMMA JoinSleepInv ==
    ASSUME IInv, JoinSleep
    PROVE  IInv'
<1> USE DEF IInv, JoinSleep
<1>1. TypeOK'
  BY DEF TypeOK
<1>2. \A w \in Workers : Reported(w)' = Reported(w)
  BY DEF Reported
<1>3. Turns' /\ Counted'
  BY <1>2, FinishedKept DEF Turns, Counted, InFlight
<1>4. Results'
  BY <1>2 DEF Results, InFlight, Goal
<1>5. Selected'
  BY SelectedKept DEF Busy
<1>6. Stopped'
  BY DEF Stopped
<1> QED
  BY <1>1, <1>3, <1>4, <1>5, <1>6

\* A wake-up of the dispatcher that no worker caused.
LEMMA SpuriousMainInv ==
    ASSUME IInv, SpuriousMain
    PROVE  IInv'
<1> USE DEF IInv, SpuriousMain
<1>1. TypeOK'
  BY DEF TypeOK
<1>2. \A w \in Workers : Reported(w)' = Reported(w)
  BY DEF Reported
<1>3. Turns' /\ Counted'
  BY <1>2, FinishedKept DEF Turns, Counted, InFlight
<1>4. Results'
  BY <1>2 DEF Results, InFlight, Goal
<1>5. Selected'
  BY SelectedKept DEF Busy
<1>6. Stopped'
  BY DEF Stopped
<1> QED
  BY <1>1, <1>3, <1>4, <1>5, <1>6

LEMMA ReturnInv ==
    ASSUME IInv, Return
    PROVE  IInv'
<1> USE DEF IInv, Return
<1>1. job' \in Jobs /\ Flagless(job')
  BY CleanJob DEF TypeOK, Selected, Busy
<1>2. TypeOK'
  BY <1>1 DEF TypeOK
<1>3. Turns' /\ Counted' /\ Results'
  BY DEF Turns, Counted, Results, InFlight, Reported
<1>4. Selected'
  BY <1>1 DEF Selected, Busy
<1>5. Stopped'
  BY DEF Stopped
<1> QED
  BY <1>2, <1>3, <1>4, <1>5

LEMMA StopInv ==
    ASSUME IInv, Stop
    PROVE  IInv'
<1> USE DEF IInv, Stop
<1>1. pc' \in [Workers -> {"check", "poll", "asleep", "range", "report", "exited"}]
  BY DEF TypeOK, Awakened
<1>2. TypeOK'
  BY <1>1 DEF TypeOK
<1>3. \A w \in Workers : Reported(w)'
  BY DEF Turns, InFlight, Reported, Awakened
<1>4. Turns' /\ Counted' /\ Results'
  BY <1>3 DEF Turns, Counted, Results, InFlight, Reported
<1>5. Selected'
  BY Zenon DEF Selected, Busy
<1>6. Stopped'
  BY DEF Stopped
<1> QED
  BY <1>2, <1>4, <1>5, <1>6

LEMMA DestroyedInv ==
    ASSUME IInv, Destroyed
    PROVE  IInv'
<1> USE DEF IInv, Destroyed
<1>1. TypeOK'
  BY DEF TypeOK
<1>2. Turns' /\ Counted' /\ Results'
  BY DEF Turns, Counted, Results, InFlight, Reported
<1>3. Selected'
  BY DEF Selected, Busy, Flagless
<1>4. Stopped'
  BY DEF Stopped
<1> QED
  BY <1>1, <1>2, <1>3, <1>4

-----------------------------------------------------------------------------
(* The steps of a worker.                                                  *)

\* A worker moves between control points outside a computation, without
\* taking a dispatch.
LEMMA WorkerMoves ==
    ASSUME IInv, NEW v \in Workers, NEW c \in {"check", "poll", "asleep", "exited"},
           pc[v] \in {"check", "poll", "asleep"}, pc' = [pc EXCEPT ![v] = c],
           c = "exited" => stop /\ ~InFlight,
           UNCHANGED <<spin, job, entry, gen, done, stop, main, last, ran>>
    PROVE  IInv'
<1> USE DEF IInv
<1>1. pc' \in [Workers -> {"check", "poll", "asleep", "range", "report", "exited"}]
  BY DEF TypeOK
<1>2. \A w \in Workers : pc'[w] = IF w = v THEN c ELSE pc[w]
  BY DEF TypeOK
<1>3. TypeOK'
  BY <1>1 DEF TypeOK
<1>4. \A w \in Workers :
         /\ Reported(w)' = Reported(w)
         /\ (pc'[w] = "report") = (pc[w] = "report")
  BY <1>2 DEF Reported
<1>5. InFlight' = InFlight
  BY DEF InFlight
<1>6. Turns'
  <2>1. \A w \in Workers : last[w] # gen => pc'[w] \in {"check", "poll", "asleep"}
    BY <1>2 DEF Turns, Reported
  <2> QED
    BY <1>4, <1>5, <2>1 DEF Turns
<1>7. Counted'
  BY <1>4, <1>5, FinishedKept DEF Counted
<1>8. Results'
  <2>1. Goal' = Goal
    BY DEF Goal
  <2>2. Results
    OBVIOUS
  <2> HIDE DEF IInv
  <2> QED
    BY <1>4, <1>5, <2>1, <2>2 DEF Results
<1>9. Selected'
  BY SelectedKept DEF Busy
<1>10. Stopped'
  BY <1>2 DEF Stopped
<1> QED
  BY <1>3, <1>6, <1>7, <1>8, <1>9, <1>10

\* A worker takes the dispatch gen counts.
LEMMA WorkerTakes ==
    ASSUME IInv, NEW v \in Workers, pc[v] = "check", gen # last[v],
           last' = [last EXCEPT ![v] = gen], pc' = [pc EXCEPT ![v] = "range"],
           UNCHANGED <<spin, job, entry, gen, done, stop, main, ran>>
    PROVE  IInv'
<1> USE DEF IInv
<1>1. /\ pc' \in [Workers -> {"check", "poll", "asleep", "range", "report", "exited"}]
      /\ last' \in [Workers -> 0 .. GenMod - 1]
  BY DEF TypeOK
<1>2. \A w \in Workers : /\ pc'[w] = IF w = v THEN "range" ELSE pc[w]
                         /\ last'[w] = IF w = v THEN gen ELSE last[w]
  BY DEF TypeOK
<1>3. TypeOK'
  BY <1>1 DEF TypeOK
<1>4. \A w \in Workers :
         /\ Reported(w)' = Reported(w)
         /\ (pc'[w] = "report") = (pc[w] = "report")
  BY <1>2 DEF Reported
<1>5. InFlight' = InFlight /\ InFlight
  BY DEF InFlight, Turns, Reported
<1>6. Turns'
  BY <1>2, <1>5 DEF Turns
<1>7. Counted'
  BY <1>4, <1>5, FinishedKept DEF Counted
<1>8. Results'
  <2>1. Goal' = Goal
    BY DEF Goal
  <2>2. Results
    OBVIOUS
  <2> HIDE DEF IInv
  <2> QED
    BY <1>4, <1>5, <2>1, <2>2 DEF Results
<1>9. Selected'
  BY SelectedKept DEF Busy
<1>10. Stopped'
  BY <1>2 DEF Stopped
<1> QED
  BY <1>3, <1>6, <1>7, <1>8, <1>9, <1>10

LEMMA RangeInv ==
    ASSUME IInv, NEW v \in Workers, RunRange(v)
    PROVE  IInv'
<1> USE DEF IInv, RunRange
<1>1. InFlight /\ last[v] = gen
  BY DEF Turns, Reported
<1>2. Computed(job) = Goal /\ Goal \in Requests /\ Goal' = Goal
  <2>1. Computed(job) = Goal /\ entry \in Entries /\ job.out \in Outs
    BY <1>1 DEF Selected, Busy, InFlight, TypeOK
  <2> QED
    BY <2>1 DEF Goal, Requests
<1>3. /\ ran' \in [Threads -> {None} \union Requests]
      /\ ran'[0] = ran[0]
      /\ \A w \in Workers : ran'[w] = IF w = v THEN Goal ELSE ran[w]
  <2>1. 0 \in Threads /\ Workers \subseteq Threads /\ 0 \notin Workers
    BY PoolAssumption DEF Threads, Workers
  <2> QED
    BY <1>2, <2>1 DEF TypeOK
<1>4. /\ pc' \in [Workers -> {"check", "poll", "asleep", "range", "report", "exited"}]
      /\ \A w \in Workers : pc'[w] = IF w = v THEN "report" ELSE pc[w]
  BY DEF TypeOK
<1>5. TypeOK'
  BY <1>3, <1>4 DEF TypeOK
<1>6. \A w \in Workers : Reported(w)' = Reported(w)
  BY <1>4 DEF Reported
<1>7. InFlight' = InFlight
  BY DEF InFlight
<1>8. Turns' /\ Counted'
  BY <1>1, <1>4, <1>6, <1>7, FinishedKept DEF Turns, Counted
<1>9. Results'
  <2>1. main' = main /\ main \notin {"go", "bump", "clean"}
    BY <1>1 DEF InFlight
  <2>2. ran'[0] = IF main' = "range" THEN None ELSE Goal'
    BY <1>1, <1>2, <1>3, <2>1, Zenon DEF Results
  <2>3. \A w \in Workers :
           ran'[w] = IF Reported(w)' \/ pc'[w] = "report" THEN Goal' ELSE None
    <3>1. \A w \in Workers :
             ran[w] = IF Reported(w) \/ pc[w] = "report" THEN Goal ELSE None
      BY <1>1 DEF Results
    <3> HIDE DEF IInv
    <3> QED
      BY <1>2, <1>3, <1>4, <1>6, <3>1
  <2> QED
    BY <2>1, <2>2, <2>3, Zenon DEF Results
<1>10. Selected'
  BY SelectedKept DEF Busy
<1>11. Stopped'
  BY <1>4 DEF Stopped
<1> QED
  BY <1>5, <1>8, <1>9, <1>10, <1>11

LEMMA ReportInv ==
    ASSUME IInv, NEW v \in Workers, Report(v)
    PROVE  IInv'
<1> USE DEF IInv, Report
<1>1. InFlight /\ last[v] = gen
  BY DEF Turns, Reported
<1>2. /\ pc' \in [Workers -> {"check", "poll", "asleep", "range", "report", "exited"}]
      /\ \A w \in Workers : pc'[w] = IF w = v THEN "check" ELSE pc[w]
  BY DEF TypeOK
<1>3. Goal' = Goal /\ InFlight' /\ (main' = "range") = (main = "range")
  BY <1>1 DEF Goal, InFlight
<1>4. ~Reported(v) /\ \A w \in Workers : Reported(w)' = (w = v \/ Reported(w))
  BY <1>1, <1>2 DEF Reported
<1>5. Finished' = Finished \union {v} /\ v \notin Finished
  BY <1>4 DEF Finished
<1>6. done' = 1 + Cardinality(Finished')
  <2>1. IsFiniteSet(Finished) /\ Cardinality(Finished) \in Nat
    BY WorkerCount, PoolAssumption DEF Finished
  <2>2. Cardinality(Finished') = Cardinality(Finished) + 1
    BY <1>5, <2>1, FS_AddElement
  <2>3. done = 1 + Cardinality(Finished)
    BY <1>1 DEF Counted
  <2> QED
    BY <2>1, <2>2, <2>3
<1>7. done' \in 0 .. NThreads
  <2>1. Finished' \subseteq Workers
    BY <1>5 DEF Finished
  <2>2. Cardinality(Finished') \in 0 .. NThreads - 1
    BY <2>1, WorkerCount
  <2> QED
    BY <1>6, <2>2, PoolAssumption
<1>8. TypeOK'
  BY <1>2, <1>7 DEF TypeOK
<1>9. Turns'
  BY <1>1, <1>2, <1>3 DEF Turns
<1>10. Counted'
  BY <1>3, <1>6 DEF Counted, InFlight
<1>11. Results'
  <2>1. main' \notin {"go", "bump", "clean"}
    BY <1>3 DEF InFlight
  <2>2. ran'[0] = IF main' = "range" THEN None ELSE Goal'
    BY <1>1, <1>3, Zenon DEF Results
  <2>3. \A w \in Workers :
           ran'[w] = IF Reported(w)' \/ pc'[w] = "report" THEN Goal' ELSE None
    <3>1. \A w \in Workers :
             ran[w] = IF Reported(w) \/ pc[w] = "report" THEN Goal ELSE None
      BY <1>1 DEF Results
    <3>2. pc[v] = "report" /\ ran' = ran
      OBVIOUS
    <3> HIDE DEF IInv, Report
    <3> QED
      BY <1>2, <1>3, <1>4, <3>1, <3>2
  <2> QED
    BY <2>1, <2>2, <2>3, Zenon DEF Results
<1>12. Selected'
  <2>1. Busy' = Busy
    BY <1>1, <1>3 DEF Busy, InFlight
  <2> QED
    BY <2>1, SelectedKept
<1>13. Stopped'
  BY <1>1, <1>2, <1>3 DEF Stopped, InFlight
<1> QED
  BY <1>8, <1>9, <1>10, <1>11, <1>12, <1>13

-----------------------------------------------------------------------------
(* The invariant, and what follows from it.                                *)

LEMMA StepInv == IInv /\ [Next]_vars => IInv'
<1> SUFFICES ASSUME IInv, [Next]_vars PROVE IInv'
  OBVIOUS
<1>1. ASSUME NEW e \in Entries, NEW n \in Outs, Dispatch(e, n) PROVE IInv'
  BY <1>1, DispatchInv
<1>2. CASE Stop
  BY <1>2, StopInv
<1>3. CASE ResetDone
  BY <1>3, ResetDoneInv
<1>4. CASE BumpGen
  <2>1. done = 1
    BY <1>4 DEF BumpGen, IInv, Counted
  <2> QED
    BY <1>4, <2>1, TurnBegins DEF BumpGen
<1>5. CASE ResetAndBump
  BY <1>5, TurnBegins DEF ResetAndBump
<1>6. CASE OwnRange
  BY <1>6, OwnRangeInv
<1>7. CASE JoinDone
  BY <1>7, JoinDoneInv
<1>8. CASE JoinSleep
  BY <1>8, JoinSleepInv
<1>9. CASE Return
  BY <1>9, ReturnInv
<1>10. CASE Destroyed
  BY <1>10, DestroyedInv
<1>11. CASE SpuriousMain
  BY <1>11, SpuriousMainInv
<1>12. ASSUME NEW w \in Workers, SpinLoad(w) PROVE IInv'
  <2>1. CASE gen = last[w]
    BY <1>12, <2>1, WorkerMoves DEF SpinLoad
  <2>2. CASE gen # last[w]
    BY <1>12, <2>2, WorkerTakes DEF SpinLoad
  <2> QED
    BY <2>1, <2>2
<1>13. ASSUME NEW w \in Workers, SpinPoll(w) PROVE IInv'
  <2>1. stop => ~InFlight
    BY DEF IInv, Stopped, InFlight
  <2> QED
    BY <1>13, <2>1, WorkerMoves DEF SpinPoll
<1>14. ASSUME NEW w \in Workers, CondTake(w) PROVE IInv'
  BY <1>14, WorkerTakes DEF CondTake
<1>15. ASSUME NEW w \in Workers, CondSleep(w) PROVE IInv'
  <2>1. stop => ~InFlight
    BY DEF IInv, Stopped, InFlight
  <2> QED
    BY <1>15, <2>1, WorkerMoves DEF CondSleep
<1>16. ASSUME NEW w \in Workers, RunRange(w) PROVE IInv'
  BY <1>16, RangeInv
<1>17. ASSUME NEW w \in Workers, Report(w) PROVE IInv'
  BY <1>17, ReportInv
<1>18. ASSUME NEW w \in Workers, SpuriousWorker(w) PROVE IInv'
  BY <1>18, WorkerMoves DEF SpuriousWorker
<1>19. CASE UNCHANGED vars
  <2> USE <1>19 DEF vars, IInv
  <2>1. TypeOK'
    BY DEF TypeOK
  <2>2. \A w \in Workers : Reported(w)' = Reported(w)
    BY DEF Reported
  <2>3. Turns' /\ Counted'
    BY <2>2, FinishedKept DEF Turns, Counted, InFlight
  <2>4. Results'
    BY Zenon DEF Results, InFlight, Goal, Reported
  <2>5. Selected'
    BY SelectedKept DEF Busy
  <2>6. Stopped'
    BY DEF Stopped
  <2> QED
    BY <2>1, <2>3, <2>4, <2>5, <2>6
<1> QED
  BY <1>1, <1>2, <1>3, <1>4, <1>5, <1>6, <1>7, <1>8, <1>9, <1>10, <1>11, <1>12,
     <1>13, <1>14, <1>15, <1>16, <1>17, <1>18, <1>19 DEF Next, MainStep, WorkerStep

\* Every behaviour stays in the invariant.
THEOREM Invariance == Spec => []IInv
<1>1. Init => IInv
  BY InitInv
<1>2. IInv /\ [Next]_vars => IInv'
  BY StepInv
<1> QED
  BY <1>1, <1>2, PTL DEF Spec

\* Every variable of the pool stays in its type; in particular done_count never
\* exceeds the number of threads.
THEOREM TypeCorrect == Spec => []TypeOK
<1>1. IInv => TypeOK
  BY DEF IInv
<1> QED
  BY <1>1, Invariance, PTL

\* No step changes the shared job while a worker has taken a dispatch it has
\* not finished: go_and_wait returns only after the last reader.
THEOREM JobIsStable == Spec => JobStableWhileRead
<1> DEFINE A == job' # job => \A w \in Workers : pc[w] \notin {"range", "report"}
<1>1. IInv /\ [Next]_vars => [A]_vars
  <2> SUFFICES ASSUME IInv, Next, job' # job
               PROVE  \A w \in Workers : pc[w] \notin {"range", "report"}
    BY DEF vars
  <2>1. main \in {"idle", "clean"}
    BY DEF Next, MainStep, WorkerStep, Dispatch, ResetDone, BumpGen, ResetAndBump,
           OwnRange, JoinDone, JoinSleep, Return, Destroyed, Stop, SpinLoad,
           SpinPoll, CondTake, CondSleep, RunRange, Report, SpuriousMain,
           SpuriousWorker
  <2> QED
    BY <2>1 DEF IInv, Turns, InFlight, Reported
<1> QED
  BY <1>1, Invariance, PTL DEF Spec, JobStableWhileRead

\* After the join every row of the job is in the range of exactly one thread
\* that computed it, with the kernel the caller asked for.
THEOREM RowsOnce == Spec => []EveryRowOnce
<1>1. IInv => EveryRowOnce
  <2> SUFFICES ASSUME IInv, main = "clean" PROVE EveryRowOnce
    BY DEF EveryRowOnce
  <2>1. \A t \in Threads : ran[t] = Goal
    BY DEF IInv, Results
  <2>2. \A t \in Threads : ran[t][2] = job.out
    BY <2>1 DEF Goal
  <2>3. job.out \in Nat
    BY PoolAssumption DEF IInv, Selected, Busy
  <2>4. ASSUME NEW r \in 0 .. job.out - 1
        PROVE  Cardinality({t \in Threads : r \in RowsOf(t, ran[t][2])}) = 1
    <3>1. PICK t \in Threads :
             \A u \in Threads : r \in RowsOf(u, job.out) <=> u = t
      BY <2>3, RowsPartition
    <3>2. {u \in Threads : r \in RowsOf(u, ran[u][2])} = {t}
      BY <2>2, <3>1
    <3> QED
      BY <3>2, FS_Singleton
  <2> QED
    BY <2>1, <2>4 DEF EveryRowOnce, Goal
<1> QED
  BY <1>1, Invariance, PTL

-----------------------------------------------------------------------------
(* Refinement: every step of the pool is a step of ForkJoin or a stutter.  *)

\* The request of a dispatch is never taken for no request.
LEMMA GoalIsSome == IInv /\ Busy => Goal \in Requests /\ Goal # None
<1> SUFFICES ASSUME IInv, Busy PROVE Goal \in Requests /\ Goal # None
  OBVIOUS
<1>1. entry \in Entries /\ job.out \in Outs
  BY DEF IInv, TypeOK, Selected
<1>2. Goal \in Requests
  BY <1>1 DEF Goal, Requests
<1>3. Goal # None
  BY DEF Goal, None
<1> QED
  BY <1>2, <1>3

\* What the steps that change neither the request nor the results refine to.
LEMMA Stutters ==
    ASSUME UNCHANGED <<job, entry, ran, stop>>, Busy' = Busy
    PROVE  UNCHANGED FJ!vars
<1>1. Goal' = Goal
  BY DEF Goal
<1> QED
  BY <1>1 DEF FJ!vars, Busy, Goal

\* The pool without its fairness implements the safety part of ForkJoin.
THEOREM Implements == Spec => FJ!Safety
<1>1. Init => FJ!Init
  BY DEF Init, FJ!Init
<1>2. IInv /\ [Next]_vars => [FJ!Next]_(FJ!vars)
  <2> SUFFICES ASSUME IInv, [Next]_vars PROVE [FJ!Next]_(FJ!vars)
    OBVIOUS
  <2> DEFINE asked == IF Busy THEN Goal ELSE None
  <2>1. ASSUME NEW e \in Entries, NEW n \in Outs, Dispatch(e, n)
        PROVE  FJ!Fork(<<Asked[e], n>>) /\ <<Asked[e], n>> \in Requests
    <3>1. job'.out = n /\ ~stop
      BY <2>1 DEF Dispatch, Fill, IInv, Stopped
    <3> QED
      BY <2>1, <3>1 DEF Dispatch, FJ!Fork, Requests
  <2>2. CASE OwnRange
    <3>1. Busy /\ ran[0] = None /\ Computed(job) = Goal /\ 0 \in Threads
      BY <2>2, PoolAssumption DEF OwnRange, Busy, IInv, Results, Selected, InFlight, Threads
    <3>2. Goal # None
      BY <3>1, GoalIsSome
    <3> QED
      BY <2>2, <3>1, <3>2 DEF OwnRange, FJ!Next, FJ!Share, Busy, Goal
  <2>3. ASSUME NEW w \in Workers, RunRange(w)
        PROVE  FJ!Share(w) /\ w \in Threads
    <3>1. InFlight
      BY <2>3 DEF RunRange, IInv, Turns, Reported
    <3>2. ran[w] = None
      BY <2>3, <3>1 DEF RunRange, IInv, Results, Reported
    <3>3. Busy /\ Computed(job) = Goal /\ w \in Threads
      BY <3>1 DEF Busy, InFlight, IInv, Selected, Workers, Threads
    <3>4. Goal # None
      BY <3>3, GoalIsSome
    <3> QED
      BY <2>3, <3>2, <3>3, <3>4 DEF RunRange, FJ!Share, Busy, Goal
  <2>4. CASE Return
    <3>1. Busy /\ \A t \in Threads : ran[t] = Goal
      BY <2>4 DEF Return, Busy, IInv, Results
    <3>2. Goal # None
      BY <3>1, GoalIsSome
    <3> QED
      BY <2>4, <3>1, <3>2 DEF Return, FJ!Next, FJ!Join, Busy, Goal
  <2>5. CASE Stop
    <3>1. ~stop
      BY <2>5 DEF Stop, IInv, Stopped
    <3> QED
      BY <2>5, <3>1 DEF Stop, FJ!Next, FJ!Close
  <2>6. CASE ResetDone \/ BumpGen \/ ResetAndBump \/ JoinDone \/ JoinSleep
             \/ Destroyed \/ SpuriousMain
    BY <2>6, Stutters DEF ResetDone, BumpGen, ResetAndBump, JoinDone, JoinSleep,
                          Destroyed, SpuriousMain, Busy
  <2>7. ASSUME NEW w \in Workers,
               SpinLoad(w) \/ SpinPoll(w) \/ CondTake(w) \/ CondSleep(w)
               \/ SpuriousWorker(w)
        PROVE  UNCHANGED FJ!vars
    BY <2>7, Stutters DEF SpinLoad, SpinPoll, CondTake, CondSleep, SpuriousWorker, Busy
  <2>8. ASSUME NEW w \in Workers, Report(w) PROVE UNCHANGED FJ!vars
    <3>1. Busy' = Busy
      BY <2>8 DEF Report, Busy
    <3> QED
      BY <2>8, <3>1, Stutters DEF Report
  <2>9. CASE UNCHANGED vars
    BY <2>9, Stutters DEF vars, Busy
  <2> QED
    BY <2>1, <2>2, <2>3, <2>4, <2>5, <2>6, <2>7, <2>8, <2>9
       DEF Next, MainStep, WorkerStep, FJ!Next
<1> QED
  BY <1>1, <1>2, Invariance, PTL DEF Spec, FJ!Safety

=============================================================================
