------------------------------ MODULE DecodeModes ------------------------------
(***************************************************************************)
(* main of qwen_infer.c: the program runs in one of the modes of the dense *)
(* or of the mixture-of-experts engine, and ends.                          *)
(***************************************************************************)
EXTENDS DenseServe, MoeDecode

Init == EngineInit /\ DenseStart /\ (DenseInit \/ MoeInit)

Ended == pc \in {"done", "failed"} /\ UNCHANGED vars

Next == DenseNext \/ (MoeNext /\ UNCHANGED denseVars) \/ Ended

\* The program is one thread that runs to its end.
Spec == Init /\ [][Next]_vars /\ WF_vars(Next)

-----------------------------------------------------------------------------
(* Properties.                                                             *)

\* The positions a lane has: the device's, those of the cache for a single
\* sequence, or those of the dense engine.
LaneEnd(l) ==
    IF job.mode \in DenseModes THEN MaxSeq
    ELSE IF l < B THEN Window ELSE IF l = Single THEN MoeMaxPos ELSE 1

\* A step of a gate is a dispatch on the CPU and one on the device.
ComparingModes == {"attention", "layers", "parity", "lockstep"}

MostColumns ==
    CASE job.mode = "spec"                      -> MaxSpec
      [] job.mode \in DenseModes \ {"spec"}      -> Cap[job.kind]
      [] job.mode \in MoeModes \ ComparingModes  -> BatchMax
      [] job.mode \in ComparingModes             -> 2 * BatchMax

\* No step has more columns than the scratch of its cache holds, a column
\* beyond its lane, or two columns for one cell.
DispatchFits ==
    /\ Len(cols) <= MostColumns
    /\ \A i \in 1 .. Len(cols) : cols[i].pos < LaneEnd(cols[i].lane)
    /\ \A i, j \in 1 .. Len(cols) :
          cols[i].lane = cols[j].lane /\ cols[i].pos = cols[j].pos => i = j

\* The state is well typed: the history and every position fit the lane, and
\* a free slot holds no request; and every step fits (DispatchFits).
TypeOK ==
    /\ DispatchFits
    /\ pc \in DenseModes \union MoeModes \union
              {"prefill", "loop", "admit", "chunk", "decode",
               "moeprompt", "warmup", "slots", "done", "failed"}
    /\ pos \in -1 .. MaxSeq + GateWarm /\ Len(hist) <= MaxSeq
    /\ rep \in Nat /\ qhead \in 0 .. R
    /\ job.mode \in DenseModes => nact = Cardinality({s \in Lanes : active[s] # 0})
    /\ \A s \in Lanes : /\ active[s] \in 0 .. 2 /\ req[s] \in Reqs
                        /\ pref[s] \in 0 .. MaxSeq /\ cbpos[s] \in 0 .. MaxSeq
    /\ scan \in 0 .. B /\ fed \in 0 .. MaxSeq
    /\ clear \in BOOLEAN

\* Whatever the interleaving of prompt, draft and decode columns, of blocks
\* being closed and rings being overwritten, of lanes reused with old rows in
\* them, and of rows copied from another cache, the query of every column sees
\* exactly the rows of its own context (the claims of M22-D4 and M24-D3 in
\* qwen_infer.c).
ReadsOwnContext == clear

\* The first end of text, if there is one, or the limit.
UpToEos(o, limit) ==
    LET Ends_ == {i \in 1 .. Len(o) : o[i] \in Eos}
    IN  IF Ends_ # {} THEN CHOOSE i \in Ends_ : \A k \in Ends_ : i <= k ELSE limit

\* How long the output of a stream is at the end.  With one sequence: up to the
\* limit, as far as there is room (greedy and generation give one token more,
\* which is never fed).  In cbatch: to the limit of a request or the first end
\* of text.  The batches of the gates know no end of text.
Owed(r) ==
    LET room == MaxSeq - Len(job.prompt)
        moeroom == MoeMaxPos - Len(job.prompt)
    IN  CASE job.mode = "greedy" /\ r = 0 -> Lesser(job.n, room + 1)
          [] job.mode = "spec" /\ r = 0   -> Lesser(job.n, room)
          [] job.mode = "serve" /\ r \in Lanes -> Lesser(job.n, room - 1)
          [] job.mode = "generate" /\ r = 0 -> UpToEos(out[r], Lesser(job.n, moeroom + 1))
          [] job.mode = "gguf" /\ r = 0     -> Lesser(job.n, moeroom)
          [] job.mode = "hybrid" /\ r \in Lanes -> 1
          [] job.mode \in SlotModes /\ r \in Lanes -> Lesser(job.maxnew[r], CbMaxPos - Plen(r))
          [] job.mode \in {"cbatch", "mixed"} /\ r \in Reqs ->
                UpToEos(out[r], Lesser(job.maxnew[r], MaxSeq - job.plen[r] - 1))
          [] OTHER -> 0

\* At the end every output is as long as it should be; a mode fails only when it
\* refuses its prompt, or where the window of the device ends.
AnswersComplete ==
    /\ pc = "done" => \A r \in Streams : Len(out[r]) = Owed(r)
    /\ pc = "failed" => pos \in {-1, Window}

\* What the output of a stream continues.  The GGUF mode and the batches of the
\* gates take the choice after the prompt without recording it.
PromptOf ==
    [r \in Streams |->
        CASE job.mode \in {"cbatch", "mixed"} /\ r \in Reqs -> SubSeq(job.prompt, 1, job.plen[r])
          [] job.mode = "gguf" -> Append(job.prompt, Choice(job.model, job.prompt))
          [] job.mode = "hybrid" /\ r \in Lanes -> <<Corpus(0)[r]>>
          [] job.mode \in SlotModes /\ r \in Lanes ->
                Append(PromptIn(r), Choice(job.model, PromptIn(r)))
          [] OTHER -> job.prompt]

Abstract == INSTANCE GreedyDecode WITH
    Reqs <- Streams, model <- job.model, prompt <- PromptOf

\* Speculation, lockstep, the batch schedulers and both engines emit what
\* decoding one token at a time would: they implement the greedy continuation.
ImplementsGreedy == Abstract!Spec

\* The program ends: no slot waits for ever for columns or for a lane.
Terminates == <>(pc \in {"done", "failed"})

=============================================================================
