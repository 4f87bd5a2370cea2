------------------------------ MODULE DenseServe ------------------------------
(***************************************************************************)
(* The modes of the dense engine (main of qwen_infer.c): one token at a    *)
(* time (greedy), speculation by prompt lookup (spec), a batch in lockstep *)
(* (serve), continuous batching with the prompt of an admitted request     *)
(* computed alone (cbatch) or mixed with the decoding columns of other     *)
(* requests (mixed), and the two that measure: repeated decoding of one    *)
(* prompt (bench) and the perplexity of given texts (ppl); dump only feeds *)
(* the prompt.                                                             *)
(***************************************************************************)
EXTENDS DecodeEngine

CONSTANTS
    Reps,       \* QWEN_CB_REPS, passes of cbatch over its requests
    BenchReps,  \* passes of bench, and the tokens it decodes before it measures
    BenchWarm,
    MaxSpec,    \* MAXSPEC, columns of a verification
    PChunk,     \* SRV_PCHUNK, columns of a prompt chunk
    Cap         \* srv_bcap, columns of a batched step under each cache

DenseModes == {"greedy", "spec", "serve", "cbatch", "mixed", "bench", "ppl", "dump"}

\* No step has more consecutive positions of a lane than the ring tolerates:
\* 16 or 64 columns against blocks of 64 in the code.  The synthesized
\* prompts are shorter than a lane by two at least.
ASSUME DenseAssumption ==
    /\ Reps \in Nat \ {0} /\ BenchReps \in Nat \ {0} /\ BenchWarm \in Nat
    /\ MaxSpec \in 1 .. W + 2 /\ PChunk \in 1 .. W + 2
    /\ \A k \in Kinds : Cap[k] \in B .. W + 2 /\ PChunk <= Cap[k]
    /\ \A j \in Jobs :
          /\ j.mode \in {"cbatch", "mixed"} =>
                /\ \A r \in Reqs : /\ j.plen[r] \in 1 .. Lesser(Len(j.prompt), MaxSeq - 2)
                                   /\ j.maxnew[r] \in Nat \ {0}
                /\ j.pf \in Nat \ {0}
          /\ j.mode = "serve" => Len(j.prompt) <= MaxSeq - 2
          /\ j.mode = "spec" => j.k \in Int /\ j.ng \in Nat
          /\ j.mode = "ppl" => /\ j.windows \in Seq(Rows)
                               /\ \A i \in 1 .. Len(j.windows) : Len(j.windows[i]) <= MaxSeq

VARIABLES
    hist,      \* history searched by the prompt lookup
    rep,       \* the pass of cbatch or bench, the window of ppl
    qhead, nact,
    req, pref,
    fed        \* prompt positions of the request being admitted

queue     == <<rep, qhead, nact, req, pref, fed>>
cbatch    == <<slots, queue>>
single    == <<pos, hist>>
denseVars == <<hist, queue>>
vars      == <<job, pc, engine, pos, out, slots, denseVars>>

-----------------------------------------------------------------------------
(* The start.                                                              *)

\* Variant: the token limit of a request does not leave room for its prompt.
UnclampedLimit(j, r) == j.maxnew[r]

\* The limit of a request of cbatch.
Limit(j, r) ==
    IF j.plen[r] + j.maxnew[r] >= MaxSeq THEN MaxSeq - j.plen[r] - 1 ELSE j.maxnew[r]

\* The token limit of serve.
ServeLimit(j) ==
    IF Len(j.prompt) + j.n >= MaxSeq THEN MaxSeq - Len(j.prompt) - 1 ELSE j.n

\* The tokens bench measures, fewer where the lane ends.
BenchLimit(j) == Lesser(j.n, MaxSeq - Len(j.prompt) - BenchWarm - 1)

DenseStart ==
    /\ hist = <<>>
    /\ rep = 1 /\ qhead = 0 /\ nact = 0
    /\ req = [s \in Lanes |-> 0] /\ pref = [s \in Lanes |-> 0]
    /\ fed = 0

DenseInit ==
    /\ job.mode \in DenseModes
    /\ pc = CASE job.mode \in {"cbatch", "mixed"} -> "loop"
              [] job.mode = "ppl"                 -> "ppl"
              [] OTHER                            -> "prefill"
    /\ lanes = [l \in Lanes |-> EmptyLane]
    /\ active = [s \in Lanes |-> 0]

\* The columns of forward_token, of forward_tokens and of serve_step.
ForwardToken(p, t)   == <<Column(0, p, t)>>
ForwardTokens(p, ts) == [i \in 1 .. Len(ts) |-> Column(0, p + i - 1, ts[i])]
ServeStep(p, t)      == [i \in 1 .. B |-> Column(i - 1, p, t[i - 1])]

\* The prompt is fed one position at a time.
Prefill ==
    /\ pc = "prefill"
    /\ job.mode = "bench" => BenchLimit(job) >= 1
    /\ pos' = pos + 1
    /\ LET t == job.prompt[pos + 2]
       IN  /\ Feed(IF job.mode = "serve" THEN ServeStep(pos + 1, [l \in Lanes |-> t])
                                         ELSE ForwardToken(pos + 1, t))
           /\ hist' = IF job.mode = "spec" THEN Append(hist, t) ELSE hist
    /\ pc' = IF pos + 2 = Len(job.prompt) THEN job.mode ELSE "prefill"
    /\ UNCHANGED <<job, out, cbatch>>

-----------------------------------------------------------------------------
(* One token at a time, and a batch in lockstep.                           *)

Greedy ==
    /\ pc = "greedy" /\ Len(out[0]) < job.n
    /\ out' = [out EXCEPT ![0] = Append(@, logits[0])]
    /\ IF pos + 1 >= MaxSeq
         THEN pc' = "done" /\ UNCHANGED <<engine, pos>>
         ELSE /\ pos' = pos + 1
              /\ Feed(ForwardToken(pos + 1, logits[0]))
              /\ UNCHANGED pc
    /\ UNCHANGED <<job, hist, cbatch>>

Serve ==
    /\ pc = "serve" /\ Len(out[0]) < ServeLimit(job)
    /\ out' = [r \in Streams |-> IF r \in Lanes THEN Append(out[r], logits[r]) ELSE out[r]]
    /\ pos' = pos + 1
    /\ Feed(ServeStep(pos + 1, logits))
    /\ UNCHANGED <<job, pc, hist, cbatch>>

-----------------------------------------------------------------------------
(* Speculation.                                                            *)

\* pl_lookup: the tokens after the latest earlier occurrence of the last ng
\* tokens, at most k of them.
Lookup(h, k, ng) ==
    LET suffix  == SubSeq(h, Len(h) - ng + 1, Len(h))
        Earlier == {i \in 0 .. Len(h) - ng - 1 : SubSeq(h, i + 1, i + ng) = suffix}
        latest  == CHOOSE i \in Earlier : \A j \in Earlier : j <= i
    IN  IF Len(h) < ng \/ Earlier = {} THEN <<>>
        ELSE SubSeq(h, latest + ng + 1, Lesser(latest + ng + k, Len(h)))

\* maxk: drafts must fit the lane and the history.
Room(h) == Lesser(MaxSeq - 2 - pos, MaxSeq - Len(h))

Draft(h) ==
    LET found == Lookup(h, Lesser(job.k, MaxSpec - 1), job.ng)
    IN  SubSeq(found, 1, Lesser(Len(found), Room(h)))

\* Variant: every draft is accepted.
AcceptAll(a, draft, room) == Lesser(Len(draft), room)

\* Drafts are accepted up to the first the model would not have chosen.
Accept(a, draft, room) ==
    LET Agreed == {j \in 0 .. Lesser(Len(draft), room) : \A i \in 1 .. j : a[i] = draft[i]}
    IN  CHOOSE j \in Agreed : \A i \in Agreed : i <= j

SpecRound ==
    /\ pc = "spec" /\ Len(out[0]) < job.n
    /\ pos + 1 < MaxSeq /\ Len(hist) < MaxSeq
    /\ LET h     == Append(hist, logits[0])
           draft == Draft(h)
           room  == job.n - Len(out[0]) - 1
       IN  \E cs \in {ForwardTokens(pos + 1, <<logits[0]>> \o draft)} :
           \E ls \in {Written(cs)} :
           \E a \in {[i \in 1 .. Len(cs) |-> Answer(ls, cs[i])]} :
              LET na    == Accept(a, draft, room)
                  taken == [i \in 1 .. na + 1 |-> cs[i].tok]
              IN  /\ Compute(cs, ls)
                  /\ logits' = [logits EXCEPT ![0] = a[na + 1]]
                  /\ hist' = hist \o taken
                  /\ out' = [out EXCEPT ![0] = @ \o taken]
                  /\ pos' = pos + na + 1
    /\ UNCHANGED <<job, pc, cbatch>>

-----------------------------------------------------------------------------
(* Measuring.                                                              *)

\* Every pass decodes the prompt from the start of the same lane.
Bench ==
    /\ pc = "bench" /\ BenchLimit(job) >= 1
    /\ IF pos + 1 < Len(job.prompt) + BenchWarm + BenchLimit(job)
         THEN /\ pos' = pos + 1
              /\ Feed(ForwardToken(pos + 1, logits[0]))
              /\ UNCHANGED <<pc, rep>>
         ELSE /\ IF rep < BenchReps THEN pc' = "prefill" /\ rep' = rep + 1 /\ pos' = -1
                                   ELSE pc' = "done" /\ UNCHANGED <<rep, pos>>
              /\ UNCHANGED engine
    /\ UNCHANGED <<job, out, hist, qhead, nact, req, pref, fed, slots>>

\* The prompt leaves no token to measure.
RefuseBench ==
    /\ job.mode = "bench" /\ pos = -1 /\ rep = 1 /\ BenchLimit(job) < 1
    /\ pc' = "failed"
    /\ UNCHANGED <<job, engine, single, out, cbatch>>

\* The texts are fed one after the other, each from the start of the lane; a
\* text of one token has nothing to predict.
Perplexity ==
    /\ pc = "ppl" /\ rep <= Len(job.windows)
    /\ LET ids == job.windows[rep]
       IN  IF Len(ids) < 2 \/ pos + 1 = Len(ids)
             THEN rep' = rep + 1 /\ pos' = -1 /\ UNCHANGED engine
             ELSE /\ pos' = pos + 1
                  /\ Feed(ForwardToken(pos + 1, ids[pos + 2]))
                  /\ UNCHANGED rep
    /\ UNCHANGED <<job, pc, out, hist, qhead, nact, req, pref, fed, slots>>

\* A mode without slots ends at its limit; spec also where the lane ends.
Exhausted ==
    CASE pc = "greedy" -> Len(out[0]) >= job.n
      [] pc = "serve"  -> Len(out[0]) >= ServeLimit(job)
      [] pc = "dump"   -> TRUE
      [] pc = "ppl"    -> rep > Len(job.windows)
      [] pc = "spec"   -> Len(out[0]) >= job.n \/ pos + 1 >= MaxSeq \/ Len(hist) >= MaxSeq
      [] OTHER         -> FALSE

Stop ==
    /\ Exhausted
    /\ pc' = "done"
    /\ UNCHANGED <<job, engine, single, out, cbatch>>

-----------------------------------------------------------------------------
(* Continuous batching: the loop over the requests and its passes.         *)

Ends(t, r, o, next) ==
    \/ t \in Eos
    \/ Len(o[r]) >= Limit(job, r)
    \/ next >= MaxSeq

BeginIteration ==
    /\ pc = "loop"
    /\ qhead < R \/ nact > 0
    /\ pc' = IF job.mode = "cbatch" THEN "admit" ELSE "mixed"
    /\ scan' = 0
    /\ UNCHANGED <<job, engine, single, out, rep, qhead, nact, active, req, tok, cbpos, pref, fed>>

EndPass ==
    /\ pc = "loop" /\ qhead >= R /\ nact = 0
    /\ IF rep < Reps
         THEN /\ rep' = rep + 1 /\ qhead' = 0
              /\ active' = [s \in Lanes |-> 0]
              /\ out' = [r \in Streams |-> <<>>]
              /\ UNCHANGED pc
         ELSE pc' = "done" /\ UNCHANGED <<rep, qhead, active, out>>
    /\ UNCHANGED <<job, engine, single, nact, req, tok, cbpos, pref, scan, fed>>

-----------------------------------------------------------------------------
(* cbatch: the prompt of an admitted request is computed alone, in chunks. *)

\* Variant: a slot may be admitted to whatever it holds.
AnyFrom(n) == {s \in Lanes : s >= n}

FreeFrom(n) == {s \in Lanes : s >= n /\ active[s] = 0}

Admit ==
    /\ pc = "admit"
    /\ IF qhead < R /\ FreeFrom(scan) # {}
         THEN /\ scan' = CHOOSE s \in FreeFrom(scan) : \A u \in FreeFrom(scan) : s <= u
              /\ qhead' = qhead + 1
              /\ fed' = 0
              /\ pc' = "chunk"
         ELSE pc' = (IF nact = 0 THEN "loop" ELSE "decode") /\ UNCHANGED <<scan, qhead, fed>>
    /\ UNCHANGED <<job, engine, single, out, rep, nact, active, req, tok, cbpos, pref>>

\* The last chunk yields the first token, which may end the request.
Chunk ==
    /\ pc = "chunk"
    /\ LET r    == qhead - 1
           take == Lesser(job.plen[r] - fed, PChunk)
           last == fed + take >= job.plen[r]
       IN  \E cs \in {[i \in 1 .. take |->
                           Column(scan, fed + i - 1, job.prompt[fed + i])]} :
           \E ls \in {Written(cs)} : \E t \in {Answer(ls, cs[take])} :
           LET o == [out EXCEPT ![r] = Append(@, t)] IN
           /\ Compute(cs, ls)
           /\ fed' = fed + take
           /\ IF ~last
                THEN UNCHANGED <<pc, out, nact, active, req, tok, cbpos, scan>>
                ELSE /\ out' = o
                     /\ IF Ends(t, r, o, job.plen[r])
                          THEN UNCHANGED <<nact, active, req, tok, cbpos>>
                          ELSE /\ active' = [active EXCEPT ![scan] = 1]
                               /\ req' = [req EXCEPT ![scan] = r]
                               /\ tok' = [tok EXCEPT ![scan] = t]
                               /\ cbpos' = [cbpos EXCEPT ![scan] = job.plen[r]]
                               /\ nact' = nact + 1
                     /\ scan' = scan + 1
                     /\ pc' = "admit"
    /\ UNCHANGED <<job, logits, single, rep, qhead, pref>>

\* The decode columns, in slot order.
Decoding(a) == {s \in Lanes : a[s] = 1}
DecodeColumns(a) ==
    LET nth(i) == CHOOSE s \in Decoding(a) : Cardinality({u \in Decoding(a) : u < s}) = i - 1
    IN  [i \in 1 .. Cardinality(Decoding(a)) |-> Column(nth(i), cbpos[nth(i)], tok[nth(i)])]

\* What a step emits for the slots in from, each a token of its own.
Emitted(from, of, token) ==
    [r \in Streams |-> IF \E s \in from : of[s] = r
                         THEN Append(out[r], token[CHOOSE s \in from : of[s] = r])
                         ELSE out[r]]

\* The answer of the column a slot has at a position.
TokenAt(cs, ls, s, p) ==
    Answer(ls, cs[CHOOSE i \in 1 .. Len(cs) : cs[i].lane = s /\ cs[i].pos = p])

Decode ==
    /\ pc = "decode"
    /\ LET from == Decoding(active)
       IN  \E cs \in {DecodeColumns(active)} : \E ls \in {Written(cs)} :
           \E token \in {[s \in from |-> TokenAt(cs, ls, s, cbpos[s])]} :
           LET o    == Emitted(from, req, token)
               over == {s \in from : Ends(token[s], req[s], o, cbpos[s] + 1)}
           IN
           /\ Compute(cs, ls)
           /\ out' = o
           /\ active' = [s \in Lanes |-> IF s \in over THEN 0 ELSE active[s]]
           /\ nact' = nact - Cardinality(over)
           /\ tok' = [s \in Lanes |-> IF s \in from \ over THEN token[s] ELSE tok[s]]
           /\ cbpos' = [s \in Lanes |-> IF s \in from THEN cbpos[s] + 1 ELSE cbpos[s]]
    /\ pc' = "loop"
    /\ UNCHANGED <<job, logits, single, rep, qhead, req, pref, scan, fed>>

-----------------------------------------------------------------------------
(* mixed: prompt columns ride along with the decode columns.               *)

Rank(s) == Cardinality({u \in Lanes : u < s /\ active[u] = 0})
Joins(s) == active[s] = 0 /\ qhead + Rank(s) < R
Occupied == [s \in Lanes |-> IF Joins(s) THEN 2 ELSE active[s]]
ReqAfter == [s \in Lanes |-> IF Joins(s) THEN qhead + Rank(s) ELSE req[s]]
PrefAfter == [s \in Lanes |-> IF Joins(s) THEN 0 ELSE pref[s]]

\* Variant: the columns of a step are limited by the budget alone.
BudgetAlone(ndec) == job.pf

\* Prompt columns of a step: the budget of the job, within what is left.
Budget(ndec) == Lesser(job.pf, Cap[job.kind] - ndec)

\* Variant: the last position of a prompt is left to the decode column.
LeftButOne(s) == IF Occupied[s] = 2 THEN job.plen[ReqAfter[s]] - PrefAfter[s] - 1 ELSE 0

\* The prompt positions a slot still has to compute.
Left(s) == IF Occupied[s] = 2 THEN job.plen[ReqAfter[s]] - PrefAfter[s] ELSE 0

\* How many prompt columns each slot gets when the budget is spent in order.
Shares(budget) ==
    LET rest[s \in 0 .. B] ==
            IF s = 0 THEN budget ELSE rest[s - 1] - Lesser(Left(s - 1), rest[s - 1])
    IN  [s \in Lanes |-> Lesser(Left(s), rest[s])]

PromptColumns(share) ==
    LET upto[s \in 0 .. B] ==
            IF s = 0 THEN <<>>
            ELSE upto[s - 1] \o
                 [i \in 1 .. share[s - 1] |->
                     Column(s - 1, PrefAfter[s - 1] + i - 1, job.prompt[PrefAfter[s - 1] + i])]
    IN  upto[B]

\* A decoding slot emits, and a slot whose last prompt column is in the step.
Mixed ==
    /\ pc = "mixed"
    /\ LET dec   == Decoding(active)
           share == Shares(Budget(Cardinality(dec)))
           ready == {s \in Lanes : /\ Occupied[s] = 2 /\ share[s] > 0
                                   /\ PrefAfter[s] + share[s] = job.plen[ReqAfter[s]]}
           from  == dec \union ready
           last  == [s \in from |-> IF s \in dec THEN cbpos[s] ELSE job.plen[ReqAfter[s]] - 1]
           Joined == {s \in Lanes : Joins(s)}
       IN  \E cs \in {DecodeColumns(active) \o PromptColumns(share)} :
           \E ls \in {Written(cs)} :
           \E token \in {[s \in from |-> TokenAt(cs, ls, s, last[s])]} :
           LET o    == Emitted(from, ReqAfter, token)
               over == {s \in from : Ends(token[s], ReqAfter[s], o, last[s] + 1)}
           IN
           /\ Compute(cs, ls)
           /\ out' = o
           /\ req' = ReqAfter
           /\ qhead' = qhead + Cardinality(Joined)
           /\ pref' = [s \in Lanes |-> PrefAfter[s] + share[s]]
           /\ active' = [s \in Lanes |-> IF s \in over THEN 0 ELSE IF s \in from THEN 1
                                                           ELSE Occupied[s]]
           /\ nact' = nact + Cardinality(Joined) - Cardinality(over)
           /\ tok' = [s \in Lanes |-> IF s \in from \ over THEN token[s] ELSE tok[s]]
           /\ cbpos' = [s \in Lanes |-> IF s \in dec \/ s \in ready \ over THEN last[s] + 1
                                                                       ELSE cbpos[s]]
    /\ pc' = "loop"
    /\ UNCHANGED <<job, logits, single, rep, scan, fed>>

DenseNext ==
    \/ Prefill \/ Greedy \/ Serve \/ SpecRound \/ Stop
    \/ Bench \/ RefuseBench \/ Perplexity
    \/ BeginIteration \/ EndPass \/ Admit \/ Chunk \/ Decode \/ Mixed

=============================================================================
