------------------------------ MODULE DecodeEngine ------------------------------
(***************************************************************************)
(* What the decoding modes of qwen_infer.c share: sequences with KV lanes, *)
(* a step function that computes columns, and slots that requests decode   *)
(* in.  A column is a token at a position of a lane; every column of a     *)
(* step writes its KV row before any column attends.                       *)
(*                                                                         *)
(* The model is a function from the last two tokens to the next one, and   *)
(* a column that does not see exactly its own context yields no token of   *)
(* the model.  A step of the specification is one iteration of a loop of   *)
(* the code; the program is sequential, so the only choice is the job.     *)
(***************************************************************************)
EXTENDS KvLane, FiniteSets

CONSTANTS
    Jobs,       \* what the program is started with
    Table,      \* the models, functions from two tokens to the next
    B,          \* slots, and lanes of the batched steps
    R,          \* QWEN_CB_REQS, requests of cbatch
    Eos,        \* the tokens that end a text
    Garbled     \* the outcome of a column that saw a wrong row

ASSUME EngineAssumption ==
    /\ B \in Nat \ {0} /\ R \in Nat \ {0}
    /\ \A j \in Jobs :
          /\ j.kind \in Kinds /\ j.prompt \in Rows /\ Len(j.prompt) \in 1 .. MaxSeq
          /\ j.n \in Nat
          /\ Table[j.model] \in [Tokens \X Tokens -> Tokens]

Reqs  == 0 .. R - 1
Lanes == 0 .. B - 1

Lesser(a, b) == IF a <= b THEN a ELSE b

\* The outputs: one for each lane, one for each request of cbatch.
Streams == Lanes \union Reqs

VARIABLES
    job,       \* the mode, cache, model, prompt and limits; never changes
    pc,
    lanes,     \* the KV lane of each sequence
    cols,      \* the columns of the last step: lane, position, token
    clear,     \* whether each of them saw exactly its own context
    logits,    \* the token the last logits of each row choose
    pos,       \* last position fed
    out,       \* tokens emitted
    active,    \* cb_active: 0 free, 1 decoding, 2 prefilling
    tok,       \* cb_tok, cb_next_tok: the token a slot is fed next
    cbpos,     \* cb_pos: the position it is fed at
    scan       \* slot the admission has reached

engine == <<lanes, cols, clear, logits>>
slots  == <<active, tok, cbpos, scan>>

-----------------------------------------------------------------------------
(* Computing columns.                                                      *)

Choice(m, ctx) == Table[m][ctx[IF Len(ctx) > 1 THEN Len(ctx) - 1 ELSE 1], ctx[Len(ctx)]]

Column(l, p, t) == [lane |-> l, pos |-> p, tok |-> t]

WriteColumn(ls, c) ==
    [ls EXCEPT ![c.lane] = Write(job.kind, @, c.pos, RowFor(@, c.pos, c.tok))]

\* What every step function does, cbatch_step for any columns: they write in
\* order, and all have written before the first attends.
Written(cs) ==
    LET after[i \in 0 .. Len(cs)] == IF i = 0 THEN lanes ELSE WriteColumn(after[i - 1], cs[i])
    IN  after[Len(cs)]

ContextOf(ls, c) == ls[c.lane].v[c.pos]

Clear(ls, c) ==
    LET ctx == ContextOf(ls, c)
    IN  Len(ctx) = c.pos + 1 /\ SeesContext(job.kind, ls[c.lane], ctx)

\* final_logits, final_logits_batch and argmax_v of a column.
Answer(ls, c) == IF Clear(ls, c) THEN Choice(job.model, ContextOf(ls, c)) ELSE Garbled

\* Afterwards the lanes are ls.  (Values used more than once below are bound by
\* a quantifier over one element, so that TLC computes them once.)
Compute(cs, ls) ==
    /\ lanes' = ls
    /\ cols' = cs
    /\ clear' = \A i \in 1 .. Len(cs) : Clear(ls, cs[i])

\* A step whose rows 0 .. B - 1 yield logits.
Answers(ls, cs) ==
    [l \in Lanes |-> IF l < Len(cs) THEN Answer(ls, cs[l + 1]) ELSE logits[l]]

Feed(cs) ==
    \E ls \in {Written(cs)} : Compute(cs, ls) /\ logits' = Answers(ls, cs)

EngineInit ==
    /\ job \in Jobs
    /\ cols = <<>> /\ clear = TRUE
    /\ logits = [l \in Lanes |-> Garbled]
    /\ pos = -1
    /\ out = [r \in Streams |-> <<>>]
    /\ tok = [s \in Lanes |-> 0] /\ cbpos = [s \in Lanes |-> 0]
    /\ scan = 0

=============================================================================
