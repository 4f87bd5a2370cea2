----------------------------- MODULE GreedyDecode -----------------------------
(***************************************************************************)
(* What every decoding mode of the dense engine promises: the output of a  *)
(* request is the greedy continuation of its prompt, each token the        *)
(* model's choice after the prompt and the tokens before it.  A mode       *)
(* decides only how many tokens of which requests come out in one step.    *)
(***************************************************************************)
EXTENDS Integers, Sequences

CONSTANTS
    Reqs,         \* the requests
    Choice(_, _)  \* the choice of a model after a sequence of tokens

VARIABLES
    model,
    prompt,       \* the prompt of each request
    out           \* the tokens emitted for each request

Grows(o, q) == Len(o) <= Len(q) /\ SubSeq(q, 1, Len(o)) = o

IsGreedy(p, o) ==
    \A i \in 1 .. Len(o) : o[i] = Choice(model, p \o SubSeq(o, 1, i - 1))

Init == out = [r \in Reqs |-> <<>>]

Emit ==
    /\ \A r \in Reqs : Grows(out[r], out'[r]) /\ IsGreedy(prompt[r], out'[r])
    /\ UNCHANGED <<model, prompt>>

\* The same requests are decoded once more.
Again ==
    /\ out' = [r \in Reqs |-> <<>>]
    /\ UNCHANGED <<model, prompt>>

Spec == Init /\ [][Emit \/ Again]_<<model, prompt, out>>

=============================================================================
