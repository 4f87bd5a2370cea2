------------------------------ MODULE MCDecodeModes ------------------------------
EXTENDS DecodeModes

Vocabulary == 0 .. 2

\* The models: the next token is a linear function of the last two.
MCTable == [m \in 0 .. 11 |-> [c \in Vocabulary \X Vocabulary |->
               ((m % 2) * c[1] + ((m \div 2) % 2) * c[2] + (m \div 4)) % 3]]

Prompts == {<<0>>, <<1, 2, 1>>, <<0, 1, 0, 1>>}

Base == [mode : {""}, kind : {"int8", "int4"}, attn : {""}, model : 0 .. 11, prompt : Prompts,
         n : {6}, k : {0}, ng : {0}, plen : {<<>>}, maxnew : {<<>>}, pf : {0}, windows : {<<>>}]

MCCap == [k \in Kinds |-> IF k = "int4" THEN 4 ELSE 3]

From(r, fields) == [f \in DOMAIN r |-> IF f \in DOMAIN fields THEN fields[f] ELSE r[f]]

SingleJobs ==
    {From(j, [mode |-> m]) : j \in Base, m \in {"greedy", "serve", "bench"}}
    \union {From(j, [mode |-> "bench", prompt |-> <<0, 1, 0, 1, 2, 0>>]) : j \in {b \in Base : b.model = 7}}
TextJobs ==
    {From(j, [mode |-> m, windows |-> << <<0, 1, 2, 1>>, <<2>>, j.prompt, <<2, 2>> >>]) :
        j \in {b \in Base : b.model = 7}, m \in {"dump", "ppl"}}
SpecJobs ==
    {From(j, [mode |-> "spec", k |-> k, ng |-> ng]) : j \in Base, k \in {1, 3, 9}, ng \in {0, 1, 2}}
Requests == {[plen |-> <<3, 1, 4>>, maxnew |-> <<2, 9, 1>>],
             [plen |-> <<4, 4, 2>>, maxnew |-> <<1, 3, 4>>],
             [plen |-> <<1, 2, 3>>, maxnew |-> <<4, 1, 9>>]}
CbatchJobs ==
    {From(j, [mode |-> m, pf |-> pf, plen |-> [r \in Reqs |-> Lesser(q.plen[r + 1], Len(j.prompt))],
              maxnew |-> [r \in Reqs |-> q.maxnew[r + 1]]]) :
        j \in Base, m \in {"cbatch", "mixed"}, pf \in {1, 2, 4}, q \in Requests}

MoeBase == {From(j, [kind |-> "fp32"]) : j \in {b \in Base : b.kind = "int8"}}
MoePrompts == {<<0>>, <<0, 1, 0, 1>>, <<1, 2, 1, 0, 0, 1, 2>>}
MoeSingleJobs ==
    {From(j, [mode |-> m, attn |-> a, n |-> n, prompt |-> p]) :
        j \in MoeBase, m \in {"generate", "gguf"}, a \in {"mla", "gqa"}, n \in {2, 6}, p \in MoePrompts}
GateBase == {b \in MoeBase : b.model = 7}
GateJobs ==
    {From(j, [mode |-> m, attn |-> a, n |-> n, prompt |-> p]) :
        j \in GateBase, m \in {"verify", "safetensors", "lockstep", "hybrid"}, a \in {"mla", "gqa"},
        n \in {2, 6}, p \in MoePrompts}
    \union
    {From(j, [mode |-> "parity", attn |-> "gqa", n |-> n, prompt |-> p]) :
        j \in GateBase, n \in {2, 6}, p \in MoePrompts}
    \union
    {From(j, [mode |-> g[1], attn |-> g[2], prompt |-> p]) :
        j \in GateBase, p \in {x \in MoePrompts : Len(x) <= Window},
        g \in {<<"attention", "mla">>, <<"attention", "gqa">>, <<"layers", "mla">>, <<"parity", "mla">>}}
MoeSlotJobs ==
    {From(j, [mode |-> m, attn |-> a, windows |-> w, maxnew |-> [s \in Lanes |-> x[s + 1]]]) :
        j \in MoeBase, m \in {"feed", "combined", "scalar"}, a \in {"mla", "gqa"},
        w \in {<< <<1, 2, 1>>, <<0>> >>, << <<1, 0>>, <<2, 1, 2>> >>, << <<1, 1, 2>>, <<2, 1, 2, 0>> >>},
        x \in {<<1, 9>>, <<2, 2>>}}

MCJobs == SingleJobs \union TextJobs \union SpecJobs \union CbatchJobs
          \union MoeSingleJobs \union GateJobs \union MoeSlotJobs
=============================================================================
