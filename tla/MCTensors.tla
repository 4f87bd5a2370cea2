----------------------------- MODULE MCTensors -----------------------------
EXTENDS Tensors

NoSlot == <<"none", 0>>
Q0 == <<"q_proj", 0>>
E1 == <<"expert", 1>>
L0 == <<"lm_head", 0>>
NoSearch == [kind |-> "none", list |-> <<>>, ablate |-> FALSE, works |-> {}, max |-> 0]

NoGate == [mode |-> "none", n |-> 1, slots |-> 0, device |-> TRUE, valid |-> TRUE, refused |-> FALSE, ref |-> TRUE]

Base == [source |-> "blob", attn |-> "MLA", dense |-> 1, shared |-> TRUE, correct |-> FALSE,
         lazy |-> FALSE, combosOn |-> FALSE, combos |-> {}, expertLayers |-> {},
         sim |-> [slot |-> NoSlot, n |-> 0], nq |-> <<>>, bits |-> <<>>, ebits |-> <<>>,
         vdsp |-> FALSE, sme2 |-> FALSE, gather |-> FALSE, missing |-> NoSlot, misshapen |-> NoSlot, attrib |-> {}, maxEvents |-> 1,
         search |-> NoSearch, files |-> <<>>, promo |-> <<>>, export |-> FALSE, gate |-> NoGate]

With(r, fields) == [f \in DOMAIN r |-> IF f \in DOMAIN fields THEN fields[f] ELSE r[f]]

GqaBase == With(Base, [attn |-> "GQA", dense |-> 0, shared |-> FALSE])

\* Loaders: every width of the role table and of the experts, every source,
\* wildcards before exact lines, and what makes a loader stop.
RoleLine(r, l, b) == [role |-> r, layer |-> l, bits |-> b]
LoaderJobs ==
  {With(Base, [vdsp |-> v, missing |-> m]) : v \in BOOLEAN, m \in {NoSlot, <<"lm_head", 0>>, <<"shared", 1>>}}
  \cup {With(b, [misshapen |-> <<"q_proj", 1>>]) : b \in {Base, GqaBase}}
  \cup {With(Base, [source |-> "safetensors", vdsp |-> v,
                    bits |-> <<RoleLine("q_proj", 1, w), RoleLine("q_proj", -1, 4), RoleLine("lm_head", -1, w),
                               RoleLine("dense", 0, w), RoleLine("shared", 0, 2)>>]) :
          v \in BOOLEAN, w \in RoleWidths}
  \cup {With(Base, [vdsp |-> v, sme2 |-> z, gather |-> TRUE]) : v, z \in BOOLEAN}
  \cup {With(GqaBase, [source |-> "gguf", attn |-> a, sme2 |-> TRUE, gather |-> TRUE, promo |-> p]) :
          a \in {"GQA", "GPTOSS"}, p \in {<<>>, <<E1>>}}
  \cup {With(GqaBase, [source |-> "safetensors", ebits |-> <<x, y>>]) : x, y \in RoleWidths}
  \cup {With(GqaBase, [source |-> s, attn |-> a, vdsp |-> v, missing |-> m]) :
          s \in {"gguf"}, a \in {"GQA", "GPTOSS"}, v \in BOOLEAN, m \in {NoSlot, <<"k_proj", 0>>}}

\* Policies: nQ lines of every kind, then promotion and demotion files in two
\* versions, with eager and lazy mirrors and with a list of combinations.
Line(r, l, n) == [slot |-> <<r, l>>, n |-> n]
File(p, d) == [promote |-> p, demote |-> d]
NqLists == {<<>>, <<Line("q_proj", 0, 8), Line("q_proj", 0, 6)>>,
            <<Line("expert", 1, 8), Line("o_proj", 1, 5)>>}
FullNqList == <<Line("expert", 1, 8), Line("o_proj", 1, 5), Line("q_proj", 1, 7), Line("dense", 0, 3)>>
BadNqLists == {<<Line("q_proj", 0, 4)>>, <<Line("lm_head", 0, 8)>>, <<Line("k_proj", 0, 8)>>,
               <<Line("dense", 1, 8)>>}
Plans == { <<File({Q0}, {}), File({Q0, E1}, {Q0, E1})>>,
           <<File({}, {Q0, L0}), File({L0, <<"k_proj", 0>>}, {})>>,
           <<File({L0, E1}, {E1})>> }
PolicyJobs ==
  {With(Base, [correct |-> TRUE, lazy |-> z, nq |-> q, files |-> f, expertLayers |-> {1},
               combosOn |-> c, combos |-> {Q0, <<"q_proj", 1>>}, attrib |-> a]) :
      z \in BOOLEAN, q \in NqLists, f \in Plans, c \in BOOLEAN, a \in {{}, {TRUE, FALSE}}}
  \cup {With(Base, [correct |-> TRUE, lazy |-> z, nq |-> q, files |-> f, expertLayers |-> {1}, sme2 |-> TRUE]) :
          z \in BOOLEAN, q \in NqLists, f \in Plans}
  \cup {With(GqaBase, [correct |-> TRUE, expertLayers |-> {1}, files |-> f, sme2 |-> TRUE]) : f \in Plans}
  \cup {With(Base, [correct |-> c, nq |-> q]) : c \in BOOLEAN, q \in BadNqLists \cup NqLists}
  \cup {With(Base, [correct |-> TRUE, sim |-> [slot |-> Q0, n |-> n], vdsp |-> v]) :
          n \in {4, 6, 32}, v \in BOOLEAN}
  \cup {With(Base, [correct |-> TRUE, nq |-> FullNqList, expertLayers |-> x]) : x \in {{}, {1}}}
  \cup {With(GqaBase, [correct |-> TRUE, expertLayers |-> {0, 1}, lazy |-> TRUE, files |-> f,
                       nq |-> <<Line("v_proj", 1, 15)>>]) : f \in Plans}

\* Searches: every answer of the replays over a list of three, chosen answers
\* over longer lists and over all combinations, and budgets that run out.
List(n) == SubSeq(<<Q0, <<"q_proj", 1>>, <<"o_proj", 0>>, <<"o_proj", 1>>, E1, <<"kv_a_proj", 0>>>>, 1, n)
Search(k, l, ab, w, m) == [kind |-> k, list |-> l, ablate |-> ab, works |-> w, max |-> m]
UpTo(n, cores) == {t \in SUBSET SetOf(List(n)) : \E c \in cores : c \subseteq t}
Cores == { {{Q0}}, {{Q0, E1}}, {{Q0, <<"o_proj", 0>>}, {<<"q_proj", 1>>, E1}},
           {{<<"q_proj", 1>>, <<"o_proj", 1>>, E1}} }
Searches ==
  {Search("list", List(3), FALSE, w \cup {SetOf(List(3))}, 99) : w \in SUBSET SUBSET SetOf(List(3))}
  \cup {Search("list", List(n), ab, UpTo(6, c), m) : n \in {5, 6}, ab \in BOOLEAN, c \in Cores, m \in {3, 99}}
  \cup {Search("full", <<>>, TRUE, UpTo(6, c), 99) : c \in Cores}
SearchJobs ==
  {With(Base, [correct |-> TRUE, lazy |-> TRUE, search |-> s, attrib |-> {FALSE}]) : s \in Searches}

\* Promotion and export of a checkpoint.
Promos == {<<>>, << <<"q_proj", 1>>, Q0, <<"q_proj", 1>> >>, << <<"o_proj", 1>>, <<"none", 0>>, <<"v_proj", 1>> >>,
           <<E1, <<"k_proj", 0>>>>, << <<"dense", 1>>, L0 >>}
ExportJobs ==
  {With(GqaBase, [source |-> s, promo |-> p, export |-> x]) :
      s \in {"gguf", "dense"}, p \in Promos, x \in BOOLEAN}
  \cup {With(GqaBase, [source |-> "dense", missing |-> m]) : m \in {Q0, L0}}

\* Gates: every mode on the checkpoints it can be pointed at, with every limit
\* of its parameters, and everything that stops it.
Gate(m, n, k) == With(NoGate, [mode |-> m, n |-> n, slots |-> k])
GateJob(a, g) == With(GqaBase, [source |-> "gate", attn |-> a, gate |-> g])
BlobModes == {"mla", "full", "fused", "generate", "batch", "cbatch", "prefill", "online",
              "gqaFused", "gqaBatch", "gqaGenerate", "gqaCbatch", "gqaPrefill", "gqaOnline",
              "gqaOnlineCpu", "verify", "verifyBatch", "verifyLanes", "verifyOnline",
              "bindOnly", "bindConfig", "safetensors"}
OneLayerModes == {"gqaGpu", "sym", "mqa", "gqa", "olmoe"}
Lengths == {0, 1, 2, 3, 4, 5, 8, 9}
GateJobs ==
  {GateJob(a, Gate(m, n, k)) : a \in {"MLA", "GQA"}, m \in BlobModes, n \in Lengths, k \in {0, 1, 3, 6, 9}}
  \cup {GateJob("GQA", Gate(m, 1, 0)) : m \in OneLayerModes}
  \cup {GateJob("GPTOSS", Gate("gptoss", 1, 0))}
  \cup {GateJob(a, Gate("gguf", n, 0)) : a \in {"GQA", "GPTOSS"}, n \in Lengths}
  \cup {GateJob("GPTOSS", Gate("ggufCheck", n, 0)) : n \in Lengths}
  \cup {With(GateJob(a, Gate("gpu", 1, 0)), [correct |-> c]) : a \in {"MLA", "GQA"}, c \in BOOLEAN}
  \cup {GateJob(a, With(NoGate, [mode |-> m, device |-> d, valid |-> v, refused |-> b, ref |-> r])) :
          a \in {"MLA", "GQA"}, m \in BlobModes, d, v, b, r \in BOOLEAN}

MCJobs == LoaderJobs \cup PolicyJobs \cup SearchJobs \cup ExportJobs \cup GateJobs
WideJobs == ExportJobs
=============================================================================
