---------------------------- MODULE DecodeProofs ----------------------------
(***************************************************************************)
(* Proofs about DecodeModes, continued: the modes with requests in slots   *)
(* keep the invariant too (continuous batching, with prompts computed      *)
(* alone or mixed with decoding, and the batches admitted at once), and    *)
(* what follows for every job.                                             *)
(***************************************************************************)
EXTENDS DecodeLaneProofs

-----------------------------------------------------------------------------
(* Continuous batching.                                                    *)

SchedModes == {"cbatch", "mixed"}

LEMMA Limits ==
    ASSUME job \in Jobs, job.mode \in SchedModes, NEW r \in Reqs
    PROVE  /\ job.plen[r] \in Nat /\ 1 <= job.plen[r] /\ job.plen[r] <= Len(job.prompt)
           /\ Limit(job, r) \in Nat /\ 1 <= Limit(job, r)
           /\ job.plen[r] + Limit(job, r) < MaxSeq
           /\ Limit(job, r) = Lesser(job.maxnew[r], MaxSeq - job.plen[r] - 1)
           /\ Asked(r) \in Rows /\ Len(Asked(r)) = job.plen[r]
<1>1. PICK p, q, n, x : /\ p = job.plen[r] /\ q = Len(job.prompt) /\ n = job.maxnew[r]
                        /\ x = MaxSeq
  OBVIOUS
<1>2. q \in Nat /\ x \in Nat /\ job.prompt \in Rows
  BY <1>1, JobTypes, Sizes
<1>3. p \in 1 .. Lesser(q, x - 2) /\ n \in Nat \ {0}
  BY <1>1, DenseAssumption DEF SchedModes
<1>4. p \in Nat /\ 1 <= p /\ p <= q /\ p <= x - 2 /\ n \in Nat /\ 1 <= n
  BY <1>2, <1>3 DEF Lesser
<1>5. Limit(job, r) = IF p + n >= x THEN x - p - 1 ELSE n
  BY <1>1 DEF Limit
<1>6. /\ Limit(job, r) \in Nat /\ 1 <= Limit(job, r) /\ p + Limit(job, r) < x
      /\ Limit(job, r) = Lesser(n, x - p - 1)
  BY <1>2, <1>4, <1>5 DEF Lesser
<1>7. Asked(r) \in Rows /\ Len(Asked(r)) = p
  BY <1>1, <1>2, <1>4, FirstRows DEF Asked
<1> QED
  BY <1>1, <1>4, <1>6, <1>7

LEMMA SchedFacts ==
    ASSUME IInv, job.mode \in SchedModes
    PROVE  /\ job \in Jobs /\ StreamsInv /\ StepInv /\ Completed /\ SchedInv
           /\ LaneSet = Lanes /\ \A l : LaneEnd(l) = MaxSeq
           /\ MostColumns = Cap[job.kind] /\ MostColumns \in B .. W + 2 /\ PChunk <= MostColumns
           /\ Writing = Reqs /\ Reqs \subseteq Streams /\ Lanes \subseteq Streams
           /\ \A r \in Reqs : PromptOf[r] = Asked(r) /\ Text(r) = Asked(r) \o out[r]
<1>1. job \in Jobs /\ StreamsInv /\ StepInv /\ Completed /\ SchedInv
  BY DEF IInv, ModeInv, SchedModes
<1>2. LaneSet = Lanes /\ \A l : LaneEnd(l) = MaxSeq
  BY DEF SchedModes, LaneSet, LaneEnd, DenseModes
<1>3. job.mode \in DenseModes \ {"spec"}
  BY DEF SchedModes, DenseModes
<1>4. MostColumns = Cap[job.kind]
  BY <1>3 DEF MostColumns, DenseModes, MoeModes, ComparingModes
<1>5. job.kind \in Kinds
  BY <1>1, JobTypes
<1>6. Cap[job.kind] \in B .. W + 2 /\ PChunk <= Cap[job.kind]
  BY <1>5, DenseAssumption
<1>7. Writing = Reqs
  BY DEF Writing, SlotModes, SchedModes
<1>8. Reqs \subseteq Streams /\ Lanes \subseteq Streams
  BY DEF Streams
<1>9. ASSUME NEW r \in Reqs PROVE PromptOf[r] = Asked(r)
  BY <1>8 DEF PromptOf, SchedModes, Asked, SlotModes
<1> QED
  BY <1>1, <1>2, <1>4, <1>6, <1>7, <1>8, <1>9 DEF Text

LEMMA OwedSched ==
    ASSUME job \in Jobs, job.mode \in SchedModes, job' = job
    PROVE  /\ \A r \in Reqs : /\ Owed(r) = UpToEos(out[r], Limit(job, r))
                              /\ Owed(r)' = UpToEos(out'[r], Limit(job, r))
           /\ \A r : r \notin Reqs => Owed(r) = 0 /\ Owed(r)' = 0
<1>1. ASSUME NEW r \in Reqs
      PROVE  /\ Owed(r) = UpToEos(out[r], Limit(job, r))
             /\ Owed(r)' = UpToEos(out'[r], Limit(job, r))
  <2>1. Limit(job, r) = Lesser(job.maxnew[r], MaxSeq - job.plen[r] - 1)
    BY Limits
  <2>2. Owed(r) = UpToEos(out[r], Lesser(job.maxnew[r], MaxSeq - job.plen[r] - 1))
    BY DEF Owed, SlotModes, SchedModes
  <2>3. Owed(r)' = UpToEos(out'[r], Lesser(job.maxnew[r], MaxSeq - job.plen[r] - 1))
    BY DEF Owed, SlotModes, SchedModes, Reqs, UpToEos
  <2> QED
    BY <2>1, <2>2, <2>3
<1>2. ASSUME NEW r, r \notin Reqs PROVE Owed(r) = 0 /\ Owed(r)' = 0
  BY <1>2 DEF Owed, SlotModes, SchedModes, Reqs
<1> QED
  BY <1>1, <1>2

\* A request that emits a token.
LEMMA RequestGrows ==
    ASSUME IInv, job.mode \in SchedModes, job' = job, NEW r \in Reqs,
           Len(out[r]) < Limit(job, r), \A i \in 1 .. Len(out[r]) : out[r][i] \notin Eos,
           NEW t, t = Choice(job.model, Text(r)), out'[r] = Append(out[r], t)
    PROVE  /\ t \in Tokens /\ Text(r) \in Rows /\ Text(r)' = Append(Text(r), t)
           /\ Len(Text(r)) = job.plen[r] + Len(out[r]) /\ Len(out[r]) \in Nat
           /\ Len(Text(r)) + 1 < MaxSeq
           /\ out'[r] \in Rows /\ Continued(PromptOf[r], out'[r])
           /\ Ends(t, r, out', Len(Text(r))) => Len(out'[r]) = Owed(r)'
           /\ ~ Ends(t, r, out', Len(Text(r))) => Goes(r)'
<1>1. /\ job \in Jobs /\ StreamsInv /\ r \in Streams /\ PromptOf[r] = Asked(r)
      /\ job.mode \in DenseModes \union MoeModes
  BY SchedFacts DEF SchedModes, DenseModes
<1>2. /\ t \in Tokens /\ Text(r) \in Rows /\ Text(r)' = Append(Text(r), t)
      /\ Len(Text(r)) = Len(PromptOf[r]) + Len(out[r])
      /\ Len(out[r]) \in Nat
      /\ out'[r] \in Rows /\ Len(out'[r]) = Len(out[r]) + 1
      /\ Continued(PromptOf[r], out'[r])
  BY <1>1, TextGrows
<1>3. /\ Len(Asked(r)) = job.plen[r] /\ job.plen[r] \in Nat /\ Limit(job, r) \in Nat
      /\ job.plen[r] + Limit(job, r) < MaxSeq
  BY <1>1, Limits
<1>4. Len(Text(r)) = job.plen[r] + Len(out[r])
  BY <1>1, <1>2, <1>3
<1>5. Len(Text(r)) + 1 < MaxSeq
  <2>1. PICK p, o, l, x : p = job.plen[r] /\ o = Len(out[r]) /\ l = Limit(job, r) /\ x = MaxSeq
    OBVIOUS
  <2>2. p \in Nat /\ o \in Nat /\ l \in Nat /\ x \in Nat /\ p + l < x /\ o < l
    BY <2>1, <1>2, <1>3, Sizes
  <2>3. p + o + 1 < x
    BY <2>2
  <2> QED
    BY <2>1, <2>3, <1>4
<1>6. out[r] \in Rows
  BY <1>1 DEF StreamsInv
<1>7. /\ t \in Eos \/ Len(out'[r]) >= Limit(job, r) => Len(out'[r]) = UpToEos(out'[r], Limit(job, r))
      /\ t \notin Eos => \A i \in 1 .. Len(out'[r]) : out'[r][i] \notin Eos
  BY <1>2, <1>3, <1>6, Ending
<1>8. ~ (Len(Text(r)) >= MaxSeq)
  <2>1. PICK p, o : p = job.plen[r] /\ o = Len(out[r])
    OBVIOUS
  <2>2. p \in Nat /\ o \in Nat
    BY <2>1, <1>2, <1>3
  <2>3. p + o + 1 < MaxSeq /\ Len(Text(r)) = p + o
    BY <2>1, <1>4, <1>5
  <2>4. ~ (p + o >= MaxSeq)
    BY <2>2, <2>3, Sizes
  <2> QED
    BY <2>3, <2>4
<1>9. Ends(t, r, out', Len(Text(r))) <=> t \in Eos \/ Len(out'[r]) >= Limit(job, r)
  BY <1>8 DEF Ends
<1>10. Ends(t, r, out', Len(Text(r))) => Len(out'[r]) = Owed(r)'
  BY <1>1, <1>7, <1>9, OwedSched
<1>11. ~ Ends(t, r, out', Len(Text(r))) => Goes(r)'
  <2>1. Limit(job', r) = Limit(job, r)
    OBVIOUS
  <2>2. Len(out'[r]) >= 1 /\ (~ (Len(out'[r]) >= Limit(job, r)) => Len(out'[r]) < Limit(job, r))
    BY <1>2, <1>3
  <2> QED
    BY <2>1, <2>2, <1>7, <1>9 DEF Goes
<1> QED
  BY <1>2, <1>4, <1>5, <1>10, <1>11

LEMMA SchedAfter ==
    ASSUME IInv, job.mode \in SchedModes, job' = job,
           StreamsInv', StepInv', Completed', SchedInv'
    PROVE  IInv'
<1>1. job' \in Jobs /\ job'.mode \in DenseModes \union MoeModes
  BY DEF IInv
<1>2. ModeInv'
  BY DEF ModeInv, SchedModes, SingleModes, MoeSingleModes, HostModes, DeviceModes, SlotModes
<1> QED
  BY <1>1, <1>2 DEF IInv

\* A slot that a step leaves alone.
LEMMA DecodesStays ==
    ASSUME job' = job, NEW s, Decodes(s), lanes'[s] = lanes[s], out'[req[s]] = out[req[s]],
           req'[s] = req[s], tok'[s] = tok[s], cbpos'[s] = cbpos[s]
    PROVE  Decodes(s)'
<1>1. PICK r : r = req[s]
  OBVIOUS
<1>2. Text(r)' = PromptOf[r] \o out'[r] /\ Text(r) = PromptOf[r] \o out[r]
  BY TextAfter DEF Text
<1>3. Text(r)' = Text(r)
  BY <1>1, <1>2
<1>4. Goes(r)'
  <2>1. Goes(r)
    BY <1>1 DEF Decodes
  <2> QED
    BY <1>1, <2>1 DEF Goes
<1>5. Keeps(s, SubSeq(Text(r), 1, cbpos[s]))
  BY <1>1 DEF Decodes
<1>6. PICK x : x = SubSeq(Text(r), 1, cbpos[s])
  OBVIOUS
<1>7. x \in Rows /\ Holds(job'.kind, lanes'[s], x)
  BY <1>5, <1>6 DEF Keeps
<1>8. Len(Text(r)) = cbpos[s] + 1 /\ tok[s] = Text(r)[cbpos[s] + 1]
  BY <1>1 DEF Decodes
<1> HIDE DEF Text
<1> QED
  BY <1>1, <1>3, <1>4, <1>6, <1>7, <1>8 DEF Decodes, Keeps

LEMMA PrefillsStays ==
    ASSUME job' = job, NEW s, Prefills(s), lanes'[s] = lanes[s], out'[req[s]] = out[req[s]],
           req'[s] = req[s], pref'[s] = pref[s]
    PROVE  Prefills(s)'
  BY DEF Prefills, Keeps

LEMMA SlotTypesStay ==
    ASSUME SlotTypes, job' = job, UNCHANGED <<active, nact, req, pref, cbpos, tok>>
    PROVE  SlotTypes' /\ InSlots' = InSlots
  BY DEF SlotTypes, InSlots, Lanes, Reqs

\* A step that only moves the loops.
LEMMA QuietStep ==
    ASSUME IInv, job.mode \in SchedModes, job' = job, pos' = pos, hist' = hist,
           UNCHANGED <<engine, out, active, nact, req, pref, cbpos, tok>>
    PROVE  /\ StreamsInv' /\ StepInv' /\ SlotTypes' /\ InSlots' = InSlots
           /\ pos' = -1 /\ hist' = <<>>
           /\ \A s \in Lanes : active'[s] = 1 => Decodes(s)'
           /\ \A s \in Lanes : active'[s] = 2 => Prefills(s)'
           /\ \A r \in Reqs : Owed(r)' = Owed(r)
           /\ Lanes' = Lanes /\ Reqs' = Reqs
<1>1. /\ job \in Jobs /\ StreamsInv /\ StepInv /\ SchedInv
  BY SchedFacts
<1>2. UNCHANGED <<lanes, out, active, nact, req, pref, cbpos, tok>>
  BY DEF engine
<1>3. StreamsInv' /\ StepInv'
  BY <1>1, StreamsStay, StepStays
<1>4. SlotTypes' /\ InSlots' = InSlots
  BY <1>1, SlotTypesStay DEF SchedInv
<1>5. ASSUME NEW s \in Lanes, active'[s] = 1 PROVE Decodes(s)'
  BY <1>1, <1>2, <1>5, DecodesStays DEF SchedInv
<1>6. ASSUME NEW s \in Lanes, active'[s] = 2 PROVE Prefills(s)'
  BY <1>1, <1>2, <1>6, PrefillsStays DEF SchedInv
<1>7. \A r \in Reqs : Owed(r)' = Owed(r)
  BY <1>1, <1>2, OwedSched
<1>8. Lanes' = Lanes /\ Reqs' = Reqs
  BY DEF Lanes, Reqs
<1>9. pos' = -1 /\ hist' = <<>>
  BY <1>1 DEF SchedInv
<1> QED
  BY <1>3, <1>4, <1>5, <1>6, <1>7, <1>8, <1>9

LEMMA BeginIterationKeeps ==
    ASSUME IInv, job.mode \in SchedModes, BeginIteration PROVE IInv'
<1>1. job \in Jobs /\ SchedInv
  BY SchedFacts
<1>2. /\ job' = job /\ pc = "loop" /\ scan' = 0
      /\ pc' = IF job.mode = "cbatch" THEN "admit" ELSE "mixed"
      /\ UNCHANGED <<engine, pos, hist, out, rep, qhead, nact, active, req,
                     tok, cbpos, pref, fed>>
  BY DEF BeginIteration, single
<1>3. /\ StreamsInv' /\ StepInv' /\ SlotTypes' /\ InSlots' = InSlots /\ pos' = -1 /\ hist' = <<>>
      /\ \A s \in Lanes : active'[s] = 1 => Decodes(s)'
      /\ \A s \in Lanes : active'[s] = 2 => Prefills(s)'
      /\ \A r \in Reqs : Owed(r)' = Owed(r)
      /\ Lanes' = Lanes /\ Reqs' = Reqs
  BY <1>2, QuietStep
<1>4. Completed'
  BY <1>2 DEF Completed
<1>5. Admitting' = {} /\ Admitting = {}
  BY <1>2 DEF Admitting
<1>6. SlotsOwn'
  BY <1>1, <1>2, <1>3, <1>5 DEF SchedInv, SlotsOwn
<1>7. rep' \in Nat /\ qhead' \in 0 .. R /\ scan' \in 0 .. B /\ fed' \in 0 .. MaxSeq
  BY <1>1, <1>2, LanesFit DEF SchedInv
<1>8. pc' \in {"loop", "done"} \union
          (IF job'.mode = "cbatch" THEN {"admit", "chunk", "decode"} ELSE {"mixed"}) /\ pc' # "chunk"
  BY <1>2
<1>9. \A r \in Reqs : r >= qhead' => out'[r] = <<>>
  BY <1>1, <1>2 DEF SchedInv
<1>10. \A r \in Reqs : r < qhead' /\ r \notin InSlots' \union Admitting' => Len(out'[r]) = Owed(r)'
  BY <1>1, <1>2, <1>3, <1>5 DEF SchedInv
<1>11. SchedInv'
  BY <1>3, <1>6, <1>7, <1>8, <1>9, <1>10 DEF SchedInv
<1> QED
  BY <1>2, <1>3, <1>4, <1>11, SchedAfter

\* The least of a set of slots.
LEMMA LeastSlot ==
    ASSUME NEW S, S \subseteq Lanes, S # {}
    PROVE  (CHOOSE s \in S : \A u \in S : s <= u) \in S
<1>1. S \subseteq Nat /\ IsFiniteSet(S)
  <2>1. IsFiniteSet(Lanes) /\ Lanes \subseteq Nat
    BY LanesFit, FS_Interval DEF Lanes
  <2> QED
    BY <2>1, FS_Subset
<1>2. Cardinality(S) # 0
  BY <1>1, FS_EmptySet
<1>3. /\ Cardinality(S) \in Nat
      /\ \A k \in 0 .. Cardinality(S) - 1 : \E s \in S : Cardinality({u \in S : u < s}) = k
  BY <1>1, Numbered
<1>4. PICK s \in S : Cardinality({u \in S : u < s}) = 0
  BY <1>2, <1>3
<1>5. {u \in S : u < s} = {}
  <2>1. IsFiniteSet({u \in S : u < s})
    BY <1>1, FS_Subset
  <2> QED
    BY <2>1, <1>4, FS_EmptySet
<1>6. \A u \in S : s <= u
  BY <1>1, <1>5
<1> QED
  BY <1>6

\* Nothing is in a slot.
LEMMA NoneActive ==
    ASSUME IInv, job.mode \in SchedModes, nact = 0
    PROVE  /\ \A s \in Lanes : active[s] = 0
           /\ InSlots = {}
<1>1. nact = Cardinality({s \in Lanes : active[s] # 0})
  BY SchedFacts DEF SchedInv, SlotTypes
<1>2. IsFiniteSet(Lanes)
  BY LanesFit, FS_Interval DEF Lanes
<1>3. IsFiniteSet({s \in Lanes : active[s] # 0})
  BY <1>2, FS_Subset
<1>4. {s \in Lanes : active[s] # 0} = {}
  BY <1>1, <1>3, FS_EmptySet
<1> QED
  BY <1>4 DEF InSlots

LEMMA EndPassKeeps ==
    ASSUME IInv, job.mode \in SchedModes, EndPass PROVE IInv'
<1>1. job \in Jobs /\ SchedInv /\ StreamsInv /\ StepInv
  BY SchedFacts
<1>2. /\ job' = job /\ pc = "loop" /\ qhead >= R /\ nact = 0
      /\ UNCHANGED <<engine, pos, hist, nact, req, tok, cbpos, pref, scan, fed>>
  BY DEF EndPass, single
<1>3. (\A s \in Lanes : active[s] = 0) /\ InSlots = {}
  BY <1>2, NoneActive
<1>4. Lanes' = Lanes /\ Reqs' = Reqs /\ Streams' = Streams
  BY DEF Lanes, Reqs, Streams
<1>5. Admitting = {}
  BY <1>2 DEF Admitting
<1>6. qhead \in 0 .. R /\ scan' \in 0 .. B /\ fed' \in 0 .. MaxSeq /\ R \in Nat
  BY <1>1, <1>2, LanesFit DEF SchedInv
<1>7. CASE rep < Reps
  <2>1. /\ rep' = rep + 1 /\ qhead' = 0 /\ pc' = pc
        /\ active' = [s \in Lanes |-> 0] /\ out' = [r \in Streams |-> <<>>]
    BY <1>7 DEF EndPass
  <2>2. StreamsInv'
    <3>1. out' \in [Streams -> Rows]
      BY <2>1 DEF Rows
    <3>2. \A r \in Streams : out'[r] = <<>>
      BY <2>1
    <3>3. Writing' = Writing
      BY <1>2 DEF Writing, Lanes, Reqs
    <3>4. ASSUME NEW r \in Streams PROVE Continued(PromptOf[r], out[r])'
      <4>1. out'[r] = <<>> /\ 1 .. Len(<<>>) = {}
        BY <3>2
      <4> QED
        BY <4>1 DEF Continued
    <3> QED
      BY <3>1, <3>2, <3>4, <1>4 DEF StreamsInv
  <2>3. StepInv'
    BY <1>1, <1>2, StepStays
  <2>4. Completed'
    BY <1>2, <2>1 DEF Completed
  <2>5. SlotTypes'
    <3>1. active' \in [Lanes -> IF job.mode = "cbatch" THEN {0, 1} ELSE 0 .. 2]
      BY <2>1
    <3>2. {s \in Lanes : active'[s] # 0} = {}
      BY <2>1
    <3>3. nact' = Cardinality({s \in Lanes : active'[s] # 0})
      BY <3>2, <1>2, FS_EmptySet
    <3> QED
      BY <3>1, <3>3, <1>1, <1>2, <1>4 DEF SlotTypes, SchedInv
  <2>6. \A s \in Lanes : active'[s] = 0
    BY <2>1
  <2>7. SlotsOwn'
    BY <2>6, <1>4 DEF SlotsOwn
  <2>8. rep' \in Nat
    BY <1>1, <2>1 DEF SchedInv
  <2>9. \A r \in Reqs : r \in Streams /\ r >= 0
    BY LanesFit DEF Reqs, Streams
  <2>10. /\ \A r \in Reqs : r >= qhead' => out'[r] = <<>>
         /\ \A r \in Reqs : ~ (r < qhead')
    BY <2>1, <2>9, LanesFit DEF Reqs
  <2>11. SchedInv'
    BY <1>1, <1>2, <1>4, <1>6, <2>1, <2>5, <2>6, <2>7, <2>8, <2>10 DEF SchedInv
  <2> QED
    BY <1>2, <2>2, <2>3, <2>4, <2>11, SchedAfter
<1>8. CASE ~ (rep < Reps)
  <2>1. pc' = "done" /\ UNCHANGED <<rep, qhead, active, out>>
    BY <1>8 DEF EndPass
  <2>2. /\ StreamsInv' /\ StepInv' /\ SlotTypes' /\ InSlots' = InSlots /\ pos' = -1 /\ hist' = <<>>
        /\ \A s \in Lanes : active'[s] = 1 => Decodes(s)'
        /\ \A s \in Lanes : active'[s] = 2 => Prefills(s)'
        /\ \A r \in Reqs : Owed(r)' = Owed(r)
    BY <1>2, <2>1, QuietStep
  <2>3. \A r \in Reqs : r < qhead
    BY <1>2, <1>6 DEF Reqs
  <2>4. \A r \in Reqs : Len(out[r]) = Owed(r)
    BY <2>3, <1>1, <1>3, <1>5 DEF SchedInv
  <2>5. Completed'
    <3>1. ASSUME NEW r \in Streams, r \notin Reqs PROVE Len(out'[r]) = Owed(r)'
      <4>1. out[r] = <<>>
        BY <3>1, <1>1, SchedFacts DEF StreamsInv
      <4>2. Owed(r)' = 0
        BY <3>1, <1>1, <1>2, OwedSched
      <4> QED
        BY <4>1, <4>2, <2>1
    <3>2. \A r \in Reqs : Len(out'[r]) = Owed(r)'
      BY <2>1, <2>2, <2>4
    <3> QED
      BY <3>1, <3>2, <1>4 DEF Completed
  <2>6. Admitting' = {}
    BY <2>1 DEF Admitting
  <2>7. SlotsOwn'
    BY <1>3, <2>1, <1>4 DEF SlotsOwn
  <2>8. \A r \in Reqs : r >= qhead' => out'[r] = <<>>
    BY <1>1, <2>1 DEF SchedInv
  <2>9. SchedInv'
    BY <1>1, <1>2, <1>4, <1>6, <2>1, <2>2, <2>4, <2>7, <2>8 DEF SchedInv
  <2> QED
    BY <1>2, <2>2, <2>5, <2>9, SchedAfter
<1> QED
  BY <1>7, <1>8

LEMMA AdmitKeeps ==
    ASSUME IInv, job.mode = "cbatch", Admit PROVE IInv'
<1> USE DEF SchedModes
<1>1. job \in Jobs /\ SchedInv
  BY SchedFacts
<1>2. /\ job' = job /\ pc = "admit"
      /\ UNCHANGED <<engine, pos, hist, out, rep, nact, active, req, tok, cbpos, pref>>
  BY DEF Admit, single
<1>3. /\ StreamsInv' /\ StepInv' /\ SlotTypes' /\ InSlots' = InSlots /\ pos' = -1 /\ hist' = <<>>
      /\ \A s \in Lanes : active'[s] = 1 => Decodes(s)'
      /\ \A s \in Lanes : active'[s] = 2 => Prefills(s)'
      /\ \A r \in Reqs : Owed(r)' = Owed(r)
      /\ Lanes' = Lanes /\ Reqs' = Reqs
  BY <1>2, QuietStep
<1>4. /\ rep' \in Nat /\ qhead \in 0 .. R /\ scan \in 0 .. B /\ fed \in 0 .. MaxSeq /\ R \in Nat
      /\ Lanes \subseteq 0 .. B /\ Lanes \subseteq Nat /\ 0 \in 0 .. MaxSeq
  BY <1>1, <1>2, LanesFit, Sizes DEF SchedInv, Lanes
<1>5. Admitting = {}
  BY <1>2 DEF Admitting
<1>6. CASE qhead < R /\ FreeFrom(scan) # {}
  <2>1. /\ scan' = CHOOSE s \in FreeFrom(scan) : \A u \in FreeFrom(scan) : s <= u
        /\ qhead' = qhead + 1 /\ fed' = 0 /\ pc' = "chunk"
    BY <1>6 DEF Admit
  <2>2. scan' \in FreeFrom(scan)
    BY <1>6, <2>1, LeastSlot DEF FreeFrom
  <2>3. scan' \in Lanes /\ active[scan'] = 0
    BY <2>2 DEF FreeFrom
  <2>4. qhead \in Reqs /\ qhead' \in 0 .. R /\ qhead' - 1 = qhead /\ qhead' >= 1
    BY <1>4, <1>6, <2>1 DEF Reqs
  <2>5. Admitting' = {qhead}
    BY <2>1, <2>4 DEF Admitting
  <2>6. out[qhead] = <<>>
    BY <1>1, <2>4 DEF SchedInv
  <2>7. SlotsOwn'
    <3>1. \A s \in Lanes : active[s] # 0 => req[s] < qhead
      BY <1>1 DEF SchedInv, SlotsOwn
    <3>2. \A s \in Lanes : req[s] \in Nat
      BY <1>1, LanesFit DEF SchedInv, SlotTypes, Reqs
    <3>3. \A s \in Lanes : active[s] # 0 => req[s] < qhead + 1 /\ req[s] # qhead
      BY <3>1, <3>2, <1>4
    <3> QED
      BY <1>1, <1>2, <1>3, <2>1, <2>5, <3>3 DEF SchedInv, SlotsOwn
  <2>8. Admits'
    <3>1. 0 < job.plen[qhead]
      BY <1>1, <2>4, Limits
    <3>2. SubSeq(job.prompt, 1, 0) = <<>> /\ <<>> \in Rows
      BY <1>1, JobTypes DEF Rows
    <3>3. Keeps(scan, SubSeq(job.prompt, 1, fed))'
      BY <1>2, <2>1, <3>2, EmptyHolds DEF Keeps
    <3> QED
      BY <1>2, <1>3, <2>1, <2>3, <2>4, <2>6, <3>1, <3>3 DEF Admits
  <2>9. Completed'
    BY <2>1 DEF Completed
  <2>10. \A r \in Reqs : r >= qhead' => out'[r] = <<>>
    <3>1. \A r \in Reqs : r >= qhead + 1 => r >= qhead
      BY <1>4, LanesFit DEF Reqs
    <3> QED
      BY <3>1, <1>1, <1>2, <2>1 DEF SchedInv
  <2>11. ASSUME NEW r \in Reqs, r < qhead', r \notin InSlots' \union Admitting'
         PROVE  Len(out'[r]) = Owed(r)'
    <3>1. r < qhead
      BY <2>1, <2>5, <2>11, <1>4, LanesFit DEF Reqs
    <3> QED
      BY <3>1, <2>11, <1>1, <1>2, <1>3, <1>5 DEF SchedInv
  <2>12. pc' \in {"loop", "done"} \union
          (IF job'.mode = "cbatch" THEN {"admit", "chunk", "decode"} ELSE {"mixed"})
    BY <1>2, <2>1
  <2>13. scan' \in 0 .. B /\ fed' \in 0 .. MaxSeq
    BY <1>4, <2>1, <2>3
  <2>14. SchedInv'
    BY <1>3, <1>4, <2>4, <2>7, <2>8, <2>10, <2>11, <2>12, <2>13 DEF SchedInv
  <2> QED
    BY <1>2, <1>3, <2>9, <2>14, SchedAfter
<1>7. CASE ~ (qhead < R /\ FreeFrom(scan) # {})
  <2>1. pc' \in {"loop", "decode"} /\ UNCHANGED <<scan, qhead, fed>>
    BY <1>7 DEF Admit
  <2>2. Admitting' = {} /\ pc' # "chunk" /\ pc' # "done"
    BY <2>1 DEF Admitting
  <2>3. SlotsOwn'
    BY <1>1, <1>2, <1>3, <1>5, <2>1, <2>2 DEF SchedInv, SlotsOwn
  <2>4. Completed'
    BY <2>2 DEF Completed
  <2>5. \A r \in Reqs : r >= qhead' => out'[r] = <<>>
    BY <1>1, <1>2, <2>1 DEF SchedInv
  <2>6. \A r \in Reqs : r < qhead' /\ r \notin InSlots' \union Admitting' => Len(out'[r]) = Owed(r)'
    BY <1>1, <1>2, <1>3, <1>5, <2>1, <2>2 DEF SchedInv
  <2>7. SchedInv'
    BY <1>2, <1>3, <1>4, <2>1, <2>2, <2>3, <2>5, <2>6 DEF SchedInv
  <2> QED
    BY <1>2, <1>3, <2>4, <2>7, SchedAfter
<1> QED
  BY <1>6, <1>7

\* Slots that emit a token of their requests; those whose last it is are over.
Emit(from, of, token, last, over) ==
    /\ from \subseteq Lanes
    /\ \A s \in from : of[s] \in Reqs
    /\ \A s, u \in from : of[s] = of[u] => s = u
    /\ \A s \in from :
          /\ token[s] = Choice(job.model, Text(of[s]))
          /\ Len(out[of[s]]) < Limit(job, of[s])
          /\ \A i \in 1 .. Len(out[of[s]]) : out[of[s]][i] \notin Eos
          /\ last[s] + 1 = Len(Text(of[s]))
    /\ over = {s \in from : Ends(token[s], of[s], out', last[s] + 1)}

\* What it makes of a request.
Grows(r, t) ==
    /\ out'[r] = Append(out[r], t)
    /\ t \in Tokens /\ Text(r) \in Rows /\ Text(r)' = Append(Text(r), t)
    /\ Len(Text(r)) = job.plen[r] + Len(out[r]) /\ Len(out[r]) \in Nat
    /\ Len(Text(r)) + 1 < MaxSeq
    /\ out'[r] \in Rows /\ Continued(PromptOf[r], out'[r])

LEMMA EmittedGrows ==
    ASSUME IInv, job.mode \in SchedModes, job' = job,
           NEW from, NEW of, NEW token, NEW last, NEW over, Emit(from, of, token, last, over),
           out' = Emitted(from, of, token)
    PROVE  /\ StreamsInv'
           /\ \A s \in from :
                 /\ Grows(of[s], token[s])
                 /\ s \in over => Len(out'[of[s]]) = Owed(of[s])'
                 /\ s \notin over => Goes(of[s])'
           /\ \A r \in Streams : (\A s \in from : of[s] # r) => out'[r] = out[r]
           /\ over \subseteq from
<1>1. /\ job \in Jobs /\ StreamsInv /\ Reqs \subseteq Streams /\ Writing = Reqs
  BY SchedFacts
<1>2. out' = [r \in Streams |-> IF \E s \in from : of[s] = r
                         THEN Append(out[r], token[CHOOSE s \in from : of[s] = r])
                         ELSE out[r]]
  BY DEF Emitted
<1>3. ASSUME NEW s \in from
      PROVE  /\ Grows(of[s], token[s])
             /\ s \in over => Len(out'[of[s]]) = Owed(of[s])'
             /\ s \notin over => Goes(of[s])'
  <2>1. PICK r, t : r = of[s] /\ t = token[s]
    OBVIOUS
  <2>2. r \in Reqs /\ r \in Streams
    BY <1>1, <2>1 DEF Emit
  <2>3. (CHOOSE u \in from : of[u] = r) = s
    BY <2>1 DEF Emit
  <2>4. out'[r] = Append(out[r], t)
    BY <1>2, <2>1, <2>2, <2>3
  <2>5. /\ t = Choice(job.model, Text(r)) /\ Len(out[r]) < Limit(job, r)
        /\ \A i \in 1 .. Len(out[r]) : out[r][i] \notin Eos
        /\ last[s] + 1 = Len(Text(r))
    BY <2>1 DEF Emit
  <2>6. /\ t \in Tokens /\ Text(r) \in Rows /\ Text(r)' = Append(Text(r), t)
        /\ Len(Text(r)) = job.plen[r] + Len(out[r]) /\ Len(out[r]) \in Nat
        /\ Len(Text(r)) + 1 < MaxSeq
        /\ out'[r] \in Rows /\ Continued(PromptOf[r], out'[r])
        /\ Ends(t, r, out', Len(Text(r))) => Len(out'[r]) = Owed(r)'
        /\ ~ Ends(t, r, out', Len(Text(r))) => Goes(r)'
    BY <2>2, <2>4, <2>5, RequestGrows
  <2>7. s \in over <=> Ends(t, r, out', Len(Text(r)))
    BY <2>1, <2>5 DEF Emit
  <2>8. Grows(r, t)
    BY <2>4, <2>6 DEF Grows
  <2>9. /\ s \in over => Len(out'[r]) = Owed(r)'
        /\ s \notin over => Goes(r)'
    BY <2>6, <2>7
  <2> QED
    BY <2>1, <2>8, <2>9
<1>4. ASSUME NEW r \in Streams, \A s \in from : of[s] # r PROVE out'[r] = out[r]
  BY <1>2, <1>4
<1>5. out' \in [Streams -> Rows]
  <2>1. ASSUME NEW r \in Streams PROVE out'[r] \in Rows
    <3>1. CASE \A s \in from : of[s] # r
      BY <3>1, <1>1, <1>4 DEF StreamsInv
    <3>2. CASE \E s \in from : of[s] = r
      BY <3>2, <1>3 DEF Grows
    <3> QED
      BY <3>1, <3>2
  <2> QED
    BY <1>2, <2>1
<1>6. ASSUME NEW r \in Streams
      PROVE \/ out'[r] = out[r]
            \/ r \in Writing /\ Continued(PromptOf[r], out'[r])
  BY <1>1, <1>3, <1>4 DEF Grows, Emit
<1>7. StreamsInv'
  BY <1>1, <1>5, <1>6, StreamsAfter
<1> QED
  BY <1>3, <1>4, <1>7 DEF Emit

LEMMA DecodesNext ==
    ASSUME job' = job, NEW r, NEW t, Grows(r, t), Goes(r)', NEW s,
           req'[s] = r, tok'[s] = t, cbpos'[s] = Len(Text(r)),
           Holds(job.kind, lanes'[s], Text(r))
    PROVE  Decodes(s)'
<1>1. PICK x : x = Text(r)
  OBVIOUS
<1>2. t \in Tokens /\ x \in Rows /\ Text(r)' = Append(x, t)
  BY <1>1 DEF Grows
<1>3. /\ Len(Append(x, t)) = Len(x) + 1 /\ Append(x, t)[Len(x) + 1] = t /\ Len(x) \in Nat
      /\ \A i \in 0 .. Len(x) : SubSeq(Append(x, t), 1, i) = SubSeq(x, 1, i)
  BY <1>2, Extended, Appended
<1>4. SubSeq(x, 1, Len(x)) = x
  BY <1>2, <1>3, FirstRows
<1>5. SubSeq(Append(x, t), 1, Len(x)) = x
  BY <1>3, <1>4
<1>6. x \in Rows /\ Holds(job'.kind, lanes'[s], x)
  BY <1>1, <1>2
<1>7. /\ Goes(req[s])' /\ Text(req[s])' = Append(x, t) /\ cbpos'[s] = Len(x) /\ tok'[s] = t
  BY <1>1, <1>2
<1>8. Len(Text(req[s])') = cbpos'[s] + 1 /\ tok'[s] = Text(req[s])'[cbpos'[s] + 1]
  BY <1>3, <1>7
<1>9. SubSeq(Text(req[s])', 1, cbpos'[s]) = x
  BY <1>5, <1>7
<1> HIDE DEF Text, Goes
<1> QED
  BY <1>6, <1>7, <1>8, <1>9 DEF Decodes, Keeps

\* A chunk of the prompt of the request being admitted.
ChunkColumns(take) == [i \in 1 .. take |-> Column(scan, fed + i - 1, job.prompt[fed + i])]

LEMMA ChunkFed ==
    ASSUME IInv, job.mode = "cbatch", pc = "chunk", job' = job, logits' = logits,
           NEW take, take = Lesser(job.plen[qhead - 1] - fed, PChunk),
           Compute(ChunkColumns(take), Written(ChunkColumns(take)))
    PROVE  /\ StepInv' /\ take \in Nat /\ take # 0 /\ fed \in Nat
           /\ fed + take <= job.plen[qhead - 1] /\ fed + take <= MaxSeq
           /\ \A s \in Lanes : s # scan => lanes'[s] = lanes[s]
           /\ SubSeq(job.prompt, 1, fed + take) \in Rows
           /\ Holds(job.kind, lanes'[scan], SubSeq(job.prompt, 1, fed + take))
           /\ Answer(Written(ChunkColumns(take)), ChunkColumns(take)[take]) =
                 Choice(job.model, SubSeq(job.prompt, 1, fed + take))
<1> USE DEF SchedModes
<1>1. /\ job \in Jobs /\ StepInv /\ SchedInv /\ Admits /\ LaneSet = Lanes
      /\ PChunk <= MostColumns /\ \A l : LaneEnd(l) = MaxSeq
  BY SchedFacts DEF SchedInv
<1>2. PICK r, f, n, x, q : /\ r = qhead - 1 /\ f = fed /\ n = job.plen[r] /\ x = MaxSeq
                           /\ q = Len(job.prompt)
  OBVIOUS
<1>3. r \in Reqs
  <2>1. qhead \in 0 .. R /\ R \in Nat /\ qhead >= 1
    BY <1>1, LanesFit DEF SchedInv, Admits
  <2> QED
    BY <2>1, <1>2 DEF Reqs
<1>4. n \in Nat /\ 1 <= n /\ n <= q /\ n < x /\ x \in Nat /\ q \in Nat
  <2>1. job.plen[r] \in Nat /\ 1 <= job.plen[r] /\ job.plen[r] <= Len(job.prompt)
    BY <1>1, <1>3, Limits
  <2>2. job.plen[r] + Limit(job, r) < MaxSeq /\ Limit(job, r) \in Nat
    BY <1>1, <1>3, Limits
  <2>3. x \in Nat /\ q \in Nat
    BY <1>1, <1>2, Sizes, JobTypes
  <2> QED
    BY <1>2, <2>1, <2>2, <2>3
<1>5. f \in Nat /\ f < n
  BY <1>1, <1>2, <1>4 DEF SchedInv, Admits
<1>6. PChunk \in Nat /\ 1 <= PChunk /\ PChunk <= W + 2 /\ W \in Nat
  BY DenseAssumption, Sizes
<1>7. take = Lesser(n - f, PChunk)
  BY <1>2
<1>8. /\ take \in Nat /\ 1 <= take /\ take <= PChunk /\ f + take <= n
      /\ f + take <= x /\ f + take <= q /\ f + take <= f + W + 2
  BY <1>4, <1>5, <1>6, <1>7 DEF Lesser
<1>9. PICK cs : cs = ChunkColumns(take)
  OBVIOUS
<1> DEFINE T == [l \in LaneSet |-> job.prompt]
           lo == [l \in LaneSet |-> IF l = scan THEN f ELSE 0]
           hi == [l \in LaneSet |-> IF l = scan THEN f + take ELSE 0]
<1>10. scan \in LaneSet /\ scan \in Lanes
  BY <1>1 DEF Admits
<1>11. /\ T \in [LaneSet -> Rows] /\ lo \in [LaneSet -> Nat] /\ hi \in [LaneSet -> Nat]
       /\ T[scan] = job.prompt /\ lo[scan] = f /\ hi[scan] = f + take
       /\ \A m \in LaneSet \ {scan} : hi[m] = lo[m] /\ ~ (lo[m] < hi[m])
  BY <1>1, <1>5, <1>8, <1>10, JobTypes
<1>12. cs = [i \in 1 .. take |-> Column(scan, f + i - 1, T[scan][f + i])]
  BY <1>2, <1>9, <1>11 DEF ChunkColumns
<1> HIDE DEF T, lo, hi
<1>13. Consecutive(take, scan, f, cs, lo, hi, T)
  BY <1>2, <1>5, <1>8, <1>10, <1>11, <1>12 DEF Consecutive
<1>14. Feeds(cs, lo, hi, T) /\ Len(cs) = take
  BY <1>13, FeedsRun
<1>15. Ready(lo, hi, T)
  <2>1. Holds(job.kind, lanes[scan], SubSeq(job.prompt, 1, f))
    BY <1>1, <1>2 DEF Admits, Keeps
  <2>2. hi[scan] <= Len(T[scan]) /\ hi[scan] <= lo[scan] + W + 2 /\ hi[scan] <= LaneEnd(scan)
    BY <1>1, <1>2, <1>8, <1>11
  <2> QED
    BY <1>11, <2>1, <2>2 DEF Ready
<1>16. Len(cs) <= MostColumns
  <2>1. MostColumns \in B .. W + 2 /\ B \in Nat
    BY SchedFacts, LanesFit
  <2> QED
    BY <2>1, <1>1, <1>6, <1>8, <1>14
<1>17. Compute(cs, Written(cs))
  BY <1>9
<1>18. /\ lanes' \in [LaneSet -> LaneType] /\ clear' = TRUE /\ DispatchFits'
       /\ \A l \in LaneSet :
             IF lo[l] < hi[l] THEN Holds(job.kind, lanes'[l], SubSeq(T[l], 1, hi[l]))
                              ELSE lanes'[l] = lanes[l]
  BY <1>1, <1>14, <1>15, <1>16, <1>17, Fed
<1>19. f + take - 1 \in lo[scan] .. hi[scan] - 1
  BY <1>5, <1>8, <1>11
<1>20. Answer(Written(cs), Column(scan, f + take - 1, T[scan][f + take - 1 + 1])) =
          Choice(job.model, SubSeq(T[scan], 1, f + take - 1 + 1))
  BY <1>1, <1>10, <1>14, <1>15, <1>16, <1>17, <1>19, Answered
<1>21. f + take - 1 + 1 = f + take /\ take \in 1 .. take
  BY <1>5, <1>8
<1>22. cs[take] = Column(scan, f + take - 1, T[scan][f + take])
  BY <1>12, <1>21
<1>23. Answer(Written(cs), cs[take]) = Choice(job.model, SubSeq(job.prompt, 1, f + take))
  BY <1>11, <1>20, <1>21, <1>22
<1>24. lo[scan] < hi[scan]
  BY <1>5, <1>8, <1>11
<1>25. Holds(job.kind, lanes'[scan], SubSeq(job.prompt, 1, f + take))
  BY <1>10, <1>11, <1>18, <1>24
<1>26. StepInv'
  <2>1. LaneSet' = LaneSet /\ Lanes' = Lanes
    BY DEF LaneSet, Lanes
  <2> QED
    BY <1>1, <1>18, <2>1 DEF StepInv
<1>27. SubSeq(job.prompt, 1, f + take) \in Rows
  BY <1>1, <1>2, <1>5, <1>8, JobTypes, FirstRows
<1>28. \A s \in Lanes : s # scan => lanes'[s] = lanes[s]
  BY <1>1, <1>11, <1>18
<1> QED
  BY <1>2, <1>5, <1>8, <1>9, <1>23, <1>25, <1>26, <1>27, <1>28

\* The positions of a chunk, and what it does.
Taken == Lesser(job.plen[qhead - 1] - fed, PChunk)

ChunkSteps(r, take, cs, ls, t, o) ==
    /\ Compute(cs, ls)
    /\ fed' = fed + take
    /\ IF ~ (fed + take >= job.plen[r])
         THEN UNCHANGED <<pc, out, nact, active, req, tok, cbpos, scan>>
         ELSE /\ out' = o
              /\ IF Ends(t, r, o, job.plen[r])
                   THEN UNCHANGED <<nact, active, req, tok, cbpos>>
                   ELSE /\ active' = [active EXCEPT ![scan] = 1]
                        /\ req' = [req EXCEPT ![scan] = r]
                        /\ tok' = [tok EXCEPT ![scan] = t]
                        /\ cbpos' = [cbpos EXCEPT ![scan] = job.plen[r]]
                        /\ nact' = nact + 1
              /\ scan' = scan + 1
              /\ pc' = "admit"

LEMMA ChunkFacts ==
    ASSUME Chunk
    PROVE  /\ pc = "chunk" /\ job' = job
           /\ UNCHANGED <<logits, pos, hist, rep, qhead, pref>>
           /\ \E cs, ls, t :
                 /\ cs = ChunkColumns(Taken) /\ ls = Written(cs) /\ t = Answer(ls, cs[Taken])
                 /\ ChunkSteps(qhead - 1, Taken, cs, ls, t, [out EXCEPT ![qhead - 1] = Append(@, t)])
<1>1. /\ pc = "chunk" /\ job' = job
      /\ UNCHANGED <<logits, pos, hist, rep, qhead, pref>>
  BY DEF Chunk, single
<1>2. \E cs \in {ChunkColumns(Taken)} : \E ls \in {Written(cs)} : \E t \in {Answer(ls, cs[Taken])} :
         ChunkSteps(qhead - 1, Taken, cs, ls, t, [out EXCEPT ![qhead - 1] = Append(@, t)])
  BY DEF Chunk, ChunkSteps, ChunkColumns, Taken
<1> HIDE DEF ChunkSteps
<1> QED
  BY <1>1, <1>2

LEMMA MoreChunks ==
    ASSUME IInv, job.mode = "cbatch", job' = job, pc = "chunk", StepInv',
           UNCHANGED <<pos, hist, rep, qhead, pref, pc, out, nact, active, req, tok, cbpos, scan>>,
           fed' \in Nat, fed' < job.plen[qhead - 1], fed' <= MaxSeq,
           \A s \in Lanes : s # scan => lanes'[s] = lanes[s],
           SubSeq(job.prompt, 1, fed') \in Rows,
           Holds(job.kind, lanes'[scan], SubSeq(job.prompt, 1, fed'))
    PROVE  IInv'
<1> USE DEF SchedModes
<1>1. job \in Jobs /\ StreamsInv /\ SchedInv /\ Admits
  BY SchedFacts DEF SchedInv
<1>2. StreamsInv' /\ Completed'
  BY <1>1, StreamsStay DEF Completed
<1>3. SlotTypes' /\ InSlots' = InSlots /\ Lanes' = Lanes /\ Reqs' = Reqs
  BY <1>1, SlotTypesStay DEF SchedInv, Lanes, Reqs
<1>4. active[scan] = 0
  BY <1>1 DEF Admits
<1>5. ASSUME NEW s \in Lanes, active'[s] = 1 PROVE Decodes(s)'
  <2>1. Decodes(s) /\ s # scan
    BY <1>1, <1>4, <1>5 DEF SchedInv
  <2> QED
    BY <2>1, DecodesStays
<1>6. ASSUME NEW s \in Lanes, active'[s] = 2 PROVE Prefills(s)'
  <2>1. Prefills(s) /\ s # scan
    BY <1>1, <1>4, <1>6 DEF SchedInv
  <2> QED
    BY <2>1, PrefillsStays
<1>7. Admitting' = Admitting
  BY DEF Admitting
<1>8. SlotsOwn'
  BY <1>1, <1>3, <1>7 DEF SchedInv, SlotsOwn
<1>9. Admits'
  BY <1>1, <1>3 DEF Admits, Keeps
<1>10. \A r \in Reqs : Owed(r)' = Owed(r)
  BY <1>1, OwedSched
<1>11. fed' \in 0 .. MaxSeq
  BY Sizes
<1>12. \A r \in Reqs : r < qhead' /\ r \notin InSlots' \union Admitting' => Len(out'[r]) = Owed(r)'
  BY <1>1, <1>3, <1>7, <1>10 DEF SchedInv
<1>13. \A r \in Reqs : r >= qhead' => out'[r] = <<>>
  BY <1>1 DEF SchedInv
<1>14. /\ pos' = -1 /\ hist' = <<>> /\ rep' \in Nat /\ qhead' \in 0 .. R /\ scan' \in 0 .. B
       /\ pc' \in {"loop", "done"} \union
          (IF job'.mode = "cbatch" THEN {"admit", "chunk", "decode"} ELSE {"mixed"})
  BY <1>1 DEF SchedInv
<1>15. SchedInv'
  BY <1>3, <1>5, <1>6, <1>8, <1>9, <1>11, <1>12, <1>13, <1>14 DEF SchedInv
<1> QED
  BY <1>2, <1>15, SchedAfter

\* The number of occupied slots when one is taken.
InUse(a) == {u \in Lanes : a[u] # 0}

LEMMA OneMore ==
    ASSUME NEW a, NEW a2, NEW s \in Lanes, a[s] = 0, a2[s] # 0,
           \A u \in Lanes : u # s => a2[u] = a[u]
    PROVE  Cardinality(InUse(a2)) = Cardinality(InUse(a)) + 1
<1>1. IsFiniteSet(Lanes)
  BY LanesFit, FS_Interval DEF Lanes
<1>2. IsFiniteSet(InUse(a))
  BY <1>1, FS_Subset DEF InUse
<1>3. InUse(a2) = InUse(a) \union {s} /\ s \notin InUse(a)
  BY DEF InUse
<1> QED
  BY <1>2, <1>3, FS_AddElement

LEMMA LastChunk ==
    ASSUME IInv, job.mode = "cbatch", job' = job, pc = "chunk", StepInv',
           UNCHANGED <<logits, pos, hist, rep, qhead, pref>>,
           NEW r, r = qhead - 1, NEW n, n = job.plen[r], fed' = n,
           \A s \in Lanes : s # scan => lanes'[s] = lanes[s],
           Holds(job.kind, lanes'[scan], SubSeq(job.prompt, 1, n)),
           NEW t, t = Choice(job.model, SubSeq(job.prompt, 1, n)),
           out' = [out EXCEPT ![r] = Append(@, t)], scan' = scan + 1, pc' = "admit",
           IF Ends(t, r, out', n)
             THEN UNCHANGED <<nact, active, req, tok, cbpos>>
             ELSE /\ active' = [active EXCEPT ![scan] = 1]
                  /\ req' = [req EXCEPT ![scan] = r]
                  /\ tok' = [tok EXCEPT ![scan] = t]
                  /\ cbpos' = [cbpos EXCEPT ![scan] = n]
                  /\ nact' = nact + 1
    PROVE  IInv'
<1> USE DEF SchedModes
<1>1. /\ job \in Jobs /\ StreamsInv /\ SchedInv /\ Admits /\ SlotTypes /\ SlotsOwn
      /\ Writing = Reqs /\ Reqs \subseteq Streams
      /\ \A s \in Lanes : active[s] \in {0, 1}
  BY SchedFacts DEF SchedInv, SlotTypes
<1>2. qhead \in 0 .. R /\ R \in Nat /\ qhead >= 1 /\ r \in Reqs /\ r < qhead /\ ~ (r >= qhead)
  <2>1. qhead \in 0 .. R /\ R \in Nat /\ qhead >= 1
    BY <1>1, LanesFit DEF SchedInv, Admits
  <2> QED
    BY <2>1 DEF Reqs
<1>3. scan \in Lanes /\ active[scan] = 0 /\ out[r] = <<>>
  BY <1>1 DEF Admits
<1>4. /\ n \in Nat /\ 1 <= n /\ n <= MaxSeq
      /\ Asked(r) = SubSeq(job.prompt, 1, n) /\ Asked(r) \in Rows /\ Len(Asked(r)) = n
      /\ 1 <= Limit(job, r) /\ Limit(job, r) \in Nat
  <2>1. /\ job.plen[r] \in Nat /\ 1 <= job.plen[r] /\ job.plen[r] <= Len(job.prompt)
        /\ Asked(r) \in Rows /\ Len(Asked(r)) = job.plen[r]
        /\ 1 <= Limit(job, r) /\ Limit(job, r) \in Nat
    BY <1>1, <1>2, Limits
  <2>2. Len(job.prompt) <= MaxSeq /\ Len(job.prompt) \in Nat /\ MaxSeq \in Nat
    BY <1>1, JobTypes, Sizes
  <2> QED
    BY <2>1, <2>2 DEF Asked
<1>5. Text(r) = Asked(r)
  <2>1. Text(r) = Asked(r) \o out[r]
    BY <1>2, SchedFacts
  <2>2. <<>> \in Rows
    BY DEF Rows
  <2>3. Asked(r) \o <<>> = Asked(r)
    BY <1>4, <2>2, TextTypes
  <2> QED
    BY <1>3, <2>1, <2>3
<1>6. out'[r] = Append(out[r], t) /\ \A q \in Streams : q # r => out'[q] = out[q]
  BY <1>1, <1>2 DEF StreamsInv
<1>7. /\ t \in Tokens /\ Text(r) \in Rows /\ Text(r)' = Append(Text(r), t)
      /\ Len(Text(r)) = job.plen[r] + Len(out[r]) /\ Len(out[r]) \in Nat
      /\ Len(Text(r)) + 1 < MaxSeq
      /\ out'[r] \in Rows /\ Continued(PromptOf[r], out'[r])
      /\ Ends(t, r, out', Len(Text(r))) => Len(out'[r]) = Owed(r)'
      /\ ~ Ends(t, r, out', Len(Text(r))) => Goes(r)'
  <2>1. t = Choice(job.model, Text(r))
    BY <1>4, <1>5
  <2>2. Len(out[r]) < Limit(job, r) /\ \A i \in 1 .. Len(out[r]) : out[r][i] \notin Eos
    <3>1. Len(<<>>) = 0 /\ 0 < Limit(job, r)
      BY <1>4
    <3> QED
      BY <3>1, <1>3
  <2> QED
    BY <1>2, <1>6, <2>1, <2>2, RequestGrows
<1>8. Grows(r, t)
  BY <1>6, <1>7 DEF Grows
<1>9. Len(Text(r)) = n
  BY <1>4, <1>5
<1>10. StreamsInv'
  <2>1. out' \in [Streams -> Rows]
    BY <1>1, <1>6, <1>7 DEF StreamsInv
  <2>2. ASSUME NEW q \in Streams
        PROVE \/ out'[q] = out[q]
              \/ q \in Writing /\ Continued(PromptOf[q], out'[q])
    BY <1>1, <1>2, <1>6, <1>7
  <2> QED
    BY <1>1, <2>1, <2>2, StreamsAfter
<1>11. Completed'
  BY DEF Completed
<1>12. Lanes' = Lanes /\ Reqs' = Reqs
  BY DEF Lanes, Reqs
<1>13. Admitting' = {} /\ Admitting = {r}
  BY DEF Admitting
<1>14. /\ pos' = -1 /\ hist' = <<>> /\ rep' \in Nat /\ qhead' \in 0 .. R
       /\ scan' \in 0 .. B /\ fed' \in 0 .. MaxSeq
       /\ pc' \in {"loop", "done"} \union
          (IF job'.mode = "cbatch" THEN {"admit", "chunk", "decode"} ELSE {"mixed"})
  <2>1. scan + 1 \in 0 .. B
    BY <1>3, LanesFit DEF Lanes
  <2>2. n \in 0 .. MaxSeq
    BY <1>4, Sizes
  <2> QED
    BY <1>1, <2>1, <2>2 DEF SchedInv
<1>15. \A q \in Reqs : q >= qhead' => out'[q] = <<>>
  BY <1>1, <1>2, <1>6 DEF SchedInv
<1>16. \A s \in Lanes : active[s] # 0 => req[s] # r /\ s # scan /\ req[s] \in Streams
  BY <1>1, <1>3, <1>13 DEF SlotsOwn, SlotTypes
<1>17. ASSUME NEW s \in Lanes, active[s] = 1,
              req'[s] = req[s], tok'[s] = tok[s], cbpos'[s] = cbpos[s]
       PROVE  Decodes(s)'
  <2>1. Decodes(s) /\ s # scan /\ req[s] # r /\ req[s] \in Streams
    BY <1>1, <1>16, <1>17 DEF SchedInv
  <2>2. lanes'[s] = lanes[s] /\ out'[req[s]] = out[req[s]]
    BY <1>6, <2>1
  <2> QED
    BY <1>17, <2>1, <2>2, DecodesStays
<1>18. \A q \in Reqs : q # r => Owed(q)' = Owed(q) /\ out'[q] = out[q]
  BY <1>1, <1>6, OwedSched
<1>19. CASE Ends(t, r, out', n)
  <2>1. UNCHANGED <<nact, active, req, tok, cbpos>>
    BY <1>19
  <2>2. SlotTypes' /\ InSlots' = InSlots
    BY <1>1, <2>1, SlotTypesStay
  <2>3. SlotsOwn'
    BY <1>1, <1>12, <1>13, <2>1 DEF SlotsOwn
  <2>4. ASSUME NEW s \in Lanes, active'[s] = 1 PROVE Decodes(s)'
    BY <1>17, <2>1, <2>4
  <2>5. \A s \in Lanes : active'[s] # 2
    BY <1>1, <2>1
  <2>6. Len(out'[r]) = Owed(r)'
    BY <1>7, <1>9, <1>19
  <2>7. \A q \in Reqs : q < qhead' /\ q \notin InSlots' \union Admitting' => Len(out'[q]) = Owed(q)'
    BY <1>1, <1>13, <1>18, <2>2, <2>6 DEF SchedInv
  <2>8. SchedInv'
    BY <1>12, <1>14, <1>15, <2>2, <2>3, <2>4, <2>5, <2>7 DEF SchedInv
  <2> QED
    BY <1>10, <1>11, <2>8, SchedAfter
<1>20. CASE ~ Ends(t, r, out', n)
  <2>1. /\ active' = [active EXCEPT ![scan] = 1] /\ req' = [req EXCEPT ![scan] = r]
        /\ tok' = [tok EXCEPT ![scan] = t] /\ cbpos' = [cbpos EXCEPT ![scan] = n]
        /\ nact' = nact + 1
    BY <1>20
  <2>2. /\ active'[scan] = 1 /\ req'[scan] = r /\ tok'[scan] = t /\ cbpos'[scan] = n
        /\ \A s \in Lanes : s # scan => /\ active'[s] = active[s] /\ req'[s] = req[s]
                                         /\ tok'[s] = tok[s] /\ cbpos'[s] = cbpos[s]
    BY <1>1, <1>3, <2>1 DEF SlotTypes
  <2>3. SlotTypes'
    <3>1. nact' = Cardinality({s \in Lanes : active'[s] # 0})
      <4>1. nact = Cardinality(InUse(active))
        BY <1>1 DEF SlotTypes, InUse
      <4>2. active'[scan] # 0 /\ \A u \in Lanes : u # scan => active'[u] = active[u]
        BY <2>2
      <4>3. Cardinality(InUse(active')) = Cardinality(InUse(active)) + 1
        BY <1>3, <4>2, OneMore
      <4> QED
        BY <2>1, <4>1, <4>3 DEF InUse
    <3>2. req' \in [Lanes -> Reqs]
      BY <1>1, <1>2, <2>1 DEF SlotTypes
    <3>3. cbpos' \in [Lanes -> 0 .. MaxSeq]
      <4>1. n \in 0 .. MaxSeq
        BY <1>4, Sizes
      <4> QED
        BY <1>1, <2>1, <4>1 DEF SlotTypes
    <3>4. active' \in [Lanes -> {0, 1}]
      BY <1>1, <2>1 DEF SlotTypes
    <3>5. DOMAIN tok' = Lanes /\ pref' \in [Lanes -> 0 .. MaxSeq]
      BY <1>1, <2>1 DEF SlotTypes
    <3> QED
      BY <1>12, <3>1, <3>2, <3>3, <3>4, <3>5 DEF SlotTypes
  <2>4. SlotsOwn'
    <3>1. \A s \in Lanes : active'[s] # 0 => req'[s] < qhead
      BY <1>1, <1>2, <2>2 DEF SlotsOwn
    <3>2. \A s, u \in Lanes : active'[s] # 0 /\ active'[u] # 0 /\ req'[s] = req'[u] => s = u
      BY <1>1, <1>16, <2>2 DEF SlotsOwn
    <3> QED
      BY <1>12, <1>13, <3>1, <3>2 DEF SlotsOwn
  <2>5. ASSUME NEW s \in Lanes, active'[s] = 1 PROVE Decodes(s)'
    <3>1. CASE s = scan
      <4>1. Goes(r)' /\ cbpos'[s] = Len(Text(r)) /\ Holds(job.kind, lanes'[s], Text(r))
        BY <1>4, <1>5, <1>7, <1>9, <1>20, <2>2, <3>1
      <4> QED
        BY <1>8, <2>2, <3>1, <4>1, DecodesNext
    <3>2. CASE s # scan
      BY <1>17, <2>2, <2>5, <3>2
    <3> QED
      BY <3>1, <3>2
  <2>6. \A s \in Lanes : active'[s] # 2
    BY <1>1, <2>2
  <2>7. ASSUME NEW q \in Reqs, q < qhead', q \notin InSlots' \union Admitting'
        PROVE  Len(out'[q]) = Owed(q)'
    <3>1. q # r
      BY <1>3, <1>12, <2>2, <2>7 DEF InSlots
    <3>2. q \notin InSlots
      BY <1>3, <1>12, <2>2, <2>7 DEF InSlots
    <3> QED
      BY <1>1, <1>13, <1>18, <2>7, <3>1, <3>2 DEF SchedInv
  <2>8. SchedInv'
    BY <1>12, <1>14, <1>15, <2>3, <2>4, <2>5, <2>6, <2>7 DEF SchedInv
  <2> QED
    BY <1>10, <1>11, <2>8, SchedAfter
<1> QED
  BY <1>19, <1>20

LEMMA ChunkKeeps == ASSUME IInv, job.mode = "cbatch", Chunk PROVE IInv'
<1>1. /\ pc = "chunk" /\ job' = job
      /\ UNCHANGED <<logits, pos, hist, rep, qhead, pref>>
  BY ChunkFacts
<1>2. PICK cs, ls, t :
         /\ cs = ChunkColumns(Taken) /\ ls = Written(cs) /\ t = Answer(ls, cs[Taken])
         /\ ChunkSteps(qhead - 1, Taken, cs, ls, t, [out EXCEPT ![qhead - 1] = Append(@, t)])
  BY ChunkFacts
<1>3. PICK take, r, n : take = Taken /\ r = qhead - 1 /\ n = job.plen[r]
  OBVIOUS
<1>4. Compute(ChunkColumns(take), Written(ChunkColumns(take))) /\ fed' = fed + take
  BY <1>2, <1>3 DEF ChunkSteps
<1>5. take = Lesser(job.plen[qhead - 1] - fed, PChunk)
  BY <1>3 DEF Taken
<1>6. /\ StepInv' /\ take \in Nat /\ take # 0 /\ fed \in Nat
      /\ fed + take <= n /\ fed + take <= MaxSeq
      /\ \A s \in Lanes : s # scan => lanes'[s] = lanes[s]
      /\ SubSeq(job.prompt, 1, fed + take) \in Rows
      /\ Holds(job.kind, lanes'[scan], SubSeq(job.prompt, 1, fed + take))
      /\ t = Choice(job.model, SubSeq(job.prompt, 1, fed + take))
  <2> HIDE DEF Lesser, Answer, Written, ChunkColumns, Compute
  <2> QED
    BY <1>1, <1>2, <1>3, <1>4, <1>5, ChunkFed
<1>7. CASE ~ (fed + take >= n)
  <2>1. UNCHANGED <<pc, out, nact, active, req, tok, cbpos, scan>>
    BY <1>2, <1>3, <1>7 DEF ChunkSteps
  <2>2. n \in Nat
    <3>1. job \in Jobs /\ qhead \in 0 .. R /\ qhead >= 1
      BY <1>1, SchedFacts DEF SchedInv, Admits, SchedModes
    <3>2. r \in Reqs
      BY <1>3, <3>1, LanesFit DEF Reqs
    <3> QED
      BY <1>3, <3>1, <3>2, Limits DEF SchedModes
  <2>3. fed' \in Nat /\ fed' < n /\ fed' <= MaxSeq
    BY <1>4, <1>6, <1>7, <2>2
  <2> QED
    BY <1>1, <1>3, <1>4, <1>6, <2>1, <2>3, MoreChunks
<1>8. CASE fed + take >= n
  <2>1. n \in Nat
    <3>1. job \in Jobs /\ qhead \in 0 .. R /\ qhead >= 1
      BY <1>1, SchedFacts DEF SchedInv, Admits, SchedModes
    <3>2. r \in Reqs
      BY <1>3, <3>1, LanesFit DEF Reqs
    <3> QED
      BY <1>3, <3>1, <3>2, Limits DEF SchedModes
  <2>2. fed + take = n
    BY <1>6, <1>8, <2>1
  <2>3. /\ out' = [out EXCEPT ![r] = Append(@, t)] /\ scan' = scan + 1 /\ pc' = "admit"
        /\ IF Ends(t, r, [out EXCEPT ![r] = Append(@, t)], n)
             THEN UNCHANGED <<nact, active, req, tok, cbpos>>
             ELSE /\ active' = [active EXCEPT ![scan] = 1]
                  /\ req' = [req EXCEPT ![scan] = r]
                  /\ tok' = [tok EXCEPT ![scan] = t]
                  /\ cbpos' = [cbpos EXCEPT ![scan] = n]
                  /\ nact' = nact + 1
    BY <1>2, <1>3, <1>8 DEF ChunkSteps
  <2> HIDE DEF Ends
  <2>4. IF Ends(t, r, out', n)
          THEN UNCHANGED <<nact, active, req, tok, cbpos>>
          ELSE /\ active' = [active EXCEPT ![scan] = 1]
               /\ req' = [req EXCEPT ![scan] = r]
               /\ tok' = [tok EXCEPT ![scan] = t]
               /\ cbpos' = [cbpos EXCEPT ![scan] = n]
               /\ nact' = nact + 1
    BY <2>3
  <2> QED
    BY <1>1, <1>3, <1>4, <1>6, <2>2, <2>3, <2>4, LastChunk
<1> QED
  BY <1>7, <1>8

LEMMA DecodingFacts ==
    ASSUME IInv, job.mode \in SchedModes, NEW s \in Decoding(active)
    PROVE  /\ s \in Lanes /\ active[s] = 1 /\ req[s] \in Reqs
           /\ Text(req[s]) \in Rows /\ Text(req[s]) # <<>>
           /\ cbpos[s] \in Nat /\ Len(Text(req[s])) = cbpos[s] + 1 /\ cbpos[s] + 1 < MaxSeq
           /\ tok[s] = Text(req[s])[cbpos[s] + 1]
           /\ Len(out[req[s]]) < Limit(job, req[s])
           /\ \A i \in 1 .. Len(out[req[s]]) : out[req[s]][i] \notin Eos
           /\ Holds(job.kind, lanes[s], SubSeq(Text(req[s]), 1, cbpos[s]))
<1>1. /\ job \in Jobs /\ StreamsInv /\ SchedInv /\ SlotTypes /\ Reqs \subseteq Streams
  BY SchedFacts DEF SchedInv
<1>2. s \in Lanes /\ active[s] = 1 /\ req[s] \in Reqs /\ cbpos[s] \in Nat
  BY <1>1, Sizes DEF Decoding, SlotTypes
<1>3. Decodes(s)
  BY <1>1, <1>2 DEF SchedInv
<1>4. PICK r : r = req[s]
  OBVIOUS
<1>5. r \in Reqs /\ r \in Streams /\ Text(r) = Asked(r) \o out[r] /\ out[r] \in Rows
  BY <1>1, <1>2, <1>4, SchedFacts DEF StreamsInv
<1>6. /\ Asked(r) \in Rows /\ Len(Asked(r)) = job.plen[r] /\ job.plen[r] \in Nat
      /\ Limit(job, r) \in Nat /\ job.plen[r] + Limit(job, r) < MaxSeq
  BY <1>1, <1>5, Limits
<1>7. Text(r) \in Rows /\ Len(Text(r)) = Len(Asked(r)) + Len(out[r]) /\ Len(out[r]) \in Nat
  <2>1. PICK x, y : x = Asked(r) /\ y = out[r]
    OBVIOUS
  <2>2. x \in Rows /\ y \in Rows /\ Text(r) = x \o y
    BY <2>1, <1>5, <1>6
  <2>3. x \o y \in Rows /\ Len(x \o y) = Len(x) + Len(y) /\ Len(y) \in Nat
    BY <2>2, TextTypes
  <2> QED
    BY <2>1, <2>2, <2>3
<1>8. /\ Len(out[r]) < Limit(job, r)
      /\ \A i \in 1 .. Len(out[r]) : out[r][i] \notin Eos
  BY <1>3, <1>4 DEF Decodes, Goes
<1>9. Len(Text(r)) = cbpos[s] + 1 /\ tok[s] = Text(r)[cbpos[s] + 1]
  BY <1>3, <1>4 DEF Decodes
<1>10. Holds(job.kind, lanes[s], SubSeq(Text(r), 1, cbpos[s]))
  BY <1>3, <1>4 DEF Decodes, Keeps
<1>11. cbpos[s] + 1 < MaxSeq
  <2>1. PICK p, o, l, x, c : /\ p = job.plen[r] /\ o = Len(out[r]) /\ l = Limit(job, r)
                             /\ x = MaxSeq /\ c = cbpos[s]
    OBVIOUS
  <2>2. /\ p \in Nat /\ o \in Nat /\ l \in Nat /\ x \in Nat /\ c \in Nat
        /\ p + l < x /\ o < l /\ c + 1 = p + o
    BY <2>1, <1>2, <1>6, <1>7, <1>8, <1>9, Sizes
  <2> QED
    BY <2>1, <2>2
<1>12. Text(r) # <<>>
  BY <1>2, <1>9
<1> QED
  BY <1>2, <1>4, <1>7, <1>8, <1>9, <1>10, <1>11, <1>12

\* The decode columns of a step.
DecodeRuns(lo, hi, T) ==
    /\ lo \in [LaneSet -> Nat] /\ hi \in [LaneSet -> Nat] /\ T \in [LaneSet -> Rows]
    /\ \A s \in Decoding(active) : lo[s] = cbpos[s] /\ T[s] = Text(req[s])
    /\ \A l \in LaneSet : hi[l] = IF l \in Decoding(active) THEN lo[l] + 1 ELSE lo[l]

LEMMA DecodeColumnsFeed ==
    ASSUME IInv, job.mode \in SchedModes, NEW lo, NEW hi, NEW T, DecodeRuns(lo, hi, T)
    PROVE  /\ Feeds(DecodeColumns(active), lo, hi, T)
           /\ Len(DecodeColumns(active)) = Cardinality(Decoding(active))
           /\ Cardinality(Decoding(active)) \in Nat /\ Cardinality(Decoding(active)) <= B
<1>1. PICK S : S = Decoding(active)
  OBVIOUS
<1>2. S \subseteq Lanes /\ LaneSet = Lanes
  BY <1>1, SchedFacts DEF Decoding
<1>3. Cardinality(S) \in Nat /\ Cardinality(S) <= B
  BY <1>2, InOrder
<1>4. PICK L \in [1 .. Cardinality(S) -> S] :
         /\ L = [i \in 1 .. Cardinality(S) |->
                    CHOOSE s \in S : Cardinality({u \in S : u < s}) = i - 1]
         /\ \A i, j \in 1 .. Cardinality(S) : L[i] = L[j] => i = j
         /\ \A s \in S : \E i \in 1 .. Cardinality(S) : L[i] = s
  BY <1>2, InOrder
<1>5. PICK n : n = Cardinality(S)
  OBVIOUS
<1>6. DecodeColumns(active) = [i \in 1 .. n |-> Column(L[i], cbpos[L[i]], tok[L[i]])]
  BY <1>1, <1>4, <1>5 DEF DecodeColumns
<1>7. ASSUME NEW i \in 1 .. n
      PROVE  /\ L[i] \in S /\ L[i] \in LaneSet /\ lo[L[i]] = cbpos[L[i]]
             /\ T[L[i]][lo[L[i]] + 1] = tok[L[i]]
             /\ lo[L[i]] < MaxSeq /\ lo[L[i]] < Len(T[L[i]])
  <2>1. L[i] \in S
    BY <1>4, <1>5
  <2>2. PICK s : s = L[i]
    OBVIOUS
  <2>3. s \in Decoding(active) /\ s \in LaneSet
    BY <1>1, <1>2, <2>1, <2>2
  <2>4. lo[s] = cbpos[s] /\ T[s] = Text(req[s])
    BY <2>3 DEF DecodeRuns
  <2>5. /\ cbpos[s] \in Nat /\ Len(Text(req[s])) = cbpos[s] + 1 /\ cbpos[s] + 1 < MaxSeq
        /\ tok[s] = Text(req[s])[cbpos[s] + 1]
    BY <2>3, DecodingFacts
  <2>6. lo[s] < MaxSeq /\ lo[s] < Len(T[s]) /\ T[s][lo[s] + 1] = tok[s]
    BY <2>4, <2>5, Sizes
  <2> QED
    BY <2>1, <2>2, <2>3, <2>4, <2>6
<1>8. DecodeColumns(active) = [i \in 1 .. n |-> Column(L[i], lo[L[i]], T[L[i]][lo[L[i]] + 1])]
  BY <1>6, <1>7
<1>9. Apart(n, L, DecodeColumns(active), lo, hi, T)
  <2>1. n \in Nat /\ L \in [1 .. n -> LaneSet]
    BY <1>2, <1>3, <1>4, <1>5
  <2>2. \A l \in LaneSet : hi[l] = IF \E i \in 1 .. n : L[i] = l THEN lo[l] + 1 ELSE lo[l]
    <3>1. \A l \in LaneSet : hi[l] = IF l \in S THEN lo[l] + 1 ELSE lo[l]
      BY <1>1 DEF DecodeRuns
    <3>2. ASSUME NEW l PROVE l \in S <=> \E i \in 1 .. n : L[i] = l
      <4>1. l \in S => \E i \in 1 .. n : L[i] = l
        BY <1>4, <1>5
      <4>2. \A i \in 1 .. n : L[i] \in S
        BY <1>7
      <4> QED
        BY <4>1, <4>2
    <3> QED
      BY <3>1, <3>2
  <2>3. \A i, j \in 1 .. n : L[i] = L[j] => i = j
    BY <1>4, <1>5
  <2>4. \A i \in 1 .. n : lo[L[i]] < MaxSeq /\ lo[L[i]] < Len(T[L[i]])
    BY <1>7
  <2>5. lo \in [LaneSet -> Nat] /\ hi \in [LaneSet -> Nat] /\ T \in [LaneSet -> Rows]
    BY DEF DecodeRuns
  <2> QED
    BY <1>8, <2>1, <2>2, <2>3, <2>4, <2>5 DEF Apart
<1>10. Feeds(DecodeColumns(active), lo, hi, T) /\ Len(DecodeColumns(active)) = n
  BY <1>9, FeedsEach
<1> QED
  BY <1>1, <1>3, <1>5, <1>10

\* What a decoding step does.
DecodeSteps(from, cs, ls, token, o, over) ==
    /\ Compute(cs, ls)
    /\ out' = o
    /\ active' = [s \in Lanes |-> IF s \in over THEN 0 ELSE active[s]]
    /\ nact' = nact - Cardinality(over)
    /\ tok' = [s \in Lanes |-> IF s \in from \ over THEN token[s] ELSE tok[s]]
    /\ cbpos' = [s \in Lanes |-> IF s \in from THEN cbpos[s] + 1 ELSE cbpos[s]]

OverOf(from, of, token, o, last) == {s \in from : Ends(token[s], of[s], o, last[s] + 1)}

LEMMA DecodeFacts ==
    ASSUME Decode
    PROVE  /\ pc = "decode" /\ pc' = "loop" /\ job' = job
           /\ UNCHANGED <<logits, pos, hist, rep, qhead, req, pref, scan, fed>>
           /\ \E cs, ls, token, o :
                 /\ cs = DecodeColumns(active) /\ ls = Written(cs)
                 /\ token = [s \in Decoding(active) |-> TokenAt(cs, ls, s, cbpos[s])]
                 /\ o = Emitted(Decoding(active), req, token)
                 /\ DecodeSteps(Decoding(active), cs, ls, token, o,
                                OverOf(Decoding(active), req, token, o, cbpos))
<1>1. /\ pc = "decode" /\ pc' = "loop" /\ job' = job
      /\ UNCHANGED <<logits, pos, hist, rep, qhead, req, pref, scan, fed>>
  BY DEF Decode, single
<1>2. \E cs \in {DecodeColumns(active)} : \E ls \in {Written(cs)} :
      \E token \in {[s \in Decoding(active) |-> TokenAt(cs, ls, s, cbpos[s])]} :
         DecodeSteps(Decoding(active), cs, ls, token, Emitted(Decoding(active), req, token),
                     OverOf(Decoding(active), req, token,
                            Emitted(Decoding(active), req, token), cbpos))
  BY DEF Decode, DecodeSteps, OverOf
<1> HIDE DEF DecodeSteps
<1> QED
  BY <1>1, <1>2

\* The number of occupied slots when some are taken and some are freed.
SlotsChange(a, a2, J, O) ==
    /\ J \subseteq Lanes /\ J \cap InUse(a) = {}
    /\ O \subseteq InUse(a) \union J /\ InUse(a2) = (InUse(a) \union J) \ O

LEMMA SomeChange ==
    ASSUME NEW a, NEW a2, NEW J, NEW O, SlotsChange(a, a2, J, O)
    PROVE  /\ Cardinality(InUse(a2)) = Cardinality(InUse(a)) + Cardinality(J) - Cardinality(O)
           /\ Cardinality(InUse(a)) \in Nat /\ Cardinality(J) \in Nat /\ Cardinality(O) \in Nat
<1> USE DEF SlotsChange
<1>1. IsFiniteSet(Lanes)
  BY LanesFit, FS_Interval DEF Lanes
<1>2. InUse(a) \subseteq Lanes
  BY DEF InUse
<1>3. IsFiniteSet(InUse(a)) /\ IsFiniteSet(J) /\ IsFiniteSet(O)
  <2>1. O \subseteq Lanes
    BY <1>2
  <2> QED
    BY <1>1, <1>2, <2>1, FS_Subset
<1>4. PICK U : U = InUse(a) \union J
  OBVIOUS
<1>5. IsFiniteSet(U) /\ Cardinality(U) = Cardinality(InUse(a)) + Cardinality(J)
  <2>1. IsFiniteSet(U) /\ Cardinality(U) = Cardinality(InUse(a)) + Cardinality(J) - Cardinality(InUse(a) \cap J)
    BY <1>3, <1>4, FS_Union
  <2>2. Cardinality(InUse(a) \cap J) = 0
    <3>1. InUse(a) \cap J = {}
      OBVIOUS
    <3> QED
      BY <3>1, FS_EmptySet
  <2>3. Cardinality(InUse(a)) \in Nat /\ Cardinality(J) \in Nat
    BY <1>3, FS_CardinalityType
  <2> QED
    BY <2>1, <2>2, <2>3
<1>6. Cardinality(U \ O) = Cardinality(U) - Cardinality(O)
  <2>1. Cardinality(U \ O) = Cardinality(U) - Cardinality(U \cap O)
    BY <1>5, FS_Difference
  <2>2. U \cap O = O
    BY <1>4
  <2> QED
    BY <2>1, <2>2
<1>7. InUse(a2) = U \ O
  BY <1>4
<1>8. Cardinality(InUse(a2)) = Cardinality(U) - Cardinality(O)
  BY <1>6, <1>7
<1>9. Cardinality(InUse(a)) \in Nat /\ Cardinality(J) \in Nat /\ Cardinality(O) \in Nat
  BY <1>3, FS_CardinalityType
<1> QED
  BY <1>5, <1>8, <1>9

LEMMA DecodeFed ==
    ASSUME IInv, job.mode \in SchedModes, job' = job, logits' = logits,
           Compute(DecodeColumns(active), Written(DecodeColumns(active)))
    PROVE  /\ StepInv'
           /\ \A s \in Decoding(active) :
                 /\ Holds(job.kind, lanes'[s], Text(req[s]))
                 /\ TokenAt(DecodeColumns(active), Written(DecodeColumns(active)), s, cbpos[s]) =
                       Choice(job.model, Text(req[s]))
           /\ \A s \in Lanes \ Decoding(active) : lanes'[s] = lanes[s]
<1>1. /\ job \in Jobs /\ StepInv /\ LaneSet = Lanes /\ \A l : LaneEnd(l) = MaxSeq
      /\ MostColumns \in B .. W + 2
  BY SchedFacts
<1>2. PICK S, cs : S = Decoding(active) /\ cs = DecodeColumns(active)
  OBVIOUS
<1> DEFINE T  == [l \in LaneSet |-> IF l \in S THEN Text(req[l]) ELSE <<>>]
           lo == [l \in LaneSet |-> IF l \in S THEN cbpos[l] ELSE 0]
           hi == [l \in LaneSet |-> IF l \in S THEN cbpos[l] + 1 ELSE 0]
<1>3. ASSUME NEW s \in S
      PROVE  /\ s \in Lanes /\ s \in LaneSet /\ Text(req[s]) \in Rows
             /\ cbpos[s] \in Nat /\ Len(Text(req[s])) = cbpos[s] + 1 /\ cbpos[s] + 1 < MaxSeq
             /\ Holds(job.kind, lanes[s], SubSeq(Text(req[s]), 1, cbpos[s]))
  BY <1>1, <1>2, DecodingFacts
<1>4. <<>> \in Rows /\ 0 \in Nat
  BY DEF Rows
<1>5. T \in [LaneSet -> Rows] /\ lo \in [LaneSet -> Nat] /\ hi \in [LaneSet -> Nat]
  BY <1>3, <1>4
<1>6. /\ \A s \in S : /\ T[s] = Text(req[s]) /\ lo[s] = cbpos[s] /\ hi[s] = cbpos[s] + 1
                      /\ lo[s] < hi[s]
      /\ \A l \in LaneSet : l \notin S => hi[l] = lo[l] /\ ~ (lo[l] < hi[l])
  BY <1>3
<1> HIDE DEF T, lo, hi
<1>7. DecodeRuns(lo, hi, T)
  BY <1>2, <1>5, <1>6 DEF DecodeRuns
<1>8. Feeds(cs, lo, hi, T) /\ Len(cs) <= MostColumns
  <2>1. /\ Feeds(cs, lo, hi, T) /\ Len(cs) = Cardinality(S)
        /\ Cardinality(S) \in Nat /\ Cardinality(S) <= B
    BY <1>2, <1>7, DecodeColumnsFeed
  <2> QED
    BY <2>1, <1>1, LanesFit, Sizes
<1>9. Ready(lo, hi, T)
  <2>1. ASSUME NEW l \in LaneSet, lo[l] < hi[l]
        PROVE  /\ Holds(job.kind, lanes[l], SubSeq(T[l], 1, lo[l])) /\ hi[l] <= Len(T[l])
               /\ hi[l] <= lo[l] + W + 2
               /\ hi[l] <= LaneEnd(l)
    <3>1. l \in S
      BY <1>6, <2>1
    <3>2. /\ cbpos[l] \in Nat /\ Len(Text(req[l])) = cbpos[l] + 1 /\ cbpos[l] + 1 < MaxSeq
          /\ Holds(job.kind, lanes[l], SubSeq(Text(req[l]), 1, cbpos[l]))
          /\ T[l] = Text(req[l]) /\ lo[l] = cbpos[l] /\ hi[l] = cbpos[l] + 1
          /\ LaneEnd(l) = MaxSeq
      BY <1>1, <1>3, <1>6, <3>1
    <3>3. hi[l] <= Len(T[l]) /\ hi[l] <= lo[l] + W + 2 /\ hi[l] <= LaneEnd(l)
      BY <3>2, Sizes
    <3> QED
      BY <3>2, <3>3
  <2> QED
    BY <1>5, <2>1 DEF Ready
<1>10. Compute(cs, Written(cs))
  BY <1>2
<1>11. /\ lanes' \in [LaneSet -> LaneType] /\ clear' = TRUE /\ DispatchFits'
       /\ \A l \in LaneSet :
             IF lo[l] < hi[l] THEN Holds(job.kind, lanes'[l], SubSeq(T[l], 1, hi[l]))
                              ELSE lanes'[l] = lanes[l]
  BY <1>1, <1>8, <1>9, <1>10, Fed
<1>12. ASSUME NEW s \in S
       PROVE  /\ Holds(job.kind, lanes'[s], Text(req[s]))
              /\ TokenAt(cs, Written(cs), s, cbpos[s]) = Choice(job.model, Text(req[s]))
  <2>1. PICK x, c : x = Text(req[s]) /\ c = cbpos[s]
    OBVIOUS
  <2>2. /\ s \in LaneSet /\ x \in Rows /\ c \in Nat /\ Len(x) = c + 1
        /\ T[s] = x /\ lo[s] = c /\ hi[s] = c + 1 /\ lo[s] < hi[s]
    BY <1>3, <1>6, <2>1
  <2>3. SubSeq(x, 1, c + 1) = x
    BY <2>2, FirstRows
  <2>4. Holds(job.kind, lanes'[s], SubSeq(T[s], 1, hi[s]))
    BY <1>11, <2>2
  <2>5. c \in lo[s] .. hi[s] - 1
    BY <2>2
  <2>6. TokenAt(cs, Written(cs), s, c) = Choice(job.model, SubSeq(T[s], 1, c + 1))
    BY <1>1, <1>8, <1>9, <1>10, <2>2, <2>5, Answered
  <2> QED
    BY <2>1, <2>2, <2>3, <2>4, <2>6
<1>13. StepInv'
  <2>1. LaneSet' = LaneSet /\ Lanes' = Lanes
    BY DEF LaneSet, Lanes
  <2> QED
    BY <1>1, <1>11, <2>1 DEF StepInv
<1>14. \A s \in Lanes \ S : lanes'[s] = lanes[s]
  BY <1>1, <1>6, <1>11
<1> QED
  BY <1>2, <1>12, <1>13, <1>14

LEMMA DecodeKeeps == ASSUME IInv, job.mode = "cbatch", Decode PROVE IInv'
<1> USE DEF SchedModes
<1>1. /\ pc = "decode" /\ pc' = "loop" /\ job' = job
      /\ UNCHANGED <<logits, pos, hist, rep, qhead, req, pref, scan, fed>>
  BY DecodeFacts
<1>2. PICK cs, ls, token, o :
         /\ cs = DecodeColumns(active) /\ ls = Written(cs)
         /\ token = [s \in Decoding(active) |-> TokenAt(cs, ls, s, cbpos[s])]
         /\ o = Emitted(Decoding(active), req, token)
         /\ DecodeSteps(Decoding(active), cs, ls, token, o,
                        OverOf(Decoding(active), req, token, o, cbpos))
  BY DecodeFacts
<1>3. PICK from, over : from = Decoding(active) /\ over = OverOf(from, req, token, o, cbpos)
  OBVIOUS
<1>4. /\ Compute(cs, ls) /\ out' = o
      /\ active' = [s \in Lanes |-> IF s \in over THEN 0 ELSE active[s]]
      /\ nact' = nact - Cardinality(over)
      /\ tok' = [s \in Lanes |-> IF s \in from \ over THEN token[s] ELSE tok[s]]
      /\ cbpos' = [s \in Lanes |-> IF s \in from THEN cbpos[s] + 1 ELSE cbpos[s]]
  BY <1>2, <1>3 DEF DecodeSteps
<1>5. /\ job \in Jobs /\ SchedInv /\ SlotTypes /\ SlotsOwn /\ Reqs \subseteq Streams
      /\ \A s \in Lanes : active[s] \in {0, 1}
  BY SchedFacts DEF SchedInv, SlotTypes
<1>6. /\ StepInv'
      /\ \A s \in from :
            /\ Holds(job.kind, lanes'[s], Text(req[s]))
            /\ TokenAt(cs, ls, s, cbpos[s]) = Choice(job.model, Text(req[s]))
      /\ \A s \in Lanes \ from : lanes'[s] = lanes[s]
  BY <1>1, <1>2, <1>3, <1>4, DecodeFed
<1>7. /\ \A s \in from : s \in Lanes /\ active[s] = 1
      /\ \A s \in Lanes : active[s] = 1 => s \in from
  BY <1>3 DEF Decoding
<1>8. Emit(from, req, token, cbpos, over)
  <2>1. ASSUME NEW s \in from
        PROVE  /\ req[s] \in Reqs
               /\ token[s] = Choice(job.model, Text(req[s]))
               /\ Len(out[req[s]]) < Limit(job, req[s])
               /\ \A i \in 1 .. Len(out[req[s]]) : out[req[s]][i] \notin Eos
               /\ cbpos[s] + 1 = Len(Text(req[s]))
    <3>1. /\ req[s] \in Reqs /\ Len(out[req[s]]) < Limit(job, req[s])
          /\ \A i \in 1 .. Len(out[req[s]]) : out[req[s]][i] \notin Eos
          /\ cbpos[s] + 1 = Len(Text(req[s]))
      BY <1>3, DecodingFacts
    <3>2. token[s] = Choice(job.model, Text(req[s]))
      BY <1>2, <1>3, <1>6
    <3> QED
      BY <3>1, <3>2
  <2>2. \A s, u \in from : req[s] = req[u] => s = u
    BY <1>5, <1>7 DEF SlotsOwn
  <2>3. over = {s \in from : Ends(token[s], req[s], out', cbpos[s] + 1)}
    BY <1>3, <1>4 DEF OverOf
  <2> QED
    BY <1>7, <2>1, <2>2, <2>3 DEF Emit
<1>9. /\ StreamsInv'
      /\ \A s \in from :
            /\ Grows(req[s], token[s])
            /\ s \in over => Len(out'[req[s]]) = Owed(req[s])'
            /\ s \notin over => Goes(req[s])'
      /\ \A r \in Streams : (\A s \in from : req[s] # r) => out'[r] = out[r]
      /\ over \subseteq from
  BY <1>1, <1>2, <1>3, <1>4, <1>8, EmittedGrows
<1>10. Completed'
  BY <1>1 DEF Completed
<1>11. Lanes' = Lanes /\ Reqs' = Reqs /\ InSlots' = {req[s] : s \in {u \in Lanes : active'[u] # 0}}
  BY <1>1 DEF Lanes, Reqs, InSlots
<1>12. Admitting = {} /\ Admitting' = {}
  BY <1>1 DEF Admitting
<1>13. /\ \A s \in over : active'[s] = 0
       /\ \A s \in Lanes : s \notin over => active'[s] = active[s]
       /\ \A s \in from : s \notin over => tok'[s] = token[s]
       /\ \A s \in from : cbpos'[s] = cbpos[s] + 1
  BY <1>4, <1>7, <1>9
<1>14. SlotTypes'
  <2>1. nact' = Cardinality(InUse(active'))
    <3>1. nact = Cardinality(InUse(active))
      BY <1>5 DEF SlotTypes, InUse
    <3>2. over \subseteq InUse(active) \union {}
      BY <1>7, <1>9 DEF InUse
    <3>3. InUse(active') = (InUse(active) \union {}) \ over
      BY <1>13 DEF InUse
    <3>4. {} \subseteq Lanes /\ {} \cap InUse(active) = {}
      OBVIOUS
    <3>5. /\ Cardinality(InUse(active')) =
                Cardinality(InUse(active)) + Cardinality({}) - Cardinality(over)
          /\ Cardinality(InUse(active)) \in Nat /\ Cardinality(over) \in Nat
      <4>1. PICK J, a2 : J = {} /\ a2 = active'
        OBVIOUS
      <4>2. SlotsChange(active, a2, J, over)
        BY <3>2, <3>3, <3>4, <4>1 DEF SlotsChange
      <4>3. /\ Cardinality(InUse(a2)) =
                  Cardinality(InUse(active)) + Cardinality(J) - Cardinality(over)
            /\ Cardinality(InUse(active)) \in Nat /\ Cardinality(over) \in Nat
        BY <4>2, SomeChange
      <4> QED
        BY <4>1, <4>3
    <3>6. Cardinality({}) = 0
      BY FS_EmptySet
    <3>7. nact' = Cardinality(InUse(active)) - Cardinality(over)
      BY <1>4, <3>1
    <3> QED
      BY <3>5, <3>6, <3>7
  <2>2. active' \in [Lanes -> {0, 1}]
    BY <1>4, <1>5
  <2>3. ASSUME NEW s \in Lanes PROVE cbpos'[s] \in 0 .. MaxSeq
    <3>1. CASE s \in from
      <4>1. cbpos[s] \in Nat /\ cbpos[s] + 1 < MaxSeq
        BY <1>3, <3>1, DecodingFacts
      <4> QED
        BY <1>13, <3>1, <4>1, Sizes
    <3>2. CASE s \notin from
      BY <1>4, <1>5, <3>2 DEF SlotTypes
    <3> QED
      BY <3>1, <3>2
  <2>4. cbpos' \in [Lanes -> 0 .. MaxSeq] /\ DOMAIN tok' = Lanes
    BY <1>4, <2>3
  <2>5. req' \in [Lanes -> Reqs] /\ pref' \in [Lanes -> 0 .. MaxSeq]
    BY <1>1, <1>5 DEF SlotTypes
  <2> QED
    BY <1>1, <1>11, <2>1, <2>2, <2>4, <2>5 DEF SlotTypes, InUse
<1>15. SlotsOwn'
  <2>1. \A s \in Lanes : active'[s] # 0 => active[s] # 0
    BY <1>13
  <2> QED
    BY <1>1, <1>5, <1>11, <1>12, <2>1 DEF SlotsOwn
<1>16. ASSUME NEW s \in Lanes, active'[s] = 1 PROVE Decodes(s)'
  <2>1. s \notin over /\ active[s] = 1 /\ s \in from
    BY <1>7, <1>13, <1>16
  <2>2. cbpos[s] + 1 = Len(Text(req[s]))
    BY <1>8, <2>1 DEF Emit
  <2>3. /\ req'[s] = req[s] /\ tok'[s] = token[s] /\ cbpos'[s] = Len(Text(req[s]))
        /\ Grows(req[s], token[s]) /\ Goes(req[s])'
        /\ Holds(job.kind, lanes'[s], Text(req[s]))
    BY <1>1, <1>6, <1>9, <1>13, <2>1, <2>2
  <2>4. PICK r, t : r = req[s] /\ t = token[s]
    OBVIOUS
  <2>5. Goes(r)'
    <3>1. r = req'[s]
      BY <2>3, <2>4
    <3> QED
      BY <1>1, <2>3, <2>4 DEF Goes
  <2>6. /\ Grows(r, t) /\ req'[s] = r /\ tok'[s] = t /\ cbpos'[s] = Len(Text(r))
        /\ Holds(job.kind, lanes'[s], Text(r))
    BY <2>3, <2>4
  <2> QED
    BY <1>1, <2>5, <2>6, DecodesNext
<1>17. \A s \in Lanes : active'[s] # 2
  BY <1>5, <1>13
<1>18. ASSUME NEW r \in Reqs, r < qhead', r \notin InSlots' \union Admitting'
       PROVE  Len(out'[r]) = Owed(r)'
  <2>1. CASE \E s \in from : req[s] = r
    <3>1. PICK s \in from : req[s] = r
      BY <2>1
    <3>2. s \in over
      BY <1>7, <1>11, <1>13, <1>18, <3>1
    <3>3. Len(out'[req[s]]) = Owed(req[s])'
      BY <1>9, <3>2
    <3>4. Owed(r)' = UpToEos(out'[r], Limit(job, r))
      BY <1>1, <1>5, OwedSched
    <3>5. Owed(req[s])' = UpToEos(out'[r], Limit(job, r))
      <4>1. req'[s] = r
        BY <1>1, <3>1
      <4> QED
        BY <1>1, <3>1, <3>4, <4>1
    <3> QED
      BY <3>1, <3>3, <3>4, <3>5
  <2>2. CASE \A s \in from : req[s] # r
    <3>1. out'[r] = out[r]
      BY <1>5, <1>9, <2>2
    <3>2. r \notin InSlots
      <4>1. \A s \in Lanes : active[s] # 0 => s \in from
        BY <1>5, <1>7
      <4> QED
        BY <2>2, <4>1 DEF InSlots
    <3>3. Len(out[r]) = Owed(r)
      BY <1>1, <1>5, <1>12, <1>18, <3>2 DEF SchedInv
    <3>4. Owed(r)' = Owed(r)
      BY <1>1, <1>5, <3>1, OwedSched
    <3> QED
      BY <3>1, <3>3, <3>4
  <2> QED
    BY <2>1, <2>2
<1>19. ASSUME NEW r \in Reqs, r >= qhead' PROVE out'[r] = <<>>
  <2>1. \A s \in from : req[s] < qhead /\ req[s] \in Nat
    BY <1>5, <1>7, LanesFit DEF SlotsOwn, SlotTypes, Reqs
  <2>2. \A s \in from : req[s] # r
    BY <1>1, <1>19, <2>1, <1>5 DEF SchedInv, Reqs
  <2>3. out'[r] = out[r]
    BY <1>5, <1>9, <2>2
  <2> QED
    BY <1>1, <1>5, <1>19, <2>3 DEF SchedInv
<1>20. /\ pos' = -1 /\ hist' = <<>> /\ rep' \in Nat /\ qhead' \in 0 .. R
       /\ scan' \in 0 .. B /\ fed' \in 0 .. MaxSeq
       /\ pc' \in {"loop", "done"} \union
          (IF job'.mode = "cbatch" THEN {"admit", "chunk", "decode"} ELSE {"mixed"})
       /\ pc' # "chunk"
  BY <1>1, <1>5 DEF SchedInv
<1>21. SchedInv'
  BY <1>11, <1>14, <1>15, <1>16, <1>17, <1>18, <1>19, <1>20 DEF SchedInv
<1> QED
  BY <1>1, <1>6, <1>9, <1>10, <1>21, SchedAfter

\* mixed: the requests that join.
Joined == {s \in Lanes : Joins(s)}
FreeBelow(s) == {u \in Lanes : u < s /\ active[u] = 0}
Below(S, s) == {u \in S : u < s}

LEMMA JoinedBelow ==
    ASSUME qhead \in Nat, NEW s \in Joined
    PROVE  FreeBelow(s) = Below(Joined, s) /\ Rank(s) = Cardinality(Below(Joined, s))
<1>1. Lanes \subseteq Nat /\ IsFiniteSet(Lanes) /\ R \in Nat
  BY LanesFit, FS_Interval DEF Lanes
<1>2. \A u : Rank(u) = Cardinality(FreeBelow(u))
  BY DEF Rank, FreeBelow
<1>3. s \in Lanes /\ active[s] = 0 /\ qhead + Rank(s) < R
  BY DEF Joined, Joins
<1>4. ASSUME NEW u \in FreeBelow(s) PROVE u \in Joined
  <2>1. u \in Lanes /\ u < s /\ active[u] = 0
    BY <1>4 DEF FreeBelow
  <2>2. FreeBelow(u) \subseteq FreeBelow(s)
    <3>1. ASSUME NEW v \in FreeBelow(u) PROVE v \in FreeBelow(s)
      <4>1. v \in Lanes /\ v < u /\ active[v] = 0
        BY <3>1 DEF FreeBelow
      <4>2. v \in Nat /\ u \in Nat /\ s \in Nat
        BY <1>1, <1>3, <2>1, <4>1
      <4>3. v < s
        BY <2>1, <4>1, <4>2
      <4> QED
        BY <4>1, <4>3 DEF FreeBelow
    <3> QED
      BY <3>1
  <2>3. IsFiniteSet(FreeBelow(s))
    BY <1>1, FS_Subset DEF FreeBelow
  <2>4. IsFiniteSet(FreeBelow(u)) /\ Cardinality(FreeBelow(u)) <= Cardinality(FreeBelow(s))
    BY <2>2, <2>3, FS_Subset
  <2>5. Cardinality(FreeBelow(u)) \in Nat /\ Cardinality(FreeBelow(s)) \in Nat
    BY <2>3, <2>4, FS_CardinalityType
  <2>6. qhead + Rank(u) < R
    BY <1>1, <1>2, <1>3, <2>4, <2>5
  <2> QED
    BY <2>1, <2>6 DEF Joined, Joins
<1>5. FreeBelow(s) = Below(Joined, s)
  <2>1. \A u \in Joined : u \in Lanes /\ active[u] = 0
    BY DEF Joined, Joins
  <2>2. \A u \in FreeBelow(s) : u \in Joined /\ u < s
    BY <1>4 DEF FreeBelow
  <2>3. \A u : u \in Below(Joined, s) <=> u \in Joined /\ u < s
    BY DEF Below
  <2>4. \A u : u \in FreeBelow(s) <=> u \in Lanes /\ u < s /\ active[u] = 0
    BY DEF FreeBelow
  <2> HIDE DEF FreeBelow, Below, Joined
  <2>5. \A u : u \in FreeBelow(s) <=> u \in Below(Joined, s)
    BY <2>1, <2>2, <2>3, <2>4
  <2> QED
    BY <2>5
<1> QED
  BY <1>2, <1>5

\* They are the next requests, one for each slot.
LEMMA Joining ==
    ASSUME IInv, job.mode \in SchedModes
    PROVE  /\ Joined \subseteq Lanes /\ Cardinality(Joined) \in Nat
           /\ qhead \in Nat /\ qhead + Cardinality(Joined) \in 0 .. R
           /\ \A s \in Joined : /\ active[s] = 0 /\ ReqAfter[s] = qhead + Rank(s)
                                /\ Rank(s) \in Nat /\ Rank(s) < Cardinality(Joined)
                                /\ ReqAfter[s] \in Reqs
           /\ \A s, u \in Joined : ReqAfter[s] = ReqAfter[u] => s = u
           /\ \A r \in Reqs : qhead <= r /\ r < qhead + Cardinality(Joined) =>
                 \E s \in Joined : ReqAfter[s] = r
<1>1. Lanes \subseteq Nat /\ IsFiniteSet(Lanes) /\ R \in Nat
  BY LanesFit, FS_Interval DEF Lanes
<1>2. qhead \in 0 .. R /\ qhead \in Nat
  BY <1>1, SchedFacts DEF SchedInv
<1>3. PICK J : J = Joined
  OBVIOUS
<1>4. /\ J \subseteq Lanes
      /\ \A s \in J : active[s] = 0 /\ qhead + Rank(s) < R /\ ReqAfter[s] = qhead + Rank(s)
  BY <1>3 DEF Joined, Joins, ReqAfter
<1>5. J \subseteq Nat /\ IsFiniteSet(J)
  BY <1>1, <1>4, FS_Subset
<1>6. /\ Cardinality(J) \in Nat
      /\ \A s \in J : Cardinality(Below(J, s)) \in 0 .. Cardinality(J) - 1
      /\ \A s, t \in J : Cardinality(Below(J, s)) = Cardinality(Below(J, t)) => s = t
      /\ \A k \in 0 .. Cardinality(J) - 1 : \E s \in J : Cardinality(Below(J, s)) = k
  BY <1>5, Numbered DEF Below
<1>7. \A s \in J : Rank(s) = Cardinality(Below(J, s))
  BY <1>2, <1>3, JoinedBelow
<1>8. PICK n : n = Cardinality(J)
  OBVIOUS
<1>9. /\ n \in Nat
      /\ \A s \in J : Rank(s) \in 0 .. n - 1
      /\ \A s, t \in J : Rank(s) = Rank(t) => s = t
      /\ \A k \in 0 .. n - 1 : \E s \in J : Rank(s) = k
  BY <1>6, <1>7, <1>8
<1>10. qhead + n \in 0 .. R
  <2>1. CASE n = 0
    BY <1>2, <2>1
  <2>2. CASE n # 0
    <3>1. n - 1 \in 0 .. n - 1
      BY <1>9, <2>2
    <3>2. PICK s \in J : Rank(s) = n - 1
      BY <1>9, <3>1
    <3>3. qhead + (n - 1) < R
      BY <1>4, <3>2
    <3> QED
      BY <1>1, <1>2, <1>9, <3>3
  <2> QED
    BY <2>1, <2>2
<1>11. ASSUME NEW s \in J PROVE Rank(s) \in Nat /\ Rank(s) < n /\ ReqAfter[s] \in Reqs
  <2>1. Rank(s) \in Nat /\ Rank(s) < n
    BY <1>9
  <2>2. ReqAfter[s] = qhead + Rank(s) /\ qhead + Rank(s) < R
    BY <1>4
  <2> QED
    BY <2>1, <2>2, <1>1, <1>2 DEF Reqs
<1>12. ASSUME NEW s \in J, NEW u \in J, ReqAfter[s] = ReqAfter[u] PROVE s = u
  <2>1. qhead + Rank(s) = qhead + Rank(u) /\ Rank(s) \in Nat /\ Rank(u) \in Nat
    BY <1>4, <1>11, <1>12
  <2>2. Rank(s) = Rank(u)
    BY <2>1, <1>2
  <2> QED
    BY <2>2, <1>9
<1>13. ASSUME NEW r \in Reqs, qhead <= r, r < qhead + n PROVE \E s \in J : ReqAfter[s] = r
  <2>1. r - qhead \in 0 .. n - 1
    BY <1>1, <1>2, <1>9, <1>13 DEF Reqs
  <2>2. PICK s \in J : Rank(s) = r - qhead
    BY <1>9, <2>1
  <2>3. ReqAfter[s] = qhead + (r - qhead)
    BY <1>4, <2>2
  <2> QED
    BY <2>3, <1>1, <1>2 DEF Reqs
<1> QED
  BY <1>2, <1>3, <1>4, <1>8, <1>9, <1>10, <1>11, <1>12, <1>13

LEMMA AfterJoining ==
    ASSUME IInv, job.mode = "mixed", pc = "mixed"
    PROVE  /\ ReqAfter \in [Lanes -> Reqs] /\ PrefAfter \in [Lanes -> 0 .. MaxSeq]
           /\ Occupied \in [Lanes -> 0 .. 2]
           /\ \A s \in Lanes : Occupied[s] # 0 => ReqAfter[s] < qhead + Cardinality(Joined)
           /\ \A s, u \in Lanes :
                 Occupied[s] # 0 /\ Occupied[u] # 0 /\ ReqAfter[s] = ReqAfter[u] => s = u
           /\ \A s \in Lanes : Occupied[s] = 1 <=> s \in Decoding(active)
           /\ \A s \in Lanes : Occupied[s] = 1 => ReqAfter[s] = req[s]
           /\ \A s \in Lanes : Occupied[s] = 2 =>
                 /\ out[ReqAfter[s]] = <<>> /\ PrefAfter[s] < job.plen[ReqAfter[s]]
                 /\ Holds(job.kind, lanes[s], SubSeq(job.prompt, 1, PrefAfter[s]))
           /\ \A r \in Reqs : /\ r < qhead + Cardinality(Joined)
                              /\ \A s \in Lanes : Occupied[s] # 0 => ReqAfter[s] # r
                              => Len(out[r]) = Owed(r)
           /\ InUse(Occupied) = InUse(active) \union Joined /\ Joined \cap InUse(active) = {}
<1> USE DEF SchedModes
<1>1. /\ job \in Jobs /\ SchedInv /\ SlotTypes /\ SlotsOwn /\ active \in [Lanes -> 0 .. 2]
  BY SchedFacts DEF SchedInv, SlotTypes
<1>2. PICK J, n : J = Joined /\ n = Cardinality(Joined)
  OBVIOUS
<1>3. /\ J \subseteq Lanes /\ n \in Nat /\ qhead \in Nat /\ qhead + n \in 0 .. R
      /\ \A s \in J : /\ active[s] = 0 /\ ReqAfter[s] = qhead + Rank(s)
                      /\ Rank(s) \in Nat /\ Rank(s) < n /\ ReqAfter[s] \in Reqs
      /\ \A s, u \in J : ReqAfter[s] = ReqAfter[u] => s = u
      /\ \A r \in Reqs : qhead <= r /\ r < qhead + n => \E s \in J : ReqAfter[s] = r
  BY <1>2, Joining
<1>4. /\ \A s \in Lanes : s \in J <=> Joins(s)
      /\ Reqs \subseteq Nat
  BY <1>2, LanesFit DEF Joined, Reqs
<1>5. /\ \A s \in Lanes : s \in J => Occupied[s] = 2 /\ PrefAfter[s] = 0
      /\ \A s \in Lanes : s \notin J => /\ Occupied[s] = active[s] /\ PrefAfter[s] = pref[s]
                                        /\ ReqAfter[s] = req[s]
      /\ DOMAIN Occupied = Lanes /\ DOMAIN ReqAfter = Lanes /\ DOMAIN PrefAfter = Lanes
  BY <1>4 DEF Occupied, PrefAfter, ReqAfter
<1>6. ReqAfter \in [Lanes -> Reqs]
  <2>1. \A s \in Lanes : ReqAfter[s] \in Reqs
    BY <1>1, <1>3, <1>5 DEF SlotTypes
  <2> QED
    BY <2>1 DEF ReqAfter
<1>7. PrefAfter \in [Lanes -> 0 .. MaxSeq]
  <2>1. \A s \in Lanes : PrefAfter[s] \in 0 .. MaxSeq
    BY <1>1, <1>5, Sizes DEF SlotTypes
  <2> QED
    BY <2>1 DEF PrefAfter
<1>8. Occupied \in [Lanes -> 0 .. 2]
  <2>1. \A s \in Lanes : Occupied[s] \in 0 .. 2
    BY <1>1, <1>5
  <2> QED
    BY <2>1 DEF Occupied
<1>9. Admitting = {}
  BY DEF Admitting
<1>10. ASSUME NEW s \in Lanes, Occupied[s] # 0 PROVE ReqAfter[s] < qhead + n
  <2>1. CASE s \in J
    BY <1>3, <2>1
  <2>2. CASE s \notin J
    <3>1. ReqAfter[s] = req[s] /\ req[s] < qhead /\ req[s] \in Nat
      BY <1>1, <1>4, <1>5, <1>10, <2>2 DEF SlotsOwn, SlotTypes
    <3> QED
      BY <3>1, <1>3
  <2> QED
    BY <2>1, <2>2
<1>11. ASSUME NEW s \in Lanes, NEW u \in Lanes, Occupied[s] # 0, Occupied[u] # 0,
              ReqAfter[s] = ReqAfter[u]
       PROVE  s = u
  <2>1. ASSUME NEW v \in Lanes, Occupied[v] # 0, v \notin J
        PROVE  ReqAfter[v] = req[v] /\ req[v] < qhead /\ active[v] # 0 /\ req[v] \in Nat
    BY <1>1, <1>4, <1>5, <2>1 DEF SlotsOwn, SlotTypes
  <2>2. ASSUME NEW v \in J PROVE ~ (ReqAfter[v] < qhead)
    BY <1>3
  <2>3. s \in J <=> u \in J
    BY <1>11, <2>1, <2>2
  <2>4. CASE s \in J
    BY <1>3, <1>11, <2>3, <2>4
  <2>5. CASE s \notin J
    BY <1>1, <1>11, <2>1, <2>3, <2>5 DEF SlotsOwn
  <2> QED
    BY <2>4, <2>5
<1>12. \A s \in Lanes : Occupied[s] = 1 <=> s \in Decoding(active)
  BY <1>3, <1>5 DEF Decoding
<1>13. \A s \in Lanes : Occupied[s] = 1 => ReqAfter[s] = req[s]
  BY <1>5
<1>14. ASSUME NEW s \in Lanes, Occupied[s] = 2
       PROVE  /\ out[ReqAfter[s]] = <<>> /\ PrefAfter[s] < job.plen[ReqAfter[s]]
              /\ Holds(job.kind, lanes[s], SubSeq(job.prompt, 1, PrefAfter[s]))
  <2>1. CASE s \in J
    <3>1. PICK r : r = ReqAfter[s]
      OBVIOUS
    <3>2. r \in Reqs /\ r >= qhead /\ PrefAfter[s] = 0
      <4>1. r = qhead + Rank(s) /\ Rank(s) \in Nat /\ r \in Reqs
        BY <1>3, <2>1, <3>1
      <4> QED
        BY <4>1, <1>3, <1>5, <2>1
    <3>3. out[r] = <<>>
      BY <1>1, <3>2 DEF SchedInv
    <3>4. 0 < job.plen[r]
      BY <1>1, <3>2, Limits
    <3>5. SubSeq(job.prompt, 1, 0) = <<>>
      BY <1>1, JobTypes DEF Rows
    <3> QED
      BY <3>1, <3>2, <3>3, <3>4, <3>5, EmptyHolds
  <2>2. CASE s \notin J
    <3>1. Prefills(s) /\ ReqAfter[s] = req[s] /\ PrefAfter[s] = pref[s]
      BY <1>1, <1>5, <1>14, <2>2 DEF SchedInv
    <3> QED
      BY <3>1 DEF Prefills, Keeps
  <2> QED
    BY <2>1, <2>2
<1>15. ASSUME NEW r \in Reqs, r < qhead + n, \A s \in Lanes : Occupied[s] # 0 => ReqAfter[s] # r
       PROVE  Len(out[r]) = Owed(r)
  <2>1. r < qhead
    <3>1. ~ (qhead <= r)
      BY <1>3, <1>5, <1>15
    <3> QED
      BY <3>1, <1>3, <1>4
  <2>2. r \notin InSlots
    <3>1. \A s \in Lanes : active[s] # 0 => s \notin J
      BY <1>3
    <3> QED
      BY <3>1, <1>5, <1>15 DEF InSlots
  <2> QED
    BY <2>1, <2>2, <1>1, <1>9 DEF SchedInv
<1>16. InUse(Occupied) = InUse(active) \union J /\ J \cap InUse(active) = {}
  BY <1>3, <1>5 DEF InUse
<1> QED
  BY <1>2, <1>6, <1>7, <1>8, <1>10, <1>11, <1>12, <1>13, <1>14, <1>15, <1>16

\* A function that is defined step by step.
StepByStep(n, F, x, f) == f = [s \in 0 .. n |-> IF s = 0 THEN x ELSE F[s - 1][f[s - 1]]]

LEMMA Recursion ==
    ASSUME NEW n \in Nat, NEW X, NEW F \in [0 .. n - 1 -> [X -> X]], NEW x \in X
    PROVE  \E f : StepByStep(n, F, x, f) /\ f \in [0 .. n -> X]
<1> DEFINE G == {k \in Nat : k <= n => \E f : StepByStep(k, F, x, f) /\ f \in [0 .. k -> X]}
<1>1. 0 \in G
  <2> DEFINE f == [s \in 0 .. 0 |-> x]
  <2>1. StepByStep(0, F, x, f) /\ f \in [0 .. 0 -> X]
    BY DEF StepByStep
  <2> QED
    BY <2>1
<1>2. ASSUME NEW k \in Nat, k \in G PROVE k + 1 \in G
  <2> SUFFICES ASSUME k + 1 <= n PROVE \E f : StepByStep(k + 1, F, x, f) /\ f \in [0 .. k + 1 -> X]
    OBVIOUS
  <2>1. PICK f : StepByStep(k, F, x, f) /\ f \in [0 .. k -> X]
    BY <1>2
  <2> DEFINE g == [i \in 0 .. k + 1 |-> IF i = k + 1 THEN F[k][f[k]] ELSE f[i]]
  <2>2. \A i \in 0 .. k : f[i] = IF i = 0 THEN x ELSE F[i - 1][f[i - 1]]
    BY <2>1 DEF StepByStep
  <2>3. F[k] \in [X -> X] /\ f[k] \in X
    BY <2>1
  <2>4. ASSUME NEW i \in 0 .. k + 1
        PROVE  g[i] = (IF i = 0 THEN x ELSE F[i - 1][g[i - 1]]) /\ g[i] \in X
    <3>1. CASE i = k + 1
      <4>1. i # 0 /\ i - 1 = k /\ k \in 0 .. k + 1 /\ k # k + 1
        BY <3>1
      <4>2. g[k] = f[k] /\ g[i] = F[k][f[k]]
        BY <3>1, <4>1
      <4> QED
        BY <3>1, <4>1, <4>2, <2>3
    <3>2. CASE i \in 0 .. k
      <4>1. i # k + 1 /\ g[i] = f[i] /\ f[i] \in X
        BY <3>2, <2>1
      <4>2. CASE i = 0
        BY <4>1, <4>2, <2>2
      <4>3. CASE i # 0
        <5>1. i - 1 \in 0 .. k + 1 /\ i - 1 # k + 1 /\ i - 1 \in 0 .. k
          BY <3>2, <4>3
        <5>2. g[i - 1] = f[i - 1]
          BY <5>1
        <5> QED
          BY <4>1, <4>3, <5>2, <2>2, <3>2
      <4> QED
        BY <4>2, <4>3
    <3> QED
      BY <3>1, <3>2
  <2>5. StepByStep(k + 1, F, x, g) /\ g \in [0 .. k + 1 -> X]
    <3>1. g = [i \in 0 .. k + 1 |-> g[i]]
      OBVIOUS
    <3> HIDE DEF g
    <3> QED
      BY <2>4, <3>1 DEF StepByStep
  <2> HIDE DEF g
  <2> QED
    BY <2>5
<1> HIDE DEF G
<1>3. n \in G
  BY <1>1, <1>2, Induction
<1> QED
  BY <1>3 DEF G

\* What is left of a budget before each slot.
Rests(budget, rest) ==
    rest = [s \in 0 .. B |-> IF s = 0 THEN budget ELSE rest[s - 1] - Lesser(Left(s - 1), rest[s - 1])]

LEMMA SharesSpent ==
    ASSUME NEW budget \in Nat, \A s \in Lanes : Left(s) \in Nat
    PROVE  \E rest \in [0 .. B -> Nat] :
              /\ rest[0] = budget
              /\ \A s \in Lanes : /\ Shares(budget)[s] \in Nat /\ Shares(budget)[s] <= Left(s)
                                  /\ Shares(budget)[s] <= budget
                                  /\ rest[s + 1] = rest[s] - Shares(budget)[s]
<1>1. B \in Nat /\ B # 0 /\ \A s \in Lanes : s \in Nat /\ s + 1 \in 0 .. B /\ s \in 0 .. B
  BY LanesFit DEF Lanes
<1>2. \A s \in 0 .. B - 1 : s \in Lanes
  BY DEF Lanes
<1> DEFINE X == 0 .. budget
           F == [s \in 0 .. B - 1 |-> [x \in X |-> x - Lesser(Left(s), x)]]
<1>3. ASSUME NEW n \in Nat, NEW x \in X
      PROVE  /\ Lesser(n, x) \in Nat /\ Lesser(n, x) <= n /\ Lesser(n, x) <= x
             /\ Lesser(n, x) <= budget /\ x - Lesser(n, x) \in X
  BY DEF Lesser
<1>4. F \in [0 .. B - 1 -> [X -> X]] /\ budget \in X
  <2>1. ASSUME NEW s \in 0 .. B - 1, NEW x \in X PROVE x - Lesser(Left(s), x) \in X
    BY <1>2, <1>3
  <2> QED
    BY <2>1
<1> HIDE DEF X
<1>5. PICK f : StepByStep(B, F, budget, f) /\ f \in [0 .. B -> X]
  <2> HIDE DEF F
  <2> QED
    BY <1>1, <1>4, Recursion
<1>6. Rests(budget, f)
  <2>1. ASSUME NEW s \in 0 .. B, s # 0 PROVE F[s - 1][f[s - 1]] = f[s - 1] - Lesser(Left(s - 1), f[s - 1])
    <3>1. s - 1 \in 0 .. B - 1 /\ s - 1 \in 0 .. B
      BY <1>1, <2>1
    <3>2. f[s - 1] \in X
      BY <1>5, <3>1
    <3> QED
      BY <3>1, <3>2
  <2>2. f = [s \in 0 .. B |-> IF s = 0 THEN budget ELSE F[s - 1][f[s - 1]]]
    BY <1>5 DEF StepByStep
  <2>3. \A s \in 0 .. B : f[s] = IF s = 0 THEN budget
                                 ELSE f[s - 1] - Lesser(Left(s - 1), f[s - 1])
    <3> HIDE DEF F
    <3>1. \A s \in 0 .. B : f[s] = IF s = 0 THEN budget ELSE F[s - 1][f[s - 1]]
      BY <2>2
    <3> QED
      BY <2>1, <3>1
  <2>4. f = [s \in 0 .. B |-> f[s]]
    BY <1>5
  <2> HIDE DEF F
  <2> QED
    BY <2>3, <2>4 DEF Rests
<1> DEFINE rest == CHOOSE g : Rests(budget, g)
<1>7. Rests(budget, rest)
  BY <1>6
<1>8. Shares(budget) = [s \in Lanes |-> Lesser(Left(s), rest[s])]
  BY DEF Shares, Rests
<1> HIDE DEF rest, F
<1>9. rest[0] = budget /\ \A s \in Lanes : rest[s + 1] = rest[s] - Lesser(Left(s), rest[s])
  <2>1. \A s \in 0 .. B : rest[s] = IF s = 0 THEN budget
                                    ELSE rest[s - 1] - Lesser(Left(s - 1), rest[s - 1])
    BY <1>7 DEF Rests
  <2>2. 0 \in 0 .. B
    BY <1>1
  <2>3. ASSUME NEW s \in Lanes PROVE rest[s + 1] = rest[s] - Lesser(Left(s), rest[s])
    <3>1. PICK k : k = s + 1
      OBVIOUS
    <3>2. k \in 0 .. B /\ k # 0 /\ k - 1 = s
      BY <1>1, <3>1
    <3>3. rest[k] = rest[k - 1] - Lesser(Left(k - 1), rest[k - 1])
      BY <2>1, <3>2
    <3> QED
      BY <3>1, <3>2, <3>3
  <2> QED
    BY <2>1, <2>2, <2>3
<1> DEFINE G == {k \in Nat : k <= B => rest[k] \in X}
<1>10. 0 \in G
  BY <1>4, <1>9
<1>11. ASSUME NEW k \in Nat, k \in G PROVE k + 1 \in G
  <2> SUFFICES ASSUME k + 1 <= B PROVE rest[k + 1] \in X
    OBVIOUS
  <2>1. k \in Lanes /\ rest[k] \in X
    BY <1>1, <1>11 DEF Lanes
  <2>2. rest[k] - Lesser(Left(k), rest[k]) \in X
    BY <1>3, <2>1
  <2> QED
    BY <1>9, <2>1, <2>2
<1> HIDE DEF G
<1>12. Nat \subseteq G
  BY <1>10, <1>11, Induction
<1>13. \A k \in 0 .. B : rest[k] \in X
  BY <1>12 DEF G
<1>14. rest \in [0 .. B -> Nat]
  <2>1. rest = [s \in 0 .. B |-> rest[s]]
    BY <1>7 DEF Rests
  <2>2. \A k \in 0 .. B : rest[k] \in Nat
    BY <1>13 DEF X
  <2> QED
    BY <2>1, <2>2
<1>15. ASSUME NEW s \in Lanes
       PROVE  /\ Shares(budget)[s] \in Nat /\ Shares(budget)[s] <= Left(s)
              /\ Shares(budget)[s] <= budget /\ rest[s + 1] = rest[s] - Shares(budget)[s]
  <2>1. rest[s] \in X /\ Left(s) \in Nat
    BY <1>1, <1>13
  <2>2. Shares(budget)[s] = Lesser(Left(s), rest[s])
    BY <1>8
  <2> QED
    BY <1>3, <1>9, <2>1, <2>2
<1> QED
  BY <1>9, <1>14, <1>15

\* The columns of one slot, and those up to a slot.
PromptPart(share, s) ==
    [i \in 1 .. share[s] |-> Column(s, PrefAfter[s] + i - 1, job.prompt[PrefAfter[s] + i])]
UpTo(share, upto) ==
    upto = [s \in 0 .. B |-> IF s = 0 THEN <<>> ELSE upto[s - 1] \o PromptPart(share, s - 1)]

\* The prompt columns of a step.
PromptRuns(share, lo, hi, T) ==
    /\ LaneSet = Lanes /\ share \in [Lanes -> Nat]
    /\ lo \in [LaneSet -> Nat] /\ hi \in [LaneSet -> Nat] /\ T \in [LaneSet -> Rows]
    /\ \A s \in Lanes : /\ hi[s] = lo[s] + share[s]
                        /\ share[s] # 0 => /\ lo[s] = PrefAfter[s] /\ T[s] = job.prompt
                                           /\ hi[s] <= MaxSeq /\ hi[s] <= Len(job.prompt)

\* Only the part of one slot.
OnlyPart(s, lo, hi, lo1, hi1) ==
    /\ lo1 \in [LaneSet -> Nat] /\ hi1 \in [LaneSet -> Nat]
    /\ lo1[s] = lo[s] /\ hi1[s] = hi[s]
    /\ \A l \in LaneSet : l # s => hi1[l] = lo1[l]

LEMMA PromptPartFeeds ==
    ASSUME NEW share, NEW lo, NEW hi, NEW T, PromptRuns(share, lo, hi, T), NEW s \in Lanes,
           NEW lo1, NEW hi1, OnlyPart(s, lo, hi, lo1, hi1)
    PROVE  /\ Feeds(PromptPart(share, s), lo1, hi1, T) /\ Len(PromptPart(share, s)) = share[s]
<1>1. PICK n, p : n = share[s] /\ p = PrefAfter[s]
  OBVIOUS
<1>2. /\ n \in Nat /\ s \in LaneSet /\ hi[s] = lo[s] + n /\ lo[s] \in Nat /\ T \in [LaneSet -> Rows]
      /\ n # 0 => /\ lo[s] = p /\ T[s] = job.prompt /\ hi[s] <= MaxSeq /\ hi[s] <= Len(job.prompt)
  BY <1>1 DEF PromptRuns
<1> USE DEF OnlyPart
<1>3. PromptPart(share, s) = [i \in 1 .. n |-> Column(s, p + i - 1, job.prompt[p + i])]
  BY <1>1 DEF PromptPart
<1>4. CASE n = 0
  <2>1. PromptPart(share, s) = <<>>
    BY <1>3, <1>4
  <2>2. \A l \in LaneSet : hi1[l] = lo1[l]
    BY <1>2, <1>4
  <2>3. hi1 = lo1
    BY <2>2
  <2>4. Feeds(<<>>, lo1, lo1, T)
    BY FeedsNone
  <2> QED
    BY <1>1, <1>4, <2>1, <2>3, <2>4
<1>5. CASE n # 0
  <2>1. /\ PromptPart(share, s) = [i \in 1 .. n |-> Column(s, p + i - 1, T[s][p + i])]
        /\ p \in Nat /\ p + n <= MaxSeq /\ p + n <= Len(T[s]) /\ lo1[s] = p /\ hi1[s] = p + n
    BY <1>2, <1>3, <1>5
  <2>2. Consecutive(n, s, p, PromptPart(share, s), lo1, hi1, T)
    BY <1>2, <2>1 DEF Consecutive
  <2> QED
    BY <1>1, <2>2, FeedsRun
<1> QED
  BY <1>4, <1>5

\* One run of columns after another.
Rises(lo, mid, hi) ==
    /\ lo \in [LaneSet -> Nat] /\ mid \in [LaneSet -> Nat] /\ hi \in [LaneSet -> Nat]
    /\ \A l \in LaneSet : lo[l] <= mid[l] /\ mid[l] <= hi[l]

LEMMA FeedsInTurn ==
    ASSUME NEW lo, NEW mid, NEW hi, Rises(lo, mid, hi), NEW T, NEW xs, NEW ys,
           Feeds(xs, lo, mid, T), Feeds(ys, mid, hi, T)
    PROVE  Feeds(xs \o ys, lo, hi, T) /\ Len(xs \o ys) = Len(xs) + Len(ys)
<1>1. /\ lo \in [LaneSet -> Nat] /\ mid \in [LaneSet -> Nat] /\ hi \in [LaneSet -> Nat]
      /\ \A l \in LaneSet : lo[l] <= mid[l] /\ mid[l] <= hi[l]
  BY DEF Rises
<1> QED
  BY <1>1, FeedsBoth

LEMMA PromptColumnsFeed ==
    ASSUME NEW share, NEW lo, NEW hi, NEW T, PromptRuns(share, lo, hi, T),
           NEW rest \in [0 .. B -> Nat],
           \A s \in Lanes : rest[s + 1] = rest[s] - share[s]
    PROVE  /\ Feeds(PromptColumns(share), lo, hi, T)
           /\ Len(PromptColumns(share)) \in Nat /\ Len(PromptColumns(share)) <= rest[0]
<1>1. B \in Nat /\ B # 0 /\ \A s \in 0 .. B - 1 : s \in Lanes
  BY LanesFit DEF Lanes
<1>2. /\ LaneSet = Lanes /\ share \in [Lanes -> Nat]
      /\ lo \in [LaneSet -> Nat] /\ hi \in [LaneSet -> Nat] /\ T \in [LaneSet -> Rows]
      /\ \A s \in Lanes : hi[s] = lo[s] + share[s]
  BY DEF PromptRuns
<1> DEFINE mid(k) == [l \in LaneSet |-> IF l < k THEN hi[l] ELSE lo[l]]
           X == Seq(Columns)
           F == [s \in 0 .. B - 1 |-> [xs \in X |-> xs \o PromptPart(share, s)]]
<1>3. ASSUME NEW s \in Lanes PROVE PromptPart(share, s) \in X /\ Len(PromptPart(share, s)) = share[s]
  <2> DEFINE hi1 == [l \in LaneSet |-> IF l = s THEN hi[l] ELSE lo[l]]
  <2>1. hi1 \in [LaneSet -> Nat] /\ hi1[s] = hi[s] /\ \A l \in LaneSet : l # s => hi1[l] = lo[l]
    BY <1>2
  <2> HIDE DEF hi1
  <2>3. OnlyPart(s, lo, hi, lo, hi1)
    BY <1>2, <2>1 DEF OnlyPart
  <2>2. Feeds(PromptPart(share, s), lo, hi1, T) /\ Len(PromptPart(share, s)) = share[s]
    BY <2>3, PromptPartFeeds
  <2> QED
    BY <2>2 DEF Feeds
<1>4. <<>> \in X /\ F \in [0 .. B - 1 -> [X -> X]]
  <2>1. ASSUME NEW s \in 0 .. B - 1, NEW xs \in X PROVE xs \o PromptPart(share, s) \in X
    BY <1>1, <1>3
  <2> QED
    BY <2>1
<1>5. PICK f : StepByStep(B, F, <<>>, f) /\ f \in [0 .. B -> X]
  <2> HIDE DEF F, X
  <2> QED
    BY <1>1, <1>4, Recursion
<1>6. UpTo(share, f)
  <2> HIDE DEF X
  <2>1. ASSUME NEW s \in 0 .. B, s # 0 PROVE F[s - 1][f[s - 1]] = f[s - 1] \o PromptPart(share, s - 1)
    <3>1. s - 1 \in 0 .. B - 1 /\ s - 1 \in 0 .. B
      BY <1>1, <2>1
    <3>2. f[s - 1] \in X
      BY <1>5, <3>1
    <3> QED
      BY <3>1, <3>2
  <2>2. f = [s \in 0 .. B |-> IF s = 0 THEN <<>> ELSE F[s - 1][f[s - 1]]]
    BY <1>5 DEF StepByStep
  <2> HIDE DEF F
  <2>3. \A s \in 0 .. B : f[s] = IF s = 0 THEN <<>> ELSE f[s - 1] \o PromptPart(share, s - 1)
    <3>1. \A s \in 0 .. B : f[s] = IF s = 0 THEN <<>> ELSE F[s - 1][f[s - 1]]
      BY <2>2
    <3> QED
      BY <2>1, <3>1
  <2>4. f = [s \in 0 .. B |-> f[s]]
    BY <1>5
  <2> QED
    BY <2>3, <2>4 DEF UpTo
<1> DEFINE upto == CHOOSE g : UpTo(share, g)
<1>7. UpTo(share, upto)
  BY <1>6
<1>8. PromptColumns(share) = upto[B]
  BY DEF PromptColumns, UpTo, PromptPart
<1> HIDE DEF upto, F
<1>9. \A s \in 0 .. B : upto[s] = IF s = 0 THEN <<>> ELSE upto[s - 1] \o PromptPart(share, s - 1)
  BY <1>7 DEF UpTo
<1>10. \A k : mid(k) \in [LaneSet -> Nat]
  BY <1>2
<1> DEFINE Good(k) == /\ Feeds(upto[k], lo, mid(k), T)
                      /\ Len(upto[k]) \in Nat /\ Len(upto[k]) + rest[k] = rest[0]
           G == {k \in Nat : k <= B => Good(k)}
<1>11. 0 \in G
  <2>1. upto[0] = <<>>
    BY <1>1, <1>9
  <2>2. mid(0) = lo
    BY <1>2, LanesFit
  <2>3. Feeds(<<>>, lo, lo, T)
    BY <1>2, FeedsNone
  <2>4. rest[0] \in Nat /\ Len(<<>>) = 0
    BY <1>1
  <2> QED
    BY <2>1, <2>2, <2>3, <2>4
<1>12. ASSUME NEW k \in Nat, k \in G PROVE k + 1 \in G
  <2> SUFFICES ASSUME k + 1 <= B PROVE Good(k + 1)
    OBVIOUS
  <2>1. k \in Lanes /\ Good(k) /\ k \in LaneSet
    BY <1>1, <1>2, <1>12
  <2>2. upto[k + 1] = upto[k] \o PromptPart(share, k)
    <3>1. PICK m : m = k + 1
      OBVIOUS
    <3>2. m \in 0 .. B /\ m # 0 /\ m - 1 = k
      BY <1>1, <3>1
    <3>3. upto[m] = upto[m - 1] \o PromptPart(share, m - 1)
      BY <1>9, <3>2
    <3> QED
      BY <3>1, <3>2, <3>3
  <2>3. PICK m1, m2 : m1 = mid(k) /\ m2 = mid(k + 1)
    OBVIOUS
  <2>4. /\ m1 \in [LaneSet -> Nat] /\ m2 \in [LaneSet -> Nat]
        /\ m1[k] = lo[k] /\ m2[k] = hi[k]
    <3>1. ~ (k < k) /\ k < k + 1
      OBVIOUS
    <3>2. m1 \in [LaneSet -> Nat] /\ m2 \in [LaneSet -> Nat]
      <4> HIDE DEF mid
      <4> QED
        BY <1>10, <2>3
    <3> QED
      BY <2>1, <2>3, <3>1, <3>2
  <2>5. \A l \in LaneSet : l # k => m2[l] = m1[l]
    <3>1. \A l \in LaneSet : l # k => (l < k + 1 <=> l < k)
      BY LanesFit
    <3> QED
      BY <2>3, <3>1
  <2>6. Feeds(PromptPart(share, k), m1, m2, T) /\ Len(PromptPart(share, k)) = share[k]
    <3>1. OnlyPart(k, lo, hi, m1, m2)
      BY <2>4, <2>5 DEF OnlyPart
    <3> QED
      BY <2>1, <3>1, PromptPartFeeds
  <2>7. \A l \in LaneSet : lo[l] <= m1[l] /\ m1[l] <= m2[l]
    <3>1. \A l \in LaneSet : lo[l] <= hi[l] /\ lo[l] <= lo[l] /\ hi[l] <= hi[l]
      BY <1>2
    <3>2. \A l \in LaneSet : lo[l] <= m1[l]
      BY <2>3, <3>1
    <3>3. ASSUME NEW l \in LaneSet PROVE m1[l] <= m2[l]
      <4>1. CASE l = k
        BY <2>4, <3>1, <4>1
      <4>2. CASE l # k
        <5>1. m1[l] \in Nat /\ m2[l] = m1[l]
          BY <2>4, <2>5, <4>2
        <5> QED
          BY <5>1
      <4> QED
        BY <4>1, <4>2
    <3> QED
      BY <3>2, <3>3
  <2>8. Feeds(upto[k], lo, m1, T)
    BY <2>1, <2>3
  <2>9. /\ Feeds(upto[k] \o PromptPart(share, k), lo, m2, T)
        /\ Len(upto[k] \o PromptPart(share, k)) = Len(upto[k]) + Len(PromptPart(share, k))
    <3>1. Rises(lo, m1, m2)
      BY <1>2, <2>4, <2>7 DEF Rises
    <3> QED
      BY <2>6, <2>8, <3>1, FeedsInTurn
  <2>10. Len(upto[k + 1]) \in Nat /\ Len(upto[k + 1]) + rest[k + 1] = rest[0]
    <3>1. PICK a, b, c, d : a = Len(upto[k]) /\ b = share[k] /\ c = rest[k] /\ d = rest[0]
      OBVIOUS
    <3>2. a \in Nat /\ b \in Nat /\ c \in Nat /\ a + c = d
      BY <1>1, <1>2, <2>1, <3>1
    <3>3. Len(upto[k + 1]) = a + b /\ rest[k + 1] = c - b
      BY <2>1, <2>2, <2>6, <2>9, <3>1
    <3>4. a + b \in Nat /\ (a + b) + (c - b) = d
      BY <3>2
    <3> QED
      BY <3>1, <3>3, <3>4
  <2>11. Feeds(upto[k + 1], lo, mid(k + 1), T)
    BY <2>2, <2>3, <2>9
  <2> QED
    BY <2>10, <2>11
<1> HIDE DEF G
<1>13. Nat \subseteq G
  BY <1>11, <1>12, Induction
<1>14. Good(B)
  <2>1. B <= B
    BY <1>1
  <2> HIDE DEF Good
  <2> QED
    BY <1>1, <1>13, <2>1 DEF G
<1>15. mid(B) = hi
  <2>1. \A l \in LaneSet : l < B
    BY <1>1, <1>2 DEF Lanes
  <2> QED
    BY <1>2, <2>1
<1>16. Len(upto[B]) <= rest[0]
  <2>1. rest[B] \in Nat /\ rest[0] \in Nat
    BY <1>1
  <2> QED
    BY <1>14, <2>1
<1> QED
  BY <1>8, <1>14, <1>15, <1>16

\* How prompt columns are shared out.
MixedShares == Shares(Budget(Cardinality(Decoding(active))))

LEMMA SharesFit ==
    ASSUME IInv, job.mode = "mixed", pc = "mixed"
    PROVE  /\ MixedShares \in [Lanes -> Nat]
           /\ \A s \in Lanes :
                 /\ MixedShares[s] <= W + 2
                 /\ Occupied[s] # 2 => MixedShares[s] = 0
                 /\ Occupied[s] = 2 =>
                       /\ PrefAfter[s] \in Nat /\ job.plen[ReqAfter[s]] \in Nat
                       /\ PrefAfter[s] + MixedShares[s] <= job.plen[ReqAfter[s]]
                       /\ job.plen[ReqAfter[s]] <= Len(job.prompt)
                       /\ job.plen[ReqAfter[s]] < MaxSeq
           /\ \E rest \in [0 .. B -> Nat] :
                 /\ Cardinality(Decoding(active)) + rest[0] <= MostColumns
                 /\ \A s \in Lanes : rest[s + 1] = rest[s] - MixedShares[s]
<1> USE DEF SchedModes
<1>1. /\ job \in Jobs /\ MostColumns = Cap[job.kind] /\ MostColumns \in B .. W + 2
      /\ B \in Nat /\ W \in Nat /\ MaxSeq \in Nat
  BY SchedFacts, LanesFit, Sizes
<1>2. PICK n, c, b : /\ n = Cardinality(Decoding(active)) /\ c = Cap[job.kind] /\ b = Budget(n)
  OBVIOUS
<1>3. n \in Nat /\ n <= B
  <2>1. Decoding(active) \subseteq Lanes
    BY DEF Decoding
  <2> QED
    BY <1>2, <2>1, InOrder
<1>4. c \in Nat /\ n <= c /\ c <= W + 2
  BY <1>1, <1>2, <1>3
<1>5. job.pf \in Nat
  BY <1>1, DenseAssumption
<1>6. b \in Nat /\ n + b <= c /\ b <= W + 2
  <2>1. b = Lesser(job.pf, c - n)
    BY <1>2 DEF Budget
  <2> QED
    BY <2>1, <1>1, <1>3, <1>4, <1>5 DEF Lesser
<1>7. ASSUME NEW s \in Lanes, Occupied[s] = 2
      PROVE  /\ PrefAfter[s] \in Nat /\ job.plen[ReqAfter[s]] \in Nat
             /\ PrefAfter[s] < job.plen[ReqAfter[s]]
             /\ job.plen[ReqAfter[s]] <= Len(job.prompt)
             /\ job.plen[ReqAfter[s]] < MaxSeq
  <2>1. /\ ReqAfter[s] \in Reqs /\ PrefAfter[s] \in 0 .. MaxSeq
        /\ PrefAfter[s] < job.plen[ReqAfter[s]]
    BY <1>7, AfterJoining
  <2>2. PICK r : r = ReqAfter[s]
    OBVIOUS
  <2>3. /\ job.plen[r] \in Nat /\ job.plen[r] <= Len(job.prompt) /\ Limit(job, r) \in Nat
        /\ job.plen[r] + Limit(job, r) < MaxSeq
    BY <1>1, <2>1, <2>2, Limits
  <2>4. job.plen[r] < MaxSeq
    BY <2>3, <1>1
  <2> QED
    BY <1>1, <2>1, <2>2, <2>3, <2>4
<1>8. ASSUME NEW s \in Lanes PROVE Left(s) \in Nat
  <2>1. CASE Occupied[s] = 2
    BY <1>7, <2>1 DEF Left
  <2>2. CASE Occupied[s] # 2
    BY <2>2 DEF Left
  <2> QED
    BY <2>1, <2>2
<1>9. PICK rest \in [0 .. B -> Nat] :
              /\ rest[0] = b
              /\ \A s \in Lanes : /\ Shares(b)[s] \in Nat /\ Shares(b)[s] <= Left(s)
                                  /\ Shares(b)[s] <= b
                                  /\ rest[s + 1] = rest[s] - Shares(b)[s]
  BY <1>6, <1>8, SharesSpent
<1>10. MixedShares = Shares(b) /\ MixedShares = [s \in Lanes |-> Shares(b)[s]]
  <2>1. MixedShares = Shares(b)
    BY <1>2 DEF MixedShares
  <2>2. Shares(b) = [s \in Lanes |-> Shares(b)[s]]
    BY DEF Shares
  <2> QED
    BY <2>1, <2>2
<1>11. MixedShares \in [Lanes -> Nat]
  BY <1>9, <1>10
<1>12. ASSUME NEW s \in Lanes
       PROVE  /\ MixedShares[s] <= W + 2
              /\ Occupied[s] # 2 => MixedShares[s] = 0
              /\ Occupied[s] = 2 => PrefAfter[s] + MixedShares[s] <= job.plen[ReqAfter[s]]
  <2>1. PICK x, y : x = MixedShares[s] /\ y = Left(s)
    OBVIOUS
  <2>2. x \in Nat /\ y \in Nat /\ x <= y /\ x <= b
    BY <1>8, <1>9, <1>10, <2>1
  <2>3. x <= W + 2
    BY <2>2, <1>1, <1>6
  <2>4. Occupied[s] # 2 => x = 0
    BY <2>1, <2>2 DEF Left
  <2>5. Occupied[s] = 2 => PrefAfter[s] + x <= job.plen[ReqAfter[s]]
    <3>1. PICK p, q : p = PrefAfter[s] /\ q = job.plen[ReqAfter[s]]
      OBVIOUS
    <3>2. Occupied[s] = 2 => p \in Nat /\ q \in Nat /\ y = q - p
      BY <1>7, <2>1, <3>1 DEF Left
    <3> QED
      BY <2>2, <3>1, <3>2
  <2> QED
    BY <2>1, <2>3, <2>4, <2>5
<1>13. n + rest[0] <= MostColumns /\ \A s \in Lanes : rest[s + 1] = rest[s] - MixedShares[s]
  BY <1>1, <1>2, <1>6, <1>9, <1>10
<1> QED
  BY <1>2, <1>7, <1>11, <1>12, <1>13

MixedColumns == DecodeColumns(active) \o PromptColumns(MixedShares)

LEMMA MixedColumnsFeed ==
    ASSUME IInv, job.mode = "mixed", pc = "mixed", NEW lo, NEW mid, NEW hi, NEW T,
           DecodeRuns(lo, mid, T), PromptRuns(MixedShares, mid, hi, T), Rises(lo, mid, hi)
    PROVE  Feeds(MixedColumns, lo, hi, T) /\ Len(MixedColumns) <= MostColumns
<1>1. PICK n : n = Cardinality(Decoding(active))
  OBVIOUS
<1>2. /\ Feeds(DecodeColumns(active), lo, mid, T) /\ Len(DecodeColumns(active)) = n /\ n \in Nat
  BY <1>1, DecodeColumnsFeed DEF SchedModes
<1>3. PICK rest \in [0 .. B -> Nat] :
                 /\ n + rest[0] <= MostColumns
                 /\ \A s \in Lanes : rest[s + 1] = rest[s] - MixedShares[s]
  BY <1>1, SharesFit
<1>4. /\ Feeds(PromptColumns(MixedShares), mid, hi, T)
      /\ Len(PromptColumns(MixedShares)) \in Nat /\ Len(PromptColumns(MixedShares)) <= rest[0]
  BY <1>3, PromptColumnsFeed
<1>5. /\ Feeds(MixedColumns, lo, hi, T)
      /\ Len(MixedColumns) = Len(DecodeColumns(active)) + Len(PromptColumns(MixedShares))
  BY <1>2, <1>4, FeedsInTurn DEF MixedColumns
<1>6. PICK x, y, m : x = Len(PromptColumns(MixedShares)) /\ y = rest[0] /\ m = MostColumns
  OBVIOUS
<1>7. x \in Nat /\ y \in Nat /\ x <= y /\ n + y <= m /\ m \in Int /\ Len(MixedColumns) = n + x
  <2>1. 0 \in 0 .. B
    BY LanesFit
  <2>2. y \in Nat
    BY <1>6, <2>1
  <2>3. m \in Int
    BY <1>6, SchedFacts DEF SchedModes
  <2> QED
    BY <1>2, <1>3, <1>4, <1>5, <1>6, <2>2, <2>3
<1>8. n + x <= m
  BY <1>2, <1>7
<1> QED
  BY <1>5, <1>6, <1>7, <1>8

\* What a mixed step computes for a slot.
MixedSlot(s, cs) ==
    /\ s \in Decoding(active) =>
          /\ Holds(job.kind, lanes'[s], Text(req[s]))
          /\ TokenAt(cs, Written(cs), s, cbpos[s]) = Choice(job.model, Text(req[s]))
    /\ Occupied[s] = 2 =>
          /\ Holds(job.kind, lanes'[s], SubSeq(job.prompt, 1, PrefAfter[s] + MixedShares[s]))
          /\ MixedShares[s] # 0 =>
                TokenAt(cs, Written(cs), s, PrefAfter[s] + MixedShares[s] - 1) =
                   Choice(job.model, SubSeq(job.prompt, 1, PrefAfter[s] + MixedShares[s]))

LEMMA MixedFed ==
    ASSUME IInv, job.mode = "mixed", pc = "mixed", job' = job, logits' = logits,
           NEW cs, cs = MixedColumns, Compute(cs, Written(cs))
    PROVE  StepInv' /\ \A s \in Lanes : MixedSlot(s, cs)
<1> USE DEF SchedModes
<1>1. /\ job \in Jobs /\ StepInv /\ LaneSet = Lanes /\ \A l : LaneEnd(l) = MaxSeq
      /\ job.prompt \in Rows
  BY SchedFacts, JobTypes
<1>2. PICK S, sh, pre : S = Decoding(active) /\ sh = MixedShares /\ pre = PrefAfter
  OBVIOUS
<1> DEFINE T   == [l \in LaneSet |-> IF l \in S THEN Text(req[l])
                                     ELSE IF Occupied[l] = 2 THEN job.prompt ELSE <<>>]
           lo  == [l \in LaneSet |-> IF l \in S THEN cbpos[l]
                                     ELSE IF Occupied[l] = 2 THEN pre[l] ELSE 0]
           mid == [l \in LaneSet |-> IF l \in S THEN lo[l] + 1 ELSE lo[l]]
           hi  == [l \in LaneSet |-> mid[l] + sh[l]]
<1>3. ASSUME NEW s \in S
      PROVE  /\ s \in Lanes /\ s \in LaneSet /\ Text(req[s]) \in Rows
             /\ cbpos[s] \in Nat /\ Len(Text(req[s])) = cbpos[s] + 1 /\ cbpos[s] + 1 < MaxSeq
             /\ Holds(job.kind, lanes[s], SubSeq(Text(req[s]), 1, cbpos[s]))
             /\ Occupied[s] # 2
  <2>1. Occupied[s] = 1
    BY <1>2, <1>3, AfterJoining DEF Decoding
  <2> QED
    BY <1>1, <1>2, <1>3, <2>1, DecodingFacts
<1>4. ASSUME NEW s \in LaneSet, Occupied[s] = 2
      PROVE  /\ s \in Lanes /\ s \notin S /\ pre[s] \in Nat
             /\ pre[s] + sh[s] < MaxSeq /\ pre[s] + sh[s] <= Len(job.prompt)
             /\ Holds(job.kind, lanes[s], SubSeq(job.prompt, 1, pre[s]))
  <2>1. s \in Lanes
    BY <1>1
  <2>2. Holds(job.kind, lanes[s], SubSeq(job.prompt, 1, pre[s]))
    BY <1>2, <1>4, <2>1, AfterJoining
  <2>3. PICK n : n = job.plen[ReqAfter[s]]
    OBVIOUS
  <2>4. /\ pre[s] \in Nat /\ n \in Nat /\ pre[s] + sh[s] <= n /\ n <= Len(job.prompt)
        /\ n < MaxSeq /\ sh[s] \in Nat
    BY <1>2, <1>4, <2>1, <2>3, SharesFit
  <2>5. pre[s] + sh[s] < MaxSeq /\ pre[s] + sh[s] <= Len(job.prompt)
    <3>1. Len(job.prompt) \in Nat /\ MaxSeq \in Nat
      BY <1>1, JobTypes, Sizes
    <3> QED
      BY <2>4, <3>1
  <2> QED
    BY <1>3, <1>4, <2>1, <2>2, <2>4, <2>5
<1>5. sh \in [Lanes -> Nat] /\ \A s \in Lanes : sh[s] <= W + 2 /\ (Occupied[s] # 2 => sh[s] = 0)
  BY <1>2, SharesFit
<1>6. <<>> \in Rows /\ 0 \in Nat
  BY DEF Rows
<1>7. /\ T \in [LaneSet -> Rows] /\ lo \in [LaneSet -> Nat]
  BY <1>1, <1>3, <1>4, <1>6
<1>8. mid \in [LaneSet -> Nat] /\ hi \in [LaneSet -> Nat]
  <2> HIDE DEF lo, T
  <2>1. mid \in [LaneSet -> Nat]
    BY <1>7
  <2> HIDE DEF mid
  <2> QED
    BY <1>1, <1>5, <2>1
<1>9. /\ \A s \in S : /\ T[s] = Text(req[s]) /\ lo[s] = cbpos[s] /\ mid[s] = cbpos[s] + 1
                      /\ hi[s] = cbpos[s] + 1
      /\ \A s \in LaneSet : Occupied[s] = 2 =>
            /\ T[s] = job.prompt /\ lo[s] = pre[s] /\ mid[s] = pre[s] /\ hi[s] = pre[s] + sh[s]
      /\ \A s \in LaneSet : s \notin S /\ Occupied[s] # 2 => mid[s] = lo[s] /\ hi[s] = lo[s]
      /\ \A l \in LaneSet : mid[l] = IF l \in S THEN lo[l] + 1 ELSE lo[l]
      /\ \A l \in LaneSet : hi[l] = mid[l] + sh[l]
  <2>1. \A s \in S : s \in LaneSet /\ Occupied[s] # 2 /\ sh[s] = 0 /\ cbpos[s] \in Nat
    BY <1>3, <1>5
  <2>2. \A s \in LaneSet : Occupied[s] # 2 => sh[s] = 0
    BY <1>1, <1>5
  <2>3. \A s \in LaneSet : Occupied[s] = 2 => s \notin S
    BY <1>4
  <2>4. /\ \A l \in LaneSet : mid[l] = IF l \in S THEN lo[l] + 1 ELSE lo[l]
        /\ \A l \in LaneSet : hi[l] = mid[l] + sh[l]
    OBVIOUS
  <2>5. /\ \A s \in S : T[s] = Text(req[s]) /\ lo[s] = cbpos[s]
        /\ \A s \in LaneSet : Occupied[s] = 2 => T[s] = job.prompt /\ lo[s] = pre[s]
        /\ \A s \in LaneSet : lo[s] \in Nat /\ mid[s] \in Nat
    BY <1>7, <1>8, <2>1, <2>3
  <2> HIDE DEF T, lo, mid, hi
  <2>6. ASSUME NEW s \in S PROVE mid[s] = cbpos[s] + 1 /\ hi[s] = cbpos[s] + 1
    BY <2>1, <2>4, <2>5
  <2>7. ASSUME NEW s \in LaneSet, Occupied[s] = 2 PROVE mid[s] = pre[s] /\ hi[s] = pre[s] + sh[s]
    BY <2>3, <2>4, <2>5, <2>7
  <2>8. ASSUME NEW s \in LaneSet, s \notin S, Occupied[s] # 2 PROVE mid[s] = lo[s] /\ hi[s] = lo[s]
    BY <2>2, <2>4, <2>5, <2>8
  <2> QED
    BY <2>4, <2>5, <2>6, <2>7, <2>8
<1> HIDE DEF T, lo, mid, hi
<1>10. DecodeRuns(lo, mid, T)
  BY <1>2, <1>7, <1>8, <1>9 DEF DecodeRuns
<1>11. PromptRuns(MixedShares, mid, hi, T)
  <2>1. ASSUME NEW s \in Lanes, sh[s] # 0
        PROVE  /\ mid[s] = pre[s] /\ T[s] = job.prompt
               /\ hi[s] <= MaxSeq /\ hi[s] <= Len(job.prompt)
    <3>1. Occupied[s] = 2 /\ s \in LaneSet
      BY <1>1, <1>5, <2>1
    <3>2. pre[s] + sh[s] < MaxSeq /\ pre[s] + sh[s] <= Len(job.prompt) /\ pre[s] \in Nat /\ sh[s] \in Nat
      BY <1>4, <1>5, <3>1
    <3>3. pre[s] + sh[s] <= MaxSeq
      BY <3>2, Sizes
    <3> QED
      BY <1>9, <3>1, <3>2, <3>3
  <2>2. \A s \in Lanes : hi[s] = mid[s] + sh[s]
    BY <1>1, <1>9
  <2> QED
    BY <1>1, <1>2, <1>5, <1>7, <1>8, <2>1, <2>2 DEF PromptRuns
<1>12. Rises(lo, mid, hi)
  <2>1. ASSUME NEW l \in LaneSet PROVE lo[l] <= mid[l] /\ mid[l] <= hi[l]
    <3>1. lo[l] \in Nat /\ mid[l] \in Nat /\ sh[l] \in Nat
      BY <1>1, <1>5, <1>7, <1>8
    <3>2. (mid[l] = lo[l] \/ mid[l] = lo[l] + 1) /\ hi[l] = mid[l] + sh[l]
      BY <1>9
    <3> QED
      BY <3>1, <3>2
  <2> QED
    BY <1>7, <1>8, <2>1 DEF Rises
<1>13. Feeds(cs, lo, hi, T) /\ Len(cs) <= MostColumns
  BY <1>10, <1>11, <1>12, MixedColumnsFeed
<1>14. Ready(lo, hi, T)
  <2>1. ASSUME NEW l \in LaneSet, lo[l] < hi[l]
        PROVE  /\ Holds(job.kind, lanes[l], SubSeq(T[l], 1, lo[l])) /\ hi[l] <= Len(T[l])
               /\ hi[l] <= lo[l] + W + 2
               /\ hi[l] <= LaneEnd(l)
    <3>1. CASE l \in S
      <4>1. /\ cbpos[l] \in Nat /\ Len(Text(req[l])) = cbpos[l] + 1 /\ cbpos[l] + 1 < MaxSeq
            /\ Holds(job.kind, lanes[l], SubSeq(Text(req[l]), 1, cbpos[l]))
            /\ T[l] = Text(req[l]) /\ lo[l] = cbpos[l] /\ hi[l] = cbpos[l] + 1
            /\ LaneEnd(l) = MaxSeq
        BY <1>1, <1>3, <1>9, <3>1
      <4>2. hi[l] <= Len(T[l]) /\ hi[l] <= lo[l] + W + 2 /\ hi[l] <= LaneEnd(l)
        BY <4>1, Sizes
      <4> QED
        BY <4>1, <4>2
    <3>2. CASE Occupied[l] = 2
      <4>1. PICK p, q : p = pre[l] /\ q = sh[l]
        OBVIOUS
      <4>2. /\ p \in Nat /\ q \in Nat /\ q <= W + 2
            /\ p + q < MaxSeq /\ p + q <= Len(job.prompt)
            /\ Holds(job.kind, lanes[l], SubSeq(job.prompt, 1, p))
            /\ T[l] = job.prompt /\ lo[l] = p /\ hi[l] = p + q
            /\ LaneEnd(l) = MaxSeq
        BY <1>1, <1>4, <1>5, <1>9, <3>2, <4>1
      <4>3. p + q <= p + W + 2 /\ p + q <= MaxSeq
        BY <4>2, Sizes
      <4> QED
        BY <4>2, <4>3
    <3>3. CASE l \notin S /\ Occupied[l] # 2
      BY <1>7, <1>9, <2>1, <3>3
    <3> QED
      BY <3>1, <3>2, <3>3
  <2> QED
    BY <1>7, <1>8, <2>1 DEF Ready
<1>15. /\ lanes' \in [LaneSet -> LaneType] /\ clear' = TRUE /\ DispatchFits'
       /\ \A l \in LaneSet :
             IF lo[l] < hi[l] THEN Holds(job.kind, lanes'[l], SubSeq(T[l], 1, hi[l]))
                              ELSE lanes'[l] = lanes[l]
  BY <1>1, <1>13, <1>14, Fed
<1>16. StepInv'
  <2>1. LaneSet' = LaneSet /\ Lanes' = Lanes
    BY DEF LaneSet, Lanes
  <2> QED
    BY <1>1, <1>15, <2>1 DEF StepInv
<1>17. ASSUME NEW s \in S
       PROVE  /\ Holds(job.kind, lanes'[s], Text(req[s]))
              /\ TokenAt(cs, Written(cs), s, cbpos[s]) = Choice(job.model, Text(req[s]))
  <2>1. PICK x, c : x = Text(req[s]) /\ c = cbpos[s]
    OBVIOUS
  <2>2. /\ s \in LaneSet /\ x \in Rows /\ c \in Nat /\ Len(x) = c + 1
        /\ T[s] = x /\ lo[s] = c /\ hi[s] = c + 1 /\ lo[s] < hi[s]
    BY <1>3, <1>9, <2>1
  <2>3. SubSeq(x, 1, c + 1) = x
    <3>1. c + 1 \in Nat /\ c + 1 = Len(x) /\ c + 1 <= Len(x) /\ x \in Rows
      BY <2>2
    <3> QED
      BY <3>1, FirstRows
  <2>4. Holds(job.kind, lanes'[s], SubSeq(T[s], 1, hi[s]))
    BY <1>15, <2>2
  <2>5. c \in lo[s] .. hi[s] - 1
    BY <2>2
  <2>6. TokenAt(cs, Written(cs), s, c) = Choice(job.model, SubSeq(T[s], 1, c + 1))
    BY <1>1, <1>13, <1>14, <2>2, <2>5, Answered
  <2> QED
    BY <2>1, <2>2, <2>3, <2>4, <2>6
<1>18. ASSUME NEW s \in LaneSet, Occupied[s] = 2
       PROVE  /\ Holds(job.kind, lanes'[s], SubSeq(job.prompt, 1, pre[s] + sh[s]))
              /\ sh[s] # 0 =>
                    TokenAt(cs, Written(cs), s, pre[s] + sh[s] - 1) =
                       Choice(job.model, SubSeq(job.prompt, 1, pre[s] + sh[s]))
  <2>1. PICK p, q : p = pre[s] /\ q = sh[s]
    OBVIOUS
  <2>2. /\ p \in Nat /\ q \in Nat /\ T[s] = job.prompt /\ lo[s] = p /\ hi[s] = p + q
        /\ Holds(job.kind, lanes[s], SubSeq(job.prompt, 1, p))
    BY <1>1, <1>4, <1>5, <1>9, <1>18, <2>1
  <2>3. CASE q = 0
    <3>1. ~ (lo[s] < hi[s]) /\ p + q = p
      BY <2>2, <2>3
    <3>2. lanes'[s] = lanes[s]
      BY <1>15, <3>1
    <3> QED
      BY <2>1, <2>2, <2>3, <3>1, <3>2
  <2>4. CASE q # 0
    <3>1. lo[s] < hi[s] /\ p + q - 1 \in lo[s] .. hi[s] - 1 /\ p + q - 1 + 1 = p + q
      BY <2>2, <2>4
    <3>2. Holds(job.kind, lanes'[s], SubSeq(job.prompt, 1, p + q))
      BY <1>15, <2>2, <3>1
    <3>3. TokenAt(cs, Written(cs), s, p + q - 1) = Choice(job.model, SubSeq(T[s], 1, p + q - 1 + 1))
      BY <1>1, <1>13, <1>14, <3>1, Answered
    <3> QED
      BY <2>1, <2>2, <3>1, <3>2, <3>3
  <2> QED
    BY <2>3, <2>4
<1>19. ASSUME NEW s \in Lanes PROVE MixedSlot(s, cs)
  <2>1. s \in Decoding(active) =>
          /\ Holds(job.kind, lanes'[s], Text(req[s]))
          /\ TokenAt(cs, Written(cs), s, cbpos[s]) = Choice(job.model, Text(req[s]))
    BY <1>2, <1>17
  <2>2. Occupied[s] = 2 =>
          /\ Holds(job.kind, lanes'[s], SubSeq(job.prompt, 1, PrefAfter[s] + MixedShares[s]))
          /\ MixedShares[s] # 0 =>
                TokenAt(cs, Written(cs), s, PrefAfter[s] + MixedShares[s] - 1) =
                   Choice(job.model, SubSeq(job.prompt, 1, PrefAfter[s] + MixedShares[s]))
    BY <1>1, <1>2, <1>18
  <2> QED
    BY <2>1, <2>2 DEF MixedSlot
<1> QED
  BY <1>16, <1>19

\* Slots whose last prompt column is in the step, and where the emitting slots are.
PromptEnds(share) ==
    {s \in Lanes : /\ Occupied[s] = 2 /\ share[s] > 0
                   /\ PrefAfter[s] + share[s] = job.plen[ReqAfter[s]]}
LastOf(from) ==
    [s \in from |-> IF s \in Decoding(active) THEN cbpos[s] ELSE job.plen[ReqAfter[s]] - 1]

\* What a mixed step does.
MixedSteps(share, ready, from, last, cs, ls, token, o, over) ==
    /\ Compute(cs, ls)
    /\ out' = o
    /\ req' = ReqAfter
    /\ qhead' = qhead + Cardinality(Joined)
    /\ pref' = [s \in Lanes |-> PrefAfter[s] + share[s]]
    /\ active' = [s \in Lanes |-> IF s \in over THEN 0 ELSE IF s \in from THEN 1
                                                    ELSE Occupied[s]]
    /\ nact' = nact + Cardinality(Joined) - Cardinality(over)
    /\ tok' = [s \in Lanes |-> IF s \in from \ over THEN token[s] ELSE tok[s]]
    /\ cbpos' = [s \in Lanes |-> IF s \in Decoding(active) \/ s \in ready \ over
                                   THEN last[s] + 1 ELSE cbpos[s]]

LEMMA MixedFacts ==
    ASSUME Mixed
    PROVE  /\ pc = "mixed" /\ pc' = "loop" /\ job' = job
           /\ UNCHANGED <<logits, pos, hist, rep, scan, fed>>
           /\ \E ready, from, last, cs, ls, token, o :
                 /\ ready = PromptEnds(MixedShares)
                 /\ from = Decoding(active) \union ready /\ last = LastOf(from)
                 /\ cs = MixedColumns /\ ls = Written(cs)
                 /\ token = [s \in from |-> TokenAt(cs, ls, s, last[s])]
                 /\ o = Emitted(from, ReqAfter, token)
                 /\ MixedSteps(MixedShares, ready, from, last, cs, ls, token, o,
                               OverOf(from, ReqAfter, token, o, last))
<1>1. /\ pc = "mixed" /\ pc' = "loop" /\ job' = job
      /\ UNCHANGED <<logits, pos, hist, rep, scan, fed>>
  BY DEF Mixed, single
<1> DEFINE ready == PromptEnds(MixedShares)
           from == Decoding(active) \union PromptEnds(MixedShares)
           last == LastOf(Decoding(active) \union PromptEnds(MixedShares))
<1>2. \E cs \in {MixedColumns} : \E ls \in {Written(cs)} :
      \E token \in {[s \in from |-> TokenAt(cs, ls, s, last[s])]} :
         MixedSteps(MixedShares, ready, from, last, cs, ls, token, Emitted(from, ReqAfter, token),
                    OverOf(from, ReqAfter, token, Emitted(from, ReqAfter, token), last))
  BY DEF Mixed, MixedSteps, OverOf, MixedColumns, MixedShares, PromptEnds, LastOf, Joined
<1> HIDE DEF MixedSteps, ready, from, last
<1>3. PICK cs, ls, token :
         /\ cs = MixedColumns /\ ls = Written(cs)
         /\ token = [s \in from |-> TokenAt(cs, ls, s, last[s])]
         /\ MixedSteps(MixedShares, ready, from, last, cs, ls, token, Emitted(from, ReqAfter, token),
                    OverOf(from, ReqAfter, token, Emitted(from, ReqAfter, token), last))
  BY <1>2
<1>4. ready = PromptEnds(MixedShares) /\ from = Decoding(active) \union ready /\ last = LastOf(from)
  BY DEF ready, from, last
<1> QED
  BY <1>1, <1>3, <1>4

\* A request that has not emitted anything.
LEMMA FreshText ==
    ASSUME IInv, job.mode \in SchedModes, NEW r \in Reqs, out[r] = <<>>
    PROVE  /\ Text(r) = SubSeq(job.prompt, 1, job.plen[r]) /\ Text(r) \in Rows
           /\ Len(Text(r)) = job.plen[r] /\ Len(out[r]) < Limit(job, r)
           /\ \A i \in 1 .. Len(out[r]) : out[r][i] \notin Eos
<1>1. Text(r) = Asked(r) \o out[r] /\ job \in Jobs
  BY SchedFacts
<1>2. Asked(r) \in Rows /\ Len(Asked(r)) = job.plen[r] /\ 1 <= Limit(job, r) /\ Limit(job, r) \in Nat
  BY <1>1, Limits
<1>3. <<>> \in Rows
  BY DEF Rows
<1>4. Asked(r) \o <<>> = Asked(r)
  BY <1>2, <1>3, TextTypes
<1>5. Text(r) = Asked(r)
  BY <1>1, <1>4
<1>6. Len(out[r]) = 0 /\ 0 < Limit(job, r)
  BY <1>2
<1>7. \A i \in 1 .. Len(out[r]) : FALSE
  BY <1>6
<1>8. Text(r) = SubSeq(job.prompt, 1, job.plen[r])
  BY <1>5 DEF Asked
<1> QED
  BY <1>2, <1>5, <1>6, <1>7, <1>8

\* The tokens that slots emit after a step, and what MixedEmits asks for.
TokensOf(from, last, cs) == [s \in from |-> TokenAt(cs, Written(cs), s, last[s])]
MixedEnds(ready, from, last, cs, token, over) ==
    /\ ready = PromptEnds(MixedShares)
    /\ from = Decoding(active) \union ready /\ last = LastOf(from)
    /\ token = TokensOf(from, last, cs)
    /\ over = OverOf(from, ReqAfter, token, out', last)
    /\ \A s \in Lanes : MixedSlot(s, cs)
EmittedAt(from, of, token, last, over) ==
    /\ Emit(from, of, token, last, over)
    /\ \A s \in from : /\ Holds(job.kind, lanes'[s], Text(of[s]))
                       /\ last[s] + 1 = Len(Text(of[s])) /\ last[s] + 1 < MaxSeq
                       /\ last[s] + 1 \in Nat /\ Occupied[s] # 0

\* The slots of a mixed step that emit.
LEMMA MixedEmits ==
    ASSUME IInv, job.mode = "mixed", pc = "mixed", job' = job,
           NEW ready, NEW from, NEW last, NEW cs, NEW token, NEW over,
           MixedEnds(ready, from, last, cs, token, over)
    PROVE  EmittedAt(from, ReqAfter, token, last, over)
<1>0. /\ ready = PromptEnds(MixedShares)
      /\ from = Decoding(active) \union ready /\ last = LastOf(from)
      /\ token = [s \in from |-> TokenAt(cs, Written(cs), s, last[s])]
      /\ over = OverOf(from, ReqAfter, token, out', last)
      /\ \A s \in Lanes : MixedSlot(s, cs)
  BY DEF MixedEnds, TokensOf
<1> USE <1>0
<1> USE DEF SchedModes
<1>1. /\ job \in Jobs
      /\ \A s \in Decoding(active) : s \in Lanes /\ Occupied[s] = 1 /\ ReqAfter[s] = req[s]
      /\ \A s \in ready : s \in Lanes /\ Occupied[s] = 2
      /\ \A s \in Lanes : ReqAfter[s] \in Reqs
  <2>1. job \in Jobs
    BY SchedFacts
  <2>2. \A s \in Decoding(active) : s \in Lanes
    BY DEF Decoding
  <2>3. \A s \in ready : s \in Lanes /\ Occupied[s] = 2
    BY DEF PromptEnds
  <2>4. /\ \A s \in Lanes : Occupied[s] = 1 <=> s \in Decoding(active)
        /\ \A s \in Lanes : Occupied[s] = 1 => ReqAfter[s] = req[s]
        /\ \A s \in Lanes : ReqAfter[s] \in Reqs
    BY AfterJoining
  <2> QED
    BY <2>1, <2>2, <2>3, <2>4
<1>2. \A s \in from : s \in Lanes /\ Occupied[s] # 0 /\ ReqAfter[s] \in Reqs
  BY <1>1
<1>3. \A s, u \in from : ReqAfter[s] = ReqAfter[u] => s = u
  BY <1>2, AfterJoining
<1>4. \A s \in from : token[s] = TokenAt(cs, Written(cs), s, last[s])
  OBVIOUS
<1>5. ASSUME NEW s \in from, NEW r, r = ReqAfter[s]
      PROVE  /\ token[s] = Choice(job.model, Text(r))
             /\ Len(out[r]) < Limit(job, r)
             /\ \A i \in 1 .. Len(out[r]) : out[r][i] \notin Eos
             /\ last[s] + 1 = Len(Text(r)) /\ last[s] + 1 < MaxSeq /\ last[s] + 1 \in Nat
             /\ Holds(job.kind, lanes'[s], Text(r))
  <2>1. CASE s \in Decoding(active)
    <3>1. r = req[s] /\ last[s] = cbpos[s] /\ s \in Lanes
      BY <1>1, <1>5, <2>1 DEF LastOf
    <3>2. /\ Len(out[r]) < Limit(job, r)
          /\ \A i \in 1 .. Len(out[r]) : out[r][i] \notin Eos
          /\ cbpos[s] \in Nat /\ Len(Text(r)) = cbpos[s] + 1 /\ cbpos[s] + 1 < MaxSeq
      BY <2>1, <3>1, DecodingFacts
    <3>3. /\ Holds(job.kind, lanes'[s], Text(r))
          /\ TokenAt(cs, Written(cs), s, cbpos[s]) = Choice(job.model, Text(r))
      BY <2>1, <3>1 DEF MixedSlot
    <3>4. last[s] + 1 \in Nat
      BY <3>1, <3>2
    <3> QED
      BY <1>4, <3>1, <3>2, <3>3, <3>4
  <2>2. CASE s \notin Decoding(active)
    <3>1. s \in ready /\ s \in Lanes /\ Occupied[s] = 2 /\ r \in Reqs
      BY <1>1, <1>2, <1>5, <2>2
    <3>2. PICK n : n = job.plen[r]
      OBVIOUS
    <3>3. MixedShares[s] > 0 /\ PrefAfter[s] + MixedShares[s] = n
      BY <1>5, <3>1, <3>2 DEF PromptEnds
    <3>4. MixedShares[s] # 0
      BY <3>1, <3>3, SharesFit
    <3>5. last[s] = n - 1
      BY <1>5, <2>2, <3>2 DEF LastOf
    <3>6. out[r] = <<>>
      BY <1>5, <3>1, AfterJoining
    <3>7. /\ Text(r) = SubSeq(job.prompt, 1, n) /\ Len(Text(r)) = n /\ Len(out[r]) < Limit(job, r)
          /\ \A i \in 1 .. Len(out[r]) : out[r][i] \notin Eos
      BY <3>1, <3>2, <3>6, FreshText
    <3>8. n \in Nat /\ n < MaxSeq
      BY <1>5, <3>1, <3>2, SharesFit
    <3>9. /\ Holds(job.kind, lanes'[s], SubSeq(job.prompt, 1, n))
          /\ TokenAt(cs, Written(cs), s, n - 1) = Choice(job.model, SubSeq(job.prompt, 1, n))
      <4>1. PICK a, b : a = PrefAfter[s] /\ b = MixedShares[s]
        OBVIOUS
      <4>2. MixedSlot(s, cs)
        BY <3>1
      <4>3. /\ Holds(job.kind, lanes'[s], SubSeq(job.prompt, 1, a + b))
            /\ TokenAt(cs, Written(cs), s, a + b - 1) = Choice(job.model, SubSeq(job.prompt, 1, a + b))
        BY <3>1, <3>4, <4>1, <4>2 DEF MixedSlot
      <4>4. a \in Nat /\ b \in Nat /\ a + b = n
        BY <3>1, <3>3, <4>1, SharesFit
      <4>5. a + b - 1 = n - 1
        BY <4>4
      <4> QED
        BY <4>3, <4>4, <4>5
    <3>10. n - 1 + 1 = n
      BY <3>8
    <3> QED
      BY <1>4, <3>5, <3>7, <3>8, <3>9, <3>10
  <2> QED
    BY <2>1, <2>2
<1>6. from \subseteq Lanes /\ over = {s \in from : Ends(token[s], ReqAfter[s], out', last[s] + 1)}
  BY <1>2 DEF OverOf
<1>7. \A s \in from :
          /\ token[s] = Choice(job.model, Text(ReqAfter[s]))
          /\ Len(out[ReqAfter[s]]) < Limit(job, ReqAfter[s])
          /\ \A i \in 1 .. Len(out[ReqAfter[s]]) : out[ReqAfter[s]][i] \notin Eos
          /\ last[s] + 1 = Len(Text(ReqAfter[s])) /\ last[s] + 1 < MaxSeq /\ last[s] + 1 \in Nat
          /\ Holds(job.kind, lanes'[s], Text(ReqAfter[s]))
  BY <1>5
<1>8. Emit(from, ReqAfter, token, last, over)
  <2> HIDE DEF OverOf, Choice, Limit, Ends
  <2> QED
    BY <1>2, <1>3, <1>6, <1>7 DEF Emit
<1> QED
  BY <1>2, <1>7, <1>8 DEF EmittedAt

LEMMA MixedKeeps == ASSUME IInv, job.mode = "mixed", Mixed PROVE IInv'
<1> USE DEF SchedModes
<1>1. /\ pc = "mixed" /\ pc' = "loop" /\ job' = job
      /\ UNCHANGED <<logits, pos, hist, rep, scan, fed>>
  BY MixedFacts
<1>2. PICK ready, from, last, cs, ls, token, o :
         /\ ready = PromptEnds(MixedShares)
         /\ from = Decoding(active) \union ready /\ last = LastOf(from)
         /\ cs = MixedColumns /\ ls = Written(cs)
         /\ token = [s \in from |-> TokenAt(cs, ls, s, last[s])]
         /\ o = Emitted(from, ReqAfter, token)
         /\ MixedSteps(MixedShares, ready, from, last, cs, ls, token, o,
                       OverOf(from, ReqAfter, token, o, last))
  BY MixedFacts
<1>3. PICK over, of, pre, sh, n :
         /\ over = OverOf(from, ReqAfter, token, o, last)
         /\ of = ReqAfter /\ pre = PrefAfter /\ sh = MixedShares /\ n = Cardinality(Joined)
  OBVIOUS
<1>4. /\ Compute(cs, ls) /\ out' = o /\ req' = of /\ qhead' = qhead + n
      /\ pref' = [s \in Lanes |-> pre[s] + sh[s]]
      /\ active' = [s \in Lanes |-> IF s \in over THEN 0 ELSE IF s \in from THEN 1
                                                      ELSE Occupied[s]]
      /\ nact' = nact + n - Cardinality(over)
      /\ tok' = [s \in Lanes |-> IF s \in from \ over THEN token[s] ELSE tok[s]]
      /\ cbpos' = [s \in Lanes |-> IF s \in Decoding(active) \/ s \in ready \ over
                                     THEN last[s] + 1 ELSE cbpos[s]]
  BY <1>2, <1>3 DEF MixedSteps
<1>5. /\ job \in Jobs /\ SchedInv /\ SlotTypes /\ Reqs \subseteq Streams
  BY SchedFacts DEF SchedInv
<1>6. StepInv' /\ \A s \in Lanes : MixedSlot(s, cs)
  BY <1>1, <1>2, <1>4, MixedFed
<1>7. /\ Emit(from, of, token, last, over)
      /\ \A s \in from : /\ Holds(job.kind, lanes'[s], Text(of[s]))
                         /\ last[s] + 1 = Len(Text(of[s])) /\ last[s] + 1 < MaxSeq
                         /\ last[s] + 1 \in Nat /\ Occupied[s] # 0
  <2>1. over = OverOf(from, ReqAfter, token, out', last)
    BY <1>3, <1>4
  <2>2. token = TokensOf(from, last, cs)
    BY <1>2 DEF TokensOf
  <2>3. MixedEnds(ready, from, last, cs, token, over)
    BY <1>2, <1>6, <2>1, <2>2 DEF MixedEnds
  <2>4. EmittedAt(from, ReqAfter, token, last, over)
    BY <1>1, <2>3, MixedEmits
  <2>5. EmittedAt(from, of, token, last, over)
    BY <1>3, <2>4
  <2> QED
    BY <2>5 DEF EmittedAt
<1>8. /\ StreamsInv'
      /\ \A s \in from :
            /\ Grows(of[s], token[s])
            /\ s \in over => Len(out'[of[s]]) = Owed(of[s])'
            /\ s \notin over => Goes(of[s])'
      /\ \A r \in Streams : (\A s \in from : of[s] # r) => out'[r] = out[r]
      /\ over \subseteq from
  <2>1. out' = Emitted(from, of, token)
    BY <1>2, <1>3, <1>4
  <2>2. Emit(from, of, token, last, over)
    BY <1>7
  <2>3. job.mode \in SchedModes
    OBVIOUS
  <2> HIDE DEF SchedModes
  <2> QED
    BY <1>1, <2>1, <2>2, <2>3, EmittedGrows
<1>9. /\ of \in [Lanes -> Reqs] /\ pre \in [Lanes -> 0 .. MaxSeq]
      /\ Occupied \in [Lanes -> 0 .. 2]
      /\ \A s \in Lanes : Occupied[s] # 0 => of[s] < qhead + n
      /\ \A s, u \in Lanes : Occupied[s] # 0 /\ Occupied[u] # 0 /\ of[s] = of[u] => s = u
      /\ \A s \in Lanes : Occupied[s] = 1 <=> s \in Decoding(active)
      /\ \A s \in Lanes : Occupied[s] = 2 =>
            /\ out[of[s]] = <<>> /\ pre[s] < job.plen[of[s]]
            /\ Holds(job.kind, lanes[s], SubSeq(job.prompt, 1, pre[s]))
      /\ \A r \in Reqs : /\ r < qhead + n
                         /\ \A s \in Lanes : Occupied[s] # 0 => of[s] # r
                         => Len(out[r]) = Owed(r)
      /\ InUse(Occupied) = InUse(active) \union Joined /\ Joined \cap InUse(active) = {}
  BY <1>1, <1>3, AfterJoining
<1>10. /\ sh \in [Lanes -> Nat]
       /\ \A s \in Lanes :
             /\ Occupied[s] # 2 => sh[s] = 0
             /\ Occupied[s] = 2 =>
                   /\ pre[s] \in Nat /\ job.plen[of[s]] \in Nat
                   /\ pre[s] + sh[s] <= job.plen[of[s]]
                   /\ job.plen[of[s]] <= Len(job.prompt)
                   /\ job.plen[of[s]] < MaxSeq
  BY <1>1, <1>3, SharesFit
<1>11. /\ Joined \subseteq Lanes /\ n \in Nat /\ qhead \in Nat /\ qhead + n \in 0 .. R
  BY <1>3, Joining
<1>12. from \subseteq Lanes /\ \A s \in from : s \in Lanes
  BY <1>7 DEF Emit
<1>13. /\ \A s \in over : active'[s] = 0
       /\ \A s \in from : s \notin over => active'[s] = 1 /\ tok'[s] = token[s]
       /\ \A s \in from : s \notin over => cbpos'[s] = last[s] + 1
       /\ \A s \in Lanes : s \notin from => active'[s] = Occupied[s]
       /\ \A s \in Lanes : active'[s] # 0 => Occupied[s] # 0
       /\ \A s \in Lanes : req'[s] = of[s] /\ pref'[s] = pre[s] + sh[s]
  <2>1. /\ \A s \in over : active'[s] = 0
        /\ \A s \in from : s \notin over => active'[s] = 1 /\ tok'[s] = token[s]
        /\ \A s \in Lanes : s \notin from => active'[s] = Occupied[s]
    BY <1>4, <1>8, <1>12
  <2>2. \A s \in from : s \notin over => cbpos'[s] = last[s] + 1
    BY <1>2, <1>4, <1>12
  <2>3. \A s \in Lanes : active'[s] # 0 => Occupied[s] # 0
    BY <1>7, <2>1
  <2>4. \A s \in Lanes : req'[s] = of[s] /\ pref'[s] = pre[s] + sh[s]
    BY <1>4
  <2> QED
    BY <2>1, <2>2, <2>3, <2>4
<1>14. Completed'
  BY <1>1 DEF Completed
<1>15. Lanes' = Lanes /\ Reqs' = Reqs
  BY DEF Lanes, Reqs
<1>16. Admitting' = {}
  BY <1>1 DEF Admitting
<1>17. SlotTypes'
  <2>1. nact' = Cardinality(InUse(active'))
    <3>1. nact = Cardinality(InUse(active))
      BY <1>5 DEF SlotTypes, InUse
    <3>2. over \subseteq InUse(Occupied)
      BY <1>7, <1>8, <1>12 DEF InUse
    <3>3. InUse(active') = InUse(Occupied) \ over
      <4>1. \A s \in Lanes : s \notin over => (active'[s] # 0 <=> Occupied[s] # 0)
        BY <1>7, <1>13
      <4> QED
        BY <4>1, <1>13 DEF InUse
    <3>4. /\ over \subseteq InUse(active) \union Joined
          /\ InUse(active') = (InUse(active) \union Joined) \ over
      BY <1>9, <3>2, <3>3
    <3>5. /\ Cardinality(InUse(active')) =
                Cardinality(InUse(active)) + Cardinality(Joined) - Cardinality(over)
          /\ Cardinality(InUse(active)) \in Nat /\ Cardinality(over) \in Nat
      <4>1. PICK J, a, a2 : J = Joined /\ a = active /\ a2 = active'
        OBVIOUS
      <4>2. /\ J \subseteq Lanes /\ J \cap InUse(a) = {}
            /\ over \subseteq InUse(a) \union J /\ InUse(a2) = (InUse(a) \union J) \ over
        BY <1>9, <1>11, <3>4, <4>1
      <4>3. /\ Cardinality(InUse(a2)) = Cardinality(InUse(a)) + Cardinality(J) - Cardinality(over)
            /\ Cardinality(InUse(a)) \in Nat /\ Cardinality(over) \in Nat
        <5>1. SlotsChange(a, a2, J, over)
          BY <4>2 DEF SlotsChange
        <5> QED
          BY <5>1, SomeChange
      <4> QED
        BY <4>1, <4>3
    <3> QED
      BY <1>3, <1>4, <3>1, <3>5
  <2>2. active' \in [Lanes -> 0 .. 2]
    <3>1. \A s \in Lanes : active'[s] \in 0 .. 2
      BY <1>9, <1>13
    <3> QED
      BY <3>1, <1>4
  <2>3. ASSUME NEW s \in Lanes PROVE cbpos'[s] \in 0 .. MaxSeq
    <3>1. CASE s \in Decoding(active) \/ s \in ready \ over
      <4>1. cbpos'[s] = last[s] + 1 /\ s \in from
        BY <1>2, <1>4, <3>1
      <4>2. last[s] + 1 < MaxSeq /\ last[s] + 1 \in Nat
        BY <1>7, <4>1
      <4> QED
        BY <4>1, <4>2, Sizes
    <3>2. CASE ~ (s \in Decoding(active) \/ s \in ready \ over)
      BY <1>4, <1>5, <3>2 DEF SlotTypes
    <3> QED
      BY <3>1, <3>2
  <2>4. cbpos' \in [Lanes -> 0 .. MaxSeq] /\ DOMAIN tok' = Lanes
    BY <1>4, <2>3
  <2>5. ASSUME NEW s \in Lanes PROVE pref'[s] \in 0 .. MaxSeq
    <3>1. pre[s] \in 0 .. MaxSeq /\ sh[s] \in Nat
      BY <1>9, <1>10
    <3>2. CASE Occupied[s] = 2
      <4>1. PICK p, q, m : p = pre[s] /\ q = sh[s] /\ m = job.plen[of[s]]
        OBVIOUS
      <4>2. p \in Nat /\ q \in Nat /\ m \in Nat /\ p + q <= m /\ m < MaxSeq /\ pref'[s] = p + q
        BY <1>10, <1>13, <3>1, <3>2, <4>1
      <4> QED
        BY <4>2, Sizes
    <3>3. CASE Occupied[s] # 2
      <4>1. pref'[s] = pre[s] + 0
        BY <1>10, <1>13, <3>3
      <4> QED
        BY <3>1, <4>1, Sizes
    <3> QED
      BY <3>2, <3>3
  <2>6. req' \in [Lanes -> Reqs] /\ pref' \in [Lanes -> 0 .. MaxSeq]
    BY <1>4, <1>9, <2>5
  <2> QED
    BY <1>1, <1>15, <2>1, <2>2, <2>4, <2>6 DEF SlotTypes, InUse
<1>18. SlotsOwn'
  <2>1. \A s \in Lanes : active'[s] # 0 => req'[s] < qhead'
    BY <1>4, <1>9, <1>13
  <2>2. \A s, u \in Lanes : active'[s] # 0 /\ active'[u] # 0 /\ req'[s] = req'[u] => s = u
    BY <1>9, <1>13
  <2> QED
    BY <1>15, <1>16, <2>1, <2>2 DEF SlotsOwn
<1>19. ASSUME NEW s \in Lanes, active'[s] = 1 PROVE Decodes(s)'
  <2>1. s \in from
    BY <1>2, <1>9, <1>13, <1>19
  <2>2. s \notin over
    BY <1>13, <1>19
  <2>3. PICK r, t : r = of[s] /\ t = token[s]
    OBVIOUS
  <2>4. /\ Grows(r, t) /\ req'[s] = r /\ tok'[s] = t /\ cbpos'[s] = Len(Text(r))
        /\ Holds(job.kind, lanes'[s], Text(r))
    BY <1>7, <1>8, <1>13, <2>1, <2>2, <2>3
  <2>5. Goes(r)'
    <3>1. Goes(of[s])'
      BY <1>8, <2>1, <2>2
    <3> QED
      BY <2>3, <3>1
  <2> QED
    BY <1>1, <2>4, <2>5, DecodesNext
<1>20. ASSUME NEW s \in Lanes, active'[s] = 2 PROVE Prefills(s)'
  <2>1. s \notin from /\ Occupied[s] = 2
    BY <1>9, <1>13, <1>19, <1>20
  <2>2. PICK r, p, q, m : r = of[s] /\ p = pre[s] /\ q = sh[s] /\ m = job.plen[r]
    OBVIOUS
  <2>3. /\ r \in Reqs /\ p \in Nat /\ q \in Nat /\ m \in Nat /\ p + q <= m /\ p < m
        /\ m <= Len(job.prompt)
    BY <1>9, <1>10, <2>1, <2>2
  <2>4. p + q # m
    <3>1. s \notin PromptEnds(MixedShares)
      BY <1>2, <2>1
    <3>2. q > 0 => p + q # m
      BY <1>3, <2>1, <2>2, <3>1 DEF PromptEnds
    <3> QED
      BY <2>3, <3>2
  <2>5. p + q < m /\ p + q \in Nat /\ p + q <= Len(job.prompt)
    <3>1. Len(job.prompt) \in Nat
      BY <1>5, JobTypes
    <3> QED
      BY <2>3, <2>4, <3>1
  <2>6. \A u \in from : of[u] # r
    BY <1>7, <1>9, <1>12, <2>1, <2>2
  <2>7. out'[r] = <<>>
    <3>1. out'[r] = out[r]
      BY <1>5, <1>8, <2>3, <2>6
    <3> QED
      BY <1>9, <2>1, <2>2, <3>1
  <2>8. SubSeq(job.prompt, 1, p + q) \in Rows
    BY <1>5, <2>5, JobTypes, FirstRows
  <2>9. Holds(job.kind, lanes'[s], SubSeq(job.prompt, 1, p + q))
    <3>1. MixedSlot(s, cs)
      BY <1>6
    <3>2. Holds(job.kind, lanes'[s], SubSeq(job.prompt, 1, PrefAfter[s] + MixedShares[s]))
      BY <2>1, <3>1 DEF MixedSlot
    <3> QED
      BY <1>3, <2>2, <3>2
  <2>10. req'[s] = r /\ pref'[s] = p + q
    BY <1>13, <2>2
  <2> QED
    BY <1>1, <2>2, <2>5, <2>7, <2>8, <2>9, <2>10 DEF Prefills, Keeps
<1>21. ASSUME NEW r \in Reqs, r >= qhead' PROVE out'[r] = <<>>
  <2>1. r \in Nat /\ qhead + n \in Nat /\ \A s \in from : of[s] \in Nat /\ of[s] < qhead + n
    BY <1>7, <1>9, <1>11, <1>12, LanesFit DEF Reqs
  <2>2. r >= qhead + n
    BY <1>4, <1>21
  <2>3. (\A s \in from : of[s] # r) /\ r >= qhead
    BY <1>11, <2>1, <2>2
  <2>4. out'[r] = out[r]
    BY <1>5, <1>8, <2>3
  <2> QED
    BY <1>5, <2>3, <2>4 DEF SchedInv
<1>22. ASSUME NEW r \in Reqs, r < qhead', r \notin InSlots' \union Admitting'
       PROVE  Len(out'[r]) = Owed(r)'
  <2>1. r < qhead + n
    BY <1>4, <1>22
  <2>2. \A s \in Lanes : active'[s] # 0 => of[s] # r
    BY <1>13, <1>15, <1>22 DEF InSlots
  <2>3. CASE \E s \in from : of[s] = r
    <3>1. PICK s \in from : of[s] = r
      BY <2>3
    <3>2. s \in over
      BY <1>12, <1>13, <2>2, <3>1
    <3>3. Len(out'[of[s]]) = Owed(of[s])'
      BY <1>8, <3>2
    <3> QED
      BY <3>1, <3>3
  <2>4. CASE \A s \in from : of[s] # r
    <3>1. out'[r] = out[r]
      BY <1>5, <1>8, <2>4
    <3>2. \A s \in Lanes : Occupied[s] # 0 => of[s] # r
      BY <1>13, <2>2, <2>4
    <3>3. Len(out[r]) = Owed(r)
      BY <1>9, <2>1, <3>2
    <3>4. Owed(r)' = Owed(r)
      BY <1>1, <1>5, <3>1, OwedSched
    <3> QED
      BY <3>1, <3>3, <3>4
  <2> QED
    BY <2>3, <2>4
<1>23. /\ pos' = -1 /\ hist' = <<>> /\ rep' \in Nat /\ qhead' \in 0 .. R
       /\ scan' \in 0 .. B /\ fed' \in 0 .. MaxSeq
       /\ pc' \in {"loop", "done"} \union
          (IF job'.mode = "cbatch" THEN {"admit", "chunk", "decode"} ELSE {"mixed"})
       /\ pc' # "chunk"
  <2>1. qhead' \in 0 .. R
    BY <1>4, <1>11
  <2> QED
    BY <1>1, <1>5, <2>1 DEF SchedInv
<1>24. SchedInv'
  BY <1>15, <1>17, <1>18, <1>19, <1>20, <1>21, <1>22, <1>23 DEF SchedInv
<1> QED
  BY <1>1, <1>6, <1>8, <1>14, <1>24, SchedAfter

-----------------------------------------------------------------------------
(* Requests in slots, all admitted at the start.                           *)

LEMMA SlotFacts ==
    ASSUME IInv, job.mode \in SlotModes
    PROVE  /\ job.mode \in MoeModes /\ SlotsInv /\ job.kind = "fp32" /\ Writing = Lanes
           /\ MostColumns = BatchMax
<1>1. job \in Jobs /\ job.mode \in MoeModes /\ job.mode \notin ComparingModes
  BY DEF IInv, SlotModes, MoeModes, ComparingModes
<1>2. SlotsInv
  BY DEF IInv, ModeInv
<1>3. job.kind = "fp32"
  BY <1>1, MoeAssumption
<1>4. Writing = Lanes
  BY DEF Writing, SlotModes
<1>5. MostColumns = BatchMax
  BY <1>1 DEF MostColumns, MoeModes, DenseModes, ComparingModes
<1> QED
  BY <1>1, <1>2, <1>3, <1>4, <1>5

LEMMA PromptFacts ==
    ASSUME job \in Jobs, job.mode \in SlotModes, NEW s \in Lanes
    PROVE  /\ PromptIn(s) \in Rows /\ Plen(s) \in Nat /\ 1 <= Plen(s) /\ Plen(s) < CbMaxPos
           /\ Plen(s) = Len(PromptIn(s))
           /\ job.maxnew[s] \in Nat /\ 1 <= job.maxnew[s] /\ CbMaxPos \in Nat /\ CbMaxPos <= MaxSeq
           /\ Choice(job.model, PromptIn(s)) \in Tokens
           /\ PromptOf[s] = Append(PromptIn(s), Choice(job.model, PromptIn(s)))
<1>1. /\ PromptIn(s) \in Rows /\ Plen(s) \in 1 .. CbMaxPos - 1 /\ job.maxnew[s] \in Nat \ {0}
      /\ CbMaxPos \in Nat
  BY MoeAssumption DEF PromptIn, Plen
<1>2. Len(PromptIn(s)) # 0 /\ Plen(s) = Len(PromptIn(s))
  BY <1>1 DEF Plen
<1>3. Choice(job.model, PromptIn(s)) \in Tokens
  BY <1>1, <1>2, ChoiceIsToken
<1>4. s \in Streams
  BY DEF Streams
<1>5. PromptOf[s] = Append(PromptIn(s), Choice(job.model, PromptIn(s)))
  BY <1>4 DEF PromptOf, SlotModes
<1>6. CbMaxPos <= MaxSeq
  BY <1>1, MoeAssumption, Sizes
<1> QED
  BY <1>1, <1>2, <1>3, <1>5, <1>6

LEMMA OwedSlots ==
    ASSUME job.mode \in SlotModes, job' = job
    PROVE  \A r : /\ Owed(r) = IF r \in Lanes THEN Lesser(job.maxnew[r], CbMaxPos - Plen(r)) ELSE 0
                  /\ Owed(r)' = Owed(r)
<1>1. ASSUME NEW r
      PROVE  /\ Owed(r) = IF r \in Lanes THEN Lesser(job.maxnew[r], CbMaxPos - Plen(r)) ELSE 0
             /\ Owed(r)' = IF r \in Lanes THEN Lesser(job.maxnew[r], CbMaxPos - Plen(r)) ELSE 0
  BY DEF Owed, SlotModes, Lanes, Plen, PromptIn
<1> QED
  BY <1>1

LEMMA SlotsAfter ==
    ASSUME IInv, job.mode \in SlotModes, job' = job,
           StreamsInv', StepInv', Completed', SlotsInv'
    PROVE  IInv'
<1>1. job.mode \notin {"cbatch", "mixed"} \union SingleModes \union MoeSingleModes
  BY DEF SingleModes, MoeSingleModes, SlotModes, HostModes, DeviceModes
<1>2. ModeInv'
  BY <1>1 DEF ModeInv
<1> QED
  BY <1>2 DEF IInv

LEMMA SlotsQueueIdle ==
    ASSUME SlotsInv, job' = job, UNCHANGED denseVars
    PROVE  QueueIdle' /\ hist' = <<>> /\ Lanes' = Lanes /\ Streams' = Streams
  BY DEF SlotsInv, QueueIdle, denseVars, queue, Lanes, Streams, Reqs

\* The text of a slot: its prompt, the choice after it, and what it has emitted.
LEMMA SlotText ==
    ASSUME job \in Jobs, job.mode \in SlotModes, StreamsInv, NEW s \in Lanes
    PROVE  /\ out[s] \in Rows /\ Len(out[s]) \in Nat /\ Text(s) \in Rows
           /\ Len(Text(s)) = Plen(s) + 1 + Len(out[s])
           /\ SubSeq(Text(s), 1, Plen(s)) = PromptIn(s)
           /\ \A i \in 1 .. Plen(s) : Text(s)[i] = PromptIn(s)[i]
           /\ Text(s)[Plen(s) + 1] = Choice(job.model, PromptIn(s))
           /\ Continued(PromptOf[s], out[s]) /\ PromptOf[s] \in Rows /\ Len(PromptOf[s]) # 0
<1>1. PICK p, c, o, n : /\ p = PromptIn(s) /\ c = Choice(job.model, PromptIn(s)) /\ o = out[s]
                        /\ n = Plen(s)
  OBVIOUS
<1>2. p \in Rows /\ c \in Tokens /\ n \in Nat /\ n = Len(p) /\ PromptOf[s] = Append(p, c)
  BY <1>1, PromptFacts
<1>3. o \in Rows /\ Continued(PromptOf[s], o)
  BY <1>1, LanesFit DEF StreamsInv
<1>4. /\ Append(p, c) \in Rows /\ Len(Append(p, c)) = n + 1
      /\ SubSeq(Append(p, c), 1, n) = p /\ Append(p, c)[n + 1] = c
  BY <1>2, WithChoice
<1>5. PICK q : q = Append(p, c)
  OBVIOUS
<1>6. Text(s) = q \o o
  BY <1>1, <1>2, <1>5 DEF Text
<1>7. q \in Rows /\ Len(q) = n + 1 /\ SubSeq(q, 1, n) = p /\ q[n + 1] = c
  BY <1>4, <1>5
<1>8. /\ q \o o \in Rows /\ Len(q \o o) = Len(q) + Len(o) /\ Len(o) \in Nat
      /\ \A i \in 1 .. Len(q) : (q \o o)[i] = q[i]
  BY <1>3, <1>7, TextTypes
<1>9. PICK x : x = q \o o
  OBVIOUS
<1>10. x \in Rows /\ Len(x) = n + 1 + Len(o) /\ \A i \in 1 .. n + 1 : x[i] = q[i]
  BY <1>2, <1>7, <1>8, <1>9
<1>11. \A i \in 1 .. n : q[i] = p[i]
  <2>1. \A i \in 1 .. n : SubSeq(q, 1, n)[i] = q[i]
    BY <1>2, <1>7 DEF Rows
  <2> QED
    BY <2>1, <1>7
<1>12. x[n + 1] = c /\ \A i \in 1 .. n : x[i] = p[i]
  BY <1>2, <1>7, <1>10, <1>11
<1>13. SubSeq(x, 1, n) = p
  <2>1. SubSeq(x, 1, n) \in Rows /\ Len(SubSeq(x, 1, n)) = n
    BY <1>2, <1>8, <1>10, FirstRows
  <2>2. \A i \in 1 .. n : SubSeq(x, 1, n)[i] = x[i]
    BY <1>2, <1>8, <1>10 DEF Rows
  <2> QED
    BY <1>2, <1>12, <2>1, <2>2, SeqEqual DEF Rows
<1>14. PromptOf[s] \in Rows /\ Len(PromptOf[s]) # 0
  BY <1>2, <1>5, <1>7
<1>15. Text(s) = x
  BY <1>6, <1>9
<1> QED
  BY <1>1, <1>3, <1>8, <1>9, <1>10, <1>12, <1>13, <1>14, <1>15

\* What a step does to a slot it feeds, whose column is answered by a.
SlotMoves(s, a) ==
    /\ a = Choice(job.model, SubSeq(Text(s), 1, cbpos[s] + 1))
    /\ Holds(job.kind, lanes'[s], SubSeq(Text(s), 1, cbpos[s] + 1))
    /\ cbpos'[s] = cbpos[s] + 1
    /\ out'[s] = IF cbpos[s] + 1 - Plen(s) > 0 THEN Append(out[s], a) ELSE out[s]
    /\ tok'[s] = IF cbpos[s] + 1 - Plen(s) >= 0 THEN a ELSE tok[s]
    /\ active'[s] = IF SlotEnds(s, Len(out'[s]), cbpos[s] + 1) THEN 0 ELSE 1

\* A slot that is fed.
LEMMA FeedingFacts ==
    ASSUME job \in Jobs, job.mode \in SlotModes, StreamsInv, NEW s \in Lanes,
           active[s] = 1, SlotInv(s)
    PROVE  /\ cbpos[s] \in Nat /\ cbpos[s] < CbMaxPos /\ Len(out[s]) < job.maxnew[s]
           /\ cbpos[s] + 1 <= Len(Text(s)) /\ FedToken(s) = Text(s)[cbpos[s] + 1]
           /\ Text(s)[cbpos[s] + 1] \in Tokens
           /\ SubSeq(Text(s), 1, cbpos[s]) \in Rows /\ Len(SubSeq(Text(s), 1, cbpos[s])) = cbpos[s]
           /\ SubSeq(Text(s), 1, cbpos[s] + 1) =
                 Append(SubSeq(Text(s), 1, cbpos[s]), Text(s)[cbpos[s] + 1])
           /\ Keeps(s, SubSeq(Text(s), 1, cbpos[s]))
<1>1. PICK x, c, n, m : x = Text(s) /\ c = cbpos[s] /\ n = Plen(s) /\ m = Len(out[s])
  OBVIOUS
<1>2. /\ n \in Nat /\ 1 <= n /\ m \in Nat /\ x \in Rows /\ Len(x) = n + 1 + m
      /\ \A i \in 1 .. n : x[i] = PromptIn(s)[i]
  BY <1>1, PromptFacts, SlotText
<1>3. /\ c \in Nat /\ c < CbMaxPos /\ m < job.maxnew[s] /\ Keeps(s, SubSeq(x, 1, c))
      /\ (c < n /\ out[s] = <<>>) \/ (c = n + m /\ tok[s] = x[c + 1])
  BY <1>1, PromptFacts DEF SlotInv
<1>4. c + 1 <= Len(x)
  BY <1>2, <1>3
<1>5. FedToken(s) = x[c + 1]
  <2>1. CASE c < n
    <3>1. FedToken(s) = PromptIn(s)[c + 1]
      BY <1>1, <2>1 DEF FedToken
    <3>2. c + 1 \in 1 .. n
      BY <1>2, <1>3, <2>1
    <3> QED
      BY <1>2, <3>1, <3>2
  <2>2. CASE ~ (c < n)
    <3>1. FedToken(s) = tok[s]
      BY <1>1, <2>2 DEF FedToken
    <3> QED
      BY <1>3, <2>2, <3>1
  <2> QED
    BY <2>1, <2>2
<1>6. /\ SubSeq(x, 1, c) \in Rows /\ Len(SubSeq(x, 1, c)) = c /\ x[c + 1] \in Tokens
      /\ SubSeq(x, 1, c + 1) = Append(SubSeq(x, 1, c), x[c + 1])
  <2>1. Len(x) \in Nat /\ c <= Len(x) /\ c < Len(x)
    BY <1>2, <1>3, <1>4
  <2> QED
    BY <1>2, <1>3, <2>1, FirstRows
<1> QED
  BY <1>1, <1>3, <1>4, <1>5, <1>6

LEMMA SlotMovesOn ==
    ASSUME job \in Jobs, job.mode \in SlotModes, StreamsInv, job' = job, NEW s \in Lanes,
           active[s] = 1, SlotInv(s), NEW a, SlotMoves(s, a)
    PROVE  /\ SlotInv(s)' /\ out'[s] \in Rows /\ Continued(PromptOf[s], out'[s])
           /\ cbpos'[s] \in 0 .. CbMaxPos /\ active'[s] \in {0, 1}
<1>1. PICK x, c, n, m, k : /\ x = Text(s) /\ c = cbpos[s] /\ n = Plen(s) /\ m = Len(out[s])
                           /\ k = job.maxnew[s]
  OBVIOUS
<1>2. /\ n \in Nat /\ 1 <= n /\ n < CbMaxPos /\ m \in Nat /\ k \in Nat /\ 1 <= k
      /\ CbMaxPos \in Nat /\ x \in Rows /\ Len(x) = n + 1 + m /\ out[s] \in Rows
      /\ SubSeq(x, 1, n) = PromptIn(s) /\ x[n + 1] = Choice(job.model, PromptIn(s))
      /\ Continued(PromptOf[s], out[s]) /\ PromptOf[s] \in Rows /\ Len(PromptOf[s]) # 0
  BY <1>1, PromptFacts, SlotText
<1>3. /\ c \in Nat /\ c < CbMaxPos /\ m < k
      /\ (c < n /\ out[s] = <<>>) \/ (c = n + m /\ tok[s] = x[c + 1])
  BY <1>1, <1>2 DEF SlotInv
<1>4. /\ a = Choice(job.model, SubSeq(x, 1, c + 1))
      /\ Holds(job.kind, lanes'[s], SubSeq(x, 1, c + 1))
      /\ cbpos'[s] = c + 1
      /\ out'[s] = IF c + 1 > n THEN Append(out[s], a) ELSE out[s]
      /\ tok'[s] = IF c + 1 >= n THEN a ELSE tok[s]
      /\ active'[s] = IF Len(out'[s]) >= k \/ c + 1 >= CbMaxPos THEN 0 ELSE 1
  <2>1. (c + 1 - n > 0 <=> c + 1 > n) /\ (c + 1 - n >= 0 <=> c + 1 >= n)
    BY <1>2, <1>3
  <2> QED
    BY <1>1, <2>1 DEF SlotMoves, SlotEnds
<1>5. /\ PromptOf' = PromptOf /\ Plen(s)' = n /\ job'.maxnew[s] = k /\ Text(s)' = PromptOf[s] \o out'[s]
  BY <1>1, PromptOfStays DEF Plen, PromptIn, Text
<1>6. SubSeq(x, 1, c + 1) \in Rows
  BY <1>2, <1>3, FirstRows
<1>7. c + 1 \in 0 .. CbMaxPos
  BY <1>2, <1>3
<1>8. CASE c + 1 <= n
  <2>1. out[s] = <<>> /\ m = 0 /\ out'[s] = out[s]
    BY <1>1, <1>2, <1>3, <1>4, <1>8
  <2>2. Text(s)' = x
    BY <1>1, <1>5, <2>1 DEF Text
  <2>3. active'[s] = 1 /\ c + 1 < CbMaxPos /\ Len(out'[s]) < k
    BY <1>1, <1>2, <1>3, <1>4, <1>8, <2>1
  <2>4. Keeps(s, SubSeq(Text(s), 1, cbpos[s]))'
    BY <1>4, <1>6, <2>2 DEF Keeps
  <2>5. (c + 1 < n /\ out'[s] = <<>>) \/ (c + 1 = n + Len(out'[s]) /\ tok'[s] = x[c + 2])
    <3>1. CASE c + 1 < n
      BY <2>1, <3>1
    <3>2. CASE c + 1 = n
      <4>1. tok'[s] = a /\ c + 2 = n + 1
        BY <1>2, <1>3, <1>4, <3>2
      <4>2. a = x[n + 1]
        BY <1>2, <1>4, <3>2
      <4> QED
        BY <1>1, <1>2, <2>1, <3>2, <4>1, <4>2
    <3> QED
      BY <1>2, <1>3, <1>8, <3>1, <3>2
  <2>6. c + 2 = cbpos'[s] + 1
    BY <1>3, <1>4
  <2>8. \/ cbpos'[s] < n /\ out'[s] = <<>>
        \/ cbpos'[s] = n + Len(out'[s]) /\ tok'[s] = x[cbpos'[s] + 1]
    BY <1>4, <2>5, <2>6
  <2>9. \/ cbpos'[s] < Plen(s)' /\ out'[s] = <<>>
        \/ cbpos'[s] = Plen(s)' + Len(out'[s]) /\ tok'[s] = Text(s)'[cbpos'[s] + 1]
    BY <1>5, <2>2, <2>8
  <2>10. cbpos'[s] < CbMaxPos /\ cbpos'[s] \in 0 .. CbMaxPos /\ Len(out'[s]) < job'.maxnew[s]
    BY <1>4, <1>5, <1>7, <2>3
  <2>7. SlotInv(s)'
    BY <2>3, <2>4, <2>9, <2>10 DEF SlotInv
  <2> QED
    BY <1>2, <1>4, <1>7, <2>1, <2>3, <2>7
<1>9. CASE ~ (c + 1 <= n)
  <2>1. c = n + m /\ c + 1 = Len(x) /\ out'[s] = Append(out[s], a)
    BY <1>2, <1>3, <1>4, <1>9
  <2>2. SubSeq(x, 1, c + 1) = x
    BY <1>2, <2>1, FirstRows
  <2>3. a = Choice(job.model, PromptOf[s] \o out[s])
    BY <1>1, <1>4, <2>2 DEF Text
  <2>4. a \in Tokens /\ Append(out[s], a) \in Rows /\ Continued(PromptOf[s], Append(out[s], a))
    BY <1>2, <2>3, Emits
  <2>5. Text(s)' = Append(x, a) /\ Len(Append(out[s], a)) = m + 1
    <3>1. /\ PromptOf[s] \o Append(out[s], a) = Append(PromptOf[s] \o out[s], a)
          /\ Len(Append(out[s], a)) = Len(out[s]) + 1
      BY <1>2, <2>4, Extended
    <3>2. x = PromptOf[s] \o out[s]
      BY <1>1 DEF Text
    <3> QED
      BY <1>1, <1>5, <2>1, <3>1, <3>2
  <2>6. SubSeq(Append(x, a), 1, c + 1) = x /\ Append(x, a)[c + 2] = a
    <3>1. c + 2 = Len(x) + 1
      BY <1>3, <2>1
    <3>2. SubSeq(Append(x, a), 1, Len(x)) = x /\ Append(x, a)[Len(x) + 1] = a
      BY <1>2, <2>4, WithChoice
    <3> QED
      BY <2>1, <3>1, <3>2
  <2>7. Keeps(s, SubSeq(Text(s), 1, cbpos[s]))'
    BY <1>2, <1>4, <2>2, <2>5, <2>6 DEF Keeps
  <2>8. c + 1 = n + Len(out'[s]) /\ tok'[s] = Append(x, a)[c + 2] /\ c + 2 = cbpos'[s] + 1
    <3>1. c + 1 = n + (m + 1) /\ c + 2 = c + 1 + 1 /\ c + 1 >= n
      BY <1>2, <1>3, <2>1
    <3> QED
      BY <1>4, <2>1, <2>5, <2>6, <3>1
  <2>9. Len(out'[s]) = m + 1
    BY <2>1, <2>5
  <2>10. active'[s] = 0 => Len(out'[s]) = Lesser(k, CbMaxPos - n)
    <3>1. m + 1 <= k /\ m + 1 <= CbMaxPos - n
      BY <1>2, <1>3, <2>1
    <3>2. active'[s] = 0 => m + 1 >= k \/ m + 1 >= CbMaxPos - n
      BY <1>2, <1>3, <1>4, <2>1, <2>9
    <3> QED
      BY <1>2, <2>9, <3>1, <3>2 DEF Lesser
  <2>11. active'[s] = 1 => c + 1 < CbMaxPos /\ Len(out'[s]) < k
    BY <1>2, <1>3, <1>4, <2>9
  <2>12. SlotInv(s)'
    BY <1>4, <1>5, <1>7, <2>5, <2>7, <2>8, <2>10, <2>11 DEF SlotInv
  <2> QED
    BY <1>4, <1>7, <2>1, <2>4, <2>12
<1> QED
  BY <1>2, <1>3, <1>8, <1>9

\* What a step does to the slots.
SlotSteps(F, a) ==
    /\ out' = [r \in Streams |-> IF r \in F /\ cbpos[r] + 1 - Plen(r) > 0
                                   THEN Append(out[r], a[r]) ELSE out[r]]
    /\ tok' = [s \in Lanes |-> IF s \in F /\ cbpos[s] + 1 - Plen(s) >= 0 THEN a[s] ELSE tok[s]]
    /\ cbpos' = [s \in Lanes |-> IF s \in F THEN cbpos[s] + 1 ELSE cbpos[s]]
    /\ active' = [s \in Lanes |-> IF s \in F /\ ~ SlotEnds(s, Len(out'[s]), cbpos[s] + 1)
                                    THEN 1 ELSE 0]

LEMMA SlotStepFacts ==
    ASSUME SlotStep
    PROVE  /\ pc = "slots" /\ UNCHANGED <<job, pc, logits, pos, scan>>
           /\ Compute(SlotColumns, Written(SlotColumns))
           /\ \E a : /\ a = [s \in Feeding |->
                               Answer(Written(SlotColumns), Column(s, cbpos[s], FedToken(s)))]
                     /\ SlotSteps(Feeding, a)
<1>1. pc = "slots" /\ UNCHANGED <<job, pc, logits, pos, scan>>
  BY DEF SlotStep
<1>2. PICK cs, ls, a : cs = SlotColumns /\ ls = Written(cs)
         /\ a = [s \in Feeding |-> Answer(ls, Column(s, cbpos[s], FedToken(s)))]
  OBVIOUS
<1>3. Compute(cs, ls)
  BY <1>2 DEF SlotStep
<1>4. out' = [r \in Streams |-> IF r \in Feeding /\ cbpos[r] + 1 - Plen(r) > 0
                                  THEN Append(out[r], a[r]) ELSE out[r]]
  BY <1>2 DEF SlotStep
<1>5. SlotSteps(Feeding, a)
  BY <1>2, <1>4 DEF SlotStep, SlotSteps
<1> QED
  BY <1>1, <1>2, <1>3, <1>5

\* The columns of a step of the slots.
SlotsApart(n, cs, L, P, K, ctx) ==
    /\ Separate(n, cs, L, P, K, ctx)
    /\ \A i \in 1 .. n : /\ L[i] \in Feeding
                         /\ cs[i] = Column(L[i], cbpos[L[i]], FedToken(L[i]))
                         /\ Append(ctx[i], K[i]) = SubSeq(Text(L[i]), 1, cbpos[L[i]] + 1)
    /\ \A s \in Feeding : \E i \in 1 .. n : L[i] = s

LEMMA SlotsSeparate ==
    ASSUME IInv, job.mode \in SlotModes, pc = "slots"
    PROVE  \E n, L, P, K, ctx : SlotsApart(n, SlotColumns, L, P, K, ctx)
<1>1. /\ job \in Jobs /\ StreamsInv /\ SlotsInv /\ MostColumns = BatchMax
      /\ Lanes \subseteq LaneSet /\ \A l \in Lanes : LaneEnd(l) = Window
      /\ BatchMax \in Nat /\ B <= BatchMax /\ Window \in Nat /\ CbMaxPos \in Nat
      /\ CbMaxPos <= Window
  BY MoeFacts, SlotFacts
<1>2. ASSUME NEW s \in Feeding
      PROVE  /\ s \in Lanes /\ s \in LaneSet
             /\ cbpos[s] \in Nat /\ cbpos[s] < CbMaxPos
             /\ FedToken(s) = Text(s)[cbpos[s] + 1] /\ Text(s)[cbpos[s] + 1] \in Tokens
             /\ Len(SubSeq(Text(s), 1, cbpos[s])) = cbpos[s]
             /\ SubSeq(Text(s), 1, cbpos[s] + 1) =
                   Append(SubSeq(Text(s), 1, cbpos[s]), Text(s)[cbpos[s] + 1])
             /\ Keeps(s, SubSeq(Text(s), 1, cbpos[s]))
  <2>1. s \in Lanes /\ active[s] = 1
    BY DEF Feeding
  <2>2. SlotInv(s)
    BY <1>1, <2>1 DEF SlotsInv
  <2> QED
    BY <1>1, <2>1, <2>2, FeedingFacts
<1>3. PICK F : F = Feeding
  OBVIOUS
<1>4. F \subseteq Lanes
  BY <1>3 DEF Feeding
<1>5. Cardinality(F) \in Nat /\ Cardinality(F) <= B
  BY <1>4, InOrder
<1>6. PICK L \in [1 .. Cardinality(F) -> F] :
         /\ L = [i \in 1 .. Cardinality(F) |->
                    CHOOSE s \in F : Cardinality({u \in F : u < s}) = i - 1]
         /\ \A i, j \in 1 .. Cardinality(F) : L[i] = L[j] => i = j
         /\ \A s \in F : \E i \in 1 .. Cardinality(F) : L[i] = s
  BY <1>4, InOrder
<1>7. PICK n, cs : n = Cardinality(F) /\ cs = SlotColumns
  OBVIOUS
<1>8. cs = [i \in 1 .. n |-> Column(L[i], cbpos[L[i]], FedToken(L[i]))]
  BY <1>3, <1>6, <1>7 DEF SlotColumns
<1>9. PICK P : P = [i \in 1 .. n |-> cbpos[L[i]]]
  OBVIOUS
<1>10. PICK K : K = [i \in 1 .. n |-> FedToken(L[i])]
  OBVIOUS
<1>11. PICK ctx : ctx = [i \in 1 .. n |-> SubSeq(Text(L[i]), 1, cbpos[L[i]])]
  OBVIOUS
<1>12. ASSUME NEW i \in 1 .. n
       PROVE  /\ L[i] \in F /\ L[i] \in LaneSet /\ P[i] = cbpos[L[i]] /\ K[i] = FedToken(L[i])
              /\ ctx[i] = SubSeq(Text(L[i]), 1, cbpos[L[i]])
              /\ cs[i] = Column(L[i], P[i], K[i])
              /\ K[i] \in Tokens /\ Keeps(L[i], ctx[i]) /\ Len(ctx[i]) = P[i]
              /\ P[i] < LaneEnd(L[i])
              /\ Append(ctx[i], K[i]) = SubSeq(Text(L[i]), 1, cbpos[L[i]] + 1)
  <2>1. L[i] \in F /\ P[i] = cbpos[L[i]] /\ K[i] = FedToken(L[i])
        /\ ctx[i] = SubSeq(Text(L[i]), 1, cbpos[L[i]])
        /\ cs[i] = Column(L[i], cbpos[L[i]], FedToken(L[i]))
    BY <1>6, <1>7, <1>8, <1>9, <1>10, <1>11
  <2>2. PICK s : s = L[i]
    OBVIOUS
  <2>3. s \in Feeding
    BY <1>3, <2>1, <2>2
  <2>4. cbpos[s] < LaneEnd(s)
    BY <1>1, <1>2, <2>3
  <2> QED
    BY <1>2, <2>1, <2>2, <2>3, <2>4
<1>13. cs = [i \in 1 .. n |-> Column(L[i], P[i], K[i])]
  BY <1>8, <1>12
<1>14. L \in [1 .. n -> LaneSet]
  BY <1>1, <1>4, <1>6, <1>7
<1>15. n <= MostColumns
  BY <1>1, <1>5, <1>7, LanesFit
<1>16. Separate(n, cs, L, P, K, ctx)
  BY <1>5, <1>6, <1>7, <1>12, <1>13, <1>14, <1>15 DEF Separate
<1>17. \A i \in 1 .. n : cs[i] = Column(L[i], cbpos[L[i]], FedToken(L[i]))
  BY <1>12
<1>18. SlotsApart(n, cs, L, P, K, ctx)
  <2>1. \A i \in 1 .. n : L[i] \in Feeding
    BY <1>3, <1>12
  <2>2. \A s \in Feeding : \E i \in 1 .. n : L[i] = s
    BY <1>3, <1>6, <1>7
  <2> QED
    BY <1>12, <1>16, <1>17, <2>1, <2>2 DEF SlotsApart
<1> QED
  BY <1>7, <1>18

\* The slots that are fed move on, the others stay.
LEMMA SlotsFed ==
    ASSUME IInv, job.mode \in SlotModes, SlotStep
    PROVE  /\ StepInv'
           /\ \A s \in Feeding : \E a : SlotMoves(s, a)
           /\ \A s \in Lanes \ Feeding : /\ out'[s] = out[s] /\ cbpos'[s] = cbpos[s]
                                         /\ active'[s] = 0
           /\ \A r \in Streams \ Lanes : out'[r] = out[r]
           /\ DOMAIN out' = Streams
           /\ \E f : active' = [s \in Lanes |-> f[s]]
           /\ \E f : cbpos' = [s \in Lanes |-> f[s]]
           /\ DOMAIN tok' = Lanes
<1>1. PICK cs : cs = SlotColumns
  OBVIOUS
<1>2. /\ pc = "slots" /\ job' = job /\ logits' = logits /\ Compute(cs, Written(cs))
  BY <1>1, SlotStepFacts
<1>3. PICK F : F = Feeding
  OBVIOUS
<1>4. PICK a : a = [s \in F |-> Answer(Written(cs), Column(s, cbpos[s], FedToken(s)))]
               /\ SlotSteps(F, a)
  BY <1>1, <1>3, SlotStepFacts
<1>5. PICK n, L, P, K, ctx : SlotsApart(n, cs, L, P, K, ctx)
  BY <1>1, <1>2, SlotsSeparate
<1>6. job \in Jobs /\ StepInv /\ F \subseteq Lanes /\ Lanes \subseteq Streams
  BY <1>3, LanesFit DEF IInv, Feeding
<1>7. FedSeparately(n, cs, L, P, K, ctx)
  BY <1>2, <1>5, <1>6, EachFed DEF SlotsApart
<1>8. StepInv'
  <2>1. LaneSet' = LaneSet /\ Lanes' = Lanes
    BY <1>2 DEF LaneSet, Lanes
  <2> QED
    BY <1>2, <1>6, <1>7, <2>1 DEF StepInv, FedSeparately
<1>9. ASSUME NEW s \in F PROVE SlotMoves(s, a[s])
  <2>1. PICK i \in 1 .. n : L[i] = s
    BY <1>3, <1>5 DEF SlotsApart
  <2>2. /\ cs[i] = Column(s, cbpos[s], FedToken(s))
        /\ Append(ctx[i], K[i]) = SubSeq(Text(s), 1, cbpos[s] + 1)
    BY <1>5, <2>1 DEF SlotsApart
  <2>3. /\ Holds(job.kind, lanes'[s], SubSeq(Text(s), 1, cbpos[s] + 1))
        /\ Answer(Written(cs), cs[i]) = Choice(job.model, SubSeq(Text(s), 1, cbpos[s] + 1))
    BY <1>7, <2>1, <2>2 DEF FedSeparately
  <2>4. a[s] = Choice(job.model, SubSeq(Text(s), 1, cbpos[s] + 1))
    BY <1>4, <2>2, <2>3
  <2>5. s \in Lanes /\ s \in Streams
    BY <1>6
  <2>6. /\ cbpos'[s] = cbpos[s] + 1
        /\ out'[s] = IF cbpos[s] + 1 - Plen(s) > 0 THEN Append(out[s], a[s]) ELSE out[s]
        /\ tok'[s] = IF cbpos[s] + 1 - Plen(s) >= 0 THEN a[s] ELSE tok[s]
        /\ active'[s] = IF SlotEnds(s, Len(out'[s]), cbpos[s] + 1) THEN 0 ELSE 1
    BY <1>4, <2>5 DEF SlotSteps
  <2> QED
    BY <2>3, <2>4, <2>6 DEF SlotMoves
<1>10. ASSUME NEW s \in Lanes \ F
       PROVE  out'[s] = out[s] /\ cbpos'[s] = cbpos[s] /\ active'[s] = 0
  BY <1>4, <1>6 DEF SlotSteps
<1>11. \A r \in Streams \ Lanes : out'[r] = out[r]
  BY <1>4, <1>6 DEF SlotSteps
<1>12. DOMAIN out' = Streams /\ DOMAIN tok' = Lanes
  BY <1>4 DEF SlotSteps
<1>13. PICK f : f = active'
  OBVIOUS
<1>14. active' = [s \in Lanes |-> f[s]]
  <2>1. active' = [s \in Lanes |-> active'[s]]
    BY <1>4 DEF SlotSteps
  <2> QED
    BY <1>13, <2>1
<1>15. PICK g : g = cbpos'
  OBVIOUS
<1>16. cbpos' = [s \in Lanes |-> g[s]]
  <2>1. cbpos' = [s \in Lanes |-> cbpos'[s]]
    BY <1>4 DEF SlotSteps
  <2> QED
    BY <1>15, <2>1
<1>17. \A s \in F : \E b : SlotMoves(s, b)
  BY <1>9
<1> QED
  BY <1>3, <1>8, <1>10, <1>11, <1>12, <1>14, <1>16, <1>17

LEMMA SlotStepKeeps ==
    ASSUME IInv, job.mode \in SlotModes, UNCHANGED denseVars, SlotStep
    PROVE  IInv'
<1>1. /\ pc = "slots" /\ pc' = pc /\ job' = job /\ UNCHANGED <<logits, pos, scan>>
  BY SlotStepFacts
<1>2. job \in Jobs /\ StreamsInv /\ SlotsInv /\ Writing = Lanes /\ Lanes \subseteq Streams
  BY SlotFacts, LanesFit DEF IInv
<1>3. /\ \A s \in Lanes : SlotInv(s) /\ active[s] \in {0, 1} /\ cbpos[s] \in 0 .. CbMaxPos
      /\ pos = -1 /\ scan \in 0 .. B
  BY <1>1, <1>2 DEF SlotsInv
<1>4. /\ QueueIdle' /\ hist' = <<>> /\ Lanes' = Lanes /\ Streams' = Streams
  BY <1>1, <1>2, SlotsQueueIdle
<1>5. ASSUME NEW s \in Lanes
      PROVE  /\ SlotInv(s)' /\ out'[s] \in Rows /\ Continued(PromptOf[s], out'[s])
             /\ cbpos'[s] \in 0 .. CbMaxPos /\ active'[s] \in {0, 1}
  <2>1. CASE s \in Feeding
    <3>1. active[s] = 1
      BY <2>1 DEF Feeding
    <3>2. PICK a : SlotMoves(s, a)
      BY <2>1, SlotsFed
    <3> QED
      BY <1>1, <1>2, <1>3, <3>1, <3>2, SlotMovesOn
  <2>2. CASE s \notin Feeding
    <3>1. active[s] = 0
      BY <1>3, <2>2 DEF Feeding
    <3>2. out'[s] = out[s] /\ cbpos'[s] = cbpos[s] /\ active'[s] = 0
      BY <2>2, SlotsFed
    <3>3. /\ Len(out[s]) = Lesser(job.maxnew[s], CbMaxPos - Plen(s)) /\ cbpos[s] \in 0 .. CbMaxPos
      BY <1>3, <3>1 DEF SlotInv
    <3>4. SlotInv(s)'
      <4>1. Plen(s)' = Plen(s)
        BY <1>1 DEF Plen, PromptIn
      <4>2. /\ cbpos'[s] \in 0 .. CbMaxPos /\ active'[s] # 1
            /\ Len(out'[s]) = Lesser(job'.maxnew[s], CbMaxPos - Plen(s)')
        BY <1>1, <3>2, <3>3, <4>1
      <4> QED
        BY <4>2 DEF SlotInv
    <3>5. out[s] \in Rows /\ Continued(PromptOf[s], out[s])
      BY <1>2 DEF StreamsInv
    <3> QED
      BY <3>2, <3>3, <3>4, <3>5
  <2> QED
    BY <2>1, <2>2
<1>6. out' \in [Streams -> Rows]
  <2>1. \A r \in Streams : out'[r] \in Rows
    <3>1. \A r \in Streams \ Lanes : out'[r] = out[r] /\ out[r] \in Rows
      BY <1>2, SlotsFed DEF StreamsInv
    <3> QED
      BY <1>5, <3>1
  <2>2. out' = [r \in Streams |-> out'[r]]
    BY SlotStepFacts DEF SlotSteps
  <2> QED
    BY <2>1, <2>2
<1>7. StreamsInv'
  <2>1. \A r \in Streams : \/ out'[r] = out[r]
                           \/ r \in Writing /\ Continued(PromptOf[r], out'[r])
    BY <1>2, <1>5, SlotsFed
  <2> QED
    BY <1>1, <1>2, <1>6, <2>1, StreamsAfter
<1>8. active' \in [Lanes -> {0, 1}] /\ cbpos' \in [Lanes -> 0 .. CbMaxPos]
  <2>1. PICK f : active' = [s \in Lanes |-> f[s]]
    BY SlotsFed
  <2>2. PICK g : cbpos' = [s \in Lanes |-> g[s]]
    BY SlotsFed
  <2> QED
    BY <1>5, <2>1, <2>2
<1>9. SlotsInv'
  <2>1. /\ pc' = "slots" /\ pos' = -1 /\ scan' \in 0 .. B /\ DOMAIN tok' = Lanes
        /\ \A s \in Lanes : SlotInv(s)'
    BY <1>1, <1>3, <1>5, SlotsFed
  <2> QED
    BY <1>4, <1>8, <2>1 DEF SlotsInv
<1>10. Completed'
  BY <1>1 DEF Completed
<1> QED
  BY <1>1, <1>7, <1>9, <1>10, SlotsAfter, SlotsFed

\* Parts of a step, one for each slot, in the order of the slots.
Chain(parts, upto) ==
    upto = [s \in 0 .. B |-> IF s = 0 THEN <<>> ELSE upto[s - 1] \o parts[s - 1]]
Parts(parts, mid, T) ==
    /\ mid \in [0 .. B -> [LaneSet -> Nat]]
    /\ \A s \in Lanes : Feeds(parts[s], mid[s], mid[s + 1], T)
    /\ \A s \in Lanes : \A l \in LaneSet : mid[0][l] <= mid[s][l] /\ mid[s][l] <= mid[s + 1][l]

LEMMA ChainExists ==
    ASSUME NEW parts, \A s \in Lanes : parts[s] \in Seq(Columns)
    PROVE  \E upto : Chain(parts, upto)
<1>1. B \in Nat /\ B # 0 /\ \A s \in 0 .. B - 1 : s \in Lanes
  BY LanesFit DEF Lanes
<1> DEFINE X == Seq(Columns)
           F == [s \in 0 .. B - 1 |-> [xs \in X |-> xs \o parts[s]]]
<1>2. <<>> \in X /\ F \in [0 .. B - 1 -> [X -> X]]
  <2>1. ASSUME NEW s \in 0 .. B - 1, NEW xs \in X PROVE xs \o parts[s] \in X
    <3>1. parts[s] \in X
      BY <1>1
    <3> QED
      BY <3>1, Concatenated
  <2> QED
    BY <2>1
<1>3. PICK f : StepByStep(B, F, <<>>, f) /\ f \in [0 .. B -> X]
  <2> HIDE DEF F, X
  <2> QED
    BY <1>1, <1>2, Recursion
<1> HIDE DEF X
<1>4. ASSUME NEW s \in 0 .. B, s # 0 PROVE F[s - 1][f[s - 1]] = f[s - 1] \o parts[s - 1]
  <2>1. s - 1 \in 0 .. B - 1 /\ s - 1 \in 0 .. B
    BY <1>1, <1>4
  <2>2. f[s - 1] \in X
    BY <1>3, <2>1
  <2> QED
    BY <2>1, <2>2
<1>5. f = [s \in 0 .. B |-> IF s = 0 THEN <<>> ELSE F[s - 1][f[s - 1]]]
  BY <1>3 DEF StepByStep
<1> HIDE DEF F
<1>6. \A s \in 0 .. B : f[s] = IF s = 0 THEN <<>> ELSE f[s - 1] \o parts[s - 1]
  <2>1. \A s \in 0 .. B : f[s] = IF s = 0 THEN <<>> ELSE F[s - 1][f[s - 1]]
    BY <1>5
  <2> QED
    BY <1>4, <2>1
<1>7. f = [s \in 0 .. B |-> f[s]]
  BY <1>3
<1>8. Chain(parts, f)
  BY <1>6, <1>7 DEF Chain
<1> QED
  BY <1>8

LEMMA PartsFeed ==
    ASSUME NEW parts, NEW mid, NEW T, Parts(parts, mid, T), NEW upto, Chain(parts, upto)
    PROVE  Feeds(upto[B], mid[0], mid[B], T)
<1>1. /\ B \in Nat /\ B # 0 /\ \A s \in 0 .. B - 1 : s \in Lanes
      /\ mid \in [0 .. B -> [LaneSet -> Nat]]
  BY LanesFit DEF Lanes, Parts
<1>2. \A s \in 0 .. B : upto[s] = IF s = 0 THEN <<>> ELSE upto[s - 1] \o parts[s - 1]
  BY DEF Chain
<1> DEFINE G == {k \in Nat : k <= B => Feeds(upto[k], mid[0], mid[k], T)}
<1>3. 0 \in G
  <2>1. upto[0] = <<>> /\ mid[0] \in [LaneSet -> Nat]
    BY <1>1, <1>2
  <2>2. Feeds(<<>>, mid[0], mid[0], T)
    BY <2>1, FeedsNone
  <2> QED
    BY <2>1, <2>2
<1>4. ASSUME NEW k \in Nat, k \in G PROVE k + 1 \in G
  <2> SUFFICES ASSUME k + 1 <= B PROVE Feeds(upto[k + 1], mid[0], mid[k + 1], T)
    OBVIOUS
  <2>1. k \in Lanes /\ k <= B /\ Feeds(upto[k], mid[0], mid[k], T)
    BY <1>1, <1>4
  <2>2. PICK m : m = k + 1
    OBVIOUS
  <2>3. m \in 0 .. B /\ m # 0 /\ m - 1 = k /\ k \in 0 .. B /\ 0 \in 0 .. B
    BY <1>1, <2>1, <2>2
  <2>4. upto[m] = upto[k] \o parts[k]
    BY <1>2, <2>3
  <2>5. Feeds(parts[k], mid[k], mid[m], T)
    BY <2>1, <2>2 DEF Parts
  <2>6. Rises(mid[0], mid[k], mid[m])
    BY <1>1, <2>1, <2>2, <2>3 DEF Parts, Rises
  <2>7. Feeds(upto[k] \o parts[k], mid[0], mid[m], T)
    BY <2>1, <2>5, <2>6, FeedsInTurn
  <2> QED
    BY <2>2, <2>4, <2>7
<1> HIDE DEF G
<1>5. Nat \subseteq G
  BY <1>3, <1>4, Induction
<1> QED
  BY <1>1, <1>5 DEF G

\* The texts of the slots, and how far the dispatch for all brings their lanes.
SlotTexts == [l \in LaneSet |-> IF l \in Lanes THEN PromptIn(l) ELSE <<>>]
FedUpTo   == [k \in 0 .. B |-> [l \in LaneSet |-> IF l < k THEN Plen(l) ELSE 0]]

LEMMA SlotTextsAre ==
    ASSUME IInv, job.mode \in SlotModes
    PROVE  /\ SlotTexts \in [LaneSet -> Rows] /\ FedUpTo \in [0 .. B -> [LaneSet -> Nat]]
           /\ \A s \in Lanes : SlotTexts[s] = PromptIn(s)
           /\ \A k \in 0 .. B : \A l \in LaneSet :
                 FedUpTo[k][l] = IF l < k THEN Plen(l) ELSE 0
           /\ \A l \in LaneSet : \A k \in 0 .. B : l < k => l \in Lanes
<1>1. job \in Jobs /\ Lanes \subseteq LaneSet /\ LaneSet = 0 .. 2 * B /\ B \in Nat
  BY MoeFacts, SlotFacts, LanesFit
<1>2. \A l \in LaneSet : \A k \in 0 .. B : l < k => l \in Lanes
  BY <1>1 DEF Lanes
<1>3. \A l \in Lanes : PromptIn(l) \in Rows /\ Plen(l) \in Nat
  BY <1>1, PromptFacts
<1>4. <<>> \in Rows
  BY DEF Rows
<1>5. SlotTexts \in [LaneSet -> Rows]
  BY <1>3, <1>4 DEF SlotTexts
<1>6. \A k \in 0 .. B : \A l \in LaneSet : (IF l < k THEN Plen(l) ELSE 0) \in Nat
  BY <1>2, <1>3
<1>7. FedUpTo \in [0 .. B -> [LaneSet -> Nat]]
  BY <1>6 DEF FedUpTo
<1>8. \A s \in Lanes : SlotTexts[s] = PromptIn(s)
  BY <1>1 DEF SlotTexts
<1>9. \A k \in 0 .. B : \A l \in LaneSet : FedUpTo[k][l] = IF l < k THEN Plen(l) ELSE 0
  BY DEF FedUpTo
<1> QED
  BY <1>2, <1>5, <1>7, <1>8, <1>9

\* The prompt of a slot in a lane.
OnePrompt(s, l, lo, hi, T) ==
    /\ lo \in [LaneSet -> Nat] /\ hi \in [LaneSet -> Nat] /\ T \in [LaneSet -> Rows]
    /\ T[l] = PromptIn(s) /\ lo[l] = 0 /\ hi[l] = Plen(s)
    /\ \A m \in LaneSet \ {l} : hi[m] = lo[m]

LEMMA PromptForFeeds ==
    ASSUME IInv, job.mode \in SlotModes, NEW s \in Lanes, NEW l \in LaneSet,
           NEW lo, NEW hi, NEW T, OnePrompt(s, l, lo, hi, T)
    PROVE  Feeds(PromptFor(s, l), lo, hi, T) /\ Len(PromptFor(s, l)) = Plen(s)
<1>1. PICK n, cs : n = Plen(s) /\ cs = PromptFor(s, l)
  OBVIOUS
<1>2. /\ n \in Nat /\ n < CbMaxPos /\ CbMaxPos \in Nat /\ CbMaxPos <= MaxSeq
      /\ n = Len(PromptIn(s))
  BY <1>1, PromptFacts DEF IInv
<1>3. /\ lo \in [LaneSet -> Nat] /\ hi \in [LaneSet -> Nat] /\ T \in [LaneSet -> Rows]
      /\ T[l] = PromptIn(s) /\ lo[l] = 0 /\ hi[l] = n
      /\ \A m \in LaneSet \ {l} : hi[m] = lo[m]
  BY <1>1 DEF OnePrompt
<1>4. cs = [i \in 1 .. n |-> Column(l, 0 + i - 1, T[l][0 + i])]
  <2>1. cs = [i \in 1 .. n |-> Column(l, i - 1, T[l][i])]
    BY <1>1, <1>3 DEF PromptFor
  <2>2. \A i \in 1 .. n : 0 + i - 1 = i - 1 /\ 0 + i = i
    BY <1>2
  <2> QED
    BY <2>1, <2>2
<1>5. 0 \in Nat /\ 0 + n <= MaxSeq /\ 0 + n <= Len(T[l]) /\ hi[l] = 0 + n
  BY <1>2, <1>3, Sizes
<1>6. Consecutive(n, l, 0, cs, lo, hi, T)
  BY <1>2, <1>3, <1>4, <1>5 DEF Consecutive
<1> QED
  BY <1>1, <1>6, FeedsRun

SlotChain(upto) ==
    upto = [s \in 0 .. B |-> IF s = 0 THEN <<>> ELSE upto[s - 1] \o PromptFor(s - 1, s - 1)]

LEMMA AllPromptsFeed ==
    ASSUME IInv, job.mode \in SlotModes
    PROVE  Feeds(AllPrompts, FedUpTo[0], FedUpTo[B], SlotTexts)
<1>1. PICK parts : parts = [s \in Lanes |-> PromptFor(s, s)]
  OBVIOUS
<1>2. PICK mid, T : mid = FedUpTo /\ T = SlotTexts
  OBVIOUS
<1>3. /\ T \in [LaneSet -> Rows] /\ mid \in [0 .. B -> [LaneSet -> Nat]]
      /\ \A s \in Lanes : T[s] = PromptIn(s)
      /\ \A k \in 0 .. B : \A l \in LaneSet : mid[k][l] = IF l < k THEN Plen(l) ELSE 0
      /\ \A l \in LaneSet : l \in Nat
      /\ B \in Nat /\ Lanes \subseteq LaneSet
  BY <1>2, SlotTextsAre, LanesFit
<1>4. \A s \in Lanes : s \in Nat /\ s < B /\ s \in 0 .. B /\ s + 1 \in 0 .. B
  BY LanesFit DEF Lanes
<1>5. ASSUME NEW s \in Lanes
      PROVE  /\ Feeds(parts[s], mid[s], mid[s + 1], T)
             /\ \A l \in LaneSet : mid[0][l] <= mid[s][l] /\ mid[s][l] <= mid[s + 1][l]
  <2>1. PICK k : k = s + 1
    OBVIOUS
  <2>2. s \in Nat /\ s \in 0 .. B /\ k \in 0 .. B /\ 0 \in 0 .. B /\ s \in LaneSet
    BY <1>3, <1>4, <2>1
  <2>3. PICK lo, hi : lo = mid[s] /\ hi = mid[k]
    OBVIOUS
  <2>4. lo \in [LaneSet -> Nat] /\ hi \in [LaneSet -> Nat] /\ mid[0] \in [LaneSet -> Nat]
    BY <1>3, <2>2, <2>3
  <2>5. /\ \A l \in LaneSet : lo[l] = IF l < s THEN Plen(l) ELSE 0
        /\ \A l \in LaneSet : hi[l] = IF l < k THEN Plen(l) ELSE 0
        /\ \A l \in LaneSet : mid[0][l] = IF l < 0 THEN Plen(l) ELSE 0
    BY <1>3, <2>2, <2>3
  <2>6. /\ s < k /\ ~ (s < s)
        /\ \A l \in LaneSet : l # s => (l < k <=> l < s)
        /\ \A l \in LaneSet : ~ (l < 0)
    BY <1>3, <2>1, <2>2
  <2>7. lo[s] = 0 /\ hi[s] = Plen(s) /\ \A l \in LaneSet \ {s} : hi[l] = lo[l]
    BY <2>2, <2>5, <2>6
  <2>8. OnePrompt(s, s, lo, hi, T)
    BY <1>3, <2>4, <2>7 DEF OnePrompt
  <2>9. Feeds(parts[s], lo, hi, T)
    BY <1>1, <2>2, <2>8, PromptForFeeds
  <2>10. ASSUME NEW l \in LaneSet PROVE mid[0][l] <= lo[l] /\ lo[l] <= hi[l]
    <3>1. lo[l] \in Nat /\ hi[l] \in Nat /\ mid[0][l] = 0
      BY <2>4, <2>5, <2>6
    <3>2. CASE l = s
      BY <2>7, <3>1, <3>2
    <3>3. CASE l # s
      BY <2>7, <3>1, <3>3
    <3> QED
      BY <3>2, <3>3
  <2> QED
    BY <2>1, <2>3, <2>9, <2>10
<1>6. Parts(parts, mid, T)
  BY <1>3, <1>5 DEF Parts
<1>7. \A s \in Lanes : parts[s] \in Seq(Columns)
  BY <1>5 DEF Feeds
<1>8. \A s \in 0 .. B : s # 0 => parts[s - 1] = PromptFor(s - 1, s - 1)
  <2>1. \A s \in 0 .. B : s # 0 => s - 1 \in Lanes
    BY <1>3 DEF Lanes
  <2> QED
    BY <1>1, <2>1
<1>9. \A f : SlotChain(f) <=> Chain(parts, f)
  BY <1>8 DEF SlotChain, Chain
<1>10. PICK f : SlotChain(f)
  BY <1>7, <1>9, ChainExists
<1> DEFINE g == CHOOSE upto : SlotChain(upto)
<1>11. SlotChain(g)
  BY <1>10
<1>12. AllPrompts = g[B]
  BY DEF AllPrompts, SlotChain
<1> HIDE DEF g
<1>13. Chain(parts, g)
  BY <1>9, <1>11
<1>14. Feeds(g[B], mid[0], mid[B], T)
  BY <1>6, <1>13, PartsFeed
<1> QED
  BY <1>2, <1>12, <1>14

\* A slot whose prompt has been computed, as its text begins.
SlotStarts(s) ==
    /\ Holds(job.kind, lanes'[s], PromptIn(s)) /\ tok'[s] = Choice(job.model, PromptIn(s))
    /\ cbpos'[s] = Plen(s) /\ active'[s] = 1 /\ out'[s] = <<>>

LEMMA SlotHasStarted ==
    ASSUME job \in Jobs, job.mode \in SlotModes, job' = job, NEW s \in Lanes, SlotStarts(s)
    PROVE  SlotInv(s)' /\ cbpos'[s] \in 0 .. CbMaxPos
<1>1. PICK p, c, n : p = PromptIn(s) /\ c = Choice(job.model, p) /\ n = Plen(s)
  OBVIOUS
<1>2. /\ p \in Rows /\ n \in Nat /\ 1 <= n /\ n < CbMaxPos /\ n = Len(p) /\ CbMaxPos \in Nat
      /\ job.maxnew[s] \in Nat /\ 1 <= job.maxnew[s] /\ c \in Tokens /\ PromptOf[s] = Append(p, c)
  BY <1>1, PromptFacts
<1>3. /\ Append(p, c) \in Rows /\ SubSeq(Append(p, c), 1, n) = p /\ Append(p, c)[n + 1] = c
  BY <1>2, WithChoice
<1>4. /\ Holds(job.kind, lanes'[s], p) /\ tok'[s] = c /\ cbpos'[s] = n /\ active'[s] = 1
      /\ out'[s] = <<>>
  BY <1>1 DEF SlotStarts
<1>5. <<>> \in Rows /\ Len(<<>>) = 0
  BY DEF Rows
<1>6. Text(s)' = Append(p, c)
  <2>1. Text(s)' = PromptOf[s] \o <<>>
    BY <1>4, PromptOfStays DEF Text
  <2>2. Append(p, c) \o <<>> = Append(p, c)
    BY <1>3, <1>5, TextTypes
  <2> QED
    BY <1>2, <2>1, <2>2
<1>7. Plen(s)' = n
  BY <1>1 DEF Plen, PromptIn
<1>8. Keeps(s, SubSeq(Text(s), 1, cbpos[s]))'
  BY <1>2, <1>3, <1>4, <1>6 DEF Keeps
<1>9. cbpos'[s] = Plen(s)' + Len(out'[s]) /\ tok'[s] = Text(s)'[cbpos'[s] + 1]
  BY <1>2, <1>3, <1>4, <1>5, <1>6, <1>7
<1>10. /\ cbpos'[s] \in 0 .. CbMaxPos /\ cbpos'[s] < CbMaxPos /\ Len(out'[s]) < job'.maxnew[s]
       /\ active'[s] # 0
  BY <1>2, <1>4, <1>5
<1> QED
  BY <1>8, <1>9, <1>10 DEF SlotInv

LEMMA AllPromptsFed ==
    ASSUME IInv, job.mode \in SlotModes, job' = job, logits' = logits,
           Len(AllPrompts) <= BatchMax, Compute(AllPrompts, Written(AllPrompts))
    PROVE  /\ StepInv'
           /\ \A s \in Lanes :
                 /\ Holds(job.kind, lanes'[s], PromptIn(s))
                 /\ Answer(Written(AllPrompts), Column(s, Plen(s) - 1, PromptIn(s)[Plen(s)])) =
                       Choice(job.model, PromptIn(s))
<1>1. PICK cs, lo, hi, T : /\ cs = AllPrompts /\ lo = FedUpTo[0] /\ hi = FedUpTo[B]
                           /\ T = SlotTexts
  OBVIOUS
<1>2. /\ job \in Jobs /\ StepInv /\ MostColumns = BatchMax /\ job.kind = "fp32"
      /\ Lanes \subseteq LaneSet /\ \A l \in Lanes : LaneEnd(l) = Window
      /\ CbMaxPos <= Window /\ CbMaxPos \in Nat /\ Window \in Nat /\ \A l \in LaneSet : l \in Nat
      /\ B \in Nat /\ B # 0 /\ \A s \in Lanes : s < B
  BY SlotFacts, MoeFacts, LanesFit DEF Lanes
<1>3. 0 \in 0 .. B /\ B \in 0 .. B
  BY <1>2
<1>4. /\ lo \in [LaneSet -> Nat] /\ hi \in [LaneSet -> Nat] /\ T \in [LaneSet -> Rows]
      /\ \A l \in LaneSet : lo[l] = IF l < 0 THEN Plen(l) ELSE 0
      /\ \A l \in LaneSet : hi[l] = IF l < B THEN Plen(l) ELSE 0
      /\ \A s \in Lanes : T[s] = PromptIn(s)
      /\ \A l \in LaneSet : l < B => l \in Lanes
  BY <1>1, <1>3, SlotTextsAre
<1>5. \A l \in LaneSet : lo[l] = 0
  BY <1>2, <1>4
<1>6. Feeds(cs, lo, hi, T) /\ Len(cs) <= MostColumns /\ Compute(cs, Written(cs))
  BY <1>1, <1>2, AllPromptsFeed
<1>7. Ready(lo, hi, T)
  <2>1. ASSUME NEW l \in LaneSet, lo[l] < hi[l]
        PROVE  /\ Holds(job.kind, lanes[l], SubSeq(T[l], 1, lo[l])) /\ hi[l] <= Len(T[l])
               /\ job.kind # "int4" /\ hi[l] <= LaneEnd(l)
    <3>1. l \in Lanes
      BY <1>4, <1>5, <2>1
    <3>2. Plen(l) = Len(PromptIn(l)) /\ Plen(l) \in Nat /\ Plen(l) < CbMaxPos /\ PromptIn(l) \in Rows
      BY <1>2, <3>1, PromptFacts
    <3>3. hi[l] = Plen(l) /\ T[l] = PromptIn(l) /\ LaneEnd(l) = Window
      BY <1>2, <1>4, <3>1
    <3>4. SubSeq(T[l], 1, 0) = <<>>
      BY <3>2, <3>3 DEF Rows
    <3>5. Holds(job.kind, lanes[l], SubSeq(T[l], 1, lo[l]))
      BY <1>5, <3>4, EmptyHolds
    <3>6. hi[l] <= Len(T[l]) /\ hi[l] <= LaneEnd(l)
      BY <1>2, <3>2, <3>3
    <3> QED
      BY <1>2, <3>5, <3>6
  <2> QED
    BY <1>4, <2>1 DEF Ready
<1>8. /\ lanes' \in [LaneSet -> LaneType] /\ clear' = TRUE /\ DispatchFits'
      /\ \A l \in LaneSet :
            IF lo[l] < hi[l] THEN Holds(job.kind, lanes'[l], SubSeq(T[l], 1, hi[l]))
                             ELSE lanes'[l] = lanes[l]
  BY <1>2, <1>6, <1>7, Fed
<1>9. ASSUME NEW s \in Lanes
      PROVE  /\ Holds(job.kind, lanes'[s], PromptIn(s))
             /\ Answer(Written(cs), Column(s, Plen(s) - 1, PromptIn(s)[Plen(s)])) =
                   Choice(job.model, PromptIn(s))
  <2>1. PICK n, p, x : n = Plen(s) /\ p = Plen(s) - 1 /\ x = PromptIn(s)
    OBVIOUS
  <2>2. /\ s \in LaneSet /\ x \in Rows /\ n \in Nat /\ 1 <= n /\ n = Len(x)
        /\ lo[s] = 0 /\ hi[s] = n /\ T[s] = x
    BY <1>2, <1>4, <1>5, <2>1, PromptFacts
  <2>3. p \in lo[s] .. hi[s] - 1 /\ p + 1 = n /\ lo[s] < hi[s]
    BY <2>1, <2>2
  <2>4. SubSeq(x, 1, n) = x
    BY <2>2, FirstRows
  <2>5. Holds(job.kind, lanes'[s], SubSeq(T[s], 1, hi[s]))
    BY <1>8, <2>2, <2>3
  <2>6. Answer(Written(cs), Column(s, p, T[s][p + 1])) = Choice(job.model, SubSeq(T[s], 1, p + 1))
    <3>1. job \in Jobs /\ StepInv /\ s \in LaneSet /\ p \in lo[s] .. hi[s] - 1
      BY <1>2, <2>2, <2>3
    <3> QED
      BY <1>6, <1>7, <3>1, Answered
  <2> QED
    BY <2>1, <2>2, <2>3, <2>4, <2>5, <2>6
<1>10. StepInv'
  <2>1. LaneSet' = LaneSet /\ Lanes' = Lanes
    BY DEF LaneSet, Lanes
  <2> QED
    BY <1>2, <1>8, <2>1 DEF StepInv
<1> QED
  BY <1>1, <1>9, <1>10

\* Which of these batches a state belongs to.
LEMMA SlotControl ==
    ASSUME SlotsInv, job.mode \in SlotModes
    PROVE  /\ pc \in {"warmup", "combined"} => job.mode = "combined"
           /\ pc = "scalar" => job.mode = "scalar"
           /\ pc \in {"slots", "done", "failed", "warmup", "combined", "scalar"}
           /\ pos = -1 /\ scan \in 0 .. B /\ DOMAIN tok = Lanes
           /\ active \in [Lanes -> {0, 1}] /\ cbpos \in [Lanes -> 0 .. CbMaxPos]
<1>1. CASE job.mode = "feed"
  BY <1>1 DEF SlotsInv
<1>2. CASE job.mode = "combined"
  BY <1>2 DEF SlotsInv
<1>3. CASE job.mode = "scalar"
  BY <1>3 DEF SlotsInv
<1> QED
  BY <1>1, <1>2, <1>3 DEF SlotModes

LEMMA AllPromptsStay == ASSUME job' = job PROVE AllPrompts' = AllPrompts
  BY DEF AllPrompts, PromptFor, Plen, PromptIn, Column

LEMMA WarmupKeeps ==
    ASSUME IInv, job.mode \in SlotModes, UNCHANGED denseVars, Warmup
    PROVE  IInv'
<1>1. /\ pc = "warmup" /\ job' = job /\ logits' = logits
      /\ UNCHANGED <<pos, out, active, tok, cbpos, scan>>
  BY DEF Warmup, slots
<1>2. /\ job \in Jobs /\ StreamsInv /\ StepInv /\ SlotsInv
      /\ job.mode = "combined" /\ pos = -1 /\ scan \in 0 .. B /\ DOMAIN tok = Lanes
      /\ active \in [Lanes -> {0, 1}] /\ cbpos \in [Lanes -> 0 .. CbMaxPos]
  BY <1>1, SlotFacts, SlotControl DEF IInv
<1>3. QueueIdle' /\ hist' = <<>> /\ Lanes' = Lanes /\ Streams' = Streams
  BY <1>1, <1>2, SlotsQueueIdle
<1>4. active = [s \in Lanes |-> 1] /\ out = [r \in Streams |-> <<>>]
  BY <1>1, <1>2 DEF SlotsInv
<1>5. StreamsInv'
  BY <1>1, <1>2, StreamsStay
<1>6. StepInv' /\ \/ pc' = "failed"
                  \/ pc' = "combined" /\ Len(AllPrompts) <= BatchMax
  <2>1. CASE Len(AllPrompts) > BatchMax
    <3>1. pc' = "failed" /\ UNCHANGED engine
      BY <1>1, <2>1 DEF Warmup, engine
    <3> QED
      BY <1>1, <1>2, <3>1, StepStays
  <2>2. CASE ~ (Len(AllPrompts) > BatchMax)
    <3>1. pc' = "combined" /\ Compute(AllPrompts, Written(AllPrompts))
      BY <2>2 DEF Warmup
    <3>2. Len(AllPrompts) <= BatchMax
      <4>1. Len(AllPrompts) \in Nat /\ BatchMax \in Nat
        BY <1>2, AllPromptsFeed, FeedsTypes, MoeAssumption
      <4> QED
        BY <2>2, <4>1
    <3> QED
      BY <1>1, <1>2, <3>1, <3>2, AllPromptsFed
  <2> QED
    BY <2>1, <2>2
<1>7. SlotsInv'
  <2>1. pc' = "combined" => (Len(AllPrompts) <= BatchMax)'
    BY <1>1, <1>6, AllPromptsStay
  <2>2. /\ pc' \in {"failed", "combined"} /\ job'.mode = "combined" /\ pos' = -1
        /\ scan' \in 0 .. B /\ DOMAIN tok' = Lanes /\ active' \in [Lanes -> {0, 1}]
        /\ cbpos' \in [Lanes -> 0 .. CbMaxPos]
        /\ active' = [s \in Lanes |-> 1] /\ out' = [r \in Streams |-> <<>>]
    BY <1>1, <1>2, <1>4, <1>6
  <2> QED
    BY <1>3, <2>1, <2>2 DEF SlotsInv
<1>8. Completed'
  BY <1>6 DEF Completed
<1> QED
  BY <1>1, <1>5, <1>6, <1>7, <1>8, SlotsAfter

LEMMA CombinedPrefillKeeps ==
    ASSUME IInv, job.mode \in SlotModes, UNCHANGED denseVars, CombinedPrefill
    PROVE  IInv'
<1>1. /\ pc = "combined" /\ pc' = "slots" /\ job' = job /\ logits' = logits
      /\ UNCHANGED <<pos, out, active, scan>> /\ cbpos' = [s \in Lanes |-> Plen(s)]
  BY DEF CombinedPrefill
<1>2. PICK cs : cs = AllPrompts
  OBVIOUS
<1>3. /\ Compute(cs, Written(cs))
      /\ tok' = [s \in Lanes |-> Answer(Written(cs),
                                        Column(s, Plen(s) - 1, PromptIn(s)[Plen(s)]))]
  BY <1>2 DEF CombinedPrefill
<1>4. /\ job \in Jobs /\ StreamsInv /\ SlotsInv
      /\ job.mode = "combined" /\ pos = -1 /\ scan \in 0 .. B /\ Lanes \subseteq Streams
      /\ active = [s \in Lanes |-> 1] /\ out = [r \in Streams |-> <<>>]
      /\ Len(cs) <= BatchMax
  <2>1. SlotsInv /\ job \in Jobs /\ StreamsInv
    BY SlotFacts DEF IInv
  <2> QED
    BY <1>1, <1>2, <2>1, SlotControl, LanesFit DEF SlotsInv
<1>5. QueueIdle' /\ hist' = <<>> /\ Lanes' = Lanes /\ Streams' = Streams
  BY <1>1, <1>4, SlotsQueueIdle
<1>6. /\ StepInv'
      /\ \A s \in Lanes :
            /\ Holds(job.kind, lanes'[s], PromptIn(s))
            /\ Answer(Written(cs), Column(s, Plen(s) - 1, PromptIn(s)[Plen(s)])) =
                  Choice(job.model, PromptIn(s))
  BY <1>1, <1>2, <1>3, <1>4, AllPromptsFed
<1>7. ASSUME NEW s \in Lanes PROVE SlotInv(s)' /\ cbpos'[s] \in 0 .. CbMaxPos
  <2>1. tok'[s] = Choice(job.model, PromptIn(s))
    BY <1>3, <1>6
  <2>2. cbpos'[s] = Plen(s) /\ active'[s] = 1 /\ out'[s] = <<>>
    BY <1>1, <1>4
  <2>3. SlotStarts(s)
    BY <1>6, <2>1, <2>2 DEF SlotStarts
  <2> QED
    BY <1>1, <1>4, <2>3, SlotHasStarted
<1>8. cbpos' \in [Lanes -> 0 .. CbMaxPos] /\ active' \in [Lanes -> {0, 1}] /\ DOMAIN tok' = Lanes
  BY <1>1, <1>3, <1>4, <1>7
<1>9. SlotsInv'
  BY <1>1, <1>4, <1>5, <1>7, <1>8 DEF SlotsInv
<1>10. StreamsInv' /\ Completed'
  BY <1>1, <1>4, StreamsStay DEF Completed
<1> QED
  BY <1>1, <1>6, <1>9, <1>10, SlotsAfter

\* Rows copied from another lane.
LEMMA CopiedLane ==
    ASSUME NEW lane \in LaneType, NEW from \in LaneType, NEW n \in Nat, n <= MaxSeq,
           NEW ctx \in Rows, Len(ctx) = n, Holds("fp32", from, ctx)
    PROVE  Copied(lane, from, n) \in LaneType /\ Holds("fp32", Copied(lane, from, n), ctx)
<1>1. PICK k, v : /\ k = [p \in Positions |-> IF p < n THEN from.k[p] ELSE lane.k[p]]
                  /\ v = [p \in Positions |-> IF p < n THEN from.v[p] ELSE lane.v[p]]
  OBVIOUS
<1>2. k \in [Positions -> Rows] /\ v \in [Positions -> Rows]
  <2>1. /\ lane.k \in [Positions -> Rows] /\ from.k \in [Positions -> Rows]
        /\ lane.v \in [Positions -> Rows] /\ from.v \in [Positions -> Rows]
    BY DEF LaneType
  <2> QED
    BY <1>1, <2>1
<1>3. PICK new : new = [k |-> k, v |-> v, kblk |-> lane.kblk, kstg |-> lane.kstg, vstg |-> lane.vstg]
  OBVIOUS
<1>4. Copied(lane, from, n) = new
  <2>1. Copied(lane, from, n) = [lane EXCEPT !.k = k, !.v = v]
    BY <1>1 DEF Copied
  <2> QED
    BY <1>3, <2>1 DEF LaneType
<1>5. new \in LaneType
  BY <1>2, <1>3 DEF LaneType
<1>6. \A t \in 0 .. Len(ctx) - 1 : new.k[t] = SubSeq(ctx, 1, t + 1) /\ new.v[t] = SubSeq(ctx, 1, t + 1)
  <2>1. ASSUME NEW t \in 0 .. Len(ctx) - 1 PROVE t \in Positions /\ t < n
    BY <2>1, Sizes DEF Positions
  <2>2. \A t \in 0 .. Len(ctx) - 1 : from.k[t] = SubSeq(ctx, 1, t + 1) /\ from.v[t] = SubSeq(ctx, 1, t + 1)
    BY DEF Holds
  <2>3. \A t \in 0 .. Len(ctx) - 1 : new.k[t] = from.k[t] /\ new.v[t] = from.v[t]
    BY <1>1, <1>3, <2>1
  <2> QED
    BY <2>2, <2>3
<1>7. Holds("fp32", new, ctx)
  BY <1>6 DEF Holds
<1> QED
  BY <1>4, <1>5, <1>7

\* The prompt of a slot, computed in the cache for a single sequence.
LEMMA ComputedAlone ==
    ASSUME IInv, job.mode \in SlotModes, NEW s \in Lanes, NEW cs, NEW ls,
           cs = PromptFor(s, Single), ls = Written(cs)
    PROVE  /\ ls \in [LaneSet -> LaneType]
           /\ \A l \in LaneSet : l # Single => ls[l] = lanes[l]
           /\ Holds(job.kind, ls[Single], PromptIn(s))
           /\ \A i \in 1 .. Len(cs) : Clear(ls, cs[i])
           /\ Answer(ls, cs[Plen(s)]) = Choice(job.model, PromptIn(s))
           /\ Len(cs) = Plen(s) /\ cs[Plen(s)].lane = Single /\ cs[Plen(s)].pos = Plen(s) - 1
<1>1. /\ job \in Jobs /\ StepInv /\ Single \in LaneSet /\ job.kind = "fp32"
      /\ LaneEnd(Single) = MoeMaxPos /\ lanes \in [LaneSet -> LaneType]
      /\ CbMaxPos <= Window /\ Window <= MoeMaxPos /\ Window \in Nat /\ MoeMaxPos \in Nat
  BY MoeFacts, SlotFacts DEF StepInv
<1>2. PICK n, x : n = Plen(s) /\ x = PromptIn(s)
  OBVIOUS
<1>3. /\ x \in Rows /\ n \in Nat /\ 1 <= n /\ n < CbMaxPos /\ n = Len(x) /\ CbMaxPos \in Nat
  BY <1>1, <1>2, PromptFacts
<1>4. PICK T : T = [l \in LaneSet |-> IF l = Single THEN x ELSE <<>>]
  OBVIOUS
<1>5. PICK lo, hi : /\ lo = [l \in LaneSet |-> 0]
                    /\ hi = [l \in LaneSet |-> IF l = Single THEN n ELSE 0]
  OBVIOUS
<1>6. /\ lo \in [LaneSet -> Nat] /\ hi \in [LaneSet -> Nat] /\ T \in [LaneSet -> Rows]
      /\ T[Single] = x /\ lo[Single] = 0 /\ hi[Single] = n
      /\ \A l \in LaneSet \ {Single} : hi[l] = lo[l] /\ ~ (lo[l] < hi[l])
  <2>1. <<>> \in Rows
    BY DEF Rows
  <2> QED
    BY <1>1, <1>3, <1>4, <1>5, <2>1
<1>7. Feeds(cs, lo, hi, T) /\ Len(cs) = n
  <2>1. OnePrompt(s, Single, lo, hi, T)
    BY <1>2, <1>6 DEF OnePrompt
  <2> QED
    BY <1>1, <1>2, <2>1, PromptForFeeds
<1>8. Ready(lo, hi, T)
  <2>1. Holds(job.kind, lanes[Single], SubSeq(x, 1, 0))
    <3>1. SubSeq(x, 1, 0) = <<>>
      BY <1>3 DEF Rows
    <3> QED
      BY <3>1, EmptyHolds
  <2>2. n <= Len(x) /\ job.kind # "int4" /\ n <= LaneEnd(Single)
    BY <1>1, <1>3
  <2> QED
    BY <1>6, <2>1, <2>2 DEF Ready
<1>9. PICK C : C = [i \in 1 .. Len(cs) |-> SubSeq(T[cs[i].lane], 1, cs[i].pos + 1)]
  OBVIOUS
<1>10. Continues(lanes, cs, C)
  BY <1>1, <1>7, <1>8, <1>9, FedContinues
<1>11. cs[n] = Column(Single, n - 1, x[n]) /\ n \in 1 .. Len(cs)
  BY <1>2, <1>3, <1>7 DEF PromptFor
<1>12. cs[n].lane = Single /\ cs[n].pos = n - 1
  BY <1>11 DEF Column
<1>13. C[n] = x
  <2>1. C[n] = SubSeq(T[cs[n].lane], 1, cs[n].pos + 1)
    BY <1>9, <1>11
  <2>2. n - 1 + 1 = n /\ SubSeq(x, 1, n) = x
    BY <1>3, FirstRows
  <2> QED
    BY <1>6, <1>12, <2>1, <2>2
<1>14. \A i \in 1 .. Len(cs) : Clear(ls, cs[i]) /\ Answer(ls, cs[i]) = Choice(job.model, C[i])
  BY <1>1, <1>10, ColumnsAreClear
<1>15. /\ ls \in [LaneSet -> LaneType]
       /\ \A i \in 1 .. Len(cs) : Holds(job.kind, ls[cs[i].lane], C[i])
       /\ \A l \in LaneSet : (\A i \in 1 .. Len(cs) : cs[i].lane # l) => ls[l] = lanes[l]
  BY <1>1, <1>10, WrittenHolds
<1>16. \A i \in 1 .. Len(cs) : cs[i].lane = Single
  BY <1>2, <1>7 DEF PromptFor, Column
<1>17. \A l \in LaneSet : l # Single => ls[l] = lanes[l]
  BY <1>15, <1>16
<1> QED
  BY <1>2, <1>7, <1>11, <1>12, <1>13, <1>14, <1>15, <1>17

\* A slot that a step leaves alone.
LEMMA SlotStays ==
    ASSUME job' = job, NEW s, SlotInv(s), lanes'[s] = lanes[s], out'[s] = out[s],
           active'[s] = active[s], tok'[s] = tok[s], cbpos'[s] = cbpos[s]
    PROVE  SlotInv(s)'
<1>1. Plen(s)' = Plen(s) /\ Text(s)' = Text(s)
  BY PromptOfStays DEF Plen, PromptIn, Text
<1>2. \A x : Holds(job.kind, lanes[s], x) => Holds(job'.kind, lanes'[s], x)
  OBVIOUS
<1>3. Keeps(s, SubSeq(Text(s), 1, cbpos[s])) => Keeps(s, SubSeq(Text(s), 1, cbpos[s]))'
  BY <1>1, <1>2 DEF Keeps
<1> QED
  BY <1>1, <1>3 DEF SlotInv

LEMMA ScalarPrefillFacts ==
    ASSUME ScalarPrefill
    PROVE  /\ pc = "scalar" /\ UNCHANGED <<job, logits, pos, out, active>>
           /\ scan' = scan + 1 /\ pc' = (IF scan + 1 = B THEN "slots" ELSE "scalar")
           /\ cbpos' = [cbpos EXCEPT ![scan] = Plen(scan)]
           /\ \E cs, ls :
                 /\ cs = PromptFor(scan, Single) /\ ls = Written(cs)
                 /\ cols' = <<cs[Plen(scan)]>>
                 /\ clear' = \A i \in 1 .. Len(cs) : Clear(ls, cs[i])
                 /\ lanes' = [ls EXCEPT ![scan] = Copied(@, ls[Single], Plen(scan))]
                 /\ tok' = [tok EXCEPT ![scan] = Answer(ls, cs[Plen(scan)])]
  BY DEF ScalarPrefill

LEMMA ScalarPrefillKeeps ==
    ASSUME IInv, job.mode \in SlotModes, UNCHANGED denseVars, ScalarPrefill
    PROVE  IInv'
<1>1. /\ pc = "scalar" /\ job' = job /\ logits' = logits
      /\ UNCHANGED <<pos, out, active>> /\ cbpos' = [cbpos EXCEPT ![scan] = Plen(scan)]
      /\ scan' = scan + 1 /\ pc' = IF scan + 1 = B THEN "slots" ELSE "scalar"
  BY ScalarPrefillFacts
<1>2. PICK cs, ls :
         /\ cs = PromptFor(scan, Single) /\ ls = Written(cs)
         /\ cols' = <<cs[Plen(scan)]>>
         /\ clear' = \A i \in 1 .. Len(cs) : Clear(ls, cs[i])
         /\ lanes' = [ls EXCEPT ![scan] = Copied(@, ls[Single], Plen(scan))]
         /\ tok' = [tok EXCEPT ![scan] = Answer(ls, cs[Plen(scan)])]
  BY ScalarPrefillFacts
<1>3. /\ job \in Jobs /\ StreamsInv /\ SlotsInv /\ StepInv
      /\ job.mode = "scalar" /\ pos = -1 /\ scan \in Nat /\ scan < B /\ scan \in Lanes
      /\ active = [s \in Lanes |-> 1] /\ out = [r \in Streams |-> <<>>]
      /\ \A s \in Lanes : s < scan => SlotInv(s)
      /\ DOMAIN tok = Lanes /\ cbpos \in [Lanes -> 0 .. CbMaxPos] /\ B \in Nat
  <2>1. SlotsInv /\ job \in Jobs /\ StreamsInv /\ StepInv
    BY SlotFacts DEF IInv
  <2>2. /\ job.mode = "scalar" /\ pos = -1 /\ DOMAIN tok = Lanes
        /\ cbpos \in [Lanes -> 0 .. CbMaxPos] /\ scan \in 0 .. B
    BY <1>1, <2>1, SlotControl
  <2>3. /\ scan < B /\ active = [s \in Lanes |-> 1] /\ out = [r \in Streams |-> <<>>]
        /\ \A s \in Lanes : s < scan => SlotInv(s)
    BY <1>1, <2>1 DEF SlotsInv
  <2>4. B \in Nat
    BY LanesFit
  <2>5. scan \in Nat /\ scan \in Lanes
    BY <2>2, <2>3, <2>4 DEF Lanes
  <2> QED
    BY <2>1, <2>2, <2>3, <2>4, <2>5
<1>4. PICK s, n : s = scan /\ n = Plen(scan)
  OBVIOUS
<1>5. /\ ls \in [LaneSet -> LaneType]
      /\ \A l \in LaneSet : l # Single => ls[l] = lanes[l]
      /\ Holds(job.kind, ls[Single], PromptIn(s))
      /\ \A i \in 1 .. Len(cs) : Clear(ls, cs[i])
      /\ Answer(ls, cs[n]) = Choice(job.model, PromptIn(s))
      /\ cs[n].lane = Single /\ cs[n].pos = n - 1
  BY <1>2, <1>3, <1>4, ComputedAlone
<1>6. /\ job.kind = "fp32" /\ MostColumns = BatchMax /\ 1 <= BatchMax
      /\ LaneEnd(Single) = MoeMaxPos /\ Lanes \subseteq LaneSet /\ Single \in LaneSet \ Lanes
      /\ CbMaxPos <= Window /\ Window <= MoeMaxPos /\ Window \in Nat /\ MoeMaxPos \in Nat
      /\ Lanes \subseteq Streams
  BY SlotFacts, MoeFacts, LanesFit
<1>7. /\ n \in Nat /\ 1 <= n /\ n < CbMaxPos /\ CbMaxPos \in Nat /\ PromptIn(s) \in Rows
      /\ n = Len(PromptIn(s)) /\ CbMaxPos <= MaxSeq
  BY <1>3, <1>4, PromptFacts
<1>8. /\ Copied(ls[s], ls[Single], n) \in LaneType
      /\ Holds(job.kind, Copied(ls[s], ls[Single], n), PromptIn(s))
  <2>1. ls[s] \in LaneType /\ ls[Single] \in LaneType /\ n <= MaxSeq
    <3>1. s \in LaneSet /\ Single \in LaneSet
      BY <1>3, <1>4, <1>6
    <3>2. n <= MaxSeq
      BY <1>7, Sizes
    <3> QED
      BY <1>5, <3>1, <3>2
  <2> QED
    BY <1>5, <1>6, <1>7, <2>1, CopiedLane
<1>9. /\ lanes' \in [LaneSet -> LaneType] /\ Holds(job.kind, lanes'[s], PromptIn(s))
      /\ \A l \in Lanes : l # s => lanes'[l] = lanes[l]
  <2>1. lanes' = [ls EXCEPT ![s] = Copied(ls[s], ls[Single], n)]
    BY <1>2, <1>4
  <2>2. s \in LaneSet
    BY <1>3, <1>4, <1>6
  <2> QED
    BY <1>5, <1>6, <1>8, <2>1, <2>2
<1>10. StepInv'
  <2>1. /\ LaneSet' = LaneSet /\ Lanes' = Lanes /\ MostColumns' = MostColumns
        /\ \A l : LaneEnd(l)' = LaneEnd(l)
    BY <1>1 DEF LaneSet, Lanes, MostColumns, LaneEnd
  <2>2. PICK c : c = cs[n]
    OBVIOUS
  <2>3. cols' = <<c>> /\ c.lane = Single /\ c.pos = n - 1
    BY <1>2, <1>4, <1>5, <2>2
  <2>4. Len(cols') = 1 /\ cols'[1] = c
    BY <2>3
  <2>5. n - 1 < MoeMaxPos /\ \A i \in 1 .. 1 : i = 1
    BY <1>6, <1>7
  <2>6. DispatchFits'
    BY <1>6, <2>1, <2>3, <2>4, <2>5 DEF DispatchFits
  <2>7. clear' = TRUE
    BY <1>2, <1>5
  <2> QED
    BY <1>1, <1>3, <1>9, <2>1, <2>6, <2>7 DEF StepInv
<1>11. QueueIdle' /\ hist' = <<>> /\ Lanes' = Lanes /\ Streams' = Streams
  BY <1>1, <1>3, SlotsQueueIdle
<1>12. SlotInv(s)'
  <2>1. tok'[s] = Choice(job.model, PromptIn(s))
    BY <1>2, <1>3, <1>4, <1>5
  <2>2. cbpos'[s] = Plen(s) /\ active'[s] = 1 /\ out'[s] = <<>>
    BY <1>1, <1>3, <1>4, <1>6
  <2>3. SlotStarts(s)
    BY <1>9, <2>1, <2>2 DEF SlotStarts
  <2>4. s \in Lanes
    BY <1>3, <1>4
  <2> QED
    BY <1>1, <1>3, <2>3, <2>4, SlotHasStarted
<1>13. ASSUME NEW u \in Lanes, u < s PROVE SlotInv(u)'
  <2>1. u # s /\ SlotInv(u)
    BY <1>3, <1>4, <1>13 DEF Lanes
  <2>2. lanes'[u] = lanes[u] /\ out'[u] = out[u] /\ active'[u] = active[u]
    BY <1>1, <1>9, <2>1
  <2>3. tok'[u] = tok[u] /\ cbpos'[u] = cbpos[u]
    BY <1>1, <1>2, <1>3, <1>4, <2>1
  <2> QED
    BY <1>1, <2>1, <2>2, <2>3, SlotStays
<1>14. /\ cbpos' \in [Lanes -> 0 .. CbMaxPos] /\ active' \in [Lanes -> {0, 1}]
       /\ DOMAIN tok' = Lanes
  <2>1. n \in 0 .. CbMaxPos
    BY <1>7
  <2> QED
    BY <1>1, <1>2, <1>3, <1>4, <2>1
<1>15. \A u \in Lanes : u < scan' => SlotInv(u)'
  <2>1. \A u \in Lanes : u < scan + 1 => u < s \/ u = s
    BY <1>3, <1>4 DEF Lanes
  <2> QED
    BY <1>1, <1>12, <1>13, <2>1
<1>16. /\ pc' = "slots" => \A u \in Lanes : u < scan'
       /\ pc' \in {"slots", "scalar"} /\ scan' \in 0 .. B /\ (pc' = "scalar" => scan' < B)
  BY <1>1, <1>3 DEF Lanes
<1>17. SlotsInv'
  BY <1>1, <1>3, <1>11, <1>14, <1>15, <1>16 DEF SlotsInv
<1>18. StreamsInv' /\ Completed'
  BY <1>1, <1>3, <1>16, StreamsStay DEF Completed
<1> QED
  BY <1>1, <1>10, <1>17, <1>18, SlotsAfter

LEMMA SlotsStopKeeps ==
    ASSUME IInv, job.mode \in SlotModes, UNCHANGED denseVars, MoeStop
    PROVE  IInv'
<1>1. /\ job' = job /\ pc' = "done" /\ MoeExhausted
      /\ UNCHANGED <<engine, pos, out, active, tok, cbpos, scan>>
  BY DEF MoeStop, slots
<1>2. /\ job \in Jobs /\ StreamsInv /\ StepInv /\ SlotsInv /\ Writing = Lanes /\ Lanes \subseteq Streams
      /\ pc \in {"slots", "done", "failed", "warmup", "combined", "scalar"}
      /\ pos = -1 /\ scan \in 0 .. B /\ DOMAIN tok = Lanes
      /\ active \in [Lanes -> {0, 1}] /\ cbpos \in [Lanes -> 0 .. CbMaxPos]
  BY SlotFacts, SlotControl, LanesFit DEF IInv
<1>3. pc = "slots" /\ Feeding = {}
  BY <1>1, <1>2 DEF MoeExhausted
<1>4. \A s \in Lanes : Len(out[s]) = Lesser(job.maxnew[s], CbMaxPos - Plen(s))
  <2>1. ASSUME NEW s \in Lanes PROVE Len(out[s]) = Lesser(job.maxnew[s], CbMaxPos - Plen(s))
    <3>1. active[s] = 0
      BY <1>2, <1>3 DEF Feeding
    <3>2. SlotInv(s)
      BY <1>2, <1>3 DEF SlotsInv
    <3> QED
      BY <3>1, <3>2 DEF SlotInv
  <2> QED
    BY <2>1
<1>5. QueueIdle' /\ hist' = <<>> /\ Lanes' = Lanes /\ Streams' = Streams
  BY <1>1, <1>2, SlotsQueueIdle
<1>6. Completed'
  <2>1. ASSUME NEW r \in Streams PROVE Len(out'[r]) = Owed(r)'
    <3>1. Owed(r)' = IF r \in Lanes THEN Lesser(job.maxnew[r], CbMaxPos - Plen(r)) ELSE 0
      BY <1>1, OwedSlots
    <3>2. CASE r \in Lanes
      BY <1>1, <1>4, <3>1, <3>2
    <3>3. CASE r \notin Lanes
      <4>1. Len(out[r]) = 0
        BY <1>2, <3>3, Silent
      <4> QED
        BY <1>1, <3>1, <3>3, <4>1
    <3> QED
      BY <3>2, <3>3
  <2> QED
    BY <1>5, <2>1 DEF Completed
<1>7. SlotsInv'
  BY <1>1, <1>2, <1>5 DEF SlotsInv
<1>8. StreamsInv' /\ StepInv'
  BY <1>1, <1>2, StreamsStay, StepStays
<1> QED
  BY <1>1, <1>6, <1>7, <1>8, SlotsAfter

-----------------------------------------------------------------------------
(* Every step keeps the invariant.                                         *)

\* Where the steps of the two engines can be taken.
LEMMA WhereDense ==
    ASSUME DenseNext
    PROVE  \/ pc \in {"prefill", "greedy", "serve", "spec", "dump", "ppl", "bench",
                      "loop", "admit", "chunk", "decode", "mixed"}
           \/ job.mode = "bench" /\ RefuseBench
<1>1. Stop => pc \in {"greedy", "serve", "dump", "ppl", "spec"}
  BY DEF Stop, Exhausted
<1> QED
  BY <1>1 DEF DenseNext, Prefill, Greedy, Serve, SpecRound, Bench, RefuseBench, Perplexity,
              BeginIteration, EndPass, Admit, Chunk, Decode, Mixed

LEMMA WhereMoe ==
    ASSUME MoeNext
    PROVE  \/ pc \in {"moeprompt", "generate", "gguf", "verify", "safetensors", "attention",
                      "lockstep", "hybrid", "scalar", "warmup", "combined", "slots"}
           \/ pc = job.mode /\ job.mode \in {"layers", "parity"}
           \/ pc \in {"layers", "parity"}
<1>1. MoeStop => pc \in {"generate", "gguf", "verify", "safetensors", "attention", "parity",
                         "layers", "lockstep", "hybrid", "slots"}
  BY DEF MoeStop, MoeExhausted
<1>2. MoePrompt => pc = "moeprompt"
  BY DEF MoePrompt, PromptMla, PromptGqa, PromptGguf, Verify, VerifySafetensors, AttentionMla,
         AttentionGqa, Layers, ParityMla, ParityGqa, PromptStep
<1>3. MeasureLayers \/ MeasureMla \/ MeasureGqa =>
         pc = job.mode /\ job.mode \in {"layers", "parity"}
  BY DEF MeasureLayers, MeasureMla, MeasureGqa, Measure
<1>4. FeedMla \/ FeedGqa \/ DecodeMla \/ DecodeGqa \/ DecodeScalar => pc = "slots"
  BY DEF FeedMla, FeedGqa, DecodeMla, DecodeGqa, DecodeScalar, SlotStep
<1>5. /\ WarmupMla \/ WarmupGqa => pc = "warmup"
      /\ PrefillMla \/ PrefillGqa => pc = "combined"
      /\ ScalarPrefill => pc = "scalar"
  BY DEF WarmupMla, WarmupGqa, PrefillMla, PrefillGqa, Warmup, CombinedPrefill, ScalarPrefill
<1>6. /\ RefusePrompt \/ PromptDone => pc = "moeprompt"
      /\ GenerateMla \/ GenerateGqa => pc = "generate"
      /\ GgufGenerate => pc = "gguf"
      /\ BatchGateMla \/ BatchGateGqa \/ MeasureBatchMla \/ MeasureBatchGqa => pc = "lockstep"
      /\ HybridBatch \/ HybridChoice => pc = "hybrid"
  BY DEF RefusePrompt, PromptDone, GenerateMla, GenerateGqa, Generate, GgufGenerate, BatchGateMla,
         BatchGateGqa, MeasureBatchMla, MeasureBatchGqa, MeasureBatch, HybridBatch, HybridChoice
<1> QED
  BY <1>1, <1>2, <1>3, <1>4, <1>5, <1>6 DEF MoeNext, MoePrompt

LEMMA SingleModesKeep ==
    ASSUME IInv, job.mode \in SingleModes, DenseNext \/ (MoeNext /\ UNCHANGED denseVars)
    PROVE  IInv'
<1>1. pc \in {"prefill", "done", "failed", job.mode}
  BY SingleFacts DEF SingleInv
<1>2. job.mode \in {"greedy", "spec", "serve", "bench", "ppl", "dump"}
  BY DEF SingleModes
<1>3. ~ MoeNext
  BY <1>1, <1>2, WhereMoe
<1>4. ~ (BeginIteration \/ EndPass \/ Admit \/ Chunk \/ Decode \/ Mixed)
  BY <1>1, <1>2 DEF BeginIteration, EndPass, Admit, Chunk, Decode, Mixed
<1>5. Prefill \/ Greedy \/ Serve \/ SpecRound \/ Stop \/ Bench \/ RefuseBench \/ Perplexity
  BY <1>3, <1>4 DEF DenseNext
<1> QED
  BY <1>5, PrefillKeeps, GreedyKeeps, ServeKeeps, SpecKeeps, StopKeeps, BenchKeeps,
     RefuseBenchKeeps, PerplexityKeeps

LEMMA SchedModesKeep ==
    ASSUME IInv, job.mode \in SchedModes, DenseNext \/ (MoeNext /\ UNCHANGED denseVars)
    PROVE  IInv'
<1>1. /\ job.mode \in {"cbatch", "mixed"}
      /\ pc \in {"loop", "done"} \union
            (IF job.mode = "cbatch" THEN {"admit", "chunk", "decode"} ELSE {"mixed"})
  BY DEF IInv, ModeInv, SchedModes, SchedInv
<1>2. ~ MoeNext
  BY <1>1, WhereMoe
<1>3. ~ (Prefill \/ Greedy \/ Serve \/ SpecRound \/ Bench \/ RefuseBench \/ Perplexity)
  BY <1>1 DEF Prefill, Greedy, Serve, SpecRound, Bench, RefuseBench, Perplexity
<1>4. ~ Stop
  BY <1>1 DEF Stop, Exhausted
<1>5. /\ Admit \/ Chunk \/ Decode => job.mode = "cbatch"
      /\ Mixed => job.mode = "mixed"
  BY <1>1 DEF Admit, Chunk, Decode, Mixed
<1>6. BeginIteration \/ EndPass \/ Admit \/ Chunk \/ Decode \/ Mixed
  BY <1>2, <1>3, <1>4 DEF DenseNext
<1> QED
  BY <1>5, <1>6, BeginIterationKeeps, EndPassKeeps, AdmitKeeps, ChunkKeeps, DecodeKeeps, MixedKeeps

LEMMA MoeSingleModesKeep ==
    ASSUME IInv, job.mode \in MoeSingleModes, DenseNext \/ (MoeNext /\ UNCHANGED denseVars)
    PROVE  IInv'
<1>1. /\ pc \in {"moeprompt", "done", "failed", job.mode}
      /\ pc \notin {"slots", "warmup", "combined", "scalar"}
  BY MoeSingleFacts, MoeControl DEF MoeSingleInv
<1>2. job.mode \in {"gguf", "verify", "safetensors", "generate", "attention", "layers", "parity",
                    "lockstep", "hybrid"}
  BY DEF MoeSingleModes, HostModes, DeviceModes
<1>3. ~ DenseNext
  BY <1>1, <1>2, WhereDense
<1>4. ~ (ScalarPrefill \/ WarmupMla \/ WarmupGqa \/ PrefillMla \/ PrefillGqa)
  BY <1>1 DEF WarmupMla, WarmupGqa, PrefillMla, PrefillGqa, Warmup, CombinedPrefill, ScalarPrefill
<1>5. ~ (FeedMla \/ FeedGqa \/ DecodeMla \/ DecodeGqa \/ DecodeScalar)
  BY <1>1 DEF FeedMla, FeedGqa, DecodeMla, DecodeGqa, DecodeScalar, SlotStep
<1>6. UNCHANGED denseVars /\ MoeNext
  BY <1>3
<1>7. \/ RefusePrompt \/ MoePrompt \/ PromptDone \/ Generate("mla") \/ Generate("gqa")
      \/ GgufGenerate \/ (MeasureLayers \/ MeasureMla \/ MeasureGqa)
      \/ (BatchGateMla \/ BatchGateGqa) \/ MeasureBatch \/ HybridBatch \/ HybridChoice \/ MoeStop
  BY <1>4, <1>5, <1>6 DEF MoeNext, MoePrompt, GenerateMla, GenerateGqa, MeasureBatchMla,
                          MeasureBatchGqa
<1>8. Generate("mla") \/ Generate("gqa") => IInv'
  BY <1>6, GenerateKeeps
<1> QED
  BY <1>6, <1>7, <1>8, RefusePromptKeeps, MoePromptKeeps, PromptDoneKeeps, GgufGenerateKeeps,
     MeasuringKeeps, BatchGateKeeps, MeasureBatchKeeps, HybridBatchKeeps, HybridChoiceKeeps,
     MoeStopKeeps

LEMMA SlotModesKeep ==
    ASSUME IInv, job.mode \in SlotModes, DenseNext \/ (MoeNext /\ UNCHANGED denseVars)
    PROVE  IInv'
<1>1. pc \in {"slots", "done", "failed", "warmup", "combined", "scalar"}
  BY SlotFacts, SlotControl
<1>2. job.mode \in {"feed", "combined", "scalar"}
  BY DEF SlotModes
<1>3. ~ DenseNext
  BY <1>1, <1>2, WhereDense
<1>4. ~ (RefusePrompt \/ MoePrompt \/ PromptDone)
  BY <1>1 DEF MoePrompt, PromptMla, PromptGqa, PromptGguf, Verify, VerifySafetensors, AttentionMla,
         AttentionGqa, Layers, ParityMla, ParityGqa, PromptStep, RefusePrompt, PromptDone
<1>5. ~ (MeasureLayers \/ MeasureMla \/ MeasureGqa)
  BY <1>2 DEF MeasureLayers, MeasureMla, MeasureGqa
<1>6. ~ (\/ GenerateMla \/ GenerateGqa \/ GgufGenerate \/ BatchGateMla \/ BatchGateGqa
         \/ MeasureBatchMla \/ MeasureBatchGqa \/ HybridBatch \/ HybridChoice)
  BY <1>1 DEF GenerateMla, GenerateGqa, Generate, GgufGenerate, BatchGateMla, BatchGateGqa,
              MeasureBatchMla, MeasureBatchGqa, MeasureBatch, HybridBatch, HybridChoice
<1>7. UNCHANGED denseVars /\ MoeNext
  BY <1>3
<1>8. ScalarPrefill \/ Warmup \/ CombinedPrefill \/ SlotStep \/ MoeStop
  BY <1>4, <1>5, <1>6, <1>7 DEF MoeNext, MoePrompt, WarmupMla, WarmupGqa, PrefillMla, PrefillGqa,
                                FeedMla, FeedGqa, DecodeMla, DecodeGqa, DecodeScalar
<1> QED
  BY <1>7, <1>8, ScalarPrefillKeeps, WarmupKeeps, CombinedPrefillKeeps, SlotStepKeeps,
     SlotsStopKeeps

\* A step that changes nothing.
LEMMA NothingChanges == ASSUME IInv, UNCHANGED vars PROVE IInv'
<1>1. UNCHANGED <<job, pc, engine, pos, out, slots, denseVars>>
  BY DEF vars
<1>2. StreamsInv' /\ StepInv'
  BY <1>1, StreamsStay, StepStays DEF IInv
<1>3. UNCHANGED <<lanes, cols, clear, logits, active, tok, cbpos, scan, hist, rep, qhead, nact,
                  req, pref, fed, job, pc, pos, out>>
  BY <1>1 DEF engine, slots, denseVars, queue
<1>4. Completed' = Completed
  BY <1>3 DEF Completed, Owed, UpToEos, Plen, PromptIn, Streams
<1>5. PromptOf' = PromptOf /\ Lanes' = Lanes /\ Streams' = Streams /\ Reqs' = Reqs
  BY <1>3, PromptOfStays DEF Lanes, Streams, Reqs
<1>6. \A r : Text(r)' = Text(r)
  BY <1>3, <1>5 DEF Text
<1>7. \A l, ctx : Keeps(l, ctx)' <=> Keeps(l, ctx)
  BY <1>3 DEF Keeps, Holds
<1>8. QueueIdle' = QueueIdle /\ SlotsIdle' = SlotsIdle
  BY <1>3, <1>5 DEF QueueIdle, SlotsIdle
<1>9. SingleInv' <=> SingleInv
  <2>1. Served' = Served /\ PromptSoFar' = PromptSoFar
    BY <1>3, <1>5 DEF Served, PromptSoFar
  <2> QED
    BY <1>3, <1>5, <1>6, <1>7, <1>8, <2>1 DEF SingleInv, ServeLimit, BenchLimit
<1>10. SchedInv' <=> SchedInv
  <2>1. InSlots' = InSlots /\ Admitting' = Admitting
    BY <1>3, <1>5 DEF InSlots, Admitting
  <2>2. SlotTypes' <=> SlotTypes
    BY <1>3, <1>5 DEF SlotTypes
  <2>3. SlotsOwn' <=> SlotsOwn
    BY <1>3, <1>5, <2>1 DEF SlotsOwn
  <2>4. \A s : Decodes(s)' <=> Decodes(s)
    BY <1>3, <1>6, <1>7 DEF Decodes, Goes, Limit
  <2>5. \A s : Prefills(s)' <=> Prefills(s)
    BY <1>3, <1>7 DEF Prefills
  <2>6. Admits' <=> Admits
    BY <1>3, <1>5, <1>7 DEF Admits
  <2>7. \A r : Owed(r)' = Owed(r)
    BY <1>3, <1>5 DEF Owed, UpToEos, Plen, PromptIn
  <2> QED
    BY <1>3, <1>5, <2>1, <2>2, <2>3, <2>4, <2>5, <2>6, <2>7 DEF SchedInv
<1>11. MoeSingleInv' <=> MoeSingleInv
  <2>1. FedLanes' = FedLanes /\ DeviceLanes' = DeviceLanes /\ PromptSoFar' = PromptSoFar
    BY <1>3, <1>5 DEF FedLanes, DeviceLanes, PromptSoFar
  <2>2. MoePrompting' <=> MoePrompting
    BY <1>3, <1>5, <1>7, <2>1 DEF MoePrompting
  <2>3. Generates' <=> Generates
    BY <1>3, <1>6, <1>7 DEF Generates
  <2>4. GgufGenerates' <=> GgufGenerates
    BY <1>3, <1>6, <1>7 DEF GgufGenerates
  <2>5. Measures' <=> Measures
    BY <1>3, <1>7, <2>1 DEF Measures
  <2>6. HybridInv' <=> HybridInv
    BY <1>3, <1>5 DEF HybridInv, Corpus
  <2> QED
    BY <1>3, <1>8, <2>2, <2>3, <2>4, <2>5, <2>6 DEF MoeSingleInv
<1>12. SlotsInv' <=> SlotsInv
  <2>1. \A s : SlotInv(s)' <=> SlotInv(s)
    BY <1>3, <1>6, <1>7 DEF SlotInv, Plen, PromptIn
  <2>2. AllPrompts' = AllPrompts
    BY <1>3 DEF AllPrompts, PromptFor, Plen, PromptIn
  <2> QED
    BY <1>3, <1>5, <1>8, <2>1, <2>2 DEF SlotsInv
<1>13. ModeInv' <=> ModeInv
  BY <1>3, <1>9, <1>10, <1>11, <1>12 DEF ModeInv
<1> QED
  BY <1>2, <1>3, <1>4, <1>13 DEF IInv

LEMMA StepsKeep == ASSUME IInv, [Next]_vars PROVE IInv'
<1>1. CASE DenseNext \/ (MoeNext /\ UNCHANGED denseVars)
  <2>1. job.mode \in SingleModes \union SchedModes \union MoeSingleModes \union SlotModes
    BY DEF IInv, DenseModes, MoeModes, SingleModes, SchedModes, MoeSingleModes, HostModes,
           DeviceModes, SlotModes
  <2> QED
    BY <1>1, <2>1, SingleModesKeep, SchedModesKeep, MoeSingleModesKeep, SlotModesKeep
<1>2. CASE UNCHANGED vars
  BY <1>2, NothingChanges
<1> QED
  BY <1>1, <1>2 DEF Next, Ended

-----------------------------------------------------------------------------
(* The start.                                                              *)

LEMMA MostIsNatural ==
    ASSUME job \in Jobs, job.mode \in DenseModes \union MoeModes
    PROVE  MostColumns \in Nat
<1>1. CASE job.mode = "spec"
  <2>1. MostColumns = MaxSpec
    BY <1>1 DEF MostColumns, DenseModes, MoeModes, ComparingModes
  <2> QED
    BY <2>1, DenseAssumption
<1>2. CASE job.mode \in DenseModes \ {"spec"}
  <2>1. MostColumns = Cap[job.kind]
    BY <1>2 DEF MostColumns, DenseModes, MoeModes, ComparingModes
  <2>2. Cap[job.kind] \in B .. W + 2 /\ B \in Nat
    BY JobTypes, DenseAssumption, EngineAssumption
  <2> QED
    BY <2>1, <2>2
<1>3. CASE job.mode \in MoeModes
  <2>1. MostColumns = BatchMax \/ MostColumns = 2 * BatchMax
    BY <1>3 DEF MostColumns, DenseModes, MoeModes, ComparingModes
  <2>2. BatchMax \in Nat
    BY MoeAssumption
  <2> QED
    BY <2>1, <2>2
<1> QED
  BY <1>1, <1>2, <1>3

LEMMA StartTypes ==
    ASSUME Init
    PROVE  /\ job \in Jobs /\ job.mode \in DenseModes \union MoeModes
           /\ StreamsInv /\ StepInv /\ Completed /\ QueueIdle
           /\ hist = <<>> /\ pos = -1 /\ scan = 0 /\ out = [r \in Streams |-> <<>>]
           /\ tok = [s \in Lanes |-> 0] /\ cbpos = [s \in Lanes |-> 0]
           /\ \A r \in Streams : Len(out[r]) = 0
<1>1. /\ job \in Jobs /\ cols = <<>> /\ clear = TRUE /\ logits = [l \in Lanes |-> Garbled]
      /\ pos = -1 /\ out = [r \in Streams |-> <<>>] /\ scan = 0
      /\ tok = [s \in Lanes |-> 0] /\ cbpos = [s \in Lanes |-> 0]
      /\ hist = <<>> /\ rep = 1 /\ qhead = 0 /\ nact = 0 /\ fed = 0
      /\ req = [s \in Lanes |-> 0] /\ pref = [s \in Lanes |-> 0]
  BY DEF Init, EngineInit, DenseStart
<1>2. job.mode \in DenseModes \/ job.mode \in MoeModes
  BY DEF Init, DenseInit, MoeInit
<1>3. lanes \in [LaneSet -> LaneType]
  <2>1. CASE DenseInit
    BY <2>1, EmptyLaneType DEF DenseInit, LaneSet
  <2>2. CASE MoeInit
    <3>1. job.mode \notin DenseModes
      BY <2>2 DEF MoeInit, MoeModes, DenseModes
    <3> QED
      BY <2>2, <3>1, EmptyLaneType DEF MoeInit, LaneSet
  <2> QED
    BY <2>1, <2>2 DEF Init
<1>4. Len(<<>>) = 0 /\ <<>> \in Rows
  BY DEF Rows
<1>5. \A r \in Streams : out[r] = <<>> /\ Len(out[r]) = 0
  BY <1>1, <1>4
<1>6. StreamsInv
  BY <1>1, <1>4, <1>5, NothingContinues DEF StreamsInv
<1>7. DispatchFits
  <2>1. 0 <= MostColumns
    BY <1>1, <1>2, MostIsNatural
  <2> QED
    BY <1>1, <1>4, <2>1 DEF DispatchFits
<1>8. StepInv
  BY <1>1, <1>3, <1>7 DEF StepInv
<1>9. pc \in {"prefill", "ppl", "loop", "moeprompt", "lockstep", "hybrid", "scalar", "warmup", "slots"}
  BY DEF Init, DenseInit, MoeInit
<1> QED
  BY <1>1, <1>2, <1>5, <1>6, <1>8, <1>9 DEF Completed, QueueIdle

LEMMA StartHolds == Init => IInv
<1> SUFFICES ASSUME Init PROVE IInv
  OBVIOUS
<1>1. /\ job \in Jobs /\ job.mode \in DenseModes \union MoeModes
      /\ StreamsInv /\ StepInv /\ Completed /\ QueueIdle
      /\ hist = <<>> /\ pos = -1 /\ scan = 0 /\ out = [r \in Streams |-> <<>>]
      /\ tok = [s \in Lanes |-> 0] /\ cbpos = [s \in Lanes |-> 0]
      /\ \A r \in Streams : Len(out[r]) = 0
  BY StartTypes
<1>2. /\ \A l : Keeps(l, <<>>)
      /\ \A s : SubSeq(s, 1, 0) = <<>>
  BY KeepsNothing, NoRows
<1>3. PromptSoFar = <<>>
  BY <1>1, <1>2 DEF PromptSoFar
<1>4. /\ Len(job.prompt) \in Nat /\ 1 <= Len(job.prompt) /\ MaxSeq \in Nat /\ 1 <= MaxSeq
      /\ B \in Nat /\ 1 <= B /\ R \in Nat /\ 1 <= R
  BY <1>1, JobTypes, Sizes, EngineAssumption
<1>5. ASSUME job.mode \in DenseModes
      PROVE  /\ pc = CASE job.mode \in {"cbatch", "mixed"} -> "loop"
                       [] job.mode = "ppl"                 -> "ppl"
                       [] OTHER                            -> "prefill"
             /\ active = [s \in Lanes |-> 0]
  BY <1>5 DEF Init, DenseInit, MoeInit, DenseModes, MoeModes
<1>6. ASSUME job.mode \in MoeModes
      PROVE  /\ pc = CASE job.mode \in {"lockstep", "hybrid", "scalar"} -> job.mode
                       [] job.mode = "combined"                         -> "warmup"
                       [] job.mode = "feed"                             -> "slots"
                       [] OTHER                                         -> "moeprompt"
             /\ active = [s \in Lanes |-> IF job.mode \in SlotModes THEN 1 ELSE 0]
  BY <1>6 DEF Init, DenseInit, MoeInit, DenseModes, MoeModes
<1>7. ASSUME job.mode \in SingleModes PROVE SingleInv
  <2>1. /\ job.mode # "ppl" => pc = "prefill"
        /\ job.mode = "ppl" => pc = "ppl"
        /\ active = [s \in Lanes |-> 0]
    BY <1>5, <1>7 DEF SingleModes, DenseModes
  <2>2. SlotsIdle
    BY <1>1, <2>1 DEF SlotsIdle
  <2>3. pos + 1 = 0 /\ pos + 1 < Len(job.prompt) /\ pos \in -1 .. MaxSeq - 1 /\ Len(hist) <= MaxSeq
    BY <1>1, <1>4
  <2>4. job.mode = "ppl" /\ rep <= Len(job.windows) =>
           pos + 1 <= Len(job.windows[rep]) /\ Keeps(0, SubSeq(job.windows[rep], 1, pos + 1))
    <3>1. rep = 1
      BY DEF Init, DenseStart
    <3>2. job.mode = "ppl" => job.windows \in Seq(Rows)
      BY <1>1, DenseAssumption
    <3>3. job.mode = "ppl" /\ rep <= Len(job.windows) => job.windows[rep] \in Rows
      <4>1. job.mode = "ppl" => Len(job.windows) \in Nat
        BY <3>2
      <4> QED
        BY <3>1, <3>2, <4>1
    <3>4. job.mode = "ppl" /\ rep <= Len(job.windows) => Len(job.windows[rep]) \in Nat
      BY <3>3 DEF Rows
    <3>5. PICK ids : ids = job.windows[rep]
      OBVIOUS
    <3>6. SubSeq(ids, 1, 0) = <<>> /\ Keeps(0, <<>>)
      BY NoRows, <1>2
    <3>7. Keeps(0, SubSeq(ids, 1, pos + 1))
      BY <2>3, <3>6
    <3>8. pos + 1 = 0 /\ (job.mode = "ppl" /\ rep <= Len(job.windows) => 0 <= Len(job.windows[rep]))
      BY <2>3, <3>4
    <3> QED
      BY <3>5, <3>7, <3>8
  <2>5. rep >= 1
    BY DEF Init, DenseStart
  <2>6. pc = "prefill" \/ pc = "ppl"
    BY <2>1
  <2> QED
    BY <1>1, <1>2, <1>3, <2>1, <2>2, <2>3, <2>4, <2>5, <2>6 DEF SingleInv
<1>8. ASSUME job.mode \in {"cbatch", "mixed"} PROVE SchedInv
  <2>1. pc = "loop" /\ active = [s \in Lanes |-> 0]
    BY <1>5, <1>8 DEF DenseModes
  <2>2. /\ req = [s \in Lanes |-> 0] /\ pref = [s \in Lanes |-> 0] /\ rep \in Nat
        /\ qhead = 0 /\ nact = 0 /\ fed = 0
    BY <1>1 DEF QueueIdle
  <2>3. SlotTypes
    <3>1. {s \in Lanes : active[s] # 0} = {}
      BY <2>1
    <3>2. Cardinality({s \in Lanes : active[s] # 0}) = 0
      BY <3>1, FS_EmptySet
    <3>3. 0 \in Reqs /\ 0 \in 0 .. MaxSeq
      BY <1>4 DEF Reqs
    <3> QED
      BY <1>1, <2>1, <2>2, <3>2, <3>3 DEF SlotTypes
  <2>4. SlotsOwn
    BY <2>1 DEF SlotsOwn
  <2>5. \A r \in Reqs : out[r] = <<>> /\ ~ (r < 0)
    BY <1>1, <1>4 DEF Streams, Reqs
  <2> QED
    BY <1>1, <1>4, <2>1, <2>2, <2>3, <2>4, <2>5 DEF SchedInv
<1>9. ASSUME job.mode \in MoeSingleModes PROVE MoeSingleInv
  <2>0. job.mode \in MoeModes /\ job.mode \notin SlotModes
    BY <1>9 DEF MoeSingleModes, HostModes, DeviceModes, MoeModes, SlotModes
  <2>1. /\ job.mode \in {"lockstep", "hybrid"} => pc = job.mode
        /\ job.mode \notin {"lockstep", "hybrid"} => pc = "moeprompt"
        /\ active = [s \in Lanes |-> 0]
    BY <1>6, <2>0 DEF SlotModes
  <2>2. SlotsIdle
    BY <1>1, <2>1 DEF SlotsIdle
  <2>3. pos + 1 = 0 /\ 0 <= Len(job.prompt) /\ 0 <= Window /\ GateWarm \in Nat
    BY <1>1, <1>4, MoeAssumption
  <2>4. pos \in -1 .. MaxSeq + GateWarm /\ scan \in 0 .. B
    BY <1>1, <1>4, <2>3
  <2>5. job.mode \notin {"lockstep", "hybrid"} => MoePrompting
    BY <1>1, <1>2, <1>3, <2>3 DEF MoePrompting
  <2>6. Measures
    BY <1>1 DEF Measures
  <2>7. job.mode = "hybrid" => HybridInv
    <3>1. \A r \in Lanes : r \in Streams /\ ~ (r < 0)
      BY <1>4 DEF Lanes, Streams
    <3> QED
      BY <1>1, <2>1, <3>1 DEF HybridInv
  <2>8. pc \in {"lockstep", "hybrid", "moeprompt"} /\ (pc # "moeprompt" => pc = job.mode)
    BY <2>1
  <2> QED
    BY <1>1, <2>1, <2>2, <2>4, <2>5, <2>6, <2>7, <2>8 DEF MoeSingleInv
<1>10. ASSUME job.mode \in SlotModes PROVE SlotsInv
  <2>0. job.mode \in MoeModes /\ job.mode \in {"feed", "combined", "scalar"}
    BY <1>10 DEF MoeModes, SlotModes
  <2>1. /\ job.mode = "feed" => pc = "slots"
        /\ job.mode = "combined" => pc = "warmup"
        /\ job.mode = "scalar" => pc = "scalar"
        /\ active = [s \in Lanes |-> 1]
    BY <1>6, <1>10, <2>0
  <2>2. CbMaxPos \in Nat /\ 1 <= CbMaxPos
    BY MoeAssumption
  <2>3. ASSUME NEW s \in Lanes PROVE SlotInv(s)
    <3>1. s \in Streams /\ cbpos[s] = 0 /\ active[s] = 1 /\ out[s] = <<>> /\ Len(out[s]) = 0
      BY <1>1, <2>1 DEF Streams
    <3>2. 1 <= Plen(s) /\ Plen(s) \in Nat /\ job.maxnew[s] \in Nat /\ 1 <= job.maxnew[s]
      BY <1>1, <1>10, PromptFacts
    <3>3. SubSeq(Text(s), 1, cbpos[s]) = <<>>
      BY <1>2, <3>1
    <3>4. Keeps(s, SubSeq(Text(s), 1, cbpos[s]))
      BY <1>2, <3>3
    <3>5. /\ cbpos[s] \in 0 .. CbMaxPos /\ cbpos[s] < CbMaxPos /\ Len(out[s]) < job.maxnew[s]
          /\ cbpos[s] < Plen(s)
      BY <2>2, <3>1, <3>2
    <3>6. active[s] # 0
      BY <3>1
    <3> QED
      BY <3>1, <3>4, <3>5, <3>6 DEF SlotInv
  <2>4. scan \in 0 .. B /\ scan < B /\ \A s \in Lanes : ~ (s < scan)
    BY <1>1, <1>4 DEF Lanes
  <2>5. /\ active \in [Lanes -> {0, 1}] /\ cbpos \in [Lanes -> 0 .. CbMaxPos] /\ DOMAIN tok = Lanes
    BY <1>1, <2>1, <2>2
  <2>6. pc \in {"slots", "done"} \union
          CASE job.mode = "feed"     -> {}
            [] job.mode = "combined" -> {"warmup", "combined", "failed"}
            [] job.mode = "scalar"   -> {"scalar"}
    <3>1. CASE job.mode = "feed"
      BY <2>1, <3>1
    <3>2. CASE job.mode = "combined"
      BY <2>1, <3>2
    <3>3. CASE job.mode = "scalar"
      BY <2>1, <3>3
    <3> QED
      BY <2>0, <3>1, <3>2, <3>3
  <2>7. pc # "combined"
    BY <2>0, <2>1
  <2> QED
    BY <1>1, <2>1, <2>3, <2>4, <2>5, <2>6, <2>7 DEF SlotsInv
<1> QED
  BY <1>1, <1>7, <1>8, <1>9, <1>10 DEF IInv, ModeInv

-----------------------------------------------------------------------------
(* The outputs grow.                                                       *)

Extends(o, p) == Len(o) <= Len(p) /\ \A i \in 1 .. Len(o) : p[i] = o[i]

\* Streams are left alone or get a token.
Tokenwise == \A r \in Streams : out'[r] = out[r] \/ \E t : out'[r] = Append(out[r], t)

\* One stream gets a token, or those of some lanes.
OneToken(r) ==
    \E t : \A q \in Streams : out'[q] = IF q = r THEN Append(out[q], t) ELSE out[q]

LEMMA TokenGrows == ASSUME NEW r, OneToken(r) PROVE Tokenwise
  BY DEF Tokenwise, OneToken

LEMMA NoneGrows == ASSUME out' = out PROVE Tokenwise
  BY DEF Tokenwise

LEMMA DenseGrows ==
    ASSUME out \in [Streams -> Rows], DenseNext, ~ SpecRound
    PROVE  Tokenwise \/ out' = [r \in Streams |-> <<>>]
<1>0. out \in [Streams -> Rows]
  OBVIOUS
<1>1. Prefill \/ Stop \/ Bench \/ RefuseBench \/ Perplexity \/ BeginIteration \/ Admit => out' = out
  BY DEF Prefill, Stop, Bench, RefuseBench, Perplexity, BeginIteration, Admit
<1>2. Greedy => Tokenwise
  <2> SUFFICES ASSUME Greedy PROVE Tokenwise
    OBVIOUS
  <2>1. out' = [out EXCEPT ![0] = Append(@, logits[0])]
    BY DEF Greedy
  <2>2. OneToken(0)
    BY <1>0, <2>1 DEF OneToken
  <2> QED
    BY <2>2, TokenGrows
<1>3. Serve => Tokenwise
  BY DEF Serve, Tokenwise
<1>4. EndPass => out' = out \/ out' = [r \in Streams |-> <<>>]
  BY DEF EndPass
<1>5. Chunk => Tokenwise
  <2> SUFFICES ASSUME Chunk PROVE Tokenwise
    OBVIOUS
  <2>1. out' = out \/ \E t : out' = [out EXCEPT ![qhead - 1] = Append(@, t)]
    BY DEF Chunk
  <2>2. out' = out \/ OneToken(qhead - 1)
    BY <1>0, <2>1 DEF OneToken
  <2> QED
    BY <2>2, TokenGrows, NoneGrows
<1>6. Decode => Tokenwise
  <2> SUFFICES ASSUME Decode PROVE Tokenwise
    OBVIOUS
  <2>1. \E token : out' = Emitted(Decoding(active), req, token)
    BY DEF Decode
  <2> QED
    BY <2>1 DEF Emitted, Tokenwise
<1>7. Mixed => Tokenwise
  <2> SUFFICES ASSUME Mixed PROVE Tokenwise
    OBVIOUS
  <2>1. \E from, token : out' = Emitted(from, ReqAfter, token)
    BY DEF Mixed
  <2> QED
    BY <2>1 DEF Emitted, Tokenwise
<1> QED
  BY <1>1, <1>2, <1>3, <1>4, <1>5, <1>6, <1>7, NoneGrows DEF DenseNext

LEMMA MoeGrows ==
    ASSUME out \in [Streams -> Rows], MoeNext
    PROVE  Tokenwise
<1>0. out \in [Streams -> Rows]
  OBVIOUS
<1>1. MoePrompt => out' = out
  BY DEF MoePrompt, PromptMla, PromptGqa, PromptGguf, Verify, VerifySafetensors, AttentionMla,
         AttentionGqa, Layers, ParityMla, ParityGqa, PromptStep
<1>2. RefusePrompt \/ PromptDone \/ MoeStop => out' = out
  BY DEF RefusePrompt, PromptDone, MoeStop
<1>3. GenerateMla \/ GenerateGqa => Tokenwise
  <2> SUFFICES ASSUME GenerateMla \/ GenerateGqa PROVE Tokenwise
    OBVIOUS
  <2>1. out' = [out EXCEPT ![0] = Append(@, logits[0])]
    BY DEF GenerateMla, GenerateGqa, Generate
  <2>2. OneToken(0)
    BY <1>0, <2>1 DEF OneToken
  <2> QED
    BY <2>2, TokenGrows
<1>4. GgufGenerate => Tokenwise
  <2> SUFFICES ASSUME GgufGenerate PROVE Tokenwise
    OBVIOUS
  <2>1. out' = [out EXCEPT ![0] = Append(@, logits'[0])]
    BY DEF GgufGenerate
  <2>2. OneToken(0)
    BY <1>0, <2>1 DEF OneToken
  <2> QED
    BY <2>2, TokenGrows
<1>5. MeasureLayers \/ MeasureMla \/ MeasureGqa => out' = out
  BY DEF MeasureLayers, MeasureMla, MeasureGqa, Measure
<1>6. BatchGateMla \/ BatchGateGqa \/ MeasureBatchMla \/ MeasureBatchGqa \/ HybridBatch => out' = out
  BY DEF BatchGateMla, BatchGateGqa, MeasureBatchMla, MeasureBatchGqa, MeasureBatch, HybridBatch
<1>7. HybridChoice => Tokenwise
  <2> SUFFICES ASSUME HybridChoice PROVE Tokenwise
    OBVIOUS
  <2>1. \E t : out' = [out EXCEPT ![scan] = Append(@, t)]
    BY DEF HybridChoice
  <2>2. OneToken(scan)
    BY <1>0, <2>1 DEF OneToken
  <2> QED
    BY <2>2, TokenGrows
<1>8. ScalarPrefill \/ WarmupMla \/ WarmupGqa \/ PrefillMla \/ PrefillGqa => out' = out
  BY DEF ScalarPrefill, WarmupMla, WarmupGqa, Warmup, PrefillMla, PrefillGqa, CombinedPrefill
<1>9. SlotStep => Tokenwise
  <2> SUFFICES ASSUME SlotStep PROVE Tokenwise
    OBVIOUS
  <2>1. PICK a : out' = [r \in Streams |-> IF r \in Feeding /\ cbpos[r] + 1 - Plen(r) > 0
                                             THEN Append(out[r], a[r]) ELSE out[r]]
    BY DEF SlotStep
  <2> QED
    BY <2>1 DEF Tokenwise
<1>10. FeedMla \/ FeedGqa \/ DecodeMla \/ DecodeGqa \/ DecodeScalar => SlotStep
  BY DEF FeedMla, FeedGqa, DecodeMla, DecodeGqa, DecodeScalar
<1> QED
  BY <1>1, <1>2, <1>3, <1>4, <1>5, <1>6, <1>7, <1>8, <1>9, <1>10, NoneGrows DEF MoeNext, MoePrompt

LEMMA StepsGrow ==
    ASSUME IInv, [Next]_vars
    PROVE  \/ \A r \in Streams : Extends(out[r], out'[r])
           \/ out' = [r \in Streams |-> <<>>]
<1>1. out \in [Streams -> Rows]
  BY DEF IInv, StreamsInv
<1>2. ASSUME NEW o \in Rows, NEW t PROVE Extends(o, Append(o, t)) /\ Extends(o, o)
  <2>1. o \in Seq(Tokens \union {t}) /\ Len(o) \in Nat
    BY DEF Rows
  <2>2. Len(Append(o, t)) = Len(o) + 1 /\ \A i \in 1 .. Len(o) : Append(o, t)[i] = o[i]
    BY <2>1
  <2> QED
    BY <2>1, <2>2 DEF Extends
<1>3. Tokenwise => \A r \in Streams : Extends(out[r], out'[r])
  <2> SUFFICES ASSUME Tokenwise, NEW r \in Streams PROVE Extends(out[r], out'[r])
    OBVIOUS
  <2>1. out[r] \in Rows
    BY <1>1
  <2>2. out'[r] = out[r] \/ \E t : out'[r] = Append(out[r], t)
    BY DEF Tokenwise
  <2> QED
    BY <2>1, <2>2, <1>2
<1>4. CASE UNCHANGED vars
  BY <1>3, <1>4, NoneGrows DEF vars
<1>5. CASE SpecRound
  <2>1. job.mode \in SingleModes
    <3>1. pc = "spec"
      BY <1>5 DEF SpecRound
    <3>2. /\ job.mode \in SchedModes => pc # "spec"
          /\ job.mode \in MoeSingleModes => pc # "spec"
          /\ job.mode \in SlotModes => pc # "spec"
      <4>1. job.mode \in SchedModes => pc # "spec"
        BY DEF IInv, ModeInv, SchedModes, SchedInv
      <4>2. job.mode \in MoeSingleModes => pc # "spec"
        <5>1. job.mode \in MoeSingleModes => pc \in {"moeprompt", "done", "failed", job.mode}
          BY MoeSingleFacts DEF MoeSingleInv
        <5> QED
          BY <5>1 DEF MoeSingleModes, HostModes, DeviceModes
      <4>3. job.mode \in SlotModes => pc # "spec"
        BY SlotFacts, SlotControl
      <4> QED
        BY <4>1, <4>2, <4>3
    <3> QED
      BY <3>1, <3>2 DEF IInv, DenseModes, MoeModes, SingleModes, SchedModes, MoeSingleModes, HostModes,
                        DeviceModes, SlotModes
  <2>2. PICK ts \in Rows : out' = [out EXCEPT ![0] = @ \o ts]
    BY <1>5, <2>1, SpecKeeps
  <2> SUFFICES ASSUME NEW r \in Streams PROVE Extends(out[r], out'[r])
    OBVIOUS
  <2>3. out[r] \in Rows /\ (out'[r] = out[r] \/ out'[r] = out[r] \o ts)
    BY <1>1, <2>2
  <2>4. PICK o : o = out[r]
    OBVIOUS
  <2>5. /\ Len(o \o ts) = Len(o) + Len(ts) /\ Len(o) \in Nat /\ Len(ts) \in Nat
        /\ \A i \in 1 .. Len(o) : (o \o ts)[i] = o[i]
    BY <2>3, <2>4, TextContinues
  <2>6. Extends(o, o \o ts)
    BY <2>5 DEF Extends
  <2> QED
    BY <2>3, <2>4, <2>6, <1>2
<1>6. CASE DenseNext /\ ~ SpecRound
  BY <1>1, <1>3, <1>6, DenseGrows
<1>7. CASE MoeNext
  BY <1>1, <1>3, <1>7, MoeGrows
<1> QED
  BY <1>4, <1>5, <1>6, <1>7 DEF Next, Ended, DenseNext

LEMMA StepsLeaveJob == [Next]_vars => job' = job
<1>1. DenseNext => job' = job
  BY DEF DenseNext, Prefill, Greedy, Serve, SpecRound, Stop, Bench, RefuseBench, Perplexity,
         BeginIteration, EndPass, Admit, Chunk, Decode, Mixed
<1>2. MoePrompt \/ RefusePrompt \/ PromptDone \/ MoeStop => job' = job
  BY DEF MoePrompt, PromptMla, PromptGqa, PromptGguf, Verify, VerifySafetensors, AttentionMla,
         AttentionGqa, Layers, ParityMla, ParityGqa, PromptStep, RefusePrompt, PromptDone, MoeStop
<1>3. GenerateMla \/ GenerateGqa \/ GgufGenerate \/ MeasureLayers \/ MeasureMla \/ MeasureGqa =>
         job' = job
  BY DEF GenerateMla, GenerateGqa, Generate, GgufGenerate, MeasureLayers, MeasureMla, MeasureGqa,
         Measure
<1>4. (\/ BatchGateMla \/ BatchGateGqa \/ MeasureBatchMla \/ MeasureBatchGqa
       \/ HybridBatch \/ HybridChoice) => job' = job
  BY DEF BatchGateMla, BatchGateGqa, MeasureBatchMla, MeasureBatchGqa, MeasureBatch, HybridBatch,
         HybridChoice
<1>5. ScalarPrefill \/ WarmupMla \/ WarmupGqa \/ PrefillMla \/ PrefillGqa => job' = job
  BY DEF ScalarPrefill, WarmupMla, WarmupGqa, Warmup, PrefillMla, PrefillGqa, CombinedPrefill
<1>6. FeedMla \/ FeedGqa \/ DecodeMla \/ DecodeGqa \/ DecodeScalar => job' = job
  BY DEF FeedMla, FeedGqa, DecodeMla, DecodeGqa, DecodeScalar, SlotStep
<1>7. UNCHANGED vars => job' = job
  BY DEF vars
<1>8. MoeNext => job' = job
  BY <1>2, <1>3, <1>4, <1>5, <1>6 DEF MoeNext, MoePrompt
<1> QED
  BY <1>1, <1>7, <1>8 DEF Next, Ended

-----------------------------------------------------------------------------
(* What the invariant means.                                               *)

LEMMA NoSlotsTaken ==
    ASSUME QueueIdle, SlotsIdle
    PROVE  nact = Cardinality({s \in Lanes : active[s] # 0})
<1>1. {s \in Lanes : active[s] # 0} = {}
  BY DEF SlotsIdle
<1> QED
  BY <1>1, FS_EmptySet DEF QueueIdle

\* The types of the counters and the slots in each group of modes.
Counters ==
    /\ pos \in -1 .. MaxSeq + GateWarm /\ Len(hist) <= MaxSeq
    /\ rep \in Nat /\ qhead \in 0 .. R
    /\ job.mode \in DenseModes => nact = Cardinality({s \in Lanes : active[s] # 0})
    /\ \A s \in Lanes : /\ active[s] \in 0 .. 2 /\ req[s] \in Reqs
                        /\ pref[s] \in 0 .. MaxSeq /\ cbpos[s] \in 0 .. MaxSeq
    /\ scan \in 0 .. B /\ fed \in 0 .. MaxSeq

LEMMA IdleCounters ==
    ASSUME QueueIdle
    PROVE  /\ rep \in Nat /\ qhead \in 0 .. R /\ fed \in 0 .. MaxSeq
           /\ \A s \in Lanes : req[s] \in Reqs /\ pref[s] \in 0 .. MaxSeq
<1>1. R \in Nat /\ 1 <= R /\ MaxSeq \in Nat
  BY EngineAssumption, Sizes
<1>2. 0 \in Reqs /\ 0 \in 0 .. R /\ 0 \in 0 .. MaxSeq
  BY <1>1 DEF Reqs
<1> QED
  BY <1>2 DEF QueueIdle

LEMMA CountersFit == ASSUME IInv PROVE Counters
<1>0. /\ MaxSeq \in Nat /\ 1 <= MaxSeq /\ B \in Nat /\ GateWarm \in Nat /\ Len(<<>>) = 0
      /\ CbMaxPos \in Nat /\ CbMaxPos <= MaxSeq
  BY Sizes, EngineAssumption, MoeAssumption
<1>1. CASE job.mode \in SingleModes
  <2>1. QueueIdle /\ SlotsIdle /\ scan = 0 /\ pos \in -1 .. MaxSeq - 1 /\ Len(hist) <= MaxSeq
    BY <1>1, SingleFacts DEF SingleInv
  <2>2. \A s \in Lanes : active[s] = 0 /\ cbpos[s] = 0
    BY <2>1 DEF SlotsIdle
  <2>3. pos \in -1 .. MaxSeq + GateWarm
    BY <2>1, <1>0
  <2> QED
    BY <1>0, <2>1, <2>2, <2>3, IdleCounters, NoSlotsTaken DEF Counters
<1>2. CASE job.mode \in SchedModes
  <2>1. SchedInv
    BY <1>2, SchedFacts
  <2>2. /\ pos = -1 /\ hist = <<>> /\ rep \in Nat /\ qhead \in 0 .. R /\ scan \in 0 .. B
        /\ fed \in 0 .. MaxSeq /\ SlotTypes
    BY <2>1 DEF SchedInv
  <2>3. \A s \in Lanes : active[s] \in 0 .. 2
    <3>1. active \in [Lanes -> {0, 1}] \/ active \in [Lanes -> 0 .. 2]
      BY <2>2 DEF SlotTypes
    <3> QED
      BY <3>1
  <2>4. /\ nact = Cardinality({s \in Lanes : active[s] # 0})
        /\ \A s \in Lanes : req[s] \in Reqs /\ pref[s] \in 0 .. MaxSeq /\ cbpos[s] \in 0 .. MaxSeq
    BY <2>2 DEF SlotTypes
  <2>5. pos \in -1 .. MaxSeq + GateWarm /\ Len(hist) <= MaxSeq
    BY <1>0, <2>2
  <2> QED
    BY <2>2, <2>3, <2>4, <2>5 DEF Counters
<1>3. CASE job.mode \in MoeSingleModes
  <2>1. QueueIdle /\ SlotsIdle /\ hist = <<>> /\ pos \in -1 .. MaxSeq + GateWarm /\ scan \in 0 .. B
    BY <1>3, MoeSingleFacts DEF MoeSingleInv
  <2>2. \A s \in Lanes : active[s] = 0 /\ cbpos[s] = 0
    BY <2>1 DEF SlotsIdle
  <2> QED
    BY <1>0, <2>1, <2>2, IdleCounters, NoSlotsTaken DEF Counters
<1>4. CASE job.mode \in SlotModes
  <2>1. /\ QueueIdle /\ hist = <<>> /\ pos = -1 /\ scan \in 0 .. B
        /\ active \in [Lanes -> {0, 1}] /\ cbpos \in [Lanes -> 0 .. CbMaxPos]
    BY <1>4, SlotFacts DEF SlotsInv
  <2>2. ASSUME NEW s \in Lanes PROVE active[s] \in 0 .. 2 /\ cbpos[s] \in 0 .. MaxSeq
    <3>1. active[s] \in {0, 1} /\ cbpos[s] \in 0 .. CbMaxPos
      BY <2>1
    <3> QED
      BY <3>1, <1>0
  <2>3. pos \in -1 .. MaxSeq + GateWarm /\ Len(hist) <= MaxSeq
    BY <1>0, <2>1
  <2>4. job.mode \notin DenseModes
    BY <1>4 DEF SlotModes, DenseModes
  <2> QED
    BY <2>1, <2>2, <2>3, <2>4, IdleCounters DEF Counters
<1> QED
  BY <1>1, <1>2, <1>3, <1>4 DEF IInv, DenseModes, MoeModes, SingleModes, SchedModes, MoeSingleModes,
                                HostModes, DeviceModes, SlotModes

LEMMA InvariantIsTyped == IInv => TypeOK
<1> SUFFICES ASSUME IInv PROVE TypeOK
  OBVIOUS
<1>1. DispatchFits /\ clear \in BOOLEAN
  BY DEF IInv, StepInv
<1>2. Counters
  BY CountersFit
<1>3. pc \in DenseModes \union MoeModes \union
             {"prefill", "loop", "admit", "chunk", "decode",
              "moeprompt", "warmup", "slots", "done", "failed"}
  <2>1. CASE job.mode \in SingleModes
    <3>1. pc \in {"prefill", "done", "failed", job.mode}
      BY <2>1, SingleFacts DEF SingleInv
    <3> QED
      BY <3>1 DEF IInv
  <2>2. CASE job.mode \in SchedModes
    <3>1. pc \in {"loop", "done", "admit", "chunk", "decode", "mixed"}
      BY <2>2, SchedFacts DEF SchedInv
    <3> QED
      BY <3>1 DEF DenseModes
  <2>3. CASE job.mode \in MoeSingleModes
    <3>1. pc \in {"moeprompt", "done", "failed", job.mode}
      BY <2>3, MoeSingleFacts DEF MoeSingleInv
    <3> QED
      BY <3>1 DEF IInv
  <2>4. CASE job.mode \in SlotModes
    <3>1. pc \in {"slots", "done", "failed", "warmup", "combined", "scalar"}
      BY <2>4, SlotFacts, SlotControl
    <3> QED
      BY <3>1 DEF MoeModes
  <2> QED
    BY <2>1, <2>2, <2>3, <2>4 DEF IInv, DenseModes, MoeModes, SingleModes, SchedModes,
                                  MoeSingleModes, HostModes, DeviceModes, SlotModes
<1> QED
  BY <1>1, <1>2, <1>3 DEF TypeOK, Counters

LEMMA InvariantAnswers == IInv => AnswersComplete
<1> SUFFICES ASSUME IInv PROVE AnswersComplete
  OBVIOUS
<1>1. pc = "failed" => pos \in {-1, Window}
  <2>1. CASE job.mode \in SingleModes
    BY <2>1, SingleFacts DEF SingleInv
  <2>2. CASE job.mode \in SchedModes
    BY <2>2, SchedFacts DEF SchedInv
  <2>3. CASE job.mode \in MoeSingleModes
    BY <2>3, MoeSingleFacts DEF MoeSingleInv
  <2>4. CASE job.mode \in SlotModes
    BY <2>4, SlotFacts DEF SlotsInv
  <2> QED
    BY <2>1, <2>2, <2>3, <2>4 DEF IInv, DenseModes, MoeModes, SingleModes, SchedModes,
                                  MoeSingleModes, HostModes, DeviceModes, SlotModes
<1> QED
  BY <1>1 DEF AnswersComplete, IInv, Completed

\* A step of the program is a step, or none, of decoding greedily.
LEMMA StepsDecode ==
    ASSUME IInv, IInv', [Next]_vars
    PROVE  [Abstract!Emit \/ Abstract!Again]_<<job.model, PromptOf, out>>
<1>1. job' = job
  BY StepsLeaveJob
<1>2. PromptOf' = PromptOf /\ job'.model = job.model
  BY <1>1, PromptOfStays
<1>3. CASE out' = [r \in Streams |-> <<>>]
  BY <1>2, <1>3 DEF Abstract!Again
<1>4. CASE \A r \in Streams : Extends(out[r], out'[r])
  <2>1. /\ out \in [Streams -> Rows] /\ out' \in [Streams -> Rows]
        /\ \A r \in Streams : Continued(PromptOf[r], out'[r])
    <3>1. Streams' = Streams
      BY DEF Streams, Lanes, Reqs
    <3>2. \A r \in Streams' : Continued(PromptOf[r], out[r])'
      BY DEF IInv, StreamsInv
    <3>3. ASSUME NEW r \in Streams PROVE Continued(PromptOf[r], out'[r])
      BY <1>1, <1>2, <3>1, <3>2 DEF Continued
    <3> QED
      BY <3>1, <3>3 DEF IInv, StreamsInv
  <2>2. ASSUME NEW r \in Streams PROVE Abstract!Grows(out[r], out'[r])
    <3>1. PICK o, p : o = out[r] /\ p = out'[r]
      OBVIOUS
    <3>2. o \in Rows /\ p \in Rows /\ Extends(o, p)
      BY <1>4, <2>1, <3>1
    <3>3. Len(o) \in Nat /\ Len(p) \in Nat /\ Len(o) <= Len(p) /\ \A i \in 1 .. Len(o) : p[i] = o[i]
      BY <3>2 DEF Extends, Rows
    <3>4. SubSeq(p, 1, Len(o)) \in Rows /\ Len(SubSeq(p, 1, Len(o))) = Len(o)
      BY <3>2, <3>3, FirstRows
    <3>5. \A i \in 1 .. Len(o) : SubSeq(p, 1, Len(o))[i] = o[i]
      BY <3>2, <3>3 DEF Rows
    <3>6. SubSeq(p, 1, Len(o)) = o
      BY <3>2, <3>4, <3>5, SeqEqual DEF Rows
    <3> QED
      BY <3>1, <3>3, <3>6 DEF Abstract!Grows
  <2>3. ASSUME NEW r \in Streams PROVE Abstract!IsGreedy(PromptOf[r], out'[r])
    BY <2>1, <2>3 DEF Abstract!IsGreedy, Continued
  <2> QED
    BY <1>2, <2>2, <2>3 DEF Abstract!Emit
<1> QED
  BY <1>3, <1>4, StepsGrow

-----------------------------------------------------------------------------
(* Theorems.                                                               *)

\* The invariant holds throughout: what every mode knows of its lanes, its
\* outputs and its slots between two iterations of its loop.
THEOREM Invariance == Spec => []IInv
  BY StartHolds, StepsKeep, PTL DEF Spec

\* The state is well typed, and no step has more columns than its scratch,
\* a column beyond its lane or two for one cell (cbatch_step, serve_step,
\* forward_tokens and the steps of the mixture-of-experts engine).
THEOREM TypeCorrect == Spec => []TypeOK
  BY Invariance, InvariantIsTyped, PTL

\* Every column attends to exactly the rows of its own context, for every size
\* of block and ring the int4 cache may have (the claims of M22-D4 and M24-D3).
THEOREM ColumnsSeeTheirContext == Spec => []ReadsOwnContext
<1>1. IInv => ReadsOwnContext
  BY DEF IInv, StepInv, ReadsOwnContext
<1> QED
  BY <1>1, Invariance, PTL

\* At the end every output is as long as the loop of its mode should make it,
\* and a mode fails only where it refuses its prompt or its window ends.
THEOREM AnswersAreComplete == Spec => []AnswersComplete
  BY Invariance, InvariantAnswers, PTL

\* Every mode of both engines emits the greedy continuation of its prompts:
\* speculation, lockstep and the schedulers change only how much comes out in
\* one step.
THEOREM DecodesGreedily == Spec => ImplementsGreedy
<1>1. Init => Abstract!Init
  BY StartTypes DEF Abstract!Init
<1>2. IInv /\ IInv' /\ [Next]_vars => [Abstract!Emit \/ Abstract!Again]_<<job.model, PromptOf, out>>
  BY StepsDecode
<1> QED
  BY <1>1, <1>2, Invariance, PTL DEF Spec, ImplementsGreedy, Abstract!Spec
=============================================================================
