---------------------------- MODULE SchedulerProofs ----------------------------
(***************************************************************************)
(* Proofs about the online schedulers, for every number of slots and       *)
(* requests, every budget and every batch.  First what CbatchOnline        *)
(* counts, fits and answers, and that it implements EpochServing, none of  *)
(* which depends on what the KV lanes hold; then the rows of               *)
(* CbatchReverify, for every number of shadow lanes and every order of     *)
(* verification: what a column attends to, and what the shadow lanes hold. *)
(***************************************************************************)
EXTENDS CbatchReverify, Functions, FiniteSetTheorems, SequenceTheorems, WellFoundedInduction, TLAPS

-----------------------------------------------------------------------------
(* Induction stated with sets, so that no operator has to be instantiated, *)
(* and counting.                                                           *)

\* Every set of naturals that is not empty has a least element.
LEMMA LeastNumber ==
    ASSUME NEW T, T \subseteq Nat, T # {}
    PROVE  \E x \in T : \A y \in T : x <= y
<1>1. IsWellFoundedOn(OpToRel(<, Nat), Nat)
  BY NatLessThanWellFounded
<1>2. PICK x \in T : \A y \in T : <<y, x>> \notin OpToRel(<, Nat)
  BY <1>1, WFMin
<1>3. \A y \in T : ~ (y < x)
  BY <1>2 DEF OpToRel
<1> QED
  BY <1>3

\* A set that holds 0 and the successor of each of its numbers holds them all.
LEMMA Induction ==
    ASSUME NEW G, 0 \in G, \A n \in Nat : n \in G => n + 1 \in G
    PROVE  Nat \subseteq G
<1> SUFFICES ASSUME Nat \ G # {} PROVE FALSE
  OBVIOUS
<1>1. PICK x \in Nat \ G : \A y \in Nat \ G : x <= y
  BY LeastNumber
<1>2. x - 1 \in Nat /\ x - 1 \in G
  BY <1>1
<1> QED
  BY <1>1, <1>2

\* The running total of a function on 0 .. n - 1 exists.
LEMMA SumExists ==
    ASSUME NEW n \in Nat, NEW L \in [0 .. n - 1 -> Int]
    PROVE  \E f : /\ f = [s \in 0 .. n |-> IF s = 0 THEN 0 ELSE f[s - 1] + L[s - 1]]
                  /\ f \in [0 .. n -> Int]
<1> DEFINE Sum(f, k) == /\ f = [s \in 0 .. k |-> IF s = 0 THEN 0 ELSE f[s - 1] + L[s - 1]]
                        /\ f \in [0 .. k -> Int]
           G == {k \in Nat : k <= n => \E f : Sum(f, k)}
<1>1. 0 \in G
  <2>1. Sum([s \in 0 .. 0 |-> 0], 0)
    OBVIOUS
  <2> QED
    BY <2>1
<1>2. ASSUME NEW k \in Nat, k \in G PROVE k + 1 \in G
  <2>0. k + 1 \in G <=> (k + 1 <= n => \E f : Sum(f, k + 1))
    <3> HIDE DEF Sum
    <3> QED
      OBVIOUS
  <2> SUFFICES ASSUME k + 1 <= n PROVE \E f : Sum(f, k + 1)
    <3> HIDE DEF Sum, G
    <3> QED
      BY <2>0
  <2>1. PICK f : Sum(f, k)
    <3> HIDE DEF Sum
    <3> QED
      BY <1>2
  <2> DEFINE g == [s \in 0 .. k + 1 |-> IF s = k + 1 THEN f[k] + L[k] ELSE f[s]]
  <2>2. f[k] \in Int /\ L[k] \in Int
    BY <2>1
  <2>3. g \in [0 .. k + 1 -> Int]
    BY <2>1, <2>2
  <2>4. \A s \in 0 .. k + 1 : g[s] = IF s = 0 THEN 0 ELSE g[s - 1] + L[s - 1]
    <3> TAKE s \in 0 .. k + 1
    <3>1. CASE s = k + 1
      BY <3>1
    <3>2. CASE s \in 0 .. k
      <4>1. f[s] = IF s = 0 THEN 0 ELSE f[s - 1] + L[s - 1]
        BY <2>1, <3>2
      <4> QED
        BY <3>2, <4>1
    <3> QED
      BY <3>1, <3>2
  <2>5. Sum(g, k + 1)
    BY <2>3, <2>4
  <2> QED
    BY <2>5
<1> HIDE DEF G
<1>3. n \in G
  BY <1>1, <1>2, Induction
<1>4. \E f : Sum(f, n)
  <2> HIDE DEF Sum
  <2> QED
    BY <1>3 DEF G
<1> QED
  BY <1>4

\* A function from a finite set that tells its members apart, into as many
\* values, takes each of them.
LEMMA InjectionCovers ==
    ASSUME NEW S, NEW T, IsFiniteSet(S), IsFiniteSet(T), Cardinality(S) = Cardinality(T),
           NEW f \in [S -> T], \A x, y \in S : f[x] = f[y] => x = y
    PROVE  \A t \in T : \E x \in S : f[x] = t
<1>1. f \in Injection(S, T)
  BY DEF Injection, IsInjective
<1>2. f \in Surjection(S, T)
  BY <1>1, FS_Injection
<1> QED
  BY <1>2 DEF Surjection

\* A proper part of a finite set has fewer members.
LEMMA ProperPart ==
    ASSUME NEW S, IsFiniteSet(S), NEW T \in SUBSET S, T # S
    PROVE  Cardinality(T) < Cardinality(S)
  BY FS_Subset, FS_CardinalityType

\* A union has at most as many elements as its parts together.
LEMMA UnionBound ==
    ASSUME NEW S, NEW T, IsFiniteSet(S), IsFiniteSet(T)
    PROVE  /\ IsFiniteSet(S \union T) /\ Cardinality(S \union T) \in Nat
           /\ Cardinality(S) \in Nat /\ Cardinality(T) \in Nat
           /\ Cardinality(S \union T) <= Cardinality(S) + Cardinality(T)
           /\ S \intersect T = {} => Cardinality(S \union T) = Cardinality(S) + Cardinality(T)
<1>1. IsFiniteSet(S \union T) /\ IsFiniteSet(S \intersect T)
  BY FS_Union, FS_Intersection
<1>2. /\ Cardinality(S \union T) \in Nat /\ Cardinality(S \intersect T) \in Nat
      /\ Cardinality(S) \in Nat /\ Cardinality(T) \in Nat
  BY <1>1, FS_CardinalityType
<1>3. Cardinality(S \union T)
        = Cardinality(S) + Cardinality(T) - Cardinality(S \intersect T)
  BY FS_Union
<1>4. S \intersect T = {} => Cardinality(S \intersect T) = 0
  BY FS_EmptySet
<1> QED
  BY <1>1, <1>2, <1>3, <1>4

\* A set of at most one element.
LEMMA AtMostOne ==
    ASSUME NEW S, \A x, y \in S : x = y
    PROVE  IsFiniteSet(S) /\ (S = {} => Cardinality(S) = 0) /\ (S # {} => Cardinality(S) = 1)
<1>1. CASE S = {}
  BY <1>1, FS_EmptySet
<1>2. ASSUME NEW x \in S PROVE IsFiniteSet(S) /\ Cardinality(S) = 1
  <2>1. S = {x}
    BY <1>2
  <2> QED
    BY <2>1, FS_Singleton
<1> QED
  BY <1>1, <1>2

-----------------------------------------------------------------------------
(* The slots and the requests.                                             *)

Occupied == Slots \ Free

\* The slots are counted and hold requests already taken, each its own.
SlotsInv ==
    /\ nact = Cardinality(Occupied)
    /\ \A s \in Occupied : req[s] < qhead
    /\ \A s, u \in Occupied : req[s] = req[u] => s = u

Least == IF gate.scalar THEN 2 ELSE 1

\* Where a request in a slot is: in its prompt, or as many tokens after it as
\* it has been given, fewer than its limit.
ProgressInv ==
    /\ maxnew = Clamped(load)
    /\ \A r \in Reqs : r >= qhead => nout[r] = 0
    /\ \A s \in Prefilling : nout[req[s]] = 0 /\ pref[s] <= load.plen[req[s]] /\ ~gate.scalar
    /\ \A s \in Decoding :
        /\ nout[req[s]] >= 1 /\ pos[s] = load.plen[req[s]] + nout[req[s]] - 1 /\ pos[s] < MaxPos
        /\ nout[req[s]] < maxnew[req[s]] \/ (gate.scalar /\ nout[req[s]] = 1)

Answered(r) == nout[r] >= Least /\ (r \in stopped \/ nout[r] = Greater(Least, maxnew[r]))

\* A request that was taken is in a slot or answered.
DoneInv ==
    /\ \A r \in Reqs : r < qhead => Answered(r) \/ \E s \in Occupied : req[s] = r
    /\ pc = "idle" => qhead = R /\ nact = 0

\* The columns of a dispatch, until its tokens are emitted.
ColsInv ==
    pc = "emit" =>
        /\ \A s \in Decoding : [slot |-> s, pos |-> pos[s]] \in cols
        /\ \A c \in cols : \/ c.slot \in Decoding /\ c.pos = pos[c.slot]
                           \/ c.slot \in Prefilling /\ c.pos < pref[c.slot]
        /\ Emitting # {} => fresh
        /\ Cardinality(cols) <= BatchMax
        /\ Cardinality({c \in cols : active[c.slot] = 2}) <= PfB

SInv == TypeOK /\ SlotsInv /\ ProgressInv /\ DoneInv /\ ColsInv

-----------------------------------------------------------------------------
(* Lemmas.                                                                 *)

\* What the assumptions say of the constants.
LEMMA Constants ==
    /\ BatchMax \in Nat /\ B \in Nat /\ 1 <= B /\ B <= BatchMax
    /\ R \in Nat /\ R >= 1 /\ PfB \in Nat /\ PfB >= 1 /\ MaxPos \in Nat
    /\ LastArrival \in Nat /\ MaxRuns \in Nat /\ MaxAsked \in Nat
    /\ IsFiniteSet(Slots) /\ Cardinality(Slots) = B
    /\ \A w \in Workloads : /\ w.plen \in [Reqs -> 1 .. MaxPos - 1]
                            /\ w.maxnew \in [Reqs -> Int]
                            /\ w.arrive \in [Reqs -> 0 .. LastArrival]
<1>1. B \in Nat /\ 1 <= B /\ B <= BatchMax
  BY CbatchAssumption
<1>2. IsFiniteSet(Slots) /\ Cardinality(Slots) = B
  BY <1>1, FS_Interval DEF Slots
<1> QED
  BY <1>1, <1>2, CbatchAssumption

\* A limit after the clamp keeps its request in the lane.
LEMMA ClampedType ==
    ASSUME NEW w \in Workloads
    PROVE  /\ Clamped(w) \in [Reqs -> Int]
           /\ \A r \in Reqs : Clamped(w)[r] <= MaxPos - w.plen[r]
  BY Constants DEF Clamped, Lesser

\* The occupied slots are those that decode and those in their prompt.
LEMMA Parts ==
    ASSUME TypeOK
    PROVE  /\ Occupied = Decoding \union Prefilling /\ Decoding \intersect Prefilling = {}
           /\ Occupied \subseteq Slots /\ Decoding \subseteq Slots /\ Prefilling \subseteq Slots
           /\ IsFiniteSet(Occupied) /\ IsFiniteSet(Decoding) /\ IsFiniteSet(Free)
           /\ Cardinality(Occupied) \in 0 .. B /\ Cardinality(Decoding) \in 0 .. B
<1>1. /\ Occupied = Decoding \union Prefilling /\ Decoding \intersect Prefilling = {}
      /\ Occupied \subseteq Slots /\ Decoding \subseteq Slots /\ Prefilling \subseteq Slots
  BY DEF TypeOK, Occupied, Free, Decoding, Prefilling
<1>2. /\ IsFiniteSet(Occupied) /\ Cardinality(Occupied) <= B
      /\ IsFiniteSet(Decoding) /\ Cardinality(Decoding) <= B
      /\ IsFiniteSet(Free)
  BY <1>1, Constants, FS_Subset DEF Free
<1> QED
  BY <1>1, <1>2, Constants, FS_CardinalityType

\* The ranks of the slots admitted are 0, 1, ... and each belongs to one slot.
LEMMA Ranks ==
    ASSUME TypeOK
    PROVE  /\ IsFiniteSet(Admitted) /\ Cardinality(Admitted) \in Nat
           /\ \A s \in Admitted : Rank(s) \in 0 .. Cardinality(Admitted) - 1
           /\ \A s, u \in Admitted : Rank(s) = Rank(u) => s = u
           /\ \A k \in 0 .. Cardinality(Admitted) - 1 : \E s \in Admitted : Rank(s) = k
<1> DEFINE Below(s) == {u \in Free : u < s}
<1>0. \A s : Rank(s) = Cardinality(Below(s)) /\ \A u : u \in Below(s) <=> u \in Free /\ u < s
  BY DEF Rank
<1> HIDE DEF Below
<1>1. Admitted \subseteq Free /\ Free \subseteq Slots /\ Slots \subseteq Nat
  BY Constants DEF Admitted, Free, Slots
<1>2. IsFiniteSet(Admitted) /\ Cardinality(Admitted) \in Nat
  BY <1>1, Parts, FS_Subset, FS_CardinalityType
<1>3. \A s \in Free : IsFiniteSet(Below(s)) /\ Rank(s) \in Nat
  <2> TAKE s \in Free
  <2>1. Below(s) \in SUBSET Free
    BY <1>0
  <2> QED
    BY <1>0, <2>1, Parts, FS_Subset, FS_CardinalityType
<1>4. ASSUME NEW s \in Free, NEW u \in Free, s < u PROVE Rank(s) < Rank(u)
  <2>1. Below(s) \in SUBSET Below(u) /\ Below(s) # Below(u)
    <3>1. s \in Below(u) /\ s \notin Below(s)
      BY <1>0, <1>1, <1>4
    <3>2. ASSUME NEW v \in Below(s) PROVE v \in Below(u)
      <4>1. v \in Free /\ v < s
        BY <1>0
      <4>2. v \in Nat /\ s \in Nat /\ u \in Nat
        BY <1>1, <4>1
      <4>3. v < u
        BY <1>4, <4>1, <4>2
      <4> QED
        BY <1>0, <4>1, <4>3
    <3> QED
      BY <3>1, <3>2
  <2>2. Cardinality(Below(s)) < Cardinality(Below(u))
    BY <1>3, <2>1, ProperPart
  <2> QED
    BY <1>0, <2>2
<1>5. ASSUME NEW u \in Admitted, NEW s \in Free, s < u PROVE s \in Admitted
  <2>1. Rank(s) < Rank(u) /\ Rank(s) \in Nat /\ Rank(u) \in Nat
    BY <1>1, <1>3, <1>4, <1>5
  <2>2. /\ ~ drain /\ qhead + Rank(u) < R
        /\ \A r \in qhead .. qhead + Rank(u) : load.arrive[r] <= step
    BY DEF Admitted
  <2>3. qhead + Rank(s) < R /\ qhead .. qhead + Rank(s) \subseteq qhead .. qhead + Rank(u)
    BY <2>1, <2>2, Constants DEF TypeOK
  <2> QED
    BY <2>2, <2>3 DEF Admitted
<1>6. ASSUME NEW s \in Admitted PROVE Rank(s) \in 0 .. Cardinality(Admitted) - 1
  <2>1. Below(s) \in SUBSET Admitted /\ s \notin Below(s)
    <3>1. s \notin Below(s)
      BY <1>0, <1>1
    <3>2. ASSUME NEW v \in Below(s) PROVE v \in Admitted
      BY <1>0, <1>5, <3>2
    <3> QED
      BY <3>1, <3>2
  <2>2. Cardinality(Below(s)) < Cardinality(Admitted)
    BY <1>2, <2>1, ProperPart
  <2>3. Rank(s) \in Nat /\ Rank(s) = Cardinality(Below(s))
    BY <1>0, <1>1, <1>3
  <2> QED
    BY <1>2, <2>2, <2>3
<1>7. ASSUME NEW s \in Admitted, NEW u \in Admitted, Rank(s) = Rank(u) PROVE s = u
  <2>1. ~ (s < u) /\ ~ (u < s)
    BY <1>1, <1>3, <1>4, <1>7
  <2> QED
    BY <1>1, <2>1
<1>8. \A k \in 0 .. Cardinality(Admitted) - 1 : \E s \in Admitted : Rank(s) = k
  <2> DEFINE f == [s \in Admitted |-> Rank(s)]
             T == 0 .. Cardinality(Admitted) - 1
  <2>1. f \in [Admitted -> T] /\ \A s, u \in Admitted : f[s] = f[u] => s = u
    BY <1>6, <1>7
  <2>2. IsFiniteSet(T) /\ Cardinality(T) = Cardinality(Admitted)
    BY <1>2, FS_Interval
  <2> HIDE DEF f, T
  <2>3. \A k \in T : \E s \in Admitted : f[s] = k
    BY <1>2, <2>1, <2>2, InjectionCovers
  <2> QED
    BY <2>3 DEF f, T
<1> QED
  BY <1>2, <1>6, <1>7, <1>8

-----------------------------------------------------------------------------
(* The budget.                                                             *)

\* Only a slot in its prompt has positions left to compute.
LEMMA LeftType ==
    ASSUME TypeOK, ProgressInv, NEW s \in Slots
    PROVE  Left(s) \in Nat /\ (s \notin Prefilling => Left(s) = 0)
<1>1. CASE s \in Prefilling
  <2>1. load.plen[req[s]] \in Nat /\ pref[s] \in Nat /\ pref[s] <= load.plen[req[s]]
    BY <1>1, Constants DEF TypeOK, ProgressInv
  <2> QED
    BY <1>1, <2>1 DEF Left
<1>2. CASE s \notin Prefilling
  BY <1>2 DEF Left, Prefilling
<1> QED
  BY <1>1, <1>2

\* What the slots below one have left is the sum of what each of them has.
LEMMA LeftBelowSums ==
    ASSUME TypeOK, ProgressInv
    PROVE  /\ LeftBelow[0] = 0
           /\ \A s \in 0 .. B : LeftBelow[s] \in Int
           /\ \A s \in Slots : LeftBelow[s + 1] = LeftBelow[s] + Left(s)
<1> DEFINE L == [s \in 0 .. B - 1 |-> Left(s)]
<1>1. L \in [0 .. B - 1 -> Int]
  BY LeftType DEF Slots
<1>2. \E f : f = [s \in 0 .. B |-> IF s = 0 THEN 0 ELSE f[s - 1] + Left(s - 1)]
  <2> HIDE DEF L
  <2>1. B \in Nat
    BY Constants
  <2>2. PICK f : f = [s \in 0 .. B |-> IF s = 0 THEN 0 ELSE f[s - 1] + L[s - 1]]
    BY <1>1, <2>1, SumExists
  <2>3. \A s \in 0 .. B : s # 0 => L[s - 1] = Left(s - 1)
    BY <2>1 DEF L
  <2>4. [s \in 0 .. B |-> IF s = 0 THEN 0 ELSE f[s - 1] + L[s - 1]]
          = [s \in 0 .. B |-> IF s = 0 THEN 0 ELSE f[s - 1] + Left(s - 1)]
    BY <2>3
  <2> QED
    BY <2>2, <2>4
<1>3. LeftBelow = [s \in 0 .. B |-> IF s = 0 THEN 0 ELSE LeftBelow[s - 1] + Left(s - 1)]
  BY <1>2 DEF LeftBelow
<1>4. \A s \in 0 .. B : LeftBelow[s] = IF s = 0 THEN 0 ELSE LeftBelow[s - 1] + Left(s - 1)
  BY <1>3
<1>5. LeftBelow[0] = 0 /\ \A s \in Slots : LeftBelow[s + 1] = LeftBelow[s] + Left(s)
  <2>1. \A s \in Slots : s + 1 \in 0 .. B /\ s + 1 # 0 /\ (s + 1) - 1 = s
    BY Constants DEF Slots
  <2>2. 0 \in 0 .. B
    BY Constants
  <2> QED
    BY <1>4, <2>1, <2>2
<1> DEFINE G == {k \in Nat : k <= B => LeftBelow[k] \in Int}
<1>6. Nat \subseteq G
  <2>1. 0 \in G
    BY <1>5
  <2>2. ASSUME NEW k \in Nat, k \in G PROVE k + 1 \in G
    <3>1. CASE k + 1 <= B
      <4>1. k \in Slots /\ LeftBelow[k] \in Int
        BY <2>2, <3>1, Constants DEF Slots
      <4>2. LeftBelow[k + 1] \in Int
        BY <1>5, <4>1, LeftType
      <4> QED
        BY <4>2
    <3>2. CASE ~ (k + 1 <= B)
      BY <3>2
    <3> QED
      BY <3>1, <3>2
  <2> HIDE DEF G
  <2> QED
    BY <2>1, <2>2, Induction
<1> QED
  BY <1>5, <1>6, Constants

\* The budget and the decode columns fit the buffers together.
LEMMA BudgetType ==
    ASSUME TypeOK
    PROVE  Budget \in Nat /\ Budget <= PfB /\ Budget + Cardinality(Decoding) <= BatchMax
  BY Parts, Constants DEF Budget, Lesser

\* A slot takes no more than it has left, nor than what the budget leaves.
LEMMA TakeType ==
    ASSUME TypeOK, ProgressInv, NEW s \in Slots
    PROVE  /\ Take(s) \in Nat /\ Take(s) <= Left(s) /\ (s \notin Prefilling => Take(s) = 0)
           /\ Take(s) <= Greater(0, Budget - LeftBelow[s])
<1>1. Left(s) \in Nat /\ (s \notin Prefilling => Left(s) = 0)
  BY LeftType
<1>2. LeftBelow[s] \in Int
  BY LeftBelowSums, Constants DEF Slots
<1> QED
  BY <1>1, <1>2, BudgetType DEF Take, Greater, Lesser

DecodeCols == {[slot |-> s, pos |-> pos[s]] : s \in Decoding}
TakenCols(k) ==
    {c \in PromptCols : c.slot < k /\ c.pos \in pref[c.slot] .. pref[c.slot] + Take(c.slot) - 1}

\* The slots below k take no more columns than they have left, nor than the
\* budget.
LEMMA TakenFit ==
    ASSUME TypeOK, ProgressInv
    PROVE  \A k \in 0 .. B : /\ IsFiniteSet(TakenCols(k))
                             /\ Cardinality(TakenCols(k)) <= Lesser(LeftBelow[k], Budget)
<1> DEFINE Fits(k) == /\ IsFiniteSet(TakenCols(k)) /\ Cardinality(TakenCols(k)) \in Nat
                      /\ Cardinality(TakenCols(k)) <= Lesser(LeftBelow[k], Budget)
           G == {k \in Nat : k <= B => Fits(k)}
<1>1. 0 \in G
  <2>1. TakenCols(0) = {}
    BY DEF TakenCols, PromptCols, Prefilling, Slots
  <2> QED
    BY <2>1, FS_EmptySet, LeftBelowSums, BudgetType DEF Lesser
<1>2. ASSUME NEW k \in Nat, k \in G PROVE k + 1 \in G
  <2> SUFFICES ASSUME k + 1 <= B PROVE Fits(k + 1)
    OBVIOUS
  <2>1. k \in Slots /\ Fits(k)
    BY <1>2, Constants DEF Slots
  <2> DEFINE Here == {c \in PromptCols :
                        c.slot = k /\ c.pos \in pref[k] .. pref[k] + Take(k) - 1}
             Span == pref[k] .. pref[k] + Take(k) - 1
  <2>2. Take(k) \in Nat /\ pref[k] \in Nat
    BY <2>1, TakeType DEF TypeOK
  <2>3. IsFiniteSet(Span) /\ Cardinality(Span) = Take(k)
    <3>1. PICK a \in Int, b \in Int : a = pref[k] /\ b = pref[k] + Take(k) - 1
      BY <2>2
    <3>2. IsFiniteSet(a .. b) /\ Cardinality(a .. b) = IF a > b THEN 0 ELSE b - a + 1
      BY FS_Interval
    <3>3. Span = a .. b
      BY <3>1
    <3> HIDE DEF Span
    <3>4. a > b => Take(k) = 0
      BY <2>2, <3>1
    <3>5. a <= b => b - a + 1 = Take(k)
      BY <2>2, <3>1
    <3> QED
      BY <2>2, <3>2, <3>3, <3>4, <3>5
  <2>4. IsFiniteSet(Here) /\ Cardinality(Here) <= Take(k)
    <3> DEFINE f == [c \in Here |-> c.pos]
    <3>1. f \in [Here -> Span] /\ \A c, d \in Here : f[c] = f[d] => c = d
      BY DEF PromptCols
    <3>2. f \in Injection(Here, Span)
      BY <3>1 DEF Injection, IsInjective
    <3> HIDE DEF f, Here, Span
    <3> QED
      BY <2>3, <3>2, FS_Injection
  <2>5. TakenCols(k + 1) = TakenCols(k) \union Here
    BY <2>1, Constants DEF TakenCols, PromptCols, Prefilling, Slots
  <2> HIDE DEF Here
  <2>6. /\ IsFiniteSet(TakenCols(k + 1)) /\ Cardinality(TakenCols(k + 1)) \in Nat
        /\ Cardinality(TakenCols(k + 1)) <= Cardinality(TakenCols(k)) + Take(k)
    <3>1. /\ IsFiniteSet(TakenCols(k) \union Here) /\ Cardinality(TakenCols(k) \union Here) \in Nat
          /\ Cardinality(TakenCols(k) \union Here) <= Cardinality(TakenCols(k)) + Cardinality(Here)
          /\ Cardinality(Here) \in Nat
      BY <2>1, <2>4, UnionBound
    <3>2. /\ Cardinality(TakenCols(k)) \in Nat /\ Cardinality(Here) <= Take(k) /\ Take(k) \in Nat
      BY <2>1, <2>2, <2>4
    <3> DEFINE U == TakenCols(k) \union Here
    <3>3. TakenCols(k + 1) = U
      BY <2>5
    <3>4. /\ IsFiniteSet(U) /\ Cardinality(U) \in Nat
          /\ Cardinality(U) <= Cardinality(TakenCols(k)) + Cardinality(Here)
          /\ Cardinality(Here) \in Nat
      BY <3>1
    <3> HIDE DEF U
    <3>5. Cardinality(U) <= Cardinality(TakenCols(k)) + Take(k)
      BY <3>2, <3>4
    <3> QED
      BY <3>3, <3>4, <3>5
  <2>7. /\ LeftBelow[k + 1] = LeftBelow[k] + Left(k) /\ LeftBelow[k] \in Int
        /\ Take(k) <= Left(k) /\ Left(k) \in Nat /\ Take(k) <= Greater(0, Budget - LeftBelow[k])
    BY <2>1, LeftBelowSums, LeftType, TakeType, Constants DEF Slots
  <2> QED
    BY <2>1, <2>2, <2>6, <2>7, BudgetType DEF Lesser, Greater
<1> HIDE DEF G
<1>3. Nat \subseteq G
  BY <1>1, <1>2, Induction
<1> QED
  BY <1>3, Constants DEF G

\* A dispatch fits.
LEMMA DispatchFits ==
    ASSUME TypeOK, ProgressInv
    PROVE  /\ IsFiniteSet(DecodeCols \union TakenCols(B))
           /\ Cardinality(DecodeCols \union TakenCols(B)) <= BatchMax
           /\ IsFiniteSet(TakenCols(B)) /\ Cardinality(TakenCols(B)) <= PfB
<1>1. IsFiniteSet(DecodeCols) /\ Cardinality(DecodeCols) <= Cardinality(Decoding)
  <2> DEFINE f == [s \in Decoding |-> [slot |-> s, pos |-> pos[s]]]
  <2>1. f \in Surjection(Decoding, DecodeCols)
    BY DEF Surjection, DecodeCols
  <2> HIDE DEF f
  <2> QED
    BY <2>1, Parts, FS_Surjection
<1>2. LeftBelow[B] \in Int /\ B \in 0 .. B
  BY LeftBelowSums, Constants
<1>3. IsFiniteSet(TakenCols(B)) /\ Cardinality(TakenCols(B)) <= Budget
  BY <1>2, TakenFit, BudgetType, FS_CardinalityType DEF Lesser
<1>4. Cardinality(Decoding) \in Nat
  BY Parts
<1>5. /\ IsFiniteSet(DecodeCols \union TakenCols(B))
      /\ Cardinality(DecodeCols \union TakenCols(B))
           <= Cardinality(DecodeCols) + Cardinality(TakenCols(B))
      /\ Cardinality(DecodeCols \union TakenCols(B)) \in Nat
      /\ Cardinality(DecodeCols) \in Nat /\ Cardinality(TakenCols(B)) \in Nat
  BY <1>1, <1>3, UnionBound
<1> QED
  BY <1>1, <1>3, <1>4, <1>5, BudgetType, Constants

-----------------------------------------------------------------------------
(* The steps.                                                              *)

\* What most steps leave alone.
LEMMA Frame ==
    ASSUME SInv, TypeOK',
           UNCHANGED <<gate, load, maxnew, nout, active, req, pref, pos, qhead, nact, stopped>>,
           pc' = "idle" => qhead = R /\ nact = 0,
           pc' = "emit" => pc = "emit" /\ UNCHANGED <<cols, fresh>>
    PROVE  SInv'
<1>1. SlotsInv'
  BY DEF SInv, SlotsInv, Occupied, Free
<1>2. ProgressInv'
  BY DEF SInv, ProgressInv, Prefilling, Decoding, Clamped
<1>3. DoneInv'
  BY DEF SInv, DoneInv, Answered, Least, Occupied, Free
<1>4. ColsInv'
  BY DEF SInv, ColsInv, Prefilling, Decoding, Emitting
<1> QED
  BY <1>1, <1>2, <1>3, <1>4 DEF SInv

LEMMA AskStep == ASSUME SInv, Ask PROVE SInv'
<1>1. TypeOK'
  BY DEF SInv, TypeOK, Ask, table, slots
<1>2. UNCHANGED <<pc, gate, load, maxnew, nout, active, req, pref, pos, qhead, nact, stopped, cols,
                  fresh>>
  BY DEF Ask, table, slots
<1> QED
  BY <1>1, <1>2, Frame DEF SInv, DoneInv

\* Steps that write KV rows only.
LEMMA KvStep ==
    ASSUME SInv, UNCHANGED <<gate, pc, run, table, nout, slots, qhead, nact, drain, step, cols,
                             fresh, txn, stopped>>
    PROVE  SInv'
<1>1. TypeOK'
  BY DEF SInv, TypeOK, table, slots, txn
<1> QED
  BY <1>1, Frame DEF SInv, DoneInv, table, slots

LEMMA PollStep == ASSUME SInv, Poll PROVE SInv'
<1>1. TypeOK'
  BY DEF SInv, TypeOK, Poll, table, slots
<1> QED
  BY <1>1, Frame DEF Poll, table, slots

LEMMA ApplyType == ASSUME TypeOK, Apply PROVE epoch' \in Nat /\ asked' \in BOOLEAN
<1>1. epoch \in Nat /\ asked \in BOOLEAN
  BY DEF TypeOK
<1>2. epoch' = epoch \/ epoch' = epoch + 1
  BY DEF Apply, ApplyGpu, ApplyCpu
<1>3. asked' \in {FALSE, asked}
  BY DEF Apply, ApplyGpu, ApplyCpu
<1>4. asked' \in BOOLEAN
  BY <1>1, <1>3
<1>5. epoch' \in Nat
  BY <1>1, <1>2
<1> QED
  BY <1>4, <1>5

LEMMA BoundaryStep == ASSUME SInv, Boundary PROVE SInv'
<1>1. epoch' \in Nat /\ asked' \in BOOLEAN /\ drain' \in BOOLEAN
  BY ApplyType DEF SInv, TypeOK, Boundary, txn
<1>2. TypeOK'
  BY <1>1 DEF SInv, TypeOK, Boundary, table, slots
<1> QED
  BY <1>2, Frame DEF Boundary, table, slots

LEMMA FinishStep == ASSUME SInv, Finish PROVE SInv'
<1>1. epoch' \in Nat /\ asked' \in BOOLEAN
  BY ApplyType DEF SInv, TypeOK, Finish, txn
<1>2. TypeOK'
  BY <1>1 DEF SInv, TypeOK, Finish, table, slots
<1> QED
  BY <1>2, Frame DEF Finish, table, slots

LEMMA BeginStep == ASSUME SInv, NEW w \in Workloads, Begin(w) PROVE SInv'
<1>1. /\ load' = w /\ maxnew' = Clamped(w) /\ nout' = [r \in Reqs |-> 0] /\ stopped' = {}
      /\ active' = [s \in Slots |-> 0] /\ qhead' = 0 /\ nact' = 0 /\ pc' = "loop"
  BY DEF Begin
<1>2. Occupied' = {} /\ Prefilling' = {} /\ Decoding' = {}
  BY <1>1 DEF Occupied, Free, Prefilling, Decoding
<1>3. MaxPos \in Nat /\ R \in Nat /\ B \in Nat /\ LastArrival \in Nat
  BY Constants
<1>4. TypeOK'
  <2>1. run' \in 0 .. MaxRuns
    BY Constants DEF SInv, TypeOK, Begin
  <2>2. maxnew' \in [Reqs -> Int]
    BY <1>1, ClampedType
  <2>3. nout' \in [Reqs -> 0 .. MaxPos] /\ active' \in [Slots -> 0 .. 2]
    BY <1>1, <1>3
  <2>4. /\ qhead' \in 0 .. R /\ nact' \in 0 .. B /\ step' \in 0 .. LastArrival
        /\ {drain', asked', fresh'} \subseteq BOOLEAN
    <3>1. drain' = FALSE /\ asked' = asked /\ fresh' = fresh /\ qhead' = 0 /\ nact' = 0 /\ step' = 0
      BY DEF Begin, txn
    <3>2. {drain, asked, fresh} \subseteq BOOLEAN
      BY DEF SInv, TypeOK
    <3>3. {drain', asked', fresh'} \subseteq BOOLEAN
      BY <3>1, <3>2
    <3> QED
      BY <1>3, <3>1, <3>3
  <2> QED
    BY <1>1, <2>1, <2>2, <2>3, <2>4 DEF SInv, TypeOK, Begin, txn
<1>5. SlotsInv'
  BY <1>1, <1>2, FS_EmptySet DEF SlotsInv
<1>6. ProgressInv'
  BY <1>1, <1>2 DEF ProgressInv, Clamped
<1>7. DoneInv' /\ ColsInv'
  BY <1>1, <1>3 DEF DoneInv, ColsInv, Reqs
<1> QED
  BY <1>4, <1>5, <1>6, <1>7 DEF SInv

LEMMA InitStep == ASSUME Init PROVE SInv
<1>1. Occupied = {} /\ Prefilling = {} /\ Decoding = {}
  BY DEF Init, Occupied, Free, Prefilling, Decoding
<1>2. TypeOK
  <2>1. 0 \in 0 .. MaxRuns /\ 0 \in 0 .. MaxPos /\ 0 \in 0 .. B /\ 0 \in 0 .. R /\ 0 \in 0 .. 2
        /\ 0 \in 0 .. LastArrival /\ 0 \in Reqs /\ 0 \in Nat
    BY Constants DEF Reqs
  <2>2. maxnew \in [Reqs -> Int]
    BY ClampedType DEF Init
  <2> QED
    BY <2>1, <2>2 DEF Init, TypeOK
<1>3. SlotsInv
  BY <1>1, FS_EmptySet DEF SlotsInv, Init
<1>4. ProgressInv
  BY <1>1 DEF ProgressInv, Init
<1>5. DoneInv /\ ColsInv
  BY Constants DEF DoneInv, ColsInv, Init, Reqs
<1> QED
  BY <1>2, <1>3, <1>4, <1>5 DEF SInv

\* What an admission does: slots and requests it takes, and those it leaves.
LEMMA AdmitEffect ==
    ASSUME SInv, Admit
    PROVE  /\ UNCHANGED <<gate, run, load, maxnew, stopped, epoch>> /\ pc' \in {"loop", "dispatch"}
           /\ Admitted \subseteq Slots /\ Admitted \intersect Occupied = {}
           /\ Occupied' = Occupied \union Admitted
           /\ Prefilling' = IF gate.scalar THEN Prefilling ELSE Prefilling \union Admitted
           /\ Decoding' = IF gate.scalar THEN Decoding \union Admitted ELSE Decoding
           /\ Cardinality(Admitted) \in Nat /\ IsFiniteSet(Admitted)
           /\ qhead' = qhead + Cardinality(Admitted) /\ qhead' <= R
           /\ \A s \in Admitted :
                /\ Rank(s) \in Nat /\ Rank(s) < Cardinality(Admitted)
                /\ qhead + Rank(s) \in Reqs /\ load.plen[qhead + Rank(s)] \in 1 .. MaxPos - 1
           /\ \A k \in 0 .. Cardinality(Admitted) - 1 : \E s \in Admitted : Rank(s) = k
           /\ \A s, u \in Admitted : Rank(s) = Rank(u) => s = u
           /\ \A r \in Reqs : nout'[r] = IF gate.scalar /\ r >= qhead
                                              /\ r < qhead + Cardinality(Admitted)
                                           THEN 1 ELSE nout[r]
           /\ \A s \in Occupied : /\ req'[s] = req[s] /\ pref'[s] = pref[s] /\ pos'[s] = pos[s]
                                  /\ req[s] \in Reqs /\ req[s] < qhead
                                  /\ nout'[req[s]] = nout[req[s]]
           /\ \A s \in Admitted : /\ req'[s] = qhead + Rank(s) /\ (~gate.scalar => pref'[s] = 0)
                                  /\ gate.scalar => pos'[s] = load.plen[qhead + Rank(s)]
                                  /\ nout'[qhead + Rank(s)] = IF gate.scalar THEN 1 ELSE 0
<1> DEFINE N == Cardinality(Admitted)
<1>1. TypeOK /\ SlotsInv /\ ProgressInv /\ DoneInv
  BY DEF SInv
<1>2. /\ load' = load /\ maxnew' = maxnew /\ stopped' = stopped /\ gate' = gate
      /\ qhead' = qhead + N /\ nact' = nact + N /\ pc' \in {"loop", "dispatch"}
      /\ active' = [s \in Slots |-> IF s \in Admitted THEN (IF gate.scalar THEN 1 ELSE 2)
                                    ELSE active[s]]
      /\ req' = [s \in Slots |-> IF s \in Admitted THEN qhead + Rank(s) ELSE req[s]]
      /\ pref' = [s \in Slots |-> IF s \in Admitted /\ ~gate.scalar THEN 0 ELSE pref[s]]
      /\ pos' = [s \in Slots |-> IF s \notin Admitted THEN pos[s]
                                 ELSE IF gate.scalar THEN load.plen[qhead + Rank(s)] ELSE 0]
  BY DEF Admit, Occupy, table
<1>3. Admitted \subseteq Slots /\ Admitted \intersect Occupied = {} /\ Occupied \subseteq Slots
  BY DEF Admitted, Occupied, Free
<1>4. /\ Occupied' = Occupied \union Admitted
      /\ Prefilling' = IF gate.scalar THEN Prefilling ELSE Prefilling \union Admitted
      /\ Decoding' = IF gate.scalar THEN Decoding \union Admitted ELSE Decoding
  <2>1. \A s \in Slots : active'[s] = IF s \in Admitted THEN (IF gate.scalar THEN 1 ELSE 2)
                                      ELSE active[s]
    BY <1>2
  <2>2. \A s \in Admitted : active[s] = 0
    BY DEF Admitted, Free
  <2> QED
    BY <1>3, <2>1, <2>2 DEF Occupied, Free, Prefilling, Decoding
<1>5. /\ N \in Nat /\ IsFiniteSet(Admitted)
      /\ qhead \in Nat /\ R \in Nat /\ B \in Nat /\ MaxPos \in Nat
  BY <1>1, Ranks, Constants DEF TypeOK
<1>6. \A s \in Admitted : /\ Rank(s) \in Nat /\ Rank(s) < N /\ qhead + Rank(s) \in Reqs
                          /\ load.plen[qhead + Rank(s)] \in 1 .. MaxPos - 1
  <2> TAKE s \in Admitted
  <2>1. Rank(s) \in Nat /\ Rank(s) < N
    BY <1>1, <1>5, Ranks
  <2>2. qhead + Rank(s) < R
    BY DEF Admitted
  <2>3. qhead + Rank(s) \in Reqs
    BY <1>5, <2>1, <2>2 DEF Reqs
  <2> QED
    BY <1>1, <2>1, <2>3, Constants DEF TypeOK
<1>7. \A k \in 0 .. N - 1 : \E s \in Admitted : Rank(s) = k
  BY <1>1, Ranks
<1>8. \A s, u \in Admitted : Rank(s) = Rank(u) => s = u
  BY <1>1, Ranks
<1> HIDE DEF N
<1>9. qhead + N <= R
  <2>1. CASE N = 0
    BY <1>1, <1>5, <2>1 DEF TypeOK
  <2>2. CASE N # 0
    <3>1. PICK s \in Admitted : Rank(s) = N - 1
      BY <1>5, <1>7, <2>2
    <3> QED
      BY <1>5, <1>6, <3>1 DEF Reqs
  <2> QED
    BY <2>1, <2>2
<1>10. \A r \in Reqs : nout'[r] = IF gate.scalar /\ r >= qhead /\ r < qhead + N THEN 1 ELSE nout[r]
  <2> TAKE r \in Reqs
  <2>1. CASE ~gate.scalar
    BY <2>1 DEF Admit
  <2>2. CASE gate.scalar
    <3> DEFINE T == {s \in Admitted : qhead + Rank(s) = r}
    <3>1. nout'[r] = nout[r] + Cardinality(T)
      BY <2>2 DEF Admit, PrefillAlone
    <3>2. \A s, u \in T : s = u
      BY <1>5, <1>6, <1>8
    <3>3. (T = {} => Cardinality(T) = 0) /\ (T # {} => Cardinality(T) = 1)
      BY <3>2, AtMostOne
    <3>4. T # {} <=> r >= qhead /\ r < qhead + N
      <4>1. ASSUME NEW s \in T PROVE r >= qhead /\ r < qhead + N
        BY <1>5, <1>6
      <4>2. ASSUME r >= qhead, r < qhead + N PROVE T # {}
        <5>1. r - qhead \in 0 .. N - 1
          BY <1>5, <4>2 DEF Reqs
        <5>2. PICK s \in Admitted : Rank(s) = r - qhead
          BY <1>7, <5>1
        <5>3. s \in T
          BY <1>5, <5>2 DEF Reqs
        <5> QED
          BY <5>3
      <4> QED
        BY <4>1, <4>2
    <3>5. nout[r] \in Nat /\ (r >= qhead => nout[r] = 0)
      BY <1>1 DEF TypeOK, ProgressInv
    <3> HIDE DEF T
    <3> QED
      BY <2>2, <3>1, <3>3, <3>4, <3>5
  <2> QED
    BY <2>1, <2>2
<1>11. \A s \in Occupied : /\ req'[s] = req[s] /\ pref'[s] = pref[s] /\ pos'[s] = pos[s]
                           /\ req[s] \in Reqs /\ req[s] < qhead /\ nout'[req[s]] = nout[req[s]]
  <2> TAKE s \in Occupied
  <2>1. s \in Slots /\ s \notin Admitted
    BY <1>3
  <2>2. req[s] \in Reqs /\ req[s] < qhead
    BY <1>1, <2>1 DEF TypeOK, SlotsInv
  <2>3. nout'[req[s]] = nout[req[s]]
    BY <1>5, <1>10, <2>2 DEF Reqs
  <2> QED
    BY <1>2, <2>1, <2>2, <2>3
<1>12. \A s \in Admitted : /\ req'[s] = qhead + Rank(s) /\ (~gate.scalar => pref'[s] = 0)
                           /\ gate.scalar => pos'[s] = load.plen[qhead + Rank(s)]
                           /\ nout'[qhead + Rank(s)] = IF gate.scalar THEN 1 ELSE 0
  <2> TAKE s \in Admitted
  <2>1. s \in Slots
    BY <1>3
  <2>2. /\ qhead + Rank(s) >= qhead /\ qhead + Rank(s) < qhead + N /\ qhead + Rank(s) \in Reqs
        /\ nout[qhead + Rank(s)] = 0
    BY <1>1, <1>5, <1>6 DEF ProgressInv
  <2> QED
    BY <1>2, <1>10, <2>1, <2>2
<1>13. UNCHANGED <<run, epoch>>
  BY DEF Admit, txn
<1> QED
  BY <1>2, <1>3, <1>4, <1>5, <1>6, <1>7, <1>8, <1>9, <1>10, <1>11, <1>12, <1>13 DEF N

LEMMA AdmitStep == ASSUME SInv, Admit PROVE SInv'
<1> DEFINE N == Cardinality(Admitted)
<1>1. TypeOK /\ SlotsInv /\ ProgressInv /\ DoneInv
  BY DEF SInv
<1>2. /\ load' = load /\ maxnew' = maxnew /\ stopped' = stopped /\ gate' = gate
      /\ qhead' = qhead + N /\ nact' = nact + N /\ pc' \in {"loop", "dispatch"}
      /\ active' = [s \in Slots |-> IF s \in Admitted THEN (IF gate.scalar THEN 1 ELSE 2)
                                    ELSE active[s]]
      /\ req' = [s \in Slots |-> IF s \in Admitted THEN qhead + Rank(s) ELSE req[s]]
      /\ pref' = [s \in Slots |-> IF s \in Admitted /\ ~gate.scalar THEN 0 ELSE pref[s]]
      /\ pos' = [s \in Slots |-> IF s \notin Admitted THEN pos[s]
                                 ELSE IF gate.scalar THEN load.plen[qhead + Rank(s)] ELSE 0]
  BY DEF Admit, Occupy, table
<1>3. Admitted \subseteq Slots /\ Admitted \intersect Occupied = {} /\ Occupied \subseteq Slots
  BY DEF Admitted, Occupied, Free
<1>4. /\ Occupied' = Occupied \union Admitted
      /\ Prefilling' = IF gate.scalar THEN Prefilling ELSE Prefilling \union Admitted
      /\ Decoding' = IF gate.scalar THEN Decoding \union Admitted ELSE Decoding
  BY AdmitEffect
<1>5. N \in Nat /\ IsFiniteSet(Admitted) /\ qhead \in Nat /\ R \in Nat /\ B \in Nat
      /\ MaxPos \in Nat
  BY <1>1, AdmitEffect, Constants DEF TypeOK
<1>6. \A s \in Admitted : /\ Rank(s) \in Nat /\ Rank(s) < N /\ qhead + Rank(s) \in Reqs
                          /\ load.plen[qhead + Rank(s)] \in 1 .. MaxPos - 1
  BY AdmitEffect
<1>7. \A k \in 0 .. N - 1 : \E s \in Admitted : Rank(s) = k
  BY AdmitEffect
<1>8. \A s, u \in Admitted : Rank(s) = Rank(u) => s = u
  BY AdmitEffect
<1>9. qhead + N <= R
  BY AdmitEffect
<1>10. \A r \in Reqs : nout'[r] = IF gate.scalar /\ r >= qhead /\ r < qhead + N THEN 1 ELSE nout[r]
  BY AdmitEffect
<1>11. \A s \in Occupied : /\ req'[s] = req[s] /\ pref'[s] = pref[s] /\ pos'[s] = pos[s]
                           /\ req[s] \in Reqs /\ req[s] < qhead /\ nout'[req[s]] = nout[req[s]]
  BY AdmitEffect
<1>12. \A s \in Admitted : /\ req'[s] = qhead + Rank(s) /\ (~gate.scalar => pref'[s] = 0)
                           /\ gate.scalar => pos'[s] = load.plen[qhead + Rank(s)]
                           /\ nout'[qhead + Rank(s)] = IF gate.scalar THEN 1 ELSE 0
  BY AdmitEffect
<1> HIDE DEF N
<1>13. nact' = Cardinality(Occupied') /\ nact' \in 0 .. B
  <2>1. Cardinality(Occupied \union Admitted) = Cardinality(Occupied) + N
    BY <1>1, <1>3, <1>5, Parts, UnionBound DEF N
  <2>2. IsFiniteSet(Slots) /\ Cardinality(Slots) = B
    BY Constants
  <2>3. Occupied \union Admitted \in SUBSET Slots
    BY <1>3
  <2>4. /\ Cardinality(Occupied \union Admitted) <= B
        /\ Cardinality(Occupied \union Admitted) \in Nat
    BY <2>2, <2>3, FS_Subset, FS_CardinalityType
  <2>5. nact = Cardinality(Occupied)
    BY <1>1 DEF SlotsInv
  <2> QED
    BY <1>2, <1>4, <1>5, <2>1, <2>4, <2>5
<1>14. TypeOK'
  <2>1. nout' \in [Reqs -> 0 .. MaxPos]
    <3>1. N > 0 => 1 \in 0 .. MaxPos
      <4>1. N > 0 => Admitted # {}
        BY <1>5, <1>7
      <4> QED
        BY <1>5, <1>6, <4>1
    <3>2. ASSUME NEW r \in Reqs PROVE nout'[r] \in 0 .. MaxPos
      <4>1. nout[r] \in 0 .. MaxPos /\ r \in Nat
        BY <1>1, <1>5 DEF TypeOK, Reqs
      <4>2. r >= qhead /\ r < qhead + N => N > 0
        BY <1>5, <4>1
      <4> QED
        BY <1>10, <3>1, <4>1, <4>2
    <3>3. nout' = [r \in Reqs |-> nout'[r]]
      BY <1>1 DEF Admit, PrefillAlone, TypeOK
    <3> QED
      BY <3>2, <3>3
  <2>2. active' \in [Slots -> 0 .. 2]
    BY <1>1, <1>2 DEF TypeOK
  <2>3. req' \in [Slots -> Reqs]
    BY <1>1, <1>2, <1>6 DEF TypeOK
  <2>4. pref' \in [Slots -> 0 .. MaxPos]
    BY <1>1, <1>2, <1>5 DEF TypeOK
  <2>5. pos' \in [Slots -> 0 .. MaxPos]
    BY <1>1, <1>2, <1>5, <1>6 DEF TypeOK
  <2>6. qhead' \in 0 .. R
    BY <1>2, <1>5, <1>9
  <2>7. step' \in 0 .. LastArrival
    BY <1>1, Constants DEF TypeOK, Admit, Later, Lesser
  <2>8. UNCHANGED <<run, drain, cols, fresh, epoch, asked>>
    BY DEF Admit, txn
  <2> QED
    BY <1>1, <1>2, <1>13, <2>1, <2>2, <2>3, <2>4, <2>5, <2>6, <2>7, <2>8 DEF TypeOK
<1>15. SlotsInv'
  <2>1. \A s \in Occupied' : req'[s] < qhead'
    <3>1. ASSUME NEW s \in Occupied PROVE req'[s] < qhead'
      BY <1>2, <1>5, <1>11 DEF Reqs
    <3>2. ASSUME NEW s \in Admitted PROVE req'[s] < qhead'
      <4>1. req'[s] = qhead + Rank(s) /\ Rank(s) \in Nat /\ Rank(s) < N
        BY <1>6, <1>12
      <4> QED
        BY <1>2, <1>5, <4>1
    <3> QED
      BY <1>4, <3>1, <3>2
  <2>2. \A s, u \in Occupied' : req'[s] = req'[u] => s = u
    <3>1. ASSUME NEW s \in Occupied, NEW u \in Occupied, req'[s] = req'[u] PROVE s = u
      BY <1>1, <1>11, <3>1 DEF SlotsInv
    <3>2. ASSUME NEW s \in Occupied, NEW u \in Admitted PROVE req'[s] # req'[u]
      BY <1>5, <1>6, <1>11, <1>12 DEF Reqs
    <3>3. ASSUME NEW s \in Admitted, NEW u \in Admitted, req'[s] = req'[u] PROVE s = u
      BY <1>5, <1>6, <1>8, <1>12, <3>3
    <3> QED
      BY <1>4, <3>1, <3>2, <3>3
  <2> QED
    BY <1>13, <2>1, <2>2 DEF SlotsInv
<1>16. ProgressInv'
  <2>1. maxnew' = Clamped(load)'
    BY <1>1, <1>2 DEF ProgressInv, Clamped
  <2>2. \A r \in Reqs : r >= qhead' => nout'[r] = 0
    BY <1>1, <1>2, <1>5, <1>10 DEF ProgressInv, Reqs
  <2>3. \A s \in Prefilling' : /\ nout'[req'[s]] = 0 /\ pref'[s] <= load'.plen[req'[s]]
                               /\ ~gate'.scalar
    <3>1. ASSUME NEW s \in Prefilling
          PROVE  /\ nout'[req'[s]] = 0 /\ pref'[s] <= load'.plen[req'[s]] /\ ~gate'.scalar
      BY <1>1, <1>2, <1>11, Parts DEF ProgressInv
    <3>2. ASSUME NEW s \in Admitted, ~gate.scalar
          PROVE  /\ nout'[req'[s]] = 0 /\ pref'[s] <= load'.plen[req'[s]] /\ ~gate'.scalar
      <4>1. load.plen[qhead + Rank(s)] \in 1 .. MaxPos - 1
        BY <1>6
      <4>2. req'[s] = qhead + Rank(s) /\ pref'[s] = 0 /\ nout'[qhead + Rank(s)] = 0
        BY <1>12, <3>2
      <4> QED
        BY <1>2, <1>5, <3>2, <4>1, <4>2
    <3> QED
      BY <1>4, <3>1, <3>2
  <2>4. \A s \in Decoding' :
          /\ nout'[req'[s]] >= 1 /\ pos'[s] = load'.plen[req'[s]] + nout'[req'[s]] - 1
          /\ pos'[s] < MaxPos
          /\ nout'[req'[s]] < maxnew'[req'[s]] \/ (gate'.scalar /\ nout'[req'[s]] = 1)
    <3>1. ASSUME NEW s \in Decoding
          PROVE  /\ nout'[req'[s]] >= 1 /\ pos'[s] = load'.plen[req'[s]] + nout'[req'[s]] - 1
                 /\ pos'[s] < MaxPos
                 /\ nout'[req'[s]] < maxnew'[req'[s]] \/ (gate'.scalar /\ nout'[req'[s]] = 1)
      BY <1>1, <1>2, <1>11, Parts DEF ProgressInv
    <3>2. ASSUME NEW s \in Admitted, gate.scalar
          PROVE  /\ nout'[req'[s]] >= 1 /\ pos'[s] = load'.plen[req'[s]] + nout'[req'[s]] - 1
                 /\ pos'[s] < MaxPos
                 /\ nout'[req'[s]] < maxnew'[req'[s]] \/ (gate'.scalar /\ nout'[req'[s]] = 1)
      <4>1. load.plen[qhead + Rank(s)] \in 1 .. MaxPos - 1
        BY <1>6
      <4>2. /\ req'[s] = qhead + Rank(s) /\ pos'[s] = load.plen[qhead + Rank(s)]
            /\ nout'[qhead + Rank(s)] = 1
        BY <1>12, <3>2
      <4> QED
        BY <1>2, <1>5, <3>2, <4>1, <4>2
    <3> QED
      BY <1>4, <3>1, <3>2
  <2> QED
    BY <2>1, <2>2, <2>3, <2>4 DEF ProgressInv
<1>17. DoneInv'
  <2>1. ASSUME NEW r \in Reqs, r < qhead' PROVE Answered(r)' \/ \E s \in Occupied' : req'[s] = r
    <3>1. CASE r < qhead
      <4>1. nout'[r] = nout[r]
        BY <1>5, <1>10, <3>1 DEF Reqs
      <4>2. Answered(r) => Answered(r)'
        BY <1>2, <4>1 DEF Answered, Least
      <4> QED
        BY <1>1, <1>4, <1>11, <3>1, <4>2 DEF DoneInv
    <3>2. CASE ~ (r < qhead)
      <4>1. r - qhead \in 0 .. N - 1
        BY <1>2, <1>5, <2>1, <3>2 DEF Reqs
      <4>2. PICK s \in Admitted : Rank(s) = r - qhead
        BY <1>7, <4>1
      <4>3. req'[s] = r
        BY <1>5, <1>12, <4>2 DEF Reqs
      <4> QED
        BY <1>4, <4>3
    <3> QED
      BY <3>1, <3>2
  <2> QED
    BY <1>2, <2>1 DEF DoneInv
<1>18. ColsInv'
  BY <1>2 DEF ColsInv
<1> QED
  BY <1>14, <1>15, <1>16, <1>17, <1>18 DEF SInv

LEMMA DispatchStep == ASSUME SInv, Dispatch PROVE SInv'
<1>1. TypeOK /\ SlotsInv /\ ProgressInv /\ DoneInv
  BY DEF SInv
<1>2. UNCHANGED <<gate, run, load, maxnew, nout, active, req, pos, qhead, nact, drain, epoch, asked,
                  stopped>>
  BY DEF Dispatch, table, txn
<1>3. /\ pref' = [s \in Slots |-> pref[s] + Take(s)] /\ fresh' = WantLogits(cols')
      /\ cols' = {} => pc' = "loop"
      /\ cols' # {} => pc' = "emit"
  BY DEF Dispatch
<1>4. /\ Occupied' = Occupied /\ Prefilling' = Prefilling /\ Decoding' = Decoding
  BY <1>2 DEF Occupied, Free, Prefilling, Decoding
<1>5. Occupied = Decoding \union Prefilling /\ Decoding \intersect Prefilling = {}
      /\ Decoding \subseteq Slots /\ Prefilling \subseteq Slots
  BY <1>1, Parts
<1>6. B \in Nat /\ MaxPos \in Nat /\ R \in Nat /\ Slots = 0 .. B - 1
  BY Constants DEF Slots
<1>7. cols' = DecodeCols \union TakenCols(B)
  <2>1. \A c \in PromptCols : c.slot < B
    <3> TAKE c \in PromptCols
    <3>1. c.slot \in Prefilling
      BY DEF PromptCols
    <3>2. c.slot \in 0 .. B - 1
      BY <1>5, <1>6, <3>1
    <3> QED
      BY <1>6, <3>2
  <2> QED
    BY <2>1 DEF Dispatch, DecodeCols, TakenCols
<1>8. \A s \in Slots : /\ pref'[s] = pref[s] + Take(s) /\ pref[s] \in 0 .. MaxPos /\ Take(s) \in Nat
                       /\ s \notin Prefilling => pref'[s] = pref[s]
                       /\ s \in Prefilling => pref'[s] <= load.plen[req[s]]
                       /\ load.plen[req[s]] \in 1 .. MaxPos - 1
  <2> TAKE s \in Slots
  <2>1. Take(s) \in Nat /\ Take(s) <= Left(s) /\ (s \notin Prefilling => Take(s) = 0)
    BY <1>1, TakeType
  <2>2. pref[s] \in 0 .. MaxPos /\ load.plen[req[s]] \in 1 .. MaxPos - 1
    BY <1>1, Constants DEF TypeOK
  <2>3. s \in Prefilling => Left(s) = load.plen[req[s]] - pref[s]
    BY DEF Prefilling, Left
  <2> QED
    BY <1>3, <1>6, <2>1, <2>2, <2>3
<1>9. TypeOK'
  <2>1. pref' \in [Slots -> 0 .. MaxPos]
    <3>1. \A s \in Slots : pref'[s] \in 0 .. MaxPos
      BY <1>6, <1>8
    <3> QED
      BY <1>3, <3>1
  <2>2. cols' \subseteq [slot : Slots, pos : 0 .. MaxPos - 1]
    <3>1. \A s \in Decoding : pos[s] \in 0 .. MaxPos - 1
      BY <1>1, <1>5, <1>6 DEF TypeOK, ProgressInv
    <3>2. DecodeCols \subseteq [slot : Slots, pos : 0 .. MaxPos - 1]
      BY <1>5, <3>1 DEF DecodeCols
    <3>3. TakenCols(B) \subseteq [slot : Slots, pos : 0 .. MaxPos - 1]
      BY <1>5 DEF TakenCols, PromptCols
    <3> QED
      BY <1>7, <3>2, <3>3
  <2>3. fresh' \in BOOLEAN
    BY <1>3 DEF WantLogits
  <2>4. step' \in 0 .. LastArrival
    BY <1>1, Constants DEF TypeOK, Dispatch, Later, Lesser
  <2>5. {drain', asked', fresh'} \subseteq BOOLEAN
    BY <1>1, <1>2, <2>3 DEF TypeOK
  <2> QED
    BY <1>1, <1>2, <1>3, <2>1, <2>2, <2>4, <2>5 DEF TypeOK
<1>10. SlotsInv'
  BY <1>1, <1>2, <1>4 DEF SlotsInv
<1>11. ProgressInv'
  <2>1. maxnew' = Clamped(load)'
    BY <1>1, <1>2 DEF ProgressInv, Clamped
  <2>2. \A s \in Prefilling : pref'[s] <= load.plen[req[s]]
    BY <1>5, <1>8
  <2> QED
    BY <1>1, <1>2, <1>4, <2>1, <2>2 DEF ProgressInv
<1>12. DoneInv'
  BY <1>1, <1>2, <1>3, <1>4 DEF DoneInv, Answered, Least
<1>13. ColsInv'
  <2> SUFFICES ASSUME pc' = "emit"
               PROVE  /\ \A s \in Decoding : [slot |-> s, pos |-> pos[s]] \in cols'
                      /\ \A c \in cols' : \/ c.slot \in Decoding /\ c.pos = pos[c.slot]
                                          \/ c.slot \in Prefilling /\ c.pos < pref'[c.slot]
                      /\ Emitting' # {} => fresh'
                      /\ Cardinality(cols') <= BatchMax
                      /\ Cardinality({c \in cols' : active[c.slot] = 2}) <= PfB
    BY <1>2, <1>4 DEF ColsInv
  <2>1. \A s \in Decoding : [slot |-> s, pos |-> pos[s]] \in cols'
    BY <1>7 DEF DecodeCols
  <2>2. ASSUME NEW c \in cols'
        PROVE  \/ c.slot \in Decoding /\ c.pos = pos[c.slot]
               \/ c.slot \in Prefilling /\ c.pos < pref'[c.slot]
    <3>1. CASE c \in DecodeCols
      BY <3>1 DEF DecodeCols
    <3>2. CASE c \in TakenCols(B)
      <4>1. /\ c.slot \in Prefilling /\ c.pos \in 0 .. MaxPos - 1
            /\ c.pos \in pref[c.slot] .. pref[c.slot] + Take(c.slot) - 1
        BY <3>2 DEF TakenCols, PromptCols
      <4>2. /\ pref'[c.slot] = pref[c.slot] + Take(c.slot) /\ Take(c.slot) \in Nat
            /\ pref[c.slot] \in 0 .. MaxPos
        BY <1>5, <1>8, <4>1
      <4> QED
        BY <1>6, <4>1, <4>2
    <3> QED
      BY <1>7, <2>2, <3>1, <3>2
  <2>3. Emitting' # {} => fresh'
    BY <1>2, <1>3, <1>4 DEF WantLogits, Emitting
  <2>4. Cardinality(cols') <= BatchMax
    BY <1>1, <1>7, DispatchFits
  <2>5. Cardinality({c \in cols' : active[c.slot] = 2}) <= PfB
    <3>1. \A c \in DecodeCols : active[c.slot] = 1
      BY DEF DecodeCols, Decoding
    <3>2. \A c \in TakenCols(B) : active[c.slot] = 2
      BY DEF TakenCols, PromptCols, Prefilling
    <3>3. {c \in cols' : active[c.slot] = 2} = TakenCols(B)
      BY <1>7, <3>1, <3>2
    <3> QED
      BY <1>1, <3>3, DispatchFits
  <2> QED
    BY <2>1, <2>2, <2>3, <2>4, <2>5
<1> QED
  BY <1>9, <1>10, <1>11, <1>12, <1>13 DEF SInv

\* A slot that emits: where it is, and what its token brings.
LEMMA Emitters ==
    ASSUME TypeOK, SlotsInv, ProgressInv
    PROVE  /\ Emitting \subseteq Occupied /\ Decoding \subseteq Emitting
           /\ \A s \in Occupied :
                /\ req[s] \in Reqs /\ req[s] < qhead /\ nout[req[s]] \in 0 .. MaxPos
                /\ load.plen[req[s]] \in 1 .. MaxPos - 1 /\ maxnew[req[s]] \in Int
                /\ maxnew[req[s]] <= MaxPos - load.plen[req[s]]
           /\ \A s \in Emitting :
                /\ Position(s) = load.plen[req[s]] + nout[req[s]] /\ Position(s) \in 1 .. MaxPos
                /\ nout[req[s]] + 1 <= MaxPos
                /\ s \in Decoding => Position(s) = pos[s] + 1
                /\ s \in Prefilling => Position(s) = load.plen[req[s]]
                /\ gate.scalar => nout[req[s]] >= 1
                /\ nout[req[s]] < maxnew[req[s]] \/ nout[req[s]] = Least - 1
<1>1. Occupied = Decoding \union Prefilling /\ Decoding \intersect Prefilling = {}
      /\ Occupied \subseteq Slots /\ MaxPos \in Nat
  BY Parts, Constants
<1>2. /\ Emitting \subseteq Occupied /\ Decoding \subseteq Emitting
  BY <1>1 DEF Emitting
<1>3. \A s \in Occupied : /\ req[s] \in Reqs /\ req[s] < qhead /\ nout[req[s]] \in 0 .. MaxPos
                          /\ load.plen[req[s]] \in 1 .. MaxPos - 1 /\ maxnew[req[s]] \in Int
                          /\ maxnew[req[s]] <= MaxPos - load.plen[req[s]]
  <2> TAKE s \in Occupied
  <2>1. req[s] \in Reqs /\ req[s] < qhead
    BY <1>1 DEF TypeOK, SlotsInv
  <2>2. load \in Workloads /\ maxnew = Clamped(load)
    BY DEF TypeOK, ProgressInv
  <2> QED
    BY <2>1, <2>2, ClampedType, Constants DEF TypeOK
<1>4. ASSUME NEW s \in Emitting
      PROVE  /\ Position(s) = load.plen[req[s]] + nout[req[s]] /\ Position(s) \in 1 .. MaxPos
             /\ nout[req[s]] + 1 <= MaxPos
             /\ s \in Decoding => Position(s) = pos[s] + 1
             /\ s \in Prefilling => Position(s) = load.plen[req[s]]
             /\ gate.scalar => nout[req[s]] >= 1
             /\ nout[req[s]] < maxnew[req[s]] \/ nout[req[s]] = Least - 1
  <2>1. CASE s \in Decoding
    <3>1. /\ nout[req[s]] >= 1 /\ pos[s] = load.plen[req[s]] + nout[req[s]] - 1 /\ pos[s] < MaxPos
          /\ nout[req[s]] < maxnew[req[s]] \/ (gate.scalar /\ nout[req[s]] = 1)
      BY <2>1 DEF ProgressInv
    <3>2. Position(s) = pos[s] + 1
      BY <2>1 DEF Decoding, Position
    <3>3. gate.scalar => Least = 2
      BY DEF Least
    <3>4. /\ nout[req[s]] \in 0 .. MaxPos /\ load.plen[req[s]] \in 1 .. MaxPos - 1
      BY <1>2, <1>3
    <3> QED
      BY <1>1, <2>1, <3>1, <3>2, <3>3, <3>4
  <2>2. CASE s \in Prefilling
    <3>1. nout[req[s]] = 0 /\ ~gate.scalar
      BY <2>2 DEF ProgressInv
    <3>2. Position(s) = load.plen[req[s]] /\ Least = 1
      BY <2>2, <3>1 DEF Prefilling, Position, Least
    <3>3. load.plen[req[s]] \in 1 .. MaxPos - 1
      BY <1>2, <1>3
    <3> QED
      BY <1>1, <2>2, <3>1, <3>2, <3>3
  <2> QED
    BY <1>1, <1>2, <2>1, <2>2
<1> QED
  BY <1>2, <1>3, <1>4

\* What an emission does, to the slots it frees and to the others.
LEMMA EmitEffect ==
    ASSUME SInv, Emit
    PROVE  /\ UNCHANGED <<gate, run, load, maxnew, req, pref, qhead, epoch, cols, kv>>
           /\ pc = "emit" /\ pc' = "loop"
           /\ Emitting \subseteq Occupied /\ Decoding \subseteq Emitting
           /\ active' \in [Slots -> 0 .. 2] /\ stopped \subseteq stopped' /\ stopped' \subseteq Reqs
           /\ \A s \in Emitting :
                /\ nout'[req[s]] = nout[req[s]] + 1 /\ nout'[req[s]] <= MaxPos
                /\ pos'[s] = Position(s) /\ Position(s) = load.plen[req[s]] + nout[req[s]]
                /\ Position(s) \in 0 .. MaxPos
           /\ \A s \in Slots \ Emitting : pos'[s] = pos[s]
           /\ \A s \in Occupied \ Emitting : nout'[req[s]] = nout[req[s]]
           /\ \A r \in Reqs : (\A s \in Emitting : req[s] # r) => nout'[r] = nout[r]
           /\ \A s \in Occupied :
                /\ req[s] \in Reqs /\ req[s] < qhead /\ nout[req[s]] \in 0 .. MaxPos
                /\ load.plen[req[s]] \in 1 .. MaxPos - 1
           /\ \E E \in SUBSET Emitting :
                /\ Occupied' = Occupied \ E /\ Decoding' = Emitting \ E
                /\ Prefilling' = Prefilling \ Emitting
                /\ nact' = nact - Cardinality(E)
                /\ \A s \in Emitting \ E : /\ nout[req[s]] + 1 < maxnew[req[s]]
                                           /\ Position(s) < MaxPos
                /\ \A s \in E : Answered(req[s])'
<1>1. TypeOK /\ SlotsInv /\ ProgressInv /\ DoneInv
  BY DEF SInv
<1>2. PICK S \in SUBSET Emitting :
        /\ active' = [s \in Slots |-> IF s \in Evicted(S) THEN 0
                                      ELSE IF s \in Emitting THEN 1 ELSE active[s]]
        /\ stopped' = stopped \union {req[s] : s \in S}
        /\ nact' = nact - Cardinality(Evicted(S))
  BY DEF Emit
<1> DEFINE E == Evicted(S)
<1>3. /\ nout' = [r \in Reqs |-> nout[r] + Cardinality({s \in Emitting : req[s] = r})]
      /\ pos' = [s \in Slots |-> IF s \in Emitting THEN Position(s) ELSE pos[s]]
      /\ step' = Later /\ pc' = "loop"
      /\ UNCHANGED <<gate, run, load, maxnew, req, pref, qhead, drain, cols, fresh, epoch, asked>>
  BY DEF Emit, table, txn
<1>4. Occupied = Decoding \union Prefilling /\ Decoding \intersect Prefilling = {}
      /\ Occupied \subseteq Slots /\ IsFiniteSet(Occupied)
  BY <1>1, Parts
<1>5. /\ Emitting \subseteq Occupied /\ Decoding \subseteq Emitting /\ E \subseteq Emitting
      /\ S \subseteq E
  BY <1>4 DEF Emitting, Evicted
<1>6. MaxPos \in Nat /\ R \in Nat /\ B \in Nat
  BY Constants
<1>7. /\ Occupied' = Occupied \ E /\ Decoding' = Emitting \ E /\ Prefilling' = Prefilling \ Emitting
  <2>1. \A s \in Slots : active'[s] = IF s \in E THEN 0 ELSE IF s \in Emitting THEN 1 ELSE active[s]
    BY <1>2
  <2> HIDE DEF E
  <2>2. Occupied' = Occupied \ E
    BY <1>4, <1>5, <2>1 DEF Occupied, Free
  <2>3. Decoding' = Emitting \ E
    BY <1>4, <1>5, <2>1 DEF Decoding
  <2>4. Prefilling' = Prefilling \ Emitting
    BY <1>4, <1>5, <2>1 DEF Prefilling
  <2> QED
    BY <2>2, <2>3, <2>4
\* One token for each emitting slot and its request.
<1>8. \A s \in Emitting : nout'[req[s]] = nout[req[s]] + 1
  <2> TAKE s \in Emitting
  <2> DEFINE T == {u \in Emitting : req[u] = req[s]}
  <2>1. \A u, v \in T : u = v
    BY <1>1, <1>5 DEF SlotsInv
  <2>2. s \in T
    OBVIOUS
  <2>3. Cardinality(T) = 1
    BY <2>1, <2>2, AtMostOne
  <2>4. req[s] \in Reqs
    BY <1>1, <1>4, <1>5 DEF TypeOK
  <2>5. nout'[req[s]] = nout[req[s]] + Cardinality(T)
    BY <1>3, <2>4
  <2> QED
    BY <2>3, <2>5
<1>9. ASSUME NEW r \in Reqs, \A s \in Emitting : req[s] # r PROVE nout'[r] = nout[r]
  <2>1. {u \in Emitting : req[u] = r} = {}
    BY <1>9
  <2>2. nout'[r] = nout[r] + 0
    BY <1>3, <2>1, FS_EmptySet
  <2>3. nout[r] \in Int
    BY <1>1 DEF TypeOK
  <2> QED
    BY <2>2, <2>3
<1>10. \A s \in Occupied \ Emitting : nout'[req[s]] = nout[req[s]]
  <2> TAKE s \in Occupied \ Emitting
  <2>1. \A u \in Emitting : req[u] # req[s]
    BY <1>1, <1>5 DEF SlotsInv
  <2>2. req[s] \in Reqs
    BY <1>1, <1>4 DEF TypeOK
  <2> QED
    BY <1>9, <2>1, <2>2
<1>11. \A s \in Occupied : /\ req[s] \in Reqs /\ req[s] < qhead /\ nout[req[s]] \in 0 .. MaxPos
                           /\ load.plen[req[s]] \in 1 .. MaxPos - 1 /\ maxnew[req[s]] \in Int
                           /\ maxnew[req[s]] <= MaxPos - load.plen[req[s]]
  BY <1>1, Emitters
<1>12. \A s \in Emitting :
         /\ Position(s) = load.plen[req[s]] + nout[req[s]] /\ Position(s) \in 1 .. MaxPos
         /\ nout'[req[s]] <= MaxPos
         /\ gate.scalar => nout[req[s]] >= 1
         /\ nout[req[s]] < maxnew[req[s]] \/ nout[req[s]] = Least - 1
  BY <1>1, <1>8, Emitters
<1>13. \A s \in Emitting \ E : nout[req[s]] + 1 < maxnew[req[s]] /\ Position(s) < MaxPos
  <2> TAKE s \in Emitting \ E
  <2>1. ~ (nout[req[s]] + 1 >= maxnew[req[s]])
    BY DEF Evicted
  <2>2. nout[req[s]] \in 0 .. MaxPos /\ maxnew[req[s]] \in Int /\ s \in Occupied
        /\ load.plen[req[s]] \in 1 .. MaxPos - 1
        /\ maxnew[req[s]] <= MaxPos - load.plen[req[s]]
    BY <1>5, <1>11
  <2>3. Position(s) = load.plen[req[s]] + nout[req[s]]
    BY <1>12
  <2> QED
    BY <1>6, <2>1, <2>2, <2>3
<1>14. \A s \in E : Answered(req[s])'
  <2> TAKE s \in E
  <2>1. s \in Emitting /\ s \in Occupied
    BY <1>5
  <2>2. /\ nout[req[s]] \in 0 .. MaxPos /\ maxnew[req[s]] \in Int
        /\ load.plen[req[s]] \in 1 .. MaxPos - 1
        /\ maxnew[req[s]] <= MaxPos - load.plen[req[s]]
    BY <1>11, <2>1
  <2>3. /\ Position(s) = load.plen[req[s]] + nout[req[s]]
        /\ gate.scalar => nout[req[s]] >= 1
        /\ nout[req[s]] < maxnew[req[s]] \/ nout[req[s]] = Least - 1
        /\ nout'[req[s]] = nout[req[s]] + 1
    BY <1>8, <1>12, <2>1
  <2>4. Least' = Least /\ maxnew' = maxnew /\ Least \in {1, 2} /\ (Least = 2 => gate.scalar)
    BY <1>3 DEF Least
  <2>5. nout'[req[s]] >= Least
    BY <1>6, <2>2, <2>3, <2>4
  <2>6. s \in S \/ nout[req[s]] + 1 >= maxnew[req[s]]
    <3>1. \/ s \in S \/ nout[req[s]] + 1 >= maxnew[req[s]]
          \/ Position(s) >= MaxPos
      BY DEF Evicted
    <3>2. Position(s) >= MaxPos => nout[req[s]] >= maxnew[req[s]]
      BY <1>6, <2>2, <2>3
    <3> QED
      BY <2>2, <3>1, <3>2
  <2>7. CASE s \in S
    <3>1. req[s] \in stopped'
      BY <1>2, <2>7
    <3> QED
      BY <1>3, <2>4, <2>5, <3>1 DEF Answered
  <2>8. CASE nout[req[s]] + 1 >= maxnew[req[s]]
    <3>1. nout'[req[s]] = Greater(Least, maxnew[req[s]])
      BY <2>2, <2>3, <2>4, <2>5, <2>8 DEF Greater
    <3> QED
      BY <1>3, <2>4, <2>5, <3>1 DEF Answered
  <2> QED
    BY <2>6, <2>7, <2>8
<1> HIDE DEF E
<1>15. active' \in [Slots -> 0 .. 2] /\ stopped \subseteq stopped' /\ stopped' \subseteq Reqs
  <2>1. active' \in [Slots -> 0 .. 2]
    BY <1>1, <1>2 DEF TypeOK
  <2>2. \A s \in S : req[s] \in Reqs
    BY <1>5, <1>11
  <2> QED
    BY <1>1, <1>2, <2>1, <2>2 DEF TypeOK
<1>16. \A s \in Emitting : pos'[s] = Position(s) /\ Position(s) \in 0 .. MaxPos
  <2> TAKE s \in Emitting
  <2>1. load.plen[req[s]] \in 1 .. MaxPos - 1 /\ nout[req[s]] \in 0 .. MaxPos
    BY <1>5, <1>11
  <2>2. pos'[s] = Position(s)
    BY <1>3, <1>4, <1>5
  <2> QED
    BY <1>6, <1>12, <2>1, <2>2
<1>17. \A s \in Slots \ Emitting : pos'[s] = pos[s]
  BY <1>3
<1>18. pc = "emit" /\ UNCHANGED <<gate, run, load, maxnew, req, pref, qhead, epoch, cols, kv>>
  BY DEF Emit, table, txn
<1>19. nact' = nact - Cardinality(E)
  BY <1>2 DEF E
<1> QED
  BY <1>3, <1>5, <1>7, <1>8, <1>9, <1>10, <1>11, <1>12, <1>13, <1>14, <1>15, <1>16, <1>17, <1>18,
     <1>19

LEMMA EmitStep == ASSUME SInv, Emit PROVE SInv'
<1>1. TypeOK /\ SlotsInv /\ ProgressInv /\ DoneInv
  BY DEF SInv
<1>2. PICK E \in SUBSET Emitting :
        /\ Occupied' = Occupied \ E /\ Decoding' = Emitting \ E
        /\ Prefilling' = Prefilling \ Emitting
        /\ nact' = nact - Cardinality(E)
        /\ \A s \in Emitting \ E : nout[req[s]] + 1 < maxnew[req[s]] /\ Position(s) < MaxPos
        /\ \A s \in E : Answered(req[s])'
  BY EmitEffect
<1>3. /\ nout' = [r \in Reqs |-> nout[r] + Cardinality({s \in Emitting : req[s] = r})]
      /\ pos' = [s \in Slots |-> IF s \in Emitting THEN Position(s) ELSE pos[s]]
      /\ step' = Later /\ pc' = "loop"
      /\ UNCHANGED <<gate, run, load, maxnew, req, pref, qhead, drain, cols, fresh, epoch, asked>>
  BY DEF Emit, table, txn
<1>4. Occupied = Decoding \union Prefilling /\ Decoding \intersect Prefilling = {}
      /\ Occupied \subseteq Slots /\ IsFiniteSet(Occupied)
  BY <1>1, Parts
<1>5. /\ Emitting \subseteq Occupied /\ Decoding \subseteq Emitting /\ E \subseteq Emitting
  BY EmitEffect
<1>6. MaxPos \in Nat /\ R \in Nat /\ B \in Nat
  BY Constants
<1>7. \A s \in Emitting : /\ nout'[req[s]] = nout[req[s]] + 1 /\ nout'[req[s]] <= MaxPos
                          /\ pos'[s] = Position(s) /\ Position(s) \in 0 .. MaxPos
                          /\ Position(s) = load.plen[req[s]] + nout[req[s]]
  BY EmitEffect
<1>8. ASSUME NEW r \in Reqs, \A s \in Emitting : req[s] # r PROVE nout'[r] = nout[r]
  BY <1>8, EmitEffect
<1>9. \A s \in Occupied \ Emitting : nout'[req[s]] = nout[req[s]]
  BY EmitEffect
<1>10. \A s \in Occupied : /\ req[s] \in Reqs /\ req[s] < qhead /\ nout[req[s]] \in 0 .. MaxPos
                           /\ load.plen[req[s]] \in 1 .. MaxPos - 1
  BY EmitEffect
<1>11. nact' = Cardinality(Occupied') /\ nact' \in 0 .. B
  <2>1. IsFiniteSet(E) /\ IsFiniteSet(Occupied \ E)
    <3>1. E \in SUBSET Occupied /\ Occupied \ E \in SUBSET Occupied
      BY <1>5
    <3> QED
      BY <1>4, <3>1, FS_Subset
  <2>2. (Occupied \ E) \union E = Occupied /\ (Occupied \ E) \intersect E = {}
    BY <1>5
  <2>3. /\ Cardinality(Occupied) = Cardinality(Occupied \ E) + Cardinality(E)
        /\ Cardinality(Occupied \ E) \in Nat /\ Cardinality(E) \in Nat
    BY <2>1, <2>2, UnionBound
  <2>4. nact = Cardinality(Occupied) /\ Cardinality(Occupied) \in 0 .. B
    BY <1>1, Parts DEF SlotsInv
  <2>5. nact' = nact - Cardinality(E)
    BY <1>2
  <2> QED
    BY <1>2, <1>6, <2>3, <2>4, <2>5
<1>12. TypeOK'
  <2>1. nout' \in [Reqs -> 0 .. MaxPos]
    <3>1. ASSUME NEW r \in Reqs PROVE nout'[r] \in 0 .. MaxPos
      <4>1. CASE \E s \in Emitting : req[s] = r
        <5>1. PICK s \in Emitting : req[s] = r
          BY <4>1
        <5>2. nout[r] \in 0 .. MaxPos /\ nout'[r] = nout[r] + 1 /\ nout'[r] <= MaxPos
          BY <1>1, <1>7, <5>1 DEF TypeOK
        <5> QED
          BY <1>6, <5>2
      <4>2. CASE \A s \in Emitting : req[s] # r
        BY <1>1, <1>8, <4>2 DEF TypeOK
      <4> QED
        BY <4>1, <4>2
    <3> QED
      BY <1>3, <3>1
  <2>2. active' \in [Slots -> 0 .. 2] /\ stopped' \subseteq Reqs
    BY EmitEffect
  <2>3. pos' \in [Slots -> 0 .. MaxPos]
    BY <1>1, <1>3, <1>7 DEF TypeOK
  <2>4. step' \in 0 .. LastArrival
    BY <1>1, <1>3, Constants DEF TypeOK, Later, Lesser
  <2> QED
    BY <1>1, <1>3, <1>11, <2>1, <2>2, <2>3, <2>4 DEF TypeOK
<1>13. SlotsInv'
  BY <1>1, <1>2, <1>3, <1>11 DEF SlotsInv
<1>14. ProgressInv'
  <2>1. maxnew' = Clamped(load)'
    BY <1>1, <1>3 DEF ProgressInv, Clamped
  <2>2. ASSUME NEW r \in Reqs, r >= qhead' PROVE nout'[r] = 0
    <3>1. \A s \in Emitting : req[s] # r
      <4> TAKE s \in Emitting
      <4>1. req[s] \in Reqs /\ req[s] < qhead /\ qhead \in Nat
        BY <1>1, <1>5, <1>10, <1>6 DEF TypeOK
      <4> QED
        BY <1>3, <1>6, <2>2, <4>1 DEF Reqs
    <3>2. nout'[r] = nout[r]
      BY <1>8, <3>1
    <3> QED
      BY <1>1, <1>3, <2>2, <3>2 DEF ProgressInv
  <2>3. ASSUME NEW s \in Prefilling'
        PROVE  nout'[req'[s]] = 0 /\ pref'[s] <= load'.plen[req'[s]] /\ ~gate'.scalar
    <3>1. s \in Prefilling /\ s \in Occupied \ Emitting
      BY <1>2, <1>4, <2>3
    <3> QED
      BY <1>1, <1>3, <1>9, <3>1 DEF ProgressInv
  <2>4. ASSUME NEW s \in Decoding'
        PROVE  /\ nout'[req'[s]] >= 1 /\ pos'[s] = load'.plen[req'[s]] + nout'[req'[s]] - 1
               /\ pos'[s] < MaxPos
               /\ nout'[req'[s]] < maxnew'[req'[s]] \/ (gate'.scalar /\ nout'[req'[s]] = 1)
    <3>1. s \in Emitting \ E /\ s \in Slots
      BY <1>2, <1>4, <1>5, <2>4
    <3>2. /\ nout[req[s]] + 1 < maxnew[req[s]] /\ Position(s) < MaxPos
          /\ Position(s) = load.plen[req[s]] + nout[req[s]]
          /\ nout'[req[s]] = nout[req[s]] + 1
          /\ nout[req[s]] \in 0 .. MaxPos /\ load.plen[req[s]] \in 1 .. MaxPos - 1
      BY <1>2, <1>5, <1>7, <1>10, <3>1
    <3>3. pos'[s] = Position(s)
      BY <1>7, <3>1
    <3> QED
      BY <1>3, <1>6, <3>2, <3>3
  <2> QED
    BY <2>1, <2>2, <2>3, <2>4 DEF ProgressInv
<1>15. DoneInv'
  <2>1. ASSUME NEW r \in Reqs, r < qhead' PROVE Answered(r)' \/ \E s \in Occupied' : req'[s] = r
    <3>1. CASE \E s \in Occupied : req[s] = r
      BY <1>2, <1>3, <3>1
    <3>2. CASE \A s \in Occupied : req[s] # r
      <4>1. Answered(r)
        BY <1>1, <1>3, <2>1, <3>2 DEF DoneInv
      <4>2. nout'[r] = nout[r]
        BY <1>5, <1>8, <3>2
      <4>3. stopped \subseteq stopped'
        BY EmitEffect
      <4> QED
        BY <1>3, <4>1, <4>2, <4>3 DEF Answered, Least
    <3> QED
      BY <3>1, <3>2
  <2> QED
    BY <1>3, <2>1 DEF DoneInv
<1>16. ColsInv'
  BY <1>3 DEF ColsInv
<1> QED
  BY <1>12, <1>13, <1>14, <1>15, <1>16 DEF SInv

\* The scheduler with its verification takes the steps of the scheduler, and
\* steps that change nothing of it but rows of the lanes.
KvOnly == UNCHANGED <<gate, pc, run, table, nout, slots, qhead, nact, drain, step, cols, fresh, txn,
                      stopped>>

\* Every step is one of the scheduler, or writes KV rows only.
LEMMA Steps == ASSUME [VNext]_vvars PROVE Next \/ KvOnly
<1>1. CASE Reverify
  BY <1>1 DEF Reverify, KvOnly
<1>2. CASE Correct
  BY <1>2 DEF Correct, vars, KvOnly
<1>3. CASE UNCHANGED vvars
  BY <1>3 DEF vvars, vars, KvOnly
<1>4. CASE VNext /\ ~Reverify /\ ~Correct
  BY <1>4 DEF VNext, VScheduler, VBegin, VAdmit, VDispatch, VEmit, Next, Scheduler
<1> QED
  BY <1>1, <1>2, <1>3, <1>4

\* SInv is inductive.
LEMMA SInvStep == ASSUME SInv, Next \/ KvOnly PROVE SInv'
<1>1. CASE Ask
  BY <1>1, AskStep
<1>2. CASE \E w \in Workloads : Begin(w)
  BY <1>2, BeginStep
<1>3. CASE Scheduler
  BY <1>3, PollStep, BoundaryStep, FinishStep, AdmitStep, DispatchStep, EmitStep DEF Scheduler
<1>4. CASE KvOnly
  BY <1>4, KvStep DEF KvOnly
<1> QED
  BY <1>1, <1>2, <1>3, <1>4 DEF Next

\* SInv holds always.
LEMMA Invariance == VSpec => []SInv
<1>1. VInit => SInv
  BY InitStep DEF VInit
<1>2. SInv /\ [VNext]_vvars => SInv'
  BY Steps, SInvStep
<1> QED
  BY <1>1, <1>2, PTL DEF VSpec

-----------------------------------------------------------------------------
(* The refinement.                                                         *)

Waiting  == {<<i, r>> : i \in run + 1 .. MaxRuns, r \in Reqs} \union
            {<<run, r>> : r \in qhead .. R - 1}
Inflight == {<<run, req[s]>> : s \in Occupied}

\* An admission takes requests from those that wait.
LEMMA AdmitRefines ==
    ASSUME SInv, Admit
    PROVE  \E S \in SUBSET Waiting :
             Waiting' = Waiting \ S /\ Inflight' = Inflight \union S /\ epoch' = epoch
<1> DEFINE N == Cardinality(Admitted)
           S == {<<run, r>> : r \in qhead .. qhead + N - 1}
<1>1. /\ qhead' = qhead + N /\ qhead' <= R /\ run' = run /\ epoch' = epoch
      /\ Occupied' = Occupied \union Admitted
      /\ \A s \in Occupied : req'[s] = req[s]
      /\ \A s \in Admitted : req'[s] = qhead + Rank(s)
  BY AdmitEffect
<1>2. /\ N \in Nat /\ qhead \in Nat /\ R \in Nat /\ run \in Nat /\ MaxRuns \in Nat
      /\ \A s \in Admitted : Rank(s) \in 0 .. N - 1
      /\ \A k \in 0 .. N - 1 : \E s \in Admitted : Rank(s) = k
  BY Ranks, Constants DEF SInv, TypeOK
<1> HIDE DEF N
<1>3. {<<run, qhead + Rank(s)>> : s \in Admitted} = S
  <2>1. ASSUME NEW s \in Admitted PROVE <<run, qhead + Rank(s)>> \in S
    <3>1. qhead + Rank(s) \in qhead .. qhead + N - 1
      BY <1>2
    <3> QED
      BY <3>1
  <2>2. ASSUME NEW r \in qhead .. qhead + N - 1 PROVE \E s \in Admitted : r = qhead + Rank(s)
    <3>1. r - qhead \in 0 .. N - 1
      BY <1>2
    <3>2. PICK s \in Admitted : Rank(s) = r - qhead
      BY <1>2, <3>1
    <3> QED
      BY <1>2, <3>2
  <2> QED
    BY <2>1, <2>2
<1>4. Inflight' = Inflight \union S
  <2>1. Inflight' = {<<run, req'[s]>> : s \in Occupied \union Admitted}
    BY <1>1 DEF Inflight
  <2>2. Inflight' = Inflight \union {<<run, qhead + Rank(s)>> : s \in Admitted}
    BY <1>1, <2>1 DEF Inflight
  <2> QED
    BY <1>3, <2>2
<1>5. S \subseteq Waiting /\ Waiting' = Waiting \ S
  <2> DEFINE Later1 == {<<i, r>> : i \in run + 1 .. MaxRuns, r \in Reqs}
             Here == {<<run, r>> : r \in qhead .. R - 1}
             Rest == {<<run, r>> : r \in qhead + N .. R - 1}
  <2>1. Waiting = Later1 \union Here /\ Waiting' = Later1 \union Rest
    BY <1>1 DEF Waiting, Reqs
  <2>2. Later1 \intersect S = {}
    BY <1>2
  <2>3. S \subseteq Here /\ Rest = Here \ S
    <3>1. qhead .. qhead + N - 1 \subseteq qhead .. R - 1
      BY <1>1, <1>2
    <3>2. qhead + N .. R - 1 = (qhead .. R - 1) \ (qhead .. qhead + N - 1)
      BY <1>2
    <3> QED
      BY <3>1, <3>2
  <2> HIDE DEF S, Later1, Here, Rest
  <2> QED
    BY <2>1, <2>2, <2>3
<1> QED
  BY <1>1, <1>4, <1>5

\* An emission answers requests in flight.
LEMMA EmitRefines ==
    ASSUME SInv, Emit
    PROVE  \E S \in SUBSET Inflight :
             Waiting' = Waiting /\ Inflight' = Inflight \ S /\ epoch' = epoch
<1>1. /\ UNCHANGED <<run, req, qhead, epoch>> /\ Emitting \subseteq Occupied
      /\ \E E \in SUBSET Emitting : Occupied' = Occupied \ E
  BY EmitEffect
<1>2. PICK E \in SUBSET Emitting : Occupied' = Occupied \ E
  BY <1>1
<1> DEFINE S == {<<run, req[s]>> : s \in E}
<1>3. \A s, u \in Occupied : req[s] = req[u] => s = u
  BY DEF SInv, SlotsInv
<1>4. Inflight' = {<<run, req[s]>> : s \in Occupied \ E}
  BY <1>1, <1>2 DEF Inflight
<1>5. Inflight' = Inflight \ S /\ S \subseteq Inflight
  BY <1>1, <1>2, <1>3, <1>4 DEF Inflight
<1>6. Waiting' = Waiting
  BY <1>1 DEF Waiting, Reqs
<1> QED
  BY <1>1, <1>5, <1>6

\* When no slot is counted none is occupied.
LEMMA NoneInFlight == ASSUME SInv, nact = 0 PROVE Occupied = {} /\ Inflight = {}
<1>1. IsFiniteSet(Occupied) /\ Cardinality(Occupied) = 0
  BY Parts DEF SInv, SlotsInv
<1>2. Occupied = {}
  BY <1>1, FS_EmptySet
<1> QED
  BY <1>2 DEF Inflight

\* A new pass finds its requests waiting.
LEMMA BeginRefines ==
    ASSUME SInv, NEW w \in Workloads, Begin(w)
    PROVE  Waiting' = Waiting /\ Inflight' = Inflight /\ epoch' = epoch
<1>1. /\ run' = run + 1 /\ qhead' = 0 /\ active' = [s \in Slots |-> 0] /\ epoch' = epoch
      /\ qhead = R /\ nact = 0 /\ run < MaxRuns
  BY DEF SInv, DoneInv, Begin, txn
<1>2. R \in Nat /\ run \in Nat /\ MaxRuns \in Nat
  BY Constants DEF SInv, TypeOK
<1>3. Inflight = {}
  BY <1>1, NoneInFlight
<1>4. Inflight' = {}
  BY <1>1 DEF Inflight, Occupied, Free
<1>5. Waiting = {<<i, r>> : i \in run + 1 .. MaxRuns, r \in Reqs}
  <2>1. qhead .. R - 1 = {}
    BY <1>1, <1>2
  <2> QED
    BY <2>1 DEF Waiting
<1>6. Waiting' = {<<i, r>> : i \in run + 2 .. MaxRuns, r \in Reqs} \union
                 {<<run + 1, r>> : r \in Reqs}
  <2>1. (run + 1) + 1 = run + 2
    BY <1>2
  <2> QED
    BY <1>1, <2>1 DEF Waiting, Reqs
<1>7. run + 1 .. MaxRuns = (run + 2 .. MaxRuns) \union {run + 1}
  BY <1>1, <1>2
<1>8. Waiting' = Waiting
  BY <1>5, <1>6, <1>7
<1> QED
  BY <1>1, <1>3, <1>4, <1>8

\* Every step takes requests, answers some, changes the weights between
\* requests, or does nothing to any of these.
LEMMA StepRefines ==
    ASSUME SInv, Next \/ KvOnly
    PROVE  \/ \E S \in SUBSET Waiting :
                Waiting' = Waiting \ S /\ Inflight' = Inflight \union S /\ epoch' = epoch
           \/ \E S \in SUBSET Inflight :
                Waiting' = Waiting /\ Inflight' = Inflight \ S /\ epoch' = epoch
           \/ Inflight = {} /\ epoch' = epoch + 1 /\ UNCHANGED <<Waiting, Inflight>>
           \/ UNCHANGED <<epoch, Waiting, Inflight>>
<1>1. CASE Admit
  BY <1>1, AdmitRefines
<1>2. CASE Emit
  BY <1>2, EmitRefines
<1>3. CASE \E w \in Workloads : Begin(w)
  BY <1>3, BeginRefines
<1>4. CASE /\ UNCHANGED <<run, qhead, active, req>>
           /\ epoch' = epoch \/ (nact = 0 /\ epoch' = epoch + 1)
  <2>1. UNCHANGED <<Waiting, Inflight>>
    BY <1>4 DEF Waiting, Inflight, Occupied, Free, Reqs
  <2> QED
    BY <1>4, <2>1, NoneInFlight
<1>5. CASE Ask \/ Poll \/ Dispatch \/ KvOnly
  BY <1>4, <1>5 DEF Ask, Poll, Dispatch, KvOnly, slots, txn
<1>6. ASSUME Apply PROVE epoch' = epoch \/ epoch' = epoch + 1
  BY <1>6 DEF Apply, ApplyGpu, ApplyCpu
<1>7. CASE Boundary
  <2>1. UNCHANGED <<run, qhead, active, req>>
    BY <1>7 DEF Boundary, slots
  <2>2. epoch' = epoch \/ (nact = 0 /\ epoch' = epoch + 1)
    BY <1>6, <1>7 DEF Boundary, Quiescent, txn
  <2> QED
    BY <1>4, <2>1, <2>2
<1>8. CASE Finish
  <2>1. UNCHANGED <<run, qhead, active, req>> /\ nact = 0
    BY <1>8 DEF Finish, slots
  <2>2. epoch' = epoch \/ epoch' = epoch + 1
    BY <1>6, <1>8 DEF Finish, txn
  <2> QED
    BY <1>4, <2>1, <2>2
<1> QED
  BY <1>1, <1>2, <1>3, <1>5, <1>7, <1>8 DEF Next, Scheduler

-----------------------------------------------------------------------------
(* Theorems.                                                               *)

\* Every variable of the scheduler has its type, whatever the verification does.
THEOREM TypeCorrect == VSpec => []TypeOK
<1>1. SInv => TypeOK
  BY DEF SInv
<1> QED
  BY <1>1, Invariance, PTL

\* A dispatch fits the buffers and the budget, and mcb_nact counts the slots
\* that are occupied, each by a request of its own.
THEOREM CountsAreRight == VSpec => []ResourcesFit
<1>1. SInv => ResourcesFit
  BY DEF SInv, SlotsInv, ColsInv, ResourcesFit, Occupied
<1> QED
  BY <1>1, Invariance, PTL

\* The columns whose product is skipped are never those a token is taken from.
THEOREM TokensAreFresh == VSpec => []EmitsFreshLogits
<1>1. SInv => EmitsFreshLogits
  BY DEF SInv, ColsInv, EmitsFreshLogits
<1> QED
  BY <1>1, Invariance, PTL

\* When a pass ends every request of the batch was answered up to its limit.
THEOREM AnswersAreComplete == VSpec => []AnswersComplete
<1>1. ASSUME SInv PROVE AnswersComplete
  <2> SUFFICES ASSUME pc = "idle", NEW r \in Reqs PROVE Answered(r)
    BY DEF AnswersComplete, Answered, Least
  <2>1. qhead = R /\ nact = 0
    BY <1>1 DEF SInv, DoneInv
  <2>2. Occupied = {}
    BY <1>1, <2>1, NoneInFlight
  <2>3. r < qhead
    BY <2>1, Constants DEF Reqs
  <2> QED
    BY <1>1, <2>2, <2>3 DEF SInv, DoneInv
<1> QED
  BY <1>1, Invariance, PTL

\* The loop with its drain implements the abstract service: weights change only
\* while no request is in flight.
THEOREM ServesByEpochs == VSpec => ImplementsEpochServing
<1>1. ASSUME VInit PROVE ES!Init
  <2>1. run = 0 /\ qhead = 0 /\ epoch = 0 /\ active = [s \in Slots |-> 0]
    BY <1>1 DEF VInit, Init
  <2>2. Waiting = {<<i, r>> : i \in 0 .. MaxRuns, r \in Reqs}
    <3>1. 0 .. MaxRuns = (0 + 1 .. MaxRuns) \union {0}
      BY Constants
    <3> QED
      BY <2>1, <3>1 DEF Waiting, Reqs
  <2>3. Slots \ Free = {}
    BY <2>1 DEF Free
  <2> QED
    BY <2>1, <2>2, <2>3 DEF ES!Init, Waiting
<1>2. ASSUME SInv, [VNext]_vvars PROVE [ES!Next]_(ES!vars)
  <2>1. Next \/ KvOnly
    BY <1>2, Steps
  <2>2. CASE \E S \in SUBSET Waiting :
               Waiting' = Waiting \ S /\ Inflight' = Inflight \union S /\ epoch' = epoch
    <3>1. PICK S \in SUBSET Waiting :
            Waiting' = Waiting \ S /\ Inflight' = Inflight \union S /\ epoch' = epoch
      BY <2>2
    <3>2. CASE S = {}
      <4>1. UNCHANGED <<epoch, Waiting, Inflight>>
        BY <3>1, <3>2
      <4> QED
        BY <4>1 DEF ES!vars, Waiting, Inflight, Occupied
    <3>3. CASE S # {}
      <4>1. S \in (SUBSET Waiting) \ {{}}
        BY <3>3
      <4>2. ES!Admit <=> \E T \in (SUBSET Waiting) \ {{}} :
                              /\ Waiting' = Waiting \ T /\ Inflight' = Inflight \union T
                              /\ UNCHANGED epoch
        BY DEF ES!Admit, Waiting, Inflight, Occupied
      <4> QED
        BY <3>1, <4>1, <4>2 DEF ES!Next
    <3> QED
      BY <3>2, <3>3
  <2>3. CASE \E S \in SUBSET Inflight :
               Waiting' = Waiting /\ Inflight' = Inflight \ S /\ epoch' = epoch
    <3>1. PICK S \in SUBSET Inflight :
            Waiting' = Waiting /\ Inflight' = Inflight \ S /\ epoch' = epoch
      BY <2>3
    <3>2. CASE S = {}
      <4>1. UNCHANGED <<epoch, Waiting, Inflight>>
        BY <3>1, <3>2
      <4> QED
        BY <4>1 DEF ES!vars, Waiting, Inflight, Occupied
    <3>3. CASE S # {}
      <4>1. S \in (SUBSET Inflight) \ {{}}
        BY <3>3
      <4>2. ES!Answer <=> \E T \in (SUBSET Inflight) \ {{}} :
                              /\ Inflight' = Inflight \ T
                              /\ UNCHANGED <<epoch, Waiting>>
        BY DEF ES!Answer, Waiting, Inflight, Occupied
      <4> QED
        BY <3>1, <4>1, <4>2 DEF ES!Next
    <3> QED
      BY <3>2, <3>3
  <2>4. CASE Inflight = {} /\ epoch' = epoch + 1 /\ UNCHANGED <<Waiting, Inflight>>
    BY <2>4 DEF ES!Next, ES!Change, Waiting, Inflight, Occupied
  <2>5. CASE UNCHANGED <<epoch, Waiting, Inflight>>
    BY <2>5 DEF ES!vars, Waiting, Inflight, Occupied
  <2> QED
    BY <1>2, <2>1, <2>2, <2>3, <2>4, <2>5, StepRefines
<1> QED
  BY <1>1, <1>2, Invariance, PTL DEF VSpec, ImplementsEpochServing, ES!Safety

-----------------------------------------------------------------------------
(* The rows of the lanes.                                                  *)

Unit == [run : Int, req : Int, w : Int, exact : BOOLEAN]

\* A row of this pass, of the request r, computed with weights of ws.
Of(row, r, ws) == row.run = run /\ row.req = r /\ row.w \in ws

\* Positions of the lane of an occupied slot that have been computed.
Computed(s) ==
    IF s \in Prefilling THEN pref[s] ELSE IF pc = "emit" THEN pos[s] + 1 ELSE pos[s]

AnyWeights == {Weights} \union (IF gate.tier > 0 THEN {0} ELSE {})

\* The lane of an occupied slot holds rows of its request.
KvInv ==
    /\ kv \in [Slots -> [0 .. MaxPos - 1 -> Unit]]
    /\ \A s \in Occupied : \A p \in 0 .. MaxPos - 1 :
         p < Computed(s) => Of(kv[s][p], req[s], AnyWeights)

\* A shadow pool: each request has one lane, with rows of its own, as many as
\* it has reached; those of a request in a slot were computed with weights of ws.
PoolType(pool) ==
    /\ pool \in [req : [Lane -> Reqs \union {NoRequest}], rows : [Lane -> Seq(Unit)], next : Lane]
    /\ \A i, j \in Lane : pool.req[i] \in Reqs /\ pool.req[i] = pool.req[j] => i = j

PoolRows(pool, ws, n, limit, now, live) ==
    /\ PoolType(pool)
    /\ \A i \in Lane : pool.req[i] \in Reqs =>
         /\ pool.req[i] < n /\ Len(pool.rows[i]) <= limit[pool.req[i]]
         /\ \A q \in 1 .. Len(pool.rows[i]) :
              /\ pool.rows[i][q].run = now /\ pool.rows[i][q].req = pool.req[i]
              /\ pool.rows[i][q].w \in ws \/ pool.req[i] \notin live

Limit   == [r \in Reqs |-> load.plen[r] + nout[r]]
InSlots == {req[s] : s \in Occupied}

PoolInv(pool, ws) == PoolRows(pool, ws, qhead, Limit, run, InSlots)

\* Only CPU schedulers verify; they compute one batch.
VerifyInv ==
    /\ gate.gpu => tier = EmptyPool /\ near = EmptyPool
    /\ todo # {} => pc = "emit" /\ todo \subseteq Emitting
    /\ PoolInv(tier, {0, Weights}) /\ PoolInv(near, {Hi})

\* The tokens recorded, without a scalar prefill.
HistInv ==
    ~gate.scalar =>
        /\ \A s \in Decoding : 0 .. pos[s] \subseteq hist[req[s]]
        /\ \A s \in Prefilling : 0 .. load.plen[req[s]] - 1 \subseteq hist[req[s]]

ExactPool(pool) == \A i \in Lane : \A q \in 1 .. Len(pool.rows[i]) : pool.rows[i][q].exact

\* What the second tier recomputes is copied back, or there is no second tier.
CopiedBack == ~gate.scalar /\ Weights = 0 /\ (gate.tier = 2 => gate.resync)

\* Then the lane of a request agrees with that of its slot.
Agrees(s, i) ==
    /\ s \in Decoding \/ (pc = "emit" /\ s \in Emitting)
    /\ Len(tier.rows[i]) <= IF s \in Prefilling THEN load.plen[req[s]] ELSE Computed(s)
    /\ \A q \in 1 .. Len(tier.rows[i]) : kv[s][q - 1].exact

ExactInv ==
    /\ ~gate.scalar => ExactPool(near)
    /\ CopiedBack =>
         ExactPool(tier) /\ \A s \in Occupied, i \in Lane : tier.req[i] = req[s] => Agrees(s, i)

VInv == SInv /\ KvInv /\ VerifyInv /\ HistInv /\ ExactInv

-----------------------------------------------------------------------------
(* The shadow lanes.                                                       *)

\* What a pool holds of a request.
Held(pool, r) == IF LanesOf(pool, r) = {} THEN <<>> ELSE RowsOf(pool, r)

\* The pool new is the pool with the rows given in the lane of r.
Placed(pool, new, r, rows) ==
    /\ PoolType(new)
    /\ \E l \in Lane : /\ new.req[l] = r /\ new.rows[l] = rows
                       /\ \A i \in Lane \ {l} : /\ new.req[i] = pool.req[i]
                                                /\ new.rows[i] = pool.rows[i]

\* A request has one lane at most.
LEMMA TheLane ==
    ASSUME NEW pool, PoolType(pool), NEW r \in Reqs, NEW l \in Lane, pool.req[l] = r
    PROVE  /\ LaneOf(pool, r) = l /\ LanesOf(pool, r) # {} /\ RowsOf(pool, r) = pool.rows[l]
           /\ ValidPeek(pool, r) = Len(pool.rows[l]) /\ Held(pool, r) = pool.rows[l]
<1>1. \A i \in Lane : pool.req[i] = r => i = l
  BY DEF PoolType
<1>2. LaneOf(pool, r) = l
  BY <1>1 DEF LaneOf
<1>3. l \in LanesOf(pool, r)
  BY DEF LanesOf
<1> QED
  BY <1>2, <1>3 DEF RowsOf, ValidPeek, Held

\* What a pool holds of a request are rows.
LEMMA HeldType ==
    ASSUME NEW pool, PoolType(pool), NEW r \in Reqs
    PROVE  /\ Held(pool, r) \in Seq(Unit) /\ Len(Held(pool, r)) \in Nat
           /\ ValidPeek(pool, r) = Len(Held(pool, r))
           /\ \A q \in 1 .. Len(Held(pool, r)) :
                Held(pool, r)[q] \in Unit /\ RowsOf(pool, r)[q] = Held(pool, r)[q]
<1>1. CASE LanesOf(pool, r) = {}
  <2>1. Held(pool, r) = <<>> /\ ValidPeek(pool, r) = 0
    BY <1>1 DEF Held, ValidPeek
  <2> QED
    BY <2>1, EmptySeq
<1>2. CASE LanesOf(pool, r) # {}
  <2>1. PICK l \in Lane : pool.req[l] = r
    BY <1>2 DEF LanesOf
  <2>2. pool.rows[l] \in Seq(Unit)
    BY DEF PoolType
  <2>3. Held(pool, r) = pool.rows[l] /\ RowsOf(pool, r) = pool.rows[l]
        /\ ValidPeek(pool, r) = Len(pool.rows[l])
    BY <2>1, TheLane
  <2>4. Len(pool.rows[l]) \in Nat /\ \A q \in 1 .. Len(pool.rows[l]) : pool.rows[l][q] \in Unit
    BY <2>2, LenProperties, ElementOfSeq
  <2> QED
    BY <2>2, <2>3, <2>4
<1> QED
  BY <1>1, <1>2

\* A lane is found, or the next one is taken and emptied.
LEMMA Acquired ==
    ASSUME NEW pool, PoolType(pool), NEW r \in Reqs
    PROVE  Placed(pool, Acquire(pool, r), r, Held(pool, r))
<1>1. CASE LanesOf(pool, r) # {}
  <2>1. PICK l \in Lane : pool.req[l] = r
    BY <1>1 DEF LanesOf
  <2>2. Acquire(pool, r) = pool
    BY <1>1 DEF Acquire
  <2> QED
    BY <2>1, <2>2, TheLane DEF Placed
<1>2. CASE LanesOf(pool, r) = {}
  <2> DEFINE own == [pool EXCEPT !.req[pool.next] = r, !.rows[pool.next] = <<>>,
                                 !.next = (pool.next + 1) % Lanes]
  <2>1. Acquire(pool, r) = own /\ Held(pool, r) = <<>>
    BY <1>2 DEF Acquire, Held
  <2>2. /\ pool \in [req : [Lane -> Reqs \union {NoRequest}], rows : [Lane -> Seq(Unit)],
                     next : Lane]
        /\ pool.next \in Lane
    BY DEF PoolType
  <2>3. (pool.next + 1) % Lanes \in Lane
    BY <2>2, VerifyAssumption DEF Lane
  <2>4. <<>> \in Seq(Unit)
    BY EmptySeq
  <2>5. own \in [req : [Lane -> Reqs \union {NoRequest}], rows : [Lane -> Seq(Unit)], next : Lane]
    BY <2>2, <2>3, <2>4
  <2>6. /\ own.req[pool.next] = r /\ own.rows[pool.next] = <<>>
        /\ \A i \in Lane \ {pool.next} : own.req[i] = pool.req[i] /\ own.rows[i] = pool.rows[i]
    BY <2>2
  <2>7. \A i \in Lane : pool.req[i] # r
    BY <1>2 DEF LanesOf
  <2> HIDE DEF own
  <2>8. \A i, j \in Lane : own.req[i] \in Reqs /\ own.req[i] = own.req[j] => i = j
    BY <2>2, <2>6, <2>7 DEF PoolType
  <2> QED
    BY <2>1, <2>2, <2>5, <2>6, <2>8 DEF Placed, PoolType
<1> QED
  BY <1>1, <1>2

\* Putting other rows in the lane of a request.
LEMMA Replaced ==
    ASSUME NEW pool, PoolType(pool), NEW r \in Reqs, NEW rows \in Seq(Unit),
           NEW own, own = Acquire(pool, r)
    PROVE  /\ Placed(pool, [own EXCEPT !.rows[LaneOf(own, r)] = rows], r, rows)
           /\ RowsOf([own EXCEPT !.rows[LaneOf(own, r)] = rows], r) = rows
<1>1. Placed(pool, own, r, Held(pool, r))
  BY Acquired
<1>2. PICK l \in Lane :
        /\ own.req[l] = r
        /\ \A i \in Lane \ {l} : own.req[i] = pool.req[i] /\ own.rows[i] = pool.rows[i]
  BY <1>1 DEF Placed
<1>3. PoolType(own) /\ LaneOf(own, r) = l
  BY <1>1, <1>2, TheLane DEF Placed
<1> DEFINE new == [own EXCEPT !.rows[l] = rows]
<1>4. /\ own \in [req : [Lane -> Reqs \union {NoRequest}], rows : [Lane -> Seq(Unit)], next : Lane]
      /\ \A i, j \in Lane : own.req[i] \in Reqs /\ own.req[i] = own.req[j] => i = j
  BY <1>3 DEF PoolType
<1>5. /\ new \in [req : [Lane -> Reqs \union {NoRequest}], rows : [Lane -> Seq(Unit)], next : Lane]
      /\ new.req = own.req /\ new.rows[l] = rows
      /\ \A i \in Lane \ {l} : new.rows[i] = own.rows[i]
  BY <1>4
<1>6. [own EXCEPT !.rows[LaneOf(own, r)] = rows] = new
  BY <1>3
<1> HIDE DEF new
<1>7. PoolType(new)
  BY <1>4, <1>5 DEF PoolType
<1>8. Placed(pool, new, r, rows)
  BY <1>2, <1>5, <1>7 DEF Placed
<1>9. RowsOf(new, r) = rows
  BY <1>2, <1>5, <1>7, TheLane
<1> QED
  BY <1>6, <1>8, <1>9

\* A row is appended to the lane it continues, or the lane stays.
LEMMA Extended ==
    ASSUME NEW pool, PoolType(pool), NEW r \in Reqs, NEW p \in Nat, NEW row \in Unit
    PROVE  Placed(pool, Extend(pool, r, p, row), r,
                  IF Len(Held(pool, r)) = p THEN Append(Held(pool, r), row) ELSE Held(pool, r))
<1> DEFINE own == Acquire(pool, r)
<1>1. Placed(pool, own, r, Held(pool, r))
  BY Acquired
<1>2. PICK l \in Lane : own.req[l] = r /\ own.rows[l] = Held(pool, r)
  BY <1>1 DEF Placed
<1>3. /\ PoolType(own) /\ ValidPeek(own, r) = Len(Held(pool, r)) /\ LaneOf(own, r) = l
  BY <1>1, <1>2, TheLane DEF Placed
<1>4. Extend(pool, r, p, row) = IF ValidPeek(own, r) = p
                                  THEN [own EXCEPT !.rows[LaneOf(own, r)] = Append(@, row)] ELSE own
  BY DEF Extend
<1>5. Append(Held(pool, r), row) \in Seq(Unit)
  BY HeldType, AppendProperties
<1> HIDE DEF own
<1>6. [own EXCEPT !.rows[LaneOf(own, r)] = Append(@, row)]
        = [own EXCEPT !.rows[LaneOf(own, r)] = Append(Held(pool, r), row)]
  BY <1>2, <1>3
<1>7. Placed(pool, [own EXCEPT !.rows[LaneOf(own, r)] = Append(Held(pool, r), row)], r,
             Append(Held(pool, r), row))
  BY <1>5, Replaced DEF own
<1> QED
  BY <1>1, <1>3, <1>4, <1>6, <1>7

\* A replay keeps the rows it starts from and computes the others.
LEMMA ReplayPlaces ==
    ASSUME NEW pool, PoolType(pool), NEW r \in Reqs, NEW p \in Nat, NEW again \in [0 .. p -> Unit]
    PROVE  \E rows \in Seq(Unit) :
             /\ Placed(pool, Replay(pool, r, p, again), r, rows)
             /\ RowsOf(Replay(pool, r, p, again), r) = rows
             /\ Len(rows) = p + 1
             /\ \A q \in 1 .. p + 1 :
                  rows[q] = IF q <= Start(pool, r, p) THEN Held(pool, r)[q] ELSE again[q - 1]
             /\ Start(pool, r, p) \in Nat /\ Start(pool, r, p) <= p
             /\ Start(pool, r, p) <= Len(Held(pool, r))
<1> DEFINE own   == Acquire(pool, r)
           start == Start(own, r, p)
           kept  == SubSeq(RowsOf(own, r), 1, start)
           rest  == [i \in 1 .. p + 1 - Len(kept) |-> again[Len(kept) + i - 1]]
<1>1. Placed(pool, own, r, Held(pool, r))
  BY Acquired
<1>2. PICK l \in Lane : own.req[l] = r /\ own.rows[l] = Held(pool, r)
  BY <1>1 DEF Placed
<1>3. /\ ValidPeek(own, r) = Len(Held(pool, r)) /\ RowsOf(own, r) = Held(pool, r)
  BY <1>1, <1>2, TheLane DEF Placed
<1>4. /\ Held(pool, r) \in Seq(Unit) /\ Len(Held(pool, r)) \in Nat
      /\ ValidPeek(pool, r) = Len(Held(pool, r))
      /\ \A q \in 1 .. Len(Held(pool, r)) : Held(pool, r)[q] \in Unit
  BY HeldType
<1>5. start = Start(pool, r, p) /\ start \in Nat /\ start <= p /\ start <= Len(Held(pool, r))
  BY <1>3, <1>4 DEF Start
<1>6. Replay(pool, r, p, again) = [own EXCEPT !.rows[LaneOf(own, r)] = kept \o rest]
  BY DEF Replay
<1> HIDE DEF own, start
<1>7. /\ kept \in Seq(Unit) /\ Len(kept) = start
      /\ \A q \in 1 .. start : kept[q] = Held(pool, r)[q]
  <2>1. \A q \in 1 .. start : Held(pool, r)[q] \in Unit
    BY <1>4, <1>5
  <2>2. /\ SubSeq(Held(pool, r), 1, start) \in Seq(Unit)
        /\ Len(SubSeq(Held(pool, r), 1, start)) = IF 1 <= start THEN start - 1 + 1 ELSE 0
        /\ \A q \in 1 .. start - 1 + 1 :
             SubSeq(Held(pool, r), 1, start)[q] = Held(pool, r)[1 + q - 1]
    BY <1>5, <2>1, SubSeqProperties
  <2>3. kept = SubSeq(Held(pool, r), 1, start)
    BY <1>3
  <2> HIDE DEF kept
  <2> QED
    BY <1>5, <2>2, <2>3
<1> HIDE DEF kept
<1>8. rest \in Seq(Unit) /\ Len(rest) = p + 1 - start
      /\ \A i \in 1 .. p + 1 - start : rest[i] = again[start + i - 1]
  <2>1. PICK n \in Nat : n = p + 1 - start
    BY <1>5
  <2>2. rest = [i \in 1 .. n |-> again[start + i - 1]]
    BY <1>7, <2>1
  <2>3. \A i \in 1 .. n : again[start + i - 1] \in Unit
    BY <1>5, <2>1
  <2> HIDE DEF rest
  <2>4. rest \in Seq(Unit) /\ Len(rest) = n
    BY <2>2, <2>3
  <2> QED
    BY <2>1, <2>2, <2>4
<1> HIDE DEF rest
<1>9. /\ kept \o rest \in Seq(Unit) /\ Len(kept \o rest) = Len(kept) + Len(rest)
      /\ \A i \in 1 .. Len(kept) + Len(rest) :
           (kept \o rest)[i] = IF i <= Len(kept) THEN kept[i] ELSE rest[i - Len(kept)]
  BY <1>7, <1>8, ConcatProperties
<1>10. Len(kept) + Len(rest) = p + 1
  BY <1>5, <1>7, <1>8
<1>11. \A q \in 1 .. p + 1 :
         (kept \o rest)[q] = IF q <= start THEN Held(pool, r)[q] ELSE again[q - 1]
  <2> TAKE q \in 1 .. p + 1
  <2>1. (kept \o rest)[q] = IF q <= start THEN kept[q] ELSE rest[q - start]
    BY <1>7, <1>9, <1>10
  <2>2. q <= start => kept[q] = Held(pool, r)[q]
    BY <1>5, <1>7
  <2>3. ~ (q <= start) => rest[q - start] = again[q - 1]
    <3>1. ~ (q <= start) => q - start \in 1 .. p + 1 - start /\ start + (q - start) - 1 = q - 1
      BY <1>5
    <3> QED
      BY <1>8, <3>1
  <2> QED
    BY <2>1, <2>2, <2>3
<1>12. /\ Placed(pool, [own EXCEPT !.rows[LaneOf(own, r)] = kept \o rest], r, kept \o rest)
       /\ RowsOf([own EXCEPT !.rows[LaneOf(own, r)] = kept \o rest], r) = kept \o rest
  <2>1. PICK rows \in Seq(Unit) : rows = kept \o rest
    BY <1>9
  <2>2. own = Acquire(pool, r)
    BY DEF own
  <2>3. /\ Placed(pool, [own EXCEPT !.rows[LaneOf(own, r)] = rows], r, rows)
        /\ RowsOf([own EXCEPT !.rows[LaneOf(own, r)] = rows], r) = rows
    BY <2>2, Replaced
  <2> QED
    BY <2>1, <2>3
<1> QED
  BY <1>5, <1>6, <1>9, <1>10, <1>11, <1>12

\* Nothing is wrong with empty lanes.
LEMMA EmptyRows ==
    ASSUME NEW ws, NEW n, NEW limit, NEW now, NEW live
    PROVE  PoolRows(EmptyPool, ws, n, limit, now, live) /\ ExactPool(EmptyPool)
<1>1. Lanes \in Nat \ {0} /\ 0 \in Lane
  BY VerifyAssumption DEF Lane
<1>2. NoRequest \notin Reqs
  BY DEF NoRequest, Reqs
<1>3. <<>> \in Seq(Unit) /\ Len(<<>>) = 0
  BY EmptySeq
<1>4. PoolType(EmptyPool)
  BY <1>1, <1>2, <1>3 DEF PoolType, EmptyPool
<1>5. \A i \in Lane : EmptyPool.req[i] = NoRequest /\ EmptyPool.rows[i] = <<>>
  BY DEF EmptyPool
<1> QED
  BY <1>2, <1>3, <1>4, <1>5 DEF PoolRows, ExactPool

\* Requests are taken and get tokens; those in slots stay or leave, and the
\* weights change only when none stays.
LEMMA RowsStay ==
    ASSUME NEW pool, NEW ws, NEW n \in Nat, NEW limit \in [Reqs -> Int], NEW now, NEW live,
           PoolRows(pool, ws, n, limit, now, live),
           NEW vs, NEW m \in Nat, n <= m, NEW bound \in [Reqs -> Int],
           \A r \in Reqs : limit[r] <= bound[r],
           NEW alive, \A r \in alive : r < n => r \in live /\ ws = vs
    PROVE  PoolRows(pool, vs, m, bound, now, alive)
<1> SUFFICES ASSUME NEW i \in Lane, pool.req[i] \in Reqs
             PROVE  /\ pool.req[i] < m /\ Len(pool.rows[i]) <= bound[pool.req[i]]
                    /\ \A q \in 1 .. Len(pool.rows[i]) :
                         /\ pool.rows[i][q].run = now /\ pool.rows[i][q].req = pool.req[i]
                         /\ pool.rows[i][q].w \in vs \/ pool.req[i] \notin alive
  BY DEF PoolRows
<1>1. /\ pool.req[i] < n /\ Len(pool.rows[i]) <= limit[pool.req[i]]
      /\ \A q \in 1 .. Len(pool.rows[i]) :
           /\ pool.rows[i][q].run = now /\ pool.rows[i][q].req = pool.req[i]
           /\ pool.rows[i][q].w \in ws \/ pool.req[i] \notin live
  BY DEF PoolRows
<1>2. pool.req[i] \in Nat
  BY Constants DEF Reqs
<1>3. pool.rows[i] \in Seq(Unit)
  BY DEF PoolRows, PoolType
<1>4. Len(pool.rows[i]) \in Nat
  BY <1>3, LenProperties
<1>5. pool.req[i] \in alive => pool.req[i] \in live /\ ws = vs
  BY <1>1
<1>6. limit[pool.req[i]] \in Int /\ bound[pool.req[i]] \in Int
      /\ limit[pool.req[i]] <= bound[pool.req[i]]
  OBVIOUS
<1>7. pool.req[i] < m
  BY <1>1, <1>2
<1>8. Len(pool.rows[i]) <= bound[pool.req[i]]
  BY <1>1, <1>4, <1>6
<1> QED
  BY <1>1, <1>5, <1>7, <1>8

\* Rows that are right are put in a lane.
LEMMA PlacedRows ==
    ASSUME NEW pool, NEW ws, NEW n, NEW limit, NEW now, NEW live,
           PoolRows(pool, ws, n, limit, now, live),
           NEW new, NEW r \in Reqs, NEW rows \in Seq(Unit), Placed(pool, new, r, rows),
           r < n, Len(rows) <= limit[r],
           \A q \in 1 .. Len(rows) : rows[q].run = now /\ rows[q].req = r /\ rows[q].w \in ws
    PROVE  PoolRows(new, ws, n, limit, now, live)
<1>1. PICK l \in Lane :
        /\ new.req[l] = r /\ new.rows[l] = rows
        /\ \A i \in Lane \ {l} : new.req[i] = pool.req[i] /\ new.rows[i] = pool.rows[i]
  BY DEF Placed
<1>2. ASSUME NEW i \in Lane, new.req[i] \in Reqs
      PROVE  /\ new.req[i] < n /\ Len(new.rows[i]) <= limit[new.req[i]]
             /\ \A q \in 1 .. Len(new.rows[i]) :
                  /\ new.rows[i][q].run = now /\ new.rows[i][q].req = new.req[i]
                  /\ new.rows[i][q].w \in ws \/ new.req[i] \notin live
  <2>1. CASE i = l
    BY <1>1, <2>1
  <2>2. CASE i # l
    <3>1. new.req[i] = pool.req[i] /\ new.rows[i] = pool.rows[i] /\ pool.req[i] \in Reqs
      BY <1>1, <1>2, <2>2
    <3> QED
      BY <3>1 DEF PoolRows
  <2> QED
    BY <2>1, <2>2
<1> QED
  BY <1>2 DEF PoolRows, Placed

\* The lane of a request in a slot is right.
LEMMA HeldRows ==
    ASSUME NEW pool, NEW ws, NEW n, NEW limit \in [Reqs -> Nat], NEW now, NEW live,
           PoolRows(pool, ws, n, limit, now, live), NEW r \in Reqs, r \in live
    PROVE  /\ Len(Held(pool, r)) <= limit[r]
           /\ \A q \in 1 .. Len(Held(pool, r)) :
                /\ Held(pool, r)[q].run = now /\ Held(pool, r)[q].req = r
                /\ Held(pool, r)[q].w \in ws
<1>1. CASE LanesOf(pool, r) = {}
  <2>1. Held(pool, r) = <<>> /\ Len(<<>>) = 0
    BY <1>1, EmptySeq DEF Held
  <2> QED
    BY <2>1
<1>2. CASE LanesOf(pool, r) # {}
  <2>1. PICK l \in Lane : pool.req[l] = r
    BY <1>2 DEF LanesOf
  <2>2. Held(pool, r) = pool.rows[l]
    BY <2>1, TheLane DEF PoolRows
  <2> QED
    BY <2>1, <2>2 DEF PoolRows
<1> QED
  BY <1>1, <1>2

\* In an exact pool what is held is exact.
LEMMA HeldExact ==
    ASSUME NEW pool, PoolType(pool), ExactPool(pool), NEW r \in Reqs
    PROVE  \A q \in 1 .. Len(Held(pool, r)) : Held(pool, r)[q].exact
<1>1. CASE LanesOf(pool, r) = {}
  <2>1. Held(pool, r) = <<>> /\ Len(<<>>) = 0
    BY <1>1, EmptySeq DEF Held
  <2> QED
    BY <2>1
<1>2. CASE LanesOf(pool, r) # {}
  <2>1. PICK l \in Lane : pool.req[l] = r
    BY <1>2 DEF LanesOf
  <2>2. Held(pool, r) = pool.rows[l]
    BY <2>1, TheLane
  <2> QED
    BY <2>2 DEF ExactPool
<1> QED
  BY <1>1, <1>2

\* Exact rows keep a pool exact.
LEMMA PlacedExact ==
    ASSUME NEW pool, ExactPool(pool), NEW new, NEW r, NEW rows, Placed(pool, new, r, rows),
           \A q \in 1 .. Len(rows) : rows[q].exact
    PROVE  ExactPool(new)
  BY DEF Placed, ExactPool

-----------------------------------------------------------------------------
(* The state.                                                              *)

\* The types that the steps rely on.
LEMMA Types ==
    ASSUME TypeOK
    PROVE  /\ Limit \in [Reqs -> Nat] /\ \A r \in Reqs : Limit[r] = load.plen[r] + nout[r]
           /\ run \in Int /\ qhead \in Nat /\ Weights \in Nat /\ epoch \in Nat
           /\ Reqs \subseteq Nat /\ Slots \subseteq Nat /\ MaxPos \in Nat
           /\ \A s \in Slots : pref[s] \in Nat /\ pos[s] \in Nat /\ req[s] \in Reqs
<1>1. run \in Int /\ qhead \in Nat /\ epoch \in Nat /\ Reqs \subseteq Nat /\ Slots \subseteq Nat
      /\ MaxPos \in Nat /\ \A s \in Slots : pref[s] \in Nat /\ pos[s] \in Nat /\ req[s] \in Reqs
  BY Constants DEF TypeOK, Reqs, Slots
<1>2. Weights \in Nat
  BY <1>1 DEF Weights
<1>3. \A r \in Reqs : load.plen[r] \in Nat /\ nout[r] \in Nat
  BY Constants DEF TypeOK
<1>4. Limit \in [Reqs -> Nat] /\ \A r \in Reqs : Limit[r] = load.plen[r] + nout[r]
  BY <1>3 DEF Limit
<1> QED
  BY <1>1, <1>2, <1>4

\* Verification is for CPU schedulers.
LEMMA GateFacts == ASSUME TypeOK, gate.gpu PROVE ~ (gate.tier > 0) /\ ~ gate.near
<1>1. CpuGqa.gpu = FALSE
  BY DEF CpuGqa, GpuGqa, GpuMla
<1>2. ~ GpuMla.near /\ GpuMla.tier = 0 /\ ~ GpuGqa.near /\ GpuGqa.tier = 0
  BY DEF GpuGqa, GpuMla
<1>3. \A scalar, promoted, tier_, near_, resync :
        CpuMla(scalar, promoted, tier_, near_, resync).gpu = FALSE
  BY DEF CpuMla, CpuGqa, GpuGqa, GpuMla
<1>4. gate \in Gates
  BY DEF TypeOK
<1>5. gate = GpuMla \/ gate = GpuGqa
  BY <1>1, <1>3, <1>4, GateAssumption
<1> QED
  BY <1>2, <1>5

\* The column to verify next is one that is left.
LEMMA FirstIsTodo == ASSUME TypeOK, todo # {}, todo \subseteq Emitting PROVE First \in todo
<1> DEFINE T == IF todo \intersect Decoding # {} THEN todo \intersect Decoding ELSE todo
<1>1. T # {} /\ T \subseteq todo
  OBVIOUS
<1>2. todo \subseteq Nat
  BY Types DEF Emitting, Decoding, Prefilling
<1>3. \E x \in T : \A y \in T : x <= y
  BY <1>1, <1>2, LeastNumber
<1>4. Lowest(T) \in T
  BY <1>3 DEF Lowest
<1> QED
  BY <1>1, <1>4 DEF First

\* The lane of r has all positions up to p; they are exact if what was cached
\* is and every token was recorded.
Refilled(pool, new, r, p, ws) ==
    \E rows \in Seq(Unit) :
        /\ Placed(pool, new, r, rows)
        /\ RowsOf(new, r) = rows /\ Len(rows) = p + 1
        /\ \A q \in 1 .. p + 1 : Of(rows[q], r, ws)
        /\ (\A q \in 1 .. Len(Held(pool, r)) : Held(pool, r)[q].exact)
           /\ 0 .. p \subseteq hist[r] => \A q \in 1 .. p + 1 : rows[q].exact

LEMMA ReplayedRows ==
    ASSUME TypeOK, NEW pool, NEW ws, NEW n, NEW limit \in [Reqs -> Nat], NEW live,
           PoolRows(pool, ws, n, limit, run, live), NEW r \in Reqs, r \in live, r < n,
           NEW p \in Nat, p + 1 <= limit[r], NEW w \in Int, w \in ws
    PROVE  /\ PoolRows(Replayed(pool, r, p, w), ws, n, limit, run, live)
           /\ Refilled(pool, Replayed(pool, r, p, w), r, p, ws)
<1> DEFINE start == Start(pool, r, p)
           Exact(q) == /\ \A i \in 1 .. start : RowsOf(pool, r)[i].exact
                       /\ start .. q \subseteq hist[r]
           again == [q \in 0 .. p |-> Row(r, w, Exact(q))]
<1>0. PoolType(pool)
  BY DEF PoolRows
<1>1. Replayed(pool, r, p, w) = Replay(pool, r, p, again)
  BY DEF Replayed
<1>2. \A q \in 0 .. p : again[q] = [run |-> run, req |-> r, w |-> w, exact |-> Exact(q)]
  BY DEF Row
<1>3. \A q : Exact(q) \in BOOLEAN
  OBVIOUS
<1>4. r \in Int /\ run \in Int
  BY Types
<1>5. again \in [0 .. p -> Unit]
  <2> HIDE DEF Exact
  <2>1. \A q \in 0 .. p : Row(r, w, Exact(q)) \in Unit
    BY <1>3, <1>4 DEF Unit, Row
  <2> QED
    BY <2>1
<1> HIDE DEF again
<1>6. PICK rows \in Seq(Unit) :
        /\ Placed(pool, Replay(pool, r, p, again), r, rows)
        /\ RowsOf(Replay(pool, r, p, again), r) = rows
        /\ Len(rows) = p + 1
        /\ \A q \in 1 .. p + 1 :
             rows[q] = IF q <= Start(pool, r, p) THEN Held(pool, r)[q] ELSE again[q - 1]
        /\ Start(pool, r, p) \in Nat /\ Start(pool, r, p) <= p
        /\ Start(pool, r, p) <= Len(Held(pool, r))
  BY <1>0, <1>5, ReplayPlaces
<1>7. \A q \in 1 .. Len(Held(pool, r)) : Of(Held(pool, r)[q], r, ws)
  BY HeldRows DEF Of
<1>8. /\ Len(Held(pool, r)) \in Nat
      /\ \A q \in 1 .. Len(Held(pool, r)) : RowsOf(pool, r)[q] = Held(pool, r)[q]
  BY <1>0, HeldType
<1>9. ASSUME NEW q \in 1 .. p + 1
      PROVE  /\ Of(rows[q], r, ws)
             /\ (\A i \in 1 .. Len(Held(pool, r)) : Held(pool, r)[i].exact)
                /\ 0 .. p \subseteq hist[r] => rows[q].exact
  <2>1. CASE q <= start
    <3>1. q \in 1 .. Len(Held(pool, r)) /\ rows[q] = Held(pool, r)[q]
      BY <1>6, <1>8, <2>1
    <3> QED
      BY <1>7, <3>1
  <2>2. CASE ~ (q <= start)
    <3>1. q - 1 \in 0 .. p /\ rows[q] = again[q - 1]
      BY <1>6, <2>2
    <3>2. Of(rows[q], r, ws) /\ rows[q].exact = Exact(q - 1)
      <4> HIDE DEF Exact
      <4>1. rows[q] = [run |-> run, req |-> r, w |-> w, exact |-> Exact(q - 1)]
        BY <1>2, <3>1
      <4> QED
        BY <4>1 DEF Of
    <3>3. 1 .. start \subseteq 1 .. Len(Held(pool, r)) /\ start .. q - 1 \subseteq 0 .. p
      BY <1>6, <1>8
    <3>4. (\A i \in 1 .. Len(Held(pool, r)) : Held(pool, r)[i].exact)
          /\ 0 .. p \subseteq hist[r] => Exact(q - 1)
      BY <1>8, <3>3
    <3> QED
      BY <3>2, <3>4
  <2> QED
    BY <2>1, <2>2
<1>10. PoolRows(Replay(pool, r, p, again), ws, n, limit, run, live)
  <2>1. Len(rows) <= limit[r]
    BY <1>6
  <2>2. \A q \in 1 .. Len(rows) : rows[q].run = run /\ rows[q].req = r /\ rows[q].w \in ws
    BY <1>6, <1>9 DEF Of
  <2> QED
    BY <1>6, <2>1, <2>2, PlacedRows
<1> QED
  BY <1>1, <1>6, <1>9, <1>10 DEF Refilled

-----------------------------------------------------------------------------
(* The steps.                                                              *)

\* Steps that change none of this, or only what is left to verify.
LEMMA StillStep ==
    ASSUME VInv,
           UNCHANGED <<gate, run, load, nout, active, req, pref, pos, qhead, cols, kv, epoch>>,
           pc' = "emit" <=> pc = "emit", UNCHANGED <<hist, tier>>, todo' \subseteq todo,
           near' = near \/ /\ ~ gate.gpu /\ PoolInv(near', {Hi})
                           /\ ~gate.scalar => ExactPool(near')
    PROVE  KvInv' /\ VerifyInv' /\ HistInv' /\ ExactInv'
<1>1. /\ Occupied' = Occupied /\ Decoding' = Decoding /\ Prefilling' = Prefilling
      /\ Emitting' = Emitting /\ Weights' = Weights /\ AnyWeights' = AnyWeights
      /\ Limit' = Limit /\ InSlots' = InSlots /\ CopiedBack' = CopiedBack
  BY DEF Occupied, Free, Decoding, Prefilling, Emitting, Weights, AnyWeights, Limit, InSlots,
         CopiedBack
<1>2. KvInv /\ VerifyInv /\ HistInv /\ ExactInv
  BY DEF VInv
<1>3. \A s : Computed(s)' = Computed(s)
  BY <1>1 DEF Computed
<1>4. KvInv'
  <2>1. /\ kv' \in [Slots -> [0 .. MaxPos - 1 -> Unit]]
        /\ \A s \in Occupied : \A p \in 0 .. MaxPos - 1 :
             p < Computed(s) =>
               kv[s][p].run = run /\ kv[s][p].req = req[s] /\ kv[s][p].w \in AnyWeights
    BY <1>2 DEF KvInv, Of
  <2> QED
    BY <1>1, <1>3, <2>1 DEF KvInv, Of
<1>5. VerifyInv'
  <2>1. PoolInv(tier, {0, Weights})'
    BY <1>1, <1>2 DEF VerifyInv, PoolInv
  <2>2. PoolInv(near, {Hi})'
    <3>1. PoolInv(near', {Hi})
      BY <1>2 DEF VerifyInv
    <3> QED
      BY <1>1, <3>1 DEF PoolInv
  <2>3. todo' # {} => pc' = "emit" /\ todo' \subseteq Emitting'
    BY <1>1, <1>2 DEF VerifyInv
  <2>4. gate.gpu => tier' = EmptyPool /\ near' = EmptyPool
    BY <1>2 DEF VerifyInv
  <2> QED
    BY <2>1, <2>2, <2>3, <2>4 DEF VerifyInv
<1>6. HistInv'
  BY <1>1, <1>2 DEF HistInv
<1>7. ExactInv'
  <2>1. \A s, i : Agrees(s, i)' <=> Agrees(s, i)
    BY <1>1, <1>3 DEF Agrees
  <2>2. ~gate.scalar => ExactPool(near')
    BY <1>2 DEF ExactInv
  <2>3. ~gate'.scalar => ExactPool(near)'
    BY <2>2 DEF ExactPool
  <2>4. CopiedBack' => ExactPool(tier)'
    BY <1>1, <1>2 DEF ExactInv, ExactPool
  <2>5. CopiedBack' => \A s \in Occupied', i \in Lane : (tier.req[i] = req[s])' => Agrees(s, i)'
    BY <1>1, <1>2, <2>1 DEF ExactInv
  <2> QED
    BY <2>3, <2>4, <2>5 DEF ExactInv
<1> QED
  BY <1>4, <1>5, <1>6, <1>7

\* Without a request in a slot nothing is said of the lanes.
LEMMA EmptyStep ==
    ASSUME VInv, SInv', Occupied' = {}, todo' = {}, pc' # "emit",
           kv' = kv \/ kv' = ClearedKv, UNCHANGED <<gate, hist>>, tier' = tier, near' = near,
           epoch' = epoch \/ epoch' = epoch + 1,
           gate.gpu \/ UNCHANGED <<run, load, nout, qhead>>
    PROVE  KvInv' /\ VerifyInv' /\ HistInv' /\ ExactInv'
<1>1. Decoding' = {} /\ Prefilling' = {} /\ InSlots' = {}
  BY Parts DEF Occupied, Free, Decoding, Prefilling, InSlots
<1>2. KvInv'
  <2>1. Unwritten \in Unit
    BY DEF Unwritten, Unit
  <2>2. kv \in [Slots -> [0 .. MaxPos - 1 -> Unit]]
    BY DEF VInv, KvInv
  <2>3. ClearedKv \in [Slots -> [0 .. MaxPos - 1 -> Unit]]
    BY <2>1 DEF ClearedKv
  <2> QED
    BY <2>2, <2>3 DEF KvInv
<1>3. HistInv'
  BY <1>1 DEF HistInv
<1>4. ASSUME NEW pool, NEW ws, PoolInv(pool, ws), gate.gpu => pool = EmptyPool
      PROVE  \A vs : PoolRows(pool, vs, qhead', Limit', run', InSlots')
  <2> TAKE vs
  <2>1. CASE gate.gpu
    BY <1>4, <2>1, EmptyRows
  <2>2. CASE ~ gate.gpu
    <3>1. qhead' = qhead /\ run' = run /\ Limit' = Limit
      BY <2>2 DEF Limit
    <3>2. PoolRows(pool, ws, qhead, Limit, run, InSlots)
      BY <1>4 DEF PoolInv
    <3>3. qhead \in Nat /\ Limit \in [Reqs -> Int] /\ \A r \in Reqs : Limit[r] <= Limit[r]
      <4>1. TypeOK
        BY DEF VInv, SInv
      <4> QED
        BY <4>1, Types
    <3>4. \A r \in {} : r < qhead => r \in InSlots /\ ws = vs
      OBVIOUS
    <3>5. PoolRows(pool, vs, qhead, Limit, run, {})
      BY <3>2, <3>3, <3>4, RowsStay
    <3> QED
      BY <1>1, <3>1, <3>5
  <2> QED
    BY <2>1, <2>2
<1>5. VerifyInv'
  <2>1. VerifyInv
    BY DEF VInv
  <2>2. \A vs : PoolRows(tier', vs, qhead', Limit', run', InSlots')
    BY <1>4, <2>1 DEF VerifyInv
  <2>3. \A vs : PoolRows(near', vs, qhead', Limit', run', InSlots')
    BY <1>4, <2>1 DEF VerifyInv
  <2> QED
    BY <2>1, <2>2, <2>3 DEF VerifyInv, PoolInv
<1>6. ExactInv'
  <2>1. ExactInv /\ epoch \in Nat
    BY Types DEF VInv, SInv
  <2>2. CopiedBack' => CopiedBack
    BY <2>1 DEF CopiedBack, Weights
  <2> QED
    BY <2>1, <2>2 DEF ExactInv, ExactPool
<1> QED
  BY <1>2, <1>3, <1>5, <1>6

\* The weights change, or not, with the lanes of the requests gone.
LEMMA ChangeStep ==
    ASSUME VInv, SInv', Boundary \/ Finish, UNCHANGED verify
    PROVE  KvInv' /\ VerifyInv' /\ HistInv' /\ ExactInv'
<1>1. /\ UNCHANGED <<gate, run, load, nout, active, req, pref, pos, qhead, cols>>
      /\ pc # "emit" /\ pc' # "emit"
  BY DEF Boundary, Finish, table, slots
<1>2. UNCHANGED <<hist, tier, near, todo>>
  BY DEF verify
<1>3. CASE UNCHANGED <<kv, epoch>>
  BY <1>1, <1>2, <1>3, StillStep
<1>4. CASE ~ UNCHANGED <<kv, epoch>>
  <2>1. Apply /\ nact = 0
    BY <1>4 DEF Boundary, Finish, Quiescent, txn
  <2>2. kv' = kv \/ kv' = ClearedKv
    BY <2>1 DEF Apply, ApplyGpu, ApplyCpu
  <2>3. epoch' = epoch \/ epoch' = epoch + 1
    BY <2>1 DEF Apply, ApplyGpu, ApplyCpu
  <2>4. Occupied' = {}
    <3>1. Occupied = {}
      BY <2>1, NoneInFlight DEF VInv
    <3> QED
      BY <1>1, <3>1 DEF Occupied, Free
  <2>5. todo' = {}
    BY <1>1, <1>2 DEF VInv, VerifyInv
  <2> QED
    BY <1>1, <1>2, <2>2, <2>3, <2>4, <2>5, EmptyStep
<1> QED
  BY <1>3, <1>4

\* A pass begins with empty slots.
LEMMA BeginContext ==
    ASSUME VInv, SInv', NEW w \in Workloads, Begin(w), UNCHANGED verify
    PROVE  KvInv' /\ VerifyInv' /\ HistInv' /\ ExactInv'
<1>1. /\ gate.gpu /\ active' = [s \in Slots |-> 0] /\ UNCHANGED <<gate, kv, epoch>>
      /\ pc = "idle" /\ pc' = "loop"
  BY DEF Begin, txn
<1>2. UNCHANGED <<hist, tier, near, todo>>
  BY DEF verify
<1>3. Occupied' = {}
  BY <1>1 DEF Occupied, Free
<1>4. todo' = {}
  BY <1>1, <1>2 DEF VInv, VerifyInv
<1> QED
  BY <1>1, <1>2, <1>3, <1>4, EmptyStep

\* Requests are taken, get tokens and leave, and the pools stay.
LEMMA PoolsStay ==
    ASSUME VInv, SInv', UNCHANGED <<gate, run, load, epoch>>, tier' = tier, near' = near,
           qhead <= qhead', \A r \in Reqs : nout[r] <= nout'[r],
           \A r \in InSlots' : r < qhead => r \in InSlots,
           todo' # {} => pc' = "emit" /\ todo' \subseteq Emitting'
    PROVE  VerifyInv'
<1>1. Weights' = Weights
  BY DEF Weights
<1>2. /\ Limit \in [Reqs -> Nat] /\ Limit' \in [Reqs -> Nat] /\ qhead \in Nat /\ qhead' \in Nat
      /\ \A r \in Reqs : Limit[r] <= Limit'[r]
  <2>1. TypeOK /\ TypeOK'
    BY DEF VInv, SInv
  <2>2. Limit \in [Reqs -> Nat] /\ \A r \in Reqs : Limit[r] = load.plen[r] + nout[r]
    BY <2>1, Types
  <2>3. \A r \in Reqs : load.plen[r] \in Nat /\ nout[r] \in Nat /\ nout'[r] \in Nat
    BY <2>1, Constants DEF TypeOK
  <2>4. Limit' = [r \in Reqs |-> load.plen[r] + nout'[r]]
    BY DEF Limit
  <2>5. \A r \in Reqs : Limit'[r] = load.plen[r] + nout'[r] /\ Limit[r] <= Limit'[r]
    BY <2>2, <2>3, <2>4
  <2>6. Limit' \in [Reqs -> Nat]
    BY <2>3, <2>4
  <2>7. qhead \in Nat /\ qhead' \in Nat
    BY <2>1 DEF TypeOK
  <2> QED
    BY <2>2, <2>5, <2>6, <2>7
<1>3. ASSUME NEW pool, NEW ws, PoolInv(pool, ws)
      PROVE  PoolRows(pool, ws, qhead', Limit', run', InSlots')
  <2>1. PoolRows(pool, ws, qhead, Limit, run, InSlots)
    BY <1>3 DEF PoolInv
  <2>2. Limit \in [Reqs -> Int] /\ Limit' \in [Reqs -> Int]
    BY <1>2
  <2>3. PoolRows(pool, ws, qhead', Limit', run, InSlots')
    BY <1>2, <2>1, <2>2, RowsStay
  <2> QED
    BY <2>3
<1>4. VerifyInv
  BY DEF VInv
<1>5. PoolRows(tier, {0, Weights}, qhead', Limit', run', InSlots')
  BY <1>3, <1>4 DEF VerifyInv
<1>6. PoolRows(near, {Hi}, qhead', Limit', run', InSlots')
  BY <1>3, <1>4 DEF VerifyInv
<1> QED
  BY <1>1, <1>4, <1>5, <1>6 DEF VerifyInv, PoolInv

\* A request admitted has no row in its slot, or those of its prompt, and no lane.
LEMMA AdmitContext ==
    ASSUME VInv, SInv', VAdmit
    PROVE  KvInv' /\ VerifyInv' /\ HistInv' /\ ExactInv'
<1> DEFINE N == Cardinality(Admitted)
<1>1. SInv /\ Admit /\ KvInv /\ VerifyInv /\ HistInv /\ ExactInv /\ TypeOK
  BY DEF VInv, SInv, VAdmit
<1>2. /\ UNCHANGED <<gate, run, load, epoch>> /\ pc' \in {"loop", "dispatch"}
      /\ Admitted \subseteq Slots /\ Admitted \intersect Occupied = {}
      /\ Occupied' = Occupied \union Admitted
      /\ Prefilling' = IF gate.scalar THEN Prefilling ELSE Prefilling \union Admitted
      /\ Decoding' = IF gate.scalar THEN Decoding \union Admitted ELSE Decoding
      /\ N \in Nat /\ qhead' = qhead + N
      /\ \A s \in Admitted : /\ Rank(s) \in Nat /\ qhead + Rank(s) \in Reqs
                             /\ load.plen[qhead + Rank(s)] \in 1 .. MaxPos - 1
      /\ \A r \in Reqs : nout'[r] = IF gate.scalar /\ r >= qhead /\ r < qhead + N THEN 1
                                   ELSE nout[r]
      /\ \A s \in Occupied : /\ req'[s] = req[s] /\ pref'[s] = pref[s] /\ pos'[s] = pos[s]
                             /\ req[s] \in Reqs /\ req[s] < qhead
      /\ \A s \in Admitted : /\ req'[s] = qhead + Rank(s) /\ (~gate.scalar => pref'[s] = 0)
                             /\ gate.scalar => pos'[s] = load.plen[qhead + Rank(s)]
  BY <1>1, AdmitEffect
<1>3. /\ pc = "admit" /\ todo = {} /\ UNCHANGED <<tier, near, todo>>
      /\ hist' = [r \in Reqs |->
                    IF \E s \in Admitted : qhead + Rank(s) = r THEN 0 .. load.plen[r] - 1
                    ELSE hist[r]]
      /\ IF gate.scalar THEN PrefillAlone ELSE kv' = kv
  BY <1>1 DEF VAdmit, Admit, VerifyInv
<1>4. /\ Occupied = Decoding \union Prefilling /\ Decoding \intersect Prefilling = {}
      /\ Occupied \subseteq Slots /\ Weights' = Weights /\ AnyWeights' = AnyWeights
      /\ qhead \in Nat /\ run \in Int /\ Weights \in Nat /\ Reqs \subseteq Nat /\ MaxPos \in Nat
      /\ \A s \in Slots : pref[s] \in Nat /\ pos[s] \in Nat
  BY <1>1, <1>2, Parts, Types DEF Weights, AnyWeights
<1>5. KvInv'
  <2>1. kv' \in [Slots -> [0 .. MaxPos - 1 -> Unit]]
    <3>1. CASE gate.scalar
      <4>1. kv' = [s \in Slots |-> [p \in 0 .. MaxPos - 1 |->
                     IF s \in Admitted /\ p < load.plen[qhead + Rank(s)]
                       THEN Row(qhead + Rank(s), Weights, TRUE) ELSE kv[s][p]]]
        BY <1>3, <3>1 DEF PrefillAlone
      <4>2. \A s \in Admitted : Row(qhead + Rank(s), Weights, TRUE) \in Unit
        BY <1>2, <1>4 DEF Row, Unit
      <4>3. kv \in [Slots -> [0 .. MaxPos - 1 -> Unit]]
        BY <1>1 DEF KvInv
      <4> QED
        BY <4>1, <4>2, <4>3
    <3>2. CASE ~ gate.scalar
      BY <1>1, <1>3, <3>2 DEF KvInv
    <3> QED
      BY <3>1, <3>2
  <2>2. ASSUME NEW s \in Occupied', NEW p \in 0 .. MaxPos - 1, p < Computed(s)'
        PROVE  Of(kv[s][p], req[s], AnyWeights)'
    <3>1. CASE s \in Occupied
      <4>1. s \notin Admitted /\ req'[s] = req[s] /\ pref'[s] = pref[s] /\ pos'[s] = pos[s]
        BY <1>2, <3>1
      <4>2. Computed(s)' = Computed(s)
        BY <1>2, <1>3, <4>1 DEF Computed
      <4>3. kv'[s][p] = kv[s][p]
        <5>1. CASE gate.scalar
          <6>1. s \in Slots
            BY <1>4, <3>1
          <6>2. kv' = [u \in Slots |-> [q \in 0 .. MaxPos - 1 |->
                         IF u \in Admitted /\ q < load.plen[qhead + Rank(u)]
                           THEN Row(qhead + Rank(u), Weights, TRUE) ELSE kv[u][q]]]
            BY <1>3, <5>1 DEF PrefillAlone
          <6> QED
            BY <4>1, <6>1, <6>2
        <5>2. CASE ~ gate.scalar
          BY <1>3, <5>2
        <5> QED
          BY <5>1, <5>2
      <4>4. Of(kv[s][p], req[s], AnyWeights)
        BY <1>1, <2>2, <3>1, <4>2 DEF KvInv
      <4> QED
        BY <1>2, <1>4, <4>1, <4>3, <4>4 DEF Of
    <3>2. CASE s \in Admitted
      <4>1. CASE gate.scalar
        <5>1. s \in Slots /\ s \notin Prefilling' /\ req'[s] = qhead + Rank(s)
              /\ pos'[s] = load.plen[qhead + Rank(s)]
          BY <1>2, <1>4, <3>2, <4>1
        <5>2. p < load.plen[qhead + Rank(s)]
          BY <1>2, <2>2, <5>1 DEF Computed
        <5>3. kv'[s][p] = Row(qhead + Rank(s), Weights, TRUE)
          BY <1>3, <3>2, <4>1, <5>1, <5>2 DEF PrefillAlone
        <5> QED
          BY <1>2, <1>4, <5>1, <5>3 DEF Of, Row, AnyWeights
      <4>2. CASE ~ gate.scalar
        <5>1. s \in Prefilling' /\ pref'[s] = 0
          BY <1>2, <3>2, <4>2
        <5> QED
          BY <2>2, <5>1 DEF Computed
      <4> QED
        BY <4>1, <4>2
    <3> QED
      BY <1>2, <3>1, <3>2
  <2> QED
    BY <2>1, <2>2 DEF KvInv
<1>6. VerifyInv'
  <2>1. \A r \in Reqs : nout[r] <= nout'[r]
    <3>1. \A r \in Reqs : nout[r] \in Nat /\ (r >= qhead => nout[r] = 0)
      BY <1>1 DEF SInv, TypeOK, ProgressInv
    <3> QED
      BY <1>2, <3>1
  <2>2. \A r \in InSlots' : r < qhead => r \in InSlots
    <3> SUFFICES ASSUME NEW s \in Occupied', req'[s] < qhead PROVE req'[s] \in InSlots
      BY DEF InSlots
    <3>1. s \notin Admitted
      BY <1>2, <1>4
    <3> QED
      BY <1>2, <3>1 DEF InSlots
  <2> QED
    BY <1>2, <1>3, <1>4, <2>1, <2>2, PoolsStay
<1>7. HistInv'
  <2> SUFFICES ASSUME ~ gate.scalar
               PROVE  /\ \A s \in Decoding' : 0 .. pos'[s] \subseteq hist'[req'[s]]
                      /\ \A s \in Prefilling' : 0 .. load.plen[req'[s]] - 1 \subseteq hist'[req'[s]]
    BY <1>2 DEF HistInv
  <2>1. \A s \in Occupied : hist'[req[s]] = hist[req[s]] /\ req'[s] = req[s] /\ pos'[s] = pos[s]
    <3> TAKE s \in Occupied
    <3>1. req[s] \in Reqs /\ ~ \E u \in Admitted : qhead + Rank(u) = req[s]
      BY <1>2, <1>4
    <3> QED
      BY <1>2, <1>3, <3>1
  <2>2. \A s \in Admitted : 0 .. load.plen[req'[s]] - 1 \subseteq hist'[req'[s]]
    <3> TAKE s \in Admitted
    <3>1. req'[s] = qhead + Rank(s) /\ qhead + Rank(s) \in Reqs
      BY <1>2
    <3>2. hist'[qhead + Rank(s)] = 0 .. load.plen[qhead + Rank(s)] - 1
      BY <1>3, <3>1
    <3> QED
      BY <3>1, <3>2
  <2> QED
    BY <1>1, <1>2, <1>4, <2>1, <2>2 DEF HistInv
<1>8. ExactInv'
  <2>1. ASSUME CopiedBack, NEW s \in Occupied', NEW i \in Lane, tier.req[i] = req'[s]
        PROVE  Agrees(s, i)'
    <3>1. ~ gate.scalar
      BY <2>1 DEF CopiedBack
    <3>2. tier.req[i] \in Reqs => tier.req[i] < qhead
      BY <1>1 DEF VerifyInv, PoolInv, PoolRows
    <3>3. s \in Occupied /\ req'[s] = req[s]
      BY <1>2, <1>4, <2>1, <3>2
    <3>4. Agrees(s, i)
      BY <1>1, <2>1, <3>3 DEF ExactInv
    <3>5. /\ s \in Decoding /\ s \notin Prefilling /\ Len(tier.rows[i]) <= pos[s]
          /\ \A q \in 1 .. Len(tier.rows[i]) : kv[s][q - 1].exact
      BY <1>3, <1>4, <3>4 DEF Agrees, Computed
    <3>6. s \in Decoding' /\ s \notin Prefilling' /\ Computed(s)' = pos[s]
      BY <1>2, <3>1, <3>3, <3>5 DEF Computed
    <3> QED
      BY <1>3, <3>1, <3>5, <3>6 DEF Agrees
  <2>2. CopiedBack' = CopiedBack
    BY <1>2, <1>4 DEF CopiedBack
  <2> QED
    BY <1>1, <1>2, <1>3, <2>1, <2>2 DEF ExactInv, ExactPool
<1> QED
  BY <1>5, <1>6, <1>7, <1>8

\* A dispatch computes the next rows and leaves those before.
LEMMA DispatchContext ==
    ASSUME VInv, SInv', VDispatch
    PROVE  KvInv' /\ VerifyInv' /\ HistInv' /\ ExactInv'
<1>1. SInv /\ Dispatch /\ KvInv /\ VerifyInv /\ HistInv /\ ExactInv /\ TypeOK /\ ProgressInv
  BY DEF VInv, SInv, VDispatch
<1>2. /\ UNCHANGED <<gate, run, load, nout, active, req, pos, qhead, epoch>>
      /\ cols' = DecodeCols \union
                 {c \in PromptCols : c.pos \in pref[c.slot] .. pref[c.slot] + Take(c.slot) - 1}
      /\ pref' = [s \in Slots |-> pref[s] + Take(s)]
      /\ kv' = [s \in Slots |-> [p \in 0 .. MaxPos - 1 |->
                 IF [slot |-> s, pos |-> p] \in cols' THEN Row(req[s], Weights, FALSE)
                 ELSE kv[s][p]]]
      /\ pc = "dispatch" /\ (cols' = {} => pc' = "loop") /\ (cols' # {} => pc' = "emit")
  BY <1>1 DEF Dispatch, table, txn, DecodeCols
<1>3. UNCHANGED <<hist, tier, near>> /\ todo' = IF Verifies /\ cols' # {} THEN Emitting' ELSE {}
  BY DEF VDispatch
<1>4. /\ Occupied' = Occupied /\ Decoding' = Decoding /\ Prefilling' = Prefilling
      /\ Weights' = Weights /\ AnyWeights' = AnyWeights /\ InSlots' = InSlots
      /\ CopiedBack' = CopiedBack
  BY <1>2 DEF Occupied, Free, Decoding, Prefilling, Weights, AnyWeights, InSlots, CopiedBack
<1>5. /\ Occupied = Decoding \union Prefilling /\ Decoding \intersect Prefilling = {}
      /\ Occupied \subseteq Slots /\ qhead \in Nat /\ run \in Int /\ Weights \in Nat
      /\ Reqs \subseteq Nat /\ MaxPos \in Nat
      /\ \A s \in Slots : pref[s] \in Nat /\ pos[s] \in Nat /\ req[s] \in Reqs /\ Take(s) \in Nat
  BY <1>1, Parts, Types, TakeType
\* The columns of a dispatch, by slot and position.
<1>6. ASSUME NEW s \in Occupied, NEW p \in 0 .. MaxPos - 1
      PROVE  [slot |-> s, pos |-> p] \in cols'
               <=> \/ s \in Decoding /\ p = pos[s]
                   \/ s \in Prefilling /\ p \in pref[s] .. pref[s] + Take(s) - 1
  <2>1. [slot |-> s, pos |-> p] \in DecodeCols <=> s \in Decoding /\ p = pos[s]
    BY DEF DecodeCols
  <2>2. [slot |-> s, pos |-> p] \in PromptCols <=> s \in Prefilling
    <3>1. ASSUME NEW u, NEW q, [slot |-> s, pos |-> p] = [slot |-> u, pos |-> q] PROVE u = s
      <4>1. [slot |-> s, pos |-> p].slot = [slot |-> u, pos |-> q].slot
        BY <3>1
      <4> QED
        BY <4>1
    <3>2. ASSUME [slot |-> s, pos |-> p] \in PromptCols PROVE s \in Prefilling
      <4>1. PICK u \in Prefilling, q \in 0 .. MaxPos - 1 :
              [slot |-> s, pos |-> p] = [slot |-> u, pos |-> q]
        BY <3>2 DEF PromptCols
      <4> QED
        BY <3>1, <4>1
    <3>3. ASSUME s \in Prefilling PROVE [slot |-> s, pos |-> p] \in PromptCols
      BY <3>3 DEF PromptCols
    <3> QED
      BY <3>2, <3>3
  <2> QED
    BY <1>2, <2>1, <2>2
<1>7. KvInv'
  <2>1. \A s \in Slots : Row(req[s], Weights, FALSE) \in Unit
    <3> TAKE s \in Slots
    <3>1. run \in Int /\ req[s] \in Nat /\ Weights \in Nat
      BY <1>5
    <3> QED
      BY <3>1 DEF Row, Unit
  <2>2. kv' \in [Slots -> [0 .. MaxPos - 1 -> Unit]]
    BY <1>1, <1>2, <2>1 DEF KvInv
  <2>3. ASSUME NEW s \in Occupied, NEW p \in 0 .. MaxPos - 1, p < Computed(s)'
        PROVE  Of(kv'[s][p], req[s], AnyWeights)
    <3>1. CASE [slot |-> s, pos |-> p] \in cols'
      <4>1. kv'[s][p] = Row(req[s], Weights, FALSE)
        BY <1>2, <1>5, <3>1
      <4> QED
        BY <4>1 DEF Of, Row, AnyWeights
    <3>2. CASE [slot |-> s, pos |-> p] \notin cols'
      <4>1. kv'[s][p] = kv[s][p]
        BY <1>2, <1>5, <3>2
      <4>2. p < Computed(s)
        <5>1. CASE s \in Decoding
          <6>1. s \notin Prefilling /\ p # pos[s]
            BY <1>5, <1>6, <3>2, <5>1
          <6>2. Computed(s) = pos[s] /\ Computed(s)' \in {pos[s], pos[s] + 1}
            BY <1>2, <1>4, <6>1 DEF Computed
          <6> QED
            BY <1>5, <2>3, <6>1, <6>2
        <5>2. CASE s \in Prefilling
          <6>1. p \notin pref[s] .. pref[s] + Take(s) - 1
            BY <1>6, <3>2, <5>2
          <6>2. Computed(s) = pref[s] /\ Computed(s)' = pref[s] + Take(s)
            BY <1>2, <1>4, <1>5, <5>2 DEF Computed
          <6> QED
            BY <1>5, <2>3, <6>1, <6>2
        <5> QED
          BY <1>5, <5>1, <5>2
      <4> QED
        BY <1>1, <4>1, <4>2 DEF KvInv
    <3> QED
      BY <3>1, <3>2
  <2>4. \A s \in Occupied' : \A p \in 0 .. MaxPos - 1 :
          p < Computed(s)' => Of(kv'[s][p], req[s], AnyWeights)
    BY <1>4, <2>3
  <2> QED
    <3>1. run' = run /\ req' = req /\ AnyWeights' = AnyWeights
      BY <1>2, <1>4
    <3>2. \A s, p : Of(kv[s][p], req[s], AnyWeights)' <=> Of(kv'[s][p], req[s], AnyWeights)
      BY <3>1 DEF Of
    <3> QED
      BY <2>2, <2>4, <3>2 DEF KvInv
<1>8. VerifyInv'
  <2>1. \A r \in Reqs : nout[r] <= nout'[r]
    BY <1>1, <1>2 DEF TypeOK
  <2>2. todo' # {} => pc' = "emit" /\ todo' \subseteq Emitting'
    BY <1>2, <1>3
  <2> QED
    BY <1>2, <1>3, <1>4, <1>5, <2>1, <2>2, PoolsStay
<1>9. HistInv'
  BY <1>1, <1>2, <1>3, <1>4 DEF HistInv
<1>10. ExactInv'
  <2>1. ASSUME CopiedBack, NEW s \in Occupied, NEW i \in Lane, tier.req[i] = req[s]
        PROVE  Agrees(s, i)'
    <3>1. Agrees(s, i)
      BY <1>1, <2>1 DEF ExactInv
    <3>2. /\ s \in Decoding /\ s \notin Prefilling /\ Len(tier.rows[i]) <= pos[s]
          /\ \A q \in 1 .. Len(tier.rows[i]) : kv[s][q - 1].exact
      BY <1>2, <1>5, <3>1 DEF Agrees, Computed
    <3>3. pos[s] < MaxPos /\ Len(tier.rows[i]) \in Nat
      <4>1. tier.rows[i] \in Seq(Unit)
        BY <1>1 DEF VerifyInv, PoolInv, PoolRows, PoolType
      <4> QED
        BY <1>1, <3>2, <4>1, LenProperties DEF ProgressInv
    <3>4. \A q \in 1 .. Len(tier.rows[i]) : kv'[s][q - 1].exact
      <4> TAKE q \in 1 .. Len(tier.rows[i])
      <4>1. q - 1 \in 0 .. MaxPos - 1 /\ q - 1 # pos[s]
        BY <1>5, <3>2, <3>3
      <4>2. [slot |-> s, pos |-> q - 1] \notin cols'
        BY <1>6, <3>2, <4>1
      <4>3. kv'[s][q - 1] = kv[s][q - 1]
        BY <1>2, <1>5, <4>1, <4>2
      <4> QED
        BY <3>2, <4>3
    <3>5. Len(tier.rows[i]) <= Computed(s)'
      BY <1>2, <1>4, <1>5, <3>2, <3>3 DEF Computed
    <3> QED
      BY <1>3, <1>4, <3>2, <3>4, <3>5 DEF Agrees
  <2> QED
    BY <1>1, <1>2, <1>3, <1>4, <2>1 DEF ExactInv, ExactPool
<1> QED
  BY <1>7, <1>8, <1>9, <1>10

\* A token moves its slot on by the row just computed.
LEMMA EmitContext ==
    ASSUME VInv, SInv', VEmit
    PROVE  KvInv' /\ VerifyInv' /\ HistInv' /\ ExactInv'
<1>1. /\ SInv /\ Emit /\ KvInv /\ VerifyInv /\ HistInv /\ ExactInv
      /\ TypeOK /\ SlotsInv /\ ProgressInv /\ ColsInv
  BY DEF VInv, SInv, VEmit
<1>2. /\ UNCHANGED <<gate, run, load, req, pref, qhead, epoch, cols, kv>>
      /\ pc = "emit" /\ pc' = "loop" /\ Emitting \subseteq Occupied /\ Decoding \subseteq Emitting
      /\ \A s \in Emitting : nout'[req[s]] = nout[req[s]] + 1 /\ pos'[s] = Position(s)
      /\ \A r \in Reqs : (\A s \in Emitting : req[s] # r) => nout'[r] = nout[r]
  BY <1>1, EmitEffect
<1>3. PICK E \in SUBSET Emitting :
        /\ Occupied' = Occupied \ E /\ Decoding' = Emitting \ E
        /\ Prefilling' = Prefilling \ Emitting
        /\ \A s \in Emitting \ E : Position(s) < MaxPos
  BY <1>1, EmitEffect
<1>4. /\ UNCHANGED <<tier, near, todo>> /\ todo = {}
      /\ hist' = [r \in Reqs |->
                    hist[r] \union {Position(s) : s \in {u \in Emitting : /\ req[u] = r
                                                                          /\ Position(u) < MaxPos}}]
  BY DEF VEmit
<1>5. /\ Occupied = Decoding \union Prefilling /\ Decoding \intersect Prefilling = {}
      /\ Occupied \subseteq Slots /\ qhead \in Nat /\ Reqs \subseteq Nat /\ MaxPos \in Nat
      /\ \A s \in Slots : pref[s] \in Nat /\ pos[s] \in Nat /\ req[s] \in Reqs
      /\ Weights' = Weights /\ AnyWeights' = AnyWeights /\ CopiedBack' = CopiedBack
  BY <1>1, <1>2, Parts, Types DEF Weights, AnyWeights, CopiedBack
<1>6. \A s \in Emitting : /\ Position(s) \in Nat
                          /\ s \in Decoding => Position(s) = pos[s] + 1
                          /\ s \in Prefilling => Position(s) = load.plen[req[s]]
  BY <1>1, Emitters
\* A prompt that emits has been computed.
<1>7. ASSUME NEW s \in Emitting, s \in Prefilling PROVE load.plen[req[s]] <= pref[s]
  <2>1. [slot |-> s, pos |-> load.plen[req[s]] - 1] \in cols
    BY <1>5, <1>7 DEF Emitting
  <2>2. load.plen[req[s]] - 1 < pref[s]
    BY <1>1, <1>2, <1>5, <1>7, <2>1 DEF ColsInv
  <2> QED
    BY <1>5, <1>6, <1>7, <2>2
<1>8. KvInv'
  <2>1. ASSUME NEW s \in Occupied', NEW p \in 0 .. MaxPos - 1, p < Computed(s)'
        PROVE  s \in Occupied /\ p < Computed(s)
    <3>1. CASE s \in Emitting
      <4>1. s \in Decoding' /\ s \notin Prefilling' /\ Computed(s)' = Position(s)
        BY <1>2, <1>3, <3>1 DEF Computed
      <4>2. Position(s) <= Computed(s)
        BY <1>2, <1>5, <1>6, <1>7, <3>1 DEF Computed
      <4>3. Computed(s) \in Nat /\ Position(s) \in Nat
        BY <1>2, <1>5, <1>6, <3>1 DEF Computed
      <4> QED
        BY <1>3, <2>1, <4>1, <4>2, <4>3
    <3>2. CASE s \notin Emitting
      <4>1. s \in Prefilling /\ s \in Prefilling'
        BY <1>2, <1>3, <1>5, <3>2
      <4> QED
        BY <1>2, <1>3, <2>1, <4>1 DEF Computed
    <3> QED
      BY <3>1, <3>2
  <2> QED
    BY <1>1, <1>2, <1>5, <2>1 DEF KvInv, Of
<1>9. VerifyInv'
  <2>1. \A r \in Reqs : nout[r] <= nout'[r]
    <3> TAKE r \in Reqs
    <3>1. nout[r] \in Nat
      BY <1>1 DEF TypeOK
    <3>2. CASE \E s \in Emitting : req[s] = r
      BY <1>2, <3>1, <3>2
    <3>3. CASE \A s \in Emitting : req[s] # r
      BY <1>2, <3>1, <3>3
    <3> QED
      BY <3>2, <3>3
  <2>2. \A r \in InSlots' : r < qhead => r \in InSlots
    BY <1>2, <1>3 DEF InSlots
  <2> QED
    BY <1>2, <1>4, <1>5, <2>1, <2>2, PoolsStay
<1>10. HistInv'
  <2> SUFFICES ASSUME ~ gate.scalar
               PROVE  /\ \A s \in Decoding' : 0 .. pos'[s] \subseteq hist'[req[s]]
                      /\ \A s \in Prefilling' : 0 .. load.plen[req[s]] - 1 \subseteq hist'[req[s]]
    BY <1>2 DEF HistInv
  <2>1. \A s \in Occupied : hist[req[s]] \subseteq hist'[req[s]]
    BY <1>4, <1>5
  <2>2. ASSUME NEW s \in Decoding' PROVE 0 .. pos'[s] \subseteq hist'[req[s]]
    <3>1. /\ s \in Emitting /\ s \in Occupied /\ pos'[s] = Position(s) /\ Position(s) < MaxPos
          /\ req[s] \in Reqs
      BY <1>2, <1>3, <1>5, <2>2
    <3>2. Position(s) \in hist'[req[s]]
      BY <1>4, <3>1
    <3>3. 0 .. Position(s) - 1 \subseteq hist[req[s]]
      <4>1. CASE s \in Decoding
        <5>1. Position(s) - 1 = pos[s]
          BY <1>5, <1>6, <3>1, <4>1
        <5> QED
          BY <1>1, <4>1, <5>1 DEF HistInv
      <4>2. CASE s \in Prefilling
        BY <1>1, <1>6, <3>1, <4>2 DEF HistInv
      <4> QED
        BY <1>5, <3>1, <4>1, <4>2
    <3>4. 0 .. Position(s) = (0 .. Position(s) - 1) \union {Position(s)}
      BY <1>6, <3>1
    <3> QED
      BY <2>1, <3>1, <3>2, <3>3, <3>4
  <2>3. \A s \in Prefilling' : 0 .. load.plen[req[s]] - 1 \subseteq hist'[req[s]]
    BY <1>1, <1>3, <1>5, <2>1 DEF HistInv
  <2> QED
    BY <2>2, <2>3
<1>11. ExactInv'
  <2>1. ASSUME CopiedBack, NEW s \in Occupied', NEW i \in Lane, tier.req[i] = req[s]
        PROVE  Agrees(s, i)'
    <3>1. s \in Occupied /\ Agrees(s, i)
      BY <1>1, <1>3, <2>1 DEF ExactInv
    <3>2. s \in Emitting
      BY <1>2, <3>1 DEF Agrees
    <3>3. s \in Decoding' /\ s \notin Prefilling' /\ Computed(s)' = Position(s)
      BY <1>2, <1>3, <3>2 DEF Computed
    <3>4. Len(tier.rows[i]) <= Position(s)
      BY <1>2, <1>5, <1>6, <3>1, <3>2 DEF Agrees, Computed
    <3> QED
      BY <1>2, <1>4, <3>1, <3>3, <3>4 DEF Agrees
  <2> QED
    BY <1>1, <1>2, <1>4, <1>5, <2>1 DEF ExactInv, ExactPool
<1> QED
  BY <1>8, <1>9, <1>10, <1>11

-----------------------------------------------------------------------------
(* Verification of a column.                                               *)

\* The column that is verified: of a slot that emits, at the last position its
\* request has reached.
LEMMA TheColumn ==
    ASSUME VInv, pc = "emit", todo # {}
    PROVE  LET s == First
               p == Position(s) - 1
           IN  /\ s \in Emitting /\ s \in Occupied /\ s \in Slots
               /\ req[s] \in Reqs /\ req[s] < qhead /\ req[s] \in InSlots
               /\ p \in 0 .. MaxPos - 1 /\ p + 1 = Limit[req[s]]
               /\ s \in Decoding => p = pos[s] /\ s \notin Prefilling
               /\ s \in Prefilling => p + 1 = load.plen[req[s]] /\ p < pref[s]
               /\ s \notin Prefilling => p + 1 = Computed(s)
               /\ ~gate.scalar => 0 .. p \subseteq hist[req[s]]
<1> DEFINE s == First
<1>1. TypeOK /\ SlotsInv /\ ProgressInv /\ ColsInv /\ VerifyInv /\ HistInv
  BY DEF VInv, SInv
<1>2. s \in Emitting
  BY <1>1, FirstIsTodo DEF VerifyInv
<1> HIDE DEF s
<1>3. /\ Emitting \subseteq Occupied /\ req[s] \in Reqs /\ req[s] < qhead
      /\ Position(s) = load.plen[req[s]] + nout[req[s]] /\ Position(s) \in 1 .. MaxPos
      /\ s \in Decoding => Position(s) = pos[s] + 1
      /\ s \in Prefilling => Position(s) = load.plen[req[s]]
  BY <1>1, <1>2, Emitters
<1>4. /\ Occupied = Decoding \union Prefilling /\ Decoding \intersect Prefilling = {}
      /\ Occupied \subseteq Slots /\ MaxPos \in Nat
      /\ Limit[req[s]] = load.plen[req[s]] + nout[req[s]]
      /\ \A u \in Slots : pref[u] \in Nat /\ pos[u] \in Nat
  BY <1>1, <1>3, Parts, Types
<1>5. s \in Prefilling => Position(s) - 1 < pref[s]
  <2> SUFFICES ASSUME s \in Prefilling PROVE Position(s) - 1 < pref[s]
    OBVIOUS
  <2>1. [slot |-> s, pos |-> load.plen[req[s]] - 1] \in cols
    BY <1>2, <1>4 DEF Emitting
  <2> QED
    BY <1>1, <1>3, <1>4, <2>1 DEF ColsInv
<1>6. Position(s) - 1 \in 0 .. MaxPos - 1 /\ (Position(s) - 1) + 1 = Position(s)
  BY <1>3, <1>4
<1>7. s \in Decoding => Position(s) - 1 = pos[s]
  BY <1>2, <1>3, <1>4
<1>8. ~gate.scalar => 0 .. Position(s) - 1 \subseteq hist[req[s]]
  <2>1. CASE s \in Decoding
    BY <1>1, <1>7, <2>1 DEF HistInv
  <2>2. CASE s \in Prefilling
    BY <1>1, <1>3, <2>2 DEF HistInv
  <2> QED
    BY <1>2, <1>3, <1>4, <2>1, <2>2
<1>9. s \notin Prefilling => Position(s) = Computed(s)
  BY <1>2, <1>3, <1>4 DEF Computed
<1>10. req[s] \in InSlots
  BY <1>2, <1>3 DEF InSlots
<1> QED
  BY <1>2, <1>3, <1>4, <1>5, <1>6, <1>7, <1>8, <1>9, <1>10 DEF s

\* The row of the first tier, and the lane of its request after it: exact when
\* the lane and its slot agreed.
LEMMA AloneRows ==
    ASSUME VInv, pc = "emit", todo # {}, NEW s, s = First, NEW p, p = Position(s) - 1,
           NEW row, row = AloneRow(s, req[s], p), NEW own, own = Extend(tier, req[s], p, row)
    PROVE  /\ row \in Unit /\ Of(row, req[s], {0})
           /\ PoolInv(own, {0, Weights})
           /\ \E rows \in Seq(Unit) :
                /\ Placed(tier, own, req[s], rows) /\ Len(rows) <= p + 1
                /\ Held(own, req[s]) = rows
                /\ CopiedBack =>
                     \A q \in 1 .. Len(rows) :
                       /\ rows[q].exact
                       /\ (q - 1 = p => row.exact) /\ (q - 1 # p => kv[s][q - 1].exact)
<1>1. /\ s \in Emitting /\ s \in Occupied /\ s \in Slots
      /\ req[s] \in Reqs /\ req[s] < qhead /\ req[s] \in InSlots
      /\ p \in Nat /\ p + 1 = Limit[req[s]]
  BY TheColumn
<1>2. /\ TypeOK /\ VerifyInv /\ ExactInv
  BY DEF VInv, SInv
<1>3. Limit \in [Reqs -> Nat] /\ run \in Int /\ req[s] \in Int
  BY <1>1, <1>2, Types
<1>4. PoolRows(tier, {0, Weights}, qhead, Limit, run, InSlots) /\ PoolType(tier)
  BY <1>2 DEF VerifyInv, PoolInv, PoolRows
<1>5. row = [run |-> run, req |-> req[s], w |-> 0,
             exact |-> Weights = 0 /\ \A q \in 0 .. p - 1 : kv[s][q].exact]
  BY DEF AloneRow, Row
<1>6. row \in Unit /\ Of(row, req[s], {0})
  <2> DEFINE e == Weights = 0 /\ \A q \in 0 .. p - 1 : kv[s][q].exact
  <2>1. e \in BOOLEAN /\ row = [run |-> run, req |-> req[s], w |-> 0, exact |-> e]
    BY <1>5
  <2> HIDE DEF e
  <2> QED
    BY <1>3, <2>1 DEF Unit, Of
<1> DEFINE old == Held(tier, req[s])
           rows == IF Len(old) = p THEN Append(old, row) ELSE old
<1>7. Placed(tier, own, req[s], rows)
  BY <1>1, <1>4, <1>6, Extended
<1>8. /\ old \in Seq(Unit) /\ Len(old) \in Nat
      /\ Len(old) <= p + 1
      /\ \A q \in 1 .. Len(old) : Of(old[q], req[s], {0, Weights})
  <2>1. old \in Seq(Unit) /\ Len(old) \in Nat
    BY <1>1, <1>4, HeldType
  <2>2. /\ Len(old) <= Limit[req[s]]
        /\ \A q \in 1 .. Len(old) :
             old[q].run = run /\ old[q].req = req[s] /\ old[q].w \in {0, Weights}
    <3> HIDE DEF rows
    <3>0. PICK ws : ws = {0, Weights}
      OBVIOUS
    <3>1. PICK limit \in [Reqs -> Nat], r \in Reqs : limit = Limit /\ r = req[s]
      BY <1>1, <1>3
    <3>2. PoolRows(tier, ws, qhead, limit, run, InSlots) /\ r \in InSlots
      BY <1>1, <1>4, <3>0, <3>1
    <3>3. /\ Len(Held(tier, r)) <= limit[r]
          /\ \A q \in 1 .. Len(Held(tier, r)) :
               /\ Held(tier, r)[q].run = run /\ Held(tier, r)[q].req = r
               /\ Held(tier, r)[q].w \in ws
      BY <3>2, HeldRows
    <3> QED
      BY <3>0, <3>1, <3>3
  <2> QED
    BY <1>1, <2>1, <2>2 DEF Of
<1> HIDE DEF old
<1>9. /\ rows \in Seq(Unit) /\ Len(rows) \in Nat /\ Len(rows) <= p + 1
      /\ \A q \in 1 .. Len(rows) :
           \/ q <= Len(old) /\ rows[q] = old[q]
           \/ q = Len(old) + 1 /\ Len(old) = p /\ rows[q] = row
  <2>1. CASE Len(old) = p
    <3>1. /\ Append(old, row) \in Seq(Unit) /\ Len(Append(old, row)) = Len(old) + 1
          /\ \A i \in 1 .. Len(old) : Append(old, row)[i] = old[i]
          /\ Append(old, row)[Len(old) + 1] = row
      BY <1>6, <1>8, AppendProperties
    <3>2. rows = Append(old, row)
      BY <2>1
    <3> HIDE DEF rows
    <3> QED
      BY <1>1, <1>8, <2>1, <3>1, <3>2
  <2>2. CASE Len(old) # p
    <3>1. rows = old
      BY <2>2
    <3> HIDE DEF rows
    <3> QED
      BY <1>8, <3>1
  <2> QED
    BY <2>1, <2>2
<1> HIDE DEF rows
<1>10. PoolInv(own, {0, Weights})
  <2>1. \A q \in 1 .. Len(rows) :
          rows[q].run = run /\ rows[q].req = req[s] /\ rows[q].w \in {0, Weights}
    <3> TAKE q \in 1 .. Len(rows)
    <3>1. CASE q <= Len(old) /\ rows[q] = old[q]
      <4>1. q \in 1 .. Len(old)
        BY <1>8, <1>9, <3>1
      <4> QED
        BY <1>8, <3>1, <4>1 DEF Of
    <3>2. CASE rows[q] = row
      BY <1>6, <3>2 DEF Of
    <3> QED
      BY <1>9, <3>1, <3>2
  <2>2. Len(rows) <= Limit[req[s]]
    BY <1>1, <1>9
  <2>3. PoolRows(own, {0, Weights}, qhead, Limit, run, InSlots)
    BY <1>1, <1>4, <1>7, <1>9, <2>1, <2>2, PlacedRows
  <2> QED
    BY <2>3 DEF PoolInv
<1>11. Held(own, req[s]) = rows
  BY <1>1, <1>7, TheLane DEF Placed
<1>12. ASSUME CopiedBack
       PROVE  \A q \in 1 .. Len(rows) :
                rows[q].exact /\ (q - 1 = p => row.exact) /\ (q - 1 # p => kv[s][q - 1].exact)
  <2>1. \A q \in 1 .. Len(old) : old[q].exact
    BY <1>1, <1>2, <1>4, <1>12, HeldExact DEF ExactInv, old
  <2>2. \A q \in 1 .. Len(old) : kv[s][q - 1].exact
    <3>1. CASE LanesOf(tier, req[s]) = {}
      BY <3>1, EmptySeq DEF old, Held
    <3>2. CASE LanesOf(tier, req[s]) # {}
      <4>1. PICK i \in Lane : tier.req[i] = req[s]
        BY <3>2 DEF LanesOf
      <4>2. old = tier.rows[i]
        BY <1>1, <1>4, <4>1, TheLane DEF old
      <4>3. Agrees(s, i)
        BY <1>1, <1>2, <1>12, <4>1 DEF ExactInv
      <4> QED
        BY <4>2, <4>3 DEF Agrees
    <3> QED
      BY <3>1, <3>2
  <2>3. p <= Len(old) => row.exact
    <3> DEFINE E == \A q \in 0 .. p - 1 : kv[s][q].exact
    <3>0. row.exact = (Weights = 0 /\ E) /\ Weights = 0
      BY <1>5, <1>12 DEF CopiedBack
    <3> SUFFICES ASSUME p <= Len(old) PROVE E
      BY <3>0
    <3> TAKE q \in 0 .. p - 1
    <3>1. q + 1 \in 1 .. Len(old) /\ (q + 1) - 1 = q
      BY <1>1, <1>8
    <3>2. kv[s][(q + 1) - 1].exact
      BY <2>2, <3>1
    <3> QED
      BY <3>1, <3>2
  <2> TAKE q \in 1 .. Len(rows)
  <2>4. CASE q <= Len(old) /\ rows[q] = old[q]
    <3>1. q \in 1 .. Len(old)
      BY <1>8, <1>9, <2>4
    <3>2. q - 1 = p => p <= Len(old)
      BY <1>1, <1>8, <3>1
    <3> QED
      BY <2>1, <2>2, <2>3, <2>4, <3>1, <3>2
  <2>5. CASE q = Len(old) + 1 /\ Len(old) = p /\ rows[q] = row
    <3>1. q - 1 = p /\ p <= Len(old)
      BY <1>1, <1>8, <2>5
    <3> QED
      BY <2>3, <2>5, <3>1
  <2> QED
    BY <1>9, <2>4, <2>5
<1> QED
  BY <1>6, <1>7, <1>9, <1>10, <1>11, <1>12

\* A lane written twice is as if written once.
LEMMA PlacedTwice ==
    ASSUME NEW pool, NEW own, NEW again, NEW r \in Reqs, NEW rows, NEW later,
           Placed(pool, own, r, rows), Placed(own, again, r, later)
    PROVE  Placed(pool, again, r, later)
<1>1. PICK l \in Lane :
        /\ own.req[l] = r
        /\ \A i \in Lane \ {l} : own.req[i] = pool.req[i] /\ own.rows[i] = pool.rows[i]
  BY DEF Placed
<1>2. PICK k \in Lane :
        /\ again.req[k] = r /\ again.rows[k] = later
        /\ \A i \in Lane \ {k} : again.req[i] = own.req[i] /\ again.rows[i] = own.rows[i]
  BY DEF Placed
<1>3. k = l
  <2>1. \A i, j \in Lane : again.req[i] \in Reqs /\ again.req[i] = again.req[j] => i = j
    BY DEF Placed, PoolType
  <2> QED
    BY <1>1, <1>2, <2>1
<1> QED
  BY <1>1, <1>2, <1>3 DEF Placed

\* A tier replaces rows of the slot, up to the column, and the lane of its
\* request.
LEMMA TierStep ==
    ASSUME VInv, pc = "emit", todo # {}, NEW s, s = First, NEW p, p = Position(s) - 1,
           gate.tier > 0,
           UNCHANGED <<gate, pc, run, load, nout, active, req, pref, pos, qhead, cols, epoch>>,
           hist' = hist, near' = near, todo' = todo,
           kv' \in [Slots -> [0 .. MaxPos - 1 -> Unit]],
           \A u \in Slots \ {s} : kv'[u] = kv[u],
           \A q \in 0 .. MaxPos - 1 : \/ kv'[s][q] = kv[s][q]
                                      \/ q <= p /\ Of(kv'[s][q], req[s], {0, Weights}),
           PoolInv(tier', {0, Weights}),
           NEW rows \in Seq(Unit), Placed(tier, tier', req[s], rows), Len(rows) <= p + 1,
           CopiedBack => \A q \in 1 .. Len(rows) : rows[q].exact /\ kv'[s][q - 1].exact
    PROVE  KvInv' /\ VerifyInv' /\ HistInv' /\ ExactInv'
<1>1. /\ Occupied' = Occupied /\ Decoding' = Decoding /\ Prefilling' = Prefilling
      /\ Emitting' = Emitting /\ Weights' = Weights /\ AnyWeights' = AnyWeights
      /\ Limit' = Limit /\ InSlots' = InSlots /\ CopiedBack' = CopiedBack
  BY DEF Occupied, Free, Decoding, Prefilling, Emitting, Weights, AnyWeights, Limit, InSlots,
         CopiedBack
<1>2. /\ TypeOK /\ SlotsInv /\ KvInv /\ VerifyInv /\ HistInv /\ ExactInv
  BY DEF VInv, SInv
<1>3. /\ s \in Emitting /\ s \in Occupied /\ s \in Slots /\ req[s] \in Reqs /\ p \in 0 .. MaxPos - 1
      /\ s \in Prefilling => p + 1 = load.plen[req[s]]
      /\ s \notin Prefilling => p + 1 = Computed(s)
  BY TheColumn
<1>4. \A u : Computed(u)' = Computed(u)
  BY <1>1 DEF Computed
<1>5. KvInv'
  <2>1. ASSUME NEW u \in Occupied, NEW q \in 0 .. MaxPos - 1, q < Computed(u)
        PROVE  Of(kv'[u][q], req[u], AnyWeights)
    <3>1. Of(kv[u][q], req[u], AnyWeights)
      BY <1>2, <2>1 DEF KvInv
    <3>2. CASE kv'[u][q] = kv[u][q]
      BY <3>1, <3>2
    <3>3. CASE u = s /\ Of(kv'[s][q], req[s], {0, Weights})
      BY <3>3 DEF Of, AnyWeights
    <3>4. u \in Slots
      BY DEF Occupied
    <3> QED
      BY <3>2, <3>3, <3>4
  <2>2. \A u \in Occupied' : \A q \in 0 .. MaxPos - 1 :
          q < Computed(u)' => Of(kv'[u][q], req[u], AnyWeights)
    BY <1>1, <1>4, <2>1
  <2>3. \A u, q : Of(kv[u][q], req[u], AnyWeights)' <=> Of(kv'[u][q], req[u], AnyWeights)
    BY <1>1 DEF Of
  <2> QED
    BY <2>2, <2>3 DEF KvInv
<1>6. VerifyInv'
  <2>1. ~ gate.gpu
    BY <1>2, GateFacts
  <2>2. PoolInv(tier, {0, Weights})' /\ PoolInv(near, {Hi})'
    BY <1>1, <1>2 DEF VerifyInv, PoolInv
  <2>3. todo' # {} => pc' = "emit" /\ todo' \subseteq Emitting'
    BY <1>1, <1>2 DEF VerifyInv
  <2> QED
    BY <2>1, <2>2, <2>3 DEF VerifyInv
<1>7. HistInv'
  BY <1>1, <1>2 DEF HistInv
<1>8. ExactInv'
  <2>1. ASSUME CopiedBack PROVE ExactPool(tier')
    <3>1. ExactPool(tier)
      BY <1>2, <2>1 DEF ExactInv
    <3> QED
      BY <2>1, <3>1, PlacedExact
  <2>2. ASSUME CopiedBack, NEW u \in Occupied, NEW i \in Lane, tier'.req[i] = req[u]
        PROVE  Agrees(u, i)'
    <3>1. PICK l \in Lane :
            /\ tier'.req[l] = req[s] /\ tier'.rows[l] = rows
            /\ \A j \in Lane \ {l} : tier'.req[j] = tier.req[j] /\ tier'.rows[j] = tier.rows[j]
      BY DEF Placed
    <3>2. CASE u = s
      <4>1. i = l
        BY <1>3, <2>2, <3>1, <3>2 DEF Placed, PoolType
      <4>2. Len(rows) <= IF s \in Prefilling THEN load.plen[req[s]] ELSE Computed(s)
        BY <1>3
      <4> QED
        BY <1>1, <1>3, <1>4, <2>2, <3>1, <3>2, <4>1, <4>2 DEF Agrees
    <3>3. CASE u # s
      <4>1. i # l
        BY <1>2, <1>3, <2>2, <3>1, <3>3 DEF SlotsInv
      <4>2. tier.req[i] = req[u] /\ tier'.rows[i] = tier.rows[i] /\ kv'[u] = kv[u]
        BY <2>2, <3>1, <3>3, <4>1 DEF Occupied
      <4>3. Agrees(u, i)
        BY <1>2, <2>2, <4>2 DEF ExactInv
      <4> QED
        BY <1>1, <1>4, <4>2, <4>3 DEF Agrees
    <3> QED
      BY <3>2, <3>3
  <2>3. ~gate.scalar => ExactPool(near)
    BY <1>2 DEF ExactInv
  <2>4. ~gate'.scalar => ExactPool(near)'
    BY <2>3 DEF ExactPool
  <2>5. CopiedBack' => ExactPool(tier)'
    BY <1>1, <2>1 DEF ExactPool
  <2> QED
    BY <1>1, <2>2, <2>4, <2>5 DEF ExactInv
<1> QED
  BY <1>5, <1>6, <1>7, <1>8

\* The first and the second tier.
LEMMA ReverifyContext ==
    ASSUME VInv, Reverify
    PROVE  KvInv' /\ VerifyInv' /\ HistInv' /\ ExactInv'
<1> DEFINE s == First
           p == Position(s) - 1
           row == AloneRow(s, req[s], p)
           own == Extend(tier, req[s], p, row)
<1>1. /\ pc = "emit" /\ todo # {}
      /\ UNCHANGED <<gate, pc, run, load, nout, active, req, pref, pos, qhead, cols, epoch>>
      /\ hist' = hist /\ near' = near /\ todo' = todo
  BY DEF Reverify, table, slots, txn
<1>2. \/ UNCHANGED <<kv, tier>>
      \/ gate.tier > 0 /\ (FirstTier(s, req[s], p) \/ SecondTier(s, req[s], p))
  BY DEF Reverify
<1> HIDE DEF s
<1>3. s = First
  BY DEF s
<1> HIDE DEF p, row, own
<1>4. p = Position(s) - 1 /\ row = AloneRow(s, req[s], p) /\ own = Extend(tier, req[s], p, row)
  BY DEF p, row, own
<1>5. /\ s \in Slots /\ req[s] \in Reqs /\ req[s] < qhead /\ req[s] \in InSlots
      /\ p \in 0 .. MaxPos - 1 /\ p + 1 = Limit[req[s]]
      /\ ~gate.scalar => 0 .. p \subseteq hist[req[s]]
  BY <1>1, <1>3, <1>4, TheColumn
<1>6. row \in Unit /\ Of(row, req[s], {0}) /\ PoolInv(own, {0, Weights})
  BY <1>1, <1>3, <1>4, AloneRows
<1>7. PICK rows \in Seq(Unit) :
        /\ Placed(tier, own, req[s], rows) /\ Len(rows) <= p + 1
        /\ Held(own, req[s]) = rows
        /\ CopiedBack =>
             \A q \in 1 .. Len(rows) :
               rows[q].exact /\ (q - 1 = p => row.exact) /\ (q - 1 # p => kv[s][q - 1].exact)
  BY <1>1, <1>3, <1>4, AloneRows
<1>8. TypeOK /\ kv \in [Slots -> [0 .. MaxPos - 1 -> Unit]]
  BY DEF VInv, SInv, KvInv
<1>9. /\ Limit \in [Reqs -> Nat] /\ Weights \in Int /\ MaxPos \in Nat /\ Len(rows) \in Nat
  <2>1. Len(rows) \in Nat
    BY LenProperties
  <2>2. Limit \in [Reqs -> Nat] /\ Weights \in Int /\ MaxPos \in Nat
    BY <1>8, Types
  <2> QED
    BY <2>1, <2>2
<1>10. CASE UNCHANGED <<kv, tier>>
  BY <1>1, <1>10, StillStep
<1>11. CASE gate.tier > 0 /\ FirstTier(s, req[s], p)
  <2>1. kv' = [kv EXCEPT ![s][p] = row] /\ tier' = own
    BY <1>4, <1>11 DEF FirstTier
  <2>2. kv' \in [Slots -> [0 .. MaxPos - 1 -> Unit]]
    BY <1>5, <1>6, <1>8, <2>1
  <2>3. /\ \A u \in Slots \ {s} : kv'[u] = kv[u]
        /\ \A q \in 0 .. MaxPos - 1 : kv'[s][q] = IF q = p THEN row ELSE kv[s][q]
    BY <1>5, <1>8, <2>1
  <2>4. Of(row, req[s], {0, Weights})
    BY <1>6 DEF Of
  <2>5. \A q \in 0 .. MaxPos - 1 : \/ kv'[s][q] = kv[s][q]
                                   \/ q <= p /\ Of(kv'[s][q], req[s], {0, Weights})
    BY <1>5, <2>3, <2>4
  <2>6. CopiedBack => \A q \in 1 .. Len(rows) : rows[q].exact /\ kv'[s][q - 1].exact
    <3> SUFFICES ASSUME CopiedBack, NEW q \in 1 .. Len(rows)
                 PROVE  rows[q].exact /\ kv'[s][q - 1].exact
      OBVIOUS
    <3>1. q - 1 \in 0 .. MaxPos - 1
      BY <1>5, <1>7, <1>9
    <3> QED
      BY <1>7, <2>3, <3>1
  <2>7. PoolInv(tier', {0, Weights}) /\ Placed(tier, tier', req[s], rows) /\ Len(rows) <= p + 1
    BY <1>6, <1>7, <2>1
  <2> QED
    BY <1>1, <1>3, <1>4, <1>11, <2>2, <2>3, <2>5, <2>6, <2>7, TierStep
<1>12. CASE gate.tier > 0 /\ SecondTier(s, req[s], p)
  <2> DEFINE again == Replayed(own, req[s], p, Weights)
  <2>1. /\ gate.tier = 2 /\ tier' = again
        /\ kv' = [kv EXCEPT ![s] = [q \in 0 .. MaxPos - 1 |->
                    IF gate.resync /\ q <= p THEN RowsOf(again, req[s])[q + 1]
                    ELSE IF q = p THEN row ELSE kv[s][q]]]
    BY <1>4, <1>12 DEF SecondTier
  <2>2. PoolRows(own, {0, Weights}, qhead, Limit, run, InSlots)
    BY <1>6 DEF PoolInv
  <2>3. /\ PoolRows(again, {0, Weights}, qhead, Limit, run, InSlots)
        /\ Refilled(own, again, req[s], p, {0, Weights})
    <3>0. PICK ws : ws = {0, Weights}
      OBVIOUS
    <3>1. PICK limit \in [Reqs -> Nat], r \in Reqs, w \in Int, n \in Nat :
            limit = Limit /\ r = req[s] /\ w = Weights /\ n = p
      BY <1>5, <1>9
    <3>2. /\ PoolRows(own, ws, qhead, limit, run, InSlots) /\ r \in InSlots /\ r < qhead
          /\ n + 1 <= limit[r] /\ w \in ws
      BY <1>5, <1>9, <2>2, <3>0, <3>1
    <3>3. /\ PoolRows(Replayed(own, r, n, w), ws, qhead, limit, run, InSlots)
          /\ Refilled(own, Replayed(own, r, n, w), r, n, ws)
      BY <1>8, <3>2, ReplayedRows
    <3> QED
      BY <3>0, <3>1, <3>3
  <2> HIDE DEF again
  <2>4. PICK later \in Seq(Unit) :
          /\ Placed(own, again, req[s], later)
          /\ RowsOf(again, req[s]) = later /\ Len(later) = p + 1
          /\ \A q \in 1 .. p + 1 : Of(later[q], req[s], {0, Weights})
          /\ (\A q \in 1 .. Len(Held(own, req[s])) : Held(own, req[s])[q].exact)
             /\ 0 .. p \subseteq hist[req[s]] => \A q \in 1 .. p + 1 : later[q].exact
    BY <2>3 DEF Refilled
  <2>5. Placed(tier, again, req[s], later)
    BY <1>5, <1>7, <2>4, PlacedTwice
  <2>6. /\ \A u \in Slots \ {s} : kv'[u] = kv[u]
        /\ \A q \in 0 .. MaxPos - 1 : kv'[s][q] = IF gate.resync /\ q <= p THEN later[q + 1]
                                                  ELSE IF q = p THEN row ELSE kv[s][q]
    BY <1>5, <1>8, <2>1, <2>4
  <2>7. \A q \in 0 .. MaxPos - 1 : q <= p => q + 1 \in 1 .. p + 1
    BY <1>5
  <2>8. \A q \in 1 .. p + 1 : later[q] \in Unit
    BY <2>4, ElementOfSeq
  <2>9. kv' \in [Slots -> [0 .. MaxPos - 1 -> Unit]]
    <3> DEFINE new == [q \in 0 .. MaxPos - 1 |->
                         IF gate.resync /\ q <= p THEN later[q + 1]
                         ELSE IF q = p THEN row ELSE kv[s][q]]
    <3>1. new \in [0 .. MaxPos - 1 -> Unit]
      BY <1>5, <1>6, <1>8, <2>7, <2>8
    <3>2. kv' = [kv EXCEPT ![s] = new]
      BY <2>1, <2>4
    <3> HIDE DEF new
    <3> QED
      BY <1>5, <1>8, <3>1, <3>2
  <2>10. ASSUME NEW q \in 0 .. MaxPos - 1
         PROVE  \/ kv'[s][q] = kv[s][q]
                \/ q <= p /\ Of(kv'[s][q], req[s], {0, Weights})
    <3>1. CASE gate.resync /\ q <= p
      BY <2>4, <2>6, <2>7, <3>1
    <3>2. CASE ~ (gate.resync /\ q <= p) /\ q = p
      <4>1. kv'[s][q] = row
        BY <2>6, <3>2
      <4>2. q <= p
        BY <1>5, <3>2
      <4> QED
        BY <1>6, <4>1, <4>2 DEF Of
    <3>3. CASE ~ (gate.resync /\ q <= p) /\ q # p
      BY <2>6, <3>3
    <3> QED
      BY <3>1, <3>2, <3>3
  <2>11. CopiedBack => \A q \in 1 .. Len(later) : later[q].exact /\ kv'[s][q - 1].exact
    <3> SUFFICES ASSUME CopiedBack, NEW q \in 1 .. p + 1
                 PROVE  later[q].exact /\ kv'[s][q - 1].exact
      BY <2>4
    <3>1. gate.resync /\ ~ gate.scalar
      BY <2>1 DEF CopiedBack
    <3>2. later[q].exact
      BY <1>5, <1>7, <2>4, <3>1
    <3>3. q - 1 \in 0 .. MaxPos - 1 /\ q - 1 <= p /\ (q - 1) + 1 = q
      BY <1>5, <1>9
    <3>4. kv'[s][q - 1] = later[q]
      BY <2>6, <3>1, <3>3
    <3> QED
      BY <3>2, <3>4
  <2>12. PoolInv(tier', {0, Weights})
    BY <2>1, <2>3 DEF PoolInv, again
  <2>13. Placed(tier, tier', req[s], later) /\ Len(later) <= p + 1
    BY <1>5, <2>1, <2>4, <2>5 DEF again
  <2> QED
    BY <1>1, <1>3, <1>4, <1>12, <2>6, <2>9, <2>10, <2>11, <2>12, <2>13, TierStep
<1> QED
  BY <1>2, <1>10, <1>11, <1>12

\* The replay of a near tie.
LEMMA CorrectContext ==
    ASSUME VInv, Correct
    PROVE  KvInv' /\ VerifyInv' /\ HistInv' /\ ExactInv'
<1> DEFINE s == First
           p == Position(s) - 1
<1>1. /\ pc = "emit" /\ todo # {} /\ todo' = todo \ {s} /\ hist' = hist /\ tier' = tier
      /\ UNCHANGED <<gate, pc, run, load, nout, active, req, pref, pos, qhead, cols, kv, epoch>>
  BY DEF Correct, vars, table, slots, txn
<1>2. \/ near' = near
      \/ gate.near /\ near' = Replayed(near, req[s], p, Hi)
  BY DEF Correct
<1>3. /\ s \in Slots /\ req[s] \in Reqs /\ req[s] < qhead /\ req[s] \in InSlots
      /\ p \in 0 .. MaxPos - 1 /\ p + 1 = Limit[req[s]]
      /\ ~gate.scalar => 0 .. p \subseteq hist[req[s]]
  BY <1>1, TheColumn
<1> HIDE DEF s, p
<1>4. TypeOK /\ VerifyInv /\ ExactInv
  BY DEF VInv, SInv
<1>5. CASE near' = near
  BY <1>1, <1>5, StillStep
<1>6. CASE gate.near /\ near' = Replayed(near, req[s], p, Hi)
  <2>1. /\ PoolRows(near', {Hi}, qhead, Limit, run, InSlots)
        /\ Refilled(near, near', req[s], p, {Hi})
    <3>1. PICK limit \in [Reqs -> Nat], r \in Reqs, w \in Int, n \in Nat :
            limit = Limit /\ r = req[s] /\ w = Hi /\ n = p
      BY <1>3, <1>4, Types DEF Hi
    <3>2. PICK ws : ws = {Hi}
      OBVIOUS
    <3>3. /\ PoolRows(near, ws, qhead, limit, run, InSlots) /\ r \in InSlots /\ r < qhead
          /\ n + 1 <= limit[r] /\ w \in ws
      BY <1>3, <1>4, <3>1, <3>2 DEF VerifyInv, PoolInv
    <3>4. /\ PoolRows(Replayed(near, r, n, w), ws, qhead, limit, run, InSlots)
          /\ Refilled(near, Replayed(near, r, n, w), r, n, ws)
      BY <1>4, <3>3, ReplayedRows
    <3> QED
      BY <1>6, <3>1, <3>2, <3>4
  <2>2. ASSUME ~gate.scalar PROVE ExactPool(near')
    <3>1. ExactPool(near) /\ PoolType(near)
      BY <1>4, <2>2 DEF ExactInv, VerifyInv, PoolInv, PoolRows
    <3>2. \A q \in 1 .. Len(Held(near, req[s])) : Held(near, req[s])[q].exact
      BY <1>3, <3>1, HeldExact
    <3>3. PICK rows \in Seq(Unit) :
            /\ Placed(near, near', req[s], rows) /\ Len(rows) = p + 1
            /\ \A q \in 1 .. p + 1 : rows[q].exact
      BY <1>3, <2>1, <2>2, <3>2 DEF Refilled
    <3>4. \A q \in 1 .. Len(rows) : rows[q].exact
      BY <3>3
    <3> QED
      BY <3>1, <3>3, <3>4, PlacedExact
  <2>3. ~ gate.gpu
    BY <1>4, <1>6, GateFacts
  <2> QED
    BY <1>1, <2>1, <2>2, <2>3, StillStep DEF PoolInv
<1> QED
  BY <1>2, <1>5, <1>6

-----------------------------------------------------------------------------
(* The invariant.                                                          *)

LEMMA InitContext == ASSUME VInit PROVE VInv
<1>1. SInv
  BY InitStep DEF VInit
<1>2. Occupied = {} /\ Decoding = {} /\ Prefilling = {}
  BY DEF VInit, Init, Occupied, Free, Decoding, Prefilling
<1>3. tier = EmptyPool /\ near = EmptyPool /\ todo = {} /\ kv = ClearedKv
  BY DEF VInit, Init
<1>4. KvInv
  <2>1. Unwritten \in Unit
    BY DEF Unwritten, Unit
  <2>2. ClearedKv \in [Slots -> [0 .. MaxPos - 1 -> Unit]]
    BY <2>1 DEF ClearedKv
  <2> QED
    BY <1>2, <1>3, <2>2 DEF KvInv
<1>5. VerifyInv
  BY <1>3, EmptyRows DEF VerifyInv, PoolInv
<1>6. HistInv
  BY <1>2 DEF HistInv
<1>7. ExactInv
  BY <1>2, <1>3, EmptyRows DEF ExactInv
<1> QED
  BY <1>1, <1>4, <1>5, <1>6, <1>7 DEF VInv

\* Every step keeps it.
LEMMA VInvStep == ASSUME VInv, [VNext]_vvars PROVE VInv'
<1>1. SInv'
  BY Steps, SInvStep DEF VInv
<1> SUFFICES KvInv' /\ VerifyInv' /\ HistInv' /\ ExactInv'
  BY <1>1 DEF VInv
<1>2. ASSUME UNCHANGED <<gate, run, load, nout, active, req, pref, pos, qhead, cols, kv, epoch>>,
             pc' = "emit" <=> pc = "emit", UNCHANGED verify
      PROVE  KvInv' /\ VerifyInv' /\ HistInv' /\ ExactInv'
  BY <1>2, StillStep DEF verify
<1>3. CASE (Ask \/ Poll) /\ UNCHANGED verify
  BY <1>2, <1>3 DEF Ask, Poll, table, slots
<1>4. CASE (Boundary \/ Finish) /\ UNCHANGED verify
  BY <1>1, <1>4, ChangeStep
<1>5. CASE \E w \in Workloads : VBegin(w)
  BY <1>1, <1>5, BeginContext DEF VBegin
<1>6. CASE VAdmit
  BY <1>1, <1>6, AdmitContext
<1>7. CASE VDispatch
  BY <1>1, <1>7, DispatchContext
<1>8. CASE Reverify
  BY <1>8, ReverifyContext
<1>9. CASE Correct
  BY <1>9, CorrectContext
<1>10. CASE VEmit
  BY <1>1, <1>10, EmitContext
<1>11. CASE UNCHANGED vvars
  <2>1. UNCHANGED <<gate, run, load, nout, active, req, pref, pos, qhead, cols, kv, epoch, pc>>
        /\ UNCHANGED verify
    BY <1>11 DEF vvars, vars, table, slots, txn
  <2> QED
    BY <1>2, <2>1
<1> QED
  BY <1>3, <1>4, <1>5, <1>6, <1>7, <1>8, <1>9, <1>10, <1>11 DEF VNext, VScheduler

\* The contexts are right always.
LEMMA ContextInvariance == VSpec => []VInv
<1>1. VInit => VInv
  BY InitContext
<1>2. VInv /\ [VNext]_vvars => VInv'
  BY VInvStep
<1> QED
  BY <1>1, <1>2, PTL DEF VSpec

\* Every column attends only to rows of its own request, of this pass, computed
\* with the weights in force or by the scalar step: what a lane held before, for
\* another request or with other weights, is never read.
THEOREM ColumnsAttendToTheirOwn == VSpec => []AttendsOwnContext
<1>1. ASSUME VInv PROVE AttendsOwnContext
  <2> SUFFICES ASSUME pc = "emit", NEW c \in cols, NEW p \in 0 .. c.pos
               PROVE  Of(kv[c.slot][p], req[c.slot], AnyWeights)
    BY DEF AttendsOwnContext, Of, AnyWeights
  <2>1. TypeOK /\ ColsInv /\ KvInv
    BY <1>1 DEF VInv, SInv
  <2>2. /\ Occupied = Decoding \union Prefilling /\ Decoding \intersect Prefilling = {}
        /\ Occupied \subseteq Slots /\ MaxPos \in Nat
        /\ \A s \in Slots : pref[s] \in Nat /\ pos[s] \in Nat
    BY <2>1, Parts, Types
  <2>3. c.pos \in 0 .. MaxPos - 1
    BY <2>1 DEF TypeOK
  <2>4. \/ c.slot \in Decoding /\ c.pos = pos[c.slot]
        \/ c.slot \in Prefilling /\ c.pos < pref[c.slot]
    BY <2>1 DEF ColsInv
  <2>5. c.slot \in Occupied /\ c.pos < Computed(c.slot) /\ Computed(c.slot) \in Nat
    <3>1. CASE c.slot \in Decoding /\ c.pos = pos[c.slot]
      <4>1. c.slot \notin Prefilling /\ Computed(c.slot) = pos[c.slot] + 1
        BY <2>2, <3>1 DEF Computed
      <4> QED
        BY <2>2, <3>1, <4>1
    <3>2. CASE c.slot \in Prefilling /\ c.pos < pref[c.slot]
      BY <2>2, <3>2 DEF Computed
    <3> QED
      BY <2>4, <3>1, <3>2
  <2>6. p \in 0 .. MaxPos - 1 /\ p < Computed(c.slot)
    BY <2>2, <2>3, <2>5
  <2> QED
    BY <2>1, <2>5, <2>6 DEF KvInv
<1> QED
  BY <1>1, ContextInvariance, PTL

\* The shadow lanes hold what the replays rely on: rows of their own request, no
\* more than it has reached, none older than the weights, and exact where the
\* code makes them so.
THEOREM LanesHold == VSpec => []ShadowLanesHold
<1>1. ASSUME VInv PROVE ShadowLanesHold
  <2>1. TypeOK /\ VerifyInv /\ ExactInv
    BY <1>1 DEF VInv, SInv
  <2>2. ASSUME NEW pool, NEW ws, PoolInv(pool, ws), NEW i \in 0 .. Lanes - 1
        PROVE  /\ DOMAIN pool.rows[i] = 1 .. Len(pool.rows[i])
               /\ pool.req[i] \in Reqs =>
                    /\ \A j \in 0 .. Lanes - 1 : pool.req[j] = pool.req[i] => j = i
                    /\ Len(pool.rows[i]) <= load.plen[pool.req[i]] + nout[pool.req[i]]
                    /\ \A q \in DOMAIN pool.rows[i] :
                         /\ pool.rows[i][q].req = pool.req[i]
                         /\ pool.rows[i][q].w \in ws
                            \/ \A s \in Slots \ Free : req[s] # pool.req[i]
    <3>1. PoolType(pool) /\ i \in Lane
      BY <2>2 DEF PoolInv, PoolRows, Lane
    <3>2. DOMAIN pool.rows[i] = 1 .. Len(pool.rows[i])
      <4>1. pool.rows[i] \in Seq(Unit)
        BY <3>1 DEF PoolType
      <4> QED
        BY <4>1, LenProperties
    <3>3. ASSUME pool.req[i] \in Reqs
          PROVE  /\ \A j \in 0 .. Lanes - 1 : pool.req[j] = pool.req[i] => j = i
                 /\ Len(pool.rows[i]) <= load.plen[pool.req[i]] + nout[pool.req[i]]
                 /\ \A q \in 1 .. Len(pool.rows[i]) :
                      /\ pool.rows[i][q].req = pool.req[i]
                      /\ pool.rows[i][q].w \in ws
                         \/ \A s \in Slots \ Free : req[s] # pool.req[i]
      <4>1. \A j \in 0 .. Lanes - 1 : pool.req[j] = pool.req[i] => j = i
        BY <3>1, <3>3 DEF PoolType, Lane
      <4>2. /\ Len(pool.rows[i]) <= Limit[pool.req[i]]
            /\ \A q \in 1 .. Len(pool.rows[i]) :
                 /\ pool.rows[i][q].req = pool.req[i]
                 /\ pool.rows[i][q].w \in ws \/ pool.req[i] \notin InSlots
        BY <2>2, <3>1, <3>3 DEF PoolInv, PoolRows
      <4>3. Limit[pool.req[i]] = load.plen[pool.req[i]] + nout[pool.req[i]]
        BY <2>1, <3>3, Types
      <4>4. pool.req[i] \notin InSlots => \A s \in Slots \ Free : req[s] # pool.req[i]
        BY DEF InSlots, Occupied
      <4> QED
        BY <4>1, <4>2, <4>3, <4>4
    <3> QED
      BY <3>2, <3>3
  <2>3. PoolInv(tier, {0, Weights}) /\ PoolInv(near, {Hi})
    BY <2>1 DEF VerifyInv
  <2>4. /\ ~gate.scalar => ExactPool(near)
        /\ ~gate.scalar /\ Weights = 0 /\ (gate.tier = 2 => gate.resync) => ExactPool(tier)
    BY <2>1 DEF ExactInv, CopiedBack
  <2>5. ASSUME NEW pool, NEW ws, PoolInv(pool, ws), ExactPool(pool)
        PROVE  \A i \in 0 .. Lanes - 1 : \A q \in DOMAIN pool.rows[i] : pool.rows[i][q].exact
    BY <2>2, <2>5 DEF ExactPool, Lane
  <2>6. \A i \in 0 .. Lanes - 1 : tier.req[i] \in Reqs =>
          /\ \A j \in 0 .. Lanes - 1 : tier.req[j] = tier.req[i] => j = i
          /\ Len(tier.rows[i]) <= load.plen[tier.req[i]] + nout[tier.req[i]]
          /\ \A q \in DOMAIN tier.rows[i] :
               /\ tier.rows[i][q].req = tier.req[i]
               /\ tier.rows[i][q].w \in {0, Weights}
                  \/ \A s \in Slots \ Free : req[s] # tier.req[i]
    BY <2>2, <2>3
  <2>7. \A i \in 0 .. Lanes - 1 : near.req[i] \in Reqs =>
          /\ \A j \in 0 .. Lanes - 1 : near.req[j] = near.req[i] => j = i
          /\ Len(near.rows[i]) <= load.plen[near.req[i]] + nout[near.req[i]]
          /\ \A q \in DOMAIN near.rows[i] :
               /\ near.rows[i][q].req = near.req[i]
               /\ near.rows[i][q].w \in {Hi}
                  \/ \A s \in Slots \ Free : req[s] # near.req[i]
    BY <2>2, <2>3
  <2>8. ~gate.scalar =>
          \A i \in 0 .. Lanes - 1 : \A q \in DOMAIN near.rows[i] : near.rows[i][q].exact
    BY <2>3, <2>4, <2>5
  <2>9. ~gate.scalar /\ Weights = 0 /\ (gate.tier = 2 => gate.resync) =>
          \A i \in 0 .. Lanes - 1 : \A q \in DOMAIN tier.rows[i] : tier.rows[i][q].exact
    BY <2>3, <2>4, <2>5
  <2> QED
    BY <2>6, <2>7, <2>8, <2>9 DEF ShadowLanesHold
<1> QED
  BY <1>1, ContextInvariance, PTL

=============================================================================
