--------------------------- MODULE DecodeLaneProofs ---------------------------
(***************************************************************************)
(* Proofs about DecodeModes, for every vocabulary and model, every size of *)
(* lanes, blocks, chunks and batches, and every job: what the columns of a *)
(* step see in their lanes, the inductive invariant of the program, and    *)
(* the modes that decode one sequence, or one in every lane in lockstep,   *)
(* which keep it.                                                          *)
(***************************************************************************)
EXTENDS DecodeModes, Functions, FiniteSetTheorems, SequenceTheorems, WellFoundedInduction, TLAPS

-----------------------------------------------------------------------------
(* Sets of numbers and counting.                                           *)

\* Every set of naturals that is not empty has a least element.
LEMMA LeastNumber ==
    ASSUME NEW T, T \subseteq Nat, T # {}
    PROVE  \E x \in T : \A y \in T : x <= y
<1>1. IsWellFoundedOn(OpToRel(<, Nat), Nat)
  BY NatLessThanWellFounded
<1>2. PICK x \in T : \A y \in T : <<y, x>> \notin OpToRel(<, Nat)
  BY <1>1, WFMin
<1>3. \A y \in T : ~ (y < x)
  BY <1>2 DEF OpToRel
<1> QED
  BY <1>3

\* A set that holds 0 and the successor of each of its numbers holds them all.
LEMMA Induction ==
    ASSUME NEW G, 0 \in G, \A n \in Nat : n \in G => n + 1 \in G
    PROVE  Nat \subseteq G
<1> SUFFICES ASSUME Nat \ G # {} PROVE FALSE
  OBVIOUS
<1>1. PICK x \in Nat \ G : \A y \in Nat \ G : x <= y
  BY LeastNumber
<1>2. x - 1 \in Nat /\ x - 1 \in G
  BY <1>1
<1> QED
  BY <1>1, <1>2

\* A proper part of a finite set has fewer members.
LEMMA ProperPart ==
    ASSUME NEW S, IsFiniteSet(S), NEW T \in SUBSET S, T # S
    PROVE  Cardinality(T) < Cardinality(S)
  BY FS_Subset, FS_CardinalityType

-----------------------------------------------------------------------------
(* Positions, blocks and the ring.                                         *)

LEMMA Sizes == W \in Nat /\ W # 0 /\ MaxSeq \in Nat /\ MaxSeq # 0 /\ MaxSeq % W = 0
  BY LaneAssumption

\* Division with remainder.
LEMMA Divide ==
    ASSUME NEW n \in Nat, NEW d \in Nat \ {0}
    PROVE  \E q \in Nat, r \in 0 .. d - 1 : q = n \div d /\ r = n % d /\ n = q * d + r
<1>1. n \div d \in Nat /\ n % d \in 0 .. d - 1
  OBVIOUS
<1>2. n % d = n - d * (n \div d)
  OBVIOUS
<1>3. PICK q \in Nat, r \in 0 .. d - 1 : q = n \div d /\ r = n % d /\ r = n - d * q
  BY <1>1, <1>2
<1>4. d * q = q * d /\ q * d \in Int
  BY <1>3
<1>5. n = q * d + r
  BY <1>3, <1>4
<1> QED
  BY <1>3, <1>5

LEMMA Multiples ==
    ASSUME NEW a \in Int, NEW b \in Int, NEW d \in Nat \ {0}, a < b
    PROVE  a * d + d <= b * d
<1>1. b - a - 1 \in Nat
  OBVIOUS
<1>2. (b - a - 1) * d \in Nat
  BY <1>1
<1>3. (b - a - 1) * d = b * d - a * d - d
  OBVIOUS
<1>4. a * d \in Int /\ b * d \in Int
  OBVIOUS
<1> QED
  BY <1>2, <1>3, <1>4

LEMMA QuotientIsUnique ==
    ASSUME NEW n \in Nat, NEW d \in Nat \ {0}, NEW q \in Int, NEW r \in 0 .. d - 1, n = q * d + r
    PROVE  n \div d = q /\ n % d = r
<1>1. PICK p \in Nat, s \in 0 .. d - 1 : p = n \div d /\ s = n % d /\ n = p * d + s
  BY Divide
<1>2. p * d \in Int /\ q * d \in Int
  BY <1>1
<1>3. ~ (p < q)
  <2> SUFFICES ASSUME p < q PROVE FALSE
    OBVIOUS
  <2>1. p * d + d <= q * d
    BY <1>1, Multiples
  <2> QED
    BY <2>1, <1>1, <1>2
<1>4. ~ (q < p)
  <2> SUFFICES ASSUME q < p PROVE FALSE
    OBVIOUS
  <2>1. q * d + d <= p * d
    BY <1>1, Multiples
  <2> QED
    BY <2>1, <1>1, <1>2
<1>5. p = q
  BY <1>1, <1>3, <1>4
<1>6. s = r
  BY <1>1, <1>2, <1>5
<1> QED
  BY <1>1, <1>5, <1>6

\* Fewer positions apart than the ring has, two positions have two cells.
LEMMA RingCells ==
    ASSUME NEW t \in Nat, NEW p \in Nat, t < p, p < t + Ring
    PROVE  t % Ring # p % Ring
<1> SUFFICES ASSUME t % Ring = p % Ring PROVE FALSE
  OBVIOUS
<1>0. Ring \in Nat \ {0}
  BY Sizes DEF Ring
<1>7. PICK a \in Nat, r \in 0 .. Ring - 1 : r = t % Ring /\ t = a * Ring + r
  BY <1>0, Divide
<1>8. PICK b \in Nat, s \in 0 .. Ring - 1 : s = p % Ring /\ p = b * Ring + s
  BY <1>0, Divide
<1>1. t = a * Ring + r /\ p = b * Ring + r
  BY <1>7, <1>8
<1>2. a * Ring \in Int /\ b * Ring \in Int
  BY <1>0, <1>1
<1>3. CASE a < b
  <2>1. a * Ring + Ring <= b * Ring
    BY <1>0, <1>1, <1>3, Multiples
  <2> QED
    BY <2>1, <1>0, <1>1, <1>2
<1>4. CASE b < a
  <2>1. b * Ring + Ring <= a * Ring
    BY <1>0, <1>1, <1>4, Multiples
  <2> QED
    BY <2>1, <1>0, <1>1, <1>2
<1>5. CASE a = b
  BY <1>1, <1>2, <1>5
<1> QED
  BY <1>1, <1>3, <1>4, <1>5

\* The horizon is the start of the block of the next position.
LEMMA HorizonStarts ==
    ASSUME NEW n \in Nat
    PROVE  /\ Horizon(n) \in Nat /\ Horizon(n) <= n /\ n <= Horizon(n) + W - 1
           /\ n % W \in 0 .. W - 1 /\ n \div W \in Nat
<1>1. PICK q \in Nat, r \in 0 .. W - 1 : q = n \div W /\ r = n % W /\ n = q * W + r
  BY Sizes, Divide
<1>2. q * W \in Nat
  BY <1>1, Sizes
<1>3. Horizon(n) = q * W
  BY <1>1 DEF Horizon
<1>4. q * W <= n /\ n <= q * W + W - 1
  BY <1>1, <1>2, Sizes
<1>5. PICK h \in Nat : h = q * W
  BY <1>2
<1>6. h = Horizon(n) /\ h <= n /\ n <= h + W - 1
  BY <1>3, <1>4, <1>5
<1>7. n % W \in 0 .. W - 1 /\ n \div W \in Nat
  BY <1>1, Zenon
<1>9. Horizon(n) \in Nat /\ Horizon(n) <= n /\ n <= Horizon(n) + W - 1
  BY <1>6, Zenon
<1> QED
  BY <1>7, <1>9, Zenon

LEMMA BlockOf ==
    ASSUME NEW n \in Nat, NEW i \in 0 .. W - 1
    PROVE  (Horizon(n) + i) \div W = n \div W /\ (Horizon(n) + i) % W = i
<1> DEFINE q == n \div W
           h == Horizon(n)
<1>1. q \in Nat /\ W \in Nat \ {0}
  BY HorizonStarts, Sizes
<1>2. h + i = q * W + i /\ h + i \in Nat
  BY HorizonStarts, Sizes DEF Horizon
<1> HIDE DEF q, h
<1> DEFINE m == h + i
<1>3. m \in Nat /\ m = q * W + i
  BY <1>2
<1> HIDE DEF m
<1>4. m \div W = q /\ m % W = i
  BY <1>1, <1>3, QuotientIsUnique
<1> QED
  BY <1>4 DEF q, h, m

\* A position before the horizon is in an earlier block.
LEMMA EarlierBlock ==
    ASSUME NEW n \in Nat, NEW t \in Nat, t < Horizon(n)
    PROVE  t \div W < n \div W
<1>0. PICK a \in Nat, r \in 0 .. W - 1 : a = t \div W /\ r = t % W /\ t = a * W + r
  BY Sizes, Divide
<1>1. PICK b \in Nat : b = n \div W
  BY Sizes
<1>2. PICK h \in Int : h = b * W /\ t < h
  BY <1>1, Sizes DEF Horizon
<1>3. a * W \in Int /\ b * W \in Int
  BY <1>0, <1>1, Sizes
<1>4. ~ (b < a)
  <2> SUFFICES ASSUME b < a PROVE FALSE
    OBVIOUS
  <2>1. b * W + W <= a * W
    BY <1>0, <1>1, Sizes, Multiples
  <2> QED
    BY <2>1, <1>0, <1>1, <1>2, <1>3, Sizes
<1>5. a # b
  BY <1>0, <1>1, <1>2, <1>3
<1>6. a < b
  BY <1>0, <1>1, <1>4, <1>5
<1> QED
  BY <1>0, <1>1, <1>6

\* Writing a position moves the horizon when it is the last of its block.
LEMMA HorizonMoves ==
    ASSUME NEW n \in Nat
    PROVE  /\ n % W # W - 1 => Horizon(n + 1) = Horizon(n)
           /\ n % W = W - 1 => Horizon(n + 1) = n + 1 /\ Horizon(n) = n - W + 1
<1>1. PICK q \in Nat, r \in 0 .. W - 1 : q = n \div W /\ r = n % W /\ n = q * W + r
  BY Sizes, Divide
<1>2. Horizon(n) = q * W
  BY <1>1 DEF Horizon
<1>3. q * W \in Int
  BY <1>1, Sizes
<1>4. ASSUME r # W - 1 PROVE Horizon(n + 1) = Horizon(n)
  <2>1. n + 1 = q * W + (r + 1) /\ r + 1 \in 0 .. W - 1
    BY <1>1, <1>3, <1>4, Sizes
  <2>3. PICK m \in Nat : m = n + 1
    OBVIOUS
  <2>4. PICK s \in 0 .. W - 1 : s = r + 1
    BY <2>1
  <2>5. m = q * W + s /\ W \in Nat \ {0} /\ q \in Int
    BY <2>1, <2>3, <2>4, <1>1, Sizes
  <2>2. m \div W = q
    BY <2>5, QuotientIsUnique
  <2> QED
    BY <2>2, <2>3, <1>2 DEF Horizon
<1>5. ASSUME r = W - 1 PROVE Horizon(n + 1) = n + 1 /\ Horizon(n) = n - W + 1
  <2>1. (q + 1) * W = q * W + W
    BY <1>1, Sizes
  <2>2. n + 1 = (q + 1) * W + 0 /\ 0 \in 0 .. W - 1
    BY <2>1, <1>1, <1>3, <1>5, Sizes
  <2>4. PICK m \in Nat : m = n + 1
    OBVIOUS
  <2>5. PICK k \in Nat : k = q + 1
    OBVIOUS
  <2>7. m = k * W + 0 /\ 0 \in 0 .. W - 1 /\ W \in Nat \ {0} /\ k \in Int
    BY <2>2, <2>4, <2>5, <1>1, Sizes
  <2>6. m \div W = k
    BY <2>7, QuotientIsUnique
  <2>3. (n + 1) \div W = q + 1
    BY <2>4, <2>5, <2>6
  <2> QED
    BY <2>1, <2>3, <1>1, <1>2, <1>3, <1>5, Sizes DEF Horizon
<1> QED
  BY <1>1, <1>4, <1>5

\* The tail of K is a contiguous piece of its ring.
LEMMA TailInRing ==
    ASSUME NEW n \in Nat, NEW t \in Nat, Horizon(n) <= t, t <= Horizon(n) + W - 1
    PROVE  (Horizon(n) % Ring) + (t - Horizon(n)) = t % Ring
<1> DEFINE d == t - Horizon(n)
<1>9. Ring \in Nat \ {0}
  BY Sizes DEF Ring
<1>0. Ring \in Nat \ {0} /\ Ring = 2 * W
  BY Sizes DEF Ring
<1>7. PICK h \in Nat : h = Horizon(n)
  BY HorizonStarts
<1>1. PICK a \in Nat, r \in 0 .. Ring - 1 : r = h % Ring /\ h = a * Ring + r
  BY <1>9, Divide
<1>2. r = 0 \/ r = W
  <2>1. n \div W \in Nat /\ h = (n \div W) * W
    BY <1>7, HorizonStarts DEF Horizon
  <2>2. PICK b \in Nat : h = b * W
    BY <2>1
  <2> DEFINE u == b - 2 * a
  <2>3. u \in Int /\ u * W = b * W - a * Ring
    BY <1>0, <1>1, <2>2, Sizes
  <2>4. b * W \in Int /\ a * Ring \in Int
    BY <1>0, <1>1, <2>2, Sizes
  <2>5. u * W = r
    BY <2>2, <2>3, <2>4, <1>1
  <2> HIDE DEF u
  <2>6. ~ (u < 0)
    <3> SUFFICES ASSUME u < 0 PROVE FALSE
      OBVIOUS
    <3>1. u * W + W <= 0 * W
      BY <2>3, Sizes, Multiples
    <3> QED
      BY <3>1, <2>5, <1>1, Sizes
  <2>7. ~ (1 < u)
    <3> SUFFICES ASSUME 1 < u PROVE FALSE
      OBVIOUS
    <3>1. 1 * W + W <= u * W
      BY <2>3, Sizes, Multiples
    <3> QED
      BY <3>1, <2>5, <1>0, <1>1, Sizes
  <2>8. u = 0 \/ u = 1
    BY <2>3, <2>6, <2>7
  <2> QED
    BY <2>5, <2>8, Sizes
<1>3. d \in 0 .. W - 1 /\ t = h + d
  BY <1>7, Sizes
<1> HIDE DEF d
<1>4. a * Ring \in Int
  BY <1>0, <1>1
<1>5. t = a * Ring + (r + d) /\ r + d \in 0 .. Ring - 1
  BY <1>0, <1>1, <1>2, <1>3, <1>4, Sizes
<1>6. PICK s \in 0 .. Ring - 1 : s = r + d
  BY <1>5
<1>10. t = a * Ring + s /\ a \in Int
  BY <1>1, <1>5, <1>6
<1>8. t % Ring = s
  BY <1>9, <1>10, QuotientIsUnique
<1> QED
  BY <1>1, <1>6, <1>7, <1>8 DEF d

-----------------------------------------------------------------------------
(* One lane.                                                               *)

LaneType ==
    [k : [Positions -> Rows], v : [Positions -> Rows],
     kblk : [Blocks -> [0 .. W - 1 -> Rows]],
     kstg : [Staged -> Rows], vstg : [Staged -> Rows]]

\* The lane keeps the rows of a context, where attention looks for them.
Holds(kind, lane, ctx) ==
    /\ \A t \in 0 .. Len(ctx) - 1 : lane.v[t] = SubSeq(ctx, 1, t + 1)
    /\ kind # "int4" => \A t \in 0 .. Len(ctx) - 1 : lane.k[t] = SubSeq(ctx, 1, t + 1)
    /\ kind = "int4" =>
          /\ \A t \in 0 .. Len(ctx) - 1 :
                t < Horizon(Len(ctx)) => lane.kblk[t \div W][t % W] = SubSeq(ctx, 1, t + 1)
          /\ \A t \in 0 .. Len(ctx) - 1 :
                t >= Horizon(Len(ctx)) => /\ lane.kstg[t % Ring] = SubSeq(ctx, 1, t + 1)
                                          /\ lane.vstg[t % Ring] = SubSeq(ctx, 1, t + 1)

LEMMA EmptyHolds == ASSUME NEW kind, NEW lane PROVE Holds(kind, lane, <<>>)
  BY DEF Holds

LEMMA EmptyLaneType == EmptyLane \in LaneType
<1>1. NoRow \in Rows
  BY DEF NoRow, Rows
<1> QED
  BY <1>1 DEF EmptyLane, LaneType

\* A query whose context the lane holds sees it.
LEMMA HeldIsSeen ==
    ASSUME NEW kind, NEW lane, NEW ctx \in Rows, Holds(kind, lane, ctx)
    PROVE  SeesContext(kind, lane, ctx)
<1> SUFFICES ASSUME NEW t \in 0 .. Len(ctx) - 1
             PROVE  /\ KRead(kind, lane, Len(ctx), t) = SubSeq(ctx, 1, t + 1)
                    /\ VRead(kind, lane, Len(ctx), t) = SubSeq(ctx, 1, t + 1)
  BY DEF SeesContext
<1>0. Len(ctx) \in Nat
  BY DEF Rows
<1>1. CASE kind # "int4"
  BY <1>1 DEF Holds, KRead, VRead
<1>2. CASE kind = "int4"
  <2>1. CASE t < Horizon(Len(ctx))
    BY <1>2, <2>1 DEF Holds, KRead, VRead, KReadInt4, VReadInt4
  <2>2. CASE ~ (t < Horizon(Len(ctx)))
    <3>1. Horizon(Len(ctx)) \in Nat /\ Len(ctx) <= Horizon(Len(ctx)) + W - 1
      BY <1>0, HorizonStarts
    <3>2. t \in Nat /\ Horizon(Len(ctx)) <= t /\ t <= Horizon(Len(ctx)) + W - 1
      BY <1>0, <2>2, <3>1, Sizes
    <3>3. (Horizon(Len(ctx)) % Ring) + (t - Horizon(Len(ctx))) = t % Ring
      BY <1>0, <3>2, TailInRing
    <3>4. t >= Horizon(Len(ctx))
      BY <3>1, <3>2
    <3>5. lane.kstg[t % Ring] = SubSeq(ctx, 1, t + 1) /\ lane.vstg[t % Ring] = SubSeq(ctx, 1, t + 1)
      BY <1>2, <3>4 DEF Holds
    <3> QED
      BY <1>2, <2>2, <3>3, <3>5 DEF KRead, VRead, KReadInt4, VReadInt4
  <2> QED
    BY <2>1, <2>2
<1> QED
  BY <1>1, <1>2

LEMMA PositionsAreCells ==
    ASSUME NEW p \in Positions
    PROVE  /\ p \in Nat /\ p + 1 <= MaxSeq
           /\ p \div W \in Blocks /\ p % W \in 0 .. W - 1
           /\ p % Ring \in Staged
<1>1. p \in Nat /\ p + 1 <= MaxSeq
  BY Sizes DEF Positions
<1>2. PICK q \in Nat, r \in 0 .. W - 1 : q = p \div W /\ r = p % W /\ p = q * W + r
  BY <1>1, Sizes, Divide
<1>3. PICK b \in Nat, z \in 0 .. W - 1 : b = MaxSeq \div W /\ z = MaxSeq % W /\ MaxSeq = b * W + z
  BY <1>1, Sizes, Divide
<1>4. q * W \in Int /\ b * W \in Int
  BY <1>2, <1>3, Sizes
<1>5. b * W = MaxSeq
  BY <1>3, <1>4, Sizes
<1>6. q < b
  <2> SUFFICES ASSUME ~ (q < b) PROVE FALSE
    OBVIOUS
  <2>1. CASE q = b
    BY <2>1, <1>1, <1>2, <1>4, <1>5
  <2>2. CASE b < q
    <3>1. b * W + W <= q * W
      BY <2>2, <1>2, <1>3, Sizes, Multiples
    <3> QED
      BY <3>1, <1>1, <1>2, <1>4, <1>5, Sizes
  <2> QED
    BY <2>1, <2>2, <1>2, <1>3
<1>7. q \in 0 .. b - 1
  BY <1>2, <1>3, <1>6
<1>8. p \div W \in Blocks /\ p % W \in 0 .. W - 1
  BY <1>2, <1>3, <1>7 DEF Blocks
<1>9. p % Ring \in Staged
  <2>1. Ring \in Nat \ {0}
    BY Sizes DEF Ring
  <2> QED
    BY <1>1, <2>1, Divide DEF Staged
<1> QED
  BY <1>1, <1>8, <1>9

LEMMA WrittenLaneType ==
    ASSUME NEW kind, NEW lane \in LaneType, NEW p \in Positions, NEW row \in Rows
    PROVE  Write(kind, lane, p, row) \in LaneType
<1>0. p \div W \in Blocks /\ p % Ring \in Staged /\ Ring \in Nat \ {0} /\ p \in Nat
  BY PositionsAreCells, Sizes DEF Ring
<1>1. CASE kind # "int4"
  BY <1>1 DEF Write, WritePlain, LaneType
<1>2. CASE kind = "int4"
  <2> DEFINE kstg == [lane.kstg EXCEPT ![p % Ring] = row]
             blk == [i \in 0 .. W - 1 |-> kstg[((p - W + 1) + i) % Ring]]
             kblk == IF p % W # W - 1 THEN lane.kblk ELSE [lane.kblk EXCEPT ![p \div W] = blk]
  <2>1. kstg \in [Staged -> Rows]
    BY DEF LaneType
  <2>2. p % W = W - 1 => blk \in [0 .. W - 1 -> Rows]
    <3> SUFFICES ASSUME p % W = W - 1, NEW i \in 0 .. W - 1
                 PROVE  kstg[((p - W + 1) + i) % Ring] \in Rows
      OBVIOUS
    <3>1. PICK h \in Nat : h = Horizon(p)
      BY <1>0, HorizonStarts
    <3>2. h = p - W + 1
      BY <1>0, <3>1, HorizonMoves
    <3>3. PICK m \in Nat : m = h + i
      BY Sizes
    <3>4. m % Ring \in Staged
      BY <1>0, Divide DEF Staged
    <3>5. (p - W + 1) + i = m
      BY <3>2, <3>3
    <3> HIDE DEF kstg
    <3> QED
      BY <2>1, <3>4, <3>5
  <2>3. kblk \in [Blocks -> [0 .. W - 1 -> Rows]]
    <3> HIDE DEF blk
    <3> QED
      BY <2>2, <1>0 DEF LaneType
  <2>4. Write(kind, lane, p, row) =
           [lane EXCEPT !.v[p] = row, !.kstg = kstg, !.vstg[p % Ring] = row, !.kblk = kblk]
    BY <1>2 DEF Write, WriteInt4
  <2> HIDE DEF kstg, kblk
  <2>5. Write(kind, lane, p, row) =
           [k |-> lane.k, v |-> [lane.v EXCEPT ![p] = row], kblk |-> kblk, kstg |-> kstg,
            vstg |-> [lane.vstg EXCEPT ![p % Ring] = row]]
    BY <2>4 DEF LaneType
  <2>6. /\ [lane.v EXCEPT ![p] = row] \in [Positions -> Rows]
        /\ [lane.vstg EXCEPT ![p % Ring] = row] \in [Staged -> Rows]
        /\ lane.k \in [Positions -> Rows]
    BY <1>0 DEF LaneType
  <2> QED
    BY <2>1, <2>3, <2>5, <2>6 DEF LaneType
<1> QED
  BY <1>1, <1>2

\* Writing leaves what the lane holds before the position alone, as long as
\* the position is not so far on that it takes a cell of the ring.
LEMMA WriteKeeps ==
    ASSUME NEW kind, NEW lane \in LaneType, NEW p \in Positions, NEW row \in Rows,
           NEW ctx \in Rows, Holds(kind, lane, ctx),
           Len(ctx) <= p, kind = "int4" => p <= Len(ctx) + W
    PROVE  Holds(kind, Write(kind, lane, p, row), ctx)
<1>0. Len(ctx) \in Nat /\ p \in Nat /\ p \in Positions
  BY PositionsAreCells DEF Rows
<1>1. CASE kind # "int4"
  BY <1>0, <1>1, Sizes DEF Write, WritePlain, LaneType, Holds, Positions
<1>2. CASE kind = "int4"
  <2> DEFINE n == Len(ctx)
             new == Write(kind, lane, p, row)
             kstg == [lane.kstg EXCEPT ![p % Ring] = row]
             blk == [i \in 0 .. W - 1 |-> kstg[((p - W + 1) + i) % Ring]]
             kblk == IF p % W # W - 1 THEN lane.kblk ELSE [lane.kblk EXCEPT ![p \div W] = blk]
  <2>1. new = [lane EXCEPT !.v[p] = row, !.kstg = kstg, !.vstg[p % Ring] = row, !.kblk = kblk]
    BY <1>2 DEF Write, WriteInt4
  <2> HIDE DEF kstg, blk
  <2>2. /\ new.v = [lane.v EXCEPT ![p] = row] /\ new.kstg = kstg
        /\ new.vstg = [lane.vstg EXCEPT ![p % Ring] = row] /\ new.kblk = kblk
    BY <2>1 DEF LaneType
  <2> HIDE DEF new, kblk
  <2>3. ASSUME NEW t \in 0 .. n - 1 PROVE new.v[t] = lane.v[t]
    BY <1>0, <2>2, Sizes DEF LaneType, Positions
  <2>4. ASSUME NEW t \in 0 .. n - 1, t < Horizon(n)
        PROVE  new.kblk[t \div W][t % W] = lane.kblk[t \div W][t % W]
    <3>6. t \in Positions
      BY <1>0, Sizes DEF Positions
    <3>1. t \in Positions /\ t \div W \in Blocks
      BY <3>6, PositionsAreCells
    <3>2. Horizon(n) <= Horizon(p)
      <4>1. PICK a \in Nat : a = n \div W
        BY <1>0, Sizes
      <4>2. PICK b \in Nat : b = p \div W
        BY <1>0, Sizes, Divide
      <4>3. a * W \in Nat /\ b * W \in Nat /\ Horizon(n) = a * W /\ Horizon(p) = b * W
        BY <4>1, <4>2, Sizes DEF Horizon
      <4>4. a * W <= n /\ p <= b * W + W - 1
        BY <1>0, <4>3, HorizonStarts
      <4>5. ~ (b < a)
        <5> SUFFICES ASSUME b < a PROVE FALSE
          OBVIOUS
        <5>1. b * W + W <= a * W
          BY Sizes, Multiples
        <5> QED
          BY <5>1, <4>3, <4>4, <1>0, Sizes
      <4>6. CASE a = b
        BY <4>3, <4>6
      <4>7. CASE a < b
        <5>1. a * W + W <= b * W
          BY <4>7, Sizes, Multiples
        <5> QED
          BY <5>1, <4>3, Sizes
      <4> QED
        BY <4>5, <4>6, <4>7
    <3>3. t < Horizon(p) /\ t \in Nat
      <4>1. Horizon(n) \in Nat /\ Horizon(p) \in Nat
        BY <1>0, HorizonStarts
      <4> QED
        BY <2>4, <3>2, <4>1
    <3>4. t \div W < p \div W
      BY <1>0, <3>3, EarlierBlock
    <3>5. t \div W # p \div W
      <4>1. t \div W \in Nat /\ p \div W \in Nat
        BY <1>0, <3>1, PositionsAreCells DEF Blocks
      <4> QED
        BY <3>4, <4>1
    <3> QED
      BY <3>1, <3>5, <2>2 DEF kblk, LaneType
  <2>5. ASSUME NEW t \in 0 .. n - 1, t >= Horizon(n)
        PROVE  new.kstg[t % Ring] = lane.kstg[t % Ring] /\ new.vstg[t % Ring] = lane.vstg[t % Ring]
    <3>1. t \in Positions /\ t % Ring \in Staged /\ t \in Nat
      BY <1>0, Sizes, PositionsAreCells DEF Positions
    <3>2. Horizon(n) \in Nat /\ n <= Horizon(n) + W - 1
      BY <1>0, HorizonStarts
    <3>3. t < p /\ p < t + Ring
      BY <1>0, <1>2, <2>5, <3>1, <3>2, Sizes DEF Ring
    <3>4. t % Ring # p % Ring
      BY <1>0, <3>1, <3>3, RingCells
    <3> QED
      BY <3>1, <3>4, <2>2 DEF kstg, LaneType
  <2> QED
    BY <1>2, <2>3, <2>4, <2>5 DEF Holds, new
<1> QED
  BY <1>1, <1>2

LEMMA Appended ==
    ASSUME NEW ctx \in Rows, NEW token \in Tokens
    PROVE  /\ Append(ctx, token) \in Rows /\ Len(Append(ctx, token)) = Len(ctx) + 1 /\ Len(ctx) \in Nat
           /\ \A t \in 0 .. Len(ctx) - 1 : SubSeq(Append(ctx, token), 1, t + 1) = SubSeq(ctx, 1, t + 1)
           /\ SubSeq(Append(ctx, token), 1, Len(ctx) + 1) = Append(ctx, token)
           /\ SubSeq(ctx, 1, Len(ctx)) = ctx
<1> USE DEF Rows
<1>1. Append(ctx, token) \in Seq(Tokens) /\ Len(Append(ctx, token)) = Len(ctx) + 1 /\ Len(ctx) \in Nat
  OBVIOUS
<1>2. \A s \in Seq(Tokens) : SubSeq(s, 1, Len(s)) = s
  BY SubSeqFull
<1>3. ASSUME NEW t \in 0 .. Len(ctx) - 1
      PROVE  SubSeq(Append(ctx, token), 1, t + 1) = SubSeq(ctx, 1, t + 1)
  BY <1>1
<1> QED
  BY <1>1, <1>2, <1>3

\* Writing the next row of a context.
LEMMA WriteExtends ==
    ASSUME NEW kind, NEW lane \in LaneType, NEW ctx \in Rows, NEW token \in Tokens,
           Len(ctx) \in Positions, Holds(kind, lane, ctx)
    PROVE  /\ RowFor(lane, Len(ctx), token) = Append(ctx, token)
           /\ Holds(kind, Write(kind, lane, Len(ctx), Append(ctx, token)), Append(ctx, token))
<1> DEFINE n == Len(ctx)
           row == Append(ctx, token)
           new == Write(kind, lane, n, row)
<1>0. n \in Nat /\ n \in Positions /\ row \in Rows /\ Len(row) = n + 1
  BY Appended, PositionsAreCells
<1>1. RowFor(lane, n, token) = row
  <2>1. CASE n = 0
    <3>1. ctx = <<>>
      BY <2>1 DEF Rows
    <3> QED
      BY <2>1, <3>1 DEF RowFor, NoRow
  <2>2. CASE n # 0
    <3>1. n - 1 \in 0 .. n - 1 /\ (n - 1) + 1 = n
      BY <1>0, <2>2
    <3>2. lane.v[n - 1] = SubSeq(ctx, 1, n)
      BY <3>1 DEF Holds
    <3> QED
      BY <2>2, <3>2, Appended DEF RowFor
  <2> QED
    BY <2>1, <2>2
<1>2. SubSeq(row, 1, n + 1) = row
  BY Appended
<1>3. ASSUME NEW t \in 0 .. n - 1 PROVE SubSeq(row, 1, t + 1) = SubSeq(ctx, 1, t + 1)
  BY Appended
<1> HIDE DEF row
<1>4. \A t \in 0 .. Len(row) - 1 : t \in 0 .. n - 1 \/ t = n
  BY <1>0
<1>5. CASE kind # "int4"
  <2>1. new.v = [lane.v EXCEPT ![n] = row] /\ new.k = [lane.k EXCEPT ![n] = row]
    BY <1>5 DEF Write, WritePlain, LaneType
  <2>2. ASSUME NEW t \in 0 .. Len(row) - 1
        PROVE  new.v[t] = SubSeq(row, 1, t + 1) /\ new.k[t] = SubSeq(row, 1, t + 1)
    <3>1. CASE t = n
      BY <3>1, <2>1, <1>0, <1>2 DEF LaneType
    <3>2. CASE t \in 0 .. n - 1
      <4>1. t # n /\ t \in Positions
        BY <1>0, <3>2, Sizes DEF Positions
      <4>2. lane.v[t] = SubSeq(ctx, 1, t + 1) /\ lane.k[t] = SubSeq(ctx, 1, t + 1)
        BY <1>5, <3>2 DEF Holds
      <4> QED
        BY <4>1, <4>2, <3>2, <2>1, <1>3 DEF LaneType
    <3> QED
      BY <3>1, <3>2, <1>4
  <2> QED
    BY <1>1, <1>5, <2>2 DEF Holds, row
<1>6. CASE kind = "int4"
  <2> DEFINE kstg == [lane.kstg EXCEPT ![n % Ring] = row]
             blk == [i \in 0 .. W - 1 |-> kstg[((n - W + 1) + i) % Ring]]
             kblk == IF n % W # W - 1 THEN lane.kblk ELSE [lane.kblk EXCEPT ![n \div W] = blk]
  <2>1. new = [lane EXCEPT !.v[n] = row, !.kstg = kstg, !.vstg[n % Ring] = row, !.kblk = kblk]
    BY <1>6 DEF Write, WriteInt4
  <2> HIDE DEF kstg, blk
  <2>2. /\ new.v = [lane.v EXCEPT ![n] = row] /\ new.kstg = kstg
        /\ new.vstg = [lane.vstg EXCEPT ![n % Ring] = row] /\ new.kblk = kblk
    BY <2>1 DEF LaneType
  <2> HIDE DEF new, kblk
  <2>3. Horizon(n) \in Nat /\ Horizon(n) <= n /\ n <= Horizon(n) + W - 1
    BY <1>0, HorizonStarts
  <2>4. n % Ring \in Staged /\ n \div W \in Blocks
    BY <1>0, PositionsAreCells
  <2>5. ASSUME NEW t \in 0 .. Len(row) - 1 PROVE new.v[t] = SubSeq(row, 1, t + 1)
    <3>1. CASE t = n
      BY <3>1, <2>2, <1>0, <1>2 DEF LaneType
    <3>2. CASE t \in 0 .. n - 1
      <4>1. t # n /\ t \in Positions
        BY <1>0, <3>2, Sizes DEF Positions
      <4>2. lane.v[t] = SubSeq(ctx, 1, t + 1)
        BY <3>2 DEF Holds
      <4> QED
        BY <4>1, <4>2, <3>2, <2>2, <1>3 DEF LaneType
    <3> QED
      BY <3>1, <3>2, <1>4
  <2>6. ASSUME NEW t \in 0 .. Len(row) - 1, t >= Horizon(n)
        PROVE  new.kstg[t % Ring] = SubSeq(row, 1, t + 1) /\ new.vstg[t % Ring] = SubSeq(row, 1, t + 1)
    <3>1. CASE t = n
      BY <3>1, <2>2, <2>4, <1>2 DEF LaneType, kstg
    <3>2. CASE t \in 0 .. n - 1
      <4>1. t \in Nat /\ t < n /\ n < t + Ring /\ t \in Positions
        BY <1>0, <2>3, <2>6, <3>2, Sizes DEF Ring, Positions
      <4>2. t % Ring # n % Ring
        BY <4>1, <1>0, RingCells
      <4>3. lane.kstg[t % Ring] = SubSeq(ctx, 1, t + 1) /\ lane.vstg[t % Ring] = SubSeq(ctx, 1, t + 1)
        BY <1>6, <2>6, <3>2 DEF Holds
      <4>4. t % Ring \in Staged
        BY <4>1, PositionsAreCells
      <4> QED
        BY <4>2, <4>3, <4>4, <3>2, <2>2, <1>3 DEF LaneType, kstg
    <3> QED
      BY <3>1, <3>2, <1>4
  <2>7. ASSUME NEW t \in 0 .. Len(row) - 1, t < Horizon(n)
        PROVE  new.kblk[t \div W][t % W] = SubSeq(row, 1, t + 1)
    <3>1. t \in Nat /\ t \in 0 .. n - 1 /\ t \in Positions
      BY <2>3, <2>7, <1>0, Sizes DEF Positions
    <3>2. lane.kblk[t \div W][t % W] = SubSeq(ctx, 1, t + 1)
      BY <1>6, <2>7, <3>1 DEF Holds
    <3>3. t \div W < n \div W
      BY <1>0, <2>7, <3>1, EarlierBlock
    <3>4. t \div W # n \div W /\ t \div W \in Blocks
      <4>1. t \div W \in Blocks
        BY <3>1, PositionsAreCells
      <4>2. t \div W \in Nat /\ n \div W \in Nat
        BY <4>1, <2>4 DEF Blocks
      <4> QED
        BY <3>3, <4>1, <4>2
    <3> QED
      BY <3>1, <3>2, <3>4, <2>2, <1>3 DEF kblk, LaneType
  <2>8. CASE n % W # W - 1
    <3>1. Horizon(Len(row)) = Horizon(n)
      BY <1>0, <2>8, HorizonMoves
    <3> QED
      BY <1>1, <1>6, <2>5, <2>6, <2>7, <3>1 DEF Holds, new, row
  <2>9. CASE n % W = W - 1
    <3>1. Horizon(Len(row)) = n + 1 /\ Horizon(n) = n - W + 1
      BY <1>0, <2>9, HorizonMoves
    <3>2. ASSUME NEW t \in 0 .. Len(row) - 1, t >= Horizon(n)
          PROVE  new.kblk[t \div W][t % W] = SubSeq(row, 1, t + 1)
      <4>0. t \in Nat /\ t <= n
        BY <1>0
      <4>1. PICK i \in 0 .. W - 1 : i = t - Horizon(n)
        <5>1. PICK h \in Nat : h = Horizon(n)
          BY <2>3
        <5>2. t - h \in 0 .. W - 1
          BY <4>0, <5>1, <1>0, <2>3, <3>2, Sizes
        <5> QED
          BY <5>1, <5>2
      <4>2. t = Horizon(n) + i /\ t = (n - W + 1) + i
        BY <1>0, <2>3, <3>1, <4>1
      <4>3. (Horizon(n) + i) \div W = n \div W /\ (Horizon(n) + i) % W = i
        BY <1>0, BlockOf
      <4>4. t \div W = n \div W /\ t % W = i
        BY <4>2, <4>3
      <4>5. new.kblk[n \div W] = blk
        BY <2>2, <2>4, <2>9 DEF kblk, LaneType
      <4>6. blk[i] = kstg[t % Ring]
        BY <4>2 DEF blk
      <4>7. new.kstg[t % Ring] = SubSeq(row, 1, t + 1)
        BY <2>6, <3>2
      <4> QED
        BY <2>2, <4>4, <4>5, <4>6, <4>7
    <3>3. ASSUME NEW t \in 0 .. Len(row) - 1
          PROVE  new.kblk[t \div W][t % W] = SubSeq(row, 1, t + 1) /\ ~ (t >= Horizon(Len(row)))
      <4>1. t < Horizon(n) \/ t >= Horizon(n)
        BY <2>3
      <4> QED
        BY <4>1, <2>7, <3>1, <3>2, <1>0
    <3> QED
      BY <1>1, <1>6, <2>5, <3>3 DEF Holds, new, row
  <2> QED
    BY <2>8, <2>9
<1> QED
  BY <1>5, <1>6

-----------------------------------------------------------------------------
(* Columns.                                                                *)

\* Each column has a context, which ends with its token.  What comes before is
\* the context of an earlier column of the lane, the last, or is held by it.
Continues(ls, cs, C) ==
    /\ cs \in Seq([lane : DOMAIN ls, pos : Positions, tok : Tokens])
    /\ C \in [1 .. Len(cs) -> Rows]
    /\ \A i \in 1 .. Len(cs) :
          \E c \in Rows :
             /\ C[i] = Append(c, cs[i].tok) /\ Len(c) = cs[i].pos
             /\ \/ \E j \in 1 .. i - 1 : cs[j].lane = cs[i].lane /\ c = C[j]
                \/ /\ \A j \in 1 .. i - 1 : cs[j].lane # cs[i].lane
                   /\ Holds(job.kind, ls[cs[i].lane], c)
    /\ \A i \in 1 .. Len(cs) : \A j \in 1 .. i - 1 :
          cs[j].lane = cs[i].lane =>
             /\ cs[j].pos < cs[i].pos
             /\ job.kind = "int4" => cs[i].pos <= cs[j].pos + W + 1

\* The lanes after each of the columns.
After(ls, cs, n, f) ==
    f = [i \in 0 .. n |-> IF i = 0 THEN ls ELSE WriteColumn(f[i - 1], cs[i])]

LEMMA AfterExists ==
    ASSUME NEW ls, NEW cs, NEW n \in Nat
    PROVE  \E f : After(ls, cs, n, f)
<1> DEFINE G == {k \in Nat : \E f : After(ls, cs, k, f)}
<1>1. 0 \in G
  <2> DEFINE f == [i \in 0 .. 0 |-> ls]
  <2>1. After(ls, cs, 0, f)
    BY DEF After
  <2> QED
    BY <2>1
<1>2. ASSUME NEW k \in Nat, k \in G PROVE k + 1 \in G
  <2>1. PICK f : After(ls, cs, k, f)
    BY <1>2
  <2> DEFINE g == [i \in 0 .. k + 1 |-> IF i = k + 1 THEN WriteColumn(f[k], cs[k + 1]) ELSE f[i]]
  <2>2. \A i \in 0 .. k : f[i] = IF i = 0 THEN ls ELSE WriteColumn(f[i - 1], cs[i])
    BY <2>1 DEF After
  <2>3. ASSUME NEW i \in 0 .. k + 1
        PROVE  g[i] = IF i = 0 THEN ls ELSE WriteColumn(g[i - 1], cs[i])
    <3>1. CASE i = k + 1
      <4>1. i # 0 /\ i - 1 = k /\ k \in 0 .. k + 1 /\ k # k + 1
        BY <3>1
      <4>2. g[k] = f[k] /\ g[i] = WriteColumn(f[k], cs[k + 1])
        BY <3>1, <4>1
      <4> QED
        BY <3>1, <4>1, <4>2
    <3>2. CASE i \in 0 .. k
      <4>1. i # k + 1 /\ g[i] = f[i]
        BY <3>2
      <4>2. CASE i = 0
        BY <4>1, <4>2, <2>2
      <4>3. CASE i # 0
        <5>1. i - 1 \in 0 .. k + 1 /\ i - 1 # k + 1 /\ i - 1 \in 0 .. k
          BY <3>2, <4>3
        <5>2. g[i - 1] = f[i - 1]
          BY <5>1
        <5> QED
          BY <4>1, <4>3, <5>2, <2>2, <3>2
      <4> QED
        BY <4>2, <4>3
    <3> QED
      BY <3>1, <3>2
  <2>4. After(ls, cs, k + 1, g)
    <3>1. g = [i \in 0 .. k + 1 |-> g[i]]
      OBVIOUS
    <3> HIDE DEF g
    <3> QED
      BY <2>3, <3>1 DEF After
  <2> HIDE DEF g
  <2> QED
    BY <2>4
<1> HIDE DEF G
<1>3. n \in G
  BY <1>1, <1>2, Induction
<1> QED
  BY <1>3 DEF G

LEMMA WrittenIsAfter ==
    ASSUME NEW cs, Len(cs) \in Nat
    PROVE  \E f : After(lanes, cs, Len(cs), f) /\ Written(cs) = f[Len(cs)]
<1> DEFINE after == CHOOSE f : After(lanes, cs, Len(cs), f)
<1>1. After(lanes, cs, Len(cs), after)
  BY AfterExists
<1>2. Written(cs) = after[Len(cs)]
  BY DEF Written, After
<1> HIDE DEF after
<1> QED
  BY <1>1, <1>2

\* One column is written into the lane of a context.
LEMMA ColumnWritten ==
    ASSUME NEW D, NEW ls \in [D -> LaneType], NEW c, c.lane \in D, c.pos \in Positions,
           c.tok \in Tokens, NEW ctx \in Rows, Len(ctx) = c.pos, Holds(job.kind, ls[c.lane], ctx)
    PROVE  /\ WriteColumn(ls, c) \in [D -> LaneType]
           /\ Holds(job.kind, WriteColumn(ls, c)[c.lane], Append(ctx, c.tok))
           /\ \A l \in D : l # c.lane => WriteColumn(ls, c)[l] = ls[l]
           /\ \A old \in Rows :
                 /\ Holds(job.kind, ls[c.lane], old) /\ Len(old) <= c.pos
                 /\ job.kind = "int4" => c.pos <= Len(old) + W
                 => Holds(job.kind, WriteColumn(ls, c)[c.lane], old)
<1> DEFINE lane == ls[c.lane]
           row == Append(ctx, c.tok)
           new == Write(job.kind, lane, c.pos, row)
<1>1. lane \in LaneType /\ row \in Rows
  BY Appended
<1>2. RowFor(lane, c.pos, c.tok) = row /\ Holds(job.kind, new, row)
  BY <1>1, WriteExtends
<1>3. new \in LaneType
  BY <1>1, WrittenLaneType
<1>4. WriteColumn(ls, c) = [ls EXCEPT ![c.lane] = new]
  BY <1>2 DEF WriteColumn
<1>5. ASSUME NEW old \in Rows, Holds(job.kind, lane, old), Len(old) <= c.pos,
             job.kind = "int4" => c.pos <= Len(old) + W
      PROVE  Holds(job.kind, new, old)
  BY <1>1, <1>5, WriteKeeps
<1> HIDE DEF new, row
<1>6. WriteColumn(ls, c) \in [D -> LaneType] /\ WriteColumn(ls, c)[c.lane] = new
  BY <1>3, <1>4
<1>7. \A l \in D : l # c.lane => WriteColumn(ls, c)[l] = ls[l]
  BY <1>4
<1> QED
  BY <1>2, <1>5, <1>6, <1>7 DEF row

LEMMA ColumnTypes ==
    ASSUME NEW ls, NEW cs, NEW C, Continues(ls, cs, C)
    PROVE  /\ Len(cs) \in Nat /\ C \in [1 .. Len(cs) -> Rows]
           /\ \A i \in 1 .. Len(cs) :
                 /\ cs[i].lane \in DOMAIN ls /\ cs[i].pos \in Positions /\ cs[i].pos \in Nat
                 /\ cs[i].tok \in Tokens /\ C[i] \in Rows
                 /\ Len(C[i]) = cs[i].pos + 1 /\ SubSeq(C[i], 1, cs[i].pos + 1) = C[i]
<1> DEFINE S == [lane : DOMAIN ls, pos : Positions, tok : Tokens]
<1>1. cs \in Seq(S) /\ C \in [1 .. Len(cs) -> Rows]
  BY DEF Continues
<1> HIDE DEF S
<1>2. Len(cs) \in Nat /\ \A i \in 1 .. Len(cs) : cs[i] \in S
  BY <1>1
<1>3. ASSUME NEW i \in 1 .. Len(cs)
      PROVE  /\ cs[i].lane \in DOMAIN ls /\ cs[i].pos \in Positions /\ cs[i].pos \in Nat
             /\ cs[i].tok \in Tokens /\ C[i] \in Rows
             /\ Len(C[i]) = cs[i].pos + 1 /\ SubSeq(C[i], 1, cs[i].pos + 1) = C[i]
  <2>1. cs[i].lane \in DOMAIN ls /\ cs[i].pos \in Positions /\ cs[i].tok \in Tokens
    BY <1>2 DEF S
  <2>2. cs[i].pos \in Nat
    BY <2>1 DEF Positions
  <2>3. PICK c \in Rows : C[i] = Append(c, cs[i].tok) /\ Len(c) = cs[i].pos
    BY DEF Continues
  <2>5. PICK token \in Tokens : token = cs[i].tok
    BY <2>1
  <2>6. Len(Append(c, token)) = Len(c) + 1 /\ SubSeq(Append(c, token), 1, Len(c) + 1) = Append(c, token)
    BY Appended
  <2>4. Len(C[i]) = cs[i].pos + 1 /\ SubSeq(C[i], 1, cs[i].pos + 1) = C[i]
    BY <2>3, <2>5, <2>6
  <2> QED
    BY <1>1, <2>1, <2>2, <2>4
<1> QED
  BY <1>1, <1>2, <1>3

LEMMA WrittenHolds ==
    ASSUME NEW D, lanes \in [D -> LaneType], NEW cs, NEW C, Continues(lanes, cs, C)
    PROVE  /\ Written(cs) \in [D -> LaneType]
           /\ \A i \in 1 .. Len(cs) : Holds(job.kind, Written(cs)[cs[i].lane], C[i])
           /\ \A l \in D : (\A i \in 1 .. Len(cs) : cs[i].lane # l) => Written(cs)[l] = lanes[l]
<1>0. /\ DOMAIN lanes = D /\ Len(cs) \in Nat
      /\ \A i \in 1 .. Len(cs) :
            /\ cs[i].lane \in D /\ cs[i].pos \in Positions /\ cs[i].pos \in Nat
            /\ cs[i].tok \in Tokens /\ C[i] \in Rows /\ Len(C[i]) = cs[i].pos + 1
  <2>1. DOMAIN lanes = D
    OBVIOUS
  <2> QED
    BY <2>1, ColumnTypes
<1>1. PICK f : After(lanes, cs, Len(cs), f) /\ Written(cs) = f[Len(cs)]
  BY <1>0, WrittenIsAfter
<1> DEFINE Good(k) ==
             /\ f[k] \in [D -> LaneType]
             /\ \A i \in 1 .. k : Holds(job.kind, f[k][cs[i].lane], C[i])
             /\ \A l \in D : (\A i \in 1 .. k : cs[i].lane # l) => f[k][l] = lanes[l]
           G == {k \in Nat : k <= Len(cs) => Good(k)}
<1>2. f[0] = lanes /\ \A k \in 1 .. Len(cs) : f[k] = WriteColumn(f[k - 1], cs[k])
  <2>1. \A k \in 0 .. Len(cs) : f[k] = IF k = 0 THEN lanes ELSE WriteColumn(f[k - 1], cs[k])
    BY <1>1 DEF After
  <2>2. 0 \in 0 .. Len(cs) /\ \A k \in 1 .. Len(cs) : k \in 0 .. Len(cs) /\ k # 0
    BY <1>0
  <2> QED
    BY <2>1, <2>2
<1>3. 0 \in G
  BY <1>2
<1>4. ASSUME NEW k \in Nat, k \in G PROVE k + 1 \in G
  <2> SUFFICES ASSUME k + 1 <= Len(cs) PROVE Good(k + 1)
    OBVIOUS
  <2>1. Good(k)
    <3>1. k <= Len(cs)
      BY <1>0
    <3> HIDE DEF Good
    <3> QED
      BY <3>1, <1>4
  <2> DEFINE i == k + 1
             c == cs[i]
             l == c.lane
  <2>2. i \in 1 .. Len(cs) /\ i - 1 = k /\ f[i] = WriteColumn(f[k], c)
    BY <1>0, <1>2
  <2>3. c.lane \in D /\ c.pos \in Positions /\ c.tok \in Tokens
    BY <1>0, <2>2
  <2>4. PICK ctx \in Rows :
           /\ C[i] = Append(ctx, c.tok) /\ Len(ctx) = c.pos
           /\ \/ \E j \in 1 .. i - 1 : cs[j].lane = l /\ ctx = C[j]
              \/ /\ \A j \in 1 .. i - 1 : cs[j].lane # l
                 /\ Holds(job.kind, lanes[l], ctx)
    BY <2>2 DEF Continues
  <2> HIDE DEF Good
  <2>5. Holds(job.kind, f[k][l], ctx)
    BY <2>1, <2>2, <2>3, <2>4 DEF Good
  <2>6. f[k] \in [D -> LaneType]
    BY <2>1 DEF Good
  <2>7. /\ f[i] \in [D -> LaneType]
        /\ Holds(job.kind, f[i][l], C[i])
        /\ \A m \in D : m # l => f[i][m] = f[k][m]
        /\ \A old \in Rows :
              /\ Holds(job.kind, f[k][l], old) /\ Len(old) <= c.pos
              /\ job.kind = "int4" => c.pos <= Len(old) + W
              => Holds(job.kind, f[i][l], old)
    BY <2>2, <2>3, <2>4, <2>5, <2>6, ColumnWritten
  <2>8. ASSUME NEW j \in 1 .. i PROVE Holds(job.kind, f[i][cs[j].lane], C[j])
    <3>1. CASE j = i
      BY <3>1, <2>7
    <3>2. CASE j \in 1 .. i - 1
      <4>0. j \in 1 .. k /\ j \in 1 .. Len(cs) /\ cs[j].lane \in D /\ C[j] \in Rows
        BY <1>0, <2>2, <3>2
      <4>1. Holds(job.kind, f[k][cs[j].lane], C[j])
        BY <2>1, <4>0 DEF Good
      <4>2. CASE cs[j].lane # l
        BY <4>0, <4>1, <4>2, <2>7
      <4>3. CASE cs[j].lane = l
        <5>1. /\ cs[j].pos < c.pos
              /\ job.kind = "int4" => c.pos <= cs[j].pos + W + 1
          BY <2>2, <3>2, <4>3 DEF Continues
        <5>3. Len(C[j]) = cs[j].pos + 1
          BY <4>0, <1>0
        <5>4. cs[j].pos \in Nat /\ c.pos \in Nat
          BY <1>0, <2>2, <4>0
        <5>5. Len(C[j]) <= c.pos /\ (job.kind = "int4" => c.pos <= Len(C[j]) + W)
          BY <5>1, <5>3, <5>4, Sizes
        <5> QED
          BY <4>0, <4>1, <4>3, <5>5, <2>7
      <4> QED
        BY <4>2, <4>3
    <3> QED
      BY <2>2, <3>1, <3>2
  <2>9. ASSUME NEW m \in D, \A j \in 1 .. i : cs[j].lane # m PROVE f[i][m] = lanes[m]
    <3>1. m # l /\ \A j \in 1 .. k : cs[j].lane # m
      BY <2>2, <2>9
    <3> QED
      BY <3>1, <2>1, <2>7 DEF Good
  <2> QED
    BY <2>7, <2>8, <2>9 DEF Good
<1> HIDE DEF G, Good
<1>5. Len(cs) \in G
  BY <1>0, <1>3, <1>4, Induction
<1>6. Good(Len(cs))
  BY <1>0, <1>5 DEF G
<1> QED
  BY <1>1, <1>6 DEF Good

LEMMA ChoiceIsToken ==
    ASSUME job \in Jobs, NEW ctx \in Rows, Len(ctx) # 0
    PROVE  Choice(job.model, ctx) \in Tokens
<1>1. Len(ctx) \in Nat /\ \A i \in 1 .. Len(ctx) : ctx[i] \in Tokens
  BY DEF Rows
<1>2. ctx[Len(ctx)] \in Tokens /\ ctx[IF Len(ctx) > 1 THEN Len(ctx) - 1 ELSE 1] \in Tokens
  BY <1>1
<1>3. Table[job.model] \in [Tokens \X Tokens -> Tokens]
  BY EngineAssumption
<1> QED
  BY <1>2, <1>3 DEF Choice

\* The columns see exactly their contexts, and are answered by the model.
LEMMA ColumnsAreClear ==
    ASSUME NEW D, lanes \in [D -> LaneType], NEW cs, NEW C, Continues(lanes, cs, C)
    PROVE  \A i \in 1 .. Len(cs) :
              /\ Clear(Written(cs), cs[i])
              /\ Answer(Written(cs), cs[i]) = Choice(job.model, C[i])
<1> SUFFICES ASSUME NEW i \in 1 .. Len(cs)
             PROVE  /\ Clear(Written(cs), cs[i])
                    /\ Answer(Written(cs), cs[i]) = Choice(job.model, C[i])
  OBVIOUS
<1>1. Holds(job.kind, Written(cs)[cs[i].lane], C[i])
  BY WrittenHolds
<1>2. cs[i].pos \in Nat /\ C[i] \in Rows
  BY ColumnTypes
<1>4. Len(C[i]) = cs[i].pos + 1 /\ SubSeq(C[i], 1, cs[i].pos + 1) = C[i]
  BY ColumnTypes
<1>5. ContextOf(Written(cs), cs[i]) = C[i]
  <2>1. cs[i].pos \in 0 .. Len(C[i]) - 1
    BY <1>2, <1>4
  <2> QED
    BY <2>1, <1>1, <1>4 DEF Holds, ContextOf
<1>6. SeesContext(job.kind, Written(cs)[cs[i].lane], C[i])
  BY <1>1, <1>2, HeldIsSeen
<1> QED
  BY <1>4, <1>5, <1>6 DEF Clear, Answer

-----------------------------------------------------------------------------
(* The invariant.                                                          *)

\* What a stream continues and what it has emitted so far.
Text(r) == PromptOf[r] \o out[r]

\* Every token is the model's choice after what precedes it.
Continued(p, o) ==
    \A i \in 1 .. Len(o) : o[i] = Choice(job.model, p \o SubSeq(o, 1, i - 1))

Keeps(l, ctx) == ctx \in Rows /\ Holds(job.kind, lanes[l], ctx)

\* The first positions of the prompt, those fed.
PromptSoFar == SubSeq(job.prompt, 1, pos + 1)

\* The streams a mode writes to.
Writing ==
    CASE job.mode \in {"greedy", "spec", "generate", "gguf"} -> {0}
      [] job.mode \in {"serve", "hybrid"} \union SlotModes   -> Lanes
      [] job.mode \in {"cbatch", "mixed"}                    -> Reqs
      [] OTHER                                               -> {}

StreamsInv ==
    /\ out \in [Streams -> Rows]
    /\ \A r \in Streams : Continued(PromptOf[r], out[r])
    /\ \A r \in Streams \ Writing : out[r] = <<>>

LaneSet == IF job.mode \in DenseModes THEN Lanes ELSE 0 .. 2 * B

StepInv ==
    /\ lanes \in [LaneSet -> LaneType]
    /\ logits \in [Lanes -> Tokens \union {Garbled}]
    /\ clear = TRUE /\ DispatchFits

Completed == pc = "done" => \A r \in Streams : Len(out[r]) = Owed(r)

\* No request is admitted.
QueueIdle ==
    /\ rep \in Nat /\ qhead = 0 /\ nact = 0 /\ fed = 0
    /\ req = [s \in Lanes |-> 0] /\ pref = [s \in Lanes |-> 0]
SlotsIdle ==
    /\ active = [s \in Lanes |-> 0] /\ cbpos = [s \in Lanes |-> 0]

\* The modes of the dense engine without slots.
SingleModes == {"greedy", "spec", "serve", "bench", "ppl", "dump"}

Served == IF job.mode = "serve" THEN Lanes ELSE {0}

SingleInv ==
    /\ QueueIdle /\ SlotsIdle /\ scan = 0
    /\ pc \in {"prefill", "done", "failed", job.mode}
    /\ pos \in -1 .. MaxSeq - 1
    /\ pc = "prefill" =>
          /\ job.mode # "ppl" /\ pos + 1 < Len(job.prompt)
          /\ \A l \in Served : Keeps(l, PromptSoFar)
          /\ job.mode = "spec" => hist = PromptSoFar
          /\ out = [r \in Streams |-> <<>>]
    /\ pc \in {"greedy", "spec", "serve"} =>
          \A l \in Served : /\ Keeps(l, Text(l)) /\ Len(Text(l)) = pos + 1
                            /\ logits[l] = Choice(job.model, Text(l))
    /\ pc \in {"greedy", "spec"} => Len(out[0]) <= job.n
    /\ pc = "spec" => hist = Text(0)
    /\ job.mode # "spec" => hist = <<>>
    /\ Len(hist) <= MaxSeq
    /\ pc = "serve" => Len(out[0]) <= ServeLimit(job)
    /\ pc = "bench" =>
          /\ BenchLimit(job) >= 1 /\ pos + 1 <= Len(job.prompt) + BenchWarm + BenchLimit(job)
          /\ logits[0] \in Tokens
          /\ \E ctx : Keeps(0, ctx) /\ Len(ctx) = pos + 1
    /\ pc = "ppl" /\ rep <= Len(job.windows) =>
          pos + 1 <= Len(job.windows[rep]) /\ Keeps(0, SubSeq(job.windows[rep], 1, pos + 1))
    /\ job.mode = "ppl" => rep >= 1
    /\ pc = "failed" => pos = -1

\* The prompt of a request of cbatch, and the request that is being admitted.
Asked(r)  == SubSeq(job.prompt, 1, job.plen[r])
Admitting == IF pc = "chunk" THEN {qhead - 1} ELSE {}
InSlots   == {req[s] : s \in {u \in Lanes : active[u] # 0}}

\* A request in a slot, which its last token has not ended.
Goes(r) ==
    /\ Len(out[r]) >= 1 /\ Len(out[r]) < Limit(job, r)
    /\ \A i \in 1 .. Len(out[r]) : out[r][i] \notin Eos

\* The slots.
SlotTypes ==
    /\ active \in [Lanes -> IF job.mode = "cbatch" THEN {0, 1} ELSE 0 .. 2]
    /\ nact = Cardinality({s \in Lanes : active[s] # 0})
    /\ req \in [Lanes -> Reqs] /\ pref \in [Lanes -> 0 .. MaxSeq] /\ cbpos \in [Lanes -> 0 .. MaxSeq]
    /\ DOMAIN tok = Lanes

\* Slots have admitted requests, each its own.
SlotsOwn ==
    /\ \A s \in Lanes : active[s] # 0 => req[s] < qhead /\ req[s] \notin Admitting
    /\ \A s, u \in Lanes : active[s] # 0 /\ active[u] # 0 /\ req[s] = req[u] => s = u

\* A slot that decodes a request, and one that computes its prompt.
Decodes(s) ==
    /\ Goes(req[s])
    /\ Len(Text(req[s])) = cbpos[s] + 1 /\ tok[s] = Text(req[s])[cbpos[s] + 1]
    /\ Keeps(s, SubSeq(Text(req[s]), 1, cbpos[s]))
Prefills(s) ==
    /\ out[req[s]] = <<>> /\ pref[s] < job.plen[req[s]]
    /\ Keeps(s, SubSeq(job.prompt, 1, pref[s]))

\* The request being admitted.
Admits ==
    /\ qhead >= 1 /\ scan \in Lanes /\ active[scan] = 0
    /\ out[qhead - 1] = <<>> /\ fed < job.plen[qhead - 1]
    /\ Keeps(scan, SubSeq(job.prompt, 1, fed))

SchedInv ==
    /\ pos = -1 /\ hist = <<>> /\ rep \in Nat
    /\ pc \in {"loop", "done"} \union
          (IF job.mode = "cbatch" THEN {"admit", "chunk", "decode"} ELSE {"mixed"})
    /\ qhead \in 0 .. R /\ scan \in 0 .. B /\ fed \in 0 .. MaxSeq
    /\ SlotTypes /\ SlotsOwn
    /\ \A s \in Lanes : active[s] = 1 => Decodes(s)
    /\ \A s \in Lanes : active[s] = 2 => Prefills(s)
    /\ pc = "chunk" => Admits
    /\ \A r \in Reqs : r >= qhead => out[r] = <<>>
    /\ \A r \in Reqs : r < qhead /\ r \notin InSlots \union Admitting => Len(out[r]) = Owed(r)

\* The modes of the mixture-of-experts engine without slots.
HostModes   == {"gguf", "verify", "safetensors"}
DeviceModes == {"generate", "attention", "layers", "parity"}
MoeSingleModes == HostModes \union DeviceModes \union {"lockstep", "hybrid"}

\* The lanes a prompt is fed to.
FedLanes ==
    CASE job.mode = "generate"                              -> {0}
      [] job.mode \in HostModes                             -> {Single}
      [] job.mode \in {"layers", "parity"}                  -> {0, Single}
      [] job.mode = "attention" /\ job.attn = "mla"         -> {0, Single}
      [] job.mode = "attention" /\ job.attn # "mla"         -> {0}
      [] OTHER                                              -> {}

\* Feeding the prompt.
MoePrompting ==
    /\ job.mode \notin {"lockstep", "hybrid"} /\ pos + 1 <= Len(job.prompt)
    /\ 0 \in FedLanes => pos + 1 <= Window
    /\ \A l \in FedLanes : Keeps(l, PromptSoFar)
    /\ pos >= 0 => logits[0] = Choice(job.model, PromptSoFar)
    /\ out = [r \in Streams |-> <<>>]

\* Generating on the device and on the CPU.
Generates ==
    /\ Keeps(0, Text(0)) /\ Len(Text(0)) = pos + 1 /\ logits[0] = Choice(job.model, Text(0))
    /\ pos + 1 <= Window /\ Len(out[0]) <= job.n
    /\ \A i \in 1 .. Len(out[0]) : out[0][i] \notin Eos
GgufGenerates ==
    /\ Keeps(Single, SubSeq(Text(0), 1, pos + 1)) /\ Len(Text(0)) = pos + 2
    /\ logits[0] = Text(0)[pos + 2]
    /\ pos + 1 <= MoeMaxPos /\ Len(out[0]) <= job.n

\* Measuring: what the lanes of the device keep, as long as it computes.
DeviceLanes == IF job.mode = "lockstep" THEN Lanes ELSE {0}
Measures ==
    pos + 1 <= Window /\ pos >= 0 =>
       \A l \in DeviceLanes : \E ctx : Keeps(l, ctx) /\ Len(ctx) = pos + 1

HybridInv ==
    /\ pc # "failed" /\ pos \in {-1, 0} /\ (pos = -1 => scan = 0)
    /\ pos = 0 => \A l \in Lanes : logits[l] = Choice(job.model, <<Corpus(0)[l]>>)
    /\ \A r \in Lanes : Len(out[r]) = IF r < scan THEN 1 ELSE 0

MoeSingleInv ==
    /\ QueueIdle /\ SlotsIdle /\ hist = <<>>
    /\ pc \in {"moeprompt", "done", "failed", job.mode}
    /\ pos \in -1 .. MaxSeq + GateWarm /\ scan \in 0 .. B
    /\ pc = "moeprompt" => MoePrompting
    /\ pc = "generate" => Generates
    /\ pc = "gguf" => GgufGenerates
    /\ pc \in {"layers", "parity", "lockstep"} => Measures
    /\ job.mode = "lockstep" => pc # "failed"
    /\ job.mode = "hybrid" => HybridInv
    /\ pc = "failed" => pos \in {-1, Window}

\* A slot of the batches that are admitted at once.
SlotInv(s) ==
    /\ cbpos[s] \in 0 .. CbMaxPos
    /\ active[s] = 1 =>
          /\ cbpos[s] < CbMaxPos /\ Len(out[s]) < job.maxnew[s]
          /\ Keeps(s, SubSeq(Text(s), 1, cbpos[s]))
          /\ \/ cbpos[s] < Plen(s) /\ out[s] = <<>>
             \/ cbpos[s] = Plen(s) + Len(out[s]) /\ tok[s] = Text(s)[cbpos[s] + 1]
    /\ active[s] = 0 => Len(out[s]) = Lesser(job.maxnew[s], CbMaxPos - Plen(s))

SlotsInv ==
    /\ QueueIdle /\ hist = <<>> /\ pos = -1
    /\ pc \in {"slots", "done"} \union
          CASE job.mode = "feed"     -> {}
            [] job.mode = "combined" -> {"warmup", "combined", "failed"}
            [] job.mode = "scalar"   -> {"scalar"}
    /\ active \in [Lanes -> {0, 1}] /\ cbpos \in [Lanes -> 0 .. CbMaxPos] /\ DOMAIN tok = Lanes
    /\ scan \in 0 .. B /\ (pc = "scalar" => scan < B)
    /\ pc \in {"scalar", "warmup", "combined"} =>
          active = [s \in Lanes |-> 1] /\ out = [r \in Streams |-> <<>>]
    /\ pc = "combined" => Len(AllPrompts) <= BatchMax
    /\ pc = "slots" => \A s \in Lanes : SlotInv(s)
    /\ pc = "scalar" => \A s \in Lanes : s < scan => SlotInv(s)

ModeInv ==
    /\ job.mode \in SingleModes => SingleInv
    /\ job.mode \in {"cbatch", "mixed"} => SchedInv
    /\ job.mode \in MoeSingleModes => MoeSingleInv
    /\ job.mode \in SlotModes => SlotsInv

IInv ==
    /\ job \in Jobs /\ job.mode \in DenseModes \union MoeModes
    /\ StreamsInv /\ StepInv /\ Completed /\ ModeInv

-----------------------------------------------------------------------------
(* Steps that compute columns.                                             *)

LEMMA LanesFit ==
    /\ B \in Nat /\ B # 0 /\ R \in Nat /\ R # 0
    /\ Lanes \subseteq LaneSet /\ Lanes \subseteq Streams /\ 0 \in Lanes /\ 0 \in LaneSet
    /\ \A l \in LaneSet : l \in Nat
  BY EngineAssumption DEF Lanes, LaneSet, Streams

Columns == [lane : LaneSet, pos : Positions, tok : Tokens]

\* The columns of a step that brings each lane l from lo[l] to hi[l] rows of
\* the text T[l]: each position once, in order.
Feeds(cs, lo, hi, T) ==
    /\ cs \in Seq(Columns)
    /\ \A i \in 1 .. Len(cs) :
          /\ lo[cs[i].lane] <= cs[i].pos /\ cs[i].pos < hi[cs[i].lane]
          /\ cs[i].tok = T[cs[i].lane][cs[i].pos + 1]
    /\ \A i, j \in 1 .. Len(cs) : i < j /\ cs[i].lane = cs[j].lane => cs[i].pos < cs[j].pos
    /\ \A l \in LaneSet : \A p \in lo[l] .. hi[l] - 1 :
          \E i \in 1 .. Len(cs) : cs[i].lane = l /\ cs[i].pos = p

LEMMA FeedsTypes ==
    ASSUME NEW cs, NEW lo, NEW hi, NEW T, Feeds(cs, lo, hi, T)
    PROVE  /\ Len(cs) \in Nat /\ DOMAIN cs = 1 .. Len(cs)
           /\ \A i \in 1 .. Len(cs) :
                 /\ cs[i].lane \in LaneSet /\ cs[i].pos \in Positions /\ cs[i].tok \in Tokens
                 /\ cs[i].pos \in Nat /\ cs[i] = Column(cs[i].lane, cs[i].pos, cs[i].tok)
<1>1. cs \in Seq(Columns)
  BY DEF Feeds
<1>2. Len(cs) \in Nat /\ DOMAIN cs = 1 .. Len(cs) /\ \A i \in 1 .. Len(cs) : cs[i] \in Columns
  BY <1>1
<1>3. ASSUME NEW i \in 1 .. Len(cs)
      PROVE  /\ cs[i].lane \in LaneSet /\ cs[i].pos \in Positions /\ cs[i].tok \in Tokens
             /\ cs[i].pos \in Nat /\ cs[i] = Column(cs[i].lane, cs[i].pos, cs[i].tok)
  <2>1. cs[i] \in [lane : LaneSet, pos : Positions, tok : Tokens]
    BY <1>2 DEF Columns
  <2>2. /\ cs[i].lane \in LaneSet /\ cs[i].pos \in Positions /\ cs[i].tok \in Tokens
        /\ cs[i] = Column(cs[i].lane, cs[i].pos, cs[i].tok)
    BY <2>1 DEF Column
  <2>3. cs[i].pos \in Nat
    BY <2>2 DEF Positions
  <2> QED
    BY <2>2, <2>3
<1> QED
  BY <1>2, <1>3

\* The first rows of a text.
LEMMA FirstRows ==
    ASSUME NEW txt \in Rows, NEW n \in Nat, n <= Len(txt)
    PROVE  /\ Len(txt) \in Nat /\ SubSeq(txt, 1, n) \in Rows /\ Len(SubSeq(txt, 1, n)) = n
           /\ n < Len(txt) => /\ txt[n + 1] \in Tokens
                              /\ SubSeq(txt, 1, n + 1) = Append(SubSeq(txt, 1, n), txt[n + 1])
           /\ n = Len(txt) => SubSeq(txt, 1, n) = txt
<1> USE DEF Rows
<1>1. Len(txt) \in Nat /\ SubSeq(txt, 1, n) \in Rows /\ Len(SubSeq(txt, 1, n)) = n
  OBVIOUS
<1>2. ASSUME n < Len(txt)
      PROVE  txt[n + 1] \in Tokens /\ SubSeq(txt, 1, n + 1) = Append(SubSeq(txt, 1, n), txt[n + 1])
  BY <1>1, <1>2
<1>3. n = Len(txt) => SubSeq(txt, 1, n) = txt
  BY SubSeqFull
<1> QED
  BY <1>1, <1>2, <1>3

\* A step that computes columns as Feeds says, from lanes that keep the rows
\* before them.
Ready(lo, hi, T) ==
    /\ lo \in [LaneSet -> Nat] /\ hi \in [LaneSet -> Nat] /\ T \in [LaneSet -> Rows]
    /\ \A l \in LaneSet : lo[l] < hi[l] =>
          /\ Holds(job.kind, lanes[l], SubSeq(T[l], 1, lo[l])) /\ hi[l] <= Len(T[l])
          /\ job.kind = "int4" => hi[l] <= lo[l] + W + 2
          /\ hi[l] <= LaneEnd(l)

LEMMA FedContinues ==
    ASSUME StepInv, NEW cs, NEW lo, NEW hi, NEW T, Feeds(cs, lo, hi, T), Ready(lo, hi, T)
    PROVE  Continues(lanes, cs, [i \in 1 .. Len(cs) |-> SubSeq(T[cs[i].lane], 1, cs[i].pos + 1)])
<1> DEFINE C == [i \in 1 .. Len(cs) |-> SubSeq(T[cs[i].lane], 1, cs[i].pos + 1)]
<1>0. /\ lanes \in [LaneSet -> LaneType] /\ DOMAIN lanes = LaneSet
      /\ lo \in [LaneSet -> Nat] /\ hi \in [LaneSet -> Nat] /\ T \in [LaneSet -> Rows]
      /\ \A l \in LaneSet : lo[l] < hi[l] =>
          /\ Holds(job.kind, lanes[l], SubSeq(T[l], 1, lo[l])) /\ hi[l] <= Len(T[l])
          /\ job.kind = "int4" => hi[l] <= lo[l] + W + 2
  BY DEF StepInv, Ready
<1>1. /\ Len(cs) \in Nat
      /\ \A i \in 1 .. Len(cs) : cs[i].lane \in LaneSet /\ cs[i].pos \in Nat
  BY FeedsTypes
<1>2. ASSUME NEW i \in 1 .. Len(cs), NEW l, NEW p, l = cs[i].lane, p = cs[i].pos
      PROVE  /\ l \in LaneSet /\ p \in Nat /\ lo[l] \in Nat /\ hi[l] \in Nat /\ lo[l] <= p /\ p < hi[l]
             /\ T[l] \in Rows /\ p < Len(T[l]) /\ cs[i].tok = T[l][p + 1]
             /\ Holds(job.kind, lanes[l], SubSeq(T[l], 1, lo[l]))
             /\ job.kind = "int4" => p <= lo[l] + W + 1
  <2>1. l \in LaneSet /\ p \in Nat /\ lo[l] \in Nat /\ hi[l] \in Nat /\ T[l] \in Rows
    BY <1>0, <1>1, <1>2
  <2>2. lo[l] <= p /\ p < hi[l] /\ cs[i].tok = T[l][p + 1]
    BY <1>2 DEF Feeds
  <2>3. lo[l] < hi[l]
    BY <2>1, <2>2
  <2>4. Len(T[l]) \in Nat
    BY <2>1 DEF Rows
  <2>5. /\ Holds(job.kind, lanes[l], SubSeq(T[l], 1, lo[l])) /\ hi[l] <= Len(T[l])
        /\ job.kind = "int4" => hi[l] <= lo[l] + W + 2
    BY <1>0, <2>1, <2>3
  <2>6. p < Len(T[l]) /\ (job.kind = "int4" => p <= lo[l] + W + 1)
    BY <2>1, <2>2, <2>4, <2>5, Sizes
  <2> QED
    BY <2>1, <2>2, <2>5, <2>6
<1>3. ASSUME NEW i \in 1 .. Len(cs) PROVE C[i] \in Rows
  <2>1. PICK l, p : l = cs[i].lane /\ p = cs[i].pos
    OBVIOUS
  <2>2. p + 1 \in Nat /\ p + 1 <= Len(T[l]) /\ T[l] \in Rows
    <3>1. p \in Nat /\ p < Len(T[l]) /\ T[l] \in Rows
      BY <2>1, <1>2
    <3>2. Len(T[l]) \in Nat
      BY <3>1 DEF Rows
    <3> QED
      BY <3>1, <3>2
  <2>3. SubSeq(T[l], 1, p + 1) \in Rows
    <3>1. PICK m \in Nat : m = p + 1
      BY <2>2
    <3> QED
      BY <2>2, <3>1, FirstRows
  <2> QED
    BY <2>1, <2>3
<1>4. ASSUME NEW i \in 1 .. Len(cs)
      PROVE  \E c \in Rows :
                /\ C[i] = Append(c, cs[i].tok) /\ Len(c) = cs[i].pos
                /\ \/ \E j \in 1 .. i - 1 : cs[j].lane = cs[i].lane /\ c = C[j]
                   \/ /\ \A j \in 1 .. i - 1 : cs[j].lane # cs[i].lane
                      /\ Holds(job.kind, lanes[cs[i].lane], c)
  <2>1. PICK l, p : l = cs[i].lane /\ p = cs[i].pos
    OBVIOUS
  <2>2. /\ l \in LaneSet /\ p \in Nat /\ lo[l] \in Nat /\ hi[l] \in Nat /\ lo[l] <= p /\ p < hi[l]
        /\ T[l] \in Rows /\ p < Len(T[l]) /\ cs[i].tok = T[l][p + 1]
        /\ Holds(job.kind, lanes[l], SubSeq(T[l], 1, lo[l]))
    BY <2>1, <1>2
  <2> DEFINE c == SubSeq(T[l], 1, p)
  <2>3. c \in Rows /\ Len(c) = p /\ C[i] = Append(c, cs[i].tok)
    <3>1. Len(T[l]) \in Nat
      BY <2>2 DEF Rows
    <3>2. p <= Len(T[l])
      BY <2>2, <3>1
    <3>3. c \in Rows /\ Len(c) = p /\ SubSeq(T[l], 1, p + 1) = Append(c, T[l][p + 1])
      BY <2>2, <3>2, FirstRows
    <3> QED
      BY <2>1, <2>2, <3>3
  <2>4. CASE p = lo[l]
    <3>1. ASSUME NEW j \in 1 .. i - 1 PROVE cs[j].lane # l
      <4> SUFFICES ASSUME cs[j].lane = l PROVE FALSE
        OBVIOUS
      <4>1. j \in 1 .. Len(cs) /\ j < i
        BY <1>1
      <4>2. cs[j].pos < p
        BY <2>1, <4>1 DEF Feeds
      <4>3. lo[l] <= cs[j].pos /\ cs[j].pos \in Nat
        BY <4>1, <1>1 DEF Feeds
      <4> QED
        BY <2>2, <2>4, <4>2, <4>3
    <3> QED
      BY <2>1, <2>2, <2>3, <2>4, <3>1
  <2>5. CASE p # lo[l]
    <3>1. p - 1 \in lo[l] .. hi[l] - 1
      BY <2>2, <2>5
    <3>2. PICK j \in 1 .. Len(cs) : cs[j].lane = l /\ cs[j].pos = p - 1
      BY <2>2, <3>1 DEF Feeds
    <3>3. ~ (i < j)
      <4> SUFFICES ASSUME i < j PROVE FALSE
        OBVIOUS
      <4>1. p < p - 1
        BY <2>1, <3>2 DEF Feeds
      <4> QED
        BY <2>2, <4>1
    <3>4. j # i
      BY <2>1, <2>2, <3>2
    <3>5. j \in 1 .. i - 1
      BY <1>1, <3>3, <3>4
    <3>6. C[j] = SubSeq(T[l], 1, (p - 1) + 1)
      BY <3>2
    <3>7. (p - 1) + 1 = p
      BY <2>2
    <3> QED
      BY <2>1, <2>3, <3>2, <3>5, <3>6, <3>7
  <2> QED
    BY <2>4, <2>5
<1>5. ASSUME NEW i \in 1 .. Len(cs), NEW j \in 1 .. i - 1, cs[j].lane = cs[i].lane
      PROVE  /\ cs[j].pos < cs[i].pos
             /\ job.kind = "int4" => cs[i].pos <= cs[j].pos + W + 1
  <2>1. j \in 1 .. Len(cs) /\ j < i
    BY <1>1
  <2>2. cs[j].pos < cs[i].pos
    BY <2>1, <1>5 DEF Feeds
  <2>3. PICK l, p, q : l = cs[i].lane /\ p = cs[i].pos /\ q = cs[j].pos
    OBVIOUS
  <2>4. p \in Nat /\ lo[l] \in Nat /\ (job.kind = "int4" => p <= lo[l] + W + 1)
    BY <2>3, <1>2
  <2>5. q \in Nat /\ lo[l] <= q
    BY <2>1, <2>3, <1>2, <1>5
  <2>6. job.kind = "int4" => p <= q + W + 1
    BY <2>4, <2>5, Sizes
  <2> QED
    BY <2>2, <2>3, <2>6
<1>6. cs \in Seq([lane : DOMAIN lanes, pos : Positions, tok : Tokens])
  BY <1>0 DEF Feeds, Columns
<1>7. C \in [1 .. Len(cs) -> Rows]
  BY <1>3
<1> HIDE DEF C
<1>8. Continues(lanes, cs, C)
  BY <1>4, <1>5, <1>6, <1>7 DEF Continues
<1> QED
  BY <1>8 DEF C

LEMMA Computed ==
    ASSUME StepInv, job \in Jobs, job' = job, NEW cs, NEW C, Continues(lanes, cs, C),
           Compute(cs, Written(cs))
    PROVE  /\ Len(cs) \in Nat
           /\ lanes' \in [LaneSet -> LaneType] /\ clear' = TRUE /\ cols' = cs /\ lanes' = Written(cs)
           /\ \A i \in 1 .. Len(cs) :
                 /\ cs[i].lane \in LaneSet /\ C[i] \in Rows /\ Len(C[i]) = cs[i].pos + 1
                 /\ Holds(job.kind, lanes'[cs[i].lane], C[i])
                 /\ Answer(Written(cs), cs[i]) = Choice(job.model, C[i])
                 /\ Choice(job.model, C[i]) \in Tokens
           /\ \A l \in LaneSet : (\A i \in 1 .. Len(cs) : cs[i].lane # l) => lanes'[l] = lanes[l]
           /\ \A i, j \in 1 .. Len(cs) :
                 cs[i].lane = cs[j].lane /\ cs[i].pos = cs[j].pos => i = j
<1>1. lanes \in [LaneSet -> LaneType] /\ DOMAIN lanes = LaneSet
  BY DEF StepInv
<1>2. /\ Len(cs) \in Nat
      /\ \A i \in 1 .. Len(cs) : /\ cs[i].lane \in LaneSet /\ cs[i].pos \in Nat
                                 /\ C[i] \in Rows /\ Len(C[i]) = cs[i].pos + 1
  BY <1>1, ColumnTypes
<1>3. lanes' = Written(cs) /\ cols' = cs /\ clear' = \A i \in 1 .. Len(cs) : Clear(Written(cs), cs[i])
  BY DEF Compute
<1>4. \A i \in 1 .. Len(cs) : /\ Clear(Written(cs), cs[i])
                              /\ Answer(Written(cs), cs[i]) = Choice(job.model, C[i])
  BY <1>1, ColumnsAreClear
<1>5. /\ Written(cs) \in [LaneSet -> LaneType]
      /\ \A i \in 1 .. Len(cs) : Holds(job.kind, Written(cs)[cs[i].lane], C[i])
      /\ \A l \in LaneSet : (\A i \in 1 .. Len(cs) : cs[i].lane # l) => Written(cs)[l] = lanes[l]
  BY <1>1, WrittenHolds
<1>6. \A i \in 1 .. Len(cs) : Choice(job.model, C[i]) \in Tokens
  <2> TAKE i \in 1 .. Len(cs)
  <2>1. C[i] \in Rows /\ Len(C[i]) # 0
    BY <1>2
  <2> QED
    BY <2>1, ChoiceIsToken
<1>7. ASSUME NEW i \in 1 .. Len(cs), NEW j \in 1 .. Len(cs),
             cs[i].lane = cs[j].lane, cs[i].pos = cs[j].pos
      PROVE  i = j
  <2>1. ~ (i < j)
    <3> SUFFICES ASSUME i < j PROVE FALSE
      OBVIOUS
    <3>1. i \in 1 .. j - 1
      BY <1>2
    <3>2. cs[i].pos < cs[j].pos
      BY <1>7, <3>1 DEF Continues
    <3> QED
      BY <3>2, <1>2, <1>7
  <2>2. ~ (j < i)
    <3> SUFFICES ASSUME j < i PROVE FALSE
      OBVIOUS
    <3>1. j \in 1 .. i - 1
      BY <1>2
    <3>2. cs[j].pos < cs[i].pos
      BY <1>7, <3>1 DEF Continues
    <3> QED
      BY <3>2, <1>2, <1>7
  <2> QED
    BY <2>1, <2>2, <1>2
<1>8. clear' = TRUE
  BY <1>3, <1>4
<1> QED
  BY <1>2, <1>3, <1>4, <1>5, <1>6, <1>7, <1>8

LEMMA Fed ==
    ASSUME StepInv, job \in Jobs, job' = job, NEW cs, NEW lo, NEW hi, NEW T,
           Feeds(cs, lo, hi, T), Ready(lo, hi, T),
           Len(cs) <= MostColumns, Compute(cs, Written(cs))
    PROVE  /\ lanes' \in [LaneSet -> LaneType] /\ clear' = TRUE /\ DispatchFits'
           /\ \A i \in 1 .. Len(cs) :
                 /\ Answer(Written(cs), cs[i]) =
                       Choice(job.model, SubSeq(T[cs[i].lane], 1, cs[i].pos + 1))
                 /\ Answer(Written(cs), cs[i]) \in Tokens
           /\ \A l \in LaneSet :
                 IF lo[l] < hi[l] THEN Holds(job.kind, lanes'[l], SubSeq(T[l], 1, hi[l]))
                                  ELSE lanes'[l] = lanes[l]
<1> DEFINE C == [i \in 1 .. Len(cs) |-> SubSeq(T[cs[i].lane], 1, cs[i].pos + 1)]
<1>1. lanes \in [LaneSet -> LaneType]
  BY DEF StepInv
<1>2. lo \in [LaneSet -> Nat] /\ hi \in [LaneSet -> Nat] /\ T \in [LaneSet -> Rows]
  BY DEF Ready
<1>3. \A l \in LaneSet : lo[l] < hi[l] =>
          /\ Holds(job.kind, lanes[l], SubSeq(T[l], 1, lo[l])) /\ hi[l] <= Len(T[l])
          /\ job.kind = "int4" => hi[l] <= lo[l] + W + 2
  BY DEF Ready
<1>4. Continues(lanes, cs, C)
  BY FedContinues
<1>0. \A i \in 1 .. Len(cs) : C[i] = SubSeq(T[cs[i].lane], 1, cs[i].pos + 1)
  OBVIOUS
<1> HIDE DEF C
<1>5. /\ Len(cs) \in Nat
      /\ lanes' \in [LaneSet -> LaneType] /\ clear' = TRUE /\ cols' = cs
      /\ \A i \in 1 .. Len(cs) :
            /\ cs[i].lane \in LaneSet /\ Holds(job.kind, lanes'[cs[i].lane], C[i])
            /\ Answer(Written(cs), cs[i]) = Choice(job.model, C[i])
            /\ Choice(job.model, C[i]) \in Tokens
      /\ \A l \in LaneSet : (\A i \in 1 .. Len(cs) : cs[i].lane # l) => lanes'[l] = lanes[l]
      /\ \A i, j \in 1 .. Len(cs) : cs[i].lane = cs[j].lane /\ cs[i].pos = cs[j].pos => i = j
  BY <1>4, Computed
<1>6. ASSUME NEW i \in 1 .. Len(cs) PROVE cs[i].pos < LaneEnd(cs[i].lane)
  <2>1. PICK l, p : l = cs[i].lane /\ p = cs[i].pos
    OBVIOUS
  <2>2. l \in LaneSet /\ p \in Nat /\ lo[l] \in Nat /\ hi[l] \in Nat
    BY <2>1, <1>2, FeedsTypes
  <2>3. lo[l] <= p /\ p < hi[l]
    BY <2>1 DEF Feeds
  <2>4. hi[l] <= LaneEnd(l)
    BY <2>2, <2>3 DEF Ready
  <2>5. LaneEnd(l) \in Int
    BY MoeAssumption, Sizes DEF LaneEnd
  <2> QED
    BY <2>1, <2>2, <2>3, <2>4, <2>5
<1>7. DispatchFits'
  <2>1. MostColumns' = MostColumns /\ \A l : LaneEnd(l)' = LaneEnd(l)
    BY DEF MostColumns, LaneEnd
  <2> QED
    BY <1>5, <1>6, <2>1 DEF DispatchFits
<1>8. ASSUME NEW l \in LaneSet, lo[l] < hi[l]
      PROVE  Holds(job.kind, lanes'[l], SubSeq(T[l], 1, hi[l]))
  <2>1. lo[l] \in Nat /\ hi[l] \in Nat
    BY <1>2
  <2>2. hi[l] - 1 \in lo[l] .. hi[l] - 1 /\ (hi[l] - 1) + 1 = hi[l]
    BY <2>1, <1>8
  <2>3. PICK i \in 1 .. Len(cs) : cs[i].lane = l /\ cs[i].pos = hi[l] - 1
    BY <2>2 DEF Feeds
  <2>4. C[i] = SubSeq(T[l], 1, hi[l])
    BY <2>2, <2>3, <1>0
  <2> QED
    BY <2>3, <2>4, <1>5
<1>9. ASSUME NEW l \in LaneSet, ~ (lo[l] < hi[l]) PROVE lanes'[l] = lanes[l]
  <2>1. ASSUME NEW i \in 1 .. Len(cs) PROVE cs[i].lane # l
    <3> SUFFICES ASSUME cs[i].lane = l PROVE FALSE
      OBVIOUS
    <3>1. lo[l] <= cs[i].pos /\ cs[i].pos < hi[l]
      BY DEF Feeds
    <3>3. cs[i].pos \in Nat
      BY FeedsTypes
    <3>2. lo[l] \in Nat /\ hi[l] \in Nat
      BY <1>2
    <3> QED
      BY <3>1, <3>2, <3>3, <1>9
  <2> QED
    BY <2>1, <1>5
<1>10. \A i \in 1 .. Len(cs) :
          /\ Answer(Written(cs), cs[i]) =
                Choice(job.model, SubSeq(T[cs[i].lane], 1, cs[i].pos + 1))
          /\ Answer(Written(cs), cs[i]) \in Tokens
  BY <1>0, <1>5
<1> QED
  BY <1>5, <1>7, <1>8, <1>9, <1>10

\* The answer of the column at a position.
LEMMA Answered ==
    ASSUME StepInv, job \in Jobs, job' = job, NEW cs, NEW lo, NEW hi, NEW T,
           Feeds(cs, lo, hi, T), Ready(lo, hi, T),
           Len(cs) <= MostColumns, Compute(cs, Written(cs)),
           NEW l \in LaneSet, NEW p \in lo[l] .. hi[l] - 1
    PROVE  /\ TokenAt(cs, Written(cs), l, p) = Choice(job.model, SubSeq(T[l], 1, p + 1))
           /\ Answer(Written(cs), Column(l, p, T[l][p + 1])) =
                 Choice(job.model, SubSeq(T[l], 1, p + 1))
           /\ Choice(job.model, SubSeq(T[l], 1, p + 1)) \in Tokens
<1>1. \A i \in 1 .. Len(cs) :
          /\ Answer(Written(cs), cs[i]) =
                Choice(job.model, SubSeq(T[cs[i].lane], 1, cs[i].pos + 1))
          /\ Answer(Written(cs), cs[i]) \in Tokens
  BY Fed
<1>2. PICK i \in 1 .. Len(cs) : cs[i].lane = l /\ cs[i].pos = p
  BY DEF Feeds
<1>3. cs[i] = Column(l, p, T[l][p + 1])
  <2>1. cs[i].tok = T[l][p + 1]
    BY <1>2 DEF Feeds
  <2> QED
    BY <1>2, <2>1, FeedsTypes
<1> DEFINE k == CHOOSE j \in 1 .. Len(cs) : cs[j].lane = l /\ cs[j].pos = p
<1>4. k \in 1 .. Len(cs) /\ cs[k].lane = l /\ cs[k].pos = p
  BY <1>2
<1>5. TokenAt(cs, Written(cs), l, p) = Answer(Written(cs), cs[k])
  BY DEF TokenAt
<1> HIDE DEF k
<1> QED
  BY <1>1, <1>2, <1>3, <1>4, <1>5

-----------------------------------------------------------------------------
(* The steps' columns.                                                     *)

\* Columns of lanes of their own.
Apart(n, L, cs, lo, hi, T) ==
    /\ n \in Nat /\ L \in [1 .. n -> LaneSet]
    /\ lo \in [LaneSet -> Nat] /\ hi \in [LaneSet -> Nat] /\ T \in [LaneSet -> Rows]
    /\ cs = [i \in 1 .. n |-> Column(L[i], lo[L[i]], T[L[i]][lo[L[i]] + 1])]
    /\ \A i, j \in 1 .. n : L[i] = L[j] => i = j
    /\ \A i \in 1 .. n : lo[L[i]] < MaxSeq /\ lo[L[i]] < Len(T[L[i]])
    /\ \A l \in LaneSet : hi[l] = IF \E i \in 1 .. n : L[i] = l THEN lo[l] + 1 ELSE lo[l]

LEMMA FeedsEach ==
    ASSUME NEW n, NEW L, NEW cs, NEW lo, NEW hi, NEW T, Apart(n, L, cs, lo, hi, T)
    PROVE  Feeds(cs, lo, hi, T) /\ Len(cs) = n
<1>0. /\ n \in Nat /\ L \in [1 .. n -> LaneSet]
      /\ lo \in [LaneSet -> Nat] /\ hi \in [LaneSet -> Nat] /\ T \in [LaneSet -> Rows]
      /\ \A i, j \in 1 .. n : L[i] = L[j] => i = j
      /\ \A i \in 1 .. n : lo[L[i]] < MaxSeq /\ lo[L[i]] < Len(T[L[i]])
      /\ \A l \in LaneSet : hi[l] = IF \E i \in 1 .. n : L[i] = l THEN lo[l] + 1 ELSE lo[l]
  BY DEF Apart
<1>9. cs = [i \in 1 .. n |-> Column(L[i], lo[L[i]], T[L[i]][lo[L[i]] + 1])]
  BY DEF Apart
<1> USE <1>0, <1>9
<1>1. ASSUME NEW i \in 1 .. n, NEW l, l = L[i]
      PROVE  /\ l \in LaneSet /\ lo[l] \in Positions /\ lo[l] \in Nat /\ hi[l] = lo[l] + 1
             /\ T[l][lo[l] + 1] \in Tokens
             /\ cs[i] = [lane |-> l, pos |-> lo[l], tok |-> T[l][lo[l] + 1]]
  <2>1. l \in LaneSet /\ lo[l] \in Nat /\ lo[l] < MaxSeq /\ lo[l] < Len(T[l]) /\ T[l] \in Rows
    BY <1>1
  <2>2. lo[l] \in Positions
    BY <2>1, Sizes DEF Positions
  <2>3. T[l][lo[l] + 1] \in Tokens
    <3>1. Len(T[l]) \in Nat
      BY <2>1 DEF Rows
    <3>2. lo[l] <= Len(T[l])
      BY <2>1, <3>1
    <3> QED
      BY <2>1, <3>2, FirstRows
  <2>4. hi[l] = lo[l] + 1
    BY <1>1, <2>1
  <2>5. cs[i] = [lane |-> l, pos |-> lo[l], tok |-> T[l][lo[l] + 1]]
    BY <1>1 DEF Column
  <2> QED
    BY <2>1, <2>2, <2>3, <2>4, <2>5
<1>2. Len(cs) = n /\ DOMAIN cs = 1 .. n
  <2>1. DOMAIN cs = 1 .. n
    OBVIOUS
  <2>2. cs \in [1 .. n -> Columns]
    BY <1>1 DEF Columns
  <2>3. cs \in Seq(Columns)
    BY <2>2
  <2> QED
    BY <2>1, <2>3
<1>3. cs \in Seq(Columns)
  <2>1. cs \in [1 .. n -> Columns]
    BY <1>1 DEF Columns
  <2> QED
    BY <2>1
<1>4. ASSUME NEW i \in 1 .. n
      PROVE  /\ cs[i].lane = L[i] /\ cs[i].pos = lo[L[i]]
             /\ lo[cs[i].lane] <= cs[i].pos /\ cs[i].pos < hi[cs[i].lane]
             /\ cs[i].tok = T[cs[i].lane][cs[i].pos + 1]
  <2>1. PICK l : l = L[i]
    OBVIOUS
  <2>2. /\ lo[l] \in Nat /\ hi[l] = lo[l] + 1
        /\ cs[i].lane = l /\ cs[i].pos = lo[l] /\ cs[i].tok = T[l][lo[l] + 1]
    BY <2>1, <1>1
  <2>3. lo[l] <= lo[l] /\ lo[l] < hi[l]
    BY <2>2
  <2> QED
    BY <2>1, <2>2, <2>3
<1>5. \A i, j \in 1 .. n : i < j /\ cs[i].lane = cs[j].lane => cs[i].pos < cs[j].pos
  <2> SUFFICES ASSUME NEW i \in 1 .. n, NEW j \in 1 .. n, i < j, cs[i].lane = cs[j].lane PROVE FALSE
    OBVIOUS
  <2>1. L[i] = L[j]
    <3> HIDE <1>9
    <3> QED
      BY <1>4
  <2>2. i = j
    BY <2>1
  <2> QED
    BY <2>2
<1>6. ASSUME NEW l \in LaneSet, NEW p \in lo[l] .. hi[l] - 1
      PROVE  \E i \in 1 .. n : cs[i].lane = l /\ cs[i].pos = p
  <2>1. CASE \E i \in 1 .. n : L[i] = l
    <3>1. PICK i \in 1 .. n : L[i] = l
      BY <2>1
    <3>2. lo[l] \in Nat /\ hi[l] = lo[l] + 1
      BY <3>1, <1>1
    <3>3. p = lo[l]
      BY <3>2
    <3> QED
      BY <3>1, <3>3, <1>4
  <2>2. CASE ~ \E i \in 1 .. n : L[i] = l
    <3>1. hi[l] = lo[l] /\ lo[l] \in Nat
      BY <2>2
    <3> QED
      BY <3>1
  <2> QED
    BY <2>1, <2>2
<1> QED
  BY <1>2, <1>3, <1>4, <1>5, <1>6 DEF Feeds

\* Consecutive columns of one lane.
Consecutive(n, l, p, cs, lo, hi, T) ==
    /\ n \in Nat /\ l \in LaneSet /\ p \in Nat
    /\ lo \in [LaneSet -> Nat] /\ hi \in [LaneSet -> Nat] /\ T \in [LaneSet -> Rows]
    /\ cs = [i \in 1 .. n |-> Column(l, p + i - 1, T[l][p + i])]
    /\ p + n <= MaxSeq /\ p + n <= Len(T[l])
    /\ lo[l] = p /\ hi[l] = p + n
    /\ \A m \in LaneSet \ {l} : hi[m] = lo[m]

LEMMA FeedsRun ==
    ASSUME NEW n, NEW l, NEW p, NEW cs, NEW lo, NEW hi, NEW T,
           Consecutive(n, l, p, cs, lo, hi, T)
    PROVE  Feeds(cs, lo, hi, T) /\ Len(cs) = n
<1>0. /\ n \in Nat /\ l \in LaneSet /\ p \in Nat
      /\ lo \in [LaneSet -> Nat] /\ hi \in [LaneSet -> Nat] /\ T \in [LaneSet -> Rows]
      /\ p + n <= MaxSeq /\ p + n <= Len(T[l])
      /\ lo[l] = p /\ hi[l] = p + n
      /\ \A m \in LaneSet \ {l} : hi[m] = lo[m]
  BY DEF Consecutive
<1>9. cs = [i \in 1 .. n |-> Column(l, p + i - 1, T[l][p + i])]
  BY DEF Consecutive
<1> USE <1>0, <1>9
<1>1. T[l] \in Rows /\ Len(T[l]) \in Nat
  BY DEF Rows
<1>2. ASSUME NEW i \in 1 .. n
      PROVE  /\ cs[i].lane = l /\ cs[i].pos = p + i - 1 /\ cs[i].tok = T[l][p + i]
             /\ cs[i] \in Columns
  <2>1. cs[i] = [lane |-> l, pos |-> p + i - 1, tok |-> T[l][p + i]]
    BY DEF Column
  <2>2. p + i - 1 \in Positions
    BY Sizes DEF Positions
  <2>3. T[l][p + i] \in Tokens
    <3>1. p + i \in 1 .. Len(T[l])
      BY <1>1
    <3> QED
      BY <1>1, <3>1 DEF Rows
  <2> QED
    BY <2>1, <2>2, <2>3 DEF Columns
<1>3. cs \in Seq(Columns) /\ Len(cs) = n
  <2>1. cs \in [1 .. n -> Columns]
    BY <1>2
  <2>2. cs \in Seq(Columns)
    <3> HIDE <1>9
    <3> QED
      BY <2>1
  <2>3. DOMAIN cs = 1 .. n
    OBVIOUS
  <2> QED
    BY <2>2, <2>3
<1>4. ASSUME NEW i \in 1 .. n
      PROVE  /\ lo[cs[i].lane] <= cs[i].pos /\ cs[i].pos < hi[cs[i].lane]
             /\ cs[i].tok = T[cs[i].lane][cs[i].pos + 1]
  <2>1. (p + i - 1) + 1 = p + i /\ p <= p + i - 1 /\ p + i - 1 < p + n
    OBVIOUS
  <2> QED
    BY <1>2, <2>1
<1>5. \A i, j \in 1 .. n : i < j /\ cs[i].lane = cs[j].lane => cs[i].pos < cs[j].pos
  <2> SUFFICES ASSUME NEW i \in 1 .. n, NEW j \in 1 .. n, i < j PROVE cs[i].pos < cs[j].pos
    OBVIOUS
  <2>1. p + i - 1 < p + j - 1
    OBVIOUS
  <2> QED
    BY <1>2, <2>1
<1>6. ASSUME NEW m \in LaneSet, NEW q \in lo[m] .. hi[m] - 1
      PROVE  \E i \in 1 .. n : cs[i].lane = m /\ cs[i].pos = q
  <2>1. CASE m = l
    <3>1. q \in p .. p + n - 1
      BY <2>1
    <3>2. PICK i \in 1 .. n : i = q - p + 1
      BY <3>1
    <3>3. cs[i].lane = l /\ cs[i].pos = p + i - 1
      BY <1>2
    <3>4. p + i - 1 = q
      BY <3>1, <3>2
    <3> QED
      BY <2>1, <3>3, <3>4
  <2>2. CASE m # l
    <3>1. hi[m] = lo[m] /\ lo[m] \in Nat
      BY <2>2
    <3> QED
      BY <3>1
  <2> QED
    BY <2>1, <2>2
<1>7. Feeds(cs, lo, hi, T)
  <2> HIDE <1>9
  <2> QED
    BY <1>3, <1>4, <1>5, <1>6 DEF Feeds
<1> QED
  BY <1>3, <1>7

LEMMA FeedsNone ==
    ASSUME NEW lo \in [LaneSet -> Nat], NEW T
    PROVE  Feeds(<<>>, lo, lo, T)
<1>1. <<>> \in Seq(Columns) /\ Len(<<>>) = 0
  OBVIOUS
<1>2. \A l \in LaneSet : \A p \in lo[l] .. lo[l] - 1 : FALSE
  <2> TAKE l \in LaneSet
  <2>1. lo[l] \in Nat
    OBVIOUS
  <2> QED
    BY <2>1
<1> QED
  BY <1>1, <1>2 DEF Feeds

LEMMA Concatenated ==
    ASSUME NEW S, NEW xs \in Seq(S), NEW ys \in Seq(S)
    PROVE  /\ xs \o ys \in Seq(S) /\ Len(xs \o ys) = Len(xs) + Len(ys)
           /\ Len(xs) \in Nat /\ Len(ys) \in Nat
           /\ \A i \in 1 .. Len(xs) : (xs \o ys)[i] = xs[i]
           /\ \A i \in 1 .. Len(ys) : (xs \o ys)[Len(xs) + i] = ys[i]
<1>0. Len(xs) \in Nat /\ Len(ys) \in Nat
  OBVIOUS
<1>1. PICK na \in Nat, nb \in Nat : na = Len(xs) /\ nb = Len(ys)
  BY <1>0
<1>2. /\ xs \o ys \in Seq(S) /\ Len(xs \o ys) = Len(xs) + Len(ys)
      /\ \A i \in 1 .. Len(xs) + Len(ys) :
            (xs \o ys)[i] = IF i <= Len(xs) THEN xs[i] ELSE ys[i - Len(xs)]
  BY ConcatProperties
<1>3. ASSUME NEW i \in 1 .. na PROVE (xs \o ys)[i] = xs[i]
  <2>1. i \in 1 .. na + nb /\ i <= na
    OBVIOUS
  <2> QED
    BY <1>1, <1>2, <2>1
<1>4. ASSUME NEW i \in 1 .. nb PROVE (xs \o ys)[na + i] = ys[i]
  <2>1. na + i \in 1 .. na + nb /\ ~ (na + i <= na) /\ (na + i) - na = i
    OBVIOUS
  <2> QED
    BY <1>1, <1>2, <2>1
<1> QED
  BY <1>1, <1>2, <1>3, <1>4

\* One after the other.
LEMMA FeedsBoth ==
    ASSUME NEW lo \in [LaneSet -> Nat], NEW mid \in [LaneSet -> Nat], NEW hi \in [LaneSet -> Nat],
           NEW T, NEW xs, NEW ys, Feeds(xs, lo, mid, T), Feeds(ys, mid, hi, T),
           \A l \in LaneSet : lo[l] <= mid[l] /\ mid[l] <= hi[l]
    PROVE  Feeds(xs \o ys, lo, hi, T) /\ Len(xs \o ys) = Len(xs) + Len(ys)
<1>1. xs \in Seq(Columns) /\ ys \in Seq(Columns)
  BY DEF Feeds
<1>a. Len(xs) \in Nat /\ Len(ys) \in Nat
  BY <1>1
<1>b. PICK na \in Nat : na = Len(xs)
  BY <1>a
<1>c. PICK nb \in Nat : nb = Len(ys)
  BY <1>a
<1>d. PICK cs : cs = xs \o ys
  OBVIOUS
<1>2. /\ cs = xs \o ys /\ cs \in Seq(Columns) /\ Len(cs) = na + nb
      /\ na = Len(xs) /\ nb = Len(ys)
      /\ \A i \in 1 .. na : cs[i] = xs[i]
      /\ \A i \in 1 .. nb : cs[na + i] = ys[i]
  <2>1. /\ xs \o ys \in Seq(Columns) /\ Len(xs \o ys) = Len(xs) + Len(ys)
        /\ \A i \in 1 .. Len(xs) : (xs \o ys)[i] = xs[i]
        /\ \A i \in 1 .. Len(ys) : (xs \o ys)[Len(xs) + i] = ys[i]
    BY <1>1, Concatenated
  <2> QED
    BY <1>b, <1>c, <1>d, <2>1
<1>3. \A i \in 1 .. na + nb :
         \/ i \in 1 .. na /\ cs[i] = xs[i]
         \/ \E k \in 1 .. nb : i = na + k /\ cs[i] = ys[k]
  <2> TAKE i \in 1 .. na + nb
  <2>1. CASE i <= na
    <3>1. i \in 1 .. na
      BY <2>1
    <3> QED
      BY <1>2, <3>1
  <2>2. CASE ~ (i <= na)
    <3>1. PICK k \in 1 .. nb : k = i - na
      BY <2>2
    <3>2. i = na + k
      BY <3>1
    <3> QED
      BY <1>2, <3>2
  <2> QED
    BY <2>1, <2>2
<1>4. ASSUME NEW i \in 1 .. na
      PROVE  /\ xs[i].lane \in LaneSet /\ xs[i].pos \in Nat
             /\ lo[xs[i].lane] <= xs[i].pos /\ xs[i].pos < mid[xs[i].lane]
             /\ xs[i].tok = T[xs[i].lane][xs[i].pos + 1]
  <2>1. xs[i].lane \in LaneSet /\ xs[i].pos \in Nat
    BY <1>2, FeedsTypes
  <2> QED
    BY <1>2, <2>1 DEF Feeds
<1>5. ASSUME NEW i \in 1 .. nb
      PROVE  /\ ys[i].lane \in LaneSet /\ ys[i].pos \in Nat
             /\ mid[ys[i].lane] <= ys[i].pos /\ ys[i].pos < hi[ys[i].lane]
             /\ ys[i].tok = T[ys[i].lane][ys[i].pos + 1]
  <2>1. ys[i].lane \in LaneSet /\ ys[i].pos \in Nat
    BY <1>2, FeedsTypes
  <2> QED
    BY <1>2, <2>1 DEF Feeds
<1>6. ASSUME NEW c, c.lane \in LaneSet, c.pos \in Nat,
             \/ lo[c.lane] <= c.pos /\ c.pos < mid[c.lane]
             \/ mid[c.lane] <= c.pos /\ c.pos < hi[c.lane]
      PROVE  lo[c.lane] <= c.pos /\ c.pos < hi[c.lane]
  <2>1. PICK l, p : l = c.lane /\ p = c.pos
    OBVIOUS
  <2>2. lo[l] \in Nat /\ mid[l] \in Nat /\ hi[l] \in Nat /\ lo[l] <= mid[l] /\ mid[l] <= hi[l]
    BY <1>6, <2>1
  <2>3. p \in Nat /\ ((lo[l] <= p /\ p < mid[l]) \/ (mid[l] <= p /\ p < hi[l]))
    BY <1>6, <2>1
  <2>4. lo[l] <= p /\ p < hi[l]
    BY <2>2, <2>3
  <2> QED
    BY <2>1, <2>4
<1>7. ASSUME NEW i \in 1 .. na + nb
      PROVE  /\ lo[cs[i].lane] <= cs[i].pos /\ cs[i].pos < hi[cs[i].lane]
             /\ cs[i].tok = T[cs[i].lane][cs[i].pos + 1]
  <2>1. CASE i \in 1 .. na /\ cs[i] = xs[i]
    BY <2>1, <1>4, <1>6
  <2>2. CASE \E k \in 1 .. nb : i = na + k /\ cs[i] = ys[k]
    BY <2>2, <1>5, <1>6
  <2> QED
    BY <2>1, <2>2, <1>3
<1>8. ASSUME NEW i \in 1 .. na + nb, NEW j \in 1 .. na + nb, i < j, cs[i].lane = cs[j].lane
      PROVE  cs[i].pos < cs[j].pos
  <2>1. CASE j \in 1 .. na /\ cs[j] = xs[j]
    <3>1. i \in 1 .. na
      BY <1>8, <2>1
    <3>2. cs[i] = xs[i]
      BY <1>2, <3>1
    <3> QED
      BY <1>2, <2>1, <3>1, <3>2, <1>8 DEF Feeds
  <2>2. ASSUME NEW m \in 1 .. nb, j = na + m, cs[j] = ys[m] PROVE cs[i].pos < cs[j].pos
    <3>1. CASE i \in 1 .. na /\ cs[i] = xs[i]
      <4>1. PICK l, p, q : l = xs[i].lane /\ p = xs[i].pos /\ q = ys[m].pos
        OBVIOUS
      <4>2. l = ys[m].lane
        BY <4>1, <3>1, <2>2, <1>8
      <4>3. p \in Nat /\ q \in Nat /\ l \in LaneSet /\ p < mid[l] /\ mid[l] <= q
        BY <3>1, <4>1, <4>2, <1>4, <1>5
      <4>4. mid[l] \in Nat
        BY <4>3
      <4>5. p < q
        BY <4>3, <4>4
      <4> QED
        BY <4>1, <4>5, <3>1, <2>2
    <3>2. ASSUME NEW k \in 1 .. nb, i = na + k, cs[i] = ys[k] PROVE cs[i].pos < cs[j].pos
      <4>1. k < m
        BY <1>8, <2>2, <3>2
      <4>2. k \in 1 .. Len(ys) /\ m \in 1 .. Len(ys) /\ ys[k].lane = ys[m].lane
        BY <1>2, <2>2, <3>2, <1>8
      <4>3. ys[k].pos < ys[m].pos
        BY <4>1, <4>2 DEF Feeds
      <4> QED
        BY <4>3, <2>2, <3>2
    <3> QED
      BY <3>1, <3>2, <1>3
  <2> QED
    BY <2>1, <2>2, <1>3
<1>9. ASSUME NEW l \in LaneSet, NEW p \in lo[l] .. hi[l] - 1
      PROVE  \E i \in 1 .. na + nb : cs[i].lane = l /\ cs[i].pos = p
  <2>0. lo[l] \in Nat /\ mid[l] \in Nat /\ hi[l] \in Nat
    OBVIOUS
  <2>1. CASE p < mid[l]
    <3>1. p \in lo[l] .. mid[l] - 1
      BY <2>0, <2>1
    <3>2. PICK i \in 1 .. na : xs[i].lane = l /\ xs[i].pos = p
      BY <1>2, <3>1 DEF Feeds
    <3>3. i \in 1 .. na + nb
      OBVIOUS
    <3> QED
      BY <3>2, <3>3, <1>2
  <2>2. CASE ~ (p < mid[l])
    <3>1. p \in mid[l] .. hi[l] - 1
      BY <2>0, <2>2
    <3>2. PICK k \in 1 .. nb : ys[k].lane = l /\ ys[k].pos = p
      BY <1>2, <3>1 DEF Feeds
    <3>3. na + k \in 1 .. na + nb
      OBVIOUS
    <3> QED
      BY <3>2, <3>3, <1>2
  <2> QED
    BY <2>1, <2>2
<1>10. Feeds(cs, lo, hi, T)
  <2>1. cs \in Seq(Columns) /\ Len(cs) = na + nb
    BY <1>2
  <2>2. \A i, j \in 1 .. Len(cs) : i < j /\ cs[i].lane = cs[j].lane => cs[i].pos < cs[j].pos
    BY <2>1, <1>8
  <2>3. \A l \in LaneSet : \A p \in lo[l] .. hi[l] - 1 :
          \E i \in 1 .. Len(cs) : cs[i].lane = l /\ cs[i].pos = p
    BY <2>1, <1>9
  <2>4. \A i \in 1 .. Len(cs) :
          /\ lo[cs[i].lane] <= cs[i].pos /\ cs[i].pos < hi[cs[i].lane]
          /\ cs[i].tok = T[cs[i].lane][cs[i].pos + 1]
    BY <2>1, <1>7
  <2> QED
    BY ONLY <2>1, <2>2, <2>3, <2>4 DEF Feeds
<1> QED
  BY <1>2, <1>10

-----------------------------------------------------------------------------
(* Numbering.                                                              *)

\* The members of a finite set of numbers, numbered in their order.
LEMMA Numbered ==
    ASSUME NEW S, S \subseteq Nat, IsFiniteSet(S)
    PROVE  /\ Cardinality(S) \in Nat
           /\ \A s \in S : Cardinality({u \in S : u < s}) \in 0 .. Cardinality(S) - 1
           /\ \A s, t \in S : Cardinality({u \in S : u < s}) = Cardinality({u \in S : u < t}) => s = t
           /\ \A k \in 0 .. Cardinality(S) - 1 : \E s \in S : Cardinality({u \in S : u < s}) = k
<1> DEFINE Below(s) == {u \in S : u < s}
<1>0. \A s : \A u : u \in Below(s) <=> u \in S /\ u < s
  OBVIOUS
<1> HIDE DEF Below
<1>1. Cardinality(S) \in Nat
  BY FS_CardinalityType
<1>2. ASSUME NEW s \in S
      PROVE  IsFiniteSet(Below(s)) /\ Cardinality(Below(s)) \in Nat /\ Cardinality(Below(s)) < Cardinality(S)
  <2>1. Below(s) \in SUBSET S /\ s \notin Below(s)
    BY <1>0
  <2>2. IsFiniteSet(Below(s)) /\ Cardinality(Below(s)) \in Nat
    BY <2>1, FS_Subset, FS_CardinalityType
  <2>3. Below(s) # S
    BY <2>1
  <2> QED
    BY <2>1, <2>2, <2>3, ProperPart
<1>3. ASSUME NEW s \in S, NEW u \in S, s < u PROVE Cardinality(Below(s)) < Cardinality(Below(u))
  <2>1. s \in Below(u) /\ s \notin Below(s)
    BY <1>0, <1>3
  <2>2. ASSUME NEW v \in Below(s) PROVE v \in Below(u)
    <3>1. v \in S /\ v < s
      BY <1>0
    <3>2. v < u
      BY <1>3, <3>1
    <3> QED
      BY <1>0, <3>1, <3>2
  <2>3. Below(s) \in SUBSET Below(u) /\ Below(s) # Below(u)
    BY <2>1, <2>2
  <2> QED
    BY <1>2, <2>3, ProperPart
<1>4. ASSUME NEW s \in S, NEW u \in S, Cardinality(Below(s)) = Cardinality(Below(u)) PROVE s = u
  <2>1. ~ (s < u) /\ ~ (u < s)
    BY <1>2, <1>3, <1>4
  <2> QED
    BY <2>1
<1>5. \A s \in S : Cardinality(Below(s)) \in 0 .. Cardinality(S) - 1
  BY <1>1, <1>2
<1>6. \A k \in 0 .. Cardinality(S) - 1 : \E s \in S : Cardinality(Below(s)) = k
  <2> DEFINE f == [s \in S |-> Cardinality(Below(s))]
             T == 0 .. Cardinality(S) - 1
  <2>1. f \in [S -> T] /\ \A s, u \in S : f[s] = f[u] => s = u
    BY <1>4, <1>5
  <2>2. IsFiniteSet(T) /\ Cardinality(T) = Cardinality(S)
    <3>1. PICK b \in Int : b = Cardinality(S) - 1
      BY <1>1
    <3>2. IsFiniteSet(0 .. b) /\ Cardinality(0 .. b) = IF 0 > b THEN 0 ELSE b - 0 + 1
      BY FS_Interval
    <3> QED
      BY <1>1, <3>1, <3>2
  <2> HIDE DEF f, T
  <2>3. \A k \in T : \E s \in S : f[s] = k
    <3>1. f \in Injection(S, T)
      BY <2>1 DEF Injection, IsInjective
    <3>2. f \in Surjection(S, T)
      BY <2>2, <3>1, FS_Injection
    <3> QED
      BY <3>2 DEF Surjection
  <2> QED
    BY <2>3 DEF f, T
<1> QED
  BY <1>1, <1>4, <1>5, <1>6 DEF Below

\* The order in which the columns of slots come.
LEMMA InOrder ==
    ASSUME NEW S, S \subseteq Lanes
    PROVE  /\ Cardinality(S) \in Nat /\ Cardinality(S) <= B
           /\ \E L \in [1 .. Cardinality(S) -> S] :
                 /\ L = [i \in 1 .. Cardinality(S) |->
                            CHOOSE s \in S : Cardinality({u \in S : u < s}) = i - 1]
                 /\ \A i, j \in 1 .. Cardinality(S) : L[i] = L[j] => i = j
                 /\ \A s \in S : \E i \in 1 .. Cardinality(S) : L[i] = s
<1>1. /\ IsFiniteSet(Lanes) /\ Cardinality(Lanes) = B /\ Lanes \subseteq Nat
  <2>1. PICK b \in Int : b = B - 1
    BY LanesFit
  <2>2. IsFiniteSet(0 .. b) /\ Cardinality(0 .. b) = IF 0 > b THEN 0 ELSE b - 0 + 1
    BY FS_Interval
  <2> QED
    BY <2>1, <2>2, LanesFit DEF Lanes
<1>2. IsFiniteSet(S) /\ Cardinality(S) <= B /\ S \subseteq Nat
  BY <1>1, FS_Subset
<1> DEFINE n == Cardinality(S)
           L == [i \in 1 .. n |-> CHOOSE s \in S : Cardinality({u \in S : u < s}) = i - 1]
<1>3. /\ n \in Nat
      /\ \A s \in S : Cardinality({u \in S : u < s}) \in 0 .. n - 1
      /\ \A s, t \in S : Cardinality({u \in S : u < s}) = Cardinality({u \in S : u < t}) => s = t
      /\ \A k \in 0 .. n - 1 : \E s \in S : Cardinality({u \in S : u < s}) = k
  BY <1>2, Numbered
<1>4. ASSUME NEW i \in 1 .. n
      PROVE  L[i] \in S /\ Cardinality({u \in S : u < L[i]}) = i - 1
  <2>1. i - 1 \in 0 .. n - 1
    BY <1>3
  <2>2. \E s \in S : Cardinality({u \in S : u < s}) = i - 1
    BY <1>3, <2>1
  <2>3. L[i] = CHOOSE s \in S : Cardinality({u \in S : u < s}) = i - 1
    OBVIOUS
  <2> HIDE DEF L
  <2> QED
    BY <2>2, <2>3
<1>5. L \in [1 .. n -> S]
  BY <1>4
<1>6. ASSUME NEW s \in S PROVE \E i \in 1 .. n : L[i] = s
  <2>1. PICK k \in 0 .. n - 1 : k = Cardinality({u \in S : u < s})
    BY <1>3
  <2>2. PICK i \in 1 .. n : i = k + 1
    BY <1>3
  <2>3. L[i] \in S /\ Cardinality({u \in S : u < L[i]}) = i - 1
    BY <1>4
  <2>4. i - 1 = k
    BY <2>2
  <2>5. L[i] = s
    <3> HIDE DEF L
    <3> QED
      BY <1>3, <2>1, <2>3, <2>4
  <2> QED
    BY <2>5
<1>7. ASSUME NEW i \in 1 .. n, NEW j \in 1 .. n, L[i] = L[j] PROVE i = j
  <2>1. i - 1 = j - 1
    <3> HIDE DEF L
    <3> QED
      BY <1>4, <1>7
  <2> QED
    BY <1>3, <2>1
<1>8. L = [i \in 1 .. n |-> CHOOSE s \in S : Cardinality({u \in S : u < s}) = i - 1]
  OBVIOUS
<1> HIDE DEF L
<1> QED
  BY <1>2, <1>3, <1>5, <1>6, <1>7, <1>8

-----------------------------------------------------------------------------
(* What most steps do.                                                     *)

LEMMA LaneEnds ==
    /\ \A l : LaneEnd(l) \in 1 .. MaxSeq
    /\ job.mode \in DenseModes => \A l : LaneEnd(l) = MaxSeq
<1>1. /\ Window \in Nat \ {0} /\ MoeMaxPos \in Nat \ {0}
      /\ Window <= MoeMaxPos /\ MoeMaxPos <= MaxSeq
  BY MoeAssumption
<1> QED
  BY <1>1, Sizes DEF LaneEnd

LEMMA FeedComputes ==
    ASSUME NEW cs, Feed(cs)
    PROVE  Compute(cs, Written(cs)) /\ logits' = Answers(Written(cs), cs)
  BY DEF Feed

\* The columns are of lanes of their own.
Separate(n, cs, L, P, K, ctx) ==
    /\ n \in Nat /\ L \in [1 .. n -> LaneSet]
    /\ cs = [i \in 1 .. n |-> Column(L[i], P[i], K[i])]
    /\ \A i, j \in 1 .. n : L[i] = L[j] => i = j
    /\ \A i \in 1 .. n : /\ K[i] \in Tokens /\ Keeps(L[i], ctx[i])
                         /\ Len(ctx[i]) = P[i] /\ P[i] < LaneEnd(L[i])
    /\ n <= MostColumns

FedSeparately(n, cs, L, P, K, ctx) ==
    /\ Len(cs) = n
    /\ lanes' \in [LaneSet -> LaneType] /\ clear' = TRUE /\ DispatchFits'
    /\ \A i \in 1 .. n :
          /\ Append(ctx[i], K[i]) \in Rows /\ Len(Append(ctx[i], K[i])) = P[i] + 1
          /\ Holds(job.kind, lanes'[L[i]], Append(ctx[i], K[i]))
          /\ Answer(Written(cs), cs[i]) = Choice(job.model, Append(ctx[i], K[i]))
          /\ Answer(Written(cs), cs[i]) \in Tokens
    /\ \A l \in LaneSet : (\A i \in 1 .. n : L[i] # l) => lanes'[l] = lanes[l]

LEMMA EachFed ==
    ASSUME StepInv, job \in Jobs, job' = job, NEW n, NEW cs, NEW L, NEW P, NEW K, NEW ctx,
           Separate(n, cs, L, P, K, ctx), Compute(cs, Written(cs))
    PROVE  FedSeparately(n, cs, L, P, K, ctx)
<1>n. /\ n \in Nat /\ L \in [1 .. n -> LaneSet]
      /\ \A i \in 1 .. n : /\ K[i] \in Tokens /\ Keeps(L[i], ctx[i])
                           /\ Len(ctx[i]) = P[i] /\ P[i] < LaneEnd(L[i])
  BY DEF Separate
<1>c. cs = [i \in 1 .. n |-> Column(L[i], P[i], K[i])]
  BY DEF Separate
<1>d. \A i, j \in 1 .. n : L[i] = L[j] => i = j
  BY DEF Separate
<1>m. n <= MostColumns
  BY DEF Separate
<1>t. n \in Nat /\ L \in [1 .. n -> LaneSet]
  BY <1>n
<1> USE <1>n, <1>d
<1> DEFINE At_(l) == CHOOSE i \in 1 .. n : L[i] = l
           Has(l) == \E i \in 1 .. n : L[i] = l
           lo == [l \in LaneSet |-> IF Has(l) THEN P[At_(l)] ELSE 0]
           hi == [l \in LaneSet |-> IF Has(l) THEN P[At_(l)] + 1 ELSE 0]
           T == [l \in LaneSet |-> IF Has(l) THEN Append(ctx[At_(l)], K[At_(l)]) ELSE <<>>]
<1>1. ASSUME NEW i \in 1 .. n
      PROVE  /\ Append(ctx[i], K[i]) \in Rows /\ Len(Append(ctx[i], K[i])) = P[i] + 1
             /\ P[i] \in Nat /\ P[i] < MaxSeq /\ L[i] \in LaneSet
             /\ Append(ctx[i], K[i])[P[i] + 1] = K[i]
             /\ SubSeq(Append(ctx[i], K[i]), 1, P[i]) = ctx[i]
             /\ SubSeq(Append(ctx[i], K[i]), 1, P[i] + 1) = Append(ctx[i], K[i])
             /\ Holds(job.kind, lanes[L[i]], ctx[i])
  <2>1. PICK c \in Rows, t \in Tokens : c = ctx[i] /\ t = K[i]
    BY DEF Keeps
  <2>2. /\ Append(c, t) \in Rows /\ Len(Append(c, t)) = Len(c) + 1 /\ Len(c) \in Nat
        /\ SubSeq(Append(c, t), 1, Len(c) + 1) = Append(c, t)
    BY Appended
  <2>3. Append(c, t)[Len(c) + 1] = t /\ SubSeq(Append(c, t), 1, Len(c)) = c
    BY <2>2 DEF Rows
  <2>4. Len(c) = P[i] /\ P[i] < LaneEnd(L[i]) /\ LaneEnd(L[i]) \in 1 .. MaxSeq
    BY <2>1, LaneEnds
  <2>5. Len(c) < MaxSeq
    BY <2>2, <2>4, Sizes
  <2> QED
    BY <2>1, <2>2, <2>3, <2>4, <2>5 DEF Keeps
<1>2. ASSUME NEW i \in 1 .. n
      PROVE  /\ lo[L[i]] = P[i] /\ hi[L[i]] = P[i] + 1 /\ T[L[i]] = Append(ctx[i], K[i])
             /\ Has(L[i])
  <2>1. At_(L[i]) \in 1 .. n /\ L[At_(L[i])] = L[i]
    OBVIOUS
  <2>2. At_(L[i]) = i
    <3> HIDE DEF At_
    <3> QED
      BY <2>1
  <2>3. Has(L[i]) /\ L[i] \in LaneSet
    OBVIOUS
  <2> HIDE DEF At_, Has
  <2> QED
    BY <2>2, <2>3
<1>3. ASSUME NEW l \in LaneSet, ~ Has(l)
      PROVE  lo[l] = 0 /\ hi[l] = 0 /\ T[l] = <<>>
  <2> HIDE DEF At_, Has
  <2> QED
    BY <1>3
<1>5. lo = [l \in LaneSet |-> lo[l]] /\ hi = [l \in LaneSet |-> hi[l]] /\ T = [l \in LaneSet |-> T[l]]
  OBVIOUS
<1>6. \A l : Has(l) <=> \E i \in 1 .. n : L[i] = l
  OBVIOUS
<1>0. \A i \in 1 .. n : cs[i].lane = L[i] /\ cs[i].pos = P[i]
  BY <1>c DEF Column
<1>4. \A i \in 1 .. n : P[i] < LaneEnd(L[i])
  OBVIOUS
<1> HIDE DEF lo, hi, T, At_, Has
<1> HIDE <1>n, <1>d
<1> USE <1>t
<1>7. ASSUME NEW l \in LaneSet PROVE lo[l] \in Nat /\ hi[l] \in Nat /\ T[l] \in Rows
  <2>1. CASE ~ Has(l)
    <3>1. <<>> \in Rows
      BY DEF Rows
    <3> QED
      BY <2>1, <3>1, <1>3
  <2>2. CASE Has(l)
    <3>1. PICK i \in 1 .. n : L[i] = l
      BY <2>2, <1>6
    <3>2. lo[L[i]] = P[i] /\ hi[L[i]] = P[i] + 1 /\ T[L[i]] = Append(ctx[i], K[i]) /\ P[i] \in Nat
      BY <1>1, <1>2
    <3>3. Append(ctx[i], K[i]) \in Rows
      BY <1>1
    <3> QED
      BY <3>1, <3>2, <3>3
  <2> QED
    BY <2>1, <2>2
<1>8. lo \in [LaneSet -> Nat] /\ hi \in [LaneSet -> Nat] /\ T \in [LaneSet -> Rows]
  BY <1>5, <1>7
<1>9. Feeds(cs, lo, hi, T) /\ Len(cs) = n
  <2>1. cs = [i \in 1 .. n |-> Column(L[i], lo[L[i]], T[L[i]][lo[L[i]] + 1])]
    <3>1. ASSUME NEW i \in 1 .. n
          PROVE  Column(L[i], P[i], K[i]) = Column(L[i], lo[L[i]], T[L[i]][lo[L[i]] + 1])
      BY <1>1, <1>2
    <3> QED
      BY <3>1, <1>c
  <2>2. ASSUME NEW i \in 1 .. n PROVE lo[L[i]] < MaxSeq /\ lo[L[i]] < Len(T[L[i]])
    <3>1. lo[L[i]] = P[i] /\ T[L[i]] = Append(ctx[i], K[i])
      BY <1>2
    <3>2. Len(Append(ctx[i], K[i])) = P[i] + 1 /\ P[i] \in Nat /\ P[i] < MaxSeq
      BY <1>1
    <3> QED
      BY <3>1, <3>2
  <2>3. ASSUME NEW l \in LaneSet
        PROVE  hi[l] = IF \E i \in 1 .. n : L[i] = l THEN lo[l] + 1 ELSE lo[l]
    <3>1. CASE Has(l)
      <4>1. PICK i \in 1 .. n : L[i] = l
        BY <3>1, <1>6
      <4>2. lo[L[i]] = P[i] /\ hi[L[i]] = P[i] + 1
        BY <1>2
      <4> QED
        BY <3>1, <4>1, <4>2, <1>6
    <3>2. CASE ~ Has(l)
      BY <3>2, <1>3, <1>6
    <3> QED
      BY <3>1, <3>2
  <2>4. Apart(n, L, cs, lo, hi, T)
    BY <1>8, <1>d, <2>1, <2>2, <2>3 DEF Apart
  <2> QED
    BY <2>4, FeedsEach
<1>10. Ready(lo, hi, T)
  <2>1. ASSUME NEW l \in LaneSet, lo[l] < hi[l]
        PROVE  /\ Holds(job.kind, lanes[l], SubSeq(T[l], 1, lo[l])) /\ hi[l] <= Len(T[l])
               /\ job.kind = "int4" => hi[l] <= lo[l] + W + 2
               /\ hi[l] <= LaneEnd(l)
    <3>1. Has(l)
      BY <2>1, <1>3
    <3>2. PICK i \in 1 .. n : L[i] = l
      BY <3>1, <1>6
    <3>3. lo[l] = P[i] /\ hi[l] = P[i] + 1 /\ T[l] = Append(ctx[i], K[i]) /\ P[i] \in Nat
      BY <3>2, <1>1, <1>2
    <3>6. /\ Len(Append(ctx[i], K[i])) = P[i] + 1
          /\ SubSeq(Append(ctx[i], K[i]), 1, P[i]) = ctx[i]
          /\ Holds(job.kind, lanes[l], ctx[i])
      BY <3>2, <1>1
    <3>4. Holds(job.kind, lanes[l], SubSeq(T[l], 1, lo[l])) /\ hi[l] = Len(T[l])
      BY <3>3, <3>6
    <3>5. P[i] < LaneEnd(l) /\ LaneEnd(l) \in Int
      BY <3>2, <1>4, LaneEnds
    <3> QED
      BY <3>3, <3>4, <3>5, Sizes
  <2> QED
    BY <1>8, <2>1 DEF Ready
<1>11. /\ lanes' \in [LaneSet -> LaneType] /\ clear' = TRUE /\ DispatchFits'
       /\ \A i \in 1 .. Len(cs) :
             /\ Answer(Written(cs), cs[i]) =
                   Choice(job.model, SubSeq(T[cs[i].lane], 1, cs[i].pos + 1))
             /\ Answer(Written(cs), cs[i]) \in Tokens
       /\ \A l \in LaneSet :
             IF lo[l] < hi[l] THEN Holds(job.kind, lanes'[l], SubSeq(T[l], 1, hi[l]))
                              ELSE lanes'[l] = lanes[l]
  BY <1>9, <1>10, <1>m, Fed, Compute(cs, Written(cs))
<1>12. ASSUME NEW i \in 1 .. n
       PROVE  /\ Holds(job.kind, lanes'[L[i]], Append(ctx[i], K[i]))
              /\ Answer(Written(cs), cs[i]) = Choice(job.model, Append(ctx[i], K[i]))
              /\ Answer(Written(cs), cs[i]) \in Tokens
  <2>1. lo[L[i]] < hi[L[i]]
    <3>1. P[i] \in Nat
      BY <1>1
    <3>2. lo[L[i]] = P[i] /\ hi[L[i]] = P[i] + 1
      BY <1>2
    <3> QED
      BY <3>1, <3>2
  <2>2. cs[i].lane = L[i] /\ cs[i].pos = P[i]
    BY <1>0
  <2>3. SubSeq(T[L[i]], 1, P[i] + 1) = Append(ctx[i], K[i]) /\ hi[L[i]] = P[i] + 1
    BY <1>1, <1>2
  <2>4. Holds(job.kind, lanes'[L[i]], SubSeq(T[L[i]], 1, hi[L[i]])) /\ L[i] \in LaneSet
    BY <1>11, <2>1
  <2>5. /\ Answer(Written(cs), cs[i]) = Choice(job.model, SubSeq(T[cs[i].lane], 1, cs[i].pos + 1))
        /\ Answer(Written(cs), cs[i]) \in Tokens
    BY <1>9, <1>11
  <2> QED
    BY <2>2, <2>3, <2>4, <2>5
<1>13. ASSUME NEW l \in LaneSet, \A i \in 1 .. n : L[i] # l PROVE lanes'[l] = lanes[l]
  <2>1. ~ Has(l)
    BY <1>6, <1>13
  <2>2. ~ (lo[l] < hi[l])
    BY <2>1, <1>3
  <2> QED
    BY <2>2, <1>11
<1> QED
  BY <1>1, <1>9, <1>11, <1>12, <1>13 DEF FedSeparately

\* One column.
LEMMA OneFed ==
    ASSUME StepInv, job \in Jobs, job' = job, NEW l \in LaneSet, NEW t \in Tokens,
           NEW p, NEW ctx, Keeps(l, ctx), Len(ctx) = p, p < LaneEnd(l), 1 <= MostColumns,
           Feed(<<Column(l, p, t)>>)
    PROVE  /\ StepInv'
           /\ Append(ctx, t) \in Rows /\ Len(Append(ctx, t)) = p + 1
           /\ Holds(job.kind, lanes'[l], Append(ctx, t))
           /\ logits'[0] = Choice(job.model, Append(ctx, t)) /\ logits'[0] \in Tokens
           /\ \A m \in LaneSet \ {l} : lanes'[m] = lanes[m]
           /\ LaneSet' = LaneSet
<1>1. PICK cs, L, P, K, C :
         /\ cs = <<Column(l, p, t)>>
         /\ L = [i \in 1 .. 1 |-> l] /\ P = [i \in 1 .. 1 |-> p]
         /\ K = [i \in 1 .. 1 |-> t] /\ C = [i \in 1 .. 1 |-> ctx]
  OBVIOUS
<1>2. 1 \in 1 .. 1
  OBVIOUS
<1>3. L[1] = l /\ P[1] = p /\ K[1] = t /\ C[1] = ctx
  BY <1>1, <1>2
<1>4. Compute(cs, Written(cs)) /\ logits' = Answers(Written(cs), cs)
  BY <1>1, FeedComputes
<1>5. Separate(1, cs, L, P, K, C)
  <2>1. cs = [i \in 1 .. 1 |-> Column(L[i], P[i], K[i])]
    BY <1>1
  <2>2. \A i \in 1 .. 1 : i = 1
    OBVIOUS
  <2>3. L \in [1 .. 1 -> LaneSet]
    BY <1>1
  <2> HIDE <1>1
  <2>4. \A i \in 1 .. 1 : /\ K[i] \in Tokens /\ Keeps(L[i], C[i])
                          /\ Len(C[i]) = P[i] /\ P[i] < LaneEnd(L[i])
    BY <1>3, <2>2
  <2>5. \A i, j \in 1 .. 1 : L[i] = L[j] => i = j
    BY <2>2
  <2> QED
    BY <2>1, <2>3, <2>4, <2>5 DEF Separate
<1>6. /\ Len(cs) = 1
      /\ lanes' \in [LaneSet -> LaneType] /\ clear' = TRUE /\ DispatchFits'
      /\ \A i \in 1 .. 1 :
            /\ Append(C[i], K[i]) \in Rows /\ Len(Append(C[i], K[i])) = P[i] + 1
            /\ Holds(job.kind, lanes'[L[i]], Append(C[i], K[i]))
            /\ Answer(Written(cs), cs[i]) = Choice(job.model, Append(C[i], K[i]))
            /\ Answer(Written(cs), cs[i]) \in Tokens
      /\ \A m \in LaneSet : (\A i \in 1 .. 1 : L[i] # m) => lanes'[m] = lanes[m]
  <2>1. FedSeparately(1, cs, L, P, K, C)
    BY <1>4, <1>5, EachFed
  <2> QED
    BY <2>1 DEF FedSeparately
<1>7. /\ Append(ctx, t) \in Rows /\ Len(Append(ctx, t)) = p + 1
      /\ Holds(job.kind, lanes'[l], Append(ctx, t))
      /\ Answer(Written(cs), cs[1]) = Choice(job.model, Append(ctx, t))
      /\ Answer(Written(cs), cs[1]) \in Tokens
      /\ \A m \in LaneSet \ {l} : lanes'[m] = lanes[m]
  <2> HIDE <1>1
  <2>1. \A i \in 1 .. 1 : i = 1
    OBVIOUS
  <2> QED
    BY <1>2, <1>3, <1>6, <2>1
<1>8. /\ logits'[0] = Answer(Written(cs), cs[1])
      /\ logits' \in [Lanes -> Tokens \union {Garbled}]
  <2>1. logits \in [Lanes -> Tokens \union {Garbled}]
    BY DEF StepInv
  <2>2. logits' = [m \in Lanes |-> IF m < 1 THEN Answer(Written(cs), cs[m + 1]) ELSE logits[m]]
    BY <1>4, <1>6 DEF Answers
  <2>3. \A m \in Lanes : m < 1 => m = 0
    BY DEF Lanes
  <2>4. 0 + 1 = 1 /\ 0 < 1
    OBVIOUS
  <2> QED
    BY <2>1, <2>2, <2>3, <2>4, <1>7, LanesFit
<1>9. LaneSet' = LaneSet
  BY DEF LaneSet, Lanes
<1>10. StepInv'
  BY <1>6, <1>8, <1>9 DEF StepInv
<1> QED
  BY <1>7, <1>8, <1>9, <1>10

LEMMA StepStays ==
    ASSUME StepInv, job' = job, UNCHANGED engine
    PROVE  StepInv' /\ \A l, ctx : Keeps(l, ctx) => ctx \in Rows /\ Holds(job.kind, lanes'[l], ctx)
<1>1. LaneSet' = LaneSet /\ MostColumns' = MostColumns /\ \A l : LaneEnd(l)' = LaneEnd(l)
  BY DEF LaneSet, Lanes, MostColumns, LaneEnd
<1>2. lanes' = lanes /\ cols' = cols /\ clear' = clear /\ logits' = logits
  BY DEF engine
<1> QED
  BY <1>1, <1>2 DEF StepInv, DispatchFits, Keeps

-----------------------------------------------------------------------------
(* Prompts and outputs.                                                    *)

LEMMA JobTypes ==
    ASSUME job \in Jobs
    PROVE  /\ job.kind \in Kinds /\ job.prompt \in Rows /\ Len(job.prompt) \in Nat
           /\ 1 <= Len(job.prompt) /\ Len(job.prompt) <= MaxSeq /\ job.n \in Nat
           /\ \A i \in 1 .. Len(job.prompt) : job.prompt[i] \in Tokens
<1>1. job.kind \in Kinds /\ job.prompt \in Rows /\ Len(job.prompt) \in 1 .. MaxSeq /\ job.n \in Nat
  BY EngineAssumption
<1> QED
  BY <1>1, Sizes DEF Rows

LEMMA PromptOfStays == ASSUME job' = job PROVE PromptOf' = PromptOf
  BY DEF PromptOf, Streams, Lanes, Reqs, Corpus, PromptIn

\* The tokens of a row of a corpus.
LEMMA CorpusTypes ==
    ASSUME job \in Jobs, NEW k \in Nat, NEW l \in Lanes
    PROVE  Corpus(k)[l] \in Tokens
<1>1. PICK n \in Nat : n = Len(job.prompt) /\ 1 <= n /\ \A i \in 1 .. n : job.prompt[i] \in Tokens
  BY JobTypes
<1>2. PICK m \in Nat : m = l + k
  BY DEF Lanes
<1>3. m % n \in 0 .. n - 1
  <2>1. n \in Nat \ {0}
    BY <1>1
  <2> QED
    BY <2>1, Divide
<1>4. PICK r \in 0 .. n - 1 : r = m % n
  BY <1>3
<1>5. r + 1 \in 1 .. n
  BY <1>1
<1>6. Corpus(k)[l] = job.prompt[r + 1]
  BY <1>1, <1>2, <1>4 DEF Corpus
<1> QED
  BY <1>1, <1>5, <1>6

LEMMA PromptOfTypes ==
    ASSUME job \in Jobs, job.mode \in DenseModes \union MoeModes
    PROVE  /\ DOMAIN PromptOf = Streams
           /\ \A r \in Streams : PromptOf[r] \in Rows /\ Len(PromptOf[r]) # 0
<1>1. DOMAIN PromptOf = Streams
  BY DEF PromptOf
<1>2. ASSUME NEW r \in Streams PROVE PromptOf[r] \in Rows /\ Len(PromptOf[r]) # 0
  <2>0. job.prompt \in Rows /\ Len(job.prompt) \in Nat /\ Len(job.prompt) # 0
    BY JobTypes
  <2>1. CASE job.mode \in {"cbatch", "mixed"} /\ r \in Reqs
    <3>1. PromptOf[r] = SubSeq(job.prompt, 1, job.plen[r])
      BY <2>1 DEF PromptOf, SlotModes
    <3>2. job.plen[r] \in 1 .. Lesser(Len(job.prompt), MaxSeq - 2)
      BY <2>1, DenseAssumption
    <3>3. job.plen[r] \in Nat /\ job.plen[r] # 0 /\ job.plen[r] <= Len(job.prompt)
      BY <2>0, <3>2, Sizes DEF Lesser
    <3> QED
      BY <2>0, <3>1, <3>3, FirstRows
  <2>2. CASE job.mode = "gguf"
    <3>1. PromptOf[r] = Append(job.prompt, Choice(job.model, job.prompt))
      BY <2>2 DEF PromptOf, SlotModes
    <3>2. Choice(job.model, job.prompt) \in Tokens
      BY <2>0, ChoiceIsToken
    <3> QED
      BY <2>0, <3>1, <3>2, Appended
  <2>3. CASE job.mode = "hybrid" /\ r \in Lanes
    <3>1. PromptOf[r] = <<Corpus(0)[r]>>
      BY <2>3 DEF PromptOf, SlotModes
    <3>2. Corpus(0)[r] \in Tokens
      BY <2>3, CorpusTypes
    <3> QED
      BY <3>1, <3>2 DEF Rows
  <2>4. CASE job.mode \in SlotModes /\ r \in Lanes
    <3>1. PromptOf[r] = Append(PromptIn(r), Choice(job.model, PromptIn(r)))
      BY <2>4 DEF PromptOf, SlotModes
    <3>2. PromptIn(r) \in Rows /\ Len(PromptIn(r)) \in 1 .. CbMaxPos - 1
      BY <2>4, MoeAssumption DEF PromptIn
    <3>3. Choice(job.model, PromptIn(r)) \in Tokens /\ Len(PromptIn(r)) \in Nat
      BY <3>2, ChoiceIsToken, MoeAssumption
    <3> QED
      BY <3>1, <3>2, <3>3, Appended
  <2>5. CASE /\ ~ (job.mode \in {"cbatch", "mixed"} /\ r \in Reqs)
             /\ job.mode # "gguf"
             /\ ~ (job.mode = "hybrid" /\ r \in Lanes)
             /\ ~ (job.mode \in SlotModes /\ r \in Lanes)
    <3>1. PromptOf[r] = job.prompt
      BY <2>5 DEF PromptOf
    <3> QED
      BY <2>0, <3>1
  <2> QED
    BY <2>1, <2>2, <2>3, <2>4, <2>5
<1> QED
  BY <1>1, <1>2

LEMMA NothingContinues == \A p : Continued(p, <<>>)
  BY DEF Continued

\* Texts: what a prompt and an output make.
LEMMA TextTypes ==
    ASSUME NEW p \in Rows, NEW o \in Rows
    PROVE  /\ p \o o \in Rows /\ Len(p \o o) = Len(p) + Len(o)
           /\ Len(p) \in Nat /\ Len(o) \in Nat
           /\ \A i \in 1 .. Len(p) : (p \o o)[i] = p[i]
           /\ \A i \in 1 .. Len(o) : (p \o o)[Len(p) + i] = o[i]
           /\ SubSeq(p \o o, 1, Len(p)) = p
           /\ p \o <<>> = p
<1>1. p \in Seq(Tokens) /\ o \in Seq(Tokens)
  BY DEF Rows
<1>2. /\ p \o o \in Seq(Tokens) /\ Len(p \o o) = Len(p) + Len(o)
      /\ Len(p) \in Nat /\ Len(o) \in Nat
      /\ \A i \in 1 .. Len(p) : (p \o o)[i] = p[i]
      /\ \A i \in 1 .. Len(o) : (p \o o)[Len(p) + i] = o[i]
  BY <1>1, Concatenated
<1>3. SubSeq(p \o o, 1, Len(p)) = p
  <2>1. PICK t : t = p \o o
    OBVIOUS
  <2>2. t \in Seq(Tokens) /\ Len(p) <= Len(t) /\ \A i \in 1 .. Len(p) : t[i] = p[i]
    BY <1>2, <2>1
  <2>3. SubSeq(t, 1, Len(p)) = p
    BY <1>1, <1>2, <2>2
  <2> QED
    BY <2>1, <2>3
<1>4. p \o <<>> = p
  BY <1>1, ConcatEmptySeq
<1> QED
  BY <1>2, <1>3, <1>4 DEF Rows

LEMMA Extended ==
    ASSUME NEW p \in Rows, NEW o \in Rows, NEW t \in Tokens
    PROVE  /\ p \o Append(o, t) = Append(p \o o, t)
           /\ Append(o, t) \in Rows /\ Len(Append(o, t)) = Len(o) + 1 /\ Len(o) \in Nat
           /\ Append(o, t)[Len(o) + 1] = t
           /\ \A i \in 1 .. Len(o) : Append(o, t)[i] = o[i]
           /\ \A i \in 0 .. Len(o) : SubSeq(Append(o, t), 1, i) = SubSeq(o, 1, i)
<1>1. p \in Seq(Tokens) /\ o \in Seq(Tokens)
  BY DEF Rows
<1>2. /\ Append(o, t) \in Seq(Tokens) /\ Len(Append(o, t)) = Len(o) + 1 /\ Len(o) \in Nat
      /\ Append(o, t)[Len(o) + 1] = t
      /\ \A i \in 1 .. Len(o) : Append(o, t)[i] = o[i]
  BY <1>1
<1>3. ASSUME NEW i \in 0 .. Len(o) PROVE SubSeq(Append(o, t), 1, i) = SubSeq(o, 1, i)
  BY <1>1, <1>2
<1>4. p \o Append(o, t) = Append(p \o o, t)
  BY <1>1, <1>2
<1> QED
  BY <1>1, <1>2, <1>3, <1>4 DEF Rows

\* A model's choice is appended.
LEMMA Emits ==
    ASSUME job \in Jobs, NEW p \in Rows, Len(p) # 0, NEW o \in Rows, Continued(p, o),
           NEW t, t = Choice(job.model, p \o o)
    PROVE  t \in Tokens /\ Append(o, t) \in Rows /\ Continued(p, Append(o, t))
<1>1. p \o o \in Rows /\ Len(p \o o) # 0
  BY TextTypes
<1>2. t \in Tokens
  BY <1>1, ChoiceIsToken
<1>3. /\ Append(o, t) \in Rows /\ Len(Append(o, t)) = Len(o) + 1 /\ Len(o) \in Nat
      /\ Append(o, t)[Len(o) + 1] = t
      /\ \A i \in 1 .. Len(o) : Append(o, t)[i] = o[i]
      /\ \A i \in 0 .. Len(o) : SubSeq(Append(o, t), 1, i) = SubSeq(o, 1, i)
  BY <1>2, Extended
<1>4. ASSUME NEW i \in 1 .. Len(Append(o, t))
      PROVE  Append(o, t)[i] = Choice(job.model, p \o SubSeq(Append(o, t), 1, i - 1))
  <2>1. i - 1 \in 0 .. Len(o)
    BY <1>3
  <2>2. SubSeq(Append(o, t), 1, i - 1) = SubSeq(o, 1, i - 1)
    BY <1>3, <2>1
  <2>3. CASE i = Len(o) + 1
    <3>1. SubSeq(o, 1, i - 1) = o
      <4>1. i - 1 = Len(o)
        BY <1>3, <2>3
      <4>2. SubSeq(o, 1, Len(o)) = o
        BY <1>3, FirstRows
      <4> QED
        BY <4>1, <4>2
    <3> QED
      BY <1>3, <2>2, <2>3, <3>1
  <2>4. CASE i # Len(o) + 1
    <3>1. i \in 1 .. Len(o)
      BY <1>3, <2>4
    <3>2. o[i] = Choice(job.model, p \o SubSeq(o, 1, i - 1))
      BY <3>1 DEF Continued
    <3> QED
      BY <1>3, <2>2, <3>1, <3>2
  <2> QED
    BY <2>3, <2>4
<1> QED
  BY <1>2, <1>3, <1>4 DEF Continued

\* The streams after a step that lets those a mode writes to continue.
LEMMA StreamsAfter ==
    ASSUME StreamsInv, job' = job, out' \in [Streams -> Rows],
           \A r \in Streams : \/ out'[r] = out[r]
                              \/ r \in Writing /\ Continued(PromptOf[r], out'[r])
    PROVE  StreamsInv'
<1>1. PromptOf' = PromptOf /\ Writing' = Writing /\ Streams' = Streams
  BY PromptOfStays DEF Writing, Lanes, Reqs, Streams
<1>2. ASSUME NEW r \in Streams PROVE Continued(PromptOf[r], out'[r])
  BY DEF StreamsInv
<1>3. ASSUME NEW r \in Streams \ Writing PROVE out'[r] = <<>>
  BY DEF StreamsInv
<1>4. \A r \in Streams : Continued(PromptOf[r], out[r])'
  BY <1>1, <1>2 DEF Continued
<1> QED
  BY <1>1, <1>3, <1>4 DEF StreamsInv

LEMMA StreamsStay == ASSUME StreamsInv, job' = job, out' = out PROVE StreamsInv'
  BY StreamsAfter DEF StreamsInv

\* A column in each of the lanes of a batch.
RowOfColumns(p, K, ctx, cs) ==
    /\ cs = [i \in 1 .. B |-> Column(i - 1, p, K[i - 1])]
    /\ \A l \in Lanes : /\ K[l] \in Tokens /\ Keeps(l, ctx[l]) /\ Len(ctx[l]) = p
                         /\ p < LaneEnd(l)

RowIsFed(p, K, ctx) ==
    \A l \in Lanes :
        /\ Append(ctx[l], K[l]) \in Rows /\ Len(Append(ctx[l], K[l])) = p + 1
        /\ Holds(job.kind, lanes'[l], Append(ctx[l], K[l]))
        /\ logits'[l] = Choice(job.model, Append(ctx[l], K[l])) /\ logits'[l] \in Tokens

LEMMA RowsFed ==
    ASSUME StepInv, job \in Jobs, job' = job, NEW p, NEW K, NEW ctx, NEW cs,
           RowOfColumns(p, K, ctx, cs), B <= MostColumns, Feed(cs)
    PROVE  /\ StepInv' /\ LaneSet' = LaneSet /\ RowIsFed(p, K, ctx)
           /\ \A m \in LaneSet \ Lanes : lanes'[m] = lanes[m]
<1>a. cs = [i \in 1 .. B |-> Column(i - 1, p, K[i - 1])]
  BY DEF RowOfColumns
<1>b. \A l \in Lanes : /\ K[l] \in Tokens /\ Keeps(l, ctx[l]) /\ Len(ctx[l]) = p
                       /\ p < LaneEnd(l)
  BY DEF RowOfColumns
<1>1. PICK L, P, KK, C :
         /\ L = [i \in 1 .. B |-> i - 1] /\ P = [i \in 1 .. B |-> p]
         /\ KK = [i \in 1 .. B |-> K[i - 1]] /\ C = [i \in 1 .. B |-> ctx[i - 1]]
  OBVIOUS
<1>2. \A i \in 1 .. B : /\ i - 1 \in Lanes /\ L[i] = i - 1 /\ P[i] = p
                        /\ KK[i] = K[i - 1] /\ C[i] = ctx[i - 1]
  BY <1>1, LanesFit DEF Lanes
<1>3. \A l \in Lanes : l + 1 \in 1 .. B /\ (l + 1) - 1 = l
  BY LanesFit DEF Lanes
<1>4. Compute(cs, Written(cs)) /\ logits' = Answers(Written(cs), cs)
  BY FeedComputes
<1>5. Separate(B, cs, L, P, KK, C)
  <2>1. cs = [i \in 1 .. B |-> Column(L[i], P[i], KK[i])]
    BY <1>2, <1>a
  <2>2. L \in [1 .. B -> LaneSet]
    BY <1>1, <1>2, LanesFit
  <2>3. ASSUME NEW i \in 1 .. B, NEW j \in 1 .. B, L[i] = L[j] PROVE i = j
    <3>1. i - 1 = j - 1
      BY <1>2, <2>3
    <3> QED
      BY <3>1, LanesFit
  <2>4. \A i \in 1 .. B : /\ KK[i] \in Tokens /\ Keeps(L[i], C[i])
                          /\ Len(C[i]) = P[i] /\ P[i] < LaneEnd(L[i])
    BY <1>2, <1>b
  <2> QED
    BY <2>1, <2>2, <2>3, <2>4, LanesFit DEF Separate
<1>6. /\ Len(cs) = B
      /\ lanes' \in [LaneSet -> LaneType] /\ clear' = TRUE /\ DispatchFits'
      /\ \A i \in 1 .. B :
            /\ Append(C[i], KK[i]) \in Rows /\ Len(Append(C[i], KK[i])) = P[i] + 1
            /\ Holds(job.kind, lanes'[L[i]], Append(C[i], KK[i]))
            /\ Answer(Written(cs), cs[i]) = Choice(job.model, Append(C[i], KK[i]))
            /\ Answer(Written(cs), cs[i]) \in Tokens
      /\ \A m \in LaneSet : (\A i \in 1 .. B : L[i] # m) => lanes'[m] = lanes[m]
  <2>1. FedSeparately(B, cs, L, P, KK, C)
    BY <1>4, <1>5, EachFed
  <2> QED
    BY <2>1 DEF FedSeparately
<1> HIDE <1>1
<1>7. ASSUME NEW l \in Lanes
      PROVE  /\ Append(ctx[l], K[l]) \in Rows /\ Len(Append(ctx[l], K[l])) = p + 1
             /\ Holds(job.kind, lanes'[l], Append(ctx[l], K[l]))
             /\ Answer(Written(cs), cs[l + 1]) = Choice(job.model, Append(ctx[l], K[l]))
             /\ Answer(Written(cs), cs[l + 1]) \in Tokens
  <2>1. PICK i \in 1 .. B : i = l + 1 /\ i - 1 = l
    BY <1>3
  <2>2. L[i] = l /\ P[i] = p /\ KK[i] = K[l] /\ C[i] = ctx[l]
    BY <1>2, <2>1
  <2> QED
    BY <1>6, <2>1, <2>2
<1>8. ASSUME NEW m \in LaneSet \ Lanes PROVE lanes'[m] = lanes[m]
  BY <1>2, <1>6
<1>9. logits' = [l \in Lanes |-> IF l < B THEN Answer(Written(cs), cs[l + 1]) ELSE logits[l]]
  <2>1. logits' = Answers(Written(cs), cs) /\ Len(cs) = B
    BY <1>4, <1>6
  <2> QED
    BY <2>1 DEF Answers
<1>10. \A l \in Lanes : l < B
  BY LanesFit DEF Lanes
<1>11. /\ \A l \in Lanes : logits'[l] = Answer(Written(cs), cs[l + 1])
       /\ logits' \in [Lanes -> Tokens \union {Garbled}]
  BY <1>7, <1>9, <1>10
<1>12. LaneSet' = LaneSet
  BY DEF LaneSet, Lanes
<1>13. StepInv'
  BY <1>6, <1>11, <1>12 DEF StepInv
<1> QED
  BY <1>7, <1>8, <1>11, <1>12, <1>13 DEF RowIsFed

-----------------------------------------------------------------------------
(* The modes of the dense engine without slots.                            *)

LEMMA SingleFacts ==
    ASSUME IInv, job.mode \in SingleModes
    PROVE  /\ job \in Jobs /\ StreamsInv /\ StepInv /\ Completed /\ SingleInv
           /\ LaneSet = Lanes /\ 0 \in Lanes /\ \A l : LaneEnd(l) = MaxSeq
           /\ 1 <= MostColumns /\ (job.mode = "serve" => B <= MostColumns)
           /\ Served \subseteq Lanes /\ 0 \in Served /\ Lanes \subseteq Streams /\ 0 \in Streams
           /\ (job.mode # "serve" => Served = {0}) /\ (job.mode = "serve" => Served = Lanes)
           /\ \A r \in Streams : PromptOf[r] = job.prompt
           /\ \A r \in Streams : Text(r) = job.prompt \o out[r]
           /\ Writing = IF job.mode \in {"greedy", "spec"} THEN {0}
                        ELSE IF job.mode = "serve" THEN Lanes ELSE {}
<1>1. job \in Jobs /\ StreamsInv /\ StepInv /\ Completed /\ SingleInv
  BY DEF IInv, ModeInv
<1>2. LaneSet = Lanes /\ \A l : LaneEnd(l) = MaxSeq
  BY DEF SingleModes, LaneSet, LaneEnd, DenseModes
<1>3. 1 <= MostColumns /\ (job.mode = "serve" => B <= MostColumns)
  <2>1. CASE job.mode = "spec"
    <3>1. MostColumns = MaxSpec
      BY <2>1 DEF MostColumns, DenseModes, MoeModes, ComparingModes
    <3> QED
      BY <2>1, <3>1, DenseAssumption
  <2>2. CASE job.mode # "spec"
    <3>1. job.mode \in DenseModes \ {"spec"}
      BY <2>2 DEF SingleModes, DenseModes
    <3>2. MostColumns = Cap[job.kind]
      BY <3>1 DEF MostColumns, DenseModes, MoeModes, ComparingModes
    <3>3. job.kind \in Kinds
      BY <1>1, JobTypes
    <3>4. Cap[job.kind] \in B .. W + 2
      BY <3>3, DenseAssumption
    <3> QED
      BY <3>2, <3>4, LanesFit, Sizes
  <2> QED
    BY <2>1, <2>2
<1>4. \A r \in Streams : PromptOf[r] = job.prompt
  BY DEF PromptOf, SlotModes, SingleModes
<1>5. \A r \in Streams : Text(r) = job.prompt \o out[r]
  BY <1>4 DEF Text
<1>6. Writing = IF job.mode \in {"greedy", "spec"} THEN {0}
                ELSE IF job.mode = "serve" THEN Lanes ELSE {}
  BY DEF Writing, SlotModes, SingleModes
<1> QED
  BY <1>1, <1>2, <1>3, <1>4, <1>5, <1>6, LanesFit DEF Served

LEMMA SingleAfter ==
    ASSUME IInv, job.mode \in SingleModes, job' = job,
           StreamsInv', StepInv', Completed', SingleInv'
    PROVE  IInv'
<1>1. job.mode \notin {"cbatch", "mixed"} \union MoeSingleModes \union SlotModes
  BY DEF SingleModes, MoeSingleModes, SlotModes, HostModes, DeviceModes
<1>2. ModeInv'
  BY <1>1 DEF ModeInv
<1> QED
  BY <1>2 DEF IInv

\* The lengths of the outputs that are owed.
LEMMA OwedSingle ==
    ASSUME job.mode \in SingleModes, job' = job
    PROVE  /\ \A r : Owed(r)' = Owed(r)
           /\ job.mode = "greedy" =>
                 Owed(0) = Lesser(job.n, MaxSeq - Len(job.prompt) + 1)
           /\ job.mode = "spec" => Owed(0) = Lesser(job.n, MaxSeq - Len(job.prompt))
           /\ job.mode \in {"greedy", "spec"} => \A r : r # 0 => Owed(r) = 0
           /\ job.mode = "serve" =>
                 \A r : Owed(r) = IF r \in Lanes THEN Lesser(job.n, MaxSeq - Len(job.prompt) - 1)
                                                 ELSE 0
           /\ job.mode \in {"bench", "ppl", "dump"} => \A r : Owed(r) = 0
<1>1. job'.mode \in SingleModes
  OBVIOUS
<1>2. CASE job.mode = "greedy"
  BY <1>2 DEF Owed, SlotModes, SingleModes
<1>3. CASE job.mode = "spec"
  BY <1>3 DEF Owed, SlotModes, SingleModes
<1>4. CASE job.mode = "serve"
  BY <1>4 DEF Owed, SlotModes, SingleModes, Lanes
<1>5. CASE job.mode \in {"bench", "ppl", "dump"}
  BY <1>5 DEF Owed, SlotModes, SingleModes
<1> QED
  BY <1>2, <1>3, <1>4, <1>5 DEF SingleModes

LEMMA TextAfter == ASSUME job' = job PROVE \A r : Text(r)' = PromptOf[r] \o out'[r]
  BY PromptOfStays DEF Text

\* The parts of SingleInv that no step changes.
LEMMA Idle ==
    ASSUME SingleInv, job' = job, UNCHANGED <<active, cbpos, scan, qhead, nact, req, pref, fed>>,
           rep' \in Nat
    PROVE  QueueIdle' /\ SlotsIdle' /\ scan' = 0 /\ Served' = Served /\ Lanes' = Lanes
  BY DEF SingleInv, QueueIdle, SlotsIdle, Served, Lanes

LEMMA PrefillKeeps == ASSUME IInv, job.mode \in SingleModes, Prefill PROVE IInv'
<1>1. /\ job \in Jobs /\ StreamsInv /\ StepInv /\ Completed /\ SingleInv
      /\ LaneSet = Lanes /\ 0 \in Lanes /\ \A l : LaneEnd(l) = MaxSeq
      /\ 1 <= MostColumns /\ (job.mode = "serve" => B <= MostColumns)
      /\ Served \subseteq Lanes /\ 0 \in Served /\ Lanes \subseteq Streams /\ 0 \in Streams
      /\ (job.mode # "serve" => Served = {0}) /\ (job.mode = "serve" => Served = Lanes)
      /\ \A r \in Streams : PromptOf[r] = job.prompt
  BY SingleFacts
<1>2. /\ pc = "prefill" /\ job' = job /\ out' = out /\ pos' = pos + 1
      /\ UNCHANGED <<active, cbpos, scan, qhead, nact, req, pref, fed, rep>>
      /\ pc' = IF pos + 2 = Len(job.prompt) THEN job.mode ELSE "prefill"
      /\ job.mode = "bench" => BenchLimit(job) >= 1
  BY DEF Prefill, cbatch, slots, queue
<1>3. /\ job.mode # "ppl" /\ pos + 1 < Len(job.prompt) /\ pos \in -1 .. MaxSeq - 1
      /\ \A l \in Served : Keeps(l, PromptSoFar)
      /\ job.mode = "spec" => hist = PromptSoFar
      /\ job.mode # "spec" => hist = <<>>
      /\ out = [r \in Streams |-> <<>>] /\ rep \in Nat
  BY <1>1, <1>2 DEF SingleInv, QueueIdle
<1>4. /\ job.prompt \in Rows /\ Len(job.prompt) \in Nat /\ Len(job.prompt) <= MaxSeq /\ job.n \in Nat
  BY <1>1, JobTypes
<1>5. PICK p \in Nat : p = pos + 1 /\ p < Len(job.prompt) /\ p < MaxSeq /\ p + 1 <= MaxSeq
  BY <1>3, <1>4, Sizes
<1>6. PICK ctx, t, new : /\ ctx = SubSeq(job.prompt, 1, p) /\ t = job.prompt[p + 1]
                         /\ new = SubSeq(job.prompt, 1, p + 1)
  OBVIOUS
<1>7. /\ ctx \in Rows /\ Len(ctx) = p /\ t \in Tokens /\ new = Append(ctx, t)
      /\ p + 1 = Len(job.prompt) => new = job.prompt
      /\ \A l \in Served : Keeps(l, ctx)
      /\ job.prompt[pos + 2] = t
  <2>1. ctx \in Rows /\ Len(ctx) = p /\ t \in Tokens /\ new = Append(ctx, t)
    <3>1. p \in Nat /\ p <= Len(job.prompt) /\ p < Len(job.prompt)
      BY <1>4, <1>5
    <3>2. /\ SubSeq(job.prompt, 1, p) \in Rows /\ Len(SubSeq(job.prompt, 1, p)) = p
          /\ job.prompt[p + 1] \in Tokens
          /\ SubSeq(job.prompt, 1, p + 1) = Append(SubSeq(job.prompt, 1, p), job.prompt[p + 1])
      BY <1>4, <3>1, FirstRows
    <3> QED
      BY <1>6, <3>2
  <2>2. p + 1 = Len(job.prompt) => new = job.prompt
    BY <1>4, <1>6, FirstRows
  <2>3. PromptSoFar = ctx /\ pos + 2 = p + 1
    BY <1>3, <1>5, <1>6 DEF PromptSoFar
  <2> QED
    BY <1>3, <1>6, <2>1, <2>2, <2>3
<1>8. /\ Feed(IF job.mode = "serve" THEN ServeStep(p, [l \in Lanes |-> t]) ELSE ForwardToken(p, t))
      /\ hist' = IF job.mode = "spec" THEN Append(hist, t) ELSE hist
  BY <1>5, <1>7 DEF Prefill
<1>9. /\ StepInv' /\ new \in Rows /\ Len(new) = p + 1
      /\ \A l \in Served : /\ Holds(job.kind, lanes'[l], new)
                           /\ logits'[l] = Choice(job.model, new) /\ logits'[l] \in Tokens
  <2>1. CASE job.mode # "serve"
    <3>1. Feed(<<Column(0, p, t)>>)
      BY <2>1, <1>8 DEF ForwardToken
    <3>2. 0 \in LaneSet /\ Keeps(0, ctx) /\ p < LaneEnd(0)
      BY <1>1, <1>5, <1>7
    <3>3. /\ StepInv' /\ Append(ctx, t) \in Rows /\ Len(Append(ctx, t)) = p + 1
          /\ Holds(job.kind, lanes'[0], Append(ctx, t))
          /\ logits'[0] = Choice(job.model, Append(ctx, t)) /\ logits'[0] \in Tokens
      BY <1>1, <1>2, <1>7, <3>1, <3>2, OneFed
    <3> QED
      BY <2>1, <1>1, <1>7, <3>3
  <2>2. CASE job.mode = "serve"
    <3>1. PICK K, C, cs : /\ K = [l \in Lanes |-> t] /\ C = [l \in Lanes |-> ctx]
                          /\ cs = [i \in 1 .. B |-> Column(i - 1, p, K[i - 1])]
      OBVIOUS
    <3>2. Feed(cs)
      BY <2>2, <3>1, <1>8 DEF ServeStep
    <3>3. \A l \in Lanes : /\ K[l] \in Tokens /\ Keeps(l, C[l]) /\ Len(C[l]) = p
                           /\ p < LaneEnd(l) /\ K[l] = t /\ C[l] = ctx
      BY <2>2, <3>1, <1>1, <1>5, <1>7
    <3>5. RowOfColumns(p, K, C, cs)
      BY <3>1, <3>3 DEF RowOfColumns
    <3>6. StepInv' /\ RowIsFed(p, K, C)
      BY <2>2, <3>2, <3>5, <1>1, <1>2, RowsFed
    <3>4. \A l \in Lanes :
             /\ Append(C[l], K[l]) \in Rows /\ Len(Append(C[l], K[l])) = p + 1
             /\ Holds(job.kind, lanes'[l], Append(C[l], K[l]))
             /\ logits'[l] = Choice(job.model, Append(C[l], K[l])) /\ logits'[l] \in Tokens
      BY <3>6 DEF RowIsFed
    <3> QED
      BY <2>2, <1>1, <1>7, <3>3, <3>4, <3>6
  <2> QED
    BY <2>1, <2>2
<1>10. StreamsInv'
  BY <1>1, <1>2, StreamsStay
<1>11. pc' \in {"prefill", "greedy", "spec", "serve", "bench", "dump"} /\ pc' \in {"prefill", job.mode}
  BY <1>2, <1>3 DEF SingleModes
<1>12. Completed'
  BY <1>11 DEF Completed
<1>13. pos' = p /\ PromptSoFar' = new /\ (pc' = "prefill" => p + 1 < Len(job.prompt))
       /\ (pc' # "prefill" => p + 1 = Len(job.prompt) /\ new = job.prompt)
  <2>1. pos' = p /\ pos + 2 = p + 1
    BY <1>2, <1>3, <1>5
  <2>2. PromptSoFar' = SubSeq(job.prompt, 1, p + 1)
    BY <2>1, <1>2 DEF PromptSoFar
  <2>3. p + 1 <= Len(job.prompt)
    BY <1>4, <1>5
  <2>4. job.mode # "prefill"
    BY DEF SingleModes
  <2>5. pc' = IF p + 1 = Len(job.prompt) THEN job.mode ELSE "prefill"
    BY <2>1, <1>2
  <2>6. PromptSoFar' = new
    BY <2>2, <1>6
  <2>7. p + 1 # Len(job.prompt) => p + 1 < Len(job.prompt)
    BY <2>3, <1>4
  <2> QED
    BY <2>1, <2>4, <2>5, <2>6, <2>7, <1>7
<1>14. /\ QueueIdle' /\ SlotsIdle' /\ scan' = 0 /\ Served' = Served /\ Streams' = Streams
  BY <1>1, <1>2, <1>3, Idle DEF Streams, Lanes, Reqs
<1>15. pc' # "prefill" => \A l \in Served : Text(l)' = new
  <2> SUFFICES ASSUME pc' # "prefill", NEW l \in Served PROVE Text(l)' = new
    OBVIOUS
  <2>1. Text(l)' = PromptOf[l] \o out'[l]
    BY <1>2, TextAfter
  <2>2. PromptOf[l] = job.prompt /\ out'[l] = <<>>
    BY <1>1, <1>2, <1>3
  <2>3. job.prompt \o <<>> = job.prompt
    BY <1>4, TextTypes DEF Rows
  <2> QED
    BY <2>1, <2>2, <2>3, <1>13
<1>16. /\ job.mode # "spec" => hist' = <<>>
       /\ job.mode = "spec" => hist' = new
       /\ Len(hist') <= MaxSeq
  <2>1. job.mode = "spec" => hist' = new
    BY <1>3, <1>5, <1>6, <1>7, <1>8 DEF PromptSoFar
  <2>2. job.mode # "spec" => hist' = <<>>
    BY <1>3, <1>8
  <2> QED
    BY <2>1, <2>2, <1>5, <1>9, Sizes
<1>17. (pc = "prefill" =>
          /\ job.mode # "ppl" /\ pos + 1 < Len(job.prompt)
          /\ \A l \in Served : Keeps(l, PromptSoFar)
          /\ job.mode = "spec" => hist = PromptSoFar
          /\ out = [r \in Streams |-> <<>>])'
  BY <1>2, <1>3, <1>9, <1>13, <1>14, <1>16 DEF Keeps
<1>18. (pc \in {"greedy", "spec", "serve"} =>
          \A l \in Served : /\ Keeps(l, Text(l)) /\ Len(Text(l)) = pos + 1
                            /\ logits[l] = Choice(job.model, Text(l)))'
  BY <1>2, <1>9, <1>13, <1>14, <1>15 DEF Keeps
<1>19. /\ (pc \in {"greedy", "spec"} => Len(out[0]) <= job.n)'
       /\ (pc = "serve" => Len(out[0]) <= ServeLimit(job))'
  <2>1. out'[0] = <<>> /\ Len(<<>>) = 0
    BY <1>1, <1>2, <1>3
  <2>2. job.mode = "serve" => 0 <= ServeLimit(job)
    BY <1>1, <1>4, Sizes, DenseAssumption DEF ServeLimit
  <2>3. pc' = "serve" => job.mode = "serve"
    BY <1>11
  <2> QED
    BY <2>1, <2>2, <2>3, <1>2, <1>4
<1>20. (pc = "spec" => hist = Text(0))'
  BY <1>1, <1>11, <1>15, <1>16
<1>21. (pc = "bench" =>
          /\ BenchLimit(job) >= 1 /\ pos + 1 <= Len(job.prompt) + BenchWarm + BenchLimit(job)
          /\ logits[0] \in Tokens
          /\ \E ctx_ : Keeps(0, ctx_) /\ Len(ctx_) = pos + 1)'
  <2> SUFFICES ASSUME pc' = "bench"
               PROVE  /\ BenchLimit(job) >= 1 /\ p + 1 <= Len(job.prompt) + BenchWarm + BenchLimit(job)
                      /\ logits'[0] \in Tokens
                      /\ Keeps(0, new)' /\ Len(new) = p + 1
    BY <1>2, <1>13
  <2>1. job.mode = "bench" /\ BenchLimit(job) >= 1 /\ p + 1 = Len(job.prompt)
    BY <1>2, <1>11, <1>13
  <2>2. BenchLimit(job) \in Int /\ BenchWarm \in Nat
    BY <1>4, Sizes, DenseAssumption DEF BenchLimit, Lesser
  <2>3. Keeps(0, new)'
    BY <1>1, <1>2, <1>9 DEF Keeps
  <2> QED
    BY <1>1, <1>4, <1>9, <2>1, <2>2, <2>3
<1>22. SingleInv'
  <2>1. /\ pc' \in {"prefill", "done", "failed", job.mode}
        /\ pos' \in -1 .. MaxSeq - 1
        /\ pc' \notin {"ppl", "failed"} /\ job.mode # "ppl"
    BY <1>3, <1>5, <1>11, <1>13, Sizes
  <2> QED
    BY <2>1, <1>2, <1>14, <1>16, <1>17, <1>18, <1>19, <1>20, <1>21 DEF SingleInv
<1> QED
  BY <1>1, <1>2, <1>9, <1>10, <1>12, <1>22, SingleAfter

\* What a mode of the dense engine without slots is doing.
LEMMA SingleControl ==
    ASSUME SingleInv, job.mode \in SingleModes
    PROVE  /\ pc \in {"greedy", "spec", "serve", "bench", "ppl", "dump"} => job.mode = pc
           /\ pc \in {"prefill", "greedy", "spec", "serve", "bench", "ppl", "dump", "done", "failed"}
           /\ pos \in Int /\ -1 <= pos /\ pos < MaxSeq
  BY Sizes DEF SingleInv, SingleModes

\* The end of a mode keeps what SingleInv says.
LEMMA SingleEnds ==
    ASSUME SingleInv, job' = job, pc' = "done",
           UNCHANGED <<active, cbpos, scan, qhead, nact, req, pref, fed, rep, hist, pos>>
    PROVE  SingleInv'
<1>1. rep \in Nat
  BY DEF SingleInv, QueueIdle
<1>2. QueueIdle' /\ SlotsIdle' /\ scan' = 0
  BY <1>1, Idle
<1>3. pc' \in {"prefill", "done", "failed", job.mode}
  OBVIOUS
<1>4. /\ pos' \in -1 .. MaxSeq - 1 /\ Len(hist') <= MaxSeq
      /\ job.mode # "spec" => hist' = <<>>
      /\ job.mode = "ppl" => rep' >= 1
  BY DEF SingleInv
<1> QED
  BY <1>2, <1>3, <1>4 DEF SingleInv

LEMMA TextAppended ==
    ASSUME NEW p \in Rows, NEW o \in Rows, NEW t \in Tokens
    PROVE  p \o Append(o, t) = Append(p \o o, t)
  BY Extended

\* The text of a stream that emits a token.
LEMMA TextGrows ==
    ASSUME job \in Jobs, job.mode \in DenseModes \union MoeModes, StreamsInv, job' = job,
           NEW r \in Streams, NEW t, t = Choice(job.model, Text(r)), out'[r] = Append(out[r], t)
    PROVE  /\ t \in Tokens /\ Text(r) \in Rows /\ Text(r)' = Append(Text(r), t)
           /\ Len(Text(r)) = Len(PromptOf[r]) + Len(out[r])
           /\ Len(PromptOf[r]) \in Nat /\ Len(out[r]) \in Nat
           /\ out'[r] \in Rows /\ Len(out'[r]) = Len(out[r]) + 1
           /\ Continued(PromptOf[r], out'[r])
<1>1. PromptOf[r] \in Rows /\ Len(PromptOf[r]) # 0
  BY PromptOfTypes
<1>2. out[r] \in Rows /\ Continued(PromptOf[r], out[r])
  BY DEF StreamsInv
<1>3. PICK p \in Rows, o \in Rows : p = PromptOf[r] /\ o = out[r]
  BY <1>1, <1>2
<1>4. t = Choice(job.model, p \o o) /\ Text(r) = p \o o
  BY <1>3 DEF Text
<1>5. t \in Tokens /\ Append(o, t) \in Rows /\ Continued(p, Append(o, t))
  BY <1>1, <1>2, <1>3, <1>4, Emits
<1>6. Text(r)' = p \o Append(o, t)
  BY <1>3, TextAfter
<1>7. p \o Append(o, t) = Append(p \o o, t) /\ Len(Append(o, t)) = Len(o) + 1 /\ Len(o) \in Nat
  <2>1. p \o Append(o, t) = Append(p \o o, t)
    BY <1>5, TextAppended
  <2>2. Len(Append(o, t)) = Len(o) + 1 /\ Len(o) \in Nat
    BY <1>5, Appended
  <2> QED
    BY <2>1, <2>2
<1>8. p \o o \in Rows /\ Len(p \o o) = Len(p) + Len(o) /\ Len(p) \in Nat
  BY <1>1, <1>3, TextTypes DEF Rows
<1> QED
  BY <1>3, <1>4, <1>5, <1>6, <1>7, <1>8

LEMMA GreedyKeeps == ASSUME IInv, job.mode \in SingleModes, Greedy PROVE IInv'
<1>1. /\ job \in Jobs /\ StreamsInv /\ StepInv /\ Completed /\ SingleInv
      /\ LaneSet = Lanes /\ 0 \in Lanes /\ \A l : LaneEnd(l) = MaxSeq
      /\ 1 <= MostColumns /\ 0 \in Served /\ 0 \in Streams /\ Lanes \subseteq Streams
      /\ (job.mode # "serve" => Served = {0})
      /\ \A r \in Streams : PromptOf[r] = job.prompt
      /\ Writing = IF job.mode \in {"greedy", "spec"} THEN {0}
                   ELSE IF job.mode = "serve" THEN Lanes ELSE {}
  BY SingleFacts
<1>2. /\ pc = "greedy" /\ Len(out[0]) < job.n /\ job' = job
      /\ out' = [out EXCEPT ![0] = Append(@, logits[0])]
      /\ UNCHANGED <<hist, active, cbpos, scan, qhead, nact, req, pref, fed, rep>>
  BY DEF Greedy, cbatch, slots, queue
<1>3. job.mode = "greedy" /\ pos \in Int /\ -1 <= pos /\ pos < MaxSeq /\ Served = {0}
  BY <1>1, <1>2, SingleControl
<1>4. /\ Keeps(0, Text(0)) /\ Len(Text(0)) = pos + 1 /\ logits[0] = Choice(job.model, Text(0))
      /\ hist = <<>> /\ rep \in Nat
  BY <1>1, <1>2, <1>3 DEF SingleInv, QueueIdle
<1>5. PICK t : t = logits[0]
  OBVIOUS
<1>6. out \in [Streams -> Rows] /\ out' = [out EXCEPT ![0] = Append(@, t)]
  BY <1>1, <1>2, <1>5 DEF StreamsInv
<1>7. out'[0] = Append(out[0], t) /\ \A r \in Streams : r # 0 => out'[r] = out[r]
  BY <1>1, <1>6
<1>8. /\ t \in Tokens /\ Text(0) \in Rows /\ Text(0)' = Append(Text(0), t)
      /\ Len(Text(0)) = Len(job.prompt) + Len(out[0])
      /\ Len(job.prompt) \in Nat /\ Len(out[0]) \in Nat
      /\ out'[0] \in Rows /\ Len(out'[0]) = Len(out[0]) + 1
      /\ Continued(PromptOf[0], out'[0])
  BY <1>1, <1>2, <1>3, <1>4, <1>5, <1>7, TextGrows DEF DenseModes
<1>9. StreamsInv'
  <2>1. out' \in [Streams -> Rows]
    BY <1>6, <1>8
  <2> QED
    BY <2>1, <1>1, <1>2, <1>3, <1>7, <1>8, StreamsAfter
<1>10. job.n \in Nat /\ Len(out'[0]) <= job.n
  BY <1>1, <1>2, <1>8, JobTypes
<1>11. CASE pos + 1 >= MaxSeq
  <2>1. pc' = "done" /\ UNCHANGED engine /\ pos' = pos
    BY <1>2, <1>11 DEF Greedy
  <2>2. StepInv'
    BY <1>1, <1>2, <2>1, StepStays
  <2>3. SingleInv'
    BY <1>1, <1>2, <2>1, SingleEnds
  <2>4. Completed'
    <3>1. Len(out'[0]) = MaxSeq - Len(job.prompt) + 1
      <4>1. PICK k, m, x : k = Len(out[0]) /\ m = Len(job.prompt) /\ x = MaxSeq
        OBVIOUS
      <4>2. k \in Nat /\ m \in Nat /\ x \in Nat
        BY <4>1, <1>8, Sizes
      <4>3. m + k = pos + 1 /\ pos < x /\ pos + 1 >= x /\ pos \in Int
        BY <4>1, <1>3, <1>4, <1>8, <1>11
      <4>4. k + 1 = x - m + 1
        BY <4>2, <4>3
      <4> QED
        BY <4>1, <4>4, <1>8
    <3>2. Len(out'[0]) = Owed(0)
      <4>1. Owed(0) = Lesser(job.n, Len(out'[0]))
        BY <3>1, <1>2, <1>3, OwedSingle
      <4>2. Len(out'[0]) \in Nat
        BY <1>8
      <4> QED
        BY <4>1, <4>2, <1>10 DEF Lesser
    <3>3. ASSUME NEW r \in Streams, r # 0 PROVE Len(out'[r]) = Owed(r)
      <4>1. out[r] = <<>>
        BY <1>1, <1>3, <3>3 DEF StreamsInv
      <4> QED
        BY <1>2, <1>3, <1>7, <3>3, <4>1, OwedSingle
    <3>4. \A r : Owed(r)' = Owed(r)
      BY <1>2, OwedSingle
    <3>5. Streams' = Streams
      BY DEF Streams, Lanes, Reqs
    <3> QED
      BY <3>2, <3>3, <3>4, <3>5 DEF Completed
  <2> QED
    BY <1>1, <1>2, <1>9, <2>2, <2>3, <2>4, SingleAfter
<1>12. CASE ~ (pos + 1 >= MaxSeq)
  <2>1. pc' = "greedy" /\ pos' = pos + 1 /\ Feed(<<Column(0, pos + 1, t)>>)
    BY <1>2, <1>5, <1>12 DEF Greedy, ForwardToken
  <2>2. PICK p, ctx : p = pos + 1 /\ ctx = Text(0)
    OBVIOUS
  <2>3. p < LaneEnd(0) /\ Keeps(0, ctx) /\ Len(ctx) = p /\ 0 \in LaneSet
    BY <2>2, <1>1, <1>3, <1>4, <1>12, Sizes
  <2>4. /\ StepInv' /\ Append(ctx, t) \in Rows /\ Len(Append(ctx, t)) = p + 1
        /\ Holds(job.kind, lanes'[0], Append(ctx, t))
        /\ logits'[0] = Choice(job.model, Append(ctx, t))
    BY <2>1, <2>2, <2>3, <1>1, <1>2, <1>8, OneFed
  <2>5. Completed'
    BY <2>1 DEF Completed
  <2>6. Keeps(0, Text(0))' /\ Len(Text(0))' = pos' + 1 /\ logits'[0] = Choice(job.model, Text(0)')
    BY <2>1, <2>2, <2>4, <1>2, <1>8 DEF Keeps
  <2>7. QueueIdle' /\ SlotsIdle' /\ scan' = 0 /\ Served' = {0}
    BY <1>1, <1>2, <1>3, <1>4, Idle
  <2>8. pos' \in -1 .. MaxSeq - 1 /\ hist' = <<>> /\ Len(hist') <= MaxSeq
    BY <2>1, <1>2, <1>3, <1>4, <1>12, Sizes
  <2>9. SingleInv'
    BY <2>1, <2>6, <2>7, <2>8, <1>2, <1>3, <1>10 DEF SingleInv
  <2> QED
    BY <1>1, <1>2, <1>9, <2>4, <2>5, <2>9, SingleAfter
<1> QED
  BY <1>11, <1>12

LEMMA ServeLimits ==
    ASSUME job \in Jobs, job.mode = "serve"
    PROVE  /\ ServeLimit(job) \in Nat
           /\ ServeLimit(job) = Lesser(job.n, MaxSeq - Len(job.prompt) - 1)
           /\ Len(job.prompt) + ServeLimit(job) < MaxSeq
<1>1. Len(job.prompt) <= MaxSeq - 2
  BY DenseAssumption
<1>2. PICK n, m, x : n = job.n /\ m = Len(job.prompt) /\ x = MaxSeq
  OBVIOUS
<1>3. n \in Nat /\ m \in Nat /\ x \in Nat /\ m <= x - 2
  BY <1>1, <1>2, JobTypes, Sizes
<1>4. ServeLimit(job) = IF m + n >= x THEN x - m - 1 ELSE n
  BY <1>2 DEF ServeLimit
<1>5. /\ ServeLimit(job) \in Nat /\ ServeLimit(job) = Lesser(n, x - m - 1)
      /\ m + ServeLimit(job) < x
  BY <1>3, <1>4 DEF Lesser
<1> QED
  BY <1>2, <1>5

LEMMA ServeKeeps == ASSUME IInv, job.mode \in SingleModes, Serve PROVE IInv'
<1>1. /\ job \in Jobs /\ StreamsInv /\ StepInv /\ Completed /\ SingleInv
      /\ LaneSet = Lanes /\ 0 \in Lanes /\ \A l : LaneEnd(l) = MaxSeq
      /\ (job.mode = "serve" => B <= MostColumns)
      /\ (job.mode = "serve" => Served = Lanes) /\ Lanes \subseteq Streams
      /\ \A r \in Streams : PromptOf[r] = job.prompt
      /\ Writing = IF job.mode \in {"greedy", "spec"} THEN {0}
                   ELSE IF job.mode = "serve" THEN Lanes ELSE {}
  BY SingleFacts
<1>2. /\ pc = "serve" /\ Len(out[0]) < ServeLimit(job) /\ job' = job /\ pc' = pc
      /\ out' = [r \in Streams |-> IF r \in Lanes THEN Append(out[r], logits[r]) ELSE out[r]]
      /\ pos' = pos + 1 /\ Feed(ServeStep(pos + 1, logits))
      /\ UNCHANGED <<hist, active, cbpos, scan, qhead, nact, req, pref, fed, rep>>
  BY DEF Serve, cbatch, slots, queue
<1>3. job.mode = "serve" /\ pos \in Int /\ -1 <= pos /\ pos < MaxSeq /\ Served = Lanes
  BY <1>1, <1>2, SingleControl
<1>4. /\ \A l \in Lanes : /\ Keeps(l, Text(l)) /\ Len(Text(l)) = pos + 1
                          /\ logits[l] = Choice(job.model, Text(l))
      /\ hist = <<>> /\ rep \in Nat
  BY <1>1, <1>2, <1>3 DEF SingleInv, QueueIdle
<1>5. out \in [Streams -> Rows] /\ \A r \in Streams \ Lanes : out'[r] = out[r]
  BY <1>1, <1>2 DEF StreamsInv
<1>6. ASSUME NEW l \in Lanes
      PROVE  /\ logits[l] \in Tokens /\ Text(l) \in Rows /\ Text(l)' = Append(Text(l), logits[l])
             /\ Len(Text(l)) = Len(job.prompt) + Len(out[l])
             /\ Len(job.prompt) \in Nat /\ Len(out[l]) \in Nat
             /\ out'[l] \in Rows /\ Len(out'[l]) = Len(out[l]) + 1
             /\ Continued(PromptOf[l], out'[l])
  <2>1. l \in Streams /\ out'[l] = Append(out[l], logits[l])
    BY <1>1, <1>2
  <2>2. PICK t : t = logits[l]
    OBVIOUS
  <2>3. t = Choice(job.model, Text(l)) /\ out'[l] = Append(out[l], t)
    BY <1>4, <2>1, <2>2
  <2>4. /\ t \in Tokens /\ Text(l) \in Rows /\ Text(l)' = Append(Text(l), t)
        /\ Len(Text(l)) = Len(PromptOf[l]) + Len(out[l])
        /\ Len(PromptOf[l]) \in Nat /\ Len(out[l]) \in Nat
        /\ out'[l] \in Rows /\ Len(out'[l]) = Len(out[l]) + 1
        /\ Continued(PromptOf[l], out'[l])
    BY <1>1, <1>2, <1>3, <2>1, <2>3, TextGrows DEF DenseModes
  <2> QED
    BY <1>1, <2>1, <2>2, <2>4
<1>7. StreamsInv'
  <2>1. out' \in [Streams -> Rows]
    BY <1>2, <1>5, <1>6
  <2> QED
    BY <2>1, <1>1, <1>2, <1>3, <1>5, <1>6, StreamsAfter
<1>8. pos + 1 < MaxSeq /\ Len(out'[0]) <= ServeLimit(job)
  <2>1. PICK k, m, x, v : k = Len(out[0]) /\ m = Len(job.prompt) /\ x = MaxSeq /\ v = ServeLimit(job)
    OBVIOUS
  <2>2. k \in Nat /\ m \in Nat /\ x \in Nat /\ v \in Nat /\ m + v < x
    BY <2>1, <1>1, <1>3, <1>6, ServeLimits, Sizes
  <2>3. m + k = pos + 1 /\ k < v /\ pos \in Int /\ Len(out'[0]) = k + 1
    BY <2>1, <1>1, <1>2, <1>3, <1>4, <1>6
  <2>4. pos + 1 < x /\ k + 1 <= v
    BY <2>2, <2>3
  <2> QED
    BY <2>1, <2>3, <2>4
<1>9. PICK K, C, cs, p : /\ p = pos + 1 /\ K = logits /\ C = [l \in Lanes |-> Text(l)]
                         /\ cs = [i \in 1 .. B |-> Column(i - 1, p, K[i - 1])]
  OBVIOUS
<1>10. \A l \in Lanes : /\ K[l] \in Tokens /\ Keeps(l, C[l]) /\ Len(C[l]) = p
                        /\ p < LaneEnd(l) /\ K[l] = logits[l] /\ C[l] = Text(l)
  BY <1>1, <1>4, <1>6, <1>8, <1>9
<1>11. StepInv' /\ RowIsFed(p, K, C)
  <2>1. RowOfColumns(p, K, C, cs)
    BY <1>9, <1>10 DEF RowOfColumns
  <2>2. Feed(cs)
    BY <1>2, <1>9 DEF ServeStep
  <2> QED
    BY <2>1, <2>2, <1>1, <1>2, <1>3, RowsFed
<1>12. ASSUME NEW l \in Lanes
       PROVE  /\ Keeps(l, Text(l))' /\ Len(Text(l)') = pos' + 1
              /\ logits'[l] = Choice(job.model, Text(l)')
  <2>1. /\ Append(C[l], K[l]) \in Rows /\ Len(Append(C[l], K[l])) = p + 1
        /\ Holds(job.kind, lanes'[l], Append(C[l], K[l]))
        /\ logits'[l] = Choice(job.model, Append(C[l], K[l]))
    BY <1>11 DEF RowIsFed
  <2>2. Text(l)' = Append(C[l], K[l])
    BY <1>6, <1>10
  <2> QED
    BY <2>1, <2>2, <1>2, <1>9 DEF Keeps
<1>13. Completed'
  BY <1>2 DEF Completed
<1>14. QueueIdle' /\ SlotsIdle' /\ scan' = 0 /\ Served' = Lanes /\ Lanes' = Lanes
  BY <1>1, <1>2, <1>3, <1>4, Idle
<1>15. SingleInv'
  <2>1. pos' \in -1 .. MaxSeq - 1 /\ hist' = <<>> /\ Len(hist') <= MaxSeq
    BY <1>2, <1>3, <1>4, <1>8, Sizes
  <2>2. Len(out'[0]) <= ServeLimit(job') /\ pc' = "serve" /\ job'.mode = "serve"
    BY <1>2, <1>3, <1>8
  <2> QED
    BY <2>1, <2>2, <1>2, <1>12, <1>14 DEF SingleInv
<1> QED
  BY <1>1, <1>2, <1>3, <1>7, <1>11, <1>13, <1>15, SingleAfter

LEMMA StopKeeps == ASSUME IInv, job.mode \in SingleModes, Stop PROVE IInv'
<1>1. /\ job \in Jobs /\ StreamsInv /\ StepInv /\ Completed /\ SingleInv
      /\ 0 \in Served /\ 0 \in Streams /\ 0 \in Lanes
      /\ (job.mode = "serve" => Served = Lanes) /\ Lanes \subseteq Streams
      /\ \A r \in Streams : PromptOf[r] = job.prompt
      /\ \A r \in Streams : Text(r) = job.prompt \o out[r]
      /\ Writing = IF job.mode \in {"greedy", "spec"} THEN {0}
                   ELSE IF job.mode = "serve" THEN Lanes ELSE {}
  BY SingleFacts
<1>2. /\ Exhausted /\ pc' = "done" /\ job' = job /\ UNCHANGED engine /\ out' = out
      /\ UNCHANGED <<hist, pos, active, cbpos, scan, qhead, nact, req, pref, fed, rep>>
  BY DEF Stop, cbatch, slots, queue, single
<1>3. /\ pc \in {"greedy", "serve", "dump", "ppl", "spec"} /\ job.mode = pc
      /\ pos \in Int /\ -1 <= pos /\ pos < MaxSeq
  <2>1. pc \in {"greedy", "serve", "dump", "ppl", "spec"}
    BY <1>2 DEF Exhausted
  <2> QED
    BY <2>1, <1>1, SingleControl
<1>4. StreamsInv' /\ StepInv' /\ SingleInv'
  BY <1>1, <1>2, StreamsStay, StepStays, SingleEnds
<1>5. ASSUME NEW l \in Lanes
      PROVE  /\ Len(Text(l)) = Len(job.prompt) + Len(out[l])
             /\ Len(job.prompt) \in Nat /\ Len(out[l]) \in Nat
  <2>1. job.prompt \in Rows /\ out[l] \in Rows /\ Text(l) = job.prompt \o out[l]
    BY <1>1, JobTypes DEF StreamsInv
  <2> QED
    BY <2>1, TextTypes DEF Rows
<1>6. ASSUME NEW r \in Streams, r \notin Writing PROVE Len(out[r]) = Owed(r)
  <2>1. out[r] = <<>>
    BY <1>1, <1>6 DEF StreamsInv
  <2>2. Owed(r) = 0
    BY <1>1, <1>2, <1>3, <1>6, OwedSingle
  <2> QED
    BY <2>1, <2>2
<1>7. ASSUME NEW l \in Writing PROVE Len(out[l]) = Owed(l)
  <2>1. l \in Lanes /\ l \in Served /\ Writing = (IF job.mode = "serve" THEN Lanes ELSE {0})
        /\ job.mode \in {"greedy", "spec", "serve"}
    BY <1>1, <1>3
  <2>2. PICK k, m, x, n : k = Len(out[l]) /\ m = Len(job.prompt) /\ x = MaxSeq /\ n = job.n
    OBVIOUS
  <2>3. k \in Nat /\ m \in Nat /\ x \in Nat /\ n \in Nat
    BY <2>1, <2>2, <1>1, <1>5, JobTypes, Sizes
  <2>4. m + k = pos + 1 /\ pos < x
    <3>1. Len(Text(l)) = pos + 1
      BY <2>1, <1>1, <1>3 DEF SingleInv
    <3> QED
      BY <3>1, <2>1, <2>2, <1>3, <1>5
  <2>5. CASE job.mode = "greedy"
    <3>1. l = 0 /\ k >= n /\ k <= n
      BY <2>1, <2>2, <2>5, <1>1, <1>2, <1>3 DEF Exhausted, SingleInv
    <3>2. Owed(0) = Lesser(n, x - m + 1)
      BY <2>2, <2>5, <1>2, OwedSingle
    <3>3. PICK q \in Int : q = pos /\ m + k = q + 1 /\ q < x
      BY <2>4, <1>3
    <3>4. n <= x - m + 1 /\ k = n
      BY <2>3, <3>1, <3>3
    <3>5. k = Lesser(n, x - m + 1)
      BY <3>4 DEF Lesser
    <3> QED
      BY <2>2, <3>1, <3>2, <3>5
  <2>6. CASE job.mode = "spec"
    <3>1. l = 0 /\ (k >= n \/ pos + 1 >= x \/ Len(hist) >= x) /\ k <= n /\ hist = Text(0)
      BY <2>1, <2>2, <2>6, <1>1, <1>2, <1>3 DEF Exhausted, SingleInv
    <3>2. Owed(0) = Lesser(n, x - m)
      BY <2>2, <2>6, <1>2, OwedSingle
    <3>3. Len(hist) = pos + 1
      BY <3>1, <2>1, <2>6, <1>1, <1>3 DEF SingleInv
    <3>4. PICK q \in Int : q = pos /\ m + k = q + 1 /\ q < x
      BY <2>4, <1>3
    <3>5. k >= n \/ q + 1 >= x
      BY <3>1, <3>3, <3>4
    <3>6. k <= x - m /\ (k = n \/ k = x - m) /\ k <= n
      BY <2>3, <3>1, <3>4, <3>5
    <3>7. k = Lesser(n, x - m)
      <4>1. n \in Int /\ x - m \in Int /\ k \in Int
        BY <2>3
      <4> QED
        BY <4>1, <3>6 DEF Lesser
    <3> QED
      BY <2>2, <3>1, <3>2, <3>7
  <2>7. CASE job.mode = "serve"
    <3>1. Len(out[0]) >= ServeLimit(job) /\ Len(out[0]) <= ServeLimit(job)
      BY <2>7, <1>1, <1>2, <1>3 DEF Exhausted, SingleInv
    <3>2. Owed(l) = ServeLimit(job) /\ ServeLimit(job) \in Nat
      BY <2>1, <2>7, <1>1, <1>2, OwedSingle, ServeLimits
    <3>3. Len(Text(0)) = pos + 1
      BY <2>1, <2>7, <1>1, <1>3 DEF SingleInv
    <3>4. Len(out[0]) \in Nat /\ m + Len(out[0]) = pos + 1
      BY <3>3, <2>2, <1>1, <1>5
    <3>5. k = Len(out[0])
      BY <3>4, <2>3, <2>4
    <3>6. k = ServeLimit(job)
      BY <3>1, <3>2, <3>4, <3>5
    <3> QED
      BY <3>2, <3>6, <2>2
  <2> QED
    BY <2>1, <2>5, <2>6, <2>7
<1>8. Completed'
  <2>1. Streams' = Streams /\ \A r : Owed(r)' = Owed(r)
    BY <1>2, OwedSingle DEF Streams, Lanes, Reqs
  <2> QED
    BY <2>1, <1>2, <1>6, <1>7 DEF Completed
<1> QED
  BY <1>1, <1>2, <1>4, <1>8, SingleAfter

-----------------------------------------------------------------------------
(* Speculation.                                                            *)

LEMMA FedHeld ==
    ASSUME StepInv, job \in Jobs, job' = job, NEW cs, NEW lo, NEW hi, NEW T,
           Feeds(cs, lo, hi, T), Ready(lo, hi, T), Compute(cs, Written(cs))
    PROVE  \A i \in 1 .. Len(cs) :
              Holds(job.kind, lanes'[cs[i].lane], SubSeq(T[cs[i].lane], 1, cs[i].pos + 1))
<1> DEFINE C == [i \in 1 .. Len(cs) |-> SubSeq(T[cs[i].lane], 1, cs[i].pos + 1)]
<1>1. Continues(lanes, cs, C)
  BY FedContinues
<1>2. \A i \in 1 .. Len(cs) : C[i] = SubSeq(T[cs[i].lane], 1, cs[i].pos + 1)
  OBVIOUS
<1> HIDE DEF C
<1>3. \A i \in 1 .. Len(cs) : Holds(job.kind, lanes'[cs[i].lane], C[i])
  BY <1>1, Computed
<1> QED
  BY <1>2, <1>3

\* The first rows of a text that is continued.
LEMMA TextContinues ==
    ASSUME NEW x \in Rows, NEW ts \in Rows
    PROVE  /\ x \o ts \in Rows /\ Len(x \o ts) = Len(x) + Len(ts)
           /\ Len(x) \in Nat /\ Len(ts) \in Nat
           /\ \A i \in 1 .. Len(x) : (x \o ts)[i] = x[i]
           /\ \A i \in 1 .. Len(ts) : (x \o ts)[Len(x) + i] = ts[i]
           /\ \A i \in 0 .. Len(x) : SubSeq(x \o ts, 1, i) = SubSeq(x, 1, i)
           /\ \A i \in 0 .. Len(ts) : /\ SubSeq(x \o ts, 1, Len(x) + i) = x \o SubSeq(ts, 1, i)
                                      /\ SubSeq(ts, 1, i) \in Rows
<1>1. /\ x \o ts \in Rows /\ Len(x \o ts) = Len(x) + Len(ts)
      /\ Len(x) \in Nat /\ Len(ts) \in Nat
      /\ \A i \in 1 .. Len(x) : (x \o ts)[i] = x[i]
      /\ \A i \in 1 .. Len(ts) : (x \o ts)[Len(x) + i] = ts[i]
  BY Concatenated DEF Rows
<1>2. PICK y, n, m : y = x \o ts /\ n = Len(x) /\ m = Len(ts)
  OBVIOUS
<1>3. /\ y \in Rows /\ Len(y) = n + m /\ n \in Nat /\ m \in Nat
      /\ \A i \in 1 .. n : y[i] = x[i]
      /\ \A i \in 1 .. m : y[n + i] = ts[i]
  BY <1>1, <1>2
<1>4. ASSUME NEW i \in 0 .. n PROVE SubSeq(y, 1, i) = SubSeq(x, 1, i)
  <2>1. PICK a, b : a = SubSeq(y, 1, i) /\ b = SubSeq(x, 1, i)
    OBVIOUS
  <2>2. i \in Nat /\ i <= n /\ i <= Len(y)
    BY <1>3
  <2>3. a \in Rows /\ Len(a) = i /\ b \in Rows /\ Len(b) = i
    BY <2>1, <2>2, <1>2, <1>3, FirstRows
  <2>4. \A k \in 1 .. i : a[k] = y[k] /\ b[k] = x[k]
    BY <2>1, <2>2
  <2>5. \A k \in 1 .. i : k \in 1 .. n
    BY <2>2, <1>3
  <2>6. \A k \in 1 .. i : a[k] = b[k]
    BY <2>4, <2>5, <1>3
  <2>7. a = b
    BY <2>3, <2>6, SeqEqual DEF Rows
  <2> QED
    BY <2>1, <2>7
<1>5. ASSUME NEW i \in 0 .. m
      PROVE  SubSeq(y, 1, n + i) = x \o SubSeq(ts, 1, i) /\ SubSeq(ts, 1, i) \in Rows
  <2>1. PICK a, b, c, j : /\ a = SubSeq(y, 1, n + i) /\ b = SubSeq(ts, 1, i)
                          /\ c = x \o b /\ j = n + i
    OBVIOUS
  <2>2. i \in Nat /\ i <= m /\ j \in Nat /\ j <= Len(y) /\ j = n + i
    BY <2>1, <1>3
  <2>3. a \in Rows /\ Len(a) = j
    BY <2>1, <2>2, <1>3, FirstRows
  <2>4. b \in Rows /\ Len(b) = i
    BY <2>1, <2>2, <1>2, FirstRows
  <2>5. \A k \in 1 .. j : a[k] = y[k]
    BY <2>1, <2>2
  <2>6. \A k \in 1 .. i : b[k] = ts[k]
    BY <2>1, <2>2
  <2>7. /\ c \in Rows /\ Len(c) = j
        /\ \A k \in 1 .. n : c[k] = x[k]
        /\ \A k \in 1 .. i : c[n + k] = b[k]
    <3>1. /\ x \o b \in Rows /\ Len(x \o b) = Len(x) + Len(b)
          /\ \A k \in 1 .. Len(x) : (x \o b)[k] = x[k]
          /\ \A k \in 1 .. Len(b) : (x \o b)[Len(x) + k] = b[k]
      <4>1. x \in Seq(Tokens) /\ b \in Seq(Tokens)
        BY <2>4 DEF Rows
      <4>2. /\ x \o b \in Seq(Tokens) /\ Len(x \o b) = Len(x) + Len(b)
            /\ \A k \in 1 .. Len(x) : (x \o b)[k] = x[k]
            /\ \A k \in 1 .. Len(b) : (x \o b)[Len(x) + k] = b[k]
        BY <4>1, Concatenated
      <4>3. x \o b \in Rows
        BY <4>2 DEF Rows
      <4> QED
        BY <4>2, <4>3
    <3> QED
      BY <3>1, <2>1, <2>2, <2>4, <1>2
  <2>8. ASSUME NEW k \in 1 .. j PROVE a[k] = c[k]
    <3>1. CASE k <= n
      <4>1. k \in 1 .. n
        BY <2>2, <3>1, <1>3
      <4> QED
        BY <4>1, <2>5, <2>7, <1>3
    <3>2. CASE ~ (k <= n)
      <4>1. PICK q : q = k - n
        OBVIOUS
      <4>2. q \in 1 .. i /\ q \in 1 .. m /\ k = n + q
        BY <4>1, <2>2, <3>2, <1>3
      <4>3. y[n + q] = ts[q] /\ c[n + q] = b[q] /\ b[q] = ts[q]
        BY <4>2, <2>6, <2>7, <1>3
      <4> QED
        BY <4>2, <4>3, <2>5
    <3> QED
      BY <3>1, <3>2
  <2>9. a = c
    BY <2>2, <2>3, <2>7, <2>8, SeqEqual DEF Rows
  <2> QED
    BY <2>1, <2>4, <2>9
<1> QED
  BY <1>1, <1>2, <1>4, <1>5

\* The tokens are those the model chooses after a text.
Chosen(x, ts) == \A i \in 1 .. Len(ts) : ts[i] = Choice(job.model, x \o SubSeq(ts, 1, i - 1))

LEMMA EmitsMany ==
    ASSUME NEW p \in Rows, NEW o \in Rows, Continued(p, o), NEW ts \in Rows, Chosen(p \o o, ts)
    PROVE  /\ o \o ts \in Rows /\ Len(o \o ts) = Len(o) + Len(ts)
           /\ Continued(p, o \o ts) /\ p \o (o \o ts) = (p \o o) \o ts
<1>1. PICK y, n, m : y = o \o ts /\ n = Len(o) /\ m = Len(ts)
  OBVIOUS
<1>2. /\ y \in Rows /\ Len(y) = n + m /\ n \in Nat /\ m \in Nat
      /\ \A i \in 1 .. n : y[i] = o[i]
      /\ \A i \in 1 .. m : y[n + i] = ts[i]
      /\ \A i \in 0 .. n : SubSeq(y, 1, i) = SubSeq(o, 1, i)
      /\ \A i \in 0 .. m : SubSeq(y, 1, n + i) = o \o SubSeq(ts, 1, i) /\ SubSeq(ts, 1, i) \in Rows
  BY <1>1, TextContinues
<1>3. ASSUME NEW u \in Rows PROVE p \o (o \o u) = (p \o o) \o u
  <2>1. p \in Seq(Tokens) /\ o \in Seq(Tokens) /\ u \in Seq(Tokens)
    BY DEF Rows
  <2>2. (p \o o) \o u = p \o (o \o u)
    BY <2>1, ConcatAssociative
  <2> QED
    BY <2>2
<1>4. ASSUME NEW i \in 1 .. Len(y) PROVE y[i] = Choice(job.model, p \o SubSeq(y, 1, i - 1))
  <2>1. CASE i <= n
    <3>1. i \in 1 .. n /\ i - 1 \in 0 .. n
      BY <2>1, <1>2
    <3>2. o[i] = Choice(job.model, p \o SubSeq(o, 1, i - 1))
      BY <3>1, <1>1 DEF Continued
    <3>3. y[i] = o[i] /\ SubSeq(y, 1, i - 1) = SubSeq(o, 1, i - 1)
      BY <3>1, <1>2
    <3> QED
      BY <3>2, <3>3
  <2>2. CASE ~ (i <= n)
    <3>1. PICK k, j : k = i - n /\ j = k - 1
      OBVIOUS
    <3>2. k \in 1 .. m /\ j \in 0 .. m /\ i = n + k /\ i - 1 = n + j /\ k - 1 = j
      BY <3>1, <2>2, <1>2
    <3>3. /\ SubSeq(y, 1, n + j) = o \o SubSeq(ts, 1, j) /\ SubSeq(ts, 1, j) \in Rows
          /\ y[n + k] = ts[k]
      BY <3>2, <1>2
    <3>4. p \o (o \o SubSeq(ts, 1, j)) = (p \o o) \o SubSeq(ts, 1, j)
      BY <3>3, <1>3
    <3>5. ts[k] = Choice(job.model, (p \o o) \o SubSeq(ts, 1, j))
      BY <3>2, <1>1 DEF Chosen
    <3> QED
      BY <3>2, <3>3, <3>4, <3>5
  <2> QED
    BY <2>1, <2>2
<1>5. Continued(p, y)
  BY <1>4 DEF Continued
<1> QED
  BY <1>1, <1>2, <1>3, <1>5

LEMMA GreatestNumber ==
    ASSUME NEW n \in Nat, NEW E, E \subseteq 0 .. n, E # {}
    PROVE  \E x \in E : \A y \in E : y <= x
<1> DEFINE F == {k \in 0 .. n : n - k \in E}
<1>1. F \subseteq Nat
  OBVIOUS
<1>2. F # {}
  <2>1. PICK e \in E : e \in 0 .. n
    OBVIOUS
  <2>2. PICK k \in 0 .. n : k = n - e
    BY <2>1
  <2>3. n - k = e
    BY <2>1, <2>2
  <2>4. k \in F
    BY <2>2, <2>3
  <2> QED
    BY <2>4
<1>3. PICK k \in F : \A m \in F : k <= m
  BY <1>1, <1>2, LeastNumber
<1>4. k \in 0 .. n /\ n - k \in E
  OBVIOUS
<1>5. ASSUME NEW y \in E PROVE y <= n - k
  <2>1. PICK m \in 0 .. n : m = n - y /\ y \in 0 .. n
    OBVIOUS
  <2>2. n - m = y
    BY <2>1
  <2>3. k <= m
    BY <1>3, <2>1, <2>2
  <2> QED
    BY <1>4, <2>1, <2>3
<1> QED
  BY <1>4, <1>5

LEMMA Span ==
    ASSUME NEW h \in Rows, NEW a \in Int, NEW b \in Int, 1 <= a, b <= Len(h)
    PROVE  /\ SubSeq(h, a, b) \in Rows
           /\ Len(SubSeq(h, a, b)) = IF a <= b THEN b - a + 1 ELSE 0
<1>1. Len(h) \in Nat /\ \A i \in 1 .. Len(h) : h[i] \in Tokens
  BY DEF Rows
<1>2. \A i \in a .. b : h[i] \in Tokens
  BY <1>1
<1> QED
  BY <1>2, SubSeqProperties DEF Rows

LEMMA LookupRows ==
    ASSUME NEW h \in Rows, NEW k \in Int, NEW ng \in Nat
    PROVE  /\ Lookup(h, k, ng) \in Rows /\ Len(Lookup(h, k, ng)) \in Nat
           /\ Len(Lookup(h, k, ng)) <= IF k < 0 THEN 0 ELSE k
<1> DEFINE suffix  == SubSeq(h, Len(h) - ng + 1, Len(h))
           Earlier == {i \in 0 .. Len(h) - ng - 1 : SubSeq(h, i + 1, i + ng) = suffix}
           latest  == CHOOSE i \in Earlier : \A j \in Earlier : j <= i
<1>1. Lookup(h, k, ng) = IF Len(h) < ng \/ Earlier = {} THEN <<>>
                         ELSE SubSeq(h, latest + ng + 1, Lesser(latest + ng + k, Len(h)))
  BY DEF Lookup
<1>2. Len(h) \in Nat
  BY DEF Rows
<1>3. CASE Len(h) < ng \/ Earlier = {}
  <2>1. Lookup(h, k, ng) = <<>>
    BY <1>1, <1>3
  <2>2. <<>> \in Rows /\ Len(<<>>) = 0
    BY DEF Rows
  <2> QED
    BY <2>1, <2>2
<1>4. CASE ~ (Len(h) < ng \/ Earlier = {})
  <2>1. PICK n : n = Len(h) - ng - 1
    OBVIOUS
  <2>2. Earlier \subseteq 0 .. n /\ Earlier # {}
    BY <2>1, <1>4
  <2>3. n \in Nat
    <3>1. n \in Int
      BY <2>1, <1>2
    <3>2. PICK e \in 0 .. n : TRUE
      BY <2>2
    <3> QED
      BY <3>1, <3>2
  <2>4. \E x \in Earlier : \A y \in Earlier : y <= x
    <3> HIDE DEF Earlier
    <3> QED
      BY <2>2, <2>3, GreatestNumber
  <2>5. latest \in Earlier
    <3> HIDE DEF Earlier
    <3> QED
      BY <2>4
  <2>6. PICK l \in 0 .. n : l = latest
    BY <2>2, <2>5
  <2>7. PICK a, b : a = l + ng + 1 /\ b = Lesser(l + ng + k, Len(h))
    OBVIOUS
  <2>8. a \in Int /\ b \in Int /\ 1 <= a /\ b <= Len(h) /\ b <= a + k - 1
    BY <2>3, <2>7, <1>2 DEF Lesser
  <2>9. Lookup(h, k, ng) = SubSeq(h, a, b)
    <3> HIDE DEF Earlier, latest
    <3> QED
      BY <1>1, <1>4, <2>6, <2>7
  <2>10. SubSeq(h, a, b) \in Rows /\ Len(SubSeq(h, a, b)) = IF a <= b THEN b - a + 1 ELSE 0
    BY <2>8, Span
  <2> QED
    BY <2>8, <2>9, <2>10
<1> QED
  BY <1>3, <1>4

\* A draft fits the lane and the columns of a verification.
LEMMA DraftFits ==
    ASSUME job \in Jobs, job.mode = "spec", NEW h \in Rows, NEW p \in Nat, pos \in Int, pos + 1 = p, p < MaxSeq,
           Len(h) = p + 1
    PROVE  /\ Draft(h) \in Rows /\ Len(Draft(h)) \in Nat
           /\ Len(Draft(h)) <= MaxSpec - 1 /\ p + 1 + Len(Draft(h)) <= MaxSeq
<1>1. job.k \in Int /\ job.ng \in Nat /\ MaxSpec \in Nat /\ 1 <= MaxSpec
  BY DenseAssumption, Sizes
<1>2. PICK k \in Int : k = Lesser(job.k, MaxSpec - 1) /\ k <= MaxSpec - 1
  BY <1>1 DEF Lesser
<1>3. PICK found : found = Lookup(h, k, job.ng)
  OBVIOUS
<1>4. found \in Rows /\ Len(found) \in Nat /\ Len(found) <= MaxSpec - 1
  <2>1. found \in Rows /\ Len(found) \in Nat /\ Len(found) <= IF k < 0 THEN 0 ELSE k
    BY <1>1, <1>3, LookupRows
  <2> QED
    BY <2>1, <1>1, <1>2
<1>5. Room(h) = MaxSeq - 1 - p /\ MaxSeq - 1 - p \in Nat
  <2>1. PICK x \in Nat : x = MaxSeq
    BY Sizes
  <2>2. PICK q \in Int : q = pos
    OBVIOUS
  <2>3. x - 2 - q = x - 1 - p /\ x - Len(h) = x - 1 - p /\ x - 1 - p \in Nat
    BY <2>1, <2>2
  <2> QED
    BY <2>1, <2>2, <2>3 DEF Room, Lesser
<1>6. PICK m \in Nat : m = Lesser(Len(found), Room(h)) /\ m <= Len(found) /\ m <= MaxSeq - 1 - p
  BY <1>4, <1>5 DEF Lesser
<1>7. Draft(h) = SubSeq(found, 1, m)
  BY <1>2, <1>3, <1>6 DEF Draft
<1>8. Draft(h) \in Rows /\ Len(Draft(h)) = m
  BY <1>4, <1>6, <1>7, FirstRows
<1> QED
  BY <1>1, <1>4, <1>6, <1>8, Sizes

\* The drafts that are accepted are the model's choices.
LEMMA Accepted_ ==
    ASSUME NEW a, NEW draft, Len(draft) \in Nat, NEW room \in Nat
    PROVE  /\ Accept(a, draft, room) \in 0 .. Len(draft) /\ Accept(a, draft, room) <= room
           /\ \A i \in 1 .. Accept(a, draft, room) : a[i] = draft[i]
<1> DEFINE Agreed == {j \in 0 .. Lesser(Len(draft), room) : \A i \in 1 .. j : a[i] = draft[i]}
           na == CHOOSE j \in Agreed : \A i \in Agreed : i <= j
<1>1. PICK m \in Nat : m = Lesser(Len(draft), room) /\ m <= Len(draft) /\ m <= room
  BY DEF Lesser
<1>2. Agreed \subseteq 0 .. m
  BY <1>1
<1>3. 0 \in Agreed
  <2>1. 0 \in 0 .. m /\ \A i \in 1 .. 0 : FALSE
    BY <1>1
  <2> QED
    BY <2>1, <1>1
<1>4. na \in Agreed
  <2>1. \E x \in Agreed : \A y \in Agreed : y <= x
    <3> HIDE DEF Agreed
    <3> QED
      BY <1>1, <1>2, <1>3, GreatestNumber
  <2> HIDE DEF Agreed
  <2> QED
    BY <2>1
<1>5. \A j \in Agreed : j \in 0 .. m /\ \A i \in 1 .. j : a[i] = draft[i]
  BY <1>1
<1>6. Accept(a, draft, room) = na
  BY DEF Accept
<1> HIDE DEF Agreed, na
<1>7. na \in 0 .. m /\ \A i \in 1 .. na : a[i] = draft[i]
  BY <1>4, <1>5
<1> QED
  BY <1>1, <1>6, <1>7

LEMMA FirstOfFirst ==
    ASSUME NEW txt \in Rows, NEW n \in Nat, n <= Len(txt), NEW j \in 0 .. n
    PROVE  SubSeq(SubSeq(txt, 1, n), 1, j) = SubSeq(txt, 1, j)
<1>1. PICK u : u = SubSeq(txt, 1, n)
  OBVIOUS
<1>2. u \in Rows /\ Len(u) = n /\ \A i \in 1 .. n : u[i] = txt[i]
  BY <1>1, FirstRows
<1>3. PICK a, b : a = SubSeq(u, 1, j) /\ b = SubSeq(txt, 1, j)
  OBVIOUS
<1>4. j \in Nat /\ j <= Len(u) /\ j <= Len(txt)
  BY <1>2 DEF Rows
<1>5. a \in Rows /\ Len(a) = j /\ b \in Rows /\ Len(b) = j
  BY <1>2, <1>3, <1>4, FirstRows
<1>6. \A i \in 1 .. j : a[i] = u[i] /\ b[i] = txt[i] /\ i \in 1 .. n
  BY <1>3, <1>4
<1>7. a = b
  BY <1>2, <1>5, <1>6, SeqEqual DEF Rows
<1> QED
  BY <1>1, <1>3, <1>7

\* What a verification of some columns does.
Verified(cs, draft, room) ==
    \E ls \in {Written(cs)} :
    \E a \in {[i \in 1 .. Len(cs) |-> Answer(ls, cs[i])]} :
       LET na    == Accept(a, draft, room)
           taken == [i \in 1 .. na + 1 |-> cs[i].tok]
       IN  /\ Compute(cs, ls)
           /\ logits' = [logits EXCEPT ![0] = a[na + 1]]
           /\ hist' = hist \o taken
           /\ out' = [out EXCEPT ![0] = @ \o taken]
           /\ pos' = pos + na + 1

LEMMA SpecKeeps ==
    ASSUME IInv, job.mode \in SingleModes, SpecRound
    PROVE  IInv' /\ \E ts \in Rows : out' = [out EXCEPT ![0] = @ \o ts]
<1>1. /\ job \in Jobs /\ StreamsInv /\ StepInv /\ Completed /\ SingleInv
      /\ LaneSet = Lanes /\ 0 \in Lanes /\ \A l : LaneEnd(l) = MaxSeq
      /\ 0 \in Served /\ 0 \in Streams /\ Lanes \subseteq Streams
      /\ (job.mode # "serve" => Served = {0})
      /\ \A r \in Streams : PromptOf[r] = job.prompt
      /\ \A r \in Streams : Text(r) = job.prompt \o out[r]
      /\ Writing = IF job.mode \in {"greedy", "spec"} THEN {0}
                   ELSE IF job.mode = "serve" THEN Lanes ELSE {}
  BY SingleFacts
<1>2. /\ pc = "spec" /\ Len(out[0]) < job.n /\ pos + 1 < MaxSeq /\ job' = job /\ pc' = pc
      /\ UNCHANGED <<active, cbpos, scan, qhead, nact, req, pref, fed, rep>>
  BY DEF SpecRound, cbatch, slots, queue
<1>3. job.mode = "spec" /\ pos \in Int /\ -1 <= pos /\ Served = {0}
  BY <1>1, <1>2, SingleControl
<1>4. /\ Keeps(0, Text(0)) /\ Len(Text(0)) = pos + 1 /\ logits[0] = Choice(job.model, Text(0))
      /\ hist = Text(0) /\ rep \in Nat
  BY <1>1, <1>2, <1>3 DEF SingleInv, QueueIdle
<1>5. PICK t, x, o, p : t = logits[0] /\ x = Text(0) /\ o = out[0] /\ p = pos + 1
  OBVIOUS
<1>6. /\ x \in Rows /\ o \in Rows /\ Len(x) = p /\ p \in Nat /\ p < MaxSeq /\ hist = x
      /\ job.prompt \in Rows /\ x = job.prompt \o o /\ Len(x) = Len(job.prompt) + Len(o)
      /\ Continued(job.prompt, o) /\ Len(job.prompt) # 0 /\ Len(o) \in Nat
      /\ Len(o) < job.n /\ job.n \in Nat /\ Len(job.prompt) \in Nat
  <2>1. /\ x \in Rows /\ o \in Rows /\ Len(x) = p /\ p \in Nat /\ p < MaxSeq /\ hist = x
        /\ Continued(job.prompt, o) /\ x = job.prompt \o o
    BY <1>1, <1>2, <1>3, <1>4, <1>5 DEF StreamsInv, Keeps
  <2>2. /\ job.prompt \in Rows /\ Len(job.prompt) # 0 /\ job.n \in Nat /\ Len(job.prompt) \in Nat
    BY <1>1, JobTypes
  <2>3. Len(job.prompt \o o) = Len(job.prompt) + Len(o) /\ Len(o) \in Nat
    BY <2>1, <2>2, TextContinues
  <2> QED
    BY <1>2, <1>5, <2>1, <2>2, <2>3
<1>7. t \in Tokens /\ t = Choice(job.model, x)
  <2>2. t = Choice(job.model, x)
    BY <1>4, <1>5
  <2>3. \A i, k \in Nat : i # 0 => i + k # 0
    OBVIOUS
  <2>1. t = Choice(job.model, x) /\ Len(x) # 0
    BY <2>2, <2>3, <1>6
  <2> QED
    BY <2>1, <1>1, <1>6, ChoiceIsToken
<1>8. PICK h, draft, room : /\ h = Append(x, t) /\ draft = Draft(h)
                            /\ room = job.n - Len(o) - 1
  OBVIOUS
<1>9. /\ h \in Rows /\ Len(h) = p + 1 /\ room \in Nat
      /\ draft \in Rows /\ Len(draft) \in Nat
      /\ Len(draft) <= MaxSpec - 1 /\ p + 1 + Len(draft) <= MaxSeq
  <2>1. h \in Rows /\ Len(h) = p + 1
    BY <1>6, <1>7, <1>8, Appended
  <2>2. room \in Nat
    BY <1>6, <1>8
  <2>3. /\ Draft(h) \in Rows /\ Len(Draft(h)) \in Nat
        /\ Len(Draft(h)) <= MaxSpec - 1 /\ p + 1 + Len(Draft(h)) <= MaxSeq
    BY <2>1, <1>1, <1>3, <1>5, <1>6, DraftFits
  <2> QED
    BY <2>1, <2>2, <2>3, <1>8
<1>10. PICK ts : ts = <<t>> \o draft
  OBVIOUS
<1>11. PICK m \in Nat : m = 1 + Len(draft) /\ m <= MaxSpec /\ p + m <= MaxSeq /\ 1 <= m
  BY <1>6, <1>9, DenseAssumption, Sizes
<1>12. /\ ts \in Rows /\ Len(ts) = m /\ ts[1] = t
       /\ \A i \in 1 .. m - 1 : ts[i + 1] = draft[i]
  <2>1. <<t>> \in Rows /\ Len(<<t>>) = 1 /\ <<t>>[1] = t
    BY <1>7 DEF Rows
  <2>2. /\ <<t>> \o draft \in Rows /\ Len(<<t>> \o draft) = Len(<<t>>) + Len(draft)
        /\ \A i \in 1 .. Len(<<t>>) : (<<t>> \o draft)[i] = <<t>>[i]
        /\ \A i \in 1 .. Len(draft) : (<<t>> \o draft)[Len(<<t>>) + i] = draft[i]
    BY <2>1, <1>9, TextContinues
  <2>3. ts \in Rows /\ Len(ts) = m /\ ts[1] = t
    BY <2>1, <2>2, <1>10, <1>11
  <2>4. ASSUME NEW i \in 1 .. m - 1 PROVE ts[i + 1] = draft[i]
    <3>1. i \in 1 .. Len(draft) /\ 1 + i = i + 1
      BY <1>9, <1>11
    <3> QED
      BY <3>1, <2>1, <2>2, <1>10
  <2> QED
    BY <2>3, <2>4
<1>13. PICK X : X = x \o ts
  OBVIOUS
<1>14. /\ X \in Rows /\ Len(X) = p + m
       /\ \A i \in 1 .. m : X[p + i] = ts[i]
       /\ SubSeq(X, 1, p) = x
       /\ \A i \in 0 .. m : SubSeq(X, 1, p + i) = x \o SubSeq(ts, 1, i) /\ SubSeq(ts, 1, i) \in Rows
  <2>1. /\ X \in Rows /\ Len(X) = p + m
        /\ \A i \in 1 .. m : X[p + i] = ts[i]
        /\ SubSeq(X, 1, p) = SubSeq(x, 1, p)
        /\ \A i \in 0 .. m : SubSeq(X, 1, p + i) = x \o SubSeq(ts, 1, i) /\ SubSeq(ts, 1, i) \in Rows
    <3>1. /\ x \o ts \in Rows /\ Len(x \o ts) = Len(x) + Len(ts)
          /\ \A i \in 1 .. Len(ts) : (x \o ts)[Len(x) + i] = ts[i]
          /\ \A i \in 0 .. Len(x) : SubSeq(x \o ts, 1, i) = SubSeq(x, 1, i)
          /\ \A i \in 0 .. Len(ts) : /\ SubSeq(x \o ts, 1, Len(x) + i) = x \o SubSeq(ts, 1, i)
                                     /\ SubSeq(ts, 1, i) \in Rows
      BY <1>6, <1>12, TextContinues
    <3>2. p \in 0 .. p
      BY <1>6
    <3> QED
      BY <3>1, <3>2, <1>6, <1>12, <1>13
  <2>2. SubSeq(x, 1, p) = x
    BY <1>6, FirstRows
  <2> QED
    BY <2>1, <2>2
<1>15. PICK cs : cs = [i \in 1 .. m |-> Column(0, p + i - 1, X[p + i])]
  OBVIOUS
<1>16. PICK lo, hi, T : /\ lo = [l \in LaneSet |-> IF l = 0 THEN p ELSE 0]
                        /\ hi = [l \in LaneSet |-> IF l = 0 THEN p + m ELSE 0]
                        /\ T = [l \in LaneSet |-> IF l = 0 THEN X ELSE <<>>]
  OBVIOUS
<1>17. /\ lo \in [LaneSet -> Nat] /\ hi \in [LaneSet -> Nat] /\ T \in [LaneSet -> Rows]
       /\ 0 \in LaneSet /\ lo[0] = p /\ hi[0] = p + m /\ T[0] = X
       /\ \A l \in LaneSet \ {0} : lo[l] = 0 /\ hi[l] = 0
  <2>1. <<>> \in Rows
    BY DEF Rows
  <2>2. p \in Nat /\ p + m \in Nat /\ X \in Rows /\ 0 \in LaneSet
    BY <1>1, <1>6, <1>14
  <2> QED
    BY <2>1, <2>2, <1>16
<1>18. Feeds(cs, lo, hi, T) /\ Len(cs) = m
  <2>1. cs = [i \in 1 .. m |-> Column(0, p + i - 1, T[0][p + i])]
    BY <1>15, <1>17
  <2>2. Consecutive(m, 0, p, cs, lo, hi, T)
    BY <2>1, <1>6, <1>11, <1>14, <1>17 DEF Consecutive
  <2> QED
    BY <2>2, FeedsRun
<1>19. Ready(lo, hi, T)
  <2>1. ASSUME NEW l \in LaneSet, lo[l] < hi[l]
        PROVE  /\ Holds(job.kind, lanes[l], SubSeq(T[l], 1, lo[l])) /\ hi[l] <= Len(T[l])
               /\ job.kind = "int4" => hi[l] <= lo[l] + W + 2
               /\ hi[l] <= LaneEnd(l)
    <3>1. l = 0
      BY <2>1, <1>17
    <3>2. Holds(job.kind, lanes[0], x)
      BY <1>4, <1>5 DEF Keeps
    <3>3. p + m <= p + W + 2
      BY <1>6, <1>11, DenseAssumption, Sizes
    <3>6. hi[0] = p + m /\ lo[0] = p /\ T[0] = X
      BY <1>17
    <3>7. SubSeq(X, 1, p) = x /\ Len(X) = p + m
      BY <1>14
    <3>8. p + m <= MaxSeq /\ p + m <= p + m
      BY <1>6, <1>11
    <3>9. LaneEnd(0) = MaxSeq
      BY <1>1
    <3>4. /\ SubSeq(T[0], 1, lo[0]) = x /\ hi[0] = p + m /\ lo[0] = p /\ Len(T[0]) = p + m
          /\ LaneEnd(0) = MaxSeq /\ p + m <= MaxSeq /\ p + m <= p + m
      BY <3>6, <3>7, <3>8, <3>9
    <3>5. Holds(job.kind, lanes[0], SubSeq(T[0], 1, lo[0]))
      BY <3>2, <3>4
    <3> QED
      BY <3>1, <3>3, <3>4, <3>5
  <2> QED
    BY <2>1, <1>17 DEF Ready
<1>20. m <= MostColumns
  <2>1. MostColumns = MaxSpec
    BY <1>3 DEF MostColumns, DenseModes, MoeModes, ComparingModes
  <2> QED
    BY <2>1, <1>11
<1>21. PICK a, na, taken :
          /\ a = [i \in 1 .. Len(cs) |-> Answer(Written(cs), cs[i])]
          /\ na = Accept(a, draft, room) /\ taken = [i \in 1 .. na + 1 |-> cs[i].tok]
  OBVIOUS
<1>22. /\ Compute(cs, Written(cs)) /\ logits' = [logits EXCEPT ![0] = a[na + 1]]
       /\ hist' = x \o taken /\ out' = [out EXCEPT ![0] = @ \o taken] /\ pos' = pos + na + 1
  <2>1. cs = ForwardTokens(pos + 1, <<logits[0]>> \o draft)
    <3>1. cs = [i \in 1 .. m |-> Column(0, p + i - 1, ts[i])]
      BY <1>14, <1>15
    <3> QED
      BY <3>1, <1>5, <1>10, <1>12 DEF ForwardTokens
  <2>2. h = Append(hist, logits[0]) /\ room = job.n - Len(out[0]) - 1 /\ draft = Draft(h)
    BY <1>5, <1>6, <1>8
  <2>3. Verified(ForwardTokens(pos + 1, <<logits[0]>> \o Draft(Append(hist, logits[0]))),
                 Draft(Append(hist, logits[0])), job.n - Len(out[0]) - 1)
    BY DEF SpecRound, Verified
  <2>5. Verified(cs, draft, room)
    BY <2>1, <2>2, <2>3
  <2>4. hist = x
    BY <1>6
  <2> HIDE <1>15
  <2> QED
    BY <2>5, <2>4, <1>21 DEF Verified
<1> HIDE <1>15, <1>16
<1>23. /\ lanes' \in [LaneSet -> LaneType] /\ clear' = TRUE /\ DispatchFits'
       /\ \A i \in 1 .. Len(cs) :
             /\ Answer(Written(cs), cs[i]) =
                   Choice(job.model, SubSeq(T[cs[i].lane], 1, cs[i].pos + 1))
             /\ Answer(Written(cs), cs[i]) \in Tokens
  BY <1>1, <1>2, <1>18, <1>19, <1>20, <1>22, Fed
<1>24. \A i \in 1 .. Len(cs) :
          Holds(job.kind, lanes'[cs[i].lane], SubSeq(T[cs[i].lane], 1, cs[i].pos + 1))
  BY <1>1, <1>2, <1>18, <1>19, <1>22, FedHeld
<1>25. ASSUME NEW i \in 1 .. m
       PROVE  /\ cs[i].tok = ts[i]
              /\ a[i] = Choice(job.model, x \o SubSeq(ts, 1, i)) /\ a[i] \in Tokens
              /\ Holds(job.kind, lanes'[0], x \o SubSeq(ts, 1, i))
  <2>1. cs[i] = Column(0, p + i - 1, X[p + i])
    BY <1>15
  <2>2. cs[i].lane = 0 /\ cs[i].pos = p + i - 1 /\ cs[i].tok = ts[i]
    BY <2>1, <1>14 DEF Column
  <2>3. (p + i - 1) + 1 = p + i /\ i \in 0 .. m
    BY <1>6
  <2>4. SubSeq(T[cs[i].lane], 1, cs[i].pos + 1) = x \o SubSeq(ts, 1, i)
    BY <2>2, <2>3, <1>14, <1>17
  <2>5. a[i] = Answer(Written(cs), cs[i]) /\ i \in 1 .. Len(cs)
    BY <1>18, <1>21
  <2> QED
    BY <2>2, <2>4, <2>5, <1>23, <1>24
<1>26. na \in 0 .. m - 1 /\ na <= room /\ \A i \in 1 .. na : a[i] = draft[i]
  <2>1. /\ na \in 0 .. Len(draft) /\ na <= room /\ \A i \in 1 .. na : a[i] = draft[i]
    <3>1. /\ Accept(a, draft, room) \in 0 .. Len(draft) /\ Accept(a, draft, room) <= room
          /\ \A i \in 1 .. Accept(a, draft, room) : a[i] = draft[i]
      BY <1>9, Accepted_
    <3>2. na = Accept(a, draft, room)
      BY <1>21
    <3> QED
      BY <3>1, <3>2
  <2> QED
    BY <2>1, <1>9, <1>11
<1>27. PICK e \in 1 .. m : e = na + 1 /\ e \in Nat /\ e - 1 <= room
  BY <1>9, <1>26
<1>28. taken = SubSeq(ts, 1, e) /\ taken \in Rows /\ Len(taken) = e
  <2>1. taken = [i \in 1 .. e |-> ts[i]]
    <3>1. \A i \in 1 .. e : i \in 1 .. m
      BY <1>27
    <3> QED
      BY <3>1, <1>21, <1>25, <1>27
  <2>2. SubSeq(ts, 1, e) \in Rows /\ Len(SubSeq(ts, 1, e)) = e
    BY <1>12, <1>27, FirstRows
  <2>3. \A i \in 1 .. e : SubSeq(ts, 1, e)[i] = ts[i]
    BY <1>27
  <2>4. \A i \in 1 .. e : ts[i] \in Tokens
    BY <1>12, <1>27 DEF Rows
  <2>5. taken \in Rows /\ Len(taken) = e /\ \A i \in 1 .. e : taken[i] = ts[i]
    BY <2>1, <2>4, <1>27 DEF Rows
  <2>6. taken = SubSeq(ts, 1, e)
    BY <2>2, <2>3, <2>5, SeqEqual DEF Rows
  <2> QED
    BY <2>5, <2>6
<1>29. ASSUME NEW i \in 1 .. Len(taken)
       PROVE  taken[i] = Choice(job.model, (job.prompt \o o) \o SubSeq(taken, 1, i - 1))
  <2>1. i \in 1 .. e /\ i \in 1 .. m /\ i - 1 \in 0 .. e /\ i \in Nat
    BY <1>27, <1>28
  <2>2. SubSeq(taken, 1, i - 1) = SubSeq(ts, 1, i - 1)
    BY <2>1, <1>12, <1>27, <1>28, FirstOfFirst
  <2>3. taken[i] = ts[i]
    BY <2>1, <1>27, <1>28
  <2>4. CASE i = 1
    <3>1. SubSeq(ts, 1, 0) = <<>> /\ x \o <<>> = x
      BY <1>6, TextTypes, SubSeqEmpty DEF Rows
    <3>2. i - 1 = 0
      BY <2>4
    <3> QED
      BY <2>2, <2>3, <2>4, <3>1, <3>2, <1>6, <1>7, <1>12
  <2>5. CASE i # 1
    <3>1. PICK j \in 1 .. m - 1 : j = i - 1 /\ j \in 1 .. na /\ j \in 1 .. m /\ j + 1 = i
      BY <2>1, <2>5, <1>26, <1>27
    <3>2. ts[j + 1] = draft[j] /\ a[j] = draft[j] /\ a[j] = Choice(job.model, x \o SubSeq(ts, 1, j))
      BY <3>1, <1>12, <1>25, <1>26
    <3> QED
      BY <2>2, <2>3, <3>1, <3>2, <1>6
  <2> QED
    BY <2>4, <2>5
<1>30. /\ o \o taken \in Rows /\ Len(o \o taken) = Len(o) + e
       /\ Continued(job.prompt, o \o taken) /\ job.prompt \o (o \o taken) = x \o taken
  <2>1. Chosen(job.prompt \o o, taken)
    BY <1>29 DEF Chosen
  <2>2. /\ o \o taken \in Rows /\ Len(o \o taken) = Len(o) + Len(taken)
        /\ Continued(job.prompt, o \o taken)
        /\ job.prompt \o (o \o taken) = (job.prompt \o o) \o taken
    BY <2>1, <1>6, <1>28, EmitsMany
  <2> QED
    BY <2>2, <1>6, <1>28
<1>31. out'[0] = o \o taken /\ \A r \in Streams : r # 0 => out'[r] = out[r]
  BY <1>1, <1>5, <1>22 DEF StreamsInv
<1>32. Text(0)' = x \o taken /\ x \o taken \in Rows /\ Len(x \o taken) = p + e
  <2>1. Text(0)' = PromptOf[0] \o out'[0]
    BY <1>2, TextAfter
  <2>2. x \o taken \in Rows /\ Len(x \o taken) = Len(x) + Len(taken)
    BY <1>6, <1>28, TextContinues
  <2> QED
    BY <2>1, <2>2, <1>1, <1>6, <1>28, <1>30, <1>31
<1>33. StreamsInv'
  <2>1. out \in [Streams -> Rows]
    BY <1>1 DEF StreamsInv
  <2>2. out' \in [Streams -> Rows]
    BY <2>1, <1>5, <1>22, <1>30
  <2> QED
    BY <2>2, <1>1, <1>2, <1>3, <1>30, <1>31, StreamsAfter
<1>34. logits'[0] = Choice(job.model, x \o taken) /\ logits' \in [Lanes -> Tokens \union {Garbled}]
  <2>1. logits \in [Lanes -> Tokens \union {Garbled}]
    BY <1>1 DEF StepInv
  <2>2. a[e] = Choice(job.model, x \o taken) /\ a[e] \in Tokens
    BY <1>25, <1>27, <1>28
  <2> QED
    BY <2>1, <2>2, <1>1, <1>22, <1>27
<1>35. StepInv'
  <2>1. LaneSet' = LaneSet /\ Lanes' = Lanes
    BY <1>2 DEF LaneSet, Lanes
  <2> QED
    BY <2>1, <1>23, <1>34 DEF StepInv
<1>36. Completed'
  BY <1>2 DEF Completed
<1>37. QueueIdle' /\ SlotsIdle' /\ scan' = 0 /\ Served' = {0}
  BY <1>1, <1>2, <1>3, <1>4, Idle
<1>38. pos' = p + e - 1 /\ pos' \in -1 .. MaxSeq - 1 /\ p + e <= MaxSeq /\ p + e = pos' + 1
  <2>1. PICK q \in Int : q = pos /\ p = q + 1
    BY <1>3, <1>5
  <2>2. pos' = q + na + 1 /\ e = na + 1
    BY <2>1, <1>22, <1>27
  <2>3. PICK k, g : k = na /\ g = MaxSeq
    OBVIOUS
  <2>4. k \in Nat /\ g \in Nat /\ k + 1 <= m /\ p + m <= g /\ e = k + 1 /\ pos' = q + k + 1
    BY <2>2, <2>3, <1>11, <1>26, Sizes
  <2> QED
    BY <2>1, <2>3, <2>4, <1>6
<1>39. Len(out'[0]) <= job.n
  BY <1>6, <1>8, <1>27, <1>30, <1>31
<1>40. /\ Keeps(0, Text(0))' /\ Len(Text(0)') = pos' + 1 /\ logits'[0] = Choice(job.model, Text(0)')
       /\ hist' = Text(0)' /\ Len(hist') <= MaxSeq
  <2>1. Holds(job.kind, lanes'[0], x \o taken)
    BY <1>25, <1>27, <1>28
  <2> QED
    BY <2>1, <1>2, <1>22, <1>32, <1>34, <1>38 DEF Keeps
<1>41. SingleInv'
  BY <1>2, <1>3, <1>37, <1>38, <1>39, <1>40 DEF SingleInv
<1>42. IInv'
  BY <1>1, <1>2, <1>33, <1>35, <1>36, <1>41, SingleAfter
<1> QED
  BY <1>22, <1>28, <1>42

-----------------------------------------------------------------------------
(* Measuring.                                                              *)

LEMMA KeepsNothing == \A l : Keeps(l, <<>>) /\ Keeps(l, <<>>)'
<1>1. <<>> \in Rows
  BY DEF Rows
<1>2. \A k, l : Holds(k, l, <<>>)
  BY EmptyHolds
<1> QED
  BY <1>1, <1>2 DEF Keeps

LEMMA NoRows == ASSUME NEW s PROVE SubSeq(s, 1, 0) = <<>>
  BY SubSeqEmpty

\* The modes that record nothing.
LEMMA SilentOutputs ==
    ASSUME StreamsInv, Writing = {}
    PROVE  out = [r \in Streams |-> <<>>] /\ \A r \in Streams : Len(out[r]) = 0
<1>1. out \in [Streams -> Rows] /\ \A r \in Streams : out[r] = <<>>
  BY DEF StreamsInv
<1>2. Len(<<>>) = 0
  OBVIOUS
<1> QED
  BY <1>1, <1>2

LEMMA BenchKeeps == ASSUME IInv, job.mode \in SingleModes, Bench PROVE IInv'
<1>1. /\ job \in Jobs /\ StreamsInv /\ StepInv /\ Completed /\ SingleInv
      /\ LaneSet = Lanes /\ 0 \in Lanes /\ \A l : LaneEnd(l) = MaxSeq
      /\ 1 <= MostColumns /\ 0 \in Served /\ 0 \in Streams
      /\ (job.mode # "serve" => Served = {0})
      /\ Writing = IF job.mode \in {"greedy", "spec"} THEN {0}
                   ELSE IF job.mode = "serve" THEN Lanes ELSE {}
  BY SingleFacts
<1>2. /\ pc = "bench" /\ BenchLimit(job) >= 1 /\ job' = job /\ out' = out
      /\ UNCHANGED <<hist, active, cbpos, scan, qhead, nact, req, pref, fed>>
  BY DEF Bench, slots
<1>3. job.mode = "bench" /\ pos \in Int /\ -1 <= pos /\ pos < MaxSeq /\ Served = {0} /\ Writing = {}
  BY <1>1, <1>2, SingleControl
<1>4. /\ pos + 1 <= Len(job.prompt) + BenchWarm + BenchLimit(job) /\ logits[0] \in Tokens
      /\ \E ctx : Keeps(0, ctx) /\ Len(ctx) = pos + 1
      /\ hist = <<>> /\ rep \in Nat
  BY <1>1, <1>2, <1>3 DEF SingleInv, QueueIdle
<1>5. StreamsInv' /\ \A r \in Streams : Len(out[r]) = 0 /\ out = [q \in Streams |-> <<>>]
  BY <1>1, <1>2, <1>3, StreamsStay, SilentOutputs
<1>6. PICK n, m, w, x : n = BenchLimit(job) /\ m = Len(job.prompt) /\ w = BenchWarm /\ x = MaxSeq
  OBVIOUS
<1>7. /\ n \in Nat /\ m \in Nat /\ w \in Nat /\ x \in Nat /\ m + w + n < x /\ 0 < m
      /\ job.prompt \in Rows
  <2>1. m \in Nat /\ w \in Nat /\ x \in Nat /\ job.n \in Nat /\ 0 < m /\ job.prompt \in Rows
    BY <1>1, <1>6, JobTypes, DenseAssumption, Sizes
  <2>2. n = Lesser(job.n, x - m - w - 1) /\ n >= 1
    BY <1>2, <1>6 DEF BenchLimit
  <2> QED
    BY <2>1, <2>2 DEF Lesser
<1>8. CASE pos + 1 < m + w + n
  <2>1. /\ pos' = pos + 1 /\ Feed(<<Column(0, pos + 1, logits[0])>>) /\ pc' = pc /\ rep' = rep
    BY <1>2, <1>6, <1>8 DEF Bench, ForwardToken
  <2>2. PICK p, t, ctx : p = pos + 1 /\ t = logits[0] /\ Keeps(0, ctx) /\ Len(ctx) = p
    BY <1>4
  <2>3. p < LaneEnd(0) /\ p < x /\ 0 \in LaneSet /\ t \in Tokens
    BY <1>1, <1>3, <1>4, <1>6, <1>7, <1>8, <2>2
  <2>4. /\ StepInv' /\ Append(ctx, t) \in Rows /\ Len(Append(ctx, t)) = p + 1
        /\ Holds(job.kind, lanes'[0], Append(ctx, t)) /\ logits'[0] \in Tokens
    BY <2>1, <2>2, <2>3, <1>1, <1>2, OneFed
  <2>5. (\E c : Keeps(0, c) /\ Len(c) = pos + 1)'
    BY <2>1, <2>2, <2>4, <1>2 DEF Keeps
  <2>6. pos' + 1 <= Len(job.prompt) + BenchWarm + BenchLimit(job) /\ pos' \in -1 .. MaxSeq - 1
    BY <2>1, <2>2, <2>3, <1>3, <1>6, <1>7, <1>8
  <2>7. QueueIdle' /\ SlotsIdle' /\ scan' = 0
    BY <2>1, <1>1, <1>2, <1>4, Idle
  <2>8. Completed'
    BY <2>1, <1>2 DEF Completed
  <2>9. hist' = <<>> /\ Len(hist') <= MaxSeq
    BY <1>2, <1>4, Sizes
  <2>10. SingleInv'
    BY <2>1, <2>4, <2>5, <2>6, <2>7, <2>9, <1>2, <1>3 DEF SingleInv
  <2> QED
    BY <2>4, <2>8, <2>10, <1>1, <1>2, <1>5, SingleAfter
<1>9. CASE ~ (pos + 1 < m + w + n)
  <2>1. /\ UNCHANGED engine
        /\ \/ pc' = "prefill" /\ rep' = rep + 1 /\ pos' = -1
           \/ pc' = "done" /\ rep' = rep /\ pos' = pos
    BY <1>2, <1>6, <1>9 DEF Bench
  <2>2. StepInv'
    BY <2>1, <1>1, <1>2, StepStays
  <2>3. CASE pc' = "done" /\ rep' = rep /\ pos' = pos
    <3>1. SingleInv'
      BY <2>3, <1>1, <1>2, SingleEnds
    <3>2. Completed'
      <4>1. \A r \in Streams : Len(out[r]) = Owed(r)
        BY <1>2, <1>3, <1>5, OwedSingle
      <4>2. Streams' = Streams /\ \A r : Owed(r)' = Owed(r)
        BY <1>2, OwedSingle DEF Streams, Lanes, Reqs
      <4> QED
        BY <4>1, <4>2, <1>2 DEF Completed
    <3> QED
      BY <2>2, <3>1, <3>2, <1>1, <1>2, <1>5, SingleAfter
  <2>4. CASE pc' = "prefill" /\ rep' = rep + 1 /\ pos' = -1
    <3>1. QueueIdle' /\ SlotsIdle' /\ scan' = 0 /\ Served' = {0}
      BY <2>4, <1>1, <1>2, <1>3, <1>4, Idle
    <3>2. PromptSoFar' = <<>>
      <4>1. pos' + 1 = 0
        BY <2>4
      <4> QED
        BY <4>1, <1>2, NoRows DEF PromptSoFar
    <3>3. \A l : Keeps(l, PromptSoFar)'
      BY <3>2, KeepsNothing DEF Keeps
    <3>4. pos' + 1 < Len(job.prompt) /\ pos' \in -1 .. MaxSeq - 1
      BY <2>4, <1>6, <1>7
    <3>5. (out = [r \in Streams |-> <<>>])'
      <4>1. Streams' = Streams
        BY DEF Streams, Lanes, Reqs
      <4> QED
        BY <4>1, <1>1, <1>2, <1>3, SilentOutputs
    <3>6. hist' = <<>> /\ Len(hist') <= MaxSeq
      BY <1>2, <1>4, Sizes
    <3>7. SingleInv'
      BY <2>4, <3>1, <3>3, <3>4, <3>5, <3>6, <1>2, <1>3 DEF SingleInv
    <3>8. Completed'
      BY <2>4 DEF Completed
    <3> QED
      BY <2>2, <3>7, <3>8, <1>1, <1>2, <1>5, SingleAfter
  <2> QED
    BY <2>1, <2>3, <2>4
<1> QED
  BY <1>8, <1>9

LEMMA RefuseBenchKeeps == ASSUME IInv, job.mode \in SingleModes, RefuseBench PROVE IInv'
<1>1. /\ job \in Jobs /\ StreamsInv /\ StepInv /\ Completed /\ SingleInv
  BY SingleFacts
<1>2. /\ job.mode = "bench" /\ pos = -1 /\ pc' = "failed" /\ job' = job /\ UNCHANGED engine
      /\ out' = out
      /\ UNCHANGED <<hist, pos, active, cbpos, scan, qhead, nact, req, pref, fed, rep>>
  BY DEF RefuseBench, cbatch, slots, queue, single
<1>3. StreamsInv' /\ StepInv' /\ Completed'
  BY <1>1, <1>2, StreamsStay, StepStays DEF Completed
<1>4. rep \in Nat /\ hist = <<>>
  BY <1>1, <1>2 DEF SingleInv, QueueIdle
<1>5. QueueIdle' /\ SlotsIdle' /\ scan' = 0
  BY <1>1, <1>2, <1>4, Idle
<1>6. pos' \in -1 .. MaxSeq - 1 /\ hist' = <<>> /\ Len(hist') <= MaxSeq
  BY <1>2, <1>4, Sizes
<1>7. SingleInv'
  BY <1>2, <1>5, <1>6 DEF SingleInv
<1> QED
  BY <1>1, <1>2, <1>3, <1>7, SingleAfter

LEMMA PerplexityKeeps == ASSUME IInv, job.mode \in SingleModes, Perplexity PROVE IInv'
<1>1. /\ job \in Jobs /\ StreamsInv /\ StepInv /\ Completed /\ SingleInv
      /\ LaneSet = Lanes /\ 0 \in Lanes /\ \A l : LaneEnd(l) = MaxSeq /\ 1 <= MostColumns
  BY SingleFacts
<1>2. /\ pc = "ppl" /\ rep <= Len(job.windows) /\ job' = job /\ out' = out /\ pc' = pc
      /\ UNCHANGED <<hist, active, cbpos, scan, qhead, nact, req, pref, fed>>
  BY DEF Perplexity, slots
<1>3. job.mode = "ppl" /\ pos \in Int /\ -1 <= pos /\ pos < MaxSeq
  BY <1>1, <1>2, SingleControl
<1>4. PICK ids, p : ids = job.windows[rep] /\ p = pos + 1
  OBVIOUS
<1>5. /\ p <= Len(ids) /\ Keeps(0, SubSeq(ids, 1, p)) /\ hist = <<>> /\ rep \in Nat /\ rep >= 1
  BY <1>1, <1>2, <1>3, <1>4 DEF SingleInv, QueueIdle
<1>6. job.windows \in Seq(Rows) /\ \A i \in 1 .. Len(job.windows) : Len(job.windows[i]) <= MaxSeq
  BY <1>1, <1>3, DenseAssumption
<1>7. ids \in Rows /\ Len(ids) \in Nat /\ Len(ids) <= MaxSeq /\ p \in Nat
  <2>1. rep \in 1 .. Len(job.windows)
    BY <1>2, <1>5, <1>6
  <2>2. ids \in Rows
    BY <2>1, <1>4, <1>6
  <2> QED
    BY <2>1, <2>2, <1>3, <1>4, <1>6 DEF Rows
<1>8. StreamsInv' /\ Completed'
  BY <1>1, <1>2, StreamsStay DEF Completed
<1>9. hist' = <<>> /\ Len(hist') <= MaxSeq
  BY <1>2, <1>5, Sizes
<1>10. CASE Len(ids) < 2 \/ p = Len(ids)
  <2>1. rep' = rep + 1 /\ pos' = -1 /\ UNCHANGED engine
    BY <1>2, <1>4, <1>10 DEF Perplexity
  <2>2. StepInv'
    BY <2>1, <1>1, <1>2, StepStays
  <2>3. rep' \in Nat /\ rep' >= 1
    BY <2>1, <1>5
  <2>4. QueueIdle' /\ SlotsIdle' /\ scan' = 0
    BY <2>3, <1>1, <1>2, Idle
  <2>5. pos' + 1 = 0 /\ pos' \in -1 .. MaxSeq - 1
    BY <2>1, Sizes
  <2>6. (rep <= Len(job.windows) =>
           pos + 1 <= Len(job.windows[rep]) /\ Keeps(0, SubSeq(job.windows[rep], 1, pos + 1)))'
    <3>1. SubSeq(job'.windows[rep'], 1, pos' + 1) = <<>>
      BY <2>5, NoRows
    <3>2. rep' <= Len(job.windows) => Len(job.windows[rep']) \in Nat
      <4> SUFFICES ASSUME rep' <= Len(job.windows) PROVE Len(job.windows[rep']) \in Nat
        OBVIOUS
      <4>1. rep' \in 1 .. Len(job.windows)
        BY <2>3, <1>6
      <4>2. job.windows[rep'] \in Rows
        BY <4>1, <1>6
      <4> QED
        BY <4>2 DEF Rows
    <3>3. Keeps(0, SubSeq(job.windows[rep], 1, pos + 1))'
      BY <3>1, KeepsNothing DEF Keeps
    <3>5. \A n \in Nat : 0 <= n
      OBVIOUS
    <3>6. pos' + 1 = 0 /\ job' = job
      BY <2>5, <1>2
    <3>4. rep' <= Len(job'.windows) => pos' + 1 <= Len(job'.windows[rep'])
      BY <3>2, <3>5, <3>6
    <3> QED
      BY <3>3, <3>4
  <2>7. SingleInv'
    BY <2>3, <2>4, <2>5, <2>6, <1>2, <1>3, <1>9 DEF SingleInv
  <2> QED
    BY <2>2, <2>7, <1>1, <1>2, <1>8, SingleAfter
<1>11. CASE ~ (Len(ids) < 2 \/ p = Len(ids))
  <2>1. PICK t, ctx : t = ids[p + 1] /\ ctx = SubSeq(ids, 1, p)
    OBVIOUS
  <2>2. p < Len(ids) /\ p <= Len(ids)
    BY <1>5, <1>7, <1>11
  <2>3. /\ ctx \in Rows /\ Len(ctx) = p /\ t \in Tokens /\ SubSeq(ids, 1, p + 1) = Append(ctx, t)
    <3>1. /\ SubSeq(ids, 1, p) \in Rows /\ Len(SubSeq(ids, 1, p)) = p
          /\ ids[p + 1] \in Tokens /\ SubSeq(ids, 1, p + 1) = Append(SubSeq(ids, 1, p), ids[p + 1])
      BY <2>2, <1>7, FirstRows
    <3> QED
      BY <2>1, <3>1
  <2>4. pos' = pos + 1 /\ Feed(<<Column(0, p, t)>>) /\ rep' = rep
    <3>1. pos + 2 = p + 1
      BY <1>3, <1>4
    <3> QED
      BY <3>1, <2>1, <1>2, <1>4, <1>11 DEF Perplexity, ForwardToken
  <2>5. p < LaneEnd(0) /\ 0 \in LaneSet /\ Keeps(0, ctx)
    BY <2>1, <2>2, <1>1, <1>5, <1>7, Sizes
  <2>6. /\ StepInv' /\ Append(ctx, t) \in Rows
        /\ Holds(job.kind, lanes'[0], Append(ctx, t))
    BY <2>3, <2>4, <2>5, <1>1, <1>2, OneFed
  <2>7. pos' + 1 = p + 1 /\ pos' \in -1 .. MaxSeq - 1 /\ p + 1 <= Len(ids)
    BY <2>2, <2>4, <1>3, <1>4, <1>7, Sizes
  <2>8. (pos + 1 <= Len(job.windows[rep]) /\ Keeps(0, SubSeq(job.windows[rep], 1, pos + 1)))'
    BY <2>3, <2>4, <2>6, <2>7, <1>2, <1>4 DEF Keeps
  <2>9. QueueIdle' /\ SlotsIdle' /\ scan' = 0
    BY <2>4, <1>1, <1>2, <1>5, Idle
  <2>10. SingleInv'
    BY <2>4, <2>7, <2>8, <2>9, <1>2, <1>3, <1>5, <1>9 DEF SingleInv
  <2> QED
    BY <2>6, <2>10, <1>1, <1>2, <1>8, SingleAfter
<1> QED
  BY <1>10, <1>11

\* Where an output ends.
LEMMA Ending ==
    ASSUME NEW o \in Rows, NEW t \in Tokens, NEW limit \in Nat, Len(o) < limit,
           \A i \in 1 .. Len(o) : o[i] \notin Eos
    PROVE  /\ t \in Eos \/ Len(Append(o, t)) >= limit =>
                 Len(Append(o, t)) = UpToEos(Append(o, t), limit)
           /\ t \notin Eos => \A i \in 1 .. Len(Append(o, t)) : Append(o, t)[i] \notin Eos
<1>1. PICK a, n : a = Append(o, t) /\ n = Len(o)
  OBVIOUS
<1>2. /\ Len(a) = n + 1 /\ n \in Nat /\ a[n + 1] = t
      /\ \A i \in 1 .. n : a[i] = o[i]
  BY <1>1, Extended
<1>3. \A i \in 1 .. n : a[i] \notin Eos
  BY <1>1, <1>2
<1>4. ASSUME NEW i \in 1 .. n + 1, i # n + 1 PROVE i \in 1 .. n
  BY <1>2, <1>4
<1>5. t \notin Eos => \A i \in 1 .. n + 1 : a[i] \notin Eos
  BY <1>2, <1>3, <1>4
<1> DEFINE E == {i \in 1 .. Len(a) : a[i] \in Eos}
<1>6. UpToEos(a, limit) = IF E # {} THEN CHOOSE i \in E : \A k \in E : i <= k ELSE limit
  BY DEF UpToEos
<1>7. t \in Eos => E = {n + 1}
  BY <1>2, <1>3, <1>4
<1>8. t \notin Eos => E = {}
  BY <1>2, <1>5
<1> HIDE DEF E
<1>9. t \in Eos => UpToEos(a, limit) = n + 1
  <2> SUFFICES ASSUME t \in Eos PROVE UpToEos(a, limit) = n + 1
    OBVIOUS
  <2>1. n + 1 <= n + 1
    BY <1>2
  <2>2. \E i \in E : \A k \in E : i <= k
    BY <2>1, <1>7
  <2> QED
    BY <2>2, <1>6, <1>7
<1>10. t \notin Eos /\ Len(a) >= limit => UpToEos(a, limit) = n + 1
  BY <1>1, <1>2, <1>6, <1>8
<1> QED
  BY <1>1, <1>2, <1>5, <1>9, <1>10

-----------------------------------------------------------------------------
(* The modes of the mixture-of-experts engine without slots.               *)

LEMMA MoeFacts ==
    ASSUME IInv, job.mode \in MoeModes
    PROVE  /\ job \in Jobs /\ StreamsInv /\ StepInv /\ Completed
           /\ LaneSet = 0 .. 2 * B /\ Lanes \subseteq LaneSet /\ Single \in LaneSet \ Lanes
           /\ \A b \in Lanes : Batched(b) \in LaneSet \ Lanes /\ Batched(b) # Single
           /\ \A l \in Lanes : LaneEnd(l) = Window
           /\ LaneEnd(Single) = MoeMaxPos
           /\ \A b \in Lanes : LaneEnd(Batched(b)) = 1
           /\ BatchMax <= MostColumns /\ BatchMax \in Nat /\ 1 <= BatchMax /\ B <= BatchMax
           /\ job.mode \in ComparingModes => MostColumns = 2 * BatchMax
           /\ Window \in Nat /\ 1 <= Window /\ Window <= MoeMaxPos
           /\ MoeMaxPos \in Nat /\ MoeMaxPos <= MaxSeq /\ CbMaxPos \in Nat /\ 1 <= CbMaxPos
           /\ CbMaxPos <= Window /\ GateWarm \in Nat
<1>1. job \in Jobs /\ StreamsInv /\ StepInv /\ Completed
  BY DEF IInv
<1>2. job.mode \notin DenseModes
  BY DEF MoeModes, DenseModes
<1>3. LaneSet = 0 .. 2 * B
  BY <1>2 DEF LaneSet
<1>4. /\ B \in Nat /\ 1 <= B
      /\ BatchMax \in Nat /\ 1 <= BatchMax /\ B <= BatchMax
      /\ Window \in Nat /\ 1 <= Window /\ Window <= MoeMaxPos
      /\ MoeMaxPos \in Nat /\ MoeMaxPos <= MaxSeq /\ CbMaxPos \in Nat /\ 1 <= CbMaxPos
      /\ CbMaxPos <= Window /\ GateWarm \in Nat
  BY LanesFit, MoeAssumption
<1>5. Lanes \subseteq LaneSet /\ Single \in LaneSet \ Lanes /\ \A l \in Lanes : l < B
  BY <1>3, <1>4 DEF Lanes, Single
<1>6. ASSUME NEW b \in Lanes
      PROVE  /\ Batched(b) \in LaneSet \ Lanes /\ Batched(b) # Single /\ ~ (Batched(b) < B)
  BY <1>3, <1>4, <1>6 DEF Lanes, Batched, Single
<1>7. /\ \A l \in Lanes : LaneEnd(l) = Window
      /\ LaneEnd(Single) = MoeMaxPos
      /\ \A b \in Lanes : LaneEnd(Batched(b)) = 1
  <2>1. \A l : LaneEnd(l) = IF l < B THEN Window ELSE IF l = Single THEN MoeMaxPos ELSE 1
    BY <1>2 DEF LaneEnd
  <2>2. ~ (Single < B)
    BY <1>4 DEF Single
  <2> QED
    BY <2>1, <2>2, <1>5, <1>6
<1>8. /\ job.mode \in ComparingModes => MostColumns = 2 * BatchMax
      /\ job.mode \notin ComparingModes => MostColumns = BatchMax
  BY <1>2 DEF MostColumns, MoeModes, DenseModes, ComparingModes
<1>9. BatchMax <= MostColumns
  BY <1>4, <1>8
<1> QED
  BY <1>1, <1>3, <1>4, <1>5, <1>6, <1>7, <1>8, <1>9

LEMMA MoeSingleFacts ==
    ASSUME IInv, job.mode \in MoeSingleModes
    PROVE  /\ job.mode \in MoeModes /\ MoeSingleInv
           /\ \A r \in Streams : job.mode \notin {"gguf", "hybrid"} => PromptOf[r] = job.prompt
           /\ \A r \in Streams : job.mode = "gguf" =>
                 PromptOf[r] = Append(job.prompt, Choice(job.model, job.prompt))
           /\ \A r \in Lanes : job.mode = "hybrid" => PromptOf[r] = <<Corpus(0)[r]>>
           /\ Writing = IF job.mode \in {"generate", "gguf"} THEN {0}
                        ELSE IF job.mode = "hybrid" THEN Lanes ELSE {}
<1>1. job.mode \in MoeModes /\ MoeSingleInv
  BY DEF IInv, ModeInv, MoeSingleModes, HostModes, DeviceModes, MoeModes
<1>2. \A r \in Streams : job.mode \notin {"gguf", "hybrid"} => PromptOf[r] = job.prompt
  BY DEF PromptOf, SlotModes, MoeSingleModes, HostModes, DeviceModes
<1>3. \A r \in Streams : job.mode = "gguf" =>
         PromptOf[r] = Append(job.prompt, Choice(job.model, job.prompt))
  BY DEF PromptOf, SlotModes
<1>4. \A r \in Lanes : job.mode = "hybrid" => PromptOf[r] = <<Corpus(0)[r]>>
  BY LanesFit DEF PromptOf, SlotModes
<1>5. Writing = IF job.mode \in {"generate", "gguf"} THEN {0}
                ELSE IF job.mode = "hybrid" THEN Lanes ELSE {}
  BY DEF Writing, SlotModes, MoeSingleModes, HostModes, DeviceModes
<1> QED
  BY <1>1, <1>2, <1>3, <1>4, <1>5

LEMMA MoeSingleAfter ==
    ASSUME IInv, job.mode \in MoeSingleModes, job' = job,
           StreamsInv', StepInv', Completed', MoeSingleInv'
    PROVE  IInv'
<1>1. job.mode \notin {"cbatch", "mixed"} \union SingleModes \union SlotModes
  BY DEF SingleModes, MoeSingleModes, SlotModes, HostModes, DeviceModes
<1>2. ModeInv'
  BY <1>1 DEF ModeInv
<1> QED
  BY <1>2 DEF IInv

\* What steps of these modes leave alone.
LEMMA MoeIdle ==
    ASSUME MoeSingleInv, job' = job, UNCHANGED denseVars, active' = active, cbpos' = cbpos
    PROVE  /\ QueueIdle' /\ SlotsIdle' /\ hist' = <<>> /\ Lanes' = Lanes /\ Streams' = Streams
           /\ FedLanes' = FedLanes /\ DeviceLanes' = DeviceLanes
  BY DEF MoeSingleInv, QueueIdle, SlotsIdle, denseVars, queue, Lanes, Streams, Reqs, FedLanes,
         DeviceLanes, Single

\* What a mode is doing.
LEMMA MoeControl ==
    ASSUME MoeSingleInv, job.mode \in MoeSingleModes
    PROVE  /\ pc \notin {"moeprompt", "done", "failed"} => job.mode = pc
           /\ pos \in Int /\ -1 <= pos /\ scan \in 0 .. B
           /\ job.mode \notin {"moeprompt", "done", "failed"}
           /\ pc \notin {"slots", "warmup", "combined", "scalar"}
<1>1. pc \in {"moeprompt", "done", "failed", job.mode} /\ pos \in -1 .. MaxSeq + GateWarm /\ scan \in 0 .. B
  BY DEF MoeSingleInv
<1>2. job.mode \notin {"moeprompt", "done", "failed", "slots", "warmup", "combined", "scalar"}
  BY DEF MoeSingleModes, HostModes, DeviceModes
<1> QED
  BY <1>1, <1>2, Sizes, MoeAssumption

LEMMA OwedMoe ==
    ASSUME job.mode \in MoeSingleModes, job' = job
    PROVE  /\ job.mode = "generate" =>
                 Owed(0) = UpToEos(out[0], Lesser(job.n, MoeMaxPos - Len(job.prompt) + 1))
           /\ job.mode = "gguf" => Owed(0) = Lesser(job.n, MoeMaxPos - Len(job.prompt))
           /\ job.mode \in {"generate", "gguf"} => \A r : r # 0 => Owed(r) = 0
           /\ job.mode = "hybrid" => \A r : Owed(r) = IF r \in Lanes THEN 1 ELSE 0
           /\ job.mode \notin {"generate", "gguf", "hybrid"} => \A r : Owed(r) = 0
<1>1. CASE job.mode = "generate"
  BY <1>1 DEF Owed, SlotModes
<1>2. CASE job.mode = "gguf"
  BY <1>2 DEF Owed, SlotModes
<1>3. CASE job.mode = "hybrid"
  BY <1>3 DEF Owed, SlotModes
<1>4. CASE job.mode \notin {"generate", "gguf", "hybrid"}
  BY <1>4 DEF Owed, SlotModes, MoeSingleModes, HostModes, DeviceModes
<1> QED
  BY <1>1, <1>2, <1>3, <1>4

\* The same of the next state.
LEMMA OwedMoeNext ==
    ASSUME job.mode \in MoeSingleModes, job' = job
    PROVE  /\ job.mode = "generate" =>
                 Owed(0)' = UpToEos(out'[0], Lesser(job.n, MoeMaxPos - Len(job.prompt) + 1))
           /\ job.mode = "gguf" => Owed(0)' = Lesser(job.n, MoeMaxPos - Len(job.prompt))
           /\ job.mode \in {"generate", "gguf"} => \A r : r # 0 => Owed(r)' = 0
           /\ job.mode = "hybrid" => \A r : Owed(r)' = IF r \in Lanes THEN 1 ELSE 0
           /\ job.mode \notin {"generate", "gguf", "hybrid"} => \A r : Owed(r)' = 0
<1>1. CASE job.mode = "generate"
  BY <1>1 DEF Owed, SlotModes
<1>2. CASE job.mode = "gguf"
  BY <1>2 DEF Owed, SlotModes
<1>3. CASE job.mode = "hybrid"
  BY <1>3 DEF Owed, SlotModes, Lanes
<1>4. CASE job.mode \notin {"generate", "gguf", "hybrid"}
  BY <1>4 DEF Owed, SlotModes, MoeSingleModes, HostModes, DeviceModes
<1> QED
  BY <1>1, <1>2, <1>3, <1>4

\* Columns of lanes of their own whose answers are the logits.
LEMMA SeparatelyFed ==
    ASSUME StepInv, job \in Jobs, job' = job, NEW n, NEW cs, NEW L, NEW P, NEW K, NEW ctx,
           Separate(n, cs, L, P, K, ctx), Feed(cs)
    PROVE  /\ StepInv' /\ LaneSet' = LaneSet
           /\ \A i \in 1 .. n :
                 /\ Append(ctx[i], K[i]) \in Rows /\ Len(Append(ctx[i], K[i])) = P[i] + 1
                 /\ Holds(job.kind, lanes'[L[i]], Append(ctx[i], K[i]))
           /\ \A l \in Lanes : l < n =>
                 /\ logits'[l] = Choice(job.model, Append(ctx[l + 1], K[l + 1]))
                 /\ logits'[l] \in Tokens
           /\ \A l \in LaneSet : (\A i \in 1 .. n : L[i] # l) => lanes'[l] = lanes[l]
<1>1. Compute(cs, Written(cs)) /\ logits' = Answers(Written(cs), cs)
  BY FeedComputes
<1>2. FedSeparately(n, cs, L, P, K, ctx)
  BY <1>1, EachFed
<1>3. /\ Len(cs) = n
      /\ lanes' \in [LaneSet -> LaneType] /\ clear' = TRUE /\ DispatchFits'
      /\ \A i \in 1 .. n :
            /\ Append(ctx[i], K[i]) \in Rows /\ Len(Append(ctx[i], K[i])) = P[i] + 1
            /\ Holds(job.kind, lanes'[L[i]], Append(ctx[i], K[i]))
            /\ Answer(Written(cs), cs[i]) = Choice(job.model, Append(ctx[i], K[i]))
            /\ Answer(Written(cs), cs[i]) \in Tokens
      /\ \A l \in LaneSet : (\A i \in 1 .. n : L[i] # l) => lanes'[l] = lanes[l]
  BY <1>2 DEF FedSeparately
<1>4. LaneSet' = LaneSet
  BY DEF LaneSet, Lanes
<1>5. n \in Nat
  BY DEF Separate
<1>6. logits' = [l \in Lanes |-> IF l < n THEN Answer(Written(cs), cs[l + 1]) ELSE logits[l]]
  BY <1>1, <1>3 DEF Answers
<1>7. ASSUME NEW l \in Lanes, l < n PROVE l + 1 \in 1 .. n
  BY <1>5, <1>7 DEF Lanes
<1>8. ASSUME NEW l \in Lanes, l < n
      PROVE  /\ logits'[l] = Choice(job.model, Append(ctx[l + 1], K[l + 1]))
             /\ logits'[l] \in Tokens
  <2>1. PICK k \in 1 .. n : k = l + 1
    BY <1>7, <1>8
  <2>2. logits'[l] = Answer(Written(cs), cs[k])
    BY <1>6, <1>8, <2>1
  <2> QED
    BY <1>3, <2>1, <2>2
<1>9. logits' \in [Lanes -> Tokens \union {Garbled}]
  <2>1. logits \in [Lanes -> Tokens \union {Garbled}]
    BY DEF StepInv
  <2>2. \A l \in Lanes : logits'[l] \in Tokens \union {Garbled}
    <3>1. ASSUME NEW l \in Lanes, ~ (l < n) PROVE logits'[l] = logits[l]
      BY <1>6, <3>1
    <3> QED
      BY <1>8, <2>1, <3>1
  <2> QED
    BY <1>6, <2>2
<1>10. StepInv'
  BY <1>3, <1>4, <1>9 DEF StepInv
<1> QED
  BY <1>3, <1>4, <1>8, <1>10

\* The columns of a position of the prompt.
PromptFeeds(cs, n, L) ==
    /\ n \in Nat /\ 1 <= n /\ n <= MostColumns /\ L \in [1 .. n -> LaneSet]
    /\ \A i, j \in 1 .. n : L[i] = L[j] => i = j
    /\ \A i \in 1 .. n : L[i] \in FedLanes
    /\ \A l \in FedLanes : \E i \in 1 .. n : L[i] = l
    /\ cs = [i \in 1 .. n |-> Column(L[i], pos + 1, job.prompt[pos + 2])]

\* Where lanes that are fed a prompt end.
LEMMA FedEnds ==
    ASSUME IInv, job.mode \in MoeSingleModes, pc = "moeprompt"
    PROVE  /\ FedLanes \subseteq {0, Single} /\ LaneEnd(0) = Window /\ LaneEnd(Single) = MoeMaxPos
           /\ Single \in FedLanes => Len(job.prompt) <= MoeMaxPos
           /\ FedLanes \subseteq LaneSet /\ FedLanes # {} /\ Single >= B /\ 0 # Single /\ 0 < B
<1>1. /\ LaneEnd(0) = Window /\ LaneEnd(Single) = MoeMaxPos /\ job \in Jobs
      /\ Single \in LaneSet /\ Window <= MoeMaxPos /\ job.mode \in MoeModes /\ MoeSingleInv
      /\ Window \in Nat /\ MoeMaxPos \in Nat
  BY LanesFit, MoeFacts, MoeSingleFacts
<1>2. job.mode \notin {"lockstep", "hybrid"} /\ Len(job.prompt) \in Nat
  BY <1>1, JobTypes DEF MoeSingleInv, MoePrompting
<1>3. job.attn \in {"mla", "gqa"}
  BY <1>1, MoeAssumption
<1>4. FedLanes =
        CASE job.mode = "generate"                              -> {0}
          [] job.mode \in HostModes                             -> {Single}
          [] job.mode \in {"layers", "parity"}                  -> {0, Single}
          [] job.mode = "attention" /\ job.attn = "mla"         -> {0, Single}
          [] job.mode = "attention" /\ job.attn # "mla"         -> {0}
          [] OTHER                                              -> {}
  BY DEF FedLanes
<1>5. FedLanes \subseteq {0, Single} /\ FedLanes # {}
  BY <1>2, <1>3, <1>4 DEF MoeSingleModes, HostModes, DeviceModes
<1>6. Single \in FedLanes => Len(job.prompt) <= MoeMaxPos
  <2>1. CASE job.mode \in HostModes \union {"generate", "parity"}
    BY <2>1, <1>1, MoeAssumption DEF HostModes
  <2>2. CASE job.mode \in {"attention", "layers"}
    <3>1. Len(job.prompt) <= Window
      BY <2>2, <1>1, MoeAssumption
    <3> QED
      BY <3>1, <1>1, <1>2
  <2> QED
    BY <2>1, <2>2, <1>2 DEF MoeSingleModes, HostModes, DeviceModes
<1>7. Single >= B /\ 0 # Single /\ 0 < B
  BY LanesFit DEF Single
<1> QED
  BY <1>1, <1>5, <1>6, <1>7, LanesFit

LEMMA PromptStepKeeps ==
    ASSUME IInv, job.mode \in MoeSingleModes, UNCHANGED denseVars,
           NEW cs, NEW n, NEW L, PromptStep(cs), PromptFeeds(cs, n, L)
    PROVE  IInv'
<1>1. /\ job \in Jobs /\ StreamsInv /\ StepInv /\ Completed /\ MoeSingleInv
      /\ Window \in Nat /\ MoeMaxPos \in Nat /\ MoeMaxPos <= MaxSeq /\ Window <= MoeMaxPos
      /\ GateWarm \in Nat /\ job.mode \in MoeModes
  BY MoeFacts, MoeSingleFacts
<1>2. /\ pc = "moeprompt" /\ job' = job /\ out' = out /\ pos' = pos + 1
      /\ UNCHANGED <<active, tok, cbpos, scan>>
      /\ pos + 1 < Len(job.prompt) /\ FeedOrFail(cs)
  BY DEF PromptStep, slots
<1>3. MoePrompting /\ pos \in Int /\ -1 <= pos /\ scan \in 0 .. B
  BY <1>1, <1>2, MoeControl DEF MoeSingleInv
<1>4. /\ job.prompt \in Rows /\ Len(job.prompt) \in Nat /\ Len(job.prompt) <= MaxSeq
  BY <1>1, JobTypes
<1>5. PICK p \in Nat : p = pos + 1 /\ p < Len(job.prompt)
  BY <1>2, <1>3
<1>6. PICK ctx, t, new : /\ ctx = SubSeq(job.prompt, 1, p) /\ t = job.prompt[p + 1]
                         /\ new = SubSeq(job.prompt, 1, p + 1)
  OBVIOUS
<1>7. /\ ctx \in Rows /\ Len(ctx) = p /\ t \in Tokens /\ new = Append(ctx, t)
      /\ PromptSoFar = ctx /\ job.prompt[pos + 2] = t
  <2>1. p <= Len(job.prompt)
    BY <1>4, <1>5
  <2>2. /\ SubSeq(job.prompt, 1, p) \in Rows /\ Len(SubSeq(job.prompt, 1, p)) = p
        /\ job.prompt[p + 1] \in Tokens
        /\ SubSeq(job.prompt, 1, p + 1) = Append(SubSeq(job.prompt, 1, p), job.prompt[p + 1])
    BY <1>4, <1>5, <2>1, FirstRows
  <2>3. PromptSoFar = ctx /\ pos + 2 = p + 1
    BY <1>3, <1>5, <1>6 DEF PromptSoFar
  <2> QED
    BY <1>6, <2>2, <2>3
<1>8. /\ FedLanes \subseteq {0, Single} /\ LaneEnd(0) = Window /\ LaneEnd(Single) = MoeMaxPos
      /\ Single \in FedLanes => Len(job.prompt) <= MoeMaxPos
      /\ FedLanes \subseteq LaneSet /\ Single >= B /\ 0 # Single /\ 0 < B
  BY <1>2, FedEnds
<1>9. /\ QueueIdle' /\ SlotsIdle' /\ hist' = <<>> /\ FedLanes' = FedLanes /\ Streams' = Streams
  BY <1>1, <1>2, MoeIdle
<1>10. StreamsInv'
  BY <1>1, <1>2, StreamsStay
<1>11. 0 \in FedLanes => p <= Window
  BY <1>3, <1>5 DEF MoePrompting
<1>12. pos' = p /\ pos' \in -1 .. MaxSeq + GateWarm
  BY <1>1, <1>2, <1>4, <1>5, Sizes
<1>13. /\ n \in Nat /\ 1 <= n /\ n <= MostColumns /\ L \in [1 .. n -> LaneSet]
       /\ \A i, j \in 1 .. n : L[i] = L[j] => i = j
       /\ \A i \in 1 .. n : L[i] \in FedLanes
       /\ \A l \in FedLanes : \E i \in 1 .. n : L[i] = l
       /\ cs = [i \in 1 .. n |-> Column(L[i], p, t)]
  BY <1>5, <1>7 DEF PromptFeeds
<1>14. CASE Refused(cs)
  <2>1. pc' = "failed" /\ UNCHANGED engine
    BY <1>2, <1>14 DEF FeedOrFail
  <2>2. StepInv'
    BY <1>1, <1>2, <2>1, StepStays
  <2>3. \E i \in 1 .. Len(cs) : cs[i].lane < B /\ cs[i].pos >= Window
    BY <1>14 DEF Refused
  <2>4. Len(cs) = n /\ \A i \in 1 .. n : cs[i].lane = L[i] /\ cs[i].pos = p
    BY <1>13 DEF Column
  <2>5. PICK i \in 1 .. n : L[i] < B /\ p >= Window
    BY <2>3, <2>4
  <2>6. p = Window
    <3>1. L[i] # Single
      BY <2>5, LanesFit DEF Single
    <3>2. 0 \in FedLanes
      BY <1>8, <1>13, <3>1
    <3> QED
      BY <1>1, <1>11, <2>5, <3>2
  <2>7. MoeSingleInv'
    <3>1. job.mode # "lockstep" /\ job.mode # "hybrid"
      BY <1>3 DEF MoePrompting
    <3> QED
      BY <1>2, <1>3, <1>9, <1>12, <2>1, <2>6, <3>1 DEF MoeSingleInv
  <2>8. Completed'
    BY <2>1 DEF Completed
  <2> QED
    BY <1>2, <1>10, <2>2, <2>7, <2>8, MoeSingleAfter
<1>15. CASE ~ Refused(cs)
  <2>1. Feed(cs) /\ pc' = pc
    BY <1>2, <1>15 DEF FeedOrFail
  <2>2. 0 \in FedLanes => p < Window
    <3> SUFFICES ASSUME 0 \in FedLanes PROVE p < Window
      OBVIOUS
    <3>1. PICK i \in 1 .. n : L[i] = 0
      BY <1>13
    <3>2. Len(cs) = n /\ cs[i].lane = 0 /\ cs[i].pos = p
      BY <1>13, <3>1 DEF Column
    <3>3. ~ (p >= Window)
      BY <1>8, <1>15, <3>2 DEF Refused
    <3> QED
      BY <1>1, <3>3
  <2>3. PICK P, K, C : /\ P = [i \in 1 .. n |-> p] /\ K = [i \in 1 .. n |-> t]
                       /\ C = [i \in 1 .. n |-> ctx]
    OBVIOUS
  <2>4. \A i \in 1 .. n : P[i] = p /\ K[i] = t /\ C[i] = ctx
    BY <2>3
  <2>5. Separate(n, cs, L, P, K, C)
    <3>1. cs = [i \in 1 .. n |-> Column(L[i], P[i], K[i])]
      BY <1>13, <2>4
    <3>2. ASSUME NEW i \in 1 .. n PROVE Keeps(L[i], ctx) /\ p < LaneEnd(L[i])
      <4>1. Keeps(L[i], ctx)
        BY <1>3, <1>7, <1>13 DEF MoePrompting
      <4>2. p < LaneEnd(L[i])
        <5>1. L[i] = 0 \/ L[i] = Single
          BY <1>8, <1>13
        <5>2. Single \in FedLanes => p < MoeMaxPos
          BY <1>1, <1>4, <1>5, <1>8
        <5> QED
          BY <1>8, <1>13, <2>2, <5>1, <5>2
      <4> QED
        BY <4>1, <4>2
    <3> QED
      BY <1>7, <1>13, <2>4, <3>1, <3>2 DEF Separate
  <2>6. /\ StepInv' /\ LaneSet' = LaneSet
        /\ \A i \in 1 .. n :
              /\ Append(C[i], K[i]) \in Rows /\ Len(Append(C[i], K[i])) = P[i] + 1
              /\ Holds(job.kind, lanes'[L[i]], Append(C[i], K[i]))
        /\ \A l \in Lanes : l < n =>
              /\ logits'[l] = Choice(job.model, Append(C[l + 1], K[l + 1]))
              /\ logits'[l] \in Tokens
    BY <1>1, <1>2, <2>1, <2>5, SeparatelyFed
  <2>7. \A i \in 1 .. n : new \in Rows /\ Holds(job.kind, lanes'[L[i]], new)
    BY <1>7, <2>4, <2>6
  <2>8. logits'[0] = Choice(job.model, new)
    <3>1. 0 \in Lanes /\ 0 < n /\ 0 + 1 = 1 /\ 1 \in 1 .. n
      BY <1>13, LanesFit
    <3> QED
      BY <1>7, <2>4, <2>6, <3>1
  <2>9. PromptSoFar' = new
    BY <1>2, <1>6, <1>12 DEF PromptSoFar
  <2>10. MoePrompting'
    <3>1. p + 1 <= Len(job.prompt)
      BY <1>4, <1>5
    <3>2. 0 \in FedLanes => p + 1 <= Window
      BY <1>1, <2>2
    <3>3. \A l \in FedLanes : Keeps(l, PromptSoFar)'
      BY <1>2, <1>13, <2>7, <2>9 DEF Keeps
    <3> QED
      BY <1>2, <1>3, <1>9, <1>12, <2>8, <2>9, <3>1, <3>2, <3>3 DEF MoePrompting
  <2>11. MoeSingleInv'
    <3>1. job.mode # "lockstep" /\ job.mode # "hybrid"
      BY <1>3 DEF MoePrompting
    <3> QED
      BY <1>2, <1>3, <1>9, <1>12, <2>1, <2>10, <3>1 DEF MoeSingleInv
  <2>12. Completed'
    BY <1>2, <2>1 DEF Completed
  <2> QED
    BY <1>2, <1>10, <2>6, <2>11, <2>12, MoeSingleAfter
<1> QED
  BY <1>14, <1>15

LEMMA PromptColumn ==
    ASSUME NEW l, l \in LaneSet, FedLanes = {l}, 1 <= MostColumns
    PROVE  \E L : PromptFeeds(<<Column(l, pos + 1, job.prompt[pos + 2])>>, 1, L)
<1>1. PICK L, c : L = [i \in 1 .. 1 |-> l] /\ c = Column(l, pos + 1, job.prompt[pos + 2])
  OBVIOUS
<1>2. L \in [1 .. 1 -> LaneSet] /\ \A i \in 1 .. 1 : i = 1 /\ L[i] = l
  BY <1>1
<1>3. <<c>> = [i \in 1 .. 1 |-> Column(L[i], pos + 1, job.prompt[pos + 2])]
  <2>1. [i \in 1 .. 1 |-> Column(L[i], pos + 1, job.prompt[pos + 2])] = [i \in 1 .. 1 |-> c]
    BY <1>1, <1>2
  <2> QED
    BY <2>1
<1>4. \A m \in FedLanes : \E i \in 1 .. 1 : L[i] = m
  <2>1. 1 \in 1 .. 1
    OBVIOUS
  <2> QED
    BY <1>2, <2>1
<1> QED
  BY <1>1, <1>2, <1>3, <1>4 DEF PromptFeeds

LEMMA PromptTwoColumns ==
    ASSUME NEW l, NEW m, l \in LaneSet, m \in LaneSet, l # m, FedLanes = {l, m}, 2 <= MostColumns
    PROVE  \E L : PromptFeeds(<<Column(l, pos + 1, job.prompt[pos + 2])>> \o
                                   <<Column(m, pos + 1, job.prompt[pos + 2])>>, 2, L)
<1>1. PICK L, c, d : /\ L = [i \in 1 .. 2 |-> IF i = 1 THEN l ELSE m]
                     /\ c = Column(l, pos + 1, job.prompt[pos + 2])
                     /\ d = Column(m, pos + 1, job.prompt[pos + 2])
  OBVIOUS
<1>2. /\ 1 \in 1 .. 2 /\ 2 \in 1 .. 2 /\ \A i \in 1 .. 2 : i = 1 \/ i = 2
  OBVIOUS
<1>3. L[1] = l /\ L[2] = m /\ L \in [1 .. 2 -> LaneSet]
  BY <1>1, <1>2
<1>4. <<c>> \o <<d>> = [i \in 1 .. 2 |-> Column(L[i], pos + 1, job.prompt[pos + 2])]
  <2>1. [i \in 1 .. 2 |-> Column(L[i], pos + 1, job.prompt[pos + 2])] =
           [i \in 1 .. 2 |-> IF i = 1 THEN c ELSE d]
    BY <1>1, <1>2, <1>3
  <2>2. <<c>> \o <<d>> = [i \in 1 .. 2 |-> IF i = 1 THEN c ELSE d]
    <3>1. PICK S : S = {c, d}
      OBVIOUS
    <3>2. PICK x, y, z : x = <<c>> /\ y = <<d>> /\ z = x \o y
      OBVIOUS
    <3>3. x \in Seq(S) /\ y \in Seq(S) /\ Len(x) = 1 /\ Len(y) = 1 /\ x[1] = c /\ y[1] = d
      BY <3>1, <3>2
    <3>4. z \in Seq(S) /\ Len(z) = 2 /\ z[1] = c /\ z[2] = d
      <4>1. 1 \in 1 .. 1 /\ 1 + 1 = 2
        OBVIOUS
      <4> QED
        BY <3>2, <3>3, <4>1, Concatenated
    <3>5. z = [i \in 1 .. 2 |-> IF i = 1 THEN c ELSE d]
      <4> HIDE <3>2
      <4>1. z = [i \in 1 .. Len(z) |-> z[i]]
        BY <3>4
      <4> QED
        BY <1>2, <3>4, <4>1
    <3> QED
      BY <3>2, <3>5
  <2> QED
    BY <2>1, <2>2
<1>5. /\ \A i, j \in 1 .. 2 : L[i] = L[j] => i = j
      /\ \A i \in 1 .. 2 : L[i] \in FedLanes
      /\ \A k \in FedLanes : \E i \in 1 .. 2 : L[i] = k
  BY <1>2, <1>3
<1> QED
  BY <1>1, <1>3, <1>4, <1>5 DEF PromptFeeds

MoePrompt ==
    \/ PromptMla \/ PromptGqa \/ PromptGguf \/ Verify \/ VerifySafetensors
    \/ AttentionMla \/ AttentionGqa \/ Layers \/ ParityMla \/ ParityGqa

LEMMA MoePromptKeeps ==
    ASSUME IInv, job.mode \in MoeSingleModes, UNCHANGED denseVars, MoePrompt
    PROVE  IInv'
<1>1. /\ job \in Jobs /\ job.mode \in MoeModes /\ 0 \in LaneSet /\ Single \in LaneSet /\ Single # 0
      /\ BatchMax <= MostColumns /\ BatchMax \in Nat /\ 1 <= BatchMax
      /\ job.mode \in ComparingModes => MostColumns = 2 * BatchMax
  BY MoeFacts, MoeSingleFacts, LanesFit
<1>2. /\ 1 <= MostColumns
      /\ job.mode \in ComparingModes => 2 <= MostColumns
  <2>1. MostColumns \in Nat
    BY <1>1, MoeAssumption DEF MostColumns, MoeModes, DenseModes, ComparingModes
  <2> QED
    BY <1>1, <2>1
<1>3. PICK c, d : /\ c = Column(Single, pos + 1, job.prompt[pos + 2])
                  /\ d = Column(0, pos + 1, job.prompt[pos + 2])
  OBVIOUS
<1>4. CASE PromptStep(<<c>>) /\ FedLanes = {Single}
  BY <1>1, <1>2, <1>3, <1>4, PromptColumn, PromptStepKeeps
<1>5. CASE PromptStep(<<d>>) /\ FedLanes = {0}
  BY <1>1, <1>2, <1>3, <1>5, PromptColumn, PromptStepKeeps
<1>6. CASE PromptStep(<<c>> \o <<d>>) /\ FedLanes = {Single, 0} /\ job.mode \in ComparingModes
  BY <1>1, <1>2, <1>3, <1>6, PromptTwoColumns, PromptStepKeeps
<1>7. PromptMla \/ PromptGqa => PromptStep(<<d>>) /\ FedLanes = {0}
  BY <1>3 DEF PromptMla, PromptGqa, DeviceToken, MlaToken, GqaToken, At, NextToken, FedLanes,
              HostModes
<1>8. PromptGguf \/ Verify \/ VerifySafetensors => PromptStep(<<c>>) /\ FedLanes = {Single}
  BY <1>3 DEF PromptGguf, Verify, VerifySafetensors, HostToken, At, NextToken, FedLanes, HostModes
<1>9. AttentionGqa => PromptStep(<<d>>) /\ FedLanes = {0}
  BY <1>3 DEF AttentionGqa, AttentionToken, At, NextToken, FedLanes, HostModes
<1>10. AttentionMla \/ Layers \/ ParityMla \/ ParityGqa =>
          PromptStep(<<c>> \o <<d>>) /\ FedLanes = {Single, 0} /\ job.mode \in ComparingModes
  BY <1>3 DEF AttentionMla, Layers, ParityMla, ParityGqa, HostToken, AttentionToken, LayerToken,
              DeviceToken, MlaToken, GqaToken, At, NextToken, FedLanes, HostModes, ComparingModes
<1> QED
  BY <1>4, <1>5, <1>6, <1>7, <1>8, <1>9, <1>10 DEF MoePrompt

LEMMA RefusePromptKeeps ==
    ASSUME IInv, job.mode \in MoeSingleModes, UNCHANGED denseVars, RefusePrompt
    PROVE  IInv'
<1>1. StreamsInv /\ StepInv /\ MoeSingleInv /\ scan \in 0 .. B /\ GateWarm \in Nat
  BY MoeFacts, MoeSingleFacts, MoeControl
<1>2. /\ pc = "moeprompt" /\ pos = -1 /\ job.mode = "generate" /\ pc' = "failed"
      /\ job' = job /\ out' = out /\ pos' = pos /\ UNCHANGED engine
      /\ UNCHANGED <<active, cbpos, scan>>
  BY DEF RefusePrompt, slots
<1>3. StepInv' /\ StreamsInv' /\ Completed'
  BY <1>1, <1>2, StepStays, StreamsStay DEF Completed
<1>4. QueueIdle' /\ SlotsIdle' /\ hist' = <<>>
  BY <1>1, <1>2, MoeIdle
<1>5. MoeSingleInv'
  BY <1>1, <1>2, <1>4, Sizes DEF MoeSingleInv
<1> QED
  BY <1>2, <1>3, <1>5, MoeSingleAfter

LEMMA WithChoice ==
    ASSUME NEW x \in Rows, NEW c \in Tokens
    PROVE  /\ Append(x, c) \in Rows /\ Len(Append(x, c)) = Len(x) + 1 /\ Len(x) \in Nat
           /\ SubSeq(Append(x, c), 1, Len(x)) = x /\ Append(x, c)[Len(x) + 1] = c
<1>1. Append(x, c) \in Rows /\ Len(Append(x, c)) = Len(x) + 1 /\ Append(x, c)[Len(x) + 1] = c
  BY DEF Rows
<1>2. PICK y : y \in Rows /\ y = <<c>>
  <2>1. <<c>> \in Seq(Tokens)
    OBVIOUS
  <2> QED
    BY <2>1 DEF Rows
<1>3. x \in Seq(Tokens) /\ y \in Seq(Tokens) /\ Append(x, c) = x \o y
  BY <1>2 DEF Rows
<1> QED
  BY <1>1, <1>3, TextTypes DEF Rows

LEMMA PromptDoneKeeps ==
    ASSUME IInv, job.mode \in MoeSingleModes, UNCHANGED denseVars, PromptDone
    PROVE  IInv'
<1>1. /\ job \in Jobs /\ StreamsInv /\ StepInv /\ MoeSingleInv /\ scan \in 0 .. B
      /\ MoeMaxPos \in Nat /\ Window \in Nat /\ job.mode \in MoeModes /\ 0 \in Streams
  BY MoeFacts, MoeSingleFacts, MoeControl, LanesFit
<1>2. /\ pc = "moeprompt" /\ pos + 1 = Len(job.prompt) /\ pc' = job.mode
      /\ job' = job /\ out' = out /\ pos' = pos /\ UNCHANGED engine
      /\ UNCHANGED <<active, cbpos, scan>>
  BY DEF PromptDone, slots
<1>3. StepInv' /\ StreamsInv'
  BY <1>1, <1>2, StepStays, StreamsStay
<1>4. /\ QueueIdle' /\ SlotsIdle' /\ hist' = <<>> /\ DeviceLanes' = DeviceLanes
      /\ Streams' = Streams
  BY <1>1, <1>2, MoeIdle
<1>5. MoePrompting /\ pos \in Int /\ pos \in -1 .. MaxSeq + GateWarm
  BY <1>1, <1>2, MoeControl DEF MoeSingleInv
<1>6. /\ job.prompt \in Rows /\ Len(job.prompt) \in Nat /\ 1 <= Len(job.prompt) /\ job.n \in Nat
  BY <1>1, JobTypes
<1>7. PromptSoFar = job.prompt /\ pos >= 0
  <2>1. PromptSoFar = SubSeq(job.prompt, 1, Len(job.prompt))
    BY <1>2 DEF PromptSoFar
  <2> QED
    BY <1>2, <1>5, <1>6, <2>1, FirstRows
<1>8. /\ \A l \in FedLanes : Keeps(l, job.prompt)
      /\ logits[0] = Choice(job.model, job.prompt)
      /\ out = [r \in Streams |-> <<>>] /\ job.mode \notin {"lockstep", "hybrid"}
      /\ 0 \in FedLanes => pos + 1 <= Window
  BY <1>5, <1>7 DEF MoePrompting
<1>9. \A l : Keeps(l, job.prompt) => Holds(job'.kind, lanes'[l], job.prompt)
  BY <1>2 DEF Keeps, engine
<1>10. logits' = logits /\ out'[0] = <<>> /\ Len(out'[0]) = 0
  BY <1>1, <1>2, <1>8 DEF engine
<1>11. pc' = "generate" => Generates'
  <2> SUFFICES ASSUME job.mode = "generate" PROVE Generates'
    BY <1>2
  <2>1. 0 \in FedLanes
    BY DEF FedLanes, HostModes
  <2>2. PromptOf[0] = job.prompt
    BY <1>1, MoeSingleFacts
  <2>3. Text(0)' = job.prompt \o out'[0]
    BY <1>2, <2>2, TextAfter
  <2>4. job.prompt \o <<>> = job.prompt
    BY <1>6, TextTypes DEF Rows
  <2>5. Text(0)' = job.prompt
    BY <1>10, <2>3, <2>4
  <2>6. PICK x : x = Text(0)' /\ x = job.prompt
    BY <2>5
  <2>7. x \in Rows /\ Holds(job'.kind, lanes'[0], x)
    BY <1>6, <1>8, <1>9, <2>1, <2>6
  <2>8. Len(x) = pos' + 1 /\ logits'[0] = Choice(job'.model, x) /\ pos' + 1 <= Window
    BY <1>2, <1>8, <1>10, <2>1, <2>6
  <2>9. Len(out'[0]) <= job'.n /\ \A i \in 1 .. Len(out'[0]) : out'[0][i] \notin Eos
    BY <1>2, <1>6, <1>10
  <2> QED
    BY <2>6, <2>7, <2>8, <2>9 DEF Generates, Keeps
<1>12. pc' = "gguf" => GgufGenerates'
  <2> SUFFICES ASSUME job.mode = "gguf" PROVE GgufGenerates'
    BY <1>2
  <2>1. PICK c : c = Choice(job.model, job.prompt)
    OBVIOUS
  <2>2. c \in Tokens
    BY <1>1, <1>6, <2>1, ChoiceIsToken
  <2>3. /\ Append(job.prompt, c) \in Rows /\ Len(Append(job.prompt, c)) = Len(job.prompt) + 1
        /\ SubSeq(Append(job.prompt, c), 1, Len(job.prompt)) = job.prompt
        /\ Append(job.prompt, c)[Len(job.prompt) + 1] = c
    BY <1>6, <2>2, WithChoice
  <2>4. PromptOf[0] = Append(job.prompt, c)
    BY <1>1, <2>1, MoeSingleFacts
  <2>5. Append(job.prompt, c) \o <<>> = Append(job.prompt, c)
    BY <2>3, TextTypes DEF Rows
  <2>6. Text(0)' = Append(job.prompt, c)
    BY <1>2, <1>10, <2>4, <2>5, TextAfter
  <2>7. FedLanes = {Single} /\ Len(job.prompt) <= MoeMaxPos
    BY <1>1, MoeAssumption DEF FedLanes, HostModes
  <2>8. PICK x : x = Text(0)'
    OBVIOUS
  <2>9. /\ SubSeq(x, 1, pos' + 1) = job.prompt /\ Len(x) = pos' + 2 /\ x[pos' + 2] = c
    <3>1. pos' + 1 = Len(job.prompt) /\ pos' + 2 = Len(job.prompt) + 1
      BY <1>2, <1>5
    <3> QED
      BY <2>3, <2>6, <2>8, <3>1
  <2>10. SubSeq(x, 1, pos' + 1) \in Rows /\ Holds(job'.kind, lanes'[Single], SubSeq(x, 1, pos' + 1))
    BY <1>6, <1>8, <1>9, <2>7, <2>9
  <2>11. logits'[0] = x[pos' + 2] /\ pos' + 1 <= MoeMaxPos /\ Len(out'[0]) <= job'.n
    BY <1>2, <1>6, <1>8, <1>10, <2>1, <2>7, <2>9
  <2>12. Single' = Single
    BY DEF Single
  <2> QED
    BY <2>8, <2>9, <2>10, <2>11, <2>12 DEF GgufGenerates, Keeps
<1>13. pc' \in {"layers", "parity", "lockstep"} => Measures'
  <2> SUFFICES ASSUME job.mode \in {"layers", "parity"} PROVE Measures'
    BY <1>2, <1>8
  <2>1. 0 \in FedLanes /\ DeviceLanes = {0}
    BY DEF FedLanes, DeviceLanes, HostModes
  <2>2. PICK x : x = job.prompt
    OBVIOUS
  <2>3. x \in Rows /\ Holds(job'.kind, lanes'[0], x) /\ Len(x) = pos' + 1
    BY <1>2, <1>6, <1>8, <1>9, <2>1, <2>2
  <2> QED
    BY <1>2, <1>4, <2>1, <2>3 DEF Measures, Keeps
<1>14. pc' \notin {"moeprompt", "failed", "done"}
  BY <1>2 DEF MoeSingleModes, HostModes, DeviceModes
<1>15. Completed'
  BY <1>14 DEF Completed
<1>16. MoeSingleInv'
  BY <1>1, <1>2, <1>4, <1>5, <1>8, <1>11, <1>12, <1>13, <1>14 DEF MoeSingleInv
<1> QED
  BY <1>2, <1>3, <1>15, <1>16, MoeSingleAfter

\* A column of the device, or of the CPU.
LEMMA TokenColumns ==
    ASSUME NEW p, NEW t
    PROVE  /\ DeviceToken(p, t) = <<Column(0, p, t)>> /\ LayerToken(p, t) = <<Column(0, p, t)>>
           /\ HostToken(p, t) = <<Column(Single, p, t)>>
           /\ Refused(<<Column(0, p, t)>>) <=> p >= Window
<1>1. PICK cs : cs = <<Column(0, p, t)>>
  OBVIOUS
<1>2. Len(cs) = 1 /\ cs[1] = Column(0, p, t) /\ 1 \in 1 .. 1 /\ \A i \in 1 .. 1 : i = 1
  BY <1>1
<1>3. \A i \in 1 .. Len(cs) : cs[i].lane = 0 /\ cs[i].pos = p
  BY <1>2 DEF Column
<1>4. Refused(cs) <=> p >= Window
  BY <1>2, <1>3, LanesFit DEF Refused
<1> QED
  BY <1>1, <1>4 DEF DeviceToken, MlaToken, GqaToken, LayerToken, HostToken

ColumnReady(l, t, p, ctx) ==
    /\ l \in LaneSet /\ t \in Tokens /\ Keeps(l, ctx) /\ Len(ctx) = p
    /\ p < LaneEnd(l) /\ 1 <= MostColumns /\ Feed(<<Column(l, p, t)>>)
ColumnFed(l, t, p, ctx) ==
    /\ Append(ctx, t) \in Rows /\ Len(Append(ctx, t)) = p + 1
    /\ Holds(job.kind, lanes'[l], Append(ctx, t))
    /\ logits'[0] = Choice(job.model, Append(ctx, t))

LEMMA ColumnIsFed ==
    ASSUME StepInv, job \in Jobs, job' = job, NEW l, NEW t, NEW p, NEW ctx,
           ColumnReady(l, t, p, ctx)
    PROVE  StepInv' /\ ColumnFed(l, t, p, ctx)
<1>1. /\ l \in LaneSet /\ t \in Tokens /\ Keeps(l, ctx) /\ Len(ctx) = p
      /\ p < LaneEnd(l) /\ 1 <= MostColumns /\ Feed(<<Column(l, p, t)>>)
  BY DEF ColumnReady
<1>2. /\ StepInv'
      /\ Append(ctx, t) \in Rows /\ Len(Append(ctx, t)) = p + 1
      /\ Holds(job.kind, lanes'[l], Append(ctx, t))
      /\ logits'[0] = Choice(job.model, Append(ctx, t))
  BY <1>1, OneFed
<1> QED
  BY <1>2 DEF ColumnFed

LEMMA Silent ==
    ASSUME StreamsInv, NEW r \in Streams, r \notin Writing
    PROVE  out[r] = <<>> /\ Len(out[r]) = 0
  BY DEF StreamsInv

\* The outputs after one has grown.
LEMMA OneGrows ==
    ASSUME job \in Jobs, job.mode \in MoeSingleModes, IInv, job' = job, NEW r \in Writing,
           r \in Streams, NEW t, t = Choice(job.model, Text(r)),
           out' = [out EXCEPT ![r] = Append(@, t)]
    PROVE  /\ StreamsInv' /\ t \in Tokens /\ Text(r) \in Rows /\ Text(r)' = Append(Text(r), t)
           /\ Len(Text(r)) = Len(PromptOf[r]) + Len(out[r])
           /\ Len(PromptOf[r]) \in Nat /\ Len(out[r]) \in Nat
           /\ out'[r] = Append(out[r], t) /\ Len(out'[r]) = Len(out[r]) + 1
           /\ \A m \in Streams : m # r => out'[m] = out[m]
<1>1. job.mode \in MoeModes /\ StreamsInv
  BY MoeSingleFacts, MoeFacts
<1>2. out \in [Streams -> Rows]
  BY <1>1 DEF StreamsInv
<1>3. out'[r] = Append(out[r], t) /\ \A m \in Streams : m # r => out'[m] = out[m]
  BY <1>2
<1>4. /\ t \in Tokens /\ Text(r) \in Rows /\ Text(r)' = Append(Text(r), t)
      /\ Len(Text(r)) = Len(PromptOf[r]) + Len(out[r])
      /\ Len(PromptOf[r]) \in Nat /\ Len(out[r]) \in Nat
      /\ out'[r] \in Rows /\ Len(out'[r]) = Len(out[r]) + 1
      /\ Continued(PromptOf[r], out'[r])
  BY <1>1, <1>3, TextGrows
<1>5. out' \in [Streams -> Rows]
  BY <1>2, <1>4
<1>6. StreamsInv'
  BY <1>1, <1>3, <1>4, <1>5, StreamsAfter
<1> QED
  BY <1>3, <1>4, <1>6

\* The length of a generated text.
LEMMA GenerationLimits ==
    ASSUME job \in Jobs, job.mode = "generate"
    PROVE  /\ Lesser(job.n, MoeMaxPos - Len(job.prompt) + 1) \in Nat
           /\ Len(job.prompt) <= MoeMaxPos /\ Len(job.prompt) \in Nat /\ MoeMaxPos \in Nat
<1>1. Len(job.prompt) <= MoeMaxPos /\ MoeMaxPos \in Nat
  BY MoeAssumption
<1>2. Len(job.prompt) \in Nat /\ job.n \in Nat
  BY JobTypes
<1>3. PICK a : a = MoeMaxPos - Len(job.prompt) + 1
  OBVIOUS
<1>4. a \in Nat
  BY <1>1, <1>2, <1>3
<1>5. Lesser(job.n, a) \in Nat
  BY <1>2, <1>4 DEF Lesser
<1> QED
  BY <1>1, <1>2, <1>3, <1>5

LEMMA GenerateKeeps ==
    ASSUME IInv, job.mode \in MoeSingleModes, UNCHANGED denseVars, NEW a, Generate(a)
    PROVE  IInv'
<1>1. /\ job \in Jobs /\ StreamsInv /\ StepInv /\ MoeSingleInv /\ scan \in 0 .. B
      /\ MoeMaxPos \in Nat /\ Window \in Nat /\ Window <= MoeMaxPos /\ MoeMaxPos <= MaxSeq
      /\ GateWarm \in Nat /\ job.mode \in MoeModes /\ 0 \in Streams /\ 0 \in LaneSet
      /\ LaneEnd(0) = Window /\ BatchMax <= MostColumns /\ 1 <= BatchMax /\ BatchMax \in Nat
      /\ pc = "generate" => job.mode = "generate"
  BY MoeFacts, MoeSingleFacts, MoeControl, LanesFit
<1>2. PICK t : t = logits[0]
  OBVIOUS
<1>3. /\ pc = "generate" /\ Len(out[0]) < job.n
      /\ out' = [out EXCEPT ![0] = Append(@, t)]
      /\ job' = job /\ UNCHANGED <<active, cbpos, scan>>
      /\ IF GenerationEnds(t)
           THEN pc' = "done" /\ UNCHANGED <<engine, pos>>
           ELSE FeedOrFail(DeviceToken(pos + 1, t)) /\ pos' = pos + 1
  BY <1>2 DEF Generate, slots
<1>4. Generates /\ job.mode = "generate" /\ pos \in Int /\ -1 <= pos /\ pos \in -1 .. MaxSeq + GateWarm
  BY <1>1, <1>3, MoeControl DEF MoeSingleInv
<1>5. /\ Keeps(0, Text(0)) /\ Len(Text(0)) = pos + 1 /\ t = Choice(job.model, Text(0))
      /\ pos + 1 <= Window /\ Len(out[0]) <= job.n
      /\ \A i \in 1 .. Len(out[0]) : out[0][i] \notin Eos
  BY <1>2, <1>4 DEF Generates
<1>6. Writing = {0} /\ PromptOf[0] = job.prompt
  BY <1>1, <1>4, MoeSingleFacts
<1>7. /\ StreamsInv' /\ t \in Tokens /\ Text(0) \in Rows /\ Text(0)' = Append(Text(0), t)
      /\ Len(Text(0)) = Len(job.prompt) + Len(out[0])
      /\ Len(job.prompt) \in Nat /\ Len(out[0]) \in Nat
      /\ out'[0] = Append(out[0], t) /\ Len(out'[0]) = Len(out[0]) + 1
      /\ \A m \in Streams : m # 0 => out'[m] = out[m]
  BY <1>1, <1>3, <1>5, <1>6, OneGrows
<1>8. PICK lim : lim = Lesser(job.n, MoeMaxPos - Len(job.prompt) + 1)
  OBVIOUS
<1>9. lim \in Nat /\ Len(job.prompt) <= MoeMaxPos /\ job.n \in Nat
  BY <1>1, <1>4, <1>8, GenerationLimits, JobTypes
<1>10. /\ Len(out[0]) < lim
       /\ pos + 1 >= MoeMaxPos => Len(out'[0]) >= lim
  <2>1. PICK k, m, p : k = Len(out[0]) /\ m = Len(job.prompt) /\ p = pos + 1
    OBVIOUS
  <2>2. k \in Nat /\ m \in Nat /\ p = m + k /\ p <= MoeMaxPos /\ k < job.n
    <3>1. k \in Nat /\ m \in Nat /\ k < job.n
      BY <1>3, <1>7, <2>1
    <3>2. p = m + k
      BY <1>5, <1>7, <2>1
    <3>3. p <= Window
      BY <1>5, <2>1
    <3> QED
      BY <1>1, <3>1, <3>2, <3>3
  <2>3. lim = IF job.n <= MoeMaxPos - m + 1 THEN job.n ELSE MoeMaxPos - m + 1
    BY <1>8, <2>1 DEF Lesser
  <2>4. k < lim
    BY <1>1, <1>9, <2>2, <2>3
  <2>5. p >= MoeMaxPos => k + 1 >= lim
    BY <1>1, <1>9, <2>2, <2>3
  <2> QED
    BY <1>7, <2>1, <2>4, <2>5
<1>11. out[0] \in Rows
  BY <1>1 DEF StreamsInv
<1>12. /\ GenerationEnds(t) => Len(out'[0]) = UpToEos(out'[0], lim)
       /\ ~ GenerationEnds(t) => \A i \in 1 .. Len(out'[0]) : out'[0][i] \notin Eos
  <2>1. /\ t \in Eos \/ Len(Append(out[0], t)) >= lim =>
              Len(Append(out[0], t)) = UpToEos(Append(out[0], t), lim)
        /\ t \notin Eos => \A i \in 1 .. Len(Append(out[0], t)) : Append(out[0], t)[i] \notin Eos
    BY <1>5, <1>7, <1>9, <1>10, <1>11, Ending
  <2> QED
    BY <1>7, <1>10, <2>1 DEF GenerationEnds
<1>13. /\ QueueIdle' /\ SlotsIdle' /\ hist' = <<>> /\ Streams' = Streams
  BY <1>1, <1>3, MoeIdle
<1>14. CASE GenerationEnds(t)
  <2>1. pc' = "done" /\ UNCHANGED engine /\ pos' = pos
    BY <1>3, <1>14
  <2>2. StepInv'
    BY <1>1, <1>3, <2>1, StepStays
  <2>3. Completed'
    <3>1. Owed(0)' = UpToEos(out'[0], lim) /\ \A r : r # 0 => Owed(r)' = 0
      BY <1>3, <1>4, <1>8, OwedMoeNext
    <3>2. \A r \in Streams : r # 0 => Len(out'[r]) = 0
      BY <1>1, <1>6, <1>7, Silent
    <3>3. \A r \in Streams : Len(out'[r]) = Owed(r)'
      BY <1>12, <1>14, <3>1, <3>2
    <3> QED
      BY <1>13, <3>3 DEF Completed
  <2>4. MoeSingleInv'
    BY <1>1, <1>3, <1>4, <1>13, <2>1 DEF MoeSingleInv
  <2> QED
    BY <1>3, <1>7, <2>2, <2>3, <2>4, MoeSingleAfter
<1>15. CASE ~ GenerationEnds(t)
  <2>1. FeedOrFail(<<Column(0, pos + 1, t)>>) /\ pos' = pos + 1
    BY <1>3, <1>15, TokenColumns
  <2>2. pos' \in -1 .. MaxSeq + GateWarm
    BY <1>1, <1>4, <1>5, <2>1, Sizes
  <2>3. CASE pos + 1 >= Window
    <3>1. pc' = "failed" /\ UNCHANGED engine
      BY <2>1, <2>3, TokenColumns DEF FeedOrFail
    <3>2. pos' = Window
      BY <1>1, <1>4, <1>5, <2>1, <2>3
    <3>3. StepInv'
      BY <1>1, <1>3, <3>1, StepStays
    <3>4. Completed'
      BY <3>1 DEF Completed
    <3>5. MoeSingleInv'
      BY <1>1, <1>3, <1>4, <1>13, <2>2, <3>1, <3>2 DEF MoeSingleInv
    <3> QED
      BY <1>3, <1>7, <3>3, <3>4, <3>5, MoeSingleAfter
  <2>4. CASE ~ (pos + 1 >= Window)
    <3>1. pc' = "generate" /\ Feed(<<Column(0, pos + 1, t)>>)
      BY <1>3, <2>1, <2>4, TokenColumns DEF FeedOrFail
    <3>2. PICK p, x : p = pos + 1 /\ x = Text(0)
      OBVIOUS
    <3>3. p \in Nat /\ p < Window /\ p < LaneEnd(0) /\ Keeps(0, x) /\ Len(x) = p /\ 1 <= MostColumns
      <4>1. MostColumns \in Nat
        BY <1>1, <1>4 DEF MostColumns, MoeModes, DenseModes, ComparingModes
      <4> QED
        BY <1>1, <1>4, <1>5, <2>4, <3>2, <4>1
    <3>4. /\ StepInv'
          /\ Append(x, t) \in Rows /\ Len(Append(x, t)) = p + 1
          /\ Holds(job.kind, lanes'[0], Append(x, t))
          /\ logits'[0] = Choice(job.model, Append(x, t))
      BY <1>1, <1>3, <1>7, <3>1, <3>2, <3>3, OneFed
    <3>5. PICK y : y = Text(0)' /\ y = Append(x, t)
      BY <1>7, <3>2
    <3>6. /\ y \in Rows /\ Holds(job'.kind, lanes'[0], y) /\ Len(y) = pos' + 1
          /\ logits'[0] = Choice(job'.model, y) /\ pos' + 1 <= Window
      <4>1. pos' = p /\ p + 1 <= Window
        BY <1>1, <2>1, <3>2, <3>3
      <4>2. y \in Rows /\ Holds(job'.kind, lanes'[0], y) /\ Len(y) = p + 1
        BY <1>3, <3>4, <3>5
      <4>3. logits'[0] = Choice(job'.model, y)
        BY <1>3, <3>4, <3>5
      <4> QED
        BY <4>1, <4>2, <4>3
    <3>7. Len(out'[0]) <= job'.n
      BY <1>3, <1>7, <1>9
    <3>8. Generates'
      BY <1>12, <1>15, <3>5, <3>6, <3>7 DEF Generates, Keeps
    <3>9. Completed'
      BY <3>1 DEF Completed
    <3>10. MoeSingleInv'
      BY <1>1, <1>3, <1>4, <1>13, <2>2, <3>1, <3>8 DEF MoeSingleInv
    <3> QED
      BY <1>3, <1>7, <3>4, <3>9, <3>10, MoeSingleAfter
  <2> QED
    BY <2>3, <2>4
<1> QED
  BY <1>14, <1>15

LEMMA GgufGenerateKeeps ==
    ASSUME IInv, job.mode \in MoeSingleModes, UNCHANGED denseVars, GgufGenerate
    PROVE  IInv'
<1>1. /\ job \in Jobs /\ StreamsInv /\ StepInv /\ MoeSingleInv /\ scan \in 0 .. B
      /\ MoeMaxPos \in Nat /\ MoeMaxPos <= MaxSeq
      /\ GateWarm \in Nat /\ job.mode \in MoeModes /\ 0 \in Streams /\ Single \in LaneSet
      /\ LaneEnd(Single) = MoeMaxPos /\ BatchMax <= MostColumns /\ 1 <= BatchMax /\ BatchMax \in Nat
      /\ pc = "gguf" => job.mode = "gguf"
  BY MoeFacts, MoeSingleFacts, MoeControl, LanesFit
<1>2. PICK t : t = logits[0]
  OBVIOUS
<1>3. /\ pc = "gguf" /\ Len(out[0]) < job.n /\ pos + 1 < MoeMaxPos
      /\ Feed(<<Column(Single, pos + 1, t)>>)
      /\ out' = [out EXCEPT ![0] = Append(@, logits'[0])] /\ pos' = pos + 1
      /\ job' = job /\ UNCHANGED <<active, cbpos, scan>> /\ pc' = pc
  BY <1>2, TokenColumns DEF GgufGenerate, slots
<1>4. GgufGenerates /\ job.mode = "gguf" /\ pos \in Int /\ -1 <= pos
  BY <1>1, <1>3, MoeControl DEF MoeSingleInv
<1>5. PICK p, x : p \in Nat /\ p = pos + 1 /\ x = Text(0) /\ p < MoeMaxPos
  BY <1>3, <1>4
<1>6. Writing = {0} /\ PromptOf[0] \in Rows /\ out[0] \in Rows
  BY <1>1, <1>4, MoeSingleFacts, PromptOfTypes DEF StreamsInv
<1>7. /\ Keeps(Single, SubSeq(x, 1, p)) /\ Len(x) = p + 1 /\ t = x[p + 1]
      /\ x \in Rows /\ Len(out[0]) <= job.n
  <2>1. x \in Rows
    BY <1>5, <1>6, TextTypes DEF Rows, Text
  <2>2. pos + 2 = p + 1
    BY <1>4, <1>5
  <2> QED
    BY <1>2, <1>4, <1>5, <2>1, <2>2 DEF GgufGenerates
<1>8. PICK ctx : ctx = SubSeq(x, 1, p)
  OBVIOUS
<1>9. ctx \in Rows /\ Len(ctx) = p /\ t \in Tokens /\ x = Append(ctx, t) /\ Keeps(Single, ctx)
  <2>1. p <= Len(x) /\ p < Len(x) /\ p + 1 \in Nat /\ p + 1 = Len(x)
    BY <1>5, <1>7
  <2>2. /\ SubSeq(x, 1, p) \in Rows /\ Len(SubSeq(x, 1, p)) = p /\ x[p + 1] \in Tokens
        /\ SubSeq(x, 1, p + 1) = Append(SubSeq(x, 1, p), x[p + 1])
    BY <1>5, <1>7, <2>1, FirstRows
  <2>3. SubSeq(x, 1, p + 1) = x
    BY <1>7, <2>1, FirstRows
  <2> QED
    BY <1>7, <1>8, <2>2, <2>3
<1>10. 1 <= MostColumns
  <2>1. MostColumns \in Nat
    BY <1>1, <1>4 DEF MostColumns, MoeModes, DenseModes, ComparingModes
  <2> QED
    BY <1>1, <2>1
<1>11. /\ StepInv' /\ LaneSet' = LaneSet
       /\ Holds(job.kind, lanes'[Single], x) /\ logits'[0] = Choice(job.model, x)
  <2>1. p < LaneEnd(Single)
    BY <1>1, <1>5
  <2>2. Feed(<<Column(Single, p, t)>>)
    BY <1>3, <1>5
  <2>3. /\ StepInv' /\ LaneSet' = LaneSet
        /\ Holds(job.kind, lanes'[Single], Append(ctx, t))
        /\ logits'[0] = Choice(job.model, Append(ctx, t))
    BY <1>1, <1>3, <1>9, <1>10, <2>1, <2>2, OneFed
  <2> QED
    BY <1>9, <2>3
<1>12. PICK u : u = logits'[0]
  OBVIOUS
<1>13. /\ StreamsInv' /\ u \in Tokens /\ Text(0)' = Append(x, u)
       /\ Len(out[0]) \in Nat /\ Len(out'[0]) = Len(out[0]) + 1
  BY <1>1, <1>3, <1>4, <1>5, <1>6, <1>11, <1>12, OneGrows
<1>14. PICK y : y = Text(0)' /\ y = Append(x, u)
  BY <1>13
<1>15. /\ Len(y) = Len(x) + 1 /\ SubSeq(y, 1, Len(x)) = x /\ y[Len(x) + 1] = u
  BY <1>7, <1>13, <1>14, WithChoice
<1>16. pos' = p /\ pos' + 1 = Len(x) /\ pos' + 2 = Len(x) + 1 /\ pos' + 1 <= MoeMaxPos
  BY <1>1, <1>3, <1>5, <1>7
<1>17. SubSeq(y, 1, pos' + 1) = x /\ Len(y) = pos' + 2 /\ y[pos' + 2] = u
  BY <1>15, <1>16
<1>18. Len(out'[0]) <= job'.n
  <2>1. job.n \in Nat
    BY <1>1, JobTypes
  <2> QED
    BY <1>3, <1>13, <2>1
<1>19. GgufGenerates'
  <2>1. Single' = Single
    BY DEF Single
  <2>2. SubSeq(y, 1, pos' + 1) \in Rows /\ Holds(job'.kind, lanes'[Single], SubSeq(y, 1, pos' + 1))
    BY <1>3, <1>7, <1>11, <1>17
  <2> QED
    BY <1>12, <1>14, <1>16, <1>17, <1>18, <2>1, <2>2 DEF GgufGenerates, Keeps
<1>20. /\ QueueIdle' /\ SlotsIdle' /\ hist' = <<>>
  BY <1>1, <1>3, MoeIdle
<1>21. pos' \in -1 .. MaxSeq + GateWarm
  BY <1>1, <1>5, <1>16, Sizes
<1>22. Completed'
  BY <1>3 DEF Completed
<1>23. MoeSingleInv'
  BY <1>1, <1>3, <1>4, <1>19, <1>20, <1>21 DEF MoeSingleInv
<1> QED
  BY <1>3, <1>11, <1>13, <1>22, <1>23, MoeSingleAfter

\* The gates that measure the device with one sequence.
LEMMA RecurringIsToken ==
    ASSUME job \in Jobs, pos \in Int, -1 <= pos
    PROVE  Recurring \in Tokens
<1>1. /\ Len(job.prompt) \in Nat /\ 1 <= Len(job.prompt)
      /\ \A i \in 1 .. Len(job.prompt) : job.prompt[i] \in Tokens
  BY JobTypes
<1>2. PICK p, n : p = pos + 1 /\ n = Len(job.prompt) /\ p \in Nat /\ n \in Nat \ {0}
  BY <1>1
<1>3. PICK k \in 0 .. n - 1 : k = p % n
  BY <1>2, Divide
<1>4. k + 1 \in 1 .. n
  <2>1. k \in 0 .. n - 1 /\ n \in Nat
    BY <1>2
  <2> HIDE <1>2, <1>3
  <2> QED
    BY <2>1
<1> QED
  BY <1>1, <1>2, <1>3, <1>4 DEF Recurring

LEMMA MeasureEnds ==
    ASSUME IInv, job.mode \in MoeSingleModes
    PROVE  MeasureEnd \in Nat /\ MeasureEnd <= MaxSeq + GateWarm + 1
<1>1. /\ job \in Jobs /\ Window \in Nat /\ MoeMaxPos \in Nat /\ MoeMaxPos <= MaxSeq
      /\ Window <= MoeMaxPos /\ GateWarm \in Nat
  BY MoeFacts, MoeSingleFacts
<1>2. Len(job.prompt) \in Nat /\ job.n \in Nat /\ Len(job.prompt) <= MaxSeq
  BY <1>1, JobTypes
<1>3. PICK n : n = Len(job.prompt)
  OBVIOUS
<1>4. MeasureEnd = IF job.attn = "mla" THEN Window
                   ELSE IF n + job.n <= MoeMaxPos THEN n + job.n
                   ELSE IF n + GateWarm < MoeMaxPos THEN MoeMaxPos ELSE n + GateWarm + 1
  BY <1>3 DEF MeasureEnd
<1> QED
  BY <1>1, <1>2, <1>3, <1>4, Sizes

LEMMA MeasureKeeps ==
    ASSUME IInv, job.mode \in {"layers", "parity"}, UNCHANGED denseVars,
           Measure(<<Column(0, pos + 1, Recurring)>>)
    PROVE  IInv'
<1>0. job.mode \in MoeSingleModes
  BY DEF MoeSingleModes, DeviceModes
<1>1. /\ job \in Jobs /\ StreamsInv /\ StepInv /\ MoeSingleInv /\ scan \in 0 .. B
      /\ Window \in Nat /\ GateWarm \in Nat /\ job.mode \in MoeModes /\ 0 \in LaneSet
      /\ LaneEnd(0) = Window /\ BatchMax <= MostColumns /\ 1 <= BatchMax /\ BatchMax \in Nat
      /\ pos \in Int /\ -1 <= pos
  BY <1>0, MoeFacts, MoeSingleFacts, MoeControl, LanesFit
<1>2. PICK t : t = Recurring /\ t \in Tokens
  BY <1>1, RecurringIsToken
<1>3. /\ pc = job.mode /\ pos + 1 < MeasureEnd /\ pos' = pos + 1
      /\ job' = job /\ pc' = pc /\ out' = out /\ UNCHANGED <<active, cbpos, scan>>
      /\ FeedOrSkip(<<Column(0, pos + 1, t)>>)
  BY <1>2 DEF Measure, slots
<1>4. Measures /\ DeviceLanes = {0}
  BY <1>1, <1>3 DEF MoeSingleInv, DeviceLanes
<1>5. StreamsInv'
  BY <1>1, <1>3, StreamsStay
<1>6. /\ QueueIdle' /\ SlotsIdle' /\ hist' = <<>> /\ DeviceLanes' = DeviceLanes
  BY <1>1, <1>3, MoeIdle
<1>7. pos' \in -1 .. MaxSeq + GateWarm
  <2>1. MeasureEnd \in Nat /\ MeasureEnd <= MaxSeq + GateWarm + 1
    BY <1>0, MeasureEnds
  <2> QED
    BY <1>1, <1>3, <2>1, Sizes
<1>8. StepInv' /\ Measures'
  <2>1. CASE pos + 1 >= Window
    <3>1. UNCHANGED engine
      BY <1>3, <2>1, TokenColumns DEF FeedOrSkip
    <3>2. ~ (pos' + 1 <= Window)
      BY <1>1, <1>3, <2>1
    <3> QED
      BY <1>1, <1>3, <3>1, <3>2, StepStays DEF Measures
  <2>2. CASE ~ (pos + 1 >= Window)
    <3>1. Feed(<<Column(0, pos + 1, t)>>)
      BY <1>3, <2>2, TokenColumns DEF FeedOrSkip
    <3>2. PICK p \in Nat : p = pos + 1 /\ p < Window
      BY <1>1, <2>2
    <3>3. PICK ctx : Keeps(0, ctx) /\ Len(ctx) = p
      <4>1. CASE pos = -1
        <5>1. Keeps(0, <<>>) /\ Len(<<>>) = p
          BY <3>2, <4>1, KeepsNothing
        <5> QED
          BY <5>1
      <4>2. CASE pos # -1
        <5>1. pos + 1 <= Window /\ pos >= 0
          BY <1>1, <3>2, <4>2
        <5> QED
          BY <1>4, <3>2, <5>1 DEF Measures
      <4> QED
        BY <4>1, <4>2
    <3>4. p < LaneEnd(0) /\ 1 <= MostColumns
      <4>1. MostColumns \in Nat
        BY <1>1 DEF MostColumns, MoeModes, DenseModes, ComparingModes
      <4> QED
        BY <1>1, <3>2, <4>1
    <3>5. /\ StepInv'
          /\ Append(ctx, t) \in Rows /\ Len(Append(ctx, t)) = p + 1
          /\ Holds(job.kind, lanes'[0], Append(ctx, t))
      <4>1. Feed(<<Column(0, p, t)>>)
        BY <3>1, <3>2
      <4>2. job \in Jobs /\ StepInv /\ 0 \in LaneSet /\ job' = job /\ t \in Tokens
        BY <1>1, <1>2, <1>3
      <4>3. ColumnReady(0, t, p, ctx)
        BY <3>3, <3>4, <4>1, <4>2 DEF ColumnReady
      <4>4. StepInv' /\ ColumnFed(0, t, p, ctx)
        BY <4>2, <4>3, ColumnIsFed
      <4> QED
        BY <4>4 DEF ColumnFed
    <3>6. PICK y : y = Append(ctx, t)
      OBVIOUS
    <3>7. y \in Rows /\ Holds(job'.kind, lanes'[0], y) /\ Len(y) = pos' + 1
      BY <1>3, <3>2, <3>5, <3>6
    <3> QED
      BY <1>4, <1>6, <3>5, <3>7 DEF Measures, Keeps
  <2> QED
    BY <2>1, <2>2
<1>9. Completed'
  BY <1>3 DEF Completed
<1>10. MoeSingleInv'
  BY <1>1, <1>3, <1>6, <1>7, <1>8 DEF MoeSingleInv
<1> QED
  BY <1>0, <1>3, <1>5, <1>8, <1>9, <1>10, MoeSingleAfter

LEMMA MeasuringKeeps ==
    ASSUME IInv, job.mode \in MoeSingleModes, UNCHANGED denseVars,
           MeasureLayers \/ MeasureMla \/ MeasureGqa
    PROVE  IInv'
<1>1. job.mode \in {"layers", "parity"} /\ Measure(<<Column(0, pos + 1, Recurring)>>)
  BY TokenColumns DEF MeasureLayers, MeasureMla, MeasureGqa, At
<1> QED
  BY <1>1, MeasureKeeps

\* A batch in lockstep.
LEMMA BatchColumns ==
    ASSUME NEW p, NEW K
    PROVE  /\ Refused(DeviceStep(p, K)) <=> p >= Window
           /\ Len(HostBatch(K)) = B /\ Len(DeviceStep(p, K)) = B
           /\ HostBatch(K) = [i \in 1 .. B |-> Column(Batched(i - 1), 0, K[i - 1])]
           /\ DeviceStep(p, K) = [i \in 1 .. B |-> Column(i - 1, p, K[i - 1])]
<1>1. PICK cs, ds : cs = DeviceStep(p, K) /\ ds = HostBatch(K)
  OBVIOUS
<1>2. /\ cs = [i \in 1 .. B |-> Column(i - 1, p, K[i - 1])]
      /\ ds = [i \in 1 .. B |-> Column(Batched(i - 1), 0, K[i - 1])]
  BY <1>1 DEF DeviceStep, HostBatch
<1>3. Len(cs) = B /\ Len(ds) = B
  BY <1>2, LanesFit
<1>4. \A i \in 1 .. B : cs[i].lane = i - 1 /\ cs[i].pos = p
  BY <1>2 DEF Column
<1>5. 1 \in 1 .. B /\ \A i \in 1 .. B : i - 1 < B
  BY LanesFit
<1>6. Refused(cs) <=> p >= Window
  BY <1>3, <1>4, <1>5 DEF Refused
<1> QED
  BY <1>1, <1>2, <1>3, <1>6

\* The lanes of both caches of a batch.
BothLanes == [i \in 1 .. 2 * B |-> IF i <= B THEN Batched(i - 1) ELSE i - B - 1]

LEMMA BothLanesDiffer ==
    /\ BothLanes \in [1 .. 2 * B -> 0 .. 2 * B]
    /\ \A i, j \in 1 .. 2 * B : BothLanes[i] = BothLanes[j] => i = j
    /\ \A l \in Lanes : B + l + 1 \in 1 .. 2 * B /\ BothLanes[B + l + 1] = l
    /\ \A i \in 1 .. 2 * B : \/ i <= B /\ BothLanes[i] = Batched(i - 1) /\ i - 1 \in Lanes
                             \/ i > B /\ BothLanes[i] = i - B - 1 /\ i - B - 1 \in Lanes
<1>1. B \in Nat /\ B # 0
  BY LanesFit
<1>2. \A i \in 1 .. 2 * B : BothLanes[i] = IF i <= B THEN B + i ELSE i - B - 1
  BY <1>1 DEF BothLanes, Batched
<1>3. \A i \in 1 .. 2 * B : BothLanes[i] \in 0 .. 2 * B
  BY <1>1, <1>2
<1>4. BothLanes \in [1 .. 2 * B -> 0 .. 2 * B]
  BY <1>3 DEF BothLanes
<1>5. \A i, j \in 1 .. 2 * B : BothLanes[i] = BothLanes[j] => i = j
  BY <1>1, <1>2
<1>6. \A l \in Lanes : B + l + 1 \in 1 .. 2 * B /\ BothLanes[B + l + 1] = l
  BY <1>1, <1>2 DEF Lanes
<1>7. \A i \in 1 .. 2 * B : \/ i <= B /\ BothLanes[i] = Batched(i - 1) /\ i - 1 \in Lanes
                            \/ i > B /\ BothLanes[i] = i - B - 1 /\ i - B - 1 \in Lanes
  BY <1>1, <1>2 DEF Lanes, Batched
<1> QED
  BY <1>4, <1>5, <1>6, <1>7

LEMMA BothBatches ==
    ASSUME NEW K
    PROVE  HostBatch(K) \o DeviceStep(0, K) =
              [i \in 1 .. 2 * B |-> Column(BothLanes[i], 0, K[IF i <= B THEN i - 1 ELSE i - B - 1])]
<1>1. PICK x, y, z, S : /\ x = HostBatch(K) /\ y = DeviceStep(0, K) /\ z = x \o y
                        /\ S = {x[i] : i \in 1 .. B} \union {y[i] : i \in 1 .. B}
  OBVIOUS
<1>2. B \in Nat
  BY LanesFit
<1>3. /\ x = [i \in 1 .. B |-> Column(Batched(i - 1), 0, K[i - 1])]
      /\ y = [i \in 1 .. B |-> Column(i - 1, 0, K[i - 1])]
  BY <1>1, BatchColumns
<1>4. x \in [1 .. B -> S] /\ y \in [1 .. B -> S] /\ Len(x) = B /\ Len(y) = B
  <2>1. \A i \in 1 .. B : x[i] \in S /\ y[i] \in S
    BY <1>1
  <2> QED
    BY <1>2, <1>3, <2>1
<1>5. x \in Seq(S) /\ y \in Seq(S)
  BY <1>2, <1>4
<1>6. /\ z \in Seq(S) /\ Len(z) = B + B
      /\ \A i \in 1 .. B : z[i] = x[i]
      /\ \A i \in 1 .. B : z[B + i] = y[i]
  <2>1. /\ x \o y \in Seq(S) /\ Len(x \o y) = Len(x) + Len(y)
        /\ \A i \in 1 .. Len(x) : (x \o y)[i] = x[i]
        /\ \A i \in 1 .. Len(y) : (x \o y)[Len(x) + i] = y[i]
    <3> HIDE <1>1
    <3> QED
      BY <1>5, Concatenated
  <2> QED
    BY <1>1, <1>4, <2>1
<1>7. z = [i \in 1 .. 2 * B |-> z[i]]
  BY <1>2, <1>6
<1>8. ASSUME NEW i \in 1 .. 2 * B
      PROVE  z[i] = Column(BothLanes[i], 0, K[IF i <= B THEN i - 1 ELSE i - B - 1])
  <2>1. CASE i <= B
    <3>1. i \in 1 .. B
      BY <1>2, <2>1
    <3>2. BothLanes[i] = Batched(i - 1)
      BY <2>1 DEF BothLanes
    <3> QED
      BY <1>3, <1>6, <2>1, <3>1, <3>2
  <2>2. CASE ~ (i <= B)
    <3>1. PICK k \in 1 .. B : k = i - B
      BY <1>2, <2>2
    <3>2. i = B + k /\ i - B - 1 = k - 1
      BY <1>2, <3>1
    <3>3. BothLanes[i] = k - 1
      BY <2>2, <3>2 DEF BothLanes
    <3>4. z[i] = y[k] /\ y[k] = Column(k - 1, 0, K[k - 1])
      BY <1>3, <1>6, <3>2
    <3> QED
      BY <2>2, <3>2, <3>3, <3>4
  <2> QED
    BY <2>1, <2>2
<1>9. z = [i \in 1 .. 2 * B |-> Column(BothLanes[i], 0, K[IF i <= B THEN i - 1 ELSE i - B - 1])]
  <2> HIDE <1>1
  <2> QED
    BY <1>7, <1>8
<1> QED
  BY <1>1, <1>9

LEMMA BatchGateKeeps ==
    ASSUME IInv, job.mode \in MoeSingleModes, UNCHANGED denseVars, BatchGateMla \/ BatchGateGqa
    PROVE  IInv'
<1>1. PICK K : K = Corpus(0)
  OBVIOUS
<1>2. /\ pc = "lockstep" /\ pos = -1 /\ pos' = 0 /\ job' = job /\ out' = out
      /\ UNCHANGED <<active, cbpos, scan>>
      /\ FeedOrFail(HostBatch(K) \o DeviceStep(0, K))
  BY <1>1 DEF BatchGateMla, BatchGateGqa, slots
<1>3. /\ job \in Jobs /\ StreamsInv /\ StepInv /\ MoeSingleInv /\ scan \in 0 .. B
      /\ job.mode = "lockstep" /\ B \in Nat /\ BatchMax \in Nat /\ B <= BatchMax
      /\ MostColumns = 2 * BatchMax /\ LaneSet = 0 .. 2 * B /\ GateWarm \in Nat
      /\ Window \in Nat /\ 1 <= Window
      /\ \A l \in Lanes : LaneEnd(l) = Window
      /\ \A b \in Lanes : LaneEnd(Batched(b)) = 1
  BY <1>2, MoeFacts, MoeSingleFacts, MoeControl, LanesFit DEF ComparingModes
<1>41. PICK n : n = 2 * B
  OBVIOUS
<1>42. PICK P, C, T : /\ P = [i \in 1 .. n |-> 0] /\ C = [i \in 1 .. n |-> <<>>]
                      /\ T = [i \in 1 .. n |-> K[IF i <= B THEN i - 1 ELSE i - B - 1]]
  OBVIOUS
<1>43. PICK cs : cs = [i \in 1 .. n |-> Column(BothLanes[i], P[i], T[i])]
  OBVIOUS
<1>4. /\ n = 2 * B /\ P = [i \in 1 .. n |-> 0] /\ C = [i \in 1 .. n |-> <<>>]
      /\ T = [i \in 1 .. n |-> K[IF i <= B THEN i - 1 ELSE i - B - 1]]
      /\ cs = [i \in 1 .. n |-> Column(BothLanes[i], P[i], T[i])]
  BY <1>41, <1>42, <1>43
<1>5. \A i \in 1 .. n : P[i] = 0 /\ C[i] = <<>> /\ T[i] = K[IF i <= B THEN i - 1 ELSE i - B - 1]
  BY <1>4
<1>6. cs = HostBatch(K) \o DeviceStep(0, K)
  <2>1. cs = [i \in 1 .. 2 * B |-> Column(BothLanes[i], 0, K[IF i <= B THEN i - 1 ELSE i - B - 1])]
    BY <1>4, <1>5
  <2> QED
    BY <2>1, BothBatches
<1>7. \A l \in Lanes : K[l] \in Tokens
  BY <1>1, <1>3, CorpusTypes
<1>8. ASSUME NEW i \in 1 .. n
      PROVE  /\ T[i] \in Tokens /\ Keeps(BothLanes[i], C[i])
             /\ Len(C[i]) = P[i] /\ P[i] < LaneEnd(BothLanes[i])
  <2>1. i \in 1 .. 2 * B
    BY <1>4
  <2>2. CASE i <= B /\ BothLanes[i] = Batched(i - 1) /\ i - 1 \in Lanes
    <3>1. T[i] = K[i - 1] /\ LaneEnd(BothLanes[i]) = 1
      BY <1>3, <1>5, <2>2
    <3> QED
      BY <1>5, <1>7, <2>2, <3>1, KeepsNothing
  <2>3. CASE i > B /\ BothLanes[i] = i - B - 1 /\ i - B - 1 \in Lanes
    <3>1. ~ (i <= B)
      BY <1>3, <2>1, <2>3
    <3>2. T[i] = K[i - B - 1] /\ LaneEnd(BothLanes[i]) = Window
      BY <1>3, <1>5, <2>3, <3>1
    <3> QED
      BY <1>3, <1>5, <1>7, <2>3, <3>2, KeepsNothing
  <2> QED
    BY <2>1, <2>2, <2>3, BothLanesDiffer
<1>9. Separate(n, cs, BothLanes, P, T, C)
  <2>1. n \in Nat /\ n <= MostColumns
    BY <1>3, <1>4
  <2>2. BothLanes \in [1 .. n -> LaneSet] /\ \A i, j \in 1 .. n : BothLanes[i] = BothLanes[j] => i = j
    BY <1>3, <1>4, BothLanesDiffer
  <2>3. cs = [i \in 1 .. n |-> Column(BothLanes[i], P[i], T[i])]
    BY <1>4
  <2> QED
    BY <1>8, <2>1, <2>2, <2>3 DEF Separate
<1>10. ~ Refused(cs)
  <2>1. Len(cs) = n /\ \A i \in 1 .. n : cs[i].pos = 0
    <3>1. n \in Nat
      BY <1>3, <1>4
    <3> QED
      BY <1>4, <1>5, <3>1 DEF Column
  <2>2. ~ (0 >= Window)
    BY <1>3
  <2> QED
    BY <2>1, <2>2 DEF Refused
<1>11. Feed(cs) /\ pc' = pc
  BY <1>2, <1>6, <1>10 DEF FeedOrFail
<1>12. /\ StepInv'
       /\ \A i \in 1 .. n :
             /\ Append(C[i], T[i]) \in Rows /\ Len(Append(C[i], T[i])) = P[i] + 1
             /\ Holds(job.kind, lanes'[BothLanes[i]], Append(C[i], T[i]))
  BY <1>2, <1>3, <1>9, <1>11, SeparatelyFed
<1>13. ASSUME NEW l \in Lanes
       PROVE  \E x \in Rows : Holds(job'.kind, lanes'[l], x) /\ Len(x) = pos' + 1
  <2>1. PICK i \in 1 .. n : BothLanes[i] = l
    BY <1>4, BothLanesDiffer
  <2>2. PICK x : x = Append(C[i], T[i])
    OBVIOUS
  <2>3. x \in Rows /\ Holds(job'.kind, lanes'[l], x) /\ Len(x) = pos' + 1
    BY <1>2, <1>5, <1>12, <2>1, <2>2
  <2> QED
    BY <2>3
<1>14. /\ QueueIdle' /\ SlotsIdle' /\ hist' = <<>> /\ DeviceLanes' = DeviceLanes /\ DeviceLanes = Lanes
  BY <1>2, <1>3, MoeIdle DEF DeviceLanes
<1>15. Measures'
  BY <1>13, <1>14 DEF Measures, Keeps
<1>16. StreamsInv' /\ Completed'
  BY <1>2, <1>3, <1>11, StreamsStay DEF Completed
<1>17. MoeSingleInv'
  BY <1>2, <1>3, <1>11, <1>14, <1>15, Sizes DEF MoeSingleInv
<1> QED
  BY <1>2, <1>12, <1>16, <1>17, MoeSingleAfter

LEMMA MeasureBatchKeeps ==
    ASSUME IInv, job.mode \in MoeSingleModes, UNCHANGED denseVars, MeasureBatch
    PROVE  IInv'
<1>1. /\ pc = "lockstep" /\ pos \in Nat /\ pos + 1 < LockstepEnd /\ pos' = pos + 1
      /\ job' = job /\ pc' = pc /\ out' = out /\ UNCHANGED <<active, cbpos, scan>>
      /\ FeedOrSkip(DeviceStep(pos + 1, Corpus(pos)))
  <2>1. pos \in 0 .. job.n - 1
    BY DEF MeasureBatch
  <2>2. job.n \in Nat
    BY JobTypes DEF IInv
  <2>3. pos \in Nat
    BY <2>1, <2>2
  <2> QED
    BY <2>3 DEF MeasureBatch, slots
<1>2. /\ job \in Jobs /\ StreamsInv /\ StepInv /\ MoeSingleInv /\ scan \in 0 .. B
      /\ job.mode = "lockstep" /\ B \in Nat /\ BatchMax \in Nat /\ B <= BatchMax
      /\ MostColumns = 2 * BatchMax /\ GateWarm \in Nat
      /\ Window \in Nat /\ MoeMaxPos \in Nat /\ MoeMaxPos <= MaxSeq /\ Window <= MoeMaxPos
      /\ \A l \in Lanes : LaneEnd(l) = Window
  BY <1>1, MoeFacts, MoeSingleFacts, MoeControl, LanesFit DEF ComparingModes
<1>3. Measures /\ DeviceLanes = Lanes
  BY <1>1, <1>2 DEF MoeSingleInv, DeviceLanes
<1>4. /\ QueueIdle' /\ SlotsIdle' /\ hist' = <<>> /\ DeviceLanes' = DeviceLanes
  BY <1>1, <1>2, MoeIdle
<1>5. pos' \in -1 .. MaxSeq + GateWarm
  <2>1. LockstepEnd \in Nat /\ LockstepEnd <= MaxSeq
    BY <1>2, Sizes DEF LockstepEnd
  <2> QED
    BY <1>1, <1>2, <2>1, Sizes
<1>6. StepInv' /\ Measures'
  <2>1. CASE pos + 1 >= Window
    <3>1. UNCHANGED engine
      BY <1>1, <2>1, BatchColumns DEF FeedOrSkip
    <3>2. ~ (pos' + 1 <= Window)
      BY <1>1, <1>2, <2>1
    <3> QED
      BY <1>1, <1>2, <3>1, <3>2, StepStays DEF Measures
  <2>2. CASE ~ (pos + 1 >= Window)
    <3>1. PICK p, K, cs : p = pos + 1 /\ K = Corpus(pos) /\ cs = DeviceStep(p, K)
      OBVIOUS
    <3>2. Feed(cs) /\ p \in Nat /\ p < Window /\ p = pos + 1
      BY <1>1, <1>2, <2>2, <3>1, BatchColumns DEF FeedOrSkip
    <3>3. \A l \in Lanes : \E c : Keeps(l, c) /\ Len(c) = p
      <4>1. pos + 1 <= Window /\ pos >= 0
        BY <1>1, <1>2, <2>2
      <4> QED
        BY <1>3, <3>2, <4>1 DEF Measures
    <3>4. PICK ctx : ctx = [l \in Lanes |-> CHOOSE c : Keeps(l, c) /\ Len(c) = p]
      OBVIOUS
    <3>5. \A l \in Lanes : Keeps(l, ctx[l]) /\ Len(ctx[l]) = p
      BY <3>3, <3>4
    <3>6. \A l \in Lanes : K[l] \in Tokens
      BY <1>1, <1>2, <3>1, CorpusTypes
    <3>7. cs = [i \in 1 .. B |-> Column(i - 1, p, K[i - 1])]
      BY <3>1, BatchColumns
    <3>8. RowOfColumns(p, K, ctx, cs)
      BY <1>2, <3>2, <3>5, <3>6, <3>7 DEF RowOfColumns
    <3>9. B <= MostColumns
      BY <1>2
    <3>10. StepInv' /\ RowIsFed(p, K, ctx)
      BY <1>1, <1>2, <3>2, <3>8, <3>9, RowsFed
    <3>11. ASSUME NEW l \in Lanes
           PROVE  \E x \in Rows : Holds(job'.kind, lanes'[l], x) /\ Len(x) = pos' + 1
      <4>1. PICK x : x = Append(ctx[l], K[l])
        OBVIOUS
      <4>2. x \in Rows /\ Holds(job'.kind, lanes'[l], x) /\ Len(x) = pos' + 1
        BY <1>1, <3>2, <3>10, <4>1 DEF RowIsFed
      <4> QED
        BY <4>2
    <3> QED
      BY <1>3, <1>4, <3>10, <3>11 DEF Measures, Keeps
  <2> QED
    BY <2>1, <2>2
<1>7. StreamsInv' /\ Completed'
  BY <1>1, <1>2, StreamsStay DEF Completed
<1>8. MoeSingleInv'
  BY <1>1, <1>2, <1>4, <1>5, <1>6 DEF MoeSingleInv
<1> QED
  BY <1>1, <1>6, <1>7, <1>8, MoeSingleAfter

LEMMA FirstRow == ASSUME NEW t, NEW x, x = <<>> PROVE Append(x, t) = <<t>>
  OBVIOUS

\* The batch on the CPU alone.
LEMMA HybridBatchKeeps ==
    ASSUME IInv, job.mode \in MoeSingleModes, UNCHANGED denseVars, HybridBatch
    PROVE  IInv'
<1>1. PICK K : K = Corpus(0)
  OBVIOUS
<1>2. /\ pc = "hybrid" /\ pos = -1 /\ pos' = 0 /\ job' = job /\ pc' = pc /\ out' = out
      /\ UNCHANGED <<active, cbpos, scan>> /\ Feed(HostBatch(K))
  BY <1>1 DEF HybridBatch, slots
<1>3. /\ job \in Jobs /\ StreamsInv /\ StepInv /\ MoeSingleInv /\ scan \in 0 .. B
      /\ job.mode = "hybrid" /\ B \in Nat /\ BatchMax \in Nat /\ B <= BatchMax
      /\ BatchMax <= MostColumns /\ GateWarm \in Nat /\ MostColumns \in Nat
      /\ \A b \in Lanes : LaneEnd(Batched(b)) = 1 /\ Batched(b) \in LaneSet
  <2>1. job.mode = "hybrid"
    BY <1>2, MoeSingleFacts, MoeControl
  <2>2. MostColumns = BatchMax
    BY <2>1 DEF MostColumns, ComparingModes, MoeModes, DenseModes
  <2> QED
    BY <2>1, <2>2, MoeFacts, MoeSingleFacts, MoeControl, LanesFit
<1>4. HybridInv
  BY <1>3 DEF MoeSingleInv
<1>5. PICK L, P, C, T : /\ L = [i \in 1 .. B |-> Batched(i - 1)] /\ P = [i \in 1 .. B |-> 0]
                        /\ C = [i \in 1 .. B |-> <<>>] /\ T = [i \in 1 .. B |-> K[i - 1]]
  OBVIOUS
<1>6. \A i \in 1 .. B : /\ L[i] = Batched(i - 1) /\ P[i] = 0 /\ C[i] = <<>> /\ T[i] = K[i - 1]
                        /\ i - 1 \in Lanes
  BY <1>3, <1>5 DEF Lanes
<1>7. \A l \in Lanes : K[l] \in Tokens
  BY <1>1, <1>3, CorpusTypes
<1>8. PICK cs : cs = HostBatch(K)
  OBVIOUS
<1>9. Separate(B, cs, L, P, T, C)
  <2>1. cs = [i \in 1 .. B |-> Column(L[i], P[i], T[i])]
    <3>1. cs = [i \in 1 .. B |-> Column(Batched(i - 1), 0, K[i - 1])]
      BY <1>8, BatchColumns
    <3> QED
      BY <3>1, <1>6
  <2>2. L \in [1 .. B -> LaneSet]
    BY <1>3, <1>5, <1>6
  <2>3. \A i, j \in 1 .. B : L[i] = L[j] => i = j
    BY <1>3, <1>6 DEF Batched
  <2>4. \A i \in 1 .. B : /\ T[i] \in Tokens /\ Keeps(L[i], C[i])
                          /\ Len(C[i]) = P[i] /\ P[i] < LaneEnd(L[i])
    BY <1>3, <1>6, <1>7, KeepsNothing
  <2>5. B <= MostColumns
    BY <1>3
  <2> QED
    BY <1>3, <2>1, <2>2, <2>3, <2>4, <2>5 DEF Separate
<1>10. /\ StepInv'
       /\ \A l \in Lanes : l < B =>
             logits'[l] = Choice(job.model, Append(C[l + 1], T[l + 1]))
  BY <1>2, <1>3, <1>8, <1>9, SeparatelyFed
<1>11. ASSUME NEW l \in Lanes PROVE logits'[l] = Choice(job.model, <<K[l]>>)
  <2>1. PICK i \in 1 .. B : i = l + 1 /\ l < B /\ i - 1 = l
    BY <1>3 DEF Lanes
  <2>2. logits'[l] = Choice(job.model, Append(C[i], T[i]))
    BY <1>10, <2>1
  <2>3. Append(C[i], T[i]) = <<K[l]>>
    BY <1>6, <2>1, FirstRow
  <2> QED
    BY <2>2, <2>3
<1>12. /\ QueueIdle' /\ SlotsIdle' /\ hist' = <<>> /\ Lanes' = Lanes
  BY <1>2, <1>3, MoeIdle
<1>13. HybridInv'
  <2>1. Corpus(0)' = K
    BY <1>1, <1>2, <1>12 DEF Corpus
  <2> QED
    BY <1>2, <1>4, <1>11, <1>12, <2>1 DEF HybridInv
<1>14. StreamsInv' /\ Completed'
  BY <1>2, <1>3, StreamsStay DEF Completed
<1>15. MoeSingleInv'
  BY <1>2, <1>3, <1>12, <1>13, Sizes DEF MoeSingleInv
<1> QED
  BY <1>2, <1>10, <1>14, <1>15, MoeSingleAfter

\* What is computed again alone gives the same choice.
LEMMA AloneAnswers ==
    ASSUME StepInv, job \in Jobs, job' = job, logits' = logits, NEW t \in Tokens,
           Single \in LaneSet, 0 < LaneEnd(Single), 1 <= MostColumns, NEW cs, cs = HostToken(0, t),
           Compute(cs, Written(cs))
    PROVE  StepInv' /\ Answer(Written(cs), cs[1]) = Choice(job.model, <<t>>)
<1>1. PICK L, P, T, C : /\ L = [i \in 1 .. 1 |-> Single] /\ P = [i \in 1 .. 1 |-> 0]
                        /\ T = [i \in 1 .. 1 |-> t] /\ C = [i \in 1 .. 1 |-> <<>>]
  OBVIOUS
<1>2. \A i \in 1 .. 1 : i = 1 /\ L[i] = Single /\ P[i] = 0 /\ T[i] = t /\ C[i] = <<>>
  BY <1>1
<1>3. Separate(1, cs, L, P, T, C)
  <2>1. cs = [i \in 1 .. 1 |-> Column(L[i], P[i], T[i])]
    <3>1. PICK c : c = Column(Single, 0, t)
      OBVIOUS
    <3>2. cs = <<c>>
      BY <3>1 DEF HostToken
    <3>3. [i \in 1 .. 1 |-> Column(L[i], P[i], T[i])] = [i \in 1 .. 1 |-> c]
      BY <1>2, <3>1
    <3> QED
      BY <3>2, <3>3
  <2>2. L \in [1 .. 1 -> LaneSet] /\ \A i, j \in 1 .. 1 : L[i] = L[j] => i = j
    BY <1>1, <1>2
  <2>3. \A i \in 1 .. 1 : /\ T[i] \in Tokens /\ Keeps(L[i], C[i])
                          /\ Len(C[i]) = P[i] /\ P[i] < LaneEnd(L[i])
    BY <1>2, KeepsNothing
  <2> QED
    BY <2>1, <2>2, <2>3 DEF Separate
<1>4. FedSeparately(1, cs, L, P, T, C)
  BY <1>3, EachFed
<1>5. /\ lanes' \in [LaneSet -> LaneType] /\ clear' = TRUE /\ DispatchFits'
      /\ Answer(Written(cs), cs[1]) = Choice(job.model, Append(C[1], T[1]))
  BY <1>4 DEF FedSeparately
<1>6. Append(C[1], T[1]) = <<t>>
  BY <1>2, FirstRow
<1>7. LaneSet' = LaneSet
  BY DEF LaneSet, Lanes
<1> QED
  BY <1>5, <1>6, <1>7 DEF StepInv

LEMMA HybridChoiceKeeps ==
    ASSUME IInv, job.mode \in MoeSingleModes, UNCHANGED denseVars, HybridChoice
    PROVE  IInv'
<1>1. /\ pc = "hybrid" /\ pos = 0 /\ scan < B /\ scan' = scan + 1
      /\ job' = job /\ pc' = pc /\ logits' = logits /\ pos' = pos
      /\ active' = active /\ cbpos' = cbpos
  BY DEF HybridChoice
<1>2. /\ job \in Jobs /\ StreamsInv /\ StepInv /\ MoeSingleInv /\ scan \in 0 .. B
      /\ job.mode = "hybrid" /\ B \in Nat /\ BatchMax \in Nat /\ 1 <= BatchMax
      /\ GateWarm \in Nat /\ MostColumns = BatchMax /\ job.mode \in MoeModes
      /\ Single \in LaneSet /\ LaneEnd(Single) = MoeMaxPos /\ MoeMaxPos \in Nat /\ 1 <= MoeMaxPos
  <2>1. job.mode = "hybrid"
    BY <1>1, MoeSingleFacts, MoeControl
  <2>2. MostColumns = BatchMax
    BY <2>1 DEF MostColumns, ComparingModes, MoeModes, DenseModes
  <2>3. MoeMaxPos \in Nat /\ 1 <= MoeMaxPos
    BY MoeAssumption
  <2> QED
    BY <2>1, <2>2, <2>3, MoeFacts, MoeSingleFacts, MoeControl, LanesFit
<1>3. HybridInv
  BY <1>2 DEF MoeSingleInv
<1>4. PICK r, t : r = scan /\ t = Corpus(0)[r]
  OBVIOUS
<1>5. r \in Lanes /\ r \in Nat /\ r < B /\ r \in Streams
  BY <1>1, <1>2, <1>4, LanesFit DEF Lanes
<1>6. t \in Tokens
  BY <1>2, <1>4, <1>5, CorpusTypes
<1>7. Writing = Lanes /\ PromptOf[r] = <<t>>
  BY <1>2, <1>4, <1>5, MoeSingleFacts
<1>8. PICK c : c = Choice(job.model, <<t>>)
  OBVIOUS
<1>9. c = Choice(job.model, Text(r))
  <2>1. Len(out[r]) = 0 /\ out[r] \in Rows
    BY <1>2, <1>3, <1>4, <1>5 DEF HybridInv, StreamsInv
  <2>2. out[r] = <<>>
    BY <2>1 DEF Rows
  <2>3. <<t>> \in Seq(Tokens)
    BY <1>6
  <2>4. <<t>> \o <<>> = <<t>>
    BY <2>3
  <2> QED
    BY <1>7, <1>8, <2>2, <2>4 DEF Text
<1>10. StepInv' /\ out' = [out EXCEPT ![r] = Append(@, c)]
  <2>1. CASE out' = [out EXCEPT ![scan] = Append(@, logits[scan])] /\ UNCHANGED <<lanes, cols, clear>>
    <3>1. logits[r] = c
      BY <1>1, <1>3, <1>4, <1>5, <1>8 DEF HybridInv
    <3>2. UNCHANGED engine
      BY <1>1, <2>1 DEF engine
    <3> QED
      BY <1>1, <1>2, <1>4, <2>1, <3>1, <3>2, StepStays
  <2>2. CASE \E cs \in {HostToken(0, Corpus(0)[scan])} : \E ls \in {Written(cs)} :
                /\ Compute(cs, ls)
                /\ out' = [out EXCEPT ![scan] = Append(@, Answer(ls, cs[1]))]
    <3>0. PICK cs : /\ cs = HostToken(0, t) /\ Compute(cs, Written(cs))
                    /\ out' = [out EXCEPT ![r] = Append(@, Answer(Written(cs), cs[1]))]
      BY <1>4, <2>2
    <3>1. PICK a : /\ cs = HostToken(0, t) /\ Compute(cs, Written(cs)) /\ a = Answer(Written(cs), cs[1])
                   /\ out' = [out EXCEPT ![r] = Append(@, a)]
      BY <3>0
    <3>2. StepInv' /\ a = c
      BY <1>1, <1>2, <1>6, <1>8, <3>1, AloneAnswers
    <3> QED
      BY <3>1, <3>2
  <2> QED
    BY <2>1, <2>2 DEF HybridChoice
<1>11. /\ StreamsInv' /\ Len(out'[r]) = Len(out[r]) + 1
       /\ \A m \in Streams : m # r => out'[m] = out[m]
  BY <1>1, <1>2, <1>5, <1>7, <1>9, <1>10, OneGrows
<1>12. /\ QueueIdle' /\ SlotsIdle' /\ hist' = <<>> /\ Lanes' = Lanes
  BY <1>1, <1>2, MoeIdle
<1>13. HybridInv'
  <2>1. Corpus(0)' = Corpus(0)
    BY <1>1, <1>12 DEF Corpus
  <2>2. ASSUME NEW m \in Lanes PROVE Len(out'[m]) = IF m < scan' THEN 1 ELSE 0
    <3>1. m \in Nat /\ m \in Streams /\ Len(out[m]) = IF m < r THEN 1 ELSE 0
      BY <1>3, <1>4, LanesFit DEF HybridInv, Lanes
    <3>2. scan' = r + 1
      BY <1>1, <1>4
    <3>3. CASE m = r
      BY <1>5, <1>11, <3>1, <3>2, <3>3
    <3>4. CASE m # r
      BY <1>5, <1>11, <3>1, <3>2, <3>4
    <3> QED
      BY <3>3, <3>4
  <2> QED
    BY <1>1, <1>3, <1>12, <2>1, <2>2 DEF HybridInv
<1>14. Completed'
  BY <1>1 DEF Completed
<1>15. MoeSingleInv'
  BY <1>1, <1>2, <1>4, <1>5, <1>12, <1>13, Sizes DEF MoeSingleInv
<1> QED
  BY <1>1, <1>10, <1>11, <1>14, <1>15, MoeSingleAfter

LEMMA MoeStopKeeps ==
    ASSUME IInv, job.mode \in MoeSingleModes, UNCHANGED denseVars, MoeStop
    PROVE  IInv'
<1>1. /\ MoeExhausted /\ pc' = "done" /\ job' = job /\ out' = out /\ pos' = pos
      /\ UNCHANGED engine /\ UNCHANGED <<active, cbpos, scan>>
  BY DEF MoeStop, slots
<1>2. /\ job \in Jobs /\ StreamsInv /\ StepInv /\ MoeSingleInv /\ scan \in 0 .. B
      /\ pos \in Int /\ pos \in -1 .. MaxSeq + GateWarm
      /\ pc \notin {"moeprompt", "done", "failed"} => job.mode = pc
      /\ pc \notin {"slots", "warmup", "combined", "scalar"}
      /\ Window \in Nat /\ MoeMaxPos \in Nat /\ Window <= MoeMaxPos
  BY MoeFacts, MoeSingleFacts, MoeControl DEF MoeSingleInv
<1>3. pc = job.mode
  <2>1. pc \notin {"moeprompt", "done", "failed"}
    BY <1>1 DEF MoeExhausted
  <2> QED
    BY <1>2, <2>1
<1>4. StepInv' /\ StreamsInv'
  BY <1>1, <1>2, StepStays, StreamsStay
<1>5. /\ QueueIdle' /\ SlotsIdle' /\ hist' = <<>> /\ Lanes' = Lanes /\ Streams' = Streams
  BY <1>1, <1>2, MoeIdle
<1>6. 0 \in Streams /\ out \in [Streams -> Rows]
  BY <1>2, LanesFit DEF StreamsInv
<1>7. \A r \in Streams : r \notin Writing => Len(out'[r]) = 0
  BY <1>1, <1>2, Silent
<1>8. ASSUME NEW r \in Streams PROVE Len(out'[r]) = Owed(r)'
  <2>1. CASE job.mode \notin {"generate", "gguf", "hybrid"}
    BY <1>1, <1>7, <2>1, MoeSingleFacts, OwedMoeNext
  <2>2. CASE job.mode = "hybrid"
    <3>1. scan = B /\ HybridInv
      BY <1>1, <1>2, <1>3, <2>2 DEF MoeExhausted, MoeSingleInv
    <3>2. Owed(r)' = IF r \in Lanes THEN 1 ELSE 0
      BY <1>1, <2>2, OwedMoeNext
    <3>3. r \in Lanes => Len(out[r]) = 1
      <4>1. r \in Lanes => Len(out[r]) = IF r < B THEN 1 ELSE 0
        BY <3>1 DEF HybridInv
      <4>2. r \in Lanes => r < B
        BY LanesFit DEF Lanes
      <4> QED
        BY <4>1, <4>2
    <3> QED
      BY <1>1, <1>7, <2>2, <3>2, <3>3, MoeSingleFacts
  <2>3. CASE job.mode \in {"generate", "gguf"} /\ r # 0
    <3>1. r \notin Writing
      BY <2>3, MoeSingleFacts
    <3>2. Owed(r)' = 0
      BY <1>1, <2>3, OwedMoeNext
    <3> QED
      BY <1>7, <3>1, <3>2
  <2>4. CASE job.mode = "generate" /\ r = 0
    <3>1. Generates /\ Len(out[0]) >= job.n
      BY <1>1, <1>2, <1>3, <2>4 DEF MoeExhausted, MoeSingleInv
    <3>2. PICK k, m, n, lim :
             /\ k = Len(out[0]) /\ m = Len(job.prompt) /\ n = job.n
             /\ lim = Lesser(job.n, MoeMaxPos - Len(job.prompt) + 1)
      OBVIOUS
    <3>3. Owed(0)' = UpToEos(out[0], lim)
      BY <1>1, <2>4, <3>2, OwedMoeNext
    <3>4. \A i \in 1 .. Len(out[0]) : out[0][i] \notin Eos
      BY <3>1 DEF Generates
    <3>5. UpToEos(out[0], lim) = lim
      <4>1. {i \in 1 .. Len(out[0]) : out[0][i] \in Eos} = {}
        BY <3>4
      <4> QED
        BY <4>1 DEF UpToEos
    <3>6. k \in Nat /\ m \in Nat /\ n \in Nat /\ k = n
      <4>1. out[0] \in Rows /\ Len(out[0]) <= job.n
        BY <1>6, <3>1 DEF Generates
      <4>2. Len(out[0]) \in Nat
        BY <4>1 DEF Rows
      <4>3. Len(job.prompt) \in Nat /\ job.n \in Nat
        BY <1>2, JobTypes
      <4> QED
        BY <3>1, <3>2, <4>1, <4>2, <4>3
    <3>7. m + k <= Window
      <4>1. Text(0) = job.prompt \o out[0]
        BY <1>6, <2>4, MoeSingleFacts DEF Text
      <4>2. Len(Text(0)) = m + k
        <5>1. PICK x, o : x = job.prompt /\ o = out[0]
          OBVIOUS
        <5>2. x \in Rows /\ o \in Rows
          BY <1>2, <1>6, <5>1, JobTypes
        <5>3. Len(x \o o) = Len(x) + Len(o)
          BY <5>2, TextTypes
        <5> QED
          BY <3>2, <4>1, <5>1, <5>3
      <4>3. Len(Text(0)) = pos + 1 /\ pos + 1 <= Window
        BY <3>1 DEF Generates
      <4> QED
        BY <4>2, <4>3
    <3>8. lim = IF n <= MoeMaxPos - m + 1 THEN n ELSE MoeMaxPos - m + 1
      BY <3>2 DEF Lesser
    <3>9. lim = k
      BY <1>2, <3>6, <3>7, <3>8
    <3> QED
      BY <1>1, <2>4, <3>2, <3>3, <3>5, <3>9
  <2>5. CASE job.mode = "gguf" /\ r = 0
    <3>1. GgufGenerates /\ (Len(out[0]) >= job.n \/ pos + 1 >= MoeMaxPos)
      BY <1>1, <1>2, <1>3, <2>5 DEF MoeExhausted, MoeSingleInv
    <3>2. PICK k, m, n, p :
             /\ k = Len(out[0]) /\ m = Len(job.prompt) /\ n = job.n /\ p = pos + 1
      OBVIOUS
    <3>3. Owed(0)' = Lesser(n, MoeMaxPos - m)
      BY <1>1, <2>5, <3>2, OwedMoeNext
    <3>4. k \in Nat /\ m \in Nat /\ n \in Nat /\ k <= n
      <4>1. out[0] \in Rows /\ Len(out[0]) <= job.n
        BY <1>6, <3>1 DEF GgufGenerates
      <4>2. Len(out[0]) \in Nat
        BY <4>1 DEF Rows
      <4>3. Len(job.prompt) \in Nat /\ job.n \in Nat
        BY <1>2, JobTypes
      <4> QED
        BY <3>2, <4>1, <4>2, <4>3
    <3>5. p = m + k
      <4>1. PICK c : c = Choice(job.model, job.prompt) /\ PromptOf[0] = Append(job.prompt, c)
        BY <1>6, <2>5, MoeSingleFacts
      <4>2. job.prompt \in Rows /\ 1 <= Len(job.prompt) /\ Len(job.prompt) \in Nat
        BY <1>2, JobTypes
      <4>3. c \in Tokens
        BY <1>2, <4>1, <4>2, ChoiceIsToken
      <4>4. PromptOf[0] \in Rows /\ Len(PromptOf[0]) = m + 1
        BY <3>2, <4>1, <4>2, <4>3, WithChoice
      <4>5. Len(Text(0)) = m + 1 + k
        <5>1. PICK x, o : x = PromptOf[0] /\ o = out[0]
          OBVIOUS
        <5>2. x \in Rows /\ o \in Rows
          BY <1>6, <4>4, <5>1
        <5>3. Len(x \o o) = Len(x) + Len(o)
          BY <5>2, TextTypes
        <5> QED
          BY <3>2, <4>4, <5>1, <5>3 DEF Text
      <4>6. Len(Text(0)) = pos + 2
        BY <3>1 DEF GgufGenerates
      <4> QED
        <5>1. m + 1 + k = pos + 2 /\ pos \in Int /\ m \in Nat /\ k \in Nat
          BY <1>2, <3>4, <4>5, <4>6
        <5>2. m + k = pos + 1
          BY <5>1
        <5> QED
          BY <3>2, <5>2
    <3>6. p <= MoeMaxPos /\ (k >= n \/ p >= MoeMaxPos)
      BY <3>1, <3>2 DEF GgufGenerates
    <3>7. Lesser(n, MoeMaxPos - m) = IF n <= MoeMaxPos - m THEN n ELSE MoeMaxPos - m
      BY DEF Lesser
    <3>8. Lesser(n, MoeMaxPos - m) = k
      BY <1>2, <3>4, <3>5, <3>6, <3>7
    <3> QED
      BY <1>1, <2>5, <3>2, <3>3, <3>8
  <2> QED
    BY <2>1, <2>2, <2>3, <2>4, <2>5
<1>9. Completed'
  BY <1>5, <1>8 DEF Completed
<1>10. job.mode = "hybrid" => HybridInv'
  <2> SUFFICES ASSUME job.mode = "hybrid" PROVE HybridInv'
    OBVIOUS
  <2>1. HybridInv
    BY <1>2 DEF MoeSingleInv
  <2>2. Corpus(0)' = Corpus(0) /\ logits' = logits
    BY <1>1, <1>5 DEF Corpus, engine
  <2> QED
    BY <1>1, <1>5, <2>1, <2>2 DEF HybridInv
<1>11. MoeSingleInv'
  BY <1>1, <1>2, <1>5, <1>10 DEF MoeSingleInv
<1> QED
  BY <1>1, <1>4, <1>9, <1>11, MoeSingleAfter
=============================================================================
