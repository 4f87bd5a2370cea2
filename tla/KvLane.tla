-------------------------------- MODULE KvLane --------------------------------
(***************************************************************************)
(* One KV cache lane of the dense engine in qwen_infer.c: the rows of a    *)
(* sequence, one layer standing for all.  A row is represented by what it  *)
(* was computed from, the tokens up to and including its own; a cache cell *)
(* that was never written is the empty sequence.                           *)
(*                                                                         *)
(* With the fp32 and int8 caches a position has a K and a V cell.  With    *)
(* the int4 cache V is also stored per position, but K is quantized a      *)
(* block of W positions at a time, when the last of them is written; until *)
(* then its rows are staged in a ring, and recent V rows in another.       *)
(***************************************************************************)
EXTENDS Integers, Sequences

CONSTANTS
    Tokens,  \* the vocabulary
    W,       \* KV4_W, positions of a K block
    MaxSeq   \* MAXSEQ, positions of a lane

\* The engine refuses a MAXSEQ that is not a multiple of the block.
ASSUME LaneAssumption ==
    /\ W \in Nat \ {0} /\ MaxSeq \in Nat \ {0}
    /\ MaxSeq % W = 0

Kinds == {"fp32", "int8", "int4"}

Positions == 0 .. MaxSeq - 1
Blocks    == 0 .. (MaxSeq \div W) - 1

\* Variant: the ring holds one block.
RingOneBlock == W

Ring == 2 * W
Staged == 0 .. Ring - 1

Rows  == Seq(Tokens)
NoRow == <<>>

EmptyLane ==
    [k    |-> [p \in Positions |-> NoRow],
     v    |-> [p \in Positions |-> NoRow],
     kblk |-> [b \in Blocks |-> [i \in 0 .. W - 1 |-> NoRow]],
     kstg |-> [i \in Staged |-> NoRow],
     vstg |-> [i \in Staged |-> NoRow]]

-----------------------------------------------------------------------------
(* Writing.                                                                *)

\* kv_i8_write and the copies of the fp32 cache.
WritePlain(lane, pos, row) == [lane EXCEPT !.k[pos] = row, !.v[pos] = row]

\* kv_i4_write.  Every row of a block goes into its scale and zero.
WriteInt4(lane, pos, row) ==
    LET kstg  == [lane.kstg EXCEPT ![pos % Ring] = row]
        first == pos - W + 1
    IN  [lane EXCEPT
            !.v[pos] = row, !.kstg = kstg, !.vstg[pos % Ring] = row,
            !.kblk = IF pos % W # W - 1 THEN @
                     ELSE [@ EXCEPT ![pos \div W] = [i \in 0 .. W - 1 |-> kstg[(first + i) % Ring]]]]

Write(kind, lane, pos, row) ==
    IF kind = "int4" THEN WriteInt4(lane, pos, row) ELSE WritePlain(lane, pos, row)

\* The row a token gets at a position: it extends the row before it.
RowFor(lane, pos, tok) == Append(IF pos = 0 THEN NoRow ELSE lane.v[pos - 1], tok)

-----------------------------------------------------------------------------
(* Attention over the first n positions.                                   *)

\* nfull of kv_i4_attn: the positions read from full blocks.
Horizon(n) == (n \div W) * W

\* kv_i4_attn: the tail of K is a contiguous piece of its ring.
KReadInt4(lane, n, t) ==
    IF t < Horizon(n) THEN lane.kblk[t \div W][t % W]
                      ELSE lane.kstg[(Horizon(n) % Ring) + (t - Horizon(n))]

VReadInt4(lane, n, t) == IF t < Horizon(n) THEN lane.v[t] ELSE lane.vstg[t % Ring]

KRead(kind, lane, n, t) == IF kind = "int4" THEN KReadInt4(lane, n, t) ELSE lane.k[t]
VRead(kind, lane, n, t) == IF kind = "int4" THEN VReadInt4(lane, n, t) ELSE lane.v[t]

\* The query at a position sees the rows of its own context and no others.
SeesContext(kind, lane, ctx) ==
    \A t \in 0 .. Len(ctx) - 1 :
        /\ KRead(kind, lane, Len(ctx), t) = SubSeq(ctx, 1, t + 1)
        /\ VRead(kind, lane, Len(ctx), t) = SubSeq(ctx, 1, t + 1)

=============================================================================
