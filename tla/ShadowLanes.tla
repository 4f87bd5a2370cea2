----------------------------- MODULE ShadowLanes ------------------------------
(***************************************************************************)
(* The shadow KV lanes of qwen_infer.c, in which the exact replay of a     *)
(* request keeps what it has computed.  A pool is a fixed set of lanes,    *)
(* handed out by request and taken away in turn when none is left; a lane  *)
(* holds the rows of the first positions of its request.  The code has two *)
(* pools of this shape, for the second tier of reverification and for the  *)
(* correction of near ties.                                                *)
(***************************************************************************)
EXTENDS Integers, Sequences

CONSTANT Lanes    \* MOE_CB4C_LANES, MOE_NEARTIE_LANES: how many

Lane == 0 .. Lanes - 1

NoRequest == -1

\* rows[i] are the valid rows of lane i, those of positions 0, 1, ...
EmptyPool == [req |-> [i \in Lane |-> NoRequest], rows |-> [i \in Lane |-> <<>>], next |-> 0]

LanesOf(pool, r) == {i \in Lane : pool.req[i] = r}
LaneOf(pool, r)  == CHOOSE i \in Lane : pool.req[i] = r

\* Positions of r that are cached.
ValidPeek(pool, r) == IF LanesOf(pool, r) = {} THEN 0 ELSE Len(pool.rows[LaneOf(pool, r)])

RowsOf(pool, r) == pool.rows[LaneOf(pool, r)]

\* Variant: a lane taken from another request keeps its rows.
AcquireKeepsRows(pool, r) ==
    IF LanesOf(pool, r) # {} THEN pool
    ELSE [pool EXCEPT !.req[pool.next] = r, !.next = (pool.next + 1) % Lanes]

\* The lane of r, or the next lane in turn, emptied.
Acquire(pool, r) ==
    IF LanesOf(pool, r) # {} THEN pool
    ELSE [pool EXCEPT !.req[pool.next] = r, !.rows[pool.next] = <<>>,
                      !.next = (pool.next + 1) % Lanes]

\* A row computed elsewhere is kept if it is the next one of its request.
Extend(pool, r, p, row) ==
    LET own == Acquire(pool, r)
    IN  IF ValidPeek(own, r) = p
          THEN [own EXCEPT !.rows[LaneOf(own, r)] = Append(@, row)]
          ELSE own

\* Where the replay of r up to position p starts: after what is cached, and
\* from the beginning when more is cached than asked for.
Start(pool, r, p) == IF ValidPeek(pool, r) > p THEN 0 ELSE ValidPeek(pool, r)

\* Rows up to p, those from the start of the replay on being recomputed.
Replay(pool, r, p, again) ==
    LET own  == Acquire(pool, r)
        kept == SubSeq(RowsOf(own, r), 1, Start(own, r, p))
    IN  [own EXCEPT !.rows[LaneOf(own, r)] =
            kept \o [i \in 1 .. p + 1 - Len(kept) |-> again[Len(kept) + i - 1]]]

=============================================================================
