---------------------------- MODULE CbatchReverify ----------------------------
(***************************************************************************)
(* CbatchOnline with what the CPU scheduler for MLA models does between    *)
(* computing a column and emitting its token (QWEN_MOE_CBATCH_REVERIFY,    *)
(* QWEN_MOE_NEARTIE_CORRECT).  When the two best logits of a column are    *)
(* close, the first tier recomputes the column alone, in the lane of its   *)
(* slot; when its answer differs, the second tier replays the request from *)
(* its tokens in a lane of its own and may copy the rows back to the slot. *)
(* A near tie is then decided by a replay with 16-bit weights, in another  *)
(* pool of lanes.  All of it is paid from one budget per dispatch.         *)
(*                                                                         *)
(* Logits are abstract: whether a margin is small and whether the first    *)
(* tier agrees are choices.                                                *)
(***************************************************************************)
EXTENDS CbatchOnline, Sequences

CONSTANTS
    Lanes,         \* lanes of a shadow pool
    VerifyBudget   \* QWEN_MOE_CBATCH_BUDGET, positions recomputed per dispatch

INSTANCE ShadowLanes

ASSUME VerifyAssumption == Lanes \in Nat \ {0} /\ VerifyBudget \in Nat

VARIABLES
    hist,     \* rq_hist: the positions whose token is recorded, by request
    tier,     \* g_moe_sh_*, the lanes of the second tier
    near,     \* g_moe_nt_sh_*, the lanes of the near-tie replay
    todo,     \* slots of the emitting columns not verified yet
    turn,     \* what the first of them comes to: "tier" or "near"
    budget    \* step_budget

verify == <<hist, tier, near, todo, turn, budget>>
vvars  == <<vars, verify>>

\* The 16-bit weights.
Hi == -2

Verifies == gate.tier > 0 \/ gate.near

Lowest(S) == CHOOSE s \in S : \A u \in S : s <= u

\* Decode columns come first, then the prompts that were completed.
First == Lowest(IF todo \intersect Decoding # {} THEN todo \intersect Decoding ELSE todo)

VInit ==
    /\ Init
    /\ hist = [r \in Reqs |-> {}]
    /\ tier = EmptyPool /\ near = EmptyPool
    /\ todo = {} /\ turn = "tier" /\ budget = VerifyBudget

-----------------------------------------------------------------------------
(* The scheduler, with the tokens it records for the replays.              *)

VAdmit ==
    /\ Admit
    /\ hist' = [r \in Reqs |->
                  IF \E s \in Admitted : qhead + Rank(s) = r THEN 0 .. load.plen[r] - 1
                  ELSE hist[r]]
    /\ UNCHANGED <<tier, near, todo, turn, budget>>

VDispatch ==
    /\ Dispatch
    /\ todo' = IF Verifies /\ cols' # {} THEN Emitting' ELSE {}
    /\ turn' = "tier" /\ budget' = VerifyBudget
    /\ UNCHANGED <<hist, tier, near>>

VEmit ==
    /\ todo = {}
    /\ Emit
    /\ hist' = [r \in Reqs |->
                  hist[r] \union {Position(s) : s \in {u \in Emitting : /\ req[u] = r
                                                                        /\ Position(u) < MaxPos}}]
    /\ UNCHANGED <<tier, near, todo, turn, budget>>

VBegin(w) == Begin(w) /\ UNCHANGED verify

-----------------------------------------------------------------------------
(* Verification of one column, of the slot s, its request r and the        *)
(* position p.                                                             *)

\* moe_cbatch_step_scalar_one: the column alone, with the table as loaded.
\* It is exact when all it attends to is.
AloneRow(s, r, p) ==
    Row(r, 0, Weights = 0 /\ \A q \in 0 .. p - 1 : kv[s][q].exact)

\* moe_forward_token from the cached rows on.  A position whose token was not
\* recorded is replayed with the token -1.
Replayed(pool, r, p, w) ==
    LET start == Start(pool, r, p)
        Exact(q) == /\ \A i \in 1 .. start : RowsOf(pool, r)[i].exact
                    /\ start .. q \subseteq hist[r]
    IN  Replay(pool, r, p, [q \in 0 .. p |-> Row(r, w, Exact(q))])

\* The first tier: the column alone.  Its row replaces that of the dispatch
\* and extends the lane of the request.
FirstTier(s, r, p) ==
    /\ kv' = [kv EXCEPT ![s][p] = AloneRow(s, r, p)]
    /\ tier' = Extend(tier, r, p, AloneRow(s, r, p))
    /\ budget' = budget - 1

\* The second tier, after a first one that disagrees, when its cost is within
\* the budget: the replay, and the rows of the slot when they are resynced.
SecondTier(s, r, p) ==
    LET own   == Extend(tier, r, p, AloneRow(s, r, p))
        again == Replayed(own, r, p, Weights)
    IN  /\ gate.tier = 2
        /\ p + 1 - ValidPeek(own, r) <= budget - 1
        /\ tier' = again
        /\ budget' = budget - 1 - (p + 1 - Start(own, r, p))
        /\ kv' = [kv EXCEPT ![s] = [q \in 0 .. MaxPos - 1 |->
                    IF gate.resync /\ q <= p THEN RowsOf(again, r)[q + 1]
                    ELSE IF q = p THEN AloneRow(s, r, p) ELSE kv[s][q]]]

\* moe_cb4c_maybe_reverify.
Reverify ==
    /\ pc = "emit" /\ todo # {} /\ turn = "tier"
    /\ LET s == First
           p == Position(s) - 1
       IN  \/ UNCHANGED <<kv, tier, budget>>
           \/ gate.tier > 0 /\ budget > 0 /\ (FirstTier(s, req[s], p) \/ SecondTier(s, req[s], p))
    /\ turn' = "near"
    /\ UNCHANGED <<gate, pc, run, table, nout, slots, qhead, nact, drain, step, cols, fresh, txn,
                   stopped, hist, near, todo>>

\* moe_neartie_maybe_correct, without the attribution of a token it changes.
Correct ==
    /\ pc = "emit" /\ todo # {} /\ turn = "near"
    /\ LET r == req[First]
           p == Position(First) - 1
       IN  \/ UNCHANGED <<near, budget>>
           \/ /\ gate.near /\ budget > 0
              /\ p + 1 - ValidPeek(near, r) <= budget
              /\ near' = Replayed(near, r, p, Hi)
              /\ budget' = budget - (p + 1 - Start(near, r, p))
    /\ turn' = "tier" /\ todo' = todo \ {First}
    /\ UNCHANGED <<vars, hist, tier>>

-----------------------------------------------------------------------------
VScheduler ==
    \/ (Poll \/ Boundary \/ Finish) /\ UNCHANGED verify
    \/ VAdmit \/ VDispatch \/ Reverify \/ Correct \/ VEmit

VNext ==
    \/ Ask /\ UNCHANGED verify
    \/ \E w \in Workloads : VBegin(w)
    \/ VScheduler

VSpec == VInit /\ [][VNext]_vvars /\ WF_vvars(VScheduler)

-----------------------------------------------------------------------------
(* Properties.                                                             *)

\* A lane holds rows of the request that owns it and of no position beyond
\* those the request has reached, no request has two lanes, and the lane of a
\* request in a slot holds nothing computed before the last change of weights.
\* The rows of the 16-bit pool are what the tokens give.  So are those of the
\* second tier, with the weights as loaded, unless its result is not copied
\* back to the slot (a first tier then extends the lane with a row that
\* attends to inexact ones) or the token after a scalar prefill was not
\* recorded.
ShadowLanesHold ==
    LET Holds(pool, ws) ==
            \A i \in 0 .. Lanes - 1 : pool.req[i] \in Reqs =>
                /\ \A j \in 0 .. Lanes - 1 : pool.req[j] = pool.req[i] => j = i
                /\ Len(pool.rows[i]) <= load.plen[pool.req[i]] + nout[pool.req[i]]
                /\ \A q \in DOMAIN pool.rows[i] :
                     /\ pool.rows[i][q].req = pool.req[i]
                     /\ pool.rows[i][q].w \in ws
                        \/ \A s \in Slots \ Free : req[s] # pool.req[i]
        Exact(pool) == \A i \in 0 .. Lanes - 1 : \A q \in DOMAIN pool.rows[i] :
                           pool.rows[i][q].exact
    IN  /\ Holds(tier, {0, Weights}) /\ Holds(near, {Hi})
        /\ ~gate.scalar => Exact(near)
        /\ ~gate.scalar /\ Weights = 0 /\ (gate.tier = 2 => gate.resync) => Exact(tier)

=============================================================================
