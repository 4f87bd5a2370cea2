---------------------------- MODULE MCPrecisionTxn ----------------------------
(* Two transactions, two policies and a worker that can take one request.  *)
EXTENDS PrecisionTxn

CONSTANTS t1, t2, p1, p2, c1, c2

=============================================================================
