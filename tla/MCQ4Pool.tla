------------------------------- MODULE MCQ4Pool -------------------------------
(* Four threads, row counts below and above the thread count, and a       *)
(* dispatch counter that wraps after two dispatches.                       *)
EXTENDS Q4Pool

=============================================================================
