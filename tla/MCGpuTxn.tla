------------------------------- MODULE MCGpuTxn -------------------------------
(* Two targets promoted at startup to one of two widths.                   *)
EXTENDS GpuTxn

CONSTANTS a, b

MCLines == << <<a, 5>>, <<b, 5>> >>

=============================================================================
