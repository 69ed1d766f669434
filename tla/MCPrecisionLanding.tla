-------------------------- MODULE MCPrecisionLanding --------------------------
(* Model checking of PrecisionLanding.  The timeouts are the smallest that    *)
(* keep the command timeout, the dwell and the target timeout apart, so a     *)
(* target can grow too old to steer by while the alignment dwell runs out.    *)
EXTENDS PrecisionLanding
=============================================================================
