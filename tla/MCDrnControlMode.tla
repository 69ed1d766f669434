--------------------------- MODULE MCDrnControlMode ---------------------------
(* Model checking of DrnControlMode.  With a timeout of two ticks a command   *)
(* can be younger than, exactly as old as and older than the timeout, and the *)
(* two topics can expire at different ticks.                                  *)
EXTENDS DrnControlMode
=============================================================================
