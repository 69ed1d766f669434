---------------------------- MODULE MCDrnExecutor ----------------------------
(* Model checking of DrnExecutor: the bound on the generation counter is the *)
(* only constant, and every request, callback and status is enumerated.      *)
EXTENDS DrnExecutor
=============================================================================
