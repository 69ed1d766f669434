---------------------------- MODULE MCScenarioRun -----------------------------
(* Model checking of ScenarioRun: one run, with or without evidence and       *)
(* operator actions, every command of which may fail.                          *)
EXTENDS ScenarioRun
=============================================================================
