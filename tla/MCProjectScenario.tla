-------------------------- MODULE MCProjectScenario --------------------------
(* Four contents of a project: an inert scenario, an operator scenario, one  *)
(* that injects and does not restore, and a broken overlay.                 *)
EXTENDS ProjectScenario

Inert ==
  [manifest |-> [shape |-> TRUE, version |-> 1, name |-> "probe", package |-> "probe",
                 nodes |-> {"node"}, topics |-> {"topic"}, services |-> {"service"},
                 scenarios |-> {"health", "battery"}],
   override |-> [shape |-> TRUE, image |-> "probe", build |-> "project",
                 environment |-> "manifest", volumes |-> "read_only"],
   packages |-> <<"probe">>,
   scenario |-> [shape |-> TRUE, version |-> 1, name |-> "health", stem |-> "health",
                 timeout |-> 2, setup |-> <<"core-smoke">>, actions |-> <<>>,
                 assertions |-> <<"project-health", "topic">>,
                 cleanup |-> <<"stop-stack">>]]

Operator ==
  [Inert EXCEPT !.scenario =
     [Inert.scenario EXCEPT !.version = 2, !.timeout = 3, !.actions = <<"battery">>,
                            !.assertions = <<"project-health">>,
                            !.cleanup = <<"battery", "stop-stack">>]]

Unrestored == [Operator EXCEPT !.scenario.cleanup = <<"stop-stack">>]
Writable   == [Inert EXCEPT !.override.volumes = "writable"]

MCProjects == {Inert, Operator, Unrestored, Writable}
MCUnderlay == {"drn_control", "drn_viz"}
=============================================================================
