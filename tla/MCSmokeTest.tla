----------------------------- MODULE MCSmokeTest ------------------------------
(* Model checking of SmokeTest: every test with the model of the depth profile *)
(* (the others take any), two vehicles in the fleet, two samples, not three.   *)
EXTENDS SmokeTest

MCVehicles == {1, 2}
MCStamps   == 0..2
MCSizes    == {1, 2}
=============================================================================
