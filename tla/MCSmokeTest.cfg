SPECIFICATION FairSpec
CONSTANTS
  Models = {"x500_depth_0"}
  Vehicles <- MCVehicles
  Required = 2
  Stamps <- MCStamps
  Sizes <- MCSizes
  MaxCrashes = 1
CHECK_DEADLOCK FALSE
INVARIANTS
  PassedIsJustified
  ForeignIsNoticed
  FailedForAReason
PROPERTIES
  HealthyProfilePasses
