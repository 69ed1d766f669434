SPECIFICATION Spec
CONSTANT TeleopTimeout = 2
INVARIANTS
  CommandLossStops
  CommandingOwnsTarget
  AbandonedTargetIsReported
PROPERTY
  SharesControl
