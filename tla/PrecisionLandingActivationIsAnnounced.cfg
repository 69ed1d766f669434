SPECIFICATION Spec
CONSTANTS
  CommandTimeout = 1
  AlignmentDwell = 2
  TargetTimeout = 4
PROPERTIES
  ActivationIsAnnounced
