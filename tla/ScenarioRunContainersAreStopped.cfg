SPECIFICATION Spec
CONSTANT KeepsArmedTime = TRUE
CHECK_DEADLOCK FALSE
PROPERTIES
  ContainersAreStopped
