SPECIFICATION FairSpec
CONSTANT KeepsArmedTime = TRUE
CHECK_DEADLOCK FALSE
INVARIANTS
  PassedIsEarned
  PassedIsValid
  ExitZeroIsClean
  ArmedRunFails
PROPERTIES
  RestoreIsAttempted
  RunEnds
  FillsPack
  KeepsVerdict
