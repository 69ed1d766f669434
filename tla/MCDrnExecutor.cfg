SPECIFICATION FairSpec
CONSTANT MaxGeneration = 4
INVARIANTS
  OneLiveCallback
  LiveCallbackFitsOperation
  NeverStrandedInFlight
PROPERTIES
  StrandedOnlyByHold
  DisplacedIsStale
  RunningOperationKept
  Implements
  OnlyRequestsProlong
  OperationEnds
