CONSTANTS
  Projects <- MCProjects
  Underlay <- MCUnderlay
  MaxTimeout = 3
  MaxEdits = 1
  MaxSteps = 1
SPECIFICATION FairSpec
INVARIANTS InjectedIsRestorable DeadlineIsShared
PROPERTIES HealthIsRecent PhaseEnds
CHECK_DEADLOCK FALSE
