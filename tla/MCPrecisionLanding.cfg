SPECIFICATION FairSpec
CONSTANTS
  CommandTimeout = 1
  AlignmentDwell = 2
  TargetTimeout = 4
INVARIANTS
  DescentIsJustified
  StatusMatchesPhase
PROPERTIES
  DescentIsEarned
  GuardsLanding
  AbandonedLandingEnds
