CONSTANTS
  Lists <- MCLists
  Walkers = {"play", "strategy"}
SPECIFICATION FairSpec
INVARIANTS
  TypeOK
  FailedFlagExact
  PlayRunsAsWritten
  AlwaysRuns
PROPERTIES
  WalkEnds
CHECK_DEADLOCK FALSE
