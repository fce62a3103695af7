CONSTANTS
  NHosts = 3
  NNodes = 3
  Kind <- MCKind
  Registers = {1}
  NoEntry = NoEntry
SPECIFICATION FairSpec
INVARIANTS
  TypeOK
  Lockstep
  StatesMatchResults
PROPERTIES
  ImplementsHostRuns
  CallReturns
CHECK_DEADLOCK FALSE
