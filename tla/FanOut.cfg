CONSTANTS
  NHosts = 3
  NNodes = 2
  Kind <- MCKind
  Registers = {1}
  Modes = {"free", "batch", "async"}
  BatchArgs = {0, 2}
  NoEntry = NoEntry
SPECIFICATION FairSpec
INVARIANTS
  TypeOK
  ConcurrencyBound
  UnwrapSucceeds
  OkReportsTheRun
  ErrKeepsMergedChunks
  RegisterIsolation
PROPERTIES
  ImplementsHostRuns
  CallReturns
CHECK_DEADLOCK FALSE
