CONSTANTS
  NHosts = 3
  NNodes = 3
  Kind <- MCKind
  Registers = {1}
  NoEntry = NoEntry
SPECIFICATION Spec
INVARIANTS
  RegisterIsolation
CHECK_DEADLOCK FALSE
