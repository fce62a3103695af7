CONSTANTS
  Threads = {t1, t2}
  Hosts = {h1, h2}
  Cacheable = {"stat"}
  Others = {"shell"}
  Orders <- MCOrders
  Backends = {"memory", "sqlite"}
  NoEntry = NoEntry
  MaxCalls = 3
  MaxInvalidations = 1
  MaxProcesses = 2
SYMMETRY MCSymmetry
SPECIFICATION Spec
INVARIANTS
  TypeOK
  ResultBelongs
  OneRunPerThread
  CountersAgree
CHECK_DEADLOCK FALSE
