CONSTANTS
  Tasks <- MCTasks
  Facts = {{}, {"item"}, {"r"}}
  MaxRuns = 2
  Absent = Absent
SPECIFICATION Spec
INVARIANTS
  TypeOK
  FailureReported
  LoopCoversItems
PROPERTIES
  RegisterHoldsResult
CHECK_DEADLOCK FALSE
