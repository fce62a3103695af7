CONSTANTS
  Threads = {t1, t2}
  Pkgs = {p, q}
  Orphan = orphan
  Modules <- MCModules
  Tasks <- MCTasks
  Cost <- MCCost
  MaxCost = 2
  Idle = Idle
SYMMETRY MCSymmetry
SPECIFICATION Spec
INVARIANTS
  TypeOK
  GoalReached
  OkHidesNothing
  ChangedIsReal
  MovesOnlyItsOwn
CHECK_DEADLOCK FALSE
