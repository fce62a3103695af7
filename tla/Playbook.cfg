CONSTANTS
  HostOrder <- MCHostOrder
  InvHosts <- MCInvHosts
  Groups <- MCGroups
  CommandLines <- MCCommandLines
  Extra = {TRUE, FALSE}
SPECIFICATION FairSpec
INVARIANTS
  TypeOK
  VariableSource
  PlayCovers
  ExitCodeOfTasks
PROPERTIES
  RunEnds
CHECK_DEADLOCK FALSE
