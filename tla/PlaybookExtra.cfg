CONSTANTS
  HostOrder <- MCHostOrder
  InvHosts <- MCInvHosts
  Groups <- MCGroups
  CommandLines <- MCCommandLines
  Extra = {TRUE, FALSE}
SPECIFICATION Spec
INVARIANTS
  ExtraVarsWin
CHECK_DEADLOCK FALSE
