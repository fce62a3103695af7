CONSTANTS
  Platforms <- MCPlatforms
  NameOrder <- MCNameOrder
  Drivers = {"container", "none"}
  Patterns = {"all", "molecule"}
  Optional = {{}, {"prepare", "verify", "cleanup"}}
  MaxCommands = 3
SPECIFICATION FairSpec
INVARIANTS
  TypeOK
  TargetsAreTheInstances
  ExitTellsThePhases
PROPERTIES
  CommandEnds
CHECK_DEADLOCK FALSE
