CONSTANTS
  Platforms <- MCPlatforms
  NameOrder <- MCNameOrder
  Drivers = {"container"}
  Patterns = {"all"}
  Optional = {{}}
  MaxCommands = 1
SPECIFICATION Spec
INVARIANTS
  FailureDestroys
CHECK_DEADLOCK FALSE
