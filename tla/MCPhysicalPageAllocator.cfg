CONSTANTS
  PageSize = 4
  WordSize = 32
  Platforms <- MCPlatforms
SPECIFICATION Spec
INVARIANTS
  
  GivenPagesUsable
  FailsOnlyWhenFull
PROPERTIES
  NeverTwice
  ExhaustedForGood
CHECK_DEADLOCK FALSE
