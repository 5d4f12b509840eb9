CONSTANTS
  PageSize = 2
  WordSize = 2048
  Entries = 8
  DirectMapBase = 1536
  UserTextStart = 16
  UserStackTop = 510
  UserStackSize = 2
  StackAlignment = 2
  Platforms <- MCPlatforms
  Garbage <- MCGarbage
SPECIFICATION Spec
INVARIANTS
  KernelStaysMapped
  UserPagesPrivate
  ImageLoaded
  UserCanStart
  PanicsForAReason
PROPERTIES
  
  BootEnds
CHECK_DEADLOCK FALSE
