CONSTANTS
  PageSize = 2
  WordSize = 32
  Entries = 2
  Garbage <- MCGarbage
  Allocators <- MCAllocators
  Requests <- MCRequests
SPECIFICATION Spec
INVARIANTS
  
  TreeInv
  QueryAgreesWithHardware
PROPERTIES
  OnlyTablesWritten
  MapEstablishes
  ImplementsAddressSpace
