CONSTANTS
  Address = {1, 2, 3, 4, 5, 6}
  Perm <- MCPerm
  Program <- MCProgram
  Calls <- MCCalls
  TempSize = 2
  Keys = {"a", "b", "cr", "bs"}
SPECIFICATION Spec
INVARIANT ReturnsBytesWritten
CHECK_DEADLOCK FALSE
