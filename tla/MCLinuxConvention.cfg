CONSTANTS
  Others <- MCOthers
  CalleeSaved = {"s0"}
  UserRegs <- MCUserRegs
  UserStackTop = 60
  UserPcs = {0, 4}
  Results = {5, 6}
  StackTop = 6
  Delegations <- MCDelegations
  Causes = {2, 3, 8, 13}
SPECIFICATION Spec
PROPERTY LinuxConvention
CHECK_DEADLOCK FALSE
