CONSTANTS
  Address <- MCAddress
  Perm <- MCPerm
  Program <- MCProgram
  Calls = {}
  TempSize = 4
  Keys = {"a", "cr", "bs"}
  prompt <- MCprompt
  echo_prefix <- MCecho_prefix
  input_buffer <- MCinput_buffer
SPECIFICATION InitProgram_Spec
PROPERTY EndsWithExitGroup
CHECK_DEADLOCK FALSE
