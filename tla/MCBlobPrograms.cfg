SPECIFICATION Spec
CONSTANTS
  Cell = 2
  Address = {0, 1, 2, 3}
  Datum = {0, 1}
  Lengths = {0, 1, 2, 3}
  MemorySize = 58
  MaxMoves = 1
  MaxEdits = 2
  MaxOverlays = 2
  WriteBuffers <- MCWriteBuffers
  WriteNodes <- MCWriteNodes
  WriteProps <- MCWriteProps
  Given <- MCGiven
  EditBuffers <- MCEditBuffers
  EditNodes <- MCEditNodes
  EditProps <- MCEditProps
  Values <- MCValues
  Entries <- MCEntries
  Bases <- MCBases
  Overlays <- MCOverlays
INVARIANTS
  WrittenIsValid
  
  LayoutIsKept
  FailuresAreHarmless
  OverlaysAreExact
  DamageIsMarked
  MovesAreExact

  
CHECK_DEADLOCK FALSE
