SPECIFICATION Spec
CONSTANTS
  Cell = 2
  Blobs <- MCBlobs
  Symbols <- MCSymbols
  PropNames <- MCPropNames
  Components <- MCComponents
  Strings <- MCStrings
INVARIANTS
  CheckedBlobsAreTrees
  NodesAreRead
  PropertiesAreRead
  
PROPERTY
  InitEnds
