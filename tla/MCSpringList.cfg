CONSTANTS
  v1 = v1
  v2 = v2
  Values <- MCValues
  NoValue = nil
  MaxNodes = 4
  MaxPos = 5
SPECIFICATION Spec
INVARIANTS
  HeapIsTheLists
PROPERTIES
  CursorKept
  IsASequence
SYMMETRY Symmetry
