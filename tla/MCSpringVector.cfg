CONSTANTS
  u1 = u1
  u2 = u2
  u3 = u3
  a1 = a1
  a2 = a2
  Vects <- MCVects
  Arrays <- MCArrays
  Null = null
  Freed = freed
  Values = {1}
  MaxCap = 2
  Word = 8
  WordBytes = 2
  CounterSize = 2
SPECIFICATION Spec
INVARIANTS
  ArraysAreOwned
PROPERTIES
  IsAVector
SYMMETRY Symmetry
CHECK_DEADLOCK FALSE
