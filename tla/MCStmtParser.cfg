CONSTANTS
  x = x
  Names <- MCNames
  Lines <- MCLines
  MaxLines = 6
SPECIFICATION Spec
INVARIANTS
  TypeOK
  LoopFlagIsSound
  BreaksAreInLoops
  NamesResolve
  AcceptedIsWellNested
CHECK_DEADLOCK FALSE
