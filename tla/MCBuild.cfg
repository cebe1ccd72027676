CONSTANTS
  a = a
  b = b
  c = c
  main = main
  Modules <- MCModules
  Main <- main
  Trees <- MCTrees
  MaxFiles = 3
SPECIFICATION BuildSpec
INVARIANTS
  TypeOK
  ImportsAreSound
  DescriptorsAccounted
  ContextIsKnown
  OutcomeHasCause
  WritesAllNeeded
  TagsAreKnown
PROPERTIES
  LoadsInOrder
  WritesInOrder
  BuildEnds
CHECK_DEADLOCK FALSE
