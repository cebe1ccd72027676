CONSTANT Sources <- MCSources
SPECIFICATION Spec
INVARIANTS
  GroupsAsC
  OperandsAreKept
CHECK_DEADLOCK FALSE
