CONSTANT Sources <- MCSources
SPECIFICATION Spec
INVARIANT NoOperandIsLost
CHECK_DEADLOCK FALSE
