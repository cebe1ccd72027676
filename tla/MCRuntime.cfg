CONSTANTS
  Files = {"quine.fork", "lelz.out"}
  Streams = {"f", "g"}
  Bytes <- MCBytes
  Sources <- MCSources
  ChunkLen = 3
  Word = 256
  StashStep = 2
  BufLen = 3
  Numbers <- MCNumbers
  Caps = {0, 1, 4}
  Bases = {0, 1, 2, 3, 10, 255}
  Exps <- MCExps
SPECIFICATION Spec
INVARIANTS
  CopyKeepsBytes
  NumbersReadBack
  PowerIsExact
PROPERTIES
  CallsEnd
CHECK_DEADLOCK FALSE
