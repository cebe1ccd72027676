CONSTANTS
  Texts <- MCTexts
  Keywords <- MCKeywords
  MaxToken = 5
SPECIFICATION Spec
INVARIANTS
  TextIsSpelled
  LinesAreNumbered
  TokensAreRuns
  LiteralsAreKept
CHECK_DEADLOCK FALSE
