CONSTANTS
  Aliases <- MCAliases
  Vars <- MCVars
  Lines <- MCLines
SPECIFICATION Spec
INVARIANTS
  DeclaredAsWritten
  EmittedAsMeant
  OperatorsAsC
  PlacesAgree
  InferredFits
CHECK_DEADLOCK FALSE
