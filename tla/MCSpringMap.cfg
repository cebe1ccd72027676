SPECIFICATION Spec
CONSTANTS
  MaxKey = 5
  Values = {u, v}
  NoValue = nil
  Removing = "balanced"
SYMMETRY ValuesAreAlike
PROPERTIES
  BalanceIsKept
  IsADictionary
