SPECIFICATION Spec
CONSTANTS
  MaxKey = 5
  Values = {u, v}
  NoValue = nil
  Removing = "any"
SYMMETRY ValuesAreAlike
PROPERTY RemoveTakesItsKeyOnly
