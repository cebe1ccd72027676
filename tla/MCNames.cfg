CONSTANTS
  TypeIds <- MCTypeIds
  VarIds <- MCVarIds
  FuncIds <- MCFuncIds
  ModuleNames <- MCModuleNames
  ModuleType = "T"
  MaxText = 5
SPECIFICATION Spec
INVARIANTS
  NamesAgree
  OncePerBlock
  TypeNamesDeclared
CHECK_DEADLOCK FALSE
