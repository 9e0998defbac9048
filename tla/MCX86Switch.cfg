CONSTANTS
  N = 7
  CallerSaved = {0, 1}
  IRRegs = {0, 1, 2, 3, 4, 5}
  Vars = {1}
  VarSize <- MCVarSize
  VarAlign <- MCVarAlign
  ArgRegs = 6
  MaxFrame = 100
  MaxCases = 5
SPECIFICATION SwitchSpec
CHECK_DEADLOCK FALSE
INVARIANT DispatchesOnValue
