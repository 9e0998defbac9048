CONSTANTS
  N = 7
  CallerSaved = {0, 1}
  IRRegs = {0, 1}
  Vars = {1}
  VarSize <- MCVarSize
  VarAlign <- MCVarAlign
  ArgRegs = 6
  MaxFrame = 40
  MaxArgs = 8
SPECIFICATION CallSpec
CHECK_DEADLOCK FALSE
INVARIANT StackArgsPassed
