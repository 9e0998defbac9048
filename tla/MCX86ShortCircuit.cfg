CONSTANTS
  N = 7
  CallerSaved = {0, 1}
  IRRegs = {0, 1, 2}
  Vars = {1}
  VarSize <- MCVarSize
  VarAlign <- MCVarAlign
  ArgRegs = 6
  MaxFrame = 40
  ScVar = 1
SPECIFICATION ScSpec
CHECK_DEADLOCK FALSE
INVARIANT SpillsTrackedAcrossJump
