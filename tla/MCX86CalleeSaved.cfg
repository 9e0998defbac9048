CONSTANTS
  N = 7
  CallerSaved = {0, 1}
  IRRegs = {0, 1}
  Vars = {1}
  VarSize <- MCVarSize
  VarAlign <- MCVarAlign
  ArgRegs = 1
  MaxFrame = 16
SPECIFICATION SavedSpec
INVARIANT UsedCalleeRegsSaved
