CONSTANTS
  N = 5
  CallerSaved = {0, 1}
  IRRegs = {0, 1, 2}
  Vars = {1, 2}
  VarSize <- MCVarSize
  VarAlign <- MCVarAlign
  ArgRegs = 1
  MaxFrame = 9
SPECIFICATION Spec
INVARIANTS
  TypeOK
  LocationsConsistent
  ValuesHeld
  FrameDisjoint
  OperandsRead
  FrameReserved
