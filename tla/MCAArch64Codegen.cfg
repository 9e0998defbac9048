CONSTANTS
  N = 5
  CallerSaved = {0, 1, 2, 3, 4}
  IRRegs = {0, 1, 2}
  Vars = {1, 2}
  VarSize <- MCVarSize
  VarAlign <- MCVarAlign
  MaxArgs = 1
  MaxFrame = 9
SPECIFICATION Spec
INVARIANTS
  TypeOK
  LocationsConsistent
  ValuesHeld
  FrameDisjoint
  OperandsRead
  FrameReserved
