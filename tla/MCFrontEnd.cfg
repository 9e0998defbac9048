SPECIFICATION FrontFairSpec
CONSTANT Inputs <- MCInputs
INVARIANTS
  TypeOK
  ScopesBalanced
  PanicsAdvance
  PanicsCaught
  
  AcceptedLowers
  FunctionsClosed
  
  ImmutableKept
  
PROPERTIES
  LexicalScoping
  Terminates
