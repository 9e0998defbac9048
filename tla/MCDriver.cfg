SPECIFICATION FairSpec
CONSTANTS
  MaxOptions = 2
  MaxLines = 3
INVARIANTS
  TypeOK
  OutputIsClean
  DiagnosticsShown
  TempsRemoved
  PromptMatchesInput
PROPERTIES
  PipelineReturns
\* The compiler exits.
CHECK_DEADLOCK FALSE
