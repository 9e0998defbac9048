SPECIFICATION FairSpec
CONSTANTS
  Files <- MCFiles
  Main = "main"
  NoFile = "none"
  Names <- MCNames
  Resolve <- MCResolve
  Idents = {"m", "n"}
  Sources <- MCSources
  MaxLines = 2
INVARIANTS
  TypeOK
  IncludedAtMostOnce
  EndsWithEOF
  ResultIsMeaning
PROPERTIES
  Terminates
\* process stops when the outermost call has returned (Terminates).
CHECK_DEADLOCK FALSE
