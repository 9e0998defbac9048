SPECIFICATION Spec
CONSTANTS
  Files <- MCFiles
  Main = "main"
  NoFile = "none"
  Names <- MCNames
  Resolve <- MCResolve
  Idents = {"m", "n"}
  Sources <- MCSources
  MaxLines = 2
INVARIANT
  IncludedOnce
\* process stops when the outermost call has returned.
CHECK_DEADLOCK FALSE
