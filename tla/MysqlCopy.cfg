CONSTANTS
  Worker = {w1, w2}
  NTask = 3
  Char <- MCChar
  Null = Null
  Types <- MCTypes
  Rows <- MCRows
  NoDates <- MCNoDates
  FetchMayFail = FALSE
  CommitMayFail = FALSE
SPECIFICATION Spec
INVARIANTS
  TypeOK
  CompleteMeansLoaded
PROPERTIES
  Terminates
  JobSafety
