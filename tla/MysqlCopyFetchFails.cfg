CONSTANTS
  Worker = {w1}
  NTask = 3
  Char <- MCChar
  Null = Null
  Types <- MCTypes
  Rows <- MCRows
  NoDates <- MCNoDates
  FetchMayFail = TRUE
  CommitMayFail = FALSE
SPECIFICATION Spec
INVARIANT
  CompleteMeansLoaded
