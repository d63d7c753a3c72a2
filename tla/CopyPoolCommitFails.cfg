CONSTANTS
  Worker = {w1, w2}
  NTask = 2
  Rows <- MCRows
  OriginMayFail = FALSE
  CommitMayFail = TRUE
SPECIFICATION Spec
INVARIANT
  CompleteMeansCommitted
