CONSTANTS
  Worker = {w1, w2}
  NTask = 2
  Rows <- MCRows
  OriginMayFail = TRUE
  CommitMayFail = FALSE
SPECIFICATION Spec
INVARIANT CompleteMeansCommitted
