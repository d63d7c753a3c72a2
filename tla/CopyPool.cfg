CONSTANTS
  Worker = {w1, w2, w3}
  NTask = 3
  Rows <- MCRows
  OriginMayFail = FALSE
  CommitMayFail = FALSE
SPECIFICATION Spec
INVARIANTS
  TypeOK
  OneCopier
  CompleteMeansCommitted
  OneTablePerFailure
  CleanMeansLoaded
  CountedRowsLoaded
PROPERTIES
  JobSpec
