CONSTANTS
  Key = {"a", "b"}
  Value = {"v", "w"}
  Absent = Absent
  None = None
  Ops = {"insert", "update", "delete"}
  PersistEvery = 2
  Stmt <- MCStmt
  NTxn = 2
  Pos <- MCPos
  CommitLsn <- MCCommitLsn
  MaxDrop = 0
  MaxCrash = 1
  FeedbackMayFail = FALSE
  LocalMayFail = TRUE
SPECIFICATION PipelineSpec
INVARIANTS
  TargetEqualsSource
PROPERTIES
  AbortStopsBoth
  ArrivesOrStops
