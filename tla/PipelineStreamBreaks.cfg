CONSTANTS
  Key = {"a", "b"}
  Value = {"v", "w"}
  Absent = Absent
  None = None
  Ops = {"insert", "update", "delete"}
  PersistEvery = 2
  Stmt <- MCStmt
  NTxn = 2
  Pos <- MCPos
  CommitLsn <- MCCommitLsn
  MaxDrop = 1
  MaxCrash = 0
  FeedbackMayFail = FALSE
  LocalMayFail = FALSE
SPECIFICATION PipelineSafety
INVARIANTS
  TargetEqualsSource
