CONSTANTS
  NTxn = 3
  Pos <- MCPos
  CommitLsn <- MCCommitLsn
  MaxDrop = 1
  MaxCrash = 0
  FeedbackMayFail = TRUE
  LocalMayFail = FALSE
SPECIFICATION Spec
INVARIANT
  ConfirmedIsStaged
