CONSTANTS
  NTxn = 3
  Pos <- MCPos
  CommitLsn <- MCCommitLsn
  MaxDrop = 1
  MaxCrash = 1
  FeedbackMayFail = FALSE
  LocalMayFail = TRUE
SPECIFICATION Spec
INVARIANTS
  TypeOK
  ConfirmedIsStaged
  ResumeIsStaged
PROPERTIES
  EventuallyStaged
  LogSpec
