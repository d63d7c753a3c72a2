CONSTANTS
  Table = {t1, t2}
  MaxCommit = 2
  MaxStart = 2
  LocalMayFail = TRUE
SPECIFICATION Spec
INVARIANTS
  TypeOK
  EndAfterCopy
  NoGap
  StreamAfterCopy
PROPERTIES
  CatchesUpOrEnds
