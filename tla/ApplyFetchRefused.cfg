CONSTANTS
  Key = {a, b}
  Value = {v, w}
  Absent = Absent
  None = None
  Ops = {"insert"}
  MaxStmt = 2
  MaxTxn = 1
  PersistEvery = 2
  ServerMayFail = TRUE
SPECIFICATION Safety
INVARIANT AllApplied
