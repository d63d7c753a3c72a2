CONSTANTS
  Key = {a, b}
  Value = {v, w}
  Absent = Absent
  None = None
  Ops = {"insert", "update", "delete", "move"}
  MaxStmt = 2
  MaxTxn = 2
  PersistEvery = 2
  ServerMayFail = TRUE
SPECIFICATION Safety
INVARIANTS
  TypeOK
  Converges
  TargetAtApplyId
  DuplicatesComeBack
SYMMETRY MCSymmetry
