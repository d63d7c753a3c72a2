CONSTANTS
  Table = {t1}
  MaxCommit = 1
  MaxStart = 1
  LocalMayFail = TRUE
SPECIFICATION Spec
PROPERTIES
  KeepsUp
