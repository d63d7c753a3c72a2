CONSTANTS
  NTable = 2
  MaxCommit = 2
  Versions = {80300, 90400}
SPECIFICATION Spec
INVARIANTS
  TypeOK
  OneSnapshot
  OneFormat
  OnlyFaultsStop
