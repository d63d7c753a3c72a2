CONSTANTS
  Worker = {w1, w2}
  NTask = 1
  Char <- MCChar
  Null = Null
  Types <- MCNulTypes
  Rows <- MCNulRows
  NoDates <- MCNoDates
  FetchMayFail = FALSE
  CommitMayFail = FALSE
SPECIFICATION Spec
INVARIANT
  ValuesArrive
