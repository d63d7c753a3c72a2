CONSTANTS
  Char <- MCChar
  Values <- MCValues
  Slot = {s1, s2}
  Null = Null
  External = External
  NullPtr = NullPtr
  Absent = Absent
  MaxAtt = 3
  Relations <- MCRelations
SPECIFICATION Safety
INVARIANTS
  TypeOK
  MessageIsChange
  ReplicaFollows
  StopsRatherThanDiverges
PROPERTIES
  OnlyItsRow
