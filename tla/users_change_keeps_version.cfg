CONSTANTS
  Requests = {r1, r2}
  Ids = {i1}
  Keys = {k1}
  Kind <- UserKind
  MaxUpdates = 2
  Absent = Absent
SPECIFICATION Spec
PROPERTY ChangesBumpVersion
