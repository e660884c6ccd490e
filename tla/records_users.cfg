CONSTANTS
  Requests = {r1, r2}
  Ids = {i1, i2}
  Keys = {k1, k2}
  Kind <- UserKind
  MaxUpdates = 2
  Absent = Absent
SPECIFICATION Spec
SYMMETRY Symmetry
INVARIANTS TypeOK StateColumnHonest
PROPERTY QuietDeletionSticks
