CONSTANTS
  Requests = {r1, r2, r3}
  Ids = {i1, i2}
  Keys = {k1, k2}
  Kind <- AuthRoleKind
  MaxUpdates = 3
  Absent = Absent
SPECIFICATION Spec
SYMMETRY Symmetry
INVARIANTS KeysDistinct DeletedStaysGone
