CONSTANTS
  Requests = {r1, r2}
  Ids = {i1}
  Jobs = {j1}
  Names = {n1}
  Edits = {n2}
  Absent = Absent
  MaxCopies = 1
SPECIFICATION Spec
SYMMETRY Symmetry
INVARIANTS TypeOK LockMatchesState DeletedStaysGone QuietFlowIsExact JobsFindTheirFlow
