CONSTANTS
  Requests = {r1, r2}
  Tables = {d1, d2}
  Keys = {1, 2}
  Bodies = {b1, b2}
  NoRow = NoRow
  IntMax = 7
  DefaultPageSize = 2
  MaxPageSize = 3
SPECIFICATION Spec
SYMMETRY Symmetry
INVARIANTS TypeOK RowsHaveTable DumpOrphansAreNew PagesTile

PROPERTY ImplementsRowStore
