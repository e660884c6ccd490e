CONSTANTS
  Requests = {a1, a2}
  Ids = {i1}
  LastTable = 2
  Tokens = {k1}
  MaxFaults = 2
SPECIFICATION Spec
SYMMETRY Symmetry
INVARIANTS TypeOK AckedWritesServed StagingCleanedUp ResetClears ResetRevokes
PROPERTY LoneRestoreReverses
VIEW View
