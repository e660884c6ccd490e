CONSTANTS
  Requests = {a1}
  Ids = {i1}
  LastTable = 1
  Tokens = {k1}
  MaxFaults = 2
SPECIFICATION Spec
INVARIANT NoDeadHandle
