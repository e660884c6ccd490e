CONSTANTS
  Requests = {r1, r2}
  Queues = {q1}
  Users = {u1, u2}
  Rings = {1, 2}
  Bodies <- MCBodies
  Free = Free
SPECIFICATION FairSpec
INVARIANTS TypeOK ForeignKeysHold CommitsWhatWasAsked ConnectionHeldInTx
PROPERTIES ImplementsMemberSets StatementsRunOut EveryRequestAnswered
