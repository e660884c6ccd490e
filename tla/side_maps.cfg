CONSTANTS
  Requests = {r1, r2}
  Groups = {g1}
  Queues = {q1}
  Items = {i1, i2}
  Batches <- MCBatches
  Libs = {l1}
SPECIFICATION Spec
SYMMETRY Symmetry
INVARIANTS TypeOK QuietBatchExact ListedOnce CodesHaveHadQueue BuriedStaysBuried
