SPECIFICATION Spec
CONSTANTS
  w1 = w1
  w2 = w2
  w3 = w3
  c1 = c1
  c2 = c2
  NoWorker = NoWorker
  Tasks = {1}
  Workers = {w1, w2}
  Mortal = {w1, w2}
  Callers = {c1, c2}
  CallerOps = {"retry", "discard", "cancel", "revive"}
  Budgets = {1, 2}
  AttemptsLimit = 3
  ClaimBatch = 2
  ReapBatch = 2
  SkipLocked = FALSE
  EpochBound = 2
SYMMETRY WorkerSymmetry
INVARIANTS EpochsIdentifyExecutions ResultIsTheHolders
PROPERTIES DecisionsStayWithTheirRow ImplementsLifecycle
CHECK_DEADLOCK FALSE
