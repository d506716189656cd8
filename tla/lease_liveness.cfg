SPECIFICATION FairSpec
CONSTANTS
  w1 = w1
  w2 = w2
  w3 = w3
  c1 = c1
  c2 = c2
  NoWorker = NoWorker
  Tasks = {1}
  Workers = {w1, w2}
  Mortal = {w1}
  Callers = {c1}
  CallerOps = {"retry", "release"}
  Budgets = {1, 2}
  AttemptsLimit = 3
  ClaimBatch = 1
  ReapBatch = 1
  SkipLocked = TRUE
  EpochBound = 2
INVARIANTS BudgetRespected ErrorsTellAttempts
PROPERTY EventuallySettled
CHECK_DEADLOCK FALSE
