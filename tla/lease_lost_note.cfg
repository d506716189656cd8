SPECIFICATION Spec
CONSTANTS
  w1 = w1
  w2 = w2
  w3 = w3
  c1 = c1
  c2 = c2
  NoWorker = NoWorker
  Tasks = {1}
  Workers = {w1, w2}
  Mortal = {}
  Callers = {}
  CallerOps = {}
  Budgets = {1}
  AttemptsLimit = 3
  ClaimBatch = 2
  ReapBatch = 2
  SkipLocked = FALSE
  EpochBound = 0
INVARIANT NoteGoesWithSuccess
CHECK_DEADLOCK FALSE
