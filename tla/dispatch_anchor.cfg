SPECIFICATION Spec
CONSTANTS
  Workers = {w1, w2}
  Ticks = {0, 1, 2}
  SkipLocked = TRUE
  Skew = 1
  LastClock = 2
  MaxFailures = 0
INVARIANT NothingBeforeTheAnchorFires
