SPECIFICATION FairSpec
CONSTANTS
  Workers = {w1, w2, w3}
  Ticks = {0, 1, 2}
  SkipLocked = TRUE
  Skew = 1
  LastClock = 2
  MaxFailures = 1
INVARIANTS FirstPassesHeedTheAnchor NoDeadlock
PROPERTIES KeepsItsPromise LatestTickIsRecorded
