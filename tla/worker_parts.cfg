SPECIFICATION PartSpec
CONSTANTS
  Tasks = {1}
  Loop = loop
  Inline = {inline}
  Me = me
  Other = other
  NoWorker = NoWorker
  EpochBound = 3
  Rows = {h1, h2}
  lock_timeout = 12
  renew_interval = 4
  budget = 4
  POOL_FALLBACK_WAIT = 1
  LastGap = 1
  Records = 2
  Runs = {p1, p2}
  Operator = operator
  Keys = {1, 2, 3}
  Cutoff = 4
  batch_size = 2
  ATTEMPTS = 2
  MaxFailures = 2
  SEARCH_DAYS = 3294
INVARIANTS ReturnedClaimsAreKnown RenewalKeepsTheLeases
PROPERTIES LooksReleaseTheOrphans PruningTakesWhatItMay WalksFindTheTick
CHECK_DEADLOCK FALSE
