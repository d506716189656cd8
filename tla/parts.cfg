SPECIFICATION PartSpec
CONSTANTS
  Callers = {c1, c2}
  Ambient = {c1}
  Reconcilers = {r1, r2}
  Tasks = {t1, t2}
  Engines = {"current", "stale", "manual", "refuses"}
  MAX_SERIALIZATION_ATTEMPTS = 2
  MaxMishaps <- Mishaps
  None = None
  Workers = {w1, w2}
  Configurations = {{"rate"}, {"running"}}
  Concurrency = 2
  Limit = 1
  MaxRunning = 1
  Tries = 2
  MAX_COUNT_FAILURES = 1
  SkipLocked = FALSE
  Skew = 1
  MaxFailures = 0
  LastWindow = 2
  MaxErrors = 2
  MaxDeaths = 1
  Ticks = {0, 1, 2}
  LastClock = 2
  LastEpoch = 2
  OUTCOME_ATTEMPTS = 2
  Delays = 2
  MaxFaults = 3
  ScanFlow = 1
  ScanRows <- OneOfEach
  RoundFlow = 2
  RoundRows = {}
  Visitors = {v1, v2}
  BACKSTOP_PAGE = 1
  VISIT_PAGES = 3
  MaxCrashes = 1
SYMMETRY Symmetry
INVARIANTS BatchTellsTheTruthHere LimitsAreOvershotAsPromised OutcomesAreToldTruly BackstopReachesEveryRow
PROPERTIES CompletionIsEarnedHere KeepsItsPromise
CHECK_DEADLOCK FALSE
