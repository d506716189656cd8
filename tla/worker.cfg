SPECIFICATION Spec
CONSTANTS
  a = a
  b = b
  c = c
  t1 = t1
  t2 = t2
  Threads = {t1, t2}
  Tasks = {a, b, c}
  FollowUp = c
  Modes <- SampleModes
  None = None
INVARIANT TimeoutsStayInTheirAttempt
PROPERTIES RunsEndOverNoWork StuckThreadsCannotHoldTheProcess
CHECK_DEADLOCK FALSE
