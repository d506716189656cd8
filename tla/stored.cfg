SPECIFICATION FairSpec
CONSTANTS
  w1 = w1
  w2 = w2
  Workers = {w1, w2}
  Crews <- Alone
  MaxEvents <- Bounds
  Timings = {"each", "second"}
  TicksOf <- SampleTicks
  Deadlines = {None, 0}
  LastClock = 2
  None = None
INVARIANT CacheFollowsTheMarker
PROPERTIES HealsAnswerRawWrites TicksFireAsTheRowAsks StoredTicksAreRecorded
CHECK_DEADLOCK FALSE
