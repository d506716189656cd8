SPECIFICATION Spec
CONSTANTS
  Processes = 2
  RestartCap = 1
  Stubborn = {0}
  MaxEvents = 2
  MaxFaults = 2
INVARIANTS LeavesNoChildBehind AnOrderlyStopIsNoFailure FilesSpeakForTheirSlot
PROPERTIES SlotsAndStopsAreServed
CHECK_DEADLOCK FALSE
