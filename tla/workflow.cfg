SPECIFICATION Spec
CONSTANTS
  a = a
  b = b
  c = c
  Nodes = {a, b, c}
  Graphs <- AllGraphs
  Engines = {"current", "refuses"}
  MaxMishaps <- Bounds
  None = None
INVARIANTS RecordsProveTheSuccesses
PROPERTIES NoNodeRunsEarly OnlyDoomedNodesAreCancelled CompletesOverNothingPending SealedWorkflowsComplete
CHECK_DEADLOCK FALSE
