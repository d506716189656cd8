SPECIFICATION Spec
CONSTANTS
  Callers = {c1, c2}
  Ambient = {c1}
  Tasks = {t1, t2}
  Engines <- AllEngines
  MAX_UNIQUE_ATTEMPTS = 2
  None = None
  Unnamed = Unnamed
  Same = Same
SYMMETRY Symmetry
INVARIANTS KeyIsThePendingTask CallsAreNotHeldUp
CHECK_DEADLOCK FALSE
