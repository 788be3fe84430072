SPECIFICATION Spec
CONSTANTS
  c1 = c1
  c2 = c2
  v1 = v1
  Callers <- MCCallers
  Viewers <- MCViewers
  MaxStarts = 2
INVARIANTS
  OwnGeneration
PROPERTIES
  StopMeansStopped
  GenerationsEnd
CHECK_DEADLOCK FALSE
