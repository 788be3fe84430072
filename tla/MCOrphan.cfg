SPECIFICATION SafetySpec
CONSTANTS
  c1 = c1
  c2 = c2
  v1 = v1
  Callers <- MCCallers
  Viewers <- MCViewers
  MaxStarts = 2
INVARIANTS
  AllClientsClosed
CHECK_DEADLOCK FALSE
