SPECIFICATION Spec
CONSTANTS
  p1 = p1
  p2 = p2
  p3 = p3
  Versions <- MCVersions
  Sound <- MCSound
  Package = 1
  Linked = {0}
  Requests = {3}
  Published = {1, 2}
  Pids <- MCPids
  HeldOpen = FALSE
  Spare = 0
  Faults = {"crash", "term", "signal", "offline", "disk", "die", "restart"}
SYMMETRY MCSymmetry
INVARIANTS
  OneWatched
  Restartable
PROPERTIES
  NeverBackwards
CHECK_DEADLOCK FALSE
