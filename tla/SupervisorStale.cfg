SPECIFICATION FairSpec
CONSTANTS
  p1 = p1
  p2 = p2
  p3 = p3
  Versions <- MCVersions
  Sound <- MCSound
  Package = 1
  Linked = {0}
  Requests = {1}
  Published = {2}
  Pids <- MCPids
  HeldOpen = TRUE
  Spare = 1
  Faults = {}
PROPERTIES
  KeepsUp
CHECK_DEADLOCK FALSE
