SPECIFICATION FairSpec
CONSTANTS
  p1 = p1
  p2 = p2
  p3 = p3
  Versions <- MCVersions
  Sound <- MCSound
  Package = 1
  Linked = {0}
  Requests = {2}
  Published = {}
  Pids <- MCPids
  HeldOpen = TRUE
  Spare = 1
  Faults = {"die"}
PROPERTIES
  ChildComesBack
CHECK_DEADLOCK FALSE
