SPECIFICATION FairSpec
CONSTANTS
  p1 = p1
  p2 = p2
  p3 = p3
  Versions <- MCVersions
  Sound <- MCSound
  Package = 1
  Linked = {0, 2}
  Requests = {2, 3}
  Published = {2}
  Pids <- MCPids
  HeldOpen = TRUE
  Spare = 2
  Faults = {"die", "turns"}
PROPERTIES
  UpdateDecides
  DaemonComesBack
  KeepsUp
CHECK_DEADLOCK FALSE
