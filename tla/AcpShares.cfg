SPECIFICATION RuntimesSpec
CONSTANTS
  lA = lA
  lB = lB
  lC = lC
  t1 = t1
  t2 = t2
  t3 = t3
  s1 = s1
  s2 = s2
  NoJob = NoJob
  Lanes <- MCLanes
  Size = 1
  MaxConcurrency = 2
  MaxClaims = 3
  Selections <- MCSelections
  Default = s1
  MaxClients = 2
  Turns <- MCTurns
  Fingerprints = {s1, s2}
  Choices <- MCChoices
  MaxServers = 2
  MaxOut = 2
  Boxes = {t1, t2}
  Pieces = 4
  Tools = {1, 2}
  MaxSessions = 2
  MaxUnread = 1
  Conversations <- MCConversations
  MaxTurns = 6
INVARIANTS
  OneTurnPerHarness
CHECK_DEADLOCK FALSE
