SPECIFICATION FairDaemon
CONSTANTS
  n1 = n1
  n2 = n2
  n3 = n3
  Jobs = {n1, n2, n3}
  Setups <- MCSetups
  Room = 1
  MaxSockets = 3
  j1 = j1
  j2 = j2
  j3 = j3
  j4 = j4
  lA = lA
  lB = lB
  lC = lC
  k1 = k1
  k2 = k2
  w1 = w1
  NoKey = NoKey
  NoJob = NoJob
  Deliveries <- MCDeliveries
  Lanes <- MCLanes
  Keys <- MCKeys
  Waiters <- MCWaiters
  JobKey <- MCJobKey
  JobLane <- MCJobLane
  MaxConcurrency = 2
INVARIANTS
  RunningCounts
  NoDuplicateLiveKey
  OneHeartbeat
PROPERTIES
  CancelIsFinal
  EveryIdlerWakes
  LaneServed
  KeepsLedger
  ComesOnline
  OneShotLeaves
CHECK_DEADLOCK FALSE
