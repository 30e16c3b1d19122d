SPECIFICATION Spec
CONSTANTS
  t1 = t1
  t2 = t2
  t3 = t3
  NoJob = NoJob
  Jobs <- FewJobs
  MaxSessions = 2
  MaxOut = 1
INVARIANTS
  CancelIsHeard
CHECK_DEADLOCK FALSE
