SPECIFICATION FairSpec
CONSTANTS
  r1 = r1
  r2 = r2
  j1 = j1
  j2 = j2
  allow = allow
  deny = deny
  Nothing = Nothing
  Denial = Denial
  Reqs <- MCReqs
  Jobs <- MCJobs
  ReqJob <- MCReqJob
  Decisions <- MCDecisions
  MaxFlight = 2
INVARIANTS
  ReleasedAsCommitted
  NoForlornPark
  CancelledCallsStayDenied
PROPERTIES
  OutageIsBounded
CHECK_DEADLOCK FALSE
