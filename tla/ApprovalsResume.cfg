SPECIFICATION Spec
CONSTANTS
  r1 = r1
  r2 = r2
  j1 = j1
  j2 = j2
  allow = allow
  deny = deny
  Nothing = Nothing
  Denial = Denial
  Reqs <- OneReq
  Jobs <- OneJob
  ReqJob <- OneReqJob
  Decisions <- MCDecisions
  MaxFlight = 2
PROPERTIES
  ResumeDeniesOnlyLost
CHECK_DEADLOCK FALSE
