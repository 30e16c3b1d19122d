---------------------------- MODULE MC_Approvals ----------------------------
(* Two calls of two jobs and two answers.                                  *)
EXTENDS Approvals, TLC

CONSTANTS r1, r2, j1, j2, allow, deny

MCReqs == {r1, r2}
MCJobs == {j1, j2}
MCReqJob == r1 :> j1 @@ r2 :> j2
MCDecisions == {allow, deny}

(* One call, for the outage and the reconnect.                             *)
OneReq == {r1}
OneJob == {j1}
OneReqJob == r1 :> j1
=============================================================================
