------------------------------- MODULE Daemon -------------------------------
(***************************************************************************)
(* What every agent daemon has (runAgensisDaemon() of                      *)
(* packages/agensis-cli/src/agensis.mjs): the link to the hub, HubLink,    *)
(* and the work queue, JobQueue.  They are checked one at a time: HubLink  *)
(* keeps of a turn its begin and end, JobQueue knows no hub.               *)
(***************************************************************************)
EXTENDS HubLink, JobQueue

VARIABLE part   \* "link" or "queue"

daemonVars == <<part, vars, queueVars>>

DaemonInit ==
  /\ part \in {"link", "queue"}
  /\ IF part = "link" THEN Init ELSE Start /\ process = "stopped" /\ setup = CHOOSE s \in Setups : TRUE
  /\ QueueInit

Links == part = "link" /\ Next /\ UNCHANGED queueVars

Queues == part = "queue" /\ QueueNext /\ UNCHANGED vars

DaemonNext == (Links \/ Queues) /\ UNCHANGED part

DaemonSpec == DaemonInit /\ [][DaemonNext]_daemonVars

FairDaemon == DaemonSpec /\ Fairness /\ QueueFairness
=============================================================================
