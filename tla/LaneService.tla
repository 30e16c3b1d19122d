---------------------------- MODULE LaneService ----------------------------
(***************************************************************************)
(* What the work queue of a daemon promises to the conversations it        *)
(* serves, with nothing said about Maps, microtasks or abort signals.      *)
(*                                                                         *)
(* A conversation is a lane.  A job that is accepted waits its turn in its *)
(* lane, runs at most once and is over.  Two jobs of one lane never run    *)
(* together, a lane serves its jobs in the order they were accepted, and   *)
(* at most MaxConcurrency lanes are served at once.  A waiting job may     *)
(* also be withdrawn without ever running.                                 *)
(***************************************************************************)
EXTENDS Naturals, FiniteSets

CONSTANTS Jobs, Lanes, JobLane, MaxConcurrency

VARIABLES st,     \* what has become of a job
          rank    \* the order of acceptance, 0 before it

absVars == <<st, rank>>

AbsStates == {"unseen", "refused", "waiting", "running", "over"}

(* The moves of one job.  "unseen" to "running" is a job that starts at    *)
(* once, "waiting" to "over" one that is withdrawn.                        *)
LegalMoves ==
  {<<s, s>> : s \in AbsStates}
    \cup {<<"unseen", "refused">>, <<"unseen", "waiting">>, <<"unseen", "running">>,
          <<"waiting", "running">>, <<"waiting", "over">>, <<"running", "over">>}

Served(s) == {j \in Jobs : s[j] = "running"}

OneTurnPerLane(s) ==
  \A i, j \in Served(s) : JobLane[i] = JobLane[j] => i = j

WithinCap(s) == Cardinality({JobLane[j] : j \in Served(s)}) <= MaxConcurrency

AbsInit ==
  /\ st = [j \in Jobs |-> "unseen"]
  /\ rank = [j \in Jobs |-> 0]

(* A newly accepted job is ranked behind every job accepted before it.     *)
Ranked ==
  \A j \in Jobs :
    IF st[j] = "unseen" /\ st'[j] \in {"waiting", "running"}
    THEN \A i \in Jobs : rank[i] < rank'[j]
    ELSE rank'[j] = rank[j]

(* A job that begins leaves no earlier job of its lane behind.             *)
InTurn ==
  \A i, j \in Jobs :
    (/\ JobLane[i] = JobLane[j]
     /\ st[j] # "running" /\ st'[j] = "running"
     /\ st'[i] = "waiting")
    => rank'[j] < rank'[i]

AbsNext ==
  /\ \A j \in Jobs : <<st[j], st'[j]>> \in LegalMoves
  /\ Ranked
  /\ InTurn
  /\ OneTurnPerLane(st')
  /\ WithinCap(st')

AbsSpec == AbsInit /\ [][AbsNext]_absVars
=============================================================================
