----------------------------- MODULE MC_Daemon -----------------------------
(* The link of a daemon that stays, with two turns of the hub, and of a    *)
(* one-shot that is asked for anything.                                    *)
(* The queue with four deliveries on three lanes and two slots: the re-ask *)
(* of a key on another lane, two jobs that wait in one lane while the      *)
(* others hold the slots, and a job without a key.                         *)
EXTENDS Daemon, TLC

CONSTANTS n1, n2, n3, j1, j2, j3, j4, lA, lB, lC, k1, k2, w1

MCSetups ==
  {[once |-> FALSE, kind |-> n1 :> "hub" @@ n2 :> "hub" @@ n3 :> "absent"],
   [once |-> TRUE, kind |-> n1 :> "hub" @@ n2 :> "peer" @@ n3 :> "absent"],
   [once |-> TRUE, kind |-> n1 :> "peer" @@ n2 :> "refused" @@ n3 :> "unwired"]}

MCDeliveries == {j1, j2, j3, j4}
MCLanes == {lA, lB, lC}
MCKeys == {k1, k2}
MCWaiters == {w1}

MCJobKey == j1 :> k1 @@ j2 :> k2 @@ j3 :> k1 @@ j4 :> NoKey

MCJobLane == j1 :> lA @@ j2 :> lA @@ j3 :> lB @@ j4 :> lC
=============================================================================
