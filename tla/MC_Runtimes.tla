---------------------------- MODULE MC_Runtimes ----------------------------
(* Two conversations on the one session slot of a daemon that was given no *)
(* option; three turns on a Claude session, and three on a Codex session,  *)
(* all alike or the last with other options; three conversations on two    *)
(* slots.                                                                  *)
EXTENDS Runtimes, TLC

CONSTANTS lA, lB, lC, t1, t2, t3, s1, s2

MCLanes == {lA, lB}
MCConversations == {lA, lB, lC}
MCTurns == {t1, t2, t3}
MCChoices == {t1 :> s1 @@ t2 :> s1 @@ t3 :> s : s \in {s1, s2}}
MCSelections == {s1, s2}
=============================================================================
