---------------------------- MODULE ResultLedger ----------------------------
(***************************************************************************)
(* What the daemon promises about the answer of a turn the hub gave it.    *)
(* The answer is owed until the turn ends, held while there is no          *)
(* connection, sent once, and heard by the hub at most once.  It is lost   *)
(* in three ways only: with the connection that carried it, because more   *)
(* than Room answers are held, or with the process.                        *)
(***************************************************************************)
EXTENDS Naturals, FiniteSets

CONSTANTS Jobs,
          Room    \* a positive number

VARIABLE fate

Fates == {"none", "owed", "withdrawn", "held", "sent", "heard", "lost"}

In(f) == {j \in Jobs : fate[j] = f}

LedgerInit == fate = [j \in Jobs |-> "none"]

Moved(S, f) == [j \in Jobs |-> IF j \in S THEN f ELSE fate[j]]

Owe(j) == fate[j] = "none" /\ fate' = [fate EXCEPT ![j] = "owed"]

(* The hub takes the turn back before it started.                          *)
Withdraw(j) == fate[j] = "owed" /\ fate' = [fate EXCEPT ![j] = "withdrawn"]

SettleSent(j) == fate[j] = "owed" /\ fate' = [fate EXCEPT ![j] = "sent"]

SettleHeld(j) ==
  /\ fate[j] = "owed"
  /\ \/ Cardinality(In("held")) < Room /\ fate' = [fate EXCEPT ![j] = "held"]
     \/ /\ Cardinality(In("held")) >= Room
        /\ \E k \in In("held") : fate' = [fate EXCEPT ![j] = "held", ![k] = "lost"]

Resend == fate' = Moved(In("held"), "sent")

Hear(j) == fate[j] = "sent" /\ fate' = [fate EXCEPT ![j] = "heard"]

Break == fate' = Moved(In("sent"), "lost")

End == fate' = Moved(In("held") \cup In("owed") \cup In("sent"), "lost")

LedgerNext ==
  \/ \E j \in Jobs : Owe(j) \/ Withdraw(j) \/ SettleSent(j) \/ SettleHeld(j) \/ Hear(j)
  \/ Resend \/ Break \/ End

Ledger == LedgerInit /\ [][LedgerNext]_fate
=============================================================================
