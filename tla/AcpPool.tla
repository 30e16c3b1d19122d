------------------------------ MODULE AcpPool ------------------------------
(***************************************************************************)
(* Turns over an ACP harness (packages/agensis-cli/src/acp/executor.mjs    *)
(* and client.mjs), each on the slot its conversation was given            *)
(* (SessionSlots), with the cold process a turn falls back to: the coding  *)
(* command (cli.mjs) or the harness's own headless mode (acp/direct.mjs).  *)
(* Nothing serialises turns here: two that are given one slot, as the      *)
(* default of one slot gives it to all, use one harness at the same time.  *)
(*                                                                         *)
(* One agent, so one silo and one harness id.  A harness is a child        *)
(* process and external: it answers, refuses, is silent, or exits at any   *)
(* time.  Delays are left out: a timer that is armed may fire.             *)
(***************************************************************************)
EXTENDS SessionSlots

CONSTANTS
  Selections,   \* model, permission mode and tools: what a session is built with
  Default,      \* those of the configuration
  MaxClients    \* bound: harnesses that live or that something refers to

ASSUME AcpAssumption == Default \in Selections /\ MaxClients \in Nat \ {0}

Clients == 1..MaxClients
None == 0

HANDSHAKE_STRIKES_BEFORE_GIVING_UP == 3

VARIABLES
  at,           \* of a lane: "idle", "opening", "prompting", "classic", "over"
  wants,        \* the selection of its turn
  uses,         \* its entry: a client or None
  aborted,      \* lanes whose turn's signal is aborted
  heeds,        \* lanes whose turn's abort listener is attached
  harness,      \* what became of a client, and the key it was opened for
  pool,         \* sessionPool
  warming,      \* clients in the handshake of a prewarm
  contended,    \* history: keys that two turns, or a turn and a prewarm, had at once
  strikes,      \* handshakeStrikes
  unavailable,  \* acpUnavailable has the harness
  fallback,     \* what is run without ACP: "cli" or "direct"
  cold          \* the process of a turn on it: "none", "live", "termed", "killed"

turnVars == <<at, wants, uses, aborted, heeds, cold>>
poolVars == <<harness, pool, warming, contended, strikes, unavailable>>
acpVars == <<vars, turnVars, poolVars, fallback>>

(* acpPoolKey(): the slot and the selection of the session.                *)
Keys == Slots \X Selections

(* Mutant: the key leaves the selection out.                               *)
KeyWithoutSelection(l) == <<held[l], Default>>

Key(l) == <<held[l], wants[l]>>

WarmKey == <<0, Default>>

(* Closed: exited, or told to end.                                         *)
Closed == [state |-> "closed", home |-> WarmKey]

AcpTypeOK ==
  /\ at \in [Lanes -> {"idle", "opening", "prompting", "classic", "over"}]
  /\ wants \in [Lanes -> Selections]
  /\ uses \in [Lanes -> Clients \cup {None}]
  /\ aborted \subseteq Lanes /\ heeds \subseteq Lanes
  /\ harness \in [Clients -> [state : {"starting", "ready", "closed"}, home : Keys]]
  /\ pool \in [Keys -> Clients \cup {None}]
  /\ warming \subseteq Clients /\ contended \subseteq Keys
  /\ strikes \in 0..HANDSHAKE_STRIKES_BEFORE_GIVING_UP
  /\ unavailable \in BOOLEAN
  /\ fallback \in {"cli", "direct"}
  /\ cold \in [Lanes -> {"none", "live", "termed", "killed"}]

AcpInit ==
  /\ Init
  /\ at = [l \in Lanes |-> "idle"] /\ wants = [l \in Lanes |-> Default]
  /\ uses = [l \in Lanes |-> None] /\ aborted = {} /\ heeds = {}
  /\ harness = [c \in Clients |-> Closed] /\ pool = [k \in Keys |-> None]
  /\ warming = {} /\ contended = {} /\ strikes = 0 /\ unavailable = FALSE
  /\ fallback \in {"cli", "direct"}
  /\ cold = [l \in Lanes |-> "none"]

Pooled == {pool[k] : k \in Keys} \ {None}
Used == {uses[l] : l \in Lanes} \ {None}
Spare == {c \in Clients : harness[c] = Closed} \ (Pooled \cup Used \cup warming)

Warm(k) == pool[k] # None /\ harness[pool[k]].state # "closed"

(* Turns that have a harness of a key, or are opening one.                 *)
Tenant(l) == at[l] \in {"opening", "prompting"}

(* A turn or a prewarm that asks for k meets another.                      *)
Taken(k) == (\E l \in Lanes : Tenant(l) /\ Key(l) = k) \/ (k = WarmKey /\ warming # {})

Meets(k) == contended' = IF Taken(k) THEN contended \cup {k} ELSE contended

-----------------------------------------------------------------------------
(* addEventListener() on a signal that is aborted already is never called. *)
Listens(l) == heeds' = IF l \in aborted' THEN heeds \ {l} ELSE heeds \cup {l}

TurnTo(l, stage, c) ==
  /\ at' = [at EXCEPT ![l] = stage]
  /\ uses' = [uses EXCEPT ![l] = c]

(* run() has returned; the finally of the turn is still to come.           *)
Over(l) ==
  /\ TurnTo(l, "over", None)
  /\ heeds' = heeds \ {l}
  /\ cold' = [cold EXCEPT ![l] = "none"]

(* The fallback.  The coding command is not started for a cancelled turn;  *)
(* the headless mode is, and does not hear of the cancellation.            *)
GoesCold(l) ==
  IF fallback = "cli" /\ l \in aborted'
  THEN Over(l)
  ELSE TurnTo(l, "classic", None) /\ Listens(l) /\ cold' = [cold EXCEPT ![l] = "live"]

(* openAcpSession() up to its first await.                                 *)
Opens(c, key) ==
  /\ c \in Spare /\ \A d \in Spare : c <= d
  /\ harness' = [harness EXCEPT ![c] = [state |-> "starting", home |-> key]]

BeginCold(l) ==
  /\ unavailable
  /\ GoesCold(l)
  /\ UNCHANGED <<harness, pool>>

BeginWarm(l) ==
  /\ ~ unavailable /\ Warm(Key(l)')
  /\ TurnTo(l, "prompting", pool[Key(l)'])
  /\ Listens(l)
  /\ UNCHANGED <<harness, pool, cold>>

(* A pooled client that is closed is forgotten; the new one of a cancelled *)
(* turn is told to end at once.                                            *)
BeginOpening(l) ==
  /\ ~ unavailable /\ ~ Warm(Key(l)')
  /\ pool' = [pool EXCEPT ![Key(l)'] = None]
  /\ IF l \in aborted'
     THEN Over(l) /\ UNCHANGED harness
     ELSE /\ \E c \in Clients : Opens(c, Key(l)') /\ TurnTo(l, "opening", c)
          /\ UNCHANGED <<heeds, cold>>

(* The turn of a lane, from its claim to the first await of run().  It may *)
(* have been cancelled while its prompt was built.                         *)
Begin(l) ==
  /\ at[l] = "idle" /\ Claim(l)
  /\ \E s \in Selections : wants' = [wants EXCEPT ![l] = s]
  /\ aborted' \in {aborted, aborted \cup {l}}
  /\ BeginCold(l) \/ BeginWarm(l) \/ BeginOpening(l)
  /\ Meets(Key(l)')
  /\ UNCHANGED <<warming, strikes, unavailable, fallback>>

-----------------------------------------------------------------------------
(* The handshake of a turn: initialize and session/new were answered.      *)
HandshakeDone(l) ==
  /\ at[l] = "opening" /\ harness[uses[l]].state = "starting"
  /\ harness' = [harness EXCEPT ![uses[l]].state = "ready"]
  /\ pool' = [pool EXCEPT ![Key(l)] = uses[l]]
  /\ strikes' = 0
  /\ at' = [at EXCEPT ![l] = "prompting"]
  /\ UNCHANGED aborted /\ Listens(l)
  /\ UNCHANGED <<vars, wants, uses, cold, warming, contended, unavailable, fallback>>

(* The end of a turn that failed, by the text of its error.                *)
FailsAsSlow(l) ==
  /\ strikes' = IF strikes < HANDSHAKE_STRIKES_BEFORE_GIVING_UP THEN strikes + 1 ELSE strikes
  /\ unavailable' = (unavailable \/ strikes + 1 >= HANDSHAKE_STRIKES_BEFORE_GIVING_UP)
  /\ GoesCold(l)

FailsAsBroken(l) ==
  /\ unavailable' = TRUE
  /\ GoesCold(l)
  /\ UNCHANGED strikes

FailsOtherwise(l) == Over(l) /\ UNCHANGED <<strikes, unavailable>>

Fails(l) ==
  /\ UNCHANGED <<vars, wants, aborted, warming, contended, fallback>>
  /\ FailsAsSlow(l) \/ FailsAsBroken(l) \/ FailsOtherwise(l)

(* Mutant: the harness that did not come up is left to itself.             *)
HandshakeFailsLeaking(l) ==
  /\ at[l] = "opening"
  /\ Fails(l)
  /\ UNCHANGED <<harness, pool>>

(* Mutant: nothing bounds the handshake.                                   *)
HandshakeFailsOnExit(l) ==
  /\ at[l] = "opening" /\ harness[uses[l]].state = "closed"
  /\ Fails(l)
  /\ UNCHANGED <<harness, pool>>

(* ... one of them failed, or ran out of its budget.                       *)
HandshakeFails(l) ==
  /\ at[l] = "opening"
  /\ harness' = [harness EXCEPT ![uses[l]] = Closed]
  /\ Fails(l)
  /\ UNCHANGED pool

PromptReturns(l) ==
  /\ at[l] = "prompting" /\ harness[uses[l]].state = "ready"
  /\ Over(l)
  /\ UNCHANGED <<vars, wants, aborted, poolVars, fallback>>

(* The prompt failed, or its connection was closed: the turn ends its      *)
(* client, and drops the pool's entry of its key, whatever it is by now.   *)
PromptFails(l) ==
  /\ at[l] = "prompting"
  /\ harness' = [harness EXCEPT ![uses[l]] = Closed]
  /\ pool' = [pool EXCEPT ![Key(l)] = None]
  /\ Fails(l)

HarnessExits(c) ==
  /\ harness[c].state # "closed"
  /\ harness' = [harness EXCEPT ![c] = Closed]
  /\ UNCHANGED <<vars, turnVars, pool, warming, contended, strikes, unavailable, fallback>>

(* The signal of a turn.  A harness is asked to cancel, a process is told  *)
(* to end.                                                                 *)
Cancels(l) ==
  /\ at[l] \notin {"idle", "over"} /\ l \notin aborted
  /\ aborted' = aborted \cup {l} /\ heeds' = heeds \ {l}
  /\ cold' = IF at[l] = "classic" /\ l \in heeds THEN [cold EXCEPT ![l] = "termed"] ELSE cold
  /\ UNCHANGED <<vars, at, wants, uses, poolVars, fallback>>

-----------------------------------------------------------------------------
(* runCli(): SIGKILL, after the grace of a cancelled turn or when its time *)
(* is up.  The headless mode has neither.                                  *)
ColdIsKilled(l) ==
  /\ at[l] = "classic" /\ fallback = "cli" /\ cold[l] # "killed"
  /\ cold' = [cold EXCEPT ![l] = "killed"]
  /\ UNCHANGED <<vars, at, wants, uses, aborted, heeds, poolVars, fallback>>

ColdCloses(l) ==
  /\ at[l] = "classic"
  /\ Over(l)
  /\ UNCHANGED <<vars, wants, aborted, poolVars, fallback>>

(* The finally of the turn.                                                *)
TurnEnds(l) ==
  /\ at[l] = "over"
  /\ Release(l)
  /\ at' = [at EXCEPT ![l] = "idle"] /\ wants' = [wants EXCEPT ![l] = Default]
  /\ aborted' = aborted \ {l}
  /\ UNCHANGED <<uses, heeds, cold, poolVars, fallback>>

-----------------------------------------------------------------------------
(* prewarmAcpSession(), at every registration with the hub.                *)
Prewarm ==
  /\ ~ unavailable /\ pool[WarmKey] = None
  /\ \E c \in Clients : Opens(c, WarmKey) /\ warming' = warming \cup {c}
  /\ Meets(WarmKey)
  /\ UNCHANGED <<vars, turnVars, pool, strikes, unavailable, fallback>>

(* Mutant: the session it replaces is ended, turn or no turn.              *)
PrewarmDoneEnding(c) ==
  /\ c \in warming /\ harness[c].state = "starting"
  /\ harness' = [d \in Clients |-> IF d = c THEN [harness[c] EXCEPT !.state = "ready"]
                                   ELSE IF d = pool[WarmKey] THEN Closed ELSE harness[d]]
  /\ warming' = warming \ {c}
  /\ pool' = [pool EXCEPT ![WarmKey] = c]
  /\ strikes' = 0
  /\ UNCHANGED <<vars, turnVars, contended, unavailable, fallback>>

(* A session that was pooled meanwhile is overwritten.                     *)
PrewarmDone(c) ==
  /\ c \in warming /\ harness[c].state = "starting"
  /\ harness' = [harness EXCEPT ![c].state = "ready"]
  /\ warming' = warming \ {c}
  /\ pool' = [pool EXCEPT ![WarmKey] = c]
  /\ strikes' = 0
  /\ UNCHANGED <<vars, turnVars, contended, unavailable, fallback>>

PrewarmFails(c) ==
  /\ c \in warming
  /\ harness' = [harness EXCEPT ![c] = Closed]
  /\ warming' = warming \ {c}
  /\ UNCHANGED <<vars, turnVars, pool, contended, strikes, unavailable, fallback>>

AcpNext ==
  \/ \E l \in Lanes :
       \/ Begin(l) \/ HandshakeDone(l) \/ HandshakeFails(l) \/ PromptReturns(l) \/ PromptFails(l)
       \/ Cancels(l) \/ ColdIsKilled(l) \/ ColdCloses(l) \/ TurnEnds(l)
  \/ Prewarm
  \/ \E c \in Clients : HarnessExits(c) \/ PrewarmDone(c) \/ PrewarmFails(c)

AcpSpec == AcpInit /\ [][AcpNext]_acpVars

(* The timers of the handshake and of the coding command, whichever a turn *)
(* has armed; a process that is killed goes.  Nothing is asked of a        *)
(* harness.                                                                *)
AcpFairness ==
  \A l \in Lanes :
    WF_acpVars(HandshakeFails(l) \/ ColdIsKilled(l) \/ (cold[l] = "killed" /\ ColdCloses(l)))

-----------------------------------------------------------------------------
(* "Tools, permission mode, AND model are fixed at process/session start": *)
(* a turn never has a harness built for another conversation's slot or for *)
(* a previous selection, whichever turns and prewarms opened, overwrote    *)
(* and dropped entries of the pool meanwhile (acp/executor.mjs:257-260).   *)
OwnHarness ==
  \A l \in Lanes :
    (uses[l] # None /\ harness[uses[l]].state # "closed")
      => harness[uses[l]].home = <<held[l], wants[l]>>

(* A harness is reached through the pool, by its turn or by its prewarm,   *)
(* so that it is found again and can be ended, unless two that wanted one  *)
(* key met: then the second to open overwrites the first, and the second   *)
(* to fail drops what came after the first (acp/executor.mjs:293,          *)
(* 324-327).                                                               *)
NoStrayHarness ==
  \A c \in Clients :
    (harness[c].state # "closed" /\ harness[c].home \notin contended)
      => c \in Pooled \cup Used \cup warming

(* A harness does not end under a turn that prompts it, unless it exits by *)
(* itself or another turn that prompts it fails: no prewarm, no handshake  *)
(* and no turn of another slot or selection takes it away.                 *)
TurnKeepsItsHarness ==
  [][\A l \in Lanes :
       (/\ at[l] = "prompting" /\ at'[l] = "prompting"
        /\ harness[uses[l]].state = "ready" /\ harness'[uses[l]].state = "closed")
         => \/ HarnessExits(uses[l])
            \/ \E m \in Lanes \ {l} :
                 Key(m) = Key(l) /\ at[m] = "prompting" /\ at'[m] # "prompting"]_acpVars

(* "Two jobs must never race one connection" (sessionSlots.mjs:11), and    *)
(* jobs that land on one session are serialised (:55-57).                  *)
OneTurnPerHarness ==
  \A l, m \in Lanes : (at[l] = "prompting" /\ at[m] = "prompting" /\ uses[l] = uses[m]) => l = m

Waits(l) == at[l] = "opening" \/ (at[l] = "classic" /\ fallback = "cli")

(* A turn does not wait for a handshake for ever, nor for the coding       *)
(* command, whatever these do (acp/executor.mjs:157-165, cli.mjs:184-204). *)
WaitsEnd == \A l \in Lanes : []<>(~ Waits(l))
=============================================================================
