----------------------------- MODULE CodexPool -----------------------------
(***************************************************************************)
(* The warm connection to Codex: createCodexAppServerExecutor over its     *)
(* JSON-RPC client (packages/agensis-cli/src/connectionExecutors.mjs), and *)
(* PrimaryExecutor around it (src/executor.mjs).                           *)
(*                                                                         *)
(* One session key: keys share nothing.  An app-server is a child process. *)
(* It is external: it takes a turn, answers the request, says that the     *)
(* turn began, what it produced and that it is done, or it stops anywhere. *)
(* Approvals are parked in the broker (Approvals) and left out.  Delays    *)
(* are left out: a timer that is armed may fire.                           *)
(***************************************************************************)
EXTENDS Integers, Sequences, FiniteSets

CONSTANTS
  Turns,
  Fingerprints, \* of the options a session is built from
  Choices,      \* which turn comes with which options
  MaxServers,   \* bound: app-servers spawned
  MaxOut        \* bound: messages of an app-server that are not yet read

ASSUME CodexAssumption ==
  /\ Choices \subseteq [Turns -> Fingerprints] /\ Choices # {}
  /\ MaxServers \in Nat \ {0} /\ MaxOut \in Nat \ {0}

Servers == 1..MaxServers
NoServer == 0

VARIABLES
  fingerprint, \* of a turn's model, mode, tools and folders: it does not change
  stage,       \* of a turn: "new", "queued", "opening", "running", "local", "over"
  unanswered,  \* turns given up because turn/start was not answered in time
  line,        \* the turns in the keyed lock; the first holds it
  cancelled,   \* turns whose signal is aborted
  attends,     \* turns whose abort listener is attached
  pending,     \* turns whose turn/start is not settled
  knows,       \* the turn id a turn goes by, as a set: empty or one
  overheard,   \* <<t, u>>: output of u went into the answer of t
  on,          \* the app-server a turn uses
  current,     \* sessions.get(key): an app-server or NoServer
  timers,      \* sessions whose idle timer is armed
  server,      \* the app-servers (below)
  avoided      \* confirmedUnavailable has codex

codexTurnVars == <<stage, line, cancelled, attends, pending, knows, on>>
codexVars == <<fingerprint, codexTurnVars, unanswered, overheard, current, timers, server, avoided>>

(* child: "live", "termed" (sent SIGTERM, and a turn still listens), "gone"*)
(* or "none": no process, or one that was told to end and that nobody      *)
(* listens to; its number is used again.  built: the selection it was      *)
(* started with.  inbox: the turns it was asked for and has not ended.     *)
(* said: how far it is with the first of them.  out: its messages that are *)
(* not yet read.                                                           *)
Kinds == {"reply", "refusal", "started", "item", "done", "failed"}

ServerType ==
  [child : {"none", "live", "termed", "gone"}, built : SUBSET Fingerprints, inbox : Seq(Turns),
   said : {"nothing", "reply", "started"}, out : Seq([kind : Kinds, turn : Turns])]

Blank == [child |-> "none", built |-> {}, inbox |-> << >>, said |-> "nothing", out |-> << >>]

Fresh(t) == [Blank EXCEPT !.child = "live", !.built = {fingerprint[t]}]

CodexTypeOK ==
  /\ fingerprint \in Choices
  /\ stage \in [Turns -> {"new", "queued", "opening", "running", "local", "over"}]
  /\ line \in Seq(Turns)
  /\ cancelled \subseteq Turns /\ attends \subseteq Turns /\ pending \subseteq Turns
  /\ unanswered \subseteq Turns /\ overheard \subseteq Turns \X Turns
  /\ knows \in [Turns -> SUBSET Turns]
  /\ on \in [Turns -> Servers \cup {NoServer}]
  /\ current \in Servers \cup {NoServer} /\ timers \subseteq Servers
  /\ server \in [Servers -> ServerType]
  /\ avoided \in BOOLEAN

CodexInit ==
  /\ fingerprint \in Choices
  /\ stage = [t \in Turns |-> "new"]
  /\ line = << >> /\ cancelled = {} /\ attends = {} /\ pending = {}
  /\ knows = [t \in Turns |-> {}] /\ on = [t \in Turns |-> NoServer]
  /\ unanswered = {} /\ overheard = {}
  /\ current = NoServer /\ timers = {}
  /\ server = [s \in Servers |-> Blank]
  /\ avoided = FALSE

Holds(t) == line # << >> /\ Head(line) = t

(* The turn whose message handler is attached to an app-server.            *)
Hears(t, s) == stage[t] = "running" /\ on[t] = s

Alive(s) == server[s].child = "live"

-----------------------------------------------------------------------------
(* PrimaryExecutor.run(), and the way into withLock().                     *)
Calls(t) ==
  /\ stage[t] = "new" /\ ~ avoided
  /\ stage' = [stage EXCEPT ![t] = "queued"]
  /\ line' = Append(line, t)
  /\ UNCHANGED <<cancelled, attends, pending, knows, on, unanswered, overheard, current, timers, server,
                 avoided>>

CallsLocal(t) ==
  /\ stage[t] = "new" /\ avoided
  /\ stage' = [stage EXCEPT ![t] = "local"]
  /\ UNCHANGED <<line, cancelled, attends, pending, knows, on, unanswered, overheard, current, timers,
                 server, avoided>>

(* How a turn leaves the pool; the lock goes to the next.                  *)
Goes(t, next) ==
  /\ stage' = [stage EXCEPT ![t] = next]
  /\ line' = Tail(line)
  /\ cancelled' = IF next = "over" THEN cancelled \ {t} ELSE cancelled
  /\ attends' = attends \ {t} /\ pending' = pending \ {t}
  /\ knows' = [knows EXCEPT ![t] = {}] /\ on' = [on EXCEPT ![t] = NoServer]

Leaves(t) == Goes(t, "over") /\ UNCHANGED avoided

(* With an error, whose text may read like "not installed".                *)
FailsOrFallsBack(t) == Leaves(t) \/ (Goes(t, "local") /\ avoided' = TRUE)

(* The app-servers when those of S are told to end.  A turn that listens   *)
(* to one goes on listening, unless it is t, which leaves.                 *)
Ended(S, t) ==
  [s \in Servers |->
     IF s \notin S THEN server[s]
     ELSE IF \E u \in Turns \ {t} : Hears(u, s)
          THEN [server[s] EXCEPT !.child = IF @ = "live" THEN "termed" ELSE @]
          ELSE Blank]

(* Mutant: the session leaves the pool, its timer goes on.                 *)
CloseSessionNotTimer(t) ==
  /\ current' = NoServer
  /\ UNCHANGED timers
  /\ server' = Ended({current, on[t]}, t)

(* closeSession(), by turn t; a session that is no longer the pooled one   *)
(* has been told to end before.                                            *)
CloseSession(t) ==
  /\ current' = NoServer
  /\ timers' = timers \ {current}
  /\ server' = Ended({current, on[t]}, t)

(* Mutant: the timer is armed whether there is a session or not.           *)
ArmedUnchecked == timers \cup {current}

(* armIdleTimer(): of the session that is pooled, if one is.               *)
Armed == IF current = NoServer THEN timers ELSE timers \cup {current}

(* ... at the end of turn t.                                               *)
ArmIdleTimer(t) ==
  /\ timers' = Armed
  /\ server' = IF on[t] = current THEN server ELSE Ended({on[t]}, t)

Reusable(t) == current # NoServer /\ Alive(current) /\ server[current].built = {fingerprint[t]}

(* The turn attaches to its session and asks for turn/start.  A signal     *)
(* that is aborted already is not heard any more.                          *)
Attach(t, s) ==
  /\ stage' = [stage EXCEPT ![t] = "running"]
  /\ on' = [on EXCEPT ![t] = s]
  /\ attends' = IF t \in cancelled THEN attends ELSE attends \cup {t}
  /\ pending' = pending \cup {t}
  /\ server' = [server EXCEPT ![s].inbox = Append(@, t)]
  /\ current' = s
  /\ UNCHANGED <<line, cancelled, knows, unanswered, overheard, timers, avoided>>

(* Mutant: the lock stays with a turn that was cancelled behind it.        *)
EnterCancelledHolding(t) ==
  /\ stage[t] = "queued" /\ Holds(t) /\ t \in cancelled
  /\ stage' = [stage EXCEPT ![t] = "over"]
  /\ UNCHANGED <<line, cancelled, attends, pending, knows, on, unanswered, overheard, current, timers,
                 server, avoided>>

EnterCancelled(t) ==
  /\ stage[t] = "queued" /\ Holds(t) /\ t \in cancelled
  /\ Leaves(t)
  /\ UNCHANGED <<unanswered, overheard, current, timers, server>>

(* ensureSession(): the pooled session, its idle timer as it is.           *)
EnterReusing(t) ==
  /\ stage[t] = "queued" /\ Holds(t) /\ t \notin cancelled /\ Reusable(t)
  /\ Attach(t, current)

(* ... or a new one, which nothing owns during its handshake.              *)
EnterSpawning(t) ==
  /\ stage[t] = "queued" /\ Holds(t) /\ t \notin cancelled /\ ~ Reusable(t)
  /\ \E s \in Servers :
       /\ server[s].child = "none" /\ \A r \in Servers : server[r].child = "none" => s <= r
       /\ server' = [Ended({current}, t) EXCEPT ![s] = Fresh(t)]
       /\ on' = [on EXCEPT ![t] = s]
  /\ current' = NoServer /\ timers' = timers \ {current}
  /\ stage' = [stage EXCEPT ![t] = "opening"]
  /\ UNCHANGED <<line, cancelled, attends, pending, knows, unanswered, overheard, avoided>>

(* initialize and thread/start were answered.                              *)
OpeningSucceeds(t) ==
  /\ stage[t] = "opening" /\ Alive(on[t])
  /\ Attach(t, on[t])

(* Mutant: a child that did not come up is left to itself.                 *)
OpeningFailsLeaking(t) ==
  /\ stage[t] = "opening"
  /\ FailsOrFallsBack(t)
  /\ UNCHANGED <<unanswered, overheard, current, timers, server>>

(* ... or one of them failed, was not answered in time, or the child died. *)
OpeningFails(t) ==
  /\ stage[t] = "opening"
  /\ FailsOrFallsBack(t)
  /\ server' = Ended({on[t]}, t)
  /\ UNCHANGED <<unanswered, overheard, current, timers>>

-----------------------------------------------------------------------------
(* The signal of a turn is aborted before or while it listens for it.      *)
CancelsUnheard(t) ==
  /\ stage[t] \notin {"new", "over"} /\ t \notin cancelled \cup attends
  /\ cancelled' = cancelled \cup {t}
  /\ UNCHANGED <<stage, line, attends, pending, knows, on, unanswered, overheard, current, timers, server,
                 avoided>>

CancelsRun(t) ==
  /\ t \in attends
  /\ Leaves(t) /\ CloseSession(t)
  /\ UNCHANGED <<unanswered, overheard>>

(* Mutant: a deadline gives up the turn and keeps the session.             *)
DeadlineKeepingSession(t) ==
  /\ stage[t] = "running"
  /\ Leaves(t) /\ ArmIdleTimer(t)
  /\ UNCHANGED <<unanswered, overheard, current>>

(* The idle or the hard deadline of a turn.                                *)
Deadline(t) ==
  /\ stage[t] = "running"
  /\ Leaves(t) /\ CloseSession(t)
  /\ UNCHANGED <<unanswered, overheard>>

(* turn/start was not answered within requestTimeoutMs: the turn is given  *)
(* up, the session is not.                                                 *)
StartUnanswered(t) ==
  /\ stage[t] = "running" /\ t \in pending
  /\ Leaves(t) /\ ArmIdleTimer(t)
  /\ unanswered' = unanswered \cup {t}
  /\ UNCHANGED <<overheard, current>>

(* The idle timer of a session closes the pooled one: a turn may be        *)
(* running on it.                                                          *)
IdleClose(s) ==
  /\ s \in timers
  /\ current' = NoServer
  /\ timers' = timers \ {current, s}
  /\ server' = [r \in Servers |->
                  IF r # current THEN server[r]
                  ELSE IF \E u \in Turns : Hears(u, r)
                       THEN [server[r] EXCEPT !.child = IF @ = "live" THEN "termed" ELSE @]
                       ELSE Blank]
  /\ UNCHANGED <<codexTurnVars, unanswered, overheard, avoided>>

(* A child exits, by itself or by the signal; a request that it had not    *)
(* answered fails with it.                                                 *)
Dead(s) == [Blank EXCEPT !.child = "gone", !.built = server[s].built]

ChildExitsIdly(s) ==
  /\ server[s].child \in {"live", "termed"} /\ \A t \in pending : ~ Hears(t, s)
  /\ server' = [server EXCEPT ![s] = Dead(s)]
  /\ UNCHANGED <<codexTurnVars, unanswered, overheard, current, timers, avoided>>

ChildExits(s, t) ==
  /\ server[s].child \in {"live", "termed"} /\ t \in pending /\ Hears(t, s)
  /\ FailsOrFallsBack(t)
  /\ timers' = Armed
  /\ server' = [server EXCEPT ![s] = IF s = current THEN Dead(s) ELSE Blank]
  /\ UNCHANGED <<unanswered, overheard, current>>

-----------------------------------------------------------------------------
(* The app-server.  It is listened to, or will be when it is used again.   *)
MayBeHeard(s) ==
  server[s].child \in {"live", "termed"} /\ (s = current \/ \E t \in Turns : Hears(t, s))

(* What it says of a turn: an answer to turn/start, or a refusal; that it  *)
(* began; items; and that it is done, well or not.                         *)
Says(s, kind, after) ==
  /\ MayBeHeard(s) /\ server[s].inbox # << >> /\ Len(server[s].out) < MaxOut
  /\ LET ends == kind \in {"refusal", "done", "failed"}
         was == server[s]
     IN server' = [server EXCEPT ![s] =
                     [was EXCEPT
                        !.out = Append(was.out, [kind |-> kind, turn |-> Head(was.inbox)]),
                        !.inbox = IF ends THEN Tail(was.inbox) ELSE was.inbox,
                        !.said = after]]
  /\ UNCHANGED <<codexTurnVars, unanswered, overheard, current, timers, avoided>>

ServerAnswers(s) ==
  /\ server[s].said = "nothing"
  /\ Says(s, "reply", "reply") \/ Says(s, "refusal", "nothing")

ServerBegins(s) == server[s].said = "reply" /\ Says(s, "started", "started")

ServerProduces(s) == server[s].said = "started" /\ Says(s, "item", "started")

ServerEnds(s) ==
  /\ server[s].said = "started"
  /\ Says(s, "done", "nothing") \/ Says(s, "failed", "nothing")

-----------------------------------------------------------------------------
(* The stdout reader, and the message handler of a running turn.           *)
Read(s) == [server EXCEPT ![s].out = Tail(@)]

(* Reading the message leaves the turns where they are.                    *)
ReadsOn(s) ==
  /\ server' = Read(s)
  /\ UNCHANGED <<stage, line, cancelled, attends, on, timers, avoided>>

(* ... or it ends turn t, and the idle timer is armed.                     *)
ReadsLast(s, t) ==
  /\ timers' = Armed
  /\ server' = IF s = current THEN Read(s) ELSE [server EXCEPT ![s] = Blank]

(* The answer to a request that is still waited for.                       *)
ReadsReply(s, m) ==
  /\ m.kind = "reply" /\ m.turn \in pending
  /\ ReadsOn(s)
  /\ pending' = pending \ {m.turn}
  /\ knows' = [knows EXCEPT ![m.turn] = {m.turn}]
  /\ UNCHANGED overheard

ReadsRefusal(s, m) ==
  /\ m.kind = "refusal" /\ m.turn \in pending
  /\ FailsOrFallsBack(m.turn) /\ ReadsLast(s, m.turn)
  /\ UNCHANGED overheard

(* turn/started names the turn, whichever it is.                           *)
ReadsStarted(s, m, t) ==
  /\ m.kind = "started" /\ Hears(t, s)
  /\ ReadsOn(s)
  /\ knows' = [knows EXCEPT ![t] = {m.turn}]
  /\ UNCHANGED <<pending, overheard>>

(* What turn u said goes into the answer of t.                             *)
Takes(t, u) == overheard' = IF u = t THEN overheard ELSE overheard \cup {<<t, u>>}

(* An item of another turn is passed over, if its own is known.            *)
IsOurs(m, t) == knows[t] \subseteq {m.turn}

ReadsItem(s, m, t) ==
  /\ m.kind = "item" /\ Hears(t, s) /\ IsOurs(m, t)
  /\ ReadsOn(s)
  /\ Takes(t, m.turn)
  /\ UNCHANGED <<pending, knows>>

(* turn/completed has its id elsewhere and is not compared: it ends the    *)
(* turn.                                                                   *)
ReadsDone(s, m, t) ==
  /\ m.kind \in {"done", "failed"} /\ Hears(t, s)
  /\ Takes(t, m.turn)
  /\ IF m.kind = "done" THEN Leaves(t) ELSE FailsOrFallsBack(t)
  /\ ReadsLast(s, t)

(* Nobody waits for the message.                                           *)
ReadsIdly(s, m) ==
  /\ IF m.kind \in {"reply", "refusal"} THEN m.turn \notin pending
     ELSE \A t \in Turns : Hears(t, s) => (m.kind = "item" /\ ~ IsOurs(m, t))
  /\ ReadsOn(s)
  /\ UNCHANGED <<pending, knows, overheard>>

DaemonReads(s) ==
  /\ MayBeHeard(s) /\ server[s].out # << >>
  /\ LET m == Head(server[s].out) IN
       \/ ReadsReply(s, m) \/ ReadsRefusal(s, m) \/ ReadsIdly(s, m)
       \/ \E t \in Turns : ReadsStarted(s, m, t) \/ ReadsItem(s, m, t) \/ ReadsDone(s, m, t)
  /\ UNCHANGED <<unanswered, current>>

(* LocalExecutor: a process for the turn, which ends, is killed on its     *)
(* deadline, or when the turn is cancelled.                                *)
LocalEnds(t) ==
  /\ stage[t] = "local"
  /\ stage' = [stage EXCEPT ![t] = "over"]
  /\ cancelled' = cancelled \ {t}
  /\ UNCHANGED <<line, attends, pending, knows, on, unanswered, overheard, current, timers, server, avoided>>

CodexStep ==
  \/ \E t \in Turns :
       \/ Calls(t) \/ CallsLocal(t) \/ EnterCancelled(t) \/ EnterReusing(t) \/ EnterSpawning(t)
       \/ OpeningSucceeds(t) \/ OpeningFails(t) \/ LocalEnds(t)
       \/ CancelsUnheard(t) \/ CancelsRun(t) \/ Deadline(t) \/ StartUnanswered(t)
  \/ \E s \in Servers :
       \/ IdleClose(s) \/ ChildExitsIdly(s) \/ DaemonReads(s)
       \/ ServerAnswers(s) \/ ServerBegins(s) \/ ServerProduces(s) \/ ServerEnds(s)
       \/ \E t \in Turns : ChildExits(s, t)

CodexNext == CodexStep /\ UNCHANGED fingerprint

CodexSpec == CodexInit /\ [][CodexNext]_codexVars

(* The lock is handed on, requests and turns have deadlines, a process of  *)
(* a single turn too: of a turn, the one that is due.  Nothing is asked of *)
(* the app-server.                                                         *)
CodexFairness ==
  \A t \in Turns :
    LET Enters == EnterCancelled(t) \/ EnterReusing(t) \/ EnterSpawning(t)
        Moves  == Enters \/ OpeningFails(t) \/ Deadline(t) \/ LocalEnds(t)
    IN  WF_codexVars(Moves /\ UNCHANGED fingerprint)

-----------------------------------------------------------------------------
(* No app-server is left behind: one that has not been told to end is in   *)
(* the pool, or in the handshake of the turn that holds the lock           *)
(* (connectionExecutors.mjs:911-939).                                      *)
NoOrphanServer ==
  \A s \in Servers :
    Alive(s) => (s = current \/ \E t \in Turns : stage[t] = "opening" /\ on[t] = s)

(* A timer closes by key, not by session: one that outlived its session    *)
(* would take the next one down with it.                                   *)
IdleTimerOwned == timers \subseteq {current}

(* The answer of a turn holds its own output only, unless a turn was given *)
(* up while its request was unanswered: the session is kept, and whoever   *)
(* comes next on it hears that turn when it is run after all.  What it     *)
(* hears may end it before its own output came, which goes into the answer *)
(* of the one after it, and so on (connectionExecutors.mjs:1006-1066).     *)
Displaced == unanswered \cup {p[1] : p \in overheard}

CodexNoCrossTalk ==
  /\ overheard # {} => unanswered # {}
  /\ \A p \in overheard : p[2] \in Displaced

(* Every turn is answered, whatever became of its app-server: in the end   *)
(* none waits or runs.                                                     *)
CodexTurnsAnswered == <>[](\A t \in Turns : stage[t] \in {"new", "over"})
=============================================================================
