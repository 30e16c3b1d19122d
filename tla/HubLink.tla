------------------------------ MODULE HubLink ------------------------------
(***************************************************************************)
(* The daemon's connection to the hub and the way home of an answer        *)
(* (packages/agensis-cli/src/agensis.mjs: connect, stop, restartSelf,      *)
(* sendResult, parkResult, flushParkedResults).                            *)
(*                                                                         *)
(* A socket breaks in two ways: it closes, or it falls silent without a    *)
(* FIN, is still OPEN for send(), and only the watchdog on inbound traffic *)
(* finds out.  The lanes of the queue (JobQueue) and the parked approvals  *)
(* (Approvals) have modules of their own; of a turn only its begin and end *)
(* count here.  Delays are left out: a timer that is armed may fire.       *)
(***************************************************************************)
EXTENDS Integers, Sequences, FiniteSets

CONSTANTS
  Jobs,
  Setups,      \* how the daemon is started and what its jobs turn out to be
  Room,        \* parked results (32 in the code)
  MaxSockets   \* bound: sockets in a behaviour; the last does not break

(* "hub": an ordinary turn.  "peer": one a peer daemon handed over.        *)
(* "refused": its runtime is not the one this daemon is locked to.         *)
(* "unwired": its sandbox provider does not exist.  "absent": never asked. *)
Kinds == {"hub", "peer", "refused", "unwired", "absent"}

ASSUME LinkAssumption ==
  /\ Setups \subseteq [once: BOOLEAN, kind: [Jobs -> Kinds]]
  /\ Room \in Nat \ {0} /\ MaxSockets \in Nat \ {0}

VARIABLES
  setup,       \* the setup of this process: it does not change
  sock,        \* "none", "dialing", "open", "closing" (its close event is due)
  epoch,       \* sockets dialled so far: the one that `ws` names
  silent,      \* nobody answers on this socket
  opening,     \* sockets whose open handler awaits identity.json
  asked,       \* agent_register was sent on this socket
  registered,  \* socketRegistered
  retry,       \* reconnectTimer is armed
  beats,       \* sockets whose heartbeat interval is still beating
  beatTimer,   \* the interval heartbeatTimer names, 0: none
  stopped,
  phase,       \* of a job: "new", "waiting", "running", "cancelled", "over"
  via,         \* the socket a job captured when it was accepted
  ticking,     \* jobs whose progress interval is beating
  parked,      \* parkedResults
  wire,        \* results sent on this socket and not yet heard
  heard,       \* jobs the hub has a result of
  restart,     \* "no", "draining", "due": restartSelf
  restartVia,  \* the socket it captured
  process      \* "up", "stopped", "replaced"

linkVars == <<sock, epoch, silent, opening, asked, registered, retry, beats, beatTimer>>
jobVars == <<phase, via, ticking>>
resultVars == <<parked, wire, heard>>
restartVars == <<restart, restartVia>>
vars == <<setup, linkVars, stopped, jobVars, resultVars, restartVars, process>>

Kind == setup.kind
Once == setup.once      \* --once

Rng(s) == {s[i] : i \in 1..Len(s)}

TypeOK ==
  /\ setup \in Setups
  /\ sock \in {"none", "dialing", "open", "closing"}
  /\ epoch \in 0..MaxSockets /\ silent \in BOOLEAN
  /\ opening \subseteq 1..MaxSockets
  /\ asked \in BOOLEAN /\ registered \in BOOLEAN /\ retry \in BOOLEAN
  /\ beats \subseteq 1..MaxSockets /\ beatTimer \in 0..MaxSockets
  /\ stopped \in BOOLEAN
  /\ phase \in [Jobs -> {"new", "waiting", "running", "cancelled", "over"}]
  /\ via \in [Jobs -> 0..MaxSockets]
  /\ ticking \subseteq Jobs
  /\ parked \in Seq(Jobs) /\ Len(parked) <= Room /\ wire \in Seq(Jobs) /\ heard \subseteq Jobs
  /\ restart \in {"no", "draining", "due"} /\ restartVia \in 0..MaxSockets
  /\ process \in {"up", "stopped", "replaced"}

(* The daemon starts: nothing is connected and connect() is due.           *)
Start ==
  /\ setup \in Setups
  /\ sock = "none" /\ epoch = 0 /\ silent = FALSE /\ opening = {}
  /\ asked = FALSE /\ registered = FALSE /\ retry = TRUE
  /\ beats = {} /\ beatTimer = 0
  /\ stopped = FALSE
  /\ phase = [j \in Jobs |-> "new"] /\ via = [j \in Jobs |-> 0] /\ ticking = {}
  /\ parked = << >> /\ wire = << >> /\ heard = {}
  /\ restart = "no" /\ restartVia = 0

Init == Start /\ process = "up"

(* A one-shot daemon has had its job and has no other.                     *)
OneShotDone ==
  /\ \E j \in Jobs : Kind[j] # "peer" /\ phase[j] # "new"
  /\ \A j \in Jobs : phase[j] \notin {"waiting", "running"}

-----------------------------------------------------------------------------
(* send(): readyState is all it looks at.                                  *)
Usable(e) == sock = "open" /\ epoch = e

(* Mutant: the park grows with every answer.                               *)
ParkUnbounded(j) == parked' = Append(parked, j)

(* parkResult(): bounded, the oldest goes first.                           *)
Park(j) ==
  parked' = Append(IF Len(parked) >= Room THEN Tail(parked) ELSE parked, j)

(* The socket a job writes to: the live one, or the one it captured.       *)
SocketOf(j) == IF Kind[j] = "peer" THEN via[j] ELSE epoch

(* Mutant: a result is parked whatever became of the send.                 *)
SendResultTwice(j) ==
  /\ IF Usable(SocketOf(j)) THEN wire' = Append(wire, j) ELSE UNCHANGED wire
  /\ Park(j)

(* Mutant: the frame goes where deltas go.                                 *)
SendResultOnly(j) ==
  /\ IF Usable(SocketOf(j)) THEN wire' = Append(wire, j) ELSE UNCHANGED wire
  /\ UNCHANGED parked

(* sendResult(): a job of a peer has no parkResult.                        *)
SendResult(j) ==
  IF Usable(SocketOf(j)) THEN wire' = Append(wire, j) /\ UNCHANGED parked
  ELSE /\ UNCHANGED wire
       /\ IF Kind[j] = "hub" THEN Park(j) ELSE UNCHANGED parked

(* Mutant: results are flushed but kept.                                   *)
FlushKeeping == wire' = wire \o parked /\ UNCHANGED parked

(* flushParkedResults(): what cannot be sent is parked again, in order.    *)
FlushParkedResults ==
  IF Usable(epoch) THEN wire' = wire \o parked /\ parked' = << >>
  ELSE UNCHANGED <<wire, parked>>

(* stop(): timers are cleared, the socket is closed.                       *)
Stop ==
  /\ stopped' = TRUE
  /\ retry' = FALSE
  /\ beats' = beats \ {beatTimer}
  /\ sock' = IF sock \in {"dialing", "open"} THEN "closing" ELSE sock
  /\ UNCHANGED <<epoch, silent, opening, asked, registered, beatTimer>>

-----------------------------------------------------------------------------
(* connect()                                                               *)
Connect ==
  /\ retry /\ ~ stopped /\ epoch < MaxSockets
  /\ sock' = "dialing" /\ epoch' = epoch + 1
  /\ retry' = FALSE /\ silent' = FALSE /\ asked' = FALSE
  /\ UNCHANGED <<opening, registered, beats, beatTimer, stopped, jobVars, resultVars,
                 restartVars, process>>

(* "open": authenticates and reads identity.json.                          *)
Opens ==
  /\ sock = "dialing" /\ ~ silent
  /\ sock' = "open" /\ registered' = FALSE
  /\ opening' = opening \cup {epoch}
  /\ UNCHANGED <<epoch, silent, asked, retry, beats, beatTimer, stopped, jobVars,
                 resultVars, restartVars, process>>

(* The rest of the open handler, on the socket it belongs to.              *)
Registers(e) ==
  /\ asked' = TRUE
  /\ beats' = (beats \ {beatTimer}) \cup {e}
  /\ beatTimer' = e
  /\ UNCHANGED <<sock, epoch, silent, registered, retry>>

(* Mutant: the handler goes on whatever became of its socket.              *)
OpenResumesUnchecked(e) ==
  /\ e \in opening
  /\ opening' = opening \ {e}
  /\ Registers(e)
  /\ UNCHANGED <<stopped, jobVars, resultVars, restartVars, process>>

OpenResumes(e) ==
  /\ e \in opening
  /\ opening' = opening \ {e}
  /\ IF Usable(e) THEN Registers(e)
     ELSE UNCHANGED <<sock, epoch, silent, asked, registered, retry, beats, beatTimer>>
  /\ UNCHANGED <<stopped, jobVars, resultVars, restartVars, process>>

(* A frame of the hub reaches the handler; those that were received before *)
(* the socket went are still handled while its close event is due.         *)
HubSpeaks == sock \in {"open", "closing"} /\ ~ silent

(* agent_registered                                                        *)
Registered ==
  /\ HubSpeaks /\ asked /\ ~ registered
  /\ registered' = TRUE
  /\ FlushParkedResults
  /\ UNCHANGED <<sock, epoch, silent, opening, asked, retry, beats, beatTimer, stopped,
                 jobVars, heard, restartVars, process>>

(* The connection is gone: the close event is due.                         *)
Breaks ==
  /\ sock \in {"dialing", "open"} /\ epoch < MaxSockets
  /\ sock' = "closing"
  /\ UNCHANGED <<epoch, silent, opening, asked, registered, retry, beats, beatTimer,
                 stopped, jobVars, resultVars, restartVars, process>>

FallsSilent ==
  /\ sock \in {"dialing", "open"} /\ ~ silent /\ epoch < MaxSockets
  /\ silent' = TRUE
  /\ UNCHANGED <<sock, epoch, opening, asked, registered, retry, beats, beatTimer,
                 stopped, jobVars, resultVars, restartVars, process>>

(* Mutant: only a socket that was open once is watched.                    *)
WatchdogOnOpen ==
  /\ silent /\ sock = "open"
  /\ sock' = "closing"
  /\ UNCHANGED <<epoch, silent, opening, asked, registered, retry, beats, beatTimer,
                 stopped, jobVars, resultVars, restartVars, process>>

(* peerWatchdog: nothing inbound for DEAD_PEER_TIMEOUT_MS, counted from    *)
(* the creation of the socket.                                             *)
Watchdog ==
  /\ silent /\ sock \in {"dialing", "open"}
  /\ sock' = "closing"
  /\ UNCHANGED <<epoch, silent, opening, asked, registered, retry, beats, beatTimer,
                 stopped, jobVars, resultVars, restartVars, process>>

(* What every close does.                                                  *)
CloseEffect ==
  /\ sock' = "none" /\ registered' = FALSE
  /\ beats' = beats \ {beatTimer} /\ beatTimer' = 0
  /\ wire' = << >>

(* "close": dial again, unless the hub rejected this agent or is not       *)
(* there, the daemon is stopped, or it is a one-shot.                      *)
Closed ==
  /\ sock = "closing"
  /\ CloseEffect
  /\ \E rejected \in BOOLEAN :
       /\ rejected => epoch < MaxSockets
       /\ stopped' = (stopped \/ rejected \/ (Once /\ OneShotDone))
       /\ retry' = (~ stopped' /\ ~ Once)
  /\ UNCHANGED <<epoch, silent, opening, asked, jobVars, parked, heard, restartVars, process>>

-----------------------------------------------------------------------------
(* A turn arrives: from the hub, or from a peer over the LAN.              *)
Accepts(j) ==
  /\ phase[j] = "new" /\ Kind[j] # "absent"
  /\ IF Kind[j] = "peer" THEN ~ stopped ELSE registered /\ HubSpeaks
  /\ phase' = [phase EXCEPT ![j] = "waiting"]
  /\ via' = [via EXCEPT ![j] = epoch]
  /\ UNCHANGED <<linkVars, stopped, ticking, resultVars, restartVars, process>>

(* Cancelled while it waits: it will not be run.                           *)
Cancels(j) ==
  /\ phase[j] = "waiting" /\ registered /\ HubSpeaks
  /\ phase' = [phase EXCEPT ![j] = "cancelled"]
  /\ UNCHANGED <<linkVars, stopped, via, ticking, resultVars, restartVars, process>>

(* A turn begins; its progress interval with it.                           *)
Starts(j) ==
  /\ phase[j] = "waiting" /\ Kind[j] \in {"hub", "peer"}
  /\ phase' = [phase EXCEPT ![j] = "running"]
  /\ ticking' = ticking \cup {j}
  /\ UNCHANGED <<linkVars, stopped, via, resultVars, restartVars, process>>

(* What a one-shot daemon does when its run returns.                       *)
AfterRun == IF Once THEN Stop ELSE UNCHANGED <<linkVars, stopped>>

(* Mutant: the poll looks at a daemon that is connected only.              *)
OneShotEndsOnline ==
  /\ Once /\ OneShotDone /\ ~ stopped /\ sock = "open"
  /\ Stop
  /\ UNCHANGED <<jobVars, resultVars, restartVars, process>>

(* ... and when it finds itself idle (queue.idle(), the 500 ms poll).      *)
OneShotEnds ==
  /\ Once /\ OneShotDone /\ ~ stopped
  /\ Stop
  /\ UNCHANGED <<jobVars, resultVars, restartVars, process>>

(* The runtime is the wrong one: answered with send(), not sendResult().   *)
Refuses(j) ==
  /\ phase[j] = "waiting" /\ Kind[j] = "refused"
  /\ phase' = [phase EXCEPT ![j] = "over"]
  /\ IF Usable(epoch) THEN wire' = Append(wire, j) ELSE UNCHANGED wire
  /\ AfterRun
  /\ UNCHANGED <<via, ticking, parked, heard, restartVars, process>>

(* createExecutor() throws after the progress interval was started; the    *)
(* queue swallows it.                                                      *)
Throws(j) ==
  /\ phase[j] = "waiting" /\ Kind[j] = "unwired"
  /\ phase' = [phase EXCEPT ![j] = "over"]
  /\ ticking' = ticking \cup {j}
  /\ UNCHANGED <<linkVars, stopped, via, resultVars, restartVars, process>>

(* The turn ends, well or not: progress stops and the answer is sent.      *)
Finishes(j) ==
  /\ phase[j] = "running"
  /\ phase' = [phase EXCEPT ![j] = "over"]
  /\ ticking' = ticking \ {j}
  /\ SendResult(j)
  /\ AfterRun
  /\ UNCHANGED <<via, heard, restartVars, process>>

(* The hub reads a result: at the latest when the close event is due.      *)
Hears ==
  /\ wire # << >> /\ HubSpeaks
  /\ heard' = heard \cup {Head(wire)}
  /\ wire' = Tail(wire)
  /\ UNCHANGED <<linkVars, stopped, jobVars, parked, restartVars, process>>

-----------------------------------------------------------------------------
(* SIGTERM, or agent_disabled.                                             *)
StopRequested ==
  /\ ~ stopped
  /\ Stop
  /\ UNCHANGED <<jobVars, resultVars, restartVars, process>>

(* agent_restart: drain if turns are in flight.                            *)
RestartRequested ==
  /\ restart = "no" /\ registered /\ HubSpeaks
  /\ restart' = IF \E j \in Jobs : phase[j] = "running" THEN "draining" ELSE "due"
  /\ restartVia' = epoch
  /\ UNCHANGED <<linkVars, stopped, jobVars, resultVars, process>>

(* The queue is idle, or the drain has taken RESTART_DRAIN_MS.             *)
Drained ==
  /\ restart = "draining"
  /\ restart' = "due"
  /\ UNCHANGED <<linkVars, stopped, jobVars, resultVars, restartVia, process>>

(* The socket it captured is closed, and a replacement spawned or not.     *)
Replaces ==
  /\ restart = "due"
  /\ sock' = IF Usable(restartVia) THEN "closing" ELSE sock
  /\ \E spawned \in BOOLEAN :
       /\ spawned \/ epoch < MaxSockets
       /\ process' = IF spawned THEN "replaced" ELSE process
  /\ restart' = "no"
  /\ UNCHANGED <<epoch, silent, opening, asked, registered, retry, beats, beatTimer,
                 stopped, jobVars, resultVars, restartVia>>

(* runAgensisDaemon() returns and the process ends.                        *)
Exits ==
  /\ stopped
  /\ process' = "stopped"
  /\ UNCHANGED <<linkVars, stopped, jobVars, resultVars, restartVars>>

DaemonStep ==
  \/ Connect \/ Watchdog \/ Closed \/ Drained \/ Replaces \/ Exits \/ OneShotEnds
  \/ \E e \in 1..MaxSockets : OpenResumes(e)
  \/ \E j \in Jobs : Starts(j) \/ Refuses(j) \/ Throws(j) \/ Finishes(j)

HubStep ==
  \/ Opens \/ Registered \/ Hears
  \/ Breaks \/ FallsSilent \/ StopRequested \/ RestartRequested
  \/ \E j \in Jobs : Accepts(j) \/ Cancels(j)

Next == process = "up" /\ UNCHANGED setup /\ (DaemonStep \/ HubStep)

Spec == Init /\ [][Next]_vars

(* Timers fire, events are delivered, turns end; the hub, once it can be   *)
(* reached, answers.  Nobody has to break, stop or restart anything.       *)
Fairness ==
  /\ WF_vars(Next /\ (Connect \/ Opens \/ Watchdog \/ Closed))
  /\ WF_vars(Next /\ Registered)
  /\ WF_vars(Next /\ OneShotEnds)
  /\ WF_vars(Next /\ Drained) /\ WF_vars(Next /\ Replaces)
  /\ \A e \in 1..MaxSockets : WF_vars(Next /\ OpenResumes(e))
  /\ \A j \in Jobs : WF_vars(Next /\ (Starts(j) \/ Refuses(j) \/ Throws(j) \/ Finishes(j)))

-----------------------------------------------------------------------------
(* One heartbeat per connection and none without: the open handler reads a *)
(* file between two looks at its socket, and an interval it set for one    *)
(* that has gone would beat for ever (agensis.mjs:484-492).                *)
OneHeartbeat ==
  /\ beats \subseteq {beatTimer}
  /\ beats # {} => (beats = {epoch} /\ sock # "none")

(* A daemon that is not stopped and has no socket has armed the timer for  *)
(* the next one, and one that is stopped dials no more.                    *)
AlwaysComesBack ==
  ~ Once => ((sock = "none" /\ ~ stopped) <=> retry)

(* No answer is left behind on a connection that works: what was parked    *)
(* has been sent again by the time the daemon counts as registered.        *)
ParkedOnlyWhileCut ==
  (registered /\ sock = "open") => parked = << >>

(* An answer is in one place: it is not sent while it is parked, nor sent  *)
(* twice, whatever reconnects lie between.                                 *)
InOnePlace ==
  /\ \A i, k \in 1..Len(parked) : parked[i] = parked[k] => i = k
  /\ \A i, k \in 1..Len(wire) : wire[i] = wire[k] => i = k
  /\ Rng(parked) \cap Rng(wire) = {} /\ heard \cap (Rng(parked) \cup Rng(wire)) = {}
  /\ \A j \in Rng(parked) \cup Rng(wire) \cup heard : phase[j] = "over"

(* Where the answer of a turn of the hub is; the ledger has no other.      *)
FateOf(j) ==
  IF Kind[j] # "hub" THEN "none"
  ELSE IF process # "up" /\ j \notin heard /\ phase[j] \in {"waiting", "running", "over"} THEN "lost"
  ELSE IF j \in heard THEN "heard"
  ELSE IF j \in Rng(wire) THEN "sent"
  ELSE IF j \in Rng(parked) THEN "held"
  ELSE CASE phase[j] = "new" -> "none"
         [] phase[j] = "cancelled" -> "withdrawn"
         [] phase[j] \in {"waiting", "running"} -> "owed"
         [] OTHER -> "lost"

Answers == INSTANCE ResultLedger WITH fate <- [j \in Jobs |-> FateOf(j)]

(* The link keeps the promise of the ledger: an answer is lost only with   *)
(* the connection that carried it, by overflow, or with the process.       *)
KeepsLedger == Answers!Ledger

Gone == stopped \/ process # "up"

(* The daemon is online again after any outage that ends, unless it was    *)
(* told to go.  A one-shot does not dial again: one whose connection is    *)
(* lost before its job came neither ends nor comes back (agensis.mjs:849). *)
ComesOnline == ~ Once => <>[]((registered /\ sock = "open") \/ Gone)

(* A one-shot daemon that has had its job ends, also when the job failed   *)
(* while there was no connection.                                          *)
OneShotLeaves == (Once /\ OneShotDone) ~> Gone
=============================================================================
