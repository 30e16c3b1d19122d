----------------------------- MODULE Supervisor -----------------------------
(***************************************************************************)
(* `agensis supervise` and the versions it installs                        *)
(* (packages/agensis-cli/src/supervise.mjs, selfUpdate.mjs, the update     *)
(* files of state.mjs): a process of its own that spawns the daemon,       *)
(* respawns it, and replaces it by another version with a way back.        *)
(*                                                                         *)
(* What is on disk survives it, and so may the daemons, which are          *)
(* detached.  Delays are left out, and with them the backoff of a respawn: *)
(* a timer that is armed may fire.                                         *)
(***************************************************************************)
EXTENDS Integers, FiniteSets

CONSTANTS
  Versions,   \* as numbers: what compareVersions() makes of them
  Sound,      \* those whose daemon can register
  Package,    \* runningVersion: the one that runs the supervisor itself
  Linked,     \* what `current` may point to at first, 0: nothing
  Requests,   \* versions somebody asks for in update-request.json
  Published,  \* answers of the registry; none: --no-auto-update
  Pids,       \* bound: daemon processes at a time
  Spare,      \* bound: process numbers left free by what need not happen
  HeldOpen,   \* something else keeps the event loop of the supervisor alive
  Faults      \* what may go wrong (below)

(* "crash": the supervisor dies.  "term": it is told to stop.  "signal": a *)
(* daemon that dies dies of a signal.  "offline": npm fails.        *)
(* "disk": update.json cannot be written.  "die": a daemon ends unasked.   *)
(* "restart": the hub has it restart itself.  "turns": it is given work.   *)
ASSUME SupervisorAssumption ==
  /\ Versions \subseteq Nat \ {0}
  /\ Sound \subseteq Versions /\ Package \in Sound
  /\ Linked \subseteq Versions \cup {0} /\ Linked # {}
  /\ Requests \subseteq Versions /\ Published \subseteq Versions
  /\ 0 \notin Pids /\ IsFiniteSet(Pids) /\ Spare \in Nat
  /\ HeldOpen \in BOOLEAN
  /\ Faults \subseteq {"crash", "term", "signal", "offline", "disk", "die", "restart", "turns"}

VARIABLES
  link, installed,  \* ~/.agensis/versions
  record,           \* update.json
  request,          \* update-request.json, 0: none
  life,             \* of a process: "up", "dead" (not noticed yet), and as its
                    \* parent sees it then: "exited" or "signalled"
  version,          \* what it runs, 0 when it does not
  online,           \* those with a fresh, connected beat
  busy,             \* those in a turn
  beat,             \* what heartbeat.json says of being busy
  pc,               \* where the supervisor is; "down": not running
  state,            \* its version and the one before
  child,            \* the daemon it holds, 0: none
  watched,          \* children whose exit handler has not run
  pending,          \* respawn timers
  killed,           \* those it sent a signal to (child.killed)
  awaits,           \* the exit the update waits for, 0: none
  stopped,          \* stop() was called
  quits,            \* the exit stop() waits for, 0: none
  update            \* the update under way

diskVars == <<link, installed, record, request>>
daemonVars == <<life, version, online, busy, beat>>
spawnVars == <<child, watched, pending, killed>>
vars == <<diskVars, daemonVars, spawnVars, pc, state, awaits, stopped, quits, update>>

Pair == [current : Versions \cup {0}, previous : Versions \cup {0}]
Nothing == [current |-> 0, previous |-> 0]

(* runningChild, the process on trial, and what performSelfUpdate returns. *)
NoUpdate == [target |-> 0, auto |-> FALSE, old |-> 0, trial |-> 0,
             result |-> Nothing, child |-> 0]

TypeOK ==
  /\ link \in Versions \cup {0} /\ installed \subseteq Versions
  /\ record \in Pair /\ request \in Versions \cup {0}
  /\ life \in [Pids -> {"up", "dead", "exited", "signalled"}]
  /\ version \in [Pids -> Versions \cup {0}]
  /\ online \subseteq Pids /\ busy \subseteq Pids /\ beat \in BOOLEAN
  /\ pc \in {"down", "poll", "install", "stop", "flip", "health", "undo", "clear"}
  /\ state \in Pair
  /\ child \in Pids \cup {0} /\ watched \subseteq Pids /\ pending \in 0..1
  /\ killed \subseteq Pids
  /\ awaits \in Pids \cup {0} /\ stopped \in BOOLEAN /\ quits \in Pids \cup {0}
  /\ update \in [target : Versions \cup {0}, auto : BOOLEAN, old : Pids \cup {0},
                 trial : Pids \cup {0}, result : Pair, child : Pids \cup {0}]

Init ==
  /\ link \in Linked /\ installed = {link} \ {0}
  /\ record = Nothing /\ request = 0
  /\ life = [p \in Pids |-> "exited"] /\ version = [p \in Pids |-> 0]
  /\ online = {} /\ busy = {} /\ beat = FALSE
  /\ pc = "down" /\ state = Nothing
  /\ child = 0 /\ watched = {} /\ pending = 0 /\ killed = {}
  /\ awaits = 0 /\ stopped = FALSE /\ quits = 0 /\ update = NoUpdate

-----------------------------------------------------------------------------
(* A process number the supervisor has no use for.                         *)
Free(p) ==
  life[p] # "up" /\ p \notin watched \cup {child, quits, awaits, update.old, update.trial, update.child}

(* The bound on what need not happen: a respawn that is due has its number.*)
Roomy == Cardinality({p \in Pids : Free(p)}) >= Spare + pending

(* A daemon of version v starts as process p.                              *)
Started(p, v) ==
  /\ life' = [life EXCEPT ![p] = "up"]
  /\ version' = [version EXCEPT ![p] = v]
  /\ online' = online \ {p} /\ busy' = busy \ {p}
  /\ killed' = killed \ {p}
  /\ UNCHANGED beat

(* writeUpdateState(): best effort, and nobody looks at what it returns.   *)
Write(pair) == record' = pair \/ ("disk" \in Faults /\ UNCHANGED record)

(* Whether defaultStopDaemon() returns without waiting: no child, or one   *)
(* that has an exit code or was sent a signal before.                      *)
StopsAtOnce(p) == p = 0 \/ p \in killed \/ life[p] = "exited"

(* ... what it waits for, and who gets the signal: kill() of a process     *)
(* that is gone does nothing.                                              *)
AwaitedBy(p) == IF StopsAtOnce(p) THEN 0 ELSE p
Signal(p) == killed' = IF p # 0 /\ life[p] = "up" THEN killed \cup {p} ELSE killed

(* spawnCurrent()                                                          *)
SpawnCurrent(v) ==
  \E p \in Pids :
    /\ Free(p)
    /\ Started(p, v)
    /\ child' = p
    /\ watched' = watched \cup {p}

-----------------------------------------------------------------------------
(* The version the supervisor starts with.                                 *)
Recorded == IF record.current = 0 THEN [current |-> Package, previous |-> 0] ELSE record

(* Mutant: the package is linked and not installed.                        *)
BootUninstalled ==
  /\ pc = "down"
  /\ link' = (IF link = 0 THEN Package ELSE link) /\ UNCHANGED installed
  /\ state' = Recorded
  /\ IF record.current = 0 THEN Write(Recorded) ELSE UNCHANGED record
  /\ SpawnCurrent(Recorded.current)
  /\ pc' = "poll" /\ pending' = 0
  /\ UNCHANGED <<request, awaits, stopped, quits, update>>

(* runSupervisor() up to its loop: bootstrapCurrentVersion(), which throws *)
(* if npm fails, then update.json.                                         *)
Boot ==
  /\ pc = "down"
  /\ IF link = 0 THEN installed' = installed \cup {Package} /\ link' = Package
     ELSE UNCHANGED <<installed, link>>
  /\ state' = Recorded
  /\ IF record.current = 0 THEN Write(Recorded) ELSE UNCHANGED record
  /\ SpawnCurrent(Recorded.current)
  /\ pc' = "poll" /\ pending' = 0
  /\ UNCHANGED <<request, awaits, stopped, quits, update>>

(* An update begins: performSelfUpdate() as far as the installer.          *)
Begin(v, auto) ==
  /\ pc' = "install"
  /\ update' = [NoUpdate EXCEPT !.target = v, !.auto = auto, !.old = child]
  /\ UNCHANGED <<diskVars, daemonVars, spawnVars, state, awaits, stopped, quits>>

(* A poll finds a request file; one for the version at hand is passed over.*)
TakeRequest ==
  /\ pc = "poll" /\ ~ stopped
  /\ request \notin {0, state.current}
  /\ Begin(request, FALSE)

(* isDaemonIdle(): not busy, or stale.                                     *)
DaemonIdle == ~ beat \/ ~ \E p \in online : life[p] = "up"

(* Mutant: any other version will do.                                      *)
TakeDifferent(v) ==
  /\ pc = "poll" /\ ~ stopped /\ request = 0
  /\ v # state.current
  /\ DaemonIdle
  /\ Begin(v, TRUE)

(* Mutant: what was rolled back is not tried again.                        *)
TakeOnce(v) ==
  /\ pc = "poll" /\ ~ stopped /\ request = 0
  /\ v > state.current /\ record.previous = 0
  /\ DaemonIdle
  /\ Begin(v, TRUE)

(* ... or there is none, and the registry has a newer version.             *)
TakePublished(v) ==
  /\ pc = "poll" /\ ~ stopped /\ request = 0
  /\ v > state.current
  /\ DaemonIdle
  /\ Begin(v, TRUE)

(* What performSelfUpdate() returns, on its way to the loop.               *)
Returns(pair, p) ==
  /\ pc' = "clear"
  /\ update' = [update EXCEPT !.result = pair, !.child = p]

InstallFails ==
  /\ pc = "install" /\ "offline" \in Faults /\ update.target \notin installed
  /\ LET pair == [current |-> state.current, previous |-> record.previous] IN
       Write(pair) /\ Returns(pair, update.old)
  /\ UNCHANGED <<link, installed, request, daemonVars, spawnVars, state, awaits, stopped, quits>>

(* Installed: the running daemon is told to stop.                          *)
InstallDone ==
  /\ pc = "install"
  /\ installed' = installed \cup {update.target}
  /\ awaits' = AwaitedBy(update.old) /\ Signal(update.old)
  /\ pc' = "stop"
  /\ UNCHANGED <<link, record, request, daemonVars, child, watched, pending, state, stopped,
                 quits, update>>

(* linkCurrent(): the old link goes,                                       *)
Unlink ==
  /\ pc = "stop" /\ awaits = 0
  /\ link' = 0
  /\ pc' = "flip" /\ update' = [update EXCEPT !.old = 0]
  /\ UNCHANGED <<installed, record, request, daemonVars, spawnVars, state, awaits, stopped,
                 quits>>

(* ... the new one comes, and with it the daemon on trial.                 *)
SpawnTarget ==
  /\ pc = "flip"
  /\ link' = update.target
  /\ \E p \in Pids :
       /\ Free(p)
       /\ Started(p, update.target)
       /\ update' = [update EXCEPT !.trial = p]
  /\ pc' = "health"
  /\ UNCHANGED <<installed, record, request, child, watched, pending, state, awaits, stopped,
                 quits>>

(* Mutant: anybody's beat will do.                                         *)
HealthyByAnyBeat ==
  /\ pc = "health" /\ online # {}
  /\ LET pair == [current |-> update.target, previous |-> state.current] IN
       Write(pair) /\ Returns(pair, update.trial)
  /\ UNCHANGED <<link, installed, request, daemonVars, spawnVars, state, awaits, stopped, quits>>

(* defaultHealthCheck() finds a beat of this process.                      *)
Healthy ==
  /\ pc = "health" /\ update.trial \in online
  /\ LET pair == [current |-> update.target, previous |-> state.current] IN
       Write(pair) /\ Returns(pair, update.trial)
  /\ UNCHANGED <<link, installed, request, daemonVars, spawnVars, state, awaits, stopped, quits>>

(* Mutant: the check goes on for as long as the daemon on trial does.      *)
UnhealthyOnceGone ==
  /\ pc = "health" /\ life[update.trial] # "up"
  /\ awaits' = AwaitedBy(update.trial) /\ Signal(update.trial)
  /\ pc' = "undo" /\ update' = [update EXCEPT !.trial = 0]
  /\ UNCHANGED <<diskVars, daemonVars, child, watched, pending, state, stopped, quits>>

(* ... or not in time.                                                     *)
Unhealthy ==
  /\ pc = "health" /\ (update.target \in Sound => Roomy)
  /\ awaits' = AwaitedBy(update.trial) /\ Signal(update.trial)
  /\ pc' = "undo" /\ update' = [update EXCEPT !.trial = 0]
  /\ UNCHANGED <<diskVars, daemonVars, child, watched, pending, state, stopped, quits>>

(* Mutant: the target is what is recorded, back or not.                    *)
RollBackForgetting ==
  /\ pc = "undo" /\ awaits = 0 /\ state.current \in installed
  /\ link' = state.current
  /\ \E p \in Pids :
       /\ Free(p)
       /\ Started(p, state.current)
       /\ LET pair == [current |-> update.target, previous |-> state.current] IN
            Write(pair) /\ Returns(pair, p)
  /\ UNCHANGED <<installed, request, child, watched, pending, state, awaits, stopped, quits>>

(* Mutant: the daemon that comes back is respawned, too.                   *)
RollBackWatching ==
  /\ pc = "undo" /\ awaits = 0 /\ state.current \in installed
  /\ link' = state.current
  /\ \E p \in Pids :
       /\ Free(p)
       /\ Started(p, state.current)
       /\ watched' = watched \cup {p}
       /\ LET pair == [current |-> state.current, previous |-> state.current] IN
            Write(pair) /\ Returns(pair, p)
  /\ UNCHANGED <<installed, request, child, pending, state, awaits, stopped, quits>>

(* The way back, when the version before is on disk.                       *)
RollBack ==
  /\ pc = "undo" /\ awaits = 0 /\ state.current \in installed
  /\ link' = state.current
  /\ \E p \in Pids :
       /\ Free(p)
       /\ Started(p, state.current)
       /\ LET pair == [current |-> state.current, previous |-> state.current] IN
            Write(pair) /\ Returns(pair, p)
  /\ UNCHANGED <<installed, request, child, watched, pending, state, awaits, stopped, quits>>

(* ... and when it is not: no daemon, `current` on the broken version.     *)
NoFallback ==
  /\ pc = "undo" /\ awaits = 0 /\ state.current \notin installed
  /\ LET pair == [current |-> IF record.current # 0 THEN record.current ELSE state.current,
                  previous |-> state.current] IN
       Write(pair) /\ Returns(pair, 0)
  /\ UNCHANGED <<link, installed, request, daemonVars, spawnVars, state, awaits, stopped, quits>>

(* Back in the loop: a request of a file is cleared.                       *)
Clear ==
  /\ pc = "clear"
  /\ request' = IF update.auto THEN request ELSE 0
  /\ state' = update.result
  /\ child' = IF update.child # 0 THEN update.child ELSE child
  /\ pc' = "poll" /\ update' = NoUpdate
  /\ UNCHANGED <<link, installed, record, daemonVars, watched, pending, killed, awaits, stopped,
                 quits>>

-----------------------------------------------------------------------------
(* Mutant: a timer that fires into an update does nothing.                 *)
RespawnBetween ==
  /\ pending = 1 /\ ~ stopped
  /\ pending' = 0
  /\ IF pc = "poll" THEN SpawnCurrent(state.current)
     ELSE UNCHANGED <<daemonVars, child, watched, killed>>
  /\ UNCHANGED <<diskVars, pc, state, awaits, stopped, quits, update>>

(* The respawn timer, whatever the loop is waiting for.                    *)
Respawn ==
  /\ pending = 1 /\ ~ stopped
  /\ pending' = 0
  /\ SpawnCurrent(state.current)
  /\ UNCHANGED <<diskVars, pc, state, awaits, stopped, quits, update>>

(* Mutant: any child that ends is respawned.                               *)
ReapRespawning(p) ==
  /\ life[p] = "dead" /\ pc # "down"
  /\ life' = [life EXCEPT ![p] = "exited"]
  /\ awaits' = IF awaits = p THEN 0 ELSE awaits
  /\ quits' = IF quits = p THEN 0 ELSE quits
  /\ watched' = watched \ {p} /\ killed' = killed \ {p}
  /\ pending' = IF ~ stopped THEN pending + 1 ELSE pending
  /\ UNCHANGED <<diskVars, version, online, busy, beat, child, pc, state, stopped, update>>

(* The supervisor learns of the end of a child.  One it sent a signal to   *)
(* counts as "exited", whatever it died of: it is `killed`.                *)
Reap(p) ==
  /\ life[p] = "dead" /\ pc # "down"
  /\ \E how \in {"exited", "signalled"} :
       /\ how = "signalled" => "signal" \in Faults /\ p \notin killed
       /\ life' = [life EXCEPT ![p] = how]
  /\ awaits' = IF awaits = p THEN 0 ELSE awaits
  /\ quits' = IF quits = p THEN 0 ELSE quits
  /\ watched' = watched \ {p} /\ killed' = killed \ {p}
  /\ pending' = IF p \in watched /\ ~ stopped THEN pending + 1 ELSE pending
  /\ UNCHANGED <<diskVars, version, online, busy, beat, child, pc, state, stopped, update>>

(* What is left when the supervisor goes: the disk and, under a manager    *)
(* that does not kill the whole group, the daemons.                        *)
Gone ==
  /\ pc' = "down" /\ state' = Nothing
  /\ child' = 0 /\ watched' = {} /\ pending' = 0
  /\ awaits' = 0 /\ stopped' = FALSE /\ quits' = 0 /\ update' = NoUpdate
  /\ \/ /\ life' = [p \in Pids |-> IF life[p] = "up" THEN "up" ELSE "exited"]
        /\ killed' = {p \in killed : life[p] = "up"}
        /\ UNCHANGED <<version, busy>>
     \/ /\ life' = [p \in Pids |-> "exited"]
        /\ version' = [p \in Pids |-> 0] /\ busy' = {} /\ killed' = {}
  /\ UNCHANGED <<diskVars, online, beat>>

Crash ==
  /\ "crash" \in Faults /\ pc # "down"
  /\ Gone

(* A daemon is spawned detached and unref'd, and the escalation timer of   *)
(* defaultStopDaemon() is unref'd: while an update waits for an exit,      *)
(* nothing of the supervisor's own keeps its event loop alive.             *)
LoopEmpties ==
  /\ awaits # 0 /\ ~ HeldOpen
  /\ Gone

(* SIGTERM: stop().                                                        *)
StopRequested ==
  /\ "term" \in Faults /\ pc # "down" /\ ~ stopped
  /\ stopped' = TRUE
  /\ quits' = AwaitedBy(child) /\ Signal(child)
  /\ UNCHANGED <<diskVars, daemonVars, child, watched, pending, pc, state, awaits, update>>

(* Its child is gone, or the loop notices first.                           *)
Quits ==
  /\ stopped /\ (quits = 0 \/ pc = "poll")
  /\ Gone

-----------------------------------------------------------------------------
(* A daemon registers.  One that is not installed has no entry to run.     *)
GoesOnline(p) ==
  /\ life[p] = "up" /\ p \notin online /\ version[p] \in Sound \cap installed
  /\ online' = online \cup {p}
  /\ UNCHANGED <<diskVars, life, version, busy, beat, spawnVars, pc, state, awaits, stopped,
                 quits, update>>

(* Its last beat is stale.                                                 *)
BeatAges(p) ==
  /\ life[p] # "up" /\ p \in online
  /\ online' = online \ {p}
  /\ UNCHANGED <<diskVars, life, version, busy, beat, spawnVars, pc, state, awaits, stopped,
                 quits, update>>

DaemonDies(p) ==
  /\ life[p] = "up" /\ (p \in killed \/ ("die" \in Faults /\ Roomy))
  /\ life' = [life EXCEPT ![p] = IF pc = "down" THEN "exited" ELSE "dead"]
  /\ version' = [version EXCEPT ![p] = 0]
  /\ busy' = busy \ {p}
  /\ killed' = IF pc = "down" THEN killed \ {p} ELSE killed
  /\ UNCHANGED <<diskVars, online, beat, child, watched, pending, pc, state, awaits, stopped,
                 quits, update>>

(* restartSelf(): a detached copy, and exit.                               *)
RestartsItself(p) ==
  /\ "restart" \in Faults /\ life[p] = "up" /\ p \in online /\ Roomy
  /\ \E q \in Pids \ {p} :
       /\ Free(q)
       /\ life' = [life EXCEPT ![q] = "up", ![p] = IF pc = "down" THEN "exited" ELSE "dead"]
       /\ version' = [version EXCEPT ![q] = version[p], ![p] = 0]
       /\ online' = online \ {q} /\ busy' = busy \ {p, q} /\ killed' = killed \ {q}
  /\ UNCHANGED <<diskVars, beat, child, watched, pending, pc, state, awaits, stopped, quits,
                 update>>

(* A turn begins or ends.                                                  *)
Turns(p) ==
  /\ "turns" \in Faults /\ life[p] = "up" /\ p \in online
  /\ busy' = IF p \in busy THEN busy \ {p} ELSE busy \cup {p}
  /\ UNCHANGED <<diskVars, life, version, online, beat, spawnVars, pc, state, awaits, stopped,
                 quits, update>>

(* heartbeat.json is written.                                              *)
Beats(p) ==
  /\ "turns" \in Faults /\ life[p] = "up" /\ p \in online
  /\ beat' = (p \in busy)
  /\ UNCHANGED <<diskVars, life, version, online, busy, spawnVars, pc, state, awaits, stopped,
                 quits, update>>

(* Somebody asks for a version.                                            *)
Asks(v) ==
  /\ Roomy
  /\ request' = v
  /\ UNCHANGED <<link, installed, record, daemonVars, spawnVars, pc, state, awaits, stopped,
                 quits, update>>

SupervisorStep ==
  \/ Boot \/ TakeRequest \/ \E v \in Published : TakePublished(v)
  \/ InstallFails \/ InstallDone \/ Unlink \/ SpawnTarget
  \/ Healthy \/ Unhealthy \/ RollBack \/ NoFallback \/ Clear
  \/ Respawn \/ \E p \in Pids : Reap(p)
  \/ Quits

Environment ==
  \/ Crash \/ LoopEmpties \/ StopRequested
  \/ \E p \in Pids : \/ GoesOnline(p) \/ BeatAges(p) \/ DaemonDies(p)
                     \/ RestartsItself(p) \/ Turns(p) \/ Beats(p)
  \/ \E v \in Requests : Asks(v)

Next == SupervisorStep \/ Environment

Spec == Init /\ [][Next]_vars

(* Timers fire, events are delivered, npm ends, the process manager starts *)
(* the supervisor again; a process that was sent a signal dies; a sound    *)
(* daemon registers, and often enough before its health check gives up; a  *)
(* turn ends, and often enough a beat and a look at the registry find the  *)
(* daemon between turns.  Nobody has to ask, crash or stop.                *)
Fairness ==
  /\ WF_vars(Boot) /\ WF_vars(TakeRequest) /\ WF_vars(InstallDone \/ InstallFails)
  /\ WF_vars(Unlink) /\ WF_vars(SpawnTarget)
  /\ WF_vars(Healthy \/ Unhealthy) /\ SF_vars(Healthy)
  /\ WF_vars(RollBack \/ NoFallback) /\ WF_vars(Clear)
  /\ WF_vars(Respawn) /\ WF_vars(Quits)
  /\ \A v \in Published : SF_vars(TakePublished(v))
  /\ \A p \in Pids : /\ WF_vars(Reap(p)) /\ WF_vars(GoesOnline(p))
                     /\ WF_vars(p \in killed /\ DaemonDies(p))
                     /\ WF_vars(p \in busy /\ Turns(p))
                     /\ SF_vars(p \notin busy /\ Beats(p))

FairSpec == Spec /\ Fairness

-----------------------------------------------------------------------------
(* One child, or one timer, is responsible for there being a daemon: exit  *)
(* handlers and respawn timers run while an update stops, spawns and stops *)
(* daemons of its own, and neither multiply nor run out                    *)
(* (supervise.mjs:114-140).                                                *)
OneWatched ==
  (pc # "down" /\ ~ stopped) =>
     \/ pending = 1 /\ watched = {}
     \/ pending = 0 /\ \E p \in Pids : watched = {p}

(* What a supervisor that is started again would run is on disk and was    *)
(* seen to register, wherever an update was cut short, and so is the       *)
(* version before it (supervise.mjs:12-13, selfUpdate.mjs:9-12).           *)
Restartable ==
  /\ record.current # 0 => record.current \in installed \cap Sound
  /\ record.previous # 0 => record.previous \in installed

(* Left to itself the supervisor never goes back: "taking `different'      *)
(* would let a yanked release walk the fleet backwards"                    *)
(* (supervise.mjs:167-168), crashes, rollbacks and lost writes included.   *)
NeverBackwards == [][record.current # 0 => record'.current >= record.current]_record

(* A request the supervisor finds when it looks is tried, and the try ends *)
(* with the version or with the one before, unless a newer request takes   *)
(* its place first (supervise.mjs:173-200).  One that arrives during the   *)
(* update of another is not promised anything: it is deleted with it.      *)
UpdateDecides ==
  \A v \in Requests :
    (pc = "poll" /\ request = v) ~>
       (state.current = v \/ (pc = "clear" /\ update.target = v) \/ request \notin {0, v})

(* While there is a supervisor there is a daemon again.                    *)
DaemonComesBack == pc # "down" ~> (pc = "down" \/ \E p \in watched : life[p] = "up")

(* A daemon under supervision does not rot: "a managed daemon that         *)
(* silently rots on an old version is the thing this command exists to     *)
(* prevent" (bin/agensis.mjs:286-288).                                     *)
KeepsUp == <>(\A v \in Published : record.current >= v)

-----------------------------------------------------------------------------
(* "A crashed daemon is respawned" (supervise.mjs:46): the one the         *)
(* supervisor holds.                                                       *)
ChildComesBack ==
  (child # 0 /\ pc = "poll") ~> (pc = "down" \/ (child # 0 /\ life[child] = "up"))
=============================================================================
