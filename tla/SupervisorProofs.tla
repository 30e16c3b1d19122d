-------------------------- MODULE SupervisorProofs --------------------------
(***************************************************************************)
(* What holds of the supervisor for any versions, requests and answers of  *)
(* the registry, any number of daemon processes, and whatever goes wrong.  *)
(***************************************************************************)
EXTENDS Supervisor, TLAPS

(* A supervisor that is not running watches nothing.                       *)
DownIsIdle == pc = "down" => (watched = {} /\ pending = 0)

(* What is being installed is a version.                                   *)
Aimed == pc = "install" => update.target # 0

WatchInv == TypeOK /\ OneWatched /\ DownIsIdle /\ Aimed

Updates == [target : Versions \cup {0}, auto : BOOLEAN, old : Pids \cup {0},
            trial : Pids \cup {0}, result : Pair, child : Pids \cup {0}]

(* What an update starts from.                                             *)
LEMMA UpdateRecords ==
  /\ Nothing \in Pair /\ NoUpdate \in Updates
  /\ \A v \in Versions, a \in BOOLEAN, o \in Pids \cup {0} :
       LET u == [NoUpdate EXCEPT !.target = v, !.auto = a, !.old = o]
       IN  u \in Updates /\ u.target = v
<1>1. Nothing \in Pair
  BY DEF Nothing, Pair
<1>2. NoUpdate \in Updates
  BY <1>1 DEF NoUpdate, Updates
<1> QED
  BY <1>1, <1>2 DEF Updates

(* A new daemon has one of the numbers that nothing uses.                  *)
LEMMA StartedEffect ==
  ASSUME TypeOK, NEW p \in Pids, NEW v \in Versions \cup {0}, Started(p, v)
  PROVE  /\ life' \in [Pids -> {"up", "dead", "exited", "signalled"}]
         /\ version' \in [Pids -> Versions \cup {0}] /\ version'[p] = v
         /\ \A q \in Pids \ {p} : life'[q] = life[q] /\ version'[q] = version[q]
         /\ online' = online \ {p} /\ busy' \subseteq Pids /\ killed' \subseteq Pids
         /\ beat' = beat
  BY DEF TypeOK, Started

(* spawnCurrent() adds one child to those that are watched.                *)
LEMMA SpawnEffect ==
  ASSUME TypeOK, NEW v \in Versions \cup {0}, SpawnCurrent(v)
  PROVE  \E p \in Pids :
           /\ p \notin watched /\ watched' = watched \cup {p} /\ child' = p
           /\ life' \in [Pids -> {"up", "dead", "exited", "signalled"}]
           /\ version' \in [Pids -> Versions \cup {0}]
           /\ \A q \in Pids \ {p} : life'[q] = life[q] /\ version'[q] = version[q]
           /\ online' = online \ {p} /\ busy' \subseteq Pids /\ killed' \subseteq Pids
           /\ beat' = beat /\ p # update.trial
<1>1. PICK p \in Pids : Free(p) /\ Started(p, v) /\ child' = p /\ watched' = watched \cup {p}
  BY DEF SpawnCurrent
<1> QED
  BY <1>1, StartedEffect DEF Free

(* What a stop waits for and signals.                                      *)
LEMMA StopEffect ==
  ASSUME TypeOK, NEW p \in Pids \cup {0}, Signal(p)
  PROVE  AwaitedBy(p) \in Pids \cup {0} /\ killed' \subseteq Pids
  BY SupervisorAssumption DEF TypeOK, Signal, AwaitedBy

LEMMA WatchInit == Init => WatchInv
<1> SUFFICES ASSUME Init PROVE WatchInv
  OBVIOUS
<1>1. TypeOK
  <2>1. state \in Pair /\ record \in Pair /\ update \in Updates
    BY UpdateRecords DEF Init
  <2>2. link \in Versions \cup {0} /\ installed \subseteq Versions
    BY SupervisorAssumption DEF Init
  <2>3. /\ life \in [Pids -> {"up", "dead", "exited", "signalled"}]
        /\ version \in [Pids -> Versions \cup {0}]
    BY DEF Init
  <2>4. /\ request \in Versions \cup {0} /\ online \subseteq Pids /\ busy \subseteq Pids
        /\ child \in Pids \cup {0} /\ watched \subseteq Pids
        /\ pending \in 0..1 /\ killed \subseteq Pids /\ awaits \in Pids \cup {0}
        /\ quits \in Pids \cup {0} /\ pc = "down"
    BY DEF Init
  <2>5. beat \in BOOLEAN /\ stopped \in BOOLEAN
    BY DEF Init
  <2> QED
    BY <2>1, <2>2, <2>3, <2>4, <2>5 DEF TypeOK, Updates
<1>2. OneWatched /\ DownIsIdle /\ Aimed
  BY DEF Init, OneWatched, DownIsIdle, Aimed
<1> QED
  BY <1>1, <1>2 DEF WatchInv

(* The steps that leave the children and the timers alone.                 *)
LEMMA Unwatching ==
  ASSUME WatchInv, TypeOK', Aimed', UNCHANGED <<watched, pending, stopped>>,
         pc # "down", pc' # "down"
  PROVE  WatchInv'
  BY DEF WatchInv, OneWatched, DownIsIdle

LEMMA UpdateSteps ==
  ASSUME WatchInv,
         \/ TakeRequest \/ \E v \in Published : TakePublished(v)
         \/ InstallFails \/ InstallDone \/ Unlink \/ SpawnTarget
         \/ Healthy \/ Unhealthy \/ RollBack \/ NoFallback \/ Clear
  PROVE  WatchInv'
<1> USE SupervisorAssumption
<1>0. TypeOK
  BY DEF WatchInv
<1>1. /\ UNCHANGED <<watched, pending, stopped>> /\ pc # "down" /\ pc' # "down"
  BY DEF TakeRequest, TakePublished, Begin, InstallFails, InstallDone, Unlink, SpawnTarget, Healthy,
         Unhealthy, RollBack, NoFallback, Clear, Returns, spawnVars
<1>2. ASSUME NEW v \in Versions, NEW auto \in BOOLEAN, Begin(v, auto) PROVE TypeOK' /\ Aimed'
  <2>1. update' \in Updates /\ update'.target = v /\ v # 0
    BY <1>0, <1>2, UpdateRecords DEF Begin, TypeOK
  <2> QED
    BY <1>0, <1>2, <2>1 DEF Begin, TypeOK, Updates, Aimed, diskVars, daemonVars, spawnVars
<1>4. ASSUME NEW pair \in Pair, NEW p \in Pids \cup {0}, Write(pair), Returns(pair, p),
             UNCHANGED <<link, installed, request, daemonVars, spawnVars, state, awaits, stopped, quits>>
      PROVE  TypeOK' /\ Aimed'
  <2>1. record' \in Pair
    BY <1>0, <1>4 DEF Write, TypeOK
  <2>2. update' \in Updates
        /\ pc' = "clear"
    BY <1>0, <1>4 DEF Returns, TypeOK, Updates
  <2> QED
    BY <1>0, <1>4, <2>1, <2>2 DEF TypeOK, Updates, Aimed, daemonVars, spawnVars
<1>s. state.current \in Versions \cup {0} /\ state.previous \in Versions \cup {0}
      /\ record.current \in Versions \cup {0} /\ record.previous \in Versions \cup {0}
      /\ update.target \in Versions \cup {0} /\ update.old \in Pids \cup {0}
      /\ update.trial \in Pids \cup {0} /\ update.child \in Pids \cup {0} /\ update.result \in Pair
  BY <1>0 DEF TypeOK, Pair
<1>5. CASE TakeRequest
  <2>1. request \in Versions /\ Begin(request, FALSE)
    BY <1>0, <1>5 DEF TakeRequest, TypeOK
  <2> QED
    BY <1>1, <1>2, <2>1, Unwatching
<1>6. ASSUME NEW v \in Published, TakePublished(v) PROVE WatchInv'
  BY <1>1, <1>2, <1>6, Unwatching DEF TakePublished
<1>7. CASE InstallFails
  <2>1. [current |-> state.current, previous |-> record.previous] \in Pair
    BY <1>s DEF Pair
  <2> QED
    BY <1>1, <1>4, <1>7, <1>s, <2>1, Unwatching DEF InstallFails
<1>8. CASE InstallDone
  <2>1. update.target \in Versions
    BY <1>s, <1>8 DEF InstallDone, WatchInv, Aimed
  <2>2. AwaitedBy(update.old) \in Pids \cup {0} /\ killed' \subseteq Pids
    BY <1>0, <1>8, <1>s, StopEffect DEF InstallDone
  <2>3. /\ installed' \subseteq Versions /\ awaits' \in Pids \cup {0} /\ pc' = "stop"
        /\ killed' \subseteq Pids
    BY <1>0, <1>8, <2>1, <2>2 DEF InstallDone, TypeOK
  <2>4. UNCHANGED <<link, record, request, life, version, online, busy, beat, child, watched,
                    pending, state, stopped, quits, update>>
    BY <1>8 DEF InstallDone, daemonVars
  <2>5. TypeOK'
    BY <1>0, <2>3, <2>4 DEF TypeOK
  <2>6. Aimed'
    BY <2>3 DEF Aimed
  <2> QED
    BY <1>1, <2>5, <2>6, Unwatching
<1>9. CASE Unlink
  <2>1. TypeOK' /\ Aimed'
    BY <1>0, <1>9 DEF Unlink, TypeOK, Aimed, daemonVars, spawnVars
  <2> QED
    BY <1>1, <2>1, Unwatching
<1>10. CASE SpawnTarget
  <2>1. PICK p \in Pids : Started(p, update.target) /\ update' = [update EXCEPT !.trial = p]
    BY <1>10 DEF SpawnTarget
  <2>2. /\ life' \in [Pids -> {"up", "dead", "exited", "signalled"}]
        /\ version' \in [Pids -> Versions \cup {0}]
        /\ online' \subseteq Pids /\ busy' \subseteq Pids /\ killed' \subseteq Pids /\ beat' = beat
    BY <1>0, <1>s, <2>1, StartedEffect DEF TypeOK
  <2>3. update' \in Updates
    BY <1>0, <2>1 DEF TypeOK, Updates
  <2>4. TypeOK' /\ Aimed'
    BY <1>0, <1>10, <1>s, <2>2, <2>3 DEF SpawnTarget, TypeOK, Updates, Aimed
  <2> QED
    BY <1>1, <2>4, Unwatching
<1>11. CASE Healthy
  <2>1. [current |-> update.target, previous |-> state.current] \in Pair
    BY <1>s DEF Pair
  <2> QED
    BY <1>1, <1>4, <1>11, <1>s, <2>1, Unwatching DEF Healthy
<1>12. CASE Unhealthy
  <2>1. AwaitedBy(update.trial) \in Pids \cup {0} /\ killed' \subseteq Pids
    BY <1>0, <1>12, <1>s, StopEffect DEF Unhealthy
  <2>2. TypeOK' /\ Aimed'
    BY <1>0, <1>12, <2>1 DEF Unhealthy, TypeOK, Aimed, diskVars, daemonVars
  <2> QED
    BY <1>1, <2>2, Unwatching
<1>13. CASE RollBack
  <2> DEFINE pair == [current |-> state.current, previous |-> state.current]
  <2>1. PICK p \in Pids : Started(p, state.current) /\ Write(pair) /\ Returns(pair, p)
    BY <1>13 DEF RollBack
  <2>s. Started(p, state.current)
    BY <2>1
  <2> HIDE DEF pair
  <2>2. /\ life' \in [Pids -> {"up", "dead", "exited", "signalled"}]
        /\ version' \in [Pids -> Versions \cup {0}]
        /\ online' \subseteq Pids /\ busy' \subseteq Pids /\ killed' \subseteq Pids /\ beat' = beat
    <3>1. state.current \in Versions \cup {0} /\ online \subseteq Pids
      BY <1>0, <1>s DEF TypeOK
    <3> QED
      BY <1>0, <2>s, <3>1, StartedEffect
  <2>3. pair \in Pair
    BY <1>s DEF Pair, pair
  <2>4. record' \in Pair
    BY <1>0, <2>1, <2>3 DEF Write, TypeOK
  <2>5. update' \in Updates
        /\ pc' = "clear"
    BY <1>0, <2>1, <2>3 DEF Returns, TypeOK, Updates
  <2>6. TypeOK' /\ Aimed'
    BY <1>0, <1>13, <1>s, <2>2, <2>4, <2>5 DEF RollBack, TypeOK, Updates, Aimed
  <2> QED
    BY <1>1, <2>6, Unwatching
<1>14. CASE NoFallback
  <2>1. [current |-> IF record.current # 0 THEN record.current ELSE state.current,
         previous |-> state.current] \in Pair
    BY <1>s DEF Pair
  <2> QED
    BY <1>1, <1>4, <1>14, <2>1, Unwatching DEF NoFallback
<1>15. CASE Clear
  <2>1. request' \in Versions \cup {0} /\ state' \in Pair /\ child' \in Pids \cup {0}
        /\ pc' = "poll" /\ update' \in Updates
    BY <1>0, <1>15, <1>s, UpdateRecords DEF Clear, TypeOK
  <2>2. UNCHANGED <<link, installed, record, life, version, online, busy, beat, watched, pending,
                    killed, awaits, stopped, quits>>
    BY <1>15 DEF Clear, daemonVars
  <2>3. TypeOK'
    BY <1>0, <2>1, <2>2 DEF TypeOK, Updates
  <2>4. Aimed'
    BY <2>1 DEF Aimed
  <2> QED
    BY <1>1, <2>3, <2>4, Unwatching
<1> QED
  BY <1>5, <1>6, <1>7, <1>8, <1>9, <1>10, <1>11, <1>12, <1>13, <1>14, <1>15

(* Boots, respawns and ends of the supervisor, and the end of a child.     *)
LEMMA ChildSteps ==
  ASSUME WatchInv, \/ Boot \/ Respawn \/ \E p \in Pids : Reap(p)
                   \/ Quits \/ Crash \/ LoopEmpties
  PROVE  WatchInv'
<1> USE SupervisorAssumption
<1>0. TypeOK
  BY DEF WatchInv
<1>1. CASE Boot
  <2>1. Recorded \in Pair /\ Recorded.current \in Versions \cup {0}
    BY <1>0 DEF Recorded, TypeOK, Pair
  <2>2. PICK p \in Pids :
           /\ p \notin watched /\ watched' = watched \cup {p} /\ child' = p
           /\ life' \in [Pids -> {"up", "dead", "exited", "signalled"}]
           /\ version' \in [Pids -> Versions \cup {0}]
           /\ online' = online \ {p} /\ busy' \subseteq Pids /\ killed' \subseteq Pids
           /\ beat' = beat
    BY <1>0, <1>1, <2>1, SpawnEffect DEF Boot
  <2>3. record' \in Pair /\ state' \in Pair
    BY <1>0, <1>1, <2>1 DEF Boot, Write, TypeOK
  <2>4. /\ link' \in Versions \cup {0}
        /\ installed' \subseteq Versions
    <3>1. Package \in Versions /\ link \in Versions \cup {0} /\ installed \subseteq Versions
      BY <1>0 DEF TypeOK
    <3>2. \/ link' = Package /\ installed' = installed \cup {Package}
          \/ link' = link /\ installed' = installed
      BY <1>1 DEF Boot
    <3> QED
      BY <3>1, <3>2
  <2>5. TypeOK'
    BY <1>0, <1>1, <2>2, <2>3, <2>4 DEF Boot, TypeOK
  <2>6. watched = {} /\ pending' = 0 /\ pc' = "poll"
    BY <1>1 DEF Boot, WatchInv, DownIsIdle
  <2> QED
    BY <2>2, <2>5, <2>6 DEF WatchInv, OneWatched, DownIsIdle, Aimed
<1>2. CASE Respawn
  <2>1. PICK p \in Pids :
           /\ p \notin watched /\ watched' = watched \cup {p} /\ child' = p
           /\ life' \in [Pids -> {"up", "dead", "exited", "signalled"}]
           /\ version' \in [Pids -> Versions \cup {0}]
           /\ online' = online \ {p} /\ busy' \subseteq Pids /\ killed' \subseteq Pids
           /\ beat' = beat
    <3>1. state.current \in Versions \cup {0} /\ SpawnCurrent(state.current)
      BY <1>0, <1>2 DEF Respawn, TypeOK, Pair
    <3> QED
      BY <1>0, <3>1, SpawnEffect
  <2>2. /\ pending = 1 /\ ~ stopped /\ pending' = 0
        /\ UNCHANGED <<diskVars, pc, state, awaits, stopped, quits, update>>
    BY <1>2 DEF Respawn
  <2>3. TypeOK'
    BY <1>0, <2>1, <2>2 DEF TypeOK, diskVars
  <2>4. pc # "down" /\ watched = {}
    BY <2>2 DEF WatchInv, OneWatched, DownIsIdle
  <2> QED
    BY <2>1, <2>2, <2>3, <2>4 DEF WatchInv, OneWatched, DownIsIdle, Aimed
<1>3. ASSUME NEW p \in Pids, Reap(p) PROVE WatchInv'
  <2>1. /\ pc # "down" /\ watched' = watched \ {p} /\ killed' = killed \ {p}
        /\ pending' = IF p \in watched /\ ~ stopped THEN pending + 1 ELSE pending
        /\ UNCHANGED <<diskVars, version, online, busy, beat, child, pc, state, stopped, update>>
        /\ awaits' \in {awaits, 0} /\ quits' \in {quits, 0}
    BY <1>3 DEF Reap
  <2>2. life' \in [Pids -> {"up", "dead", "exited", "signalled"}]
    BY <1>0, <1>3 DEF Reap, TypeOK
  <2>3. /\ ~ stopped => \/ pending = 1 /\ watched = {}
                        \/ pending = 0 /\ \E q \in Pids : watched = {q}
        /\ pending \in 0..1
    BY <1>0, <2>1 DEF WatchInv, OneWatched, TypeOK
  <2>4. pending' \in 0..1
    BY <2>1, <2>3
  <2>5. TypeOK'
    BY <1>0, <2>1, <2>2, <2>4 DEF TypeOK, diskVars
  <2>6. OneWatched'
    <3>1. CASE stopped
      BY <2>1, <3>1 DEF OneWatched
    <3>2. CASE ~ stopped /\ pending = 1 /\ watched = {}
      BY <2>1, <3>2 DEF OneWatched
    <3>3. CASE ~ stopped /\ pending = 0 /\ \E q \in Pids : watched = {q}
      <4>1. PICK q \in Pids : watched = {q}
        BY <3>3
      <4>2. CASE p = q
        BY <2>1, <3>3, <4>1, <4>2 DEF OneWatched
      <4>3. CASE p # q
        <5>1. watched' = {q} /\ pending' = 0
          BY <2>1, <3>3, <4>1, <4>3
        <5> QED
          BY <5>1 DEF OneWatched
      <4> QED
        BY <4>2, <4>3
    <3> QED
      BY <2>3, <3>1, <3>2, <3>3
  <2> QED
    BY <2>1, <2>5, <2>6 DEF WatchInv, DownIsIdle, Aimed
<1>4. CASE Quits \/ Crash \/ LoopEmpties
  <2>1. Gone
    BY <1>4 DEF Quits, Crash, LoopEmpties
  <2>2. /\ life' \in [Pids -> {"up", "dead", "exited", "signalled"}]
        /\ version' \in [Pids -> Versions \cup {0}] /\ busy' \subseteq Pids /\ killed' \subseteq Pids
    <3>1. CASE /\ life' = [p \in Pids |-> IF life[p] = "up" THEN "up" ELSE "exited"]
               /\ killed' = {p \in killed : life[p] = "up"}
               /\ UNCHANGED <<version, busy>>
      BY <1>0, <3>1 DEF TypeOK
    <3>2. CASE /\ life' = [p \in Pids |-> "exited"]
               /\ version' = [p \in Pids |-> 0] /\ busy' = {} /\ killed' = {}
      BY <1>0, <3>2 DEF TypeOK
    <3> QED
      BY <2>1, <3>1, <3>2 DEF Gone
  <2>3. TypeOK'
    <3>1. state' \in Pair /\ update' \in Updates
      BY <2>1, UpdateRecords DEF Gone
    <3>2. stopped' \in BOOLEAN /\ beat' \in BOOLEAN
      BY <1>0, <2>1 DEF Gone, TypeOK
    <3>3. /\ pc' = "down" /\ child' = 0 /\ watched' = {} /\ pending' = 0
          /\ awaits' = 0 /\ quits' = 0 /\ UNCHANGED <<link, installed, record, request, online>>
      BY <2>1 DEF Gone, diskVars
    <3> QED
      BY <1>0, <2>2, <3>1, <3>2, <3>3 DEF TypeOK, Updates
  <2> QED
    BY <2>1, <2>3 DEF Gone, WatchInv, OneWatched, DownIsIdle, Aimed
<1> QED
  BY <1>1, <1>2, <1>3, <1>4

(* Daemons, users and signals.                                             *)
LEMMA WorldSteps ==
  ASSUME WatchInv,
         \/ StopRequested
         \/ \E p \in Pids : \/ GoesOnline(p) \/ BeatAges(p) \/ DaemonDies(p)
                            \/ RestartsItself(p) \/ Turns(p) \/ Beats(p)
         \/ \E v \in Requests : Asks(v)
  PROVE  WatchInv'
<1> USE SupervisorAssumption
<1>0. TypeOK
  BY DEF WatchInv
<1>1. CASE StopRequested
  <2>1. AwaitedBy(child) \in Pids \cup {0} /\ killed' \subseteq Pids
    BY <1>0, <1>1, StopEffect DEF StopRequested, TypeOK
  <2>2. TypeOK'
    BY <1>0, <1>1, <2>1 DEF StopRequested, TypeOK, diskVars, daemonVars
  <2> QED
    BY <1>1, <2>2 DEF StopRequested, WatchInv, OneWatched, DownIsIdle, Aimed
<1>2. ASSUME UNCHANGED <<link, installed, record, child, watched, pending, pc, state, awaits, stopped,
                         quits, update>>,
             request' \in Versions \cup {0},
             life' \in [Pids -> {"up", "dead", "exited", "signalled"}],
             version' \in [Pids -> Versions \cup {0}],
             online' \subseteq Pids, busy' \subseteq Pids, killed' \subseteq Pids, beat' \in BOOLEAN
      PROVE  WatchInv'
  <2>1. TypeOK'
    BY <1>0, <1>2 DEF TypeOK
  <2> QED
    BY <1>2, <2>1 DEF WatchInv, OneWatched, DownIsIdle, Aimed
<1>3. ASSUME NEW p \in Pids, GoesOnline(p) \/ BeatAges(p) \/ Turns(p) \/ Beats(p) PROVE WatchInv'
  <2>1. /\ UNCHANGED <<diskVars, life, version, spawnVars, pc, state, awaits, stopped, quits, update>>
        /\ online' \subseteq Pids /\ busy' \subseteq Pids /\ beat' \in BOOLEAN
    <3>1. CASE GoesOnline(p) \/ BeatAges(p) \/ Turns(p)
      BY <1>0, <3>1 DEF GoesOnline, BeatAges, Turns, TypeOK
    <3>2. CASE Beats(p)
      <4>1. beat' = (p \in busy)
        BY <3>2 DEF Beats
      <4>2. beat' \in BOOLEAN
        BY <4>1
      <4> QED
        BY <1>0, <3>2, <4>2 DEF Beats, TypeOK
    <3> QED
      BY <1>3, <3>1, <3>2
  <2> QED
    BY <1>0, <1>2, <2>1 DEF TypeOK, diskVars, spawnVars
<1>4. ASSUME NEW p \in Pids, DaemonDies(p) PROVE WatchInv'
  <2>1. /\ UNCHANGED <<diskVars, online, beat, child, watched, pending, pc, state, awaits, stopped,
                       quits, update>>
        /\ life' \in [Pids -> {"up", "dead", "exited", "signalled"}]
        /\ version' \in [Pids -> Versions \cup {0}]
        /\ busy' \subseteq Pids /\ killed' \subseteq Pids
    BY <1>0, <1>4 DEF DaemonDies, TypeOK
  <2> QED
    BY <1>0, <1>2, <2>1 DEF TypeOK, diskVars
<1>5. ASSUME NEW p \in Pids, RestartsItself(p) PROVE WatchInv'
  <2>1. PICK q \in Pids \ {p} :
       /\ life' = [life EXCEPT ![q] = "up", ![p] = IF pc = "down" THEN "exited" ELSE "dead"]
       /\ version' = [version EXCEPT ![q] = version[p], ![p] = 0]
       /\ online' = online \ {q} /\ busy' = busy \ {p, q} /\ killed' = killed \ {q}
    BY <1>5 DEF RestartsItself
  <2>2. /\ UNCHANGED <<diskVars, beat, child, watched, pending, pc, state, awaits, stopped, quits,
                       update>>
    BY <1>5 DEF RestartsItself
  <2>3. /\ life' \in [Pids -> {"up", "dead", "exited", "signalled"}]
        /\ version' \in [Pids -> Versions \cup {0}]
        /\ online' \subseteq Pids /\ busy' \subseteq Pids /\ killed' \subseteq Pids
    BY <1>0, <2>1 DEF TypeOK
  <2> QED
    BY <1>0, <1>2, <2>2, <2>3 DEF TypeOK, diskVars
<1>6. ASSUME NEW v \in Requests, Asks(v) PROVE WatchInv'
  <2>1. request' \in Versions
    BY <1>6 DEF Asks
  <2> QED
    BY <1>0, <1>2, <1>6, <2>1 DEF Asks, TypeOK, daemonVars, spawnVars
<1> QED
  BY <1>1, <1>3, <1>4, <1>5, <1>6

LEMMA WatchStep == WatchInv /\ [Next]_vars => WatchInv'
<1> SUFFICES ASSUME WatchInv, [Next]_vars PROVE WatchInv'
  OBVIOUS
<1>1. CASE UNCHANGED vars
  BY <1>1 DEF vars, diskVars, daemonVars, spawnVars, WatchInv, TypeOK, OneWatched, DownIsIdle, Aimed
<1> QED
  BY <1>1, UpdateSteps, ChildSteps, WorldSteps DEF Next, SupervisorStep, Environment

(* The type, one child watched or one timer due, and nothing of either     *)
(* when the supervisor is down, in every state (supervise.mjs:114-140).    *)
THEOREM WatchInvariant == Spec => []WatchInv
<1> QED
  BY WatchInit, WatchStep, PTL DEF Spec

(* Exactly one child or one timer is responsible for there being a daemon, *)
(* through updates, rollbacks, respawns and stops (supervise.mjs:114-140). *)
THEOREM DaemonIsWatchedOnce == Spec => []OneWatched
<1>1. WatchInv => OneWatched
  BY DEF WatchInv
<1> QED
  BY WatchInvariant, <1>1, PTL

-----------------------------------------------------------------------------
(* Where versions come from, and which of them a daemon was seen to run.   *)
Origin == Published \cup Requests \cup {Package}

Trusted == Sound \cap Origin

Updating == {"install", "stop", "flip", "health", "undo"}

(* The beat a health check finds is one of the version on trial.           *)
TrialSpeaks ==
  pc = "health" =>
     /\ update.trial \in Pids
     /\ life[update.trial] = "up" => version[update.trial] = update.target
     /\ update.trial \in online => update.target \in Sound

(* Nothing is recorded, or held to be the version at hand, that no daemon  *)
(* was seen to run.                                                        *)
RecordSound ==
  /\ request \in Requests \cup {0}
  /\ record.current \in Trusted \cup {0}
  /\ pc # "down" => state.current \in Trusted
  /\ pc \in Updating => update.target \in Origin
  /\ pc = "clear" => update.result.current \in Trusted

SoundInv == WatchInv /\ TrialSpeaks /\ RecordSound

(* The first version is the package's own, or nothing was installed yet.   *)
OwnLink == Linked \subseteq {0, Package}

(* What is recorded, held or linked is on disk.                            *)
DiskInv ==
  /\ (link # 0 \/ pc # "down") => Package \in installed
  /\ record.current \in installed \cup {0} /\ record.previous \in installed \cup {0}
  /\ pc # "down" => state.current \in installed
  /\ pc \in {"stop", "flip", "health", "undo"} => update.target \in installed
  /\ pc = "clear" =>
       update.result.current \in installed /\ update.result.previous \in installed \cup {0}

(* Nobody asks for a version that could run and is older than one the      *)
(* registry, the package or another request may bring.                     *)
Forward == \A q \in Requests \cap Sound, v \in Trusted : v <= q

(* The record runs behind the supervisor and never ahead of it.            *)
RecordTrails ==
  /\ pc \notin {"down", "clear"} => record.current <= state.current
  /\ pc = "clear" => record.current <= update.result.current
  /\ pc \in Updating => (update.target \in Sound => state.current <= update.target)

LEMMA PackageIsTrusted == Package \in Trusted /\ 0 \notin Trusted /\ Trusted \subseteq Nat
  BY SupervisorAssumption DEF Trusted, Origin

(* The steps that leave the update and the disk alone.                     *)
Background == UNCHANGED <<link, installed, record, pc, state, update>>

LEMMA BackgroundSteps ==
  ASSUME WatchInv,
         \/ Respawn \/ \E p \in Pids : Reap(p)
         \/ StopRequested
         \/ \E p \in Pids : \/ GoesOnline(p) \/ BeatAges(p) \/ DaemonDies(p)
                            \/ RestartsItself(p) \/ Turns(p) \/ Beats(p)
         \/ \E v \in Requests : Asks(v)
  PROVE  Background /\ request' \in Requests \cup {request} /\ (TrialSpeaks => TrialSpeaks')
<1>0. TypeOK
  BY DEF WatchInv
<1>t. update.trial \in Pids \cup {0} /\ 0 \notin Pids
  BY <1>0, SupervisorAssumption DEF TypeOK
<1>1. CASE Respawn
  <2>1. /\ Background /\ UNCHANGED request
        /\ state.current \in Versions \cup {0} /\ SpawnCurrent(state.current)
    BY <1>0, <1>1 DEF Respawn, Background, diskVars, TypeOK, Pair
  <2>2. PICK p \in Pids :
          /\ \A q \in Pids \ {p} : life'[q] = life[q] /\ version'[q] = version[q]
          /\ online' = online \ {p} /\ p # update.trial
    BY <1>0, <2>1, SpawnEffect
  <2> QED
    BY <2>1, <2>2 DEF TrialSpeaks, Background
<1>2. ASSUME NEW p \in Pids, Reap(p)
      PROVE  Background /\ request' = request /\ (TrialSpeaks => TrialSpeaks')
  <2>1. Background /\ UNCHANGED <<request, version, online>>
    BY <1>2 DEF Reap, Background, diskVars
  <2>2. \A q \in Pids : life'[q] = "up" => life[q] = "up"
    BY <1>0, <1>2 DEF Reap, TypeOK
  <2> QED
    BY <2>1, <2>2 DEF TrialSpeaks, Background
<1>3. CASE StopRequested
  BY <1>3 DEF StopRequested, Background, TrialSpeaks, diskVars, daemonVars
<1>4. ASSUME NEW p \in Pids, GoesOnline(p)
      PROVE  Background /\ request' = request /\ (TrialSpeaks => TrialSpeaks')
  <2>1. /\ Background /\ UNCHANGED <<request, life, version>> /\ online' = online \cup {p}
        /\ life[p] = "up" /\ version[p] \in Sound
    BY <1>4 DEF GoesOnline, Background, diskVars
  <2> QED
    BY <2>1 DEF TrialSpeaks, Background
<1>5. ASSUME NEW p \in Pids, BeatAges(p) \/ Turns(p) \/ Beats(p)
      PROVE  Background /\ request' = request /\ (TrialSpeaks => TrialSpeaks')
  <2>1. Background /\ UNCHANGED <<request, life, version>> /\ online' \subseteq online
    BY <1>5 DEF BeatAges, Turns, Beats, Background, diskVars
  <2> QED
    BY <2>1 DEF TrialSpeaks, Background
<1>6. ASSUME NEW p \in Pids, DaemonDies(p)
      PROVE  Background /\ request' = request /\ (TrialSpeaks => TrialSpeaks')
  <2>1. Background /\ UNCHANGED <<request, online>>
    BY <1>6 DEF DaemonDies, Background, diskVars
  <2>2. \A q \in Pids : life'[q] = "up" => (life[q] = "up" /\ version'[q] = version[q])
    BY <1>0, <1>6 DEF DaemonDies, TypeOK
  <2> QED
    BY <2>1, <2>2 DEF TrialSpeaks, Background
<1>7. ASSUME NEW p \in Pids, RestartsItself(p)
      PROVE  Background /\ request' = request /\ (TrialSpeaks => TrialSpeaks')
  <2>1. PICK q \in Pids \ {p} :
       /\ Free(q)
       /\ life' = [life EXCEPT ![q] = "up", ![p] = IF pc = "down" THEN "exited" ELSE "dead"]
       /\ version' = [version EXCEPT ![q] = version[p], ![p] = 0]
       /\ online' = online \ {q} /\ busy' = busy \ {p, q} /\ killed' = killed \ {q}
    BY <1>7 DEF RestartsItself
  <2>2. Background /\ UNCHANGED request
    BY <1>7 DEF RestartsItself, Background, diskVars
  <2>3. \A n \in Pids \ {q} : life'[n] = "up" => (life[n] = "up" /\ version'[n] = version[n])
    BY <1>0, <2>1 DEF TypeOK
  <2>4. q # update.trial
    BY <2>1 DEF Free
  <2> QED
    BY <2>1, <2>2, <2>3, <2>4 DEF TrialSpeaks, Background
<1>8. ASSUME NEW v \in Requests, Asks(v)
      PROVE  Background /\ request' = v /\ (TrialSpeaks => TrialSpeaks')
  BY <1>8 DEF Asks, Background, TrialSpeaks, daemonVars
<1> QED
  BY <1>1, <1>2, <1>3, <1>4, <1>5, <1>6, <1>7, <1>8

(* What is left when the supervisor ends.                                  *)
LEMMA EndSteps ==
  ASSUME Quits \/ Crash \/ LoopEmpties
  PROVE  pc' = "down" /\ UNCHANGED <<link, installed, record, request>>
  BY DEF Quits, Crash, LoopEmpties, Gone, diskVars

LEMMA SoundInit == Init => SoundInv
<1> SUFFICES ASSUME Init PROVE SoundInv
  OBVIOUS
<1>1. TrialSpeaks /\ RecordSound
  BY DEF Init, TrialSpeaks, RecordSound, Nothing, Updating
<1> QED
  BY <1>1, WatchInit DEF SoundInv

LEMMA SoundStep == SoundInv /\ [Next]_vars => SoundInv'
<1> SUFFICES ASSUME SoundInv, [Next]_vars PROVE TrialSpeaks' /\ RecordSound'
  BY WatchStep DEF SoundInv
<1> USE SupervisorAssumption, PackageIsTrusted
<1>0. WatchInv /\ TypeOK /\ TrialSpeaks /\ RecordSound
  BY DEF SoundInv, WatchInv
<1>u. \A pair \in Pair : Write(pair) => record' \in {pair, record}
  BY DEF Write
<1>s. state.current \in Versions \cup {0} /\ state.previous \in Versions \cup {0}
      /\ record.current \in Versions \cup {0} /\ record.previous \in Versions \cup {0}
      /\ update.target \in Versions \cup {0}
  BY <1>0 DEF TypeOK, Pair
<1>1. CASE UNCHANGED vars
  BY <1>0, <1>1 DEF vars, diskVars, daemonVars, TrialSpeaks, RecordSound
<1>2. ASSUME Background, request' \in Requests \cup {request}, TrialSpeaks => TrialSpeaks'
      PROVE  TrialSpeaks' /\ RecordSound'
  BY <1>0, <1>2 DEF Background, RecordSound
<1>3. CASE Quits \/ Crash \/ LoopEmpties
  BY <1>0, <1>3, EndSteps DEF TrialSpeaks, RecordSound, Updating
<1>4. CASE Boot
  <2>1. /\ pc' = "poll" /\ state' = Recorded /\ UNCHANGED request
        /\ record' \in {Recorded, record}
    BY <1>4 DEF Boot, Write
  <2>2. Recorded.current \in Trusted
    BY <1>0 DEF Recorded, RecordSound
  <2> QED
    BY <1>0, <2>1, <2>2 DEF TrialSpeaks, RecordSound, Updating
<1>5. ASSUME NEW v \in Origin, NEW auto \in BOOLEAN, pc = "poll", Begin(v, auto)
      PROVE  TrialSpeaks' /\ RecordSound'
  <2>1. pc' = "install" /\ update'.target = v /\ UNCHANGED <<request, record, state>>
    BY <1>5 DEF Begin, NoUpdate, diskVars
  <2> QED
    BY <1>0, <1>5, <2>1 DEF TrialSpeaks, RecordSound
<1>6. CASE TakeRequest
  <2>1. request \in Origin /\ pc = "poll" /\ Begin(request, FALSE)
    BY <1>0, <1>6 DEF TakeRequest, RecordSound, Origin
  <2> QED
    BY <1>5, <2>1
<1>7. ASSUME NEW v \in Published, TakePublished(v) PROVE TrialSpeaks' /\ RecordSound'
  BY <1>5, <1>7 DEF TakePublished, Origin
(* performSelfUpdate() ends with a pair of versions.                       *)
<1>8. ASSUME NEW c \in Trusted, NEW o, NEW p,
             Write([current |-> c, previous |-> o]), Returns([current |-> c, previous |-> o], p),
             UNCHANGED <<request, state>>, pc # "down"
      PROVE  TrialSpeaks' /\ RecordSound'
  <2>1. record'.current \in {c, record.current}
    BY <1>8 DEF Write
  <2>2. pc' = "clear" /\ update'.result.current = c
    BY <1>0, <1>8 DEF Returns, TypeOK
  <2> QED
    BY <1>0, <1>8, <2>1, <2>2 DEF TrialSpeaks, RecordSound, Updating
<1>9. CASE InstallFails
  BY <1>0, <1>8, <1>9 DEF InstallFails, RecordSound
<1>10. CASE InstallDone \/ Unlink \/ Unhealthy
  <2>1. /\ pc \in Updating \ {"flip"} /\ pc' \in {"stop", "flip", "undo"}
        /\ update'.target = update.target /\ UNCHANGED <<request, record, state>>
    BY <1>0, <1>10 DEF InstallDone, Unlink, Unhealthy, TypeOK, Updating, diskVars
  <2> QED
    BY <1>0, <2>1 DEF TrialSpeaks, RecordSound, Updating
<1>11. CASE SpawnTarget
  <2>1. PICK p \in Pids : Started(p, update.target) /\ update' = [update EXCEPT !.trial = p]
    BY <1>11 DEF SpawnTarget
  <2>2. version'[p] = update.target /\ p \notin online'
    BY <1>0, <1>s, <2>1, StartedEffect
  <2>3. /\ pc = "flip" /\ pc' = "health" /\ UNCHANGED <<request, record, state>>
        /\ update'.target = update.target /\ update'.trial = p
    BY <1>0, <1>11, <2>1 DEF SpawnTarget, TypeOK
  <2> QED
    BY <1>0, <2>2, <2>3 DEF TrialSpeaks, RecordSound, Updating
<1>12. CASE Healthy
  <2>1. update.target \in Trusted
    BY <1>0, <1>12 DEF Healthy, TrialSpeaks, RecordSound, Trusted, Updating
  <2> QED
    BY <1>8, <1>12, <2>1 DEF Healthy
<1>13. CASE RollBack
  BY <1>0, <1>8, <1>13 DEF RollBack, RecordSound
<1>14. CASE NoFallback
  <2>1. (IF record.current # 0 THEN record.current ELSE state.current) \in Trusted
    BY <1>0, <1>14 DEF NoFallback, RecordSound
  <2> QED
    BY <1>8, <1>14, <2>1 DEF NoFallback
<1>15. CASE Clear
  <2>1. /\ pc = "clear" /\ pc' = "poll" /\ state' = update.result /\ UNCHANGED record
        /\ request' \in {request, 0}
    BY <1>15 DEF Clear
  <2> QED
    BY <1>0, <2>1 DEF TrialSpeaks, RecordSound, Updating
<1> QED
  BY <1>0, <1>1, <1>2, <1>3, <1>4, <1>6, <1>7, <1>9, <1>10, <1>11, <1>12, <1>13, <1>14, <1>15,
     BackgroundSteps
  DEF Next, SupervisorStep, Environment

(* A health check hears the version on trial and no other, and nothing is  *)
(* recorded that no daemon was seen to run (selfUpdate.mjs:130-150).       *)
THEOREM SoundInvariant == Spec => []SoundInv
<1> QED
  BY SoundInit, SoundStep, PTL DEF Spec

-----------------------------------------------------------------------------
LEMMA DiskStep ==
  ASSUME OwnLink, SoundInv, DiskInv, [Next]_vars
  PROVE  DiskInv'
<1> USE SupervisorAssumption, PackageIsTrusted
<1>0. WatchInv /\ TypeOK /\ TrialSpeaks /\ RecordSound
  BY DEF SoundInv, WatchInv
<1>1. CASE UNCHANGED vars
  BY <1>1 DEF vars, diskVars, DiskInv
<1>2. ASSUME Background PROVE DiskInv'
  BY <1>2 DEF Background, DiskInv
<1>3. CASE Quits \/ Crash \/ LoopEmpties
  BY <1>3, EndSteps DEF DiskInv
<1>4. CASE Boot
  <2>1. /\ pc' = "poll" /\ state' = Recorded /\ record' \in {Recorded, record}
        /\ installed \subseteq installed' /\ (link = 0 => Package \in installed')
    BY <1>4 DEF Boot, Write
  <2>2. Package \in installed'
    BY <2>1 DEF DiskInv
  <2>3. Recorded.current \in installed' /\ Recorded.previous \in installed' \cup {0}
    BY <2>1, <2>2 DEF Recorded, DiskInv
  <2> QED
    BY <2>1, <2>2, <2>3 DEF DiskInv
<1>5. CASE TakeRequest \/ \E v \in Published : TakePublished(v)
  <2>1. pc = "poll" /\ pc' = "install" /\ UNCHANGED <<link, installed, record, state>>
    BY <1>5 DEF TakeRequest, TakePublished, Begin, diskVars
  <2> QED
    BY <2>1 DEF DiskInv
<1>6. ASSUME NEW c \in installed, NEW o \in installed \cup {0}, NEW p, pc # "down",
             Write([current |-> c, previous |-> o]), Returns([current |-> c, previous |-> o], p),
             UNCHANGED <<installed, state>>
      PROVE  DiskInv'
  <2>1. /\ record'.current \in {c, record.current} /\ record'.previous \in {o, record.previous}
    BY <1>6 DEF Write
  <2>2. pc' = "clear" /\ update'.result.current = c /\ update'.result.previous = o
    BY <1>0, <1>6 DEF Returns, TypeOK
  <2> QED
    BY <1>6, <2>1, <2>2 DEF DiskInv
<1>7. CASE InstallFails
  <2>1. state.current \in installed /\ record.previous \in installed \cup {0}
    BY <1>7 DEF InstallFails, DiskInv
  <2> QED
    BY <1>6, <1>7, <2>1 DEF InstallFails
<1>8. CASE InstallDone
  <2>1. /\ pc = "install" /\ pc' = "stop" /\ installed' = installed \cup {update.target}
        /\ UNCHANGED <<link, record, state, update>>
    BY <1>8 DEF InstallDone
  <2> QED
    BY <2>1 DEF DiskInv
<1>9. CASE Unlink \/ SpawnTarget \/ Unhealthy
  <2>1. /\ pc \in {"stop", "flip", "health"} /\ pc' \in {"flip", "health", "undo"}
        /\ UNCHANGED <<installed, record, state>> /\ update'.target = update.target
    BY <1>0, <1>9 DEF Unlink, SpawnTarget, Unhealthy, diskVars, TypeOK
  <2> QED
    BY <2>1 DEF DiskInv
<1>10. CASE Healthy
  <2>1. update.target \in installed /\ state.current \in installed
    BY <1>10 DEF Healthy, DiskInv
  <2> QED
    BY <1>6, <1>10, <2>1 DEF Healthy
<1>11. CASE RollBack
  <2>1. state.current \in installed /\ pc # "down"
    BY <1>11 DEF RollBack
  <2> QED
    BY <1>6, <1>11, <2>1 DEF RollBack
<1>12. CASE NoFallback
  BY <1>12 DEF NoFallback, DiskInv
<1>13. CASE Clear
  <2>1. /\ pc = "clear" /\ pc' = "poll" /\ state' = update.result
        /\ UNCHANGED <<link, installed, record>>
    BY <1>13 DEF Clear
  <2> QED
    BY <2>1 DEF DiskInv
<1> QED
  BY <1>0, <1>1, <1>2, <1>3, <1>4, <1>5, <1>7, <1>8, <1>9, <1>10, <1>11, <1>12, <1>13,
     BackgroundSteps
  DEF Next, SupervisorStep, Environment

(* Wherever an update is cut short, what is recorded was seen to register  *)
(* and is on disk, and so is the version before it.  The hypothesis is     *)
(* that nobody linked a version before the first supervisor ran            *)
(* (supervise.mjs:12-13, selfUpdate.mjs:9-12).                             *)
THEOREM SupervisorRestarts == OwnLink => (Spec => []Restartable)
<1> SUFFICES ASSUME OwnLink PROVE Spec => []Restartable
  OBVIOUS
<1>1. Init => DiskInv
  <2> SUFFICES ASSUME Init PROVE DiskInv
    OBVIOUS
  <2>1. link \in {0, Package} /\ installed = {link} \ {0} /\ pc = "down" /\ record = Nothing
    BY DEF Init, OwnLink
  <2> QED
    BY <2>1 DEF DiskInv, Nothing
<1>2. SoundInv /\ DiskInv /\ [Next]_vars => DiskInv'
  BY DiskStep
<1>3. SoundInv /\ DiskInv => Restartable
  BY DEF SoundInv, RecordSound, DiskInv, Restartable, Trusted
<1> QED
  BY SoundInvariant, <1>1, <1>2, <1>3, PTL DEF Spec

-----------------------------------------------------------------------------
(* The last conjunct is what NeverBackwards says of a step.                *)
LEMMA TrailStep ==
  ASSUME Forward, SoundInv, RecordTrails, [Next]_vars
  PROVE  RecordTrails' /\ (record.current # 0 => record'.current >= record.current)
<1> USE SupervisorAssumption, PackageIsTrusted
<1>0. WatchInv /\ TypeOK /\ TrialSpeaks /\ RecordSound
  BY DEF SoundInv, WatchInv
<1>n. /\ record.current \in Nat /\ state.current \in Nat
      /\ update.target \in Nat /\ update.result.current \in Nat
  <2>1. record \in Pair /\ state \in Pair /\ update.result \in Pair /\ update.target \in Versions \cup {0}
    BY <1>0 DEF TypeOK
  <2>2. \A pair \in Pair : pair.current \in Versions \cup {0}
    BY DEF Pair
  <2>3. Versions \cup {0} \subseteq Nat
    OBVIOUS
  <2> QED
    BY <2>1, <2>2, <2>3
<1> DEFINE Goal == RecordTrails' /\ (record.current # 0 => record'.current >= record.current)
<1>1. CASE UNCHANGED vars
  BY <1>1, <1>n DEF vars, diskVars, RecordTrails
<1>2. ASSUME Background PROVE Goal
  BY <1>2, <1>n DEF Background, RecordTrails
<1>3. CASE Quits \/ Crash \/ LoopEmpties
  BY <1>3, <1>n, EndSteps DEF RecordTrails, Updating
<1>4. CASE Boot
  <2>1. /\ pc' = "poll" /\ state' = Recorded
        /\ IF record.current = 0 THEN record' \in {Recorded, record} ELSE record' = record
    BY <1>4 DEF Boot, Write
  <2>2. CASE record.current = 0
    <3>1. Recorded.current = Package /\ record'.current \in {0, Package}
      BY <2>1, <2>2 DEF Recorded
    <3> QED
      BY <2>1, <2>2, <3>1 DEF RecordTrails, Updating
  <2>3. CASE record.current # 0
    <3>1. state' = record /\ record' = record
      BY <2>1, <2>3 DEF Recorded
    <3> QED
      BY <1>n, <2>1, <3>1 DEF RecordTrails, Updating
  <2> QED
    BY <2>2, <2>3
<1>5. ASSUME NEW v \in Nat, NEW auto \in BOOLEAN, pc = "poll", Begin(v, auto),
             v \in Sound => state.current <= v
      PROVE  Goal
  <2>1. pc' = "install" /\ update'.target = v /\ UNCHANGED <<record, state>>
    BY <1>5 DEF Begin, NoUpdate, diskVars
  <2> QED
    BY <1>5, <1>n, <2>1 DEF RecordTrails
<1>6. CASE TakeRequest
  <2>1. request \in Requests /\ pc = "poll" /\ Begin(request, FALSE)
    BY <1>0, <1>6 DEF TakeRequest, RecordSound
  <2>2. request \in Sound => state.current <= request
    BY <1>0, <2>1 DEF Forward, RecordSound
  <2> QED
    BY <1>5, <2>1, <2>2
<1>7. ASSUME NEW v \in Published, TakePublished(v) PROVE Goal
  <2>0. v \in Nat
    OBVIOUS
  <2>1. pc = "poll" /\ Begin(v, TRUE) /\ v > state.current
    BY <1>7 DEF TakePublished
  <2>2. state.current <= v
    BY <1>n, <2>0, <2>1
  <2> QED
    BY <1>5, <2>0, <2>1, <2>2
<1>8. ASSUME NEW c \in Nat, NEW o, NEW p, pc \in Updating, record.current <= c,
             Write([current |-> c, previous |-> o]), Returns([current |-> c, previous |-> o], p)
      PROVE  Goal
  <2>1. record'.current \in {c, record.current}
    BY <1>8 DEF Write
  <2>2. pc' = "clear" /\ update'.result.current = c
    BY <1>0, <1>8 DEF Returns, TypeOK
  <2> QED
    BY <1>8, <1>n, <2>1, <2>2 DEF RecordTrails, Updating
<1>9. CASE InstallFails \/ RollBack
  <2>1. /\ pc \in Updating /\ record.current <= state.current
    BY <1>9 DEF InstallFails, RollBack, RecordTrails, Updating
  <2>2. \E o, p : Write([current |-> state.current, previous |-> o])
                    /\ Returns([current |-> state.current, previous |-> o], p)
    BY <1>9 DEF InstallFails, RollBack
  <2> QED
    BY <1>8, <1>n, <2>1, <2>2
<1>10. CASE InstallDone \/ Unlink \/ SpawnTarget \/ Unhealthy
  <2>1. /\ pc \in Updating /\ pc' \in Updating
        /\ UNCHANGED <<record, state>> /\ update'.target = update.target
    BY <1>0, <1>10 DEF InstallDone, Unlink, SpawnTarget, Unhealthy, diskVars, TypeOK, Updating
  <2> QED
    BY <1>n, <2>1 DEF RecordTrails, Updating
<1>11. CASE Healthy
  <2>1. /\ pc \in Updating /\ record.current <= state.current /\ state.current <= update.target
    BY <1>0, <1>11 DEF Healthy, RecordTrails, Updating, TrialSpeaks
  <2>2. record.current <= update.target
    BY <1>n, <2>1
  <2> QED
    BY <1>8, <1>11, <1>n, <2>1, <2>2 DEF Healthy
<1>12. CASE NoFallback
  <2> DEFINE c == IF record.current # 0 THEN record.current ELSE state.current
  <2>1. pc \in Updating /\ record.current <= c /\ c \in Nat
    BY <1>n, <1>12 DEF NoFallback, RecordTrails, Updating
  <2>2. \E o, p : Write([current |-> c, previous |-> o]) /\ Returns([current |-> c, previous |-> o], p)
    BY <1>12 DEF NoFallback
  <2> HIDE DEF c
  <2> QED
    BY <1>8, <2>1, <2>2
<1>13. CASE Clear
  <2>1. pc = "clear" /\ pc' = "poll" /\ state' = update.result /\ UNCHANGED record
    BY <1>13 DEF Clear
  <2> QED
    BY <1>n, <2>1 DEF RecordTrails, Updating
<1> QED
  BY <1>0, <1>1, <1>2, <1>3, <1>4, <1>6, <1>7, <1>9, <1>10, <1>11, <1>12, <1>13,
     BackgroundSteps
  DEF Next, SupervisorStep, Environment

(* The recorded version never decreases, through crashes, rollbacks and    *)
(* lost writes, unless somebody asks for an older version that works       *)
(* (supervise.mjs:167-168).                                                *)
THEOREM RecordNeverGoesBack == Forward => (Spec => NeverBackwards)
<1> SUFFICES ASSUME Forward PROVE Spec => NeverBackwards
  OBVIOUS
<1>1. Init => RecordTrails
  BY DEF Init, RecordTrails, Updating
<1>2. SoundInv /\ RecordTrails /\ [Next]_vars
      => RecordTrails' /\ [record.current # 0 => record'.current >= record.current]_record
  BY TrailStep
<1> QED
  BY SoundInvariant, <1>1, <1>2, PTL DEF Spec, NeverBackwards

=============================================================================
