--------------------------- MODULE HubLinkProofs ---------------------------
(***************************************************************************)
(* What holds of the connection for any jobs, any number of sockets and    *)
(* any room for parked results; and of the daemon, which has a queue too.  *)
(***************************************************************************)
EXTENDS Daemon, JobQueueProofs, FiniteSetTheorems, TLAPS

(* A socket is dialled only when there is none; the first has number 1.    *)
OneSocket ==
  /\ retry => (sock = "none" /\ ~ stopped)
  /\ epoch = 0 => sock = "none"

LinkInv ==
  TypeOK /\ OneSocket /\ OneHeartbeat /\ AlwaysComesBack /\ ParkedOnlyWhileCut

(* Nothing parked, nothing on the wire.                                    *)
LEMMA EmptyIsSeq == << >> \in Seq(Jobs) /\ Len(<< >>) = 0
  OBVIOUS

(* One more answer on the wire.                                            *)
LEMMA AppendIsSeq ==
  ASSUME NEW j \in Jobs, NEW s \in Seq(Jobs)
  PROVE  Append(s, j) \in Seq(Jobs)
  OBVIOUS

(* What a park does to the parked results.                                 *)
LEMMA ParkEffect ==
  ASSUME TypeOK, NEW j \in Jobs, Park(j)
  PROVE  parked' \in Seq(Jobs) /\ Len(parked') <= Room
<1>1. Room \in Nat \ {0}
  BY LinkAssumption
<1>2. CASE Len(parked) >= Room
  <2>1. parked # << >>
    BY <1>1, <1>2 DEF TypeOK
  <2>2. Tail(parked) \in Seq(Jobs) /\ Len(Tail(parked)) = Len(parked) - 1
    BY <2>1 DEF TypeOK
  <2>3. parked' = Append(Tail(parked), j)
    BY <1>2 DEF Park
  <2> QED
    BY <1>1, <2>2, <2>3 DEF TypeOK
<1>3. CASE ~ (Len(parked) >= Room)
  <2>1. parked' = Append(parked, j)
    BY <1>3 DEF Park
  <2> QED
    BY <1>1, <1>3, <2>1 DEF TypeOK
<1> QED
  BY <1>2, <1>3

(* ... and what the end of a turn does to parked and wire.                 *)
LEMMA SendEffect ==
  ASSUME TypeOK, NEW j \in Jobs, SendResult(j)
  PROVE  /\ parked' \in Seq(Jobs) /\ Len(parked') <= Room
         /\ wire' \in Seq(Jobs)
         /\ sock = "open" => parked' = parked
<1>1. parked' = parked \/ Park(j)
  BY DEF SendResult
<1>2. wire' = wire \/ wire' = Append(wire, j)
  BY DEF SendResult
<1>3. sock = "open" => parked' = parked
  BY DEF SendResult, SocketOf, Usable
<1>4. parked' \in Seq(Jobs) /\ Len(parked') <= Room
  BY <1>1, ParkEffect DEF TypeOK
<1>5. wire' \in Seq(Jobs)
  <2>1. wire \in Seq(Jobs)
    BY DEF TypeOK
  <2>2. Append(wire, j) \in Seq(Jobs)
    BY <2>1, AppendIsSeq
  <2> QED
    BY <1>2, <2>1, <2>2
<1> QED
  BY <1>3, <1>4, <1>5

(* The socket after a stop is not open, and nothing beats on it.           *)
LEMMA StopEffect ==
  ASSUME LinkInv, Stop
  PROVE  /\ stopped' /\ ~ retry' /\ beats' = {}
         /\ sock' \in {"none", "closing"}
         /\ sock = "none" => sock' = "none"
         /\ epoch' = epoch /\ silent' = silent /\ opening' = opening
         /\ asked' = asked /\ registered' = registered /\ beatTimer' = beatTimer
  BY DEF Stop, LinkInv, TypeOK, OneHeartbeat

LEMMA AfterRunEffect ==
  ASSUME LinkInv, AfterRun
  PROVE  \/ Stop
         \/ UNCHANGED <<linkVars, stopped>>
  BY DEF AfterRun

(* The parts of the invariant that speak of the link alone.                *)
LinkPart == OneSocket /\ OneHeartbeat /\ AlwaysComesBack

LEMMA StopKeepsLink ==
  ASSUME LinkInv, Stop
  PROVE  /\ LinkPart'
         /\ sock' # "open"
         /\ sock' \in {"none", "dialing", "open", "closing"}
         /\ epoch' \in 0..MaxSockets /\ silent' \in BOOLEAN
         /\ opening' \subseteq 1..MaxSockets
         /\ asked' \in BOOLEAN /\ registered' \in BOOLEAN /\ retry' \in BOOLEAN
         /\ beats' \subseteq 1..MaxSockets /\ beatTimer' \in 0..MaxSockets
         /\ stopped' \in BOOLEAN
<1>1. retry' = FALSE /\ stopped' = TRUE
  BY DEF Stop
<1> QED
  BY <1>1, StopEffect
     DEF LinkInv, TypeOK, LinkPart, OneSocket, OneHeartbeat, AlwaysComesBack

LEMMA InitInv == Start /\ process \in {"up", "stopped"} => LinkInv
<1> SUFFICES ASSUME Start, process \in {"up", "stopped"} PROVE LinkInv
  OBVIOUS
<1>1. MaxSockets \in Nat /\ Room \in Nat
  BY LinkAssumption
<1>2. parked \in Seq(Jobs) /\ Len(parked) <= Room /\ wire \in Seq(Jobs)
  BY <1>1, EmptyIsSeq DEF Start
<1>3. phase \in [Jobs -> {"new", "waiting", "running", "cancelled", "over"}]
  BY DEF Start
<1>4. via \in [Jobs -> 0..MaxSockets]
  BY <1>1 DEF Start
<1>5. epoch \in 0..MaxSockets /\ beatTimer \in 0..MaxSockets /\ restartVia \in 0..MaxSockets
  BY <1>1 DEF Start
<1>6. TypeOK
  BY <1>2, <1>3, <1>4, <1>5 DEF Start, TypeOK
<1> QED
  BY <1>6 DEF Start, LinkInv, OneSocket, OneHeartbeat, AlwaysComesBack, ParkedOnlyWhileCut

LEMMA DaemonKeepsInv ==
  ASSUME LinkInv, DaemonStep, UNCHANGED setup
  PROVE  LinkInv'
<1> USE DEF linkVars, jobVars, resultVars, restartVars
<1> setup' \in Setups /\ Once' = Once
  BY DEF LinkInv, TypeOK, Once
<1> MaxSockets \in Nat /\ Room \in Nat \ {0}
  BY LinkAssumption
<1>1. CASE Connect
  <2>1. epoch + 1 \in 0..MaxSockets /\ epoch + 1 # 0
    BY <1>1 DEF Connect, LinkInv, TypeOK
  <2>2. beats = {}
    BY <1>1 DEF Connect, LinkInv, OneSocket, OneHeartbeat
  <2>3. /\ sock' = "dialing" /\ epoch' = epoch + 1 /\ retry' = FALSE
        /\ silent' = FALSE /\ asked' = FALSE
        /\ UNCHANGED <<opening, registered, beats, beatTimer, stopped, phase, via, ticking,
                       parked, wire, heard, restart, restartVia, process>>
    BY <1>1 DEF Connect
  <2>4. TypeOK'
    BY <2>1, <2>3 DEF LinkInv, TypeOK
  <2>5. OneSocket' /\ OneHeartbeat' /\ AlwaysComesBack' /\ ParkedOnlyWhileCut'
    BY <2>1, <2>2, <2>3 DEF OneSocket, OneHeartbeat, AlwaysComesBack, ParkedOnlyWhileCut
  <2> QED
    BY <2>4, <2>5 DEF LinkInv
<1>2. CASE Watchdog
  <2>1. TypeOK'
    BY <1>2 DEF Watchdog, LinkInv, TypeOK
  <2> QED
    BY <1>2, <2>1 DEF Watchdog, LinkInv, OneSocket, OneHeartbeat, AlwaysComesBack,
       ParkedOnlyWhileCut
<1>3. CASE Closed
  <2>1. /\ sock' = "none" /\ registered' = FALSE /\ wire' = << >> /\ beatTimer' = 0
        /\ beats' = {} /\ retry' = (~ stopped' /\ ~ Once) /\ stopped' \in BOOLEAN
        /\ UNCHANGED <<epoch, silent, opening, asked, jobVars, parked, heard, restartVars, process>>
    BY <1>3 DEF Closed, CloseEffect, LinkInv, OneHeartbeat, TypeOK
  <2>2. TypeOK'
    <3>1. wire' \in Seq(Jobs)
      BY <2>1, EmptyIsSeq
    <3>2. beatTimer' \in 0..MaxSockets /\ beats' \subseteq 1..MaxSockets
      BY <2>1
    <3>3. retry' \in BOOLEAN
      BY <2>1
    <3> QED
      BY <2>1, <3>1, <3>2, <3>3 DEF LinkInv, TypeOK
  <2>3. OneSocket' /\ OneHeartbeat' /\ AlwaysComesBack' /\ ParkedOnlyWhileCut'
    BY <2>1 DEF OneSocket, OneHeartbeat, AlwaysComesBack, ParkedOnlyWhileCut
  <2> QED
    BY <2>2, <2>3 DEF LinkInv
<1>4. CASE Drained
  BY <1>4 DEF Drained, LinkInv, TypeOK, OneSocket, OneHeartbeat, AlwaysComesBack,
     ParkedOnlyWhileCut
<1>5. CASE Replaces
  <2>1. sock' = sock \/ (sock = "open" /\ sock' = "closing")
    BY <1>5 DEF Replaces, Usable
  <2>2. process' \in {"up", "stopped", "replaced"}
    BY <1>5 DEF Replaces, LinkInv, TypeOK
  <2>3. TypeOK'
    BY <1>5, <2>1, <2>2 DEF Replaces, LinkInv, TypeOK
  <2> QED
    BY <1>5, <2>1, <2>3 DEF Replaces, LinkInv, OneSocket, OneHeartbeat, AlwaysComesBack,
       ParkedOnlyWhileCut
<1>6. CASE Exits
  BY <1>6 DEF Exits, LinkInv, TypeOK, OneSocket, OneHeartbeat, AlwaysComesBack,
     ParkedOnlyWhileCut
<1>7. CASE OneShotEnds
  <2>1. Stop /\ UNCHANGED <<jobVars, resultVars, restartVars, process>>
    BY <1>7 DEF OneShotEnds
  <2> QED
    BY <2>1, StopKeepsLink DEF LinkInv, LinkPart, TypeOK, ParkedOnlyWhileCut
<1>8. ASSUME NEW e \in 1..MaxSockets, OpenResumes(e)
      PROVE  LinkInv'
  <2>1. CASE Usable(e)
    <3>1. /\ opening' = opening \ {e} /\ asked' = TRUE /\ beatTimer' = e
          /\ e = epoch /\ sock = "open" /\ beats' = {e}
          /\ UNCHANGED <<sock, epoch, silent, registered, retry, stopped, jobVars, resultVars,
                         restartVars, process>>
      BY <1>8, <2>1 DEF OpenResumes, Registers, Usable, LinkInv, OneHeartbeat
    <3>2. TypeOK'
      BY <3>1 DEF LinkInv, TypeOK
    <3> QED
      BY <3>1, <3>2 DEF LinkInv, OneSocket, OneHeartbeat, AlwaysComesBack, ParkedOnlyWhileCut
  <2>2. CASE ~ Usable(e)
    <3>1. /\ opening' = opening \ {e}
          /\ UNCHANGED <<sock, epoch, silent, asked, registered, retry, beats, beatTimer,
                         stopped, jobVars, resultVars, restartVars, process>>
      BY <1>8, <2>2 DEF OpenResumes
    <3> QED
      BY <3>1 DEF LinkInv, TypeOK, OneSocket, OneHeartbeat, AlwaysComesBack, ParkedOnlyWhileCut
  <2> QED
    BY <2>1, <2>2
<1>9. ASSUME NEW j \in Jobs, Starts(j) \/ Throws(j)
      PROVE  LinkInv'
  <2>1. /\ UNCHANGED <<linkVars, stopped, via, resultVars, restartVars, process>>
        /\ ticking' = ticking \cup {j} \/ ticking' = ticking
        /\ phase' = [phase EXCEPT ![j] = "running"] \/ phase' = [phase EXCEPT ![j] = "over"]
    BY <1>9 DEF Starts, Throws
  <2>2. phase' \in [Jobs -> {"new", "waiting", "running", "cancelled", "over"}] /\ ticking' \subseteq Jobs
    BY <2>1 DEF LinkInv, TypeOK
  <2>3. UNCHANGED <<sock, epoch, silent, opening, asked, registered, retry, beats, beatTimer,
                   stopped, via, parked, wire, heard, restart, restartVia, process>>
    BY <2>1
  <2>4. TypeOK'
    BY <2>2, <2>3 DEF LinkInv, TypeOK
  <2> QED
    BY <2>3, <2>4 DEF LinkInv, OneSocket, OneHeartbeat, AlwaysComesBack, ParkedOnlyWhileCut
<1>10. ASSUME NEW j \in Jobs, Refuses(j) \/ Finishes(j)
       PROVE  LinkInv'
  <2>1. /\ phase' = [phase EXCEPT ![j] = "over"]
        /\ ticking' = ticking \ {j} \/ ticking' = ticking
        /\ AfterRun
        /\ UNCHANGED <<via, heard, restartVars, process>>
    BY <1>10 DEF Refuses, Finishes
  <2>2. /\ parked' \in Seq(Jobs) /\ Len(parked') <= Room
        /\ wire' \in Seq(Jobs)
        /\ sock = "open" => parked' = parked
    <3>1. CASE Refuses(j)
      <4>1. parked' = parked /\ (wire' = wire \/ wire' = Append(wire, j))
        BY <3>1 DEF Refuses
      <4>2. wire \in Seq(Jobs) /\ parked \in Seq(Jobs) /\ Len(parked) <= Room
        BY DEF LinkInv, TypeOK
      <4>3. Append(wire, j) \in Seq(Jobs)
        BY <4>2, AppendIsSeq
      <4> QED
        BY <4>1, <4>2, <4>3
    <3>2. CASE Finishes(j)
      BY <3>2, SendEffect DEF Finishes, LinkInv
    <3> QED
      BY <1>10, <3>1, <3>2
  <2>3. phase' \in [Jobs -> {"new", "waiting", "running", "cancelled", "over"}] /\ ticking' \subseteq Jobs
    BY <2>1 DEF LinkInv, TypeOK
  <2>4. CASE Stop
    BY <2>1, <2>2, <2>3, <2>4, StopKeepsLink DEF LinkInv, LinkPart, TypeOK, ParkedOnlyWhileCut
  <2>5. CASE UNCHANGED <<linkVars, stopped>>
    <3>1. TypeOK'
      BY <2>1, <2>2, <2>3, <2>5 DEF LinkInv, TypeOK
    <3>2. OneSocket' /\ OneHeartbeat' /\ AlwaysComesBack'
      BY <2>5 DEF LinkInv, OneSocket, OneHeartbeat, AlwaysComesBack
    <3>3. ParkedOnlyWhileCut'
      BY <2>2, <2>5 DEF LinkInv, ParkedOnlyWhileCut
    <3> QED
      BY <3>1, <3>2, <3>3 DEF LinkInv
  <2> QED
    BY <2>1, <2>4, <2>5, AfterRunEffect
<1> QED
  BY <1>1, <1>2, <1>3, <1>4, <1>5, <1>6, <1>7, <1>8, <1>9, <1>10 DEF DaemonStep

LEMMA HubKeepsInv ==
  ASSUME LinkInv, HubStep, UNCHANGED setup
  PROVE  LinkInv'
<1> USE DEF linkVars, jobVars, resultVars, restartVars
<1> setup' \in Setups /\ Once' = Once
  BY DEF LinkInv, TypeOK, Once
<1> MaxSockets \in Nat /\ Room \in Nat \ {0}
  BY LinkAssumption
<1>1. CASE Opens
  <2>1. epoch \in 1..MaxSockets
    BY <1>1 DEF Opens, LinkInv, TypeOK, OneSocket
  <2>2. TypeOK'
    BY <1>1, <2>1 DEF Opens, LinkInv, TypeOK
  <2> QED
    BY <1>1, <2>2 DEF Opens, LinkInv, OneSocket, OneHeartbeat, AlwaysComesBack,
       ParkedOnlyWhileCut
<1>2. CASE Registered
  <2>1. parked \in Seq(Jobs) /\ wire \in Seq(Jobs) /\ wire \o parked \in Seq(Jobs)
    BY DEF LinkInv, TypeOK
  <2>2. /\ parked' \in Seq(Jobs) /\ Len(parked') <= Room /\ wire' \in Seq(Jobs)
        /\ sock = "open" => parked' = << >>
    <3>1. CASE Usable(epoch)
      <4>1. wire' = wire \o parked /\ parked' = << >>
        BY <1>2, <3>1 DEF Registered, FlushParkedResults
      <4>2. Len(<< >>) <= Room
        OBVIOUS
      <4> QED
        BY <2>1, <4>1, <4>2, EmptyIsSeq
    <3>2. CASE ~ Usable(epoch)
      <4>1. wire' = wire /\ parked' = parked /\ sock # "open"
        BY <1>2, <3>2 DEF Registered, FlushParkedResults, Usable
      <4> QED
        BY <2>1, <4>1 DEF LinkInv, TypeOK
    <3> QED
      BY <3>1, <3>2
  <2>3. TypeOK'
    BY <1>2, <2>2 DEF Registered, LinkInv, TypeOK
  <2> QED
    BY <1>2, <2>2, <2>3 DEF Registered, LinkInv, OneSocket, OneHeartbeat, AlwaysComesBack,
       ParkedOnlyWhileCut
<1>3. CASE Hears
  <2>1. /\ wire # << >> /\ wire' = Tail(wire) /\ heard' = heard \cup {Head(wire)}
        /\ UNCHANGED <<sock, epoch, silent, opening, asked, registered, retry, beats, beatTimer,
                       stopped, phase, via, ticking, parked, restart, restartVia, process>>
    BY <1>3 DEF Hears
  <2>2. wire \in Seq(Jobs) /\ heard \subseteq Jobs
    BY DEF LinkInv, TypeOK
  <2>3. Head(wire) \in Jobs /\ Tail(wire) \in Seq(Jobs)
    BY <2>1, <2>2
  <2>4. wire' \in Seq(Jobs) /\ heard' \subseteq Jobs
    BY <2>1, <2>2, <2>3
  <2>5. TypeOK'
    BY <2>1, <2>4 DEF LinkInv, TypeOK
  <2> QED
    BY <2>1, <2>5 DEF LinkInv, OneSocket, OneHeartbeat, AlwaysComesBack, ParkedOnlyWhileCut
<1>4. CASE Breaks \/ FallsSilent
  <2>1. \/ sock' = "closing" /\ sock # "none" /\ silent' = silent
        \/ sock' = sock /\ silent' = TRUE
    BY <1>4 DEF Breaks, FallsSilent
  <2>2. UNCHANGED <<epoch, opening, asked, registered, retry, beats, beatTimer, stopped, phase,
                   via, ticking, parked, wire, heard, restart, restartVia, process>>
    BY <1>4 DEF Breaks, FallsSilent
  <2>3. sock' \in {"none", "dialing", "open", "closing"} /\ silent' \in BOOLEAN
    BY <2>1 DEF LinkInv, TypeOK
  <2>4. TypeOK'
    BY <2>2, <2>3 DEF LinkInv, TypeOK
  <2>5. OneSocket' /\ OneHeartbeat'
    BY <2>1, <2>2 DEF LinkInv, OneSocket, OneHeartbeat
  <2>6. AlwaysComesBack' /\ ParkedOnlyWhileCut'
    BY <2>1, <2>2 DEF LinkInv, AlwaysComesBack, ParkedOnlyWhileCut
  <2> QED
    BY <2>4, <2>5, <2>6 DEF LinkInv
<1>5. CASE StopRequested
  <2>1. Stop /\ UNCHANGED <<jobVars, resultVars, restartVars, process>>
    BY <1>5 DEF StopRequested
  <2> QED
    BY <2>1, StopKeepsLink DEF LinkInv, LinkPart, TypeOK, ParkedOnlyWhileCut
<1>6. CASE RestartRequested
  <2>1. restart' \in {"no", "draining", "due"}
    BY <1>6 DEF RestartRequested
  <2> QED
    BY <1>6, <2>1 DEF RestartRequested, LinkInv, TypeOK, OneSocket, OneHeartbeat,
       AlwaysComesBack, ParkedOnlyWhileCut
<1>7. ASSUME NEW j \in Jobs, Accepts(j) \/ Cancels(j)
      PROVE  LinkInv'
  <2>1. /\ UNCHANGED <<linkVars, stopped, ticking, resultVars, restartVars, process>>
        /\ via' = [via EXCEPT ![j] = epoch] \/ via' = via
        /\ phase' = [phase EXCEPT ![j] = "waiting"] \/ phase' = [phase EXCEPT ![j] = "cancelled"]
    BY <1>7 DEF Accepts, Cancels
  <2>2. phase' \in [Jobs -> {"new", "waiting", "running", "cancelled", "over"}]
    BY <2>1 DEF LinkInv, TypeOK
  <2>3. via' \in [Jobs -> 0..MaxSockets]
    BY <2>1 DEF LinkInv, TypeOK
  <2>4. UNCHANGED <<sock, epoch, silent, opening, asked, registered, retry, beats, beatTimer,
                   stopped, ticking, parked, wire, heard, restart, restartVia, process>>
    BY <2>1 DEF linkVars, resultVars, restartVars
  <2>5. TypeOK'
    BY <2>2, <2>3, <2>4 DEF LinkInv, TypeOK
  <2> QED
    BY <2>4, <2>5 DEF LinkInv, OneSocket, OneHeartbeat, AlwaysComesBack, ParkedOnlyWhileCut
<1> QED
  BY <1>1, <1>2, <1>3, <1>4, <1>5, <1>6, <1>7 DEF HubStep

LEMMA LinkStep == ASSUME LinkInv, [Next]_vars PROVE LinkInv'
<1>1. CASE Next
  BY <1>1, DaemonKeepsInv, HubKeepsInv DEF Next
<1>2. CASE UNCHANGED vars
  BY <1>2 DEF vars, linkVars, jobVars, resultVars, restartVars, LinkInv, TypeOK, Once, OneSocket,
     OneHeartbeat, AlwaysComesBack, ParkedOnlyWhileCut
<1> QED
  BY <1>1, <1>2

(* The invariant of the link.                                              *)
THEOREM LinkInvariant == Spec => []LinkInv
<1>1. Init => LinkInv
  BY InitInv DEF Init
<1>2. LinkInv /\ [Next]_vars => LinkInv'
  BY LinkStep
<1> QED
  BY <1>1, <1>2, PTL DEF Spec

(* The state is well formed and the park bounded.                          *)
THEOREM LinkTypeCorrect == Spec => []TypeOK
  BY LinkInvariant, PTL DEF LinkInv

(* One heartbeat per connection and none without.                          *)
THEOREM HeartbeatsAreOwned == Spec => []OneHeartbeat
  BY LinkInvariant, PTL DEF LinkInv

(* Whenever there is no socket the next one is due, unless it is over.     *)
THEOREM RetryIsArmed == Spec => []AlwaysComesBack
  BY LinkInvariant, PTL DEF LinkInv

(* A registered connection has no answer left behind.                      *)
THEOREM NothingLeftBehind == Spec => []ParkedOnlyWhileCut
  BY LinkInvariant, PTL DEF LinkInv

-----------------------------------------------------------------------------
(* Where answers are: lists without repetition.                            *)
Distinct(s) == \A i, k \in 1..Len(s) : s[i] = s[k] => i = k

LEMMA AppendPlaces ==
  ASSUME NEW s \in Seq(Jobs), NEW j \in Jobs
  PROVE  /\ Rng(Append(s, j)) = Rng(s) \cup {j}
         /\ (Distinct(s) /\ j \notin Rng(s)) => Distinct(Append(s, j))
<1>1. /\ Len(Append(s, j)) = Len(s) + 1 /\ Len(s) \in Nat
      /\ \A i \in 1..Len(s) : Append(s, j)[i] = s[i]
      /\ Append(s, j)[Len(s) + 1] = j
  OBVIOUS
<1>2. 1..(Len(s) + 1) = 1..Len(s) \cup {Len(s) + 1}
  BY <1>1
<1> DEFINE a == Append(s, j)
<1> HIDE DEF a
<1>3. Rng(a) = Rng(s) \cup {j}
  BY <1>1, <1>2 DEF Rng, a
<1>4. ASSUME Distinct(s), j \notin Rng(s) PROVE Distinct(a)
  BY <1>1, <1>2, <1>4 DEF Rng, Distinct, a
<1> QED
  BY <1>3, <1>4 DEF a

LEMMA TailPlaces ==
  ASSUME NEW s \in Seq(Jobs), s # << >>, Distinct(s)
  PROVE  /\ Head(s) \in Rng(s) /\ Head(s) \in Jobs
         /\ Rng(Tail(s)) = Rng(s) \ {Head(s)}
         /\ Distinct(Tail(s))
<1>1. /\ Len(s) \in Nat \ {0} /\ Tail(s) \in Seq(Jobs) /\ Len(Tail(s)) = Len(s) - 1
      /\ Head(s) = s[1] /\ s[1] \in Jobs
      /\ \A i \in 1..(Len(s) - 1) : Tail(s)[i] = s[i + 1]
  OBVIOUS
<1> DEFINE t == Tail(s)
<1> HIDE DEF t
<1>2. Head(s) \in Rng(s) /\ Head(s) \in Jobs
  BY <1>1 DEF Rng
<1>3. Rng(t) = Rng(s) \ {Head(s)}
  <2>1. ASSUME NEW x \in Rng(t) PROVE x \in Rng(s) \ {Head(s)}
    <3>1. PICK i \in 1..(Len(s) - 1) : x = t[i]
      BY <1>1 DEF Rng, t
    <3>2. i + 1 \in 1..Len(s) /\ i + 1 # 1 /\ x = s[i + 1]
      BY <1>1, <3>1 DEF t
    <3> QED
      BY <1>1, <3>2 DEF Rng, Distinct
  <2>2. ASSUME NEW x \in Rng(s) \ {Head(s)} PROVE x \in Rng(t)
    <3>1. PICK i \in 1..Len(s) : x = s[i]
      BY DEF Rng
    <3>2. i # 1
      BY <1>1, <3>1, <2>2
    <3>3. i - 1 \in 1..(Len(s) - 1) /\ t[i - 1] = s[(i - 1) + 1]
      BY <1>1, <3>2 DEF t
    <3>4. t[i - 1] = x
      BY <3>1, <3>3
    <3> QED
      BY <1>1, <3>3, <3>4 DEF Rng, t
  <2> QED
    BY <2>1, <2>2
<1>4. Distinct(t)
  <2> SUFFICES ASSUME NEW i \in 1..(Len(s) - 1), NEW k \in 1..(Len(s) - 1), t[i] = t[k]
               PROVE  i = k
    BY <1>1 DEF Distinct, t
  <2>1. s[i + 1] = s[k + 1] /\ i + 1 \in 1..Len(s) /\ k + 1 \in 1..Len(s)
    BY <1>1 DEF t
  <2> QED
    BY <2>1 DEF Distinct
<1> QED
  BY <1>2, <1>3, <1>4 DEF t

LEMMA ConcatPlaces ==
  ASSUME NEW s \in Seq(Jobs), NEW t \in Seq(Jobs),
         Distinct(s), Distinct(t), Rng(s) \cap Rng(t) = {}
  PROVE  Rng(s \o t) = Rng(s) \cup Rng(t) /\ Distinct(s \o t)
<1>1. /\ Len(s) \in Nat /\ Len(t) \in Nat /\ Len(s \o t) = Len(s) + Len(t)
      /\ \A i \in 1..(Len(s) + Len(t)) :
           (s \o t)[i] = IF i <= Len(s) THEN s[i] ELSE t[i - Len(s)]
  OBVIOUS
<1> DEFINE c == s \o t
<1> HIDE DEF c
<1>2. \A i \in 1..(Len(s) + Len(t)) : \/ i \in 1..Len(s) /\ c[i] = s[i]
                                      \/ i - Len(s) \in 1..Len(t) /\ c[i] = t[i - Len(s)]
  BY <1>1 DEF c
<1>3. ASSUME NEW x \in Rng(c) PROVE x \in Rng(s) \cup Rng(t)
  BY <1>1, <1>2, <1>3 DEF Rng, c
<1>4. ASSUME NEW x \in Rng(s) PROVE x \in Rng(c)
  <2>1. PICK i \in 1..Len(s) : x = s[i]
    BY DEF Rng
  <2>2. i \in 1..(Len(s) + Len(t)) /\ c[i] = s[i]
    BY <1>1 DEF c
  <2> QED
    BY <1>1, <2>1, <2>2 DEF Rng, c
<1>5. ASSUME NEW x \in Rng(t) PROVE x \in Rng(c)
  <2>1. PICK i \in 1..Len(t) : x = t[i]
    BY DEF Rng
  <2>2. i + Len(s) \in 1..(Len(s) + Len(t)) /\ c[i + Len(s)] = t[(i + Len(s)) - Len(s)]
    BY <1>1 DEF c
  <2>3. (i + Len(s)) - Len(s) = i
    BY <1>1
  <2> QED
    BY <1>1, <2>1, <2>2, <2>3 DEF Rng, c
<1>6. Distinct(c)
  <2> SUFFICES ASSUME NEW i \in 1..(Len(s) + Len(t)), NEW k \in 1..(Len(s) + Len(t)), c[i] = c[k]
               PROVE  i = k
    BY <1>1 DEF Distinct, c
  <2>1. CASE i \in 1..Len(s) /\ c[i] = s[i] /\ k \in 1..Len(s) /\ c[k] = s[k]
    BY <2>1 DEF Distinct
  <2>2. CASE i - Len(s) \in 1..Len(t) /\ c[i] = t[i - Len(s)]
             /\ k - Len(s) \in 1..Len(t) /\ c[k] = t[k - Len(s)]
    <3>1. i - Len(s) = k - Len(s)
      BY <2>2 DEF Distinct
    <3> QED
      BY <1>1, <3>1
  <2>3. CASE i \in 1..Len(s) /\ c[i] = s[i] /\ k - Len(s) \in 1..Len(t) /\ c[k] = t[k - Len(s)]
    BY <2>3 DEF Rng
  <2>4. CASE k \in 1..Len(s) /\ c[k] = s[k] /\ i - Len(s) \in 1..Len(t) /\ c[i] = t[i - Len(s)]
    BY <2>4 DEF Rng
  <2> QED
    BY <1>2, <2>1, <2>2, <2>3, <2>4
<1> QED
  BY <1>3, <1>4, <1>5, <1>6 DEF c

(* As many places as answers.                                              *)
LEMMA PlacesCounted ==
  ASSUME NEW s \in Seq(Jobs), Distinct(s)
  PROVE  Cardinality(Rng(s)) = Len(s)
<1>1. Len(s) \in Nat
  OBVIOUS
<1>2. s \in [1..Len(s) -> Rng(s)]
  BY DEF Rng
<1>3. s \in Bijection(1..Len(s), Rng(s))
  BY <1>2 DEF Bijection, Injection, IsInjective, Surjection, Rng, Distinct
<1>4. IsFiniteSet(1..Len(s)) /\ Cardinality(1..Len(s)) = Len(s)
  BY <1>1, FS_Interval
<1> QED
  BY <1>3, <1>4, FS_Bijection DEF ExistsBijection

-----------------------------------------------------------------------------
(* What the ledger is told, and what it needs beyond the link: only an     *)
(* answer for the hub is parked.                                           *)
Told == [j \in Jobs |-> FateOf(j)]

ParkedForHub == \A j \in Rng(parked) : Kind[j] = "hub"

PlacesInv == InOnePlace /\ ParkedForHub

LEMMA PlacesFacts ==
  ASSUME LinkInv, PlacesInv
  PROVE  /\ parked \in Seq(Jobs) /\ wire \in Seq(Jobs) /\ heard \subseteq Jobs
         /\ Distinct(parked) /\ Distinct(wire)
         /\ Rng(parked) \subseteq Jobs /\ Rng(wire) \subseteq Jobs
         /\ Rng(parked) \cap Rng(wire) = {}
         /\ heard \cap Rng(parked) = {} /\ heard \cap Rng(wire) = {}
         /\ \A j \in Rng(parked) \cup Rng(wire) \cup heard : phase[j] = "over"
<1>1. parked \in Seq(Jobs) /\ wire \in Seq(Jobs) /\ heard \subseteq Jobs
  BY DEF LinkInv, TypeOK
<1>2. Rng(parked) \subseteq Jobs /\ Rng(wire) \subseteq Jobs
  BY <1>1 DEF Rng
<1> QED
  BY <1>1, <1>2 DEF PlacesInv, InOnePlace, Distinct

LEMMA PlacesAre ==
  ASSUME Distinct(parked'), Distinct(wire'), Rng(parked') \cap Rng(wire') = {},
         heard' \cap Rng(parked') = {}, heard' \cap Rng(wire') = {},
         \A j \in Rng(parked') \cup Rng(wire') \cup heard' : phase'[j] = "over",
         \A j \in Rng(parked') : Kind'[j] = "hub"
  PROVE  PlacesInv'
<1>1. Rng(parked)' = Rng(parked') /\ Rng(wire)' = Rng(wire')
  BY DEF Rng
<1>2. InOnePlace'
  BY <1>1 DEF InOnePlace, Distinct
<1>3. ParkedForHub'
  BY <1>1 DEF ParkedForHub
<1> QED
  BY <1>2, <1>3 DEF PlacesInv

(* While the process runs a fate is a place, or else a phase.              *)
LEMMA FateIs ==
  ASSUME LinkInv, PlacesInv, process = "up", NEW j \in Jobs
  PROVE  /\ Kind[j] # "hub" => FateOf(j) = "none"
         /\ Kind[j] = "hub" =>
              /\ j \in heard => FateOf(j) = "heard"
              /\ j \in Rng(wire) => FateOf(j) = "sent"
              /\ j \in Rng(parked) => FateOf(j) = "held"
              /\ j \notin Rng(parked) \cup Rng(wire) \cup heard =>
                   /\ phase[j] = "new" => FateOf(j) = "none"
                   /\ phase[j] = "cancelled" => FateOf(j) = "withdrawn"
                   /\ phase[j] \in {"waiting", "running"} => FateOf(j) = "owed"
                   /\ phase[j] = "over" => FateOf(j) = "lost"
         /\ phase[j] \in {"new", "waiting", "running", "cancelled", "over"}
<1>1. phase[j] \in {"new", "waiting", "running", "cancelled", "over"}
  BY DEF LinkInv, TypeOK
<1>2. ASSUME j \in heard PROVE j \notin Rng(wire) /\ j \notin Rng(parked)
  BY <1>2, PlacesFacts
<1>3. ASSUME j \in Rng(parked) PROVE j \notin Rng(wire)
  BY <1>3, PlacesFacts
<1> QED
  BY <1>1, <1>2, <1>3 DEF FateOf

LEMMA FateSame ==
  ASSUME process = "up", process' = "up", setup' = setup, NEW j \in Jobs,
         j \in heard' <=> j \in heard, j \in Rng(wire') <=> j \in Rng(wire),
         j \in Rng(parked') <=> j \in Rng(parked),
         phase'[j] = phase[j] \/ ({phase[j], phase'[j]} \subseteq {"waiting", "running"})
                              \/ Kind[j] # "hub"
  PROVE  FateOf(j)' = FateOf(j)
<1>1. Kind'[j] = Kind[j]
  BY DEF Kind
<1>2. Rng(wire)' = Rng(wire') /\ Rng(parked)' = Rng(parked')
  BY DEF Rng
<1>3. CASE phase'[j] = phase[j]
  BY <1>1, <1>2, <1>3 DEF FateOf
<1>4. CASE {phase[j], phase'[j]} \subseteq {"waiting", "running"}
  BY <1>1, <1>2, <1>4 DEF FateOf
<1>5. CASE Kind[j] # "hub"
  BY <1>1, <1>5 DEF FateOf
<1> QED
  BY <1>3, <1>4, <1>5

LEMMA ToldSame ==
  ASSUME \A j \in Jobs : FateOf(j)' = FateOf(j)
  PROVE  Told' = Told
  BY DEF Told

LEMMA ToldOne ==
  ASSUME NEW j \in Jobs, NEW f, FateOf(j)' = f, \A k \in Jobs \ {j} : FateOf(k)' = FateOf(k)
  PROVE  Told' = [Told EXCEPT ![j] = f]
  BY DEF Told

(* What the ledger holds is what is parked, and it counts alike.           *)
LEMMA HeldIsParked ==
  ASSUME LinkInv, PlacesInv, process = "up"
  PROVE  /\ Answers!In("held") = Rng(parked)
         /\ Answers!Cardinality(Rng(parked)) = Len(parked)
<1>1. ASSUME NEW j \in Jobs PROVE FateOf(j) = "held" <=> j \in Rng(parked)
  BY FateIs, PlacesFacts DEF PlacesInv, ParkedForHub
<1>2. {j \in Jobs : Told[j] = "held"} = Rng(parked)
  BY <1>1, PlacesFacts DEF Told
<1>3. Answers!Cardinality(Rng(parked)) = Cardinality(Rng(parked))
  BY DEF Answers!Cardinality, Cardinality
<1>4. Cardinality(Rng(parked)) = Len(parked)
  BY PlacesFacts, PlacesCounted
<1> QED
  BY <1>2, <1>3, <1>4 DEF Answers!In, Told

(* A step of the link as the ledger sees it.                               *)
LedgerStep == PlacesInv' /\ (Answers!LedgerNext \/ Told' = Told)

(* Steps that move no answer.                                              *)
LEMMA QuietKeeps ==
  ASSUME LinkInv, PlacesInv, process = "up", process' = "up",
         UNCHANGED <<setup, parked, wire, heard>>,
         \A j \in Jobs : \/ phase'[j] = phase[j]
                         \/ {phase[j], phase'[j]} \subseteq {"waiting", "running"}
                         \/ phase[j] # "over" /\ Kind[j] # "hub"
  PROVE  LedgerStep
<1>1. \A j \in Jobs : phase[j] = "over" => phase'[j] = "over"
  OBVIOUS
<1>2. PlacesInv'
  <2>1. /\ Rng(parked') = Rng(parked) /\ Rng(wire') = Rng(wire) /\ heard' = heard
        /\ Distinct(parked') /\ Distinct(wire') /\ Kind' = Kind
    BY PlacesFacts DEF Kind
  <2>2. \A j \in Rng(parked) \cup Rng(wire) \cup heard : phase'[j] = "over"
    BY <1>1, PlacesFacts
  <2> QED
    BY <2>1, <2>2, PlacesFacts, PlacesAre DEF PlacesInv, ParkedForHub
<1>3. Told' = Told
  BY FateSame, ToldSame
<1> QED
  BY <1>2, <1>3 DEF LedgerStep

(* The connection that carried answers is gone.                            *)
LEMMA ClosedKeeps ==
  ASSUME LinkInv, PlacesInv, process = "up", UNCHANGED setup, Closed
  PROVE  LedgerStep
<1>1. /\ wire' = << >> /\ UNCHANGED <<phase, parked, heard, process>>
  BY DEF Closed, CloseEffect, jobVars
<1>2. Rng(wire') = {} /\ Distinct(wire') /\ Rng(parked') = Rng(parked) /\ Kind' = Kind
  BY <1>1 DEF Rng, Distinct, Kind
<1>3. PlacesInv'
  BY <1>1, <1>2, PlacesFacts, PlacesAre DEF PlacesInv, ParkedForHub
<1>4. LinkInv'
  BY DaemonKeepsInv DEF DaemonStep
<1>5. ASSUME NEW j \in Jobs
      PROVE  FateOf(j)' = IF FateOf(j) = "sent" THEN "lost" ELSE FateOf(j)
  <2>1. CASE j \notin Rng(wire)
    <3>1. FateOf(j)' = FateOf(j)
      BY <1>1, <1>2, <2>1, FateSame
    <3>2. FateOf(j) # "sent"
      BY <2>1, FateIs
    <3> QED
      BY <3>1, <3>2
  <2>2. CASE j \in Rng(wire)
    <3>1. phase[j] = "over" /\ j \notin heard /\ j \notin Rng(parked)
      BY <2>2, PlacesFacts
    <3>2. CASE Kind[j] = "hub"
      BY <1>1, <1>2, <2>2, <3>1, <3>2, FateIs DEF FateOf, Rng
    <3>3. CASE Kind[j] # "hub"
      BY <1>2, <3>3 DEF FateOf
    <3> QED
      BY <3>2, <3>3
  <2> QED
    BY <2>1, <2>2
<1>6. Answers!Break
  BY <1>5 DEF Answers!Break, Answers!Moved, Answers!In, Told
<1> QED
  BY <1>3, <1>6 DEF LedgerStep, Answers!LedgerNext

(* What was parked goes out again.                                         *)
LEMMA RegisteredKeeps ==
  ASSUME LinkInv, PlacesInv, process = "up", UNCHANGED setup, Registered
  PROVE  LedgerStep
<1>1. UNCHANGED <<phase, heard, process>> /\ FlushParkedResults
  BY DEF Registered, jobVars
<1>2. CASE Usable(epoch)
  <2>1. wire' = wire \o parked /\ parked' = << >>
    BY <1>1, <1>2 DEF FlushParkedResults
  <2>2. /\ Rng(wire') = Rng(wire) \cup Rng(parked) /\ Distinct(wire')
        /\ Rng(parked') = {} /\ Distinct(parked') /\ Kind' = Kind
    <3>1. Rng(wire') = Rng(wire) \cup Rng(parked) /\ Distinct(wire')
      BY <2>1, PlacesFacts, ConcatPlaces
    <3>2. Rng(parked') = {} /\ Distinct(parked') /\ Kind' = Kind
      BY <2>1 DEF Rng, Distinct, Kind
    <3> QED
      BY <3>1, <3>2
  <2>3. PlacesInv'
    <3>1. \A j \in Rng(wire) \cup Rng(parked) \cup heard : phase'[j] = "over"
      BY <1>1, PlacesFacts
    <3> QED
      BY <1>1, <2>2, <3>1, PlacesFacts, PlacesAre
  <2>4. ASSUME NEW j \in Jobs
        PROVE  FateOf(j)' = IF FateOf(j) = "held" THEN "sent" ELSE FateOf(j)
    <3>1. CASE j \notin Rng(parked)
      <4>1. FateOf(j)' = FateOf(j)
        BY <1>1, <2>2, <3>1, FateSame
      <4>2. FateOf(j) # "held"
        BY <3>1, FateIs
      <4> QED
        BY <4>1, <4>2
    <3>2. CASE j \in Rng(parked)
      <4>1. /\ Kind[j] = "hub" /\ phase[j] = "over" /\ j \notin heard /\ FateOf(j) = "held"
            /\ j \in Rng(wire')
        BY <2>2, <3>2, PlacesFacts, FateIs DEF PlacesInv, ParkedForHub
      <4>2. FateOf(j)' = "sent"
        BY <1>1, <2>2, <4>1 DEF FateOf, Rng
      <4> QED
        BY <4>1, <4>2
    <3> QED
      BY <3>1, <3>2
  <2>5. Answers!Resend
    BY <2>4 DEF Answers!Resend, Answers!Moved, Answers!In, Told
  <2> QED
    BY <2>3, <2>5 DEF LedgerStep, Answers!LedgerNext
<1>3. CASE ~ Usable(epoch)
  BY <1>1, <1>3, QuietKeeps DEF FlushParkedResults
<1> QED
  BY <1>2, <1>3

(* The hub reads an answer, which need not be one of its own.              *)
LEMMA HearsKeeps ==
  ASSUME LinkInv, PlacesInv, process = "up", UNCHANGED setup, Hears
  PROVE  LedgerStep
<1>0. PICK j \in Jobs : j = Head(wire)
  <2>1. wire # << >>
    BY DEF Hears
  <2> QED
    BY <2>1, PlacesFacts, TailPlaces
<1>1. /\ wire # << >> /\ heard' = heard \cup {j} /\ wire' = Tail(wire)
      /\ UNCHANGED <<phase, parked, process>>
  BY <1>0 DEF Hears, jobVars
<1>2. j \in Rng(wire) /\ j \in Jobs /\ Rng(Tail(wire)) = Rng(wire) \ {j} /\ Distinct(Tail(wire))
  BY <1>0, <1>1, PlacesFacts, TailPlaces
<1>3. /\ Rng(wire') = Rng(wire) \ {j} /\ Distinct(wire') /\ Rng(parked') = Rng(parked)
      /\ parked' = parked /\ Kind' = Kind
  BY <1>1, <1>2 DEF Kind
<1>4. PlacesInv'
  <2>1. \A k \in Rng(parked) \cup (Rng(wire) \ {j}) \cup (heard \cup {j}) : phase'[k] = "over"
    BY <1>1, <1>2, PlacesFacts
  <2>2. /\ (heard \cup {j}) \cap Rng(parked) = {}
        /\ (heard \cup {j}) \cap (Rng(wire) \ {j}) = {}
    BY <1>2, PlacesFacts
  <2> QED
    BY <1>1, <1>3, <2>1, <2>2, PlacesFacts, PlacesAre DEF PlacesInv, ParkedForHub
<1>5. \A k \in Jobs \ {j} : FateOf(k)' = FateOf(k)
  BY <1>1, <1>3, FateSame
<1>6. CASE Kind[j] = "hub"
  <2>1. FateOf(j) = "sent"
    BY <1>2, <1>6, FateIs
  <2>2. FateOf(j)' = "heard"
    BY <1>1, <1>3, <1>6 DEF FateOf
  <2>3. Told' = [Told EXCEPT ![j] = "heard"]
    BY <1>2, <1>5, <2>2, ToldOne
  <2>4. Answers!Hear(j)
    BY <1>2, <2>1, <2>3 DEF Answers!Hear, Told
  <2> QED
    BY <1>2, <1>4, <2>4 DEF LedgerStep, Answers!LedgerNext
<1>7. CASE Kind[j] # "hub"
  <2>1. FateOf(j)' = FateOf(j)
    BY <1>3, <1>7 DEF FateOf
  <2>2. Told' = Told
    BY <1>5, <2>1, ToldSame
  <2> QED
    BY <1>4, <2>2 DEF LedgerStep
<1> QED
  BY <1>6, <1>7

(* A turn is accepted, or taken back before it starts.                     *)
LEMMA AcceptsKeeps ==
  ASSUME LinkInv, PlacesInv, process = "up", UNCHANGED setup, NEW j \in Jobs,
         Accepts(j) \/ Cancels(j)
  PROVE  LedgerStep
<1>1. /\ UNCHANGED <<parked, wire, heard, process>>
      /\ \/ phase[j] = "new" /\ phase' = [phase EXCEPT ![j] = "waiting"]
         \/ phase[j] = "waiting" /\ phase' = [phase EXCEPT ![j] = "cancelled"]
  BY DEF Accepts, Cancels, resultVars
<1>2. phase[j] # "over" /\ \A k \in Jobs \ {j} : phase'[k] = phase[k]
  BY <1>1 DEF LinkInv, TypeOK
<1>3. CASE Kind[j] # "hub"
  BY <1>1, <1>2, <1>3, QuietKeeps
<1>4. CASE Kind[j] = "hub"
  <2>1. j \notin Rng(parked) \cup Rng(wire) \cup heard
    BY <1>2, PlacesFacts
  <2>2. Rng(parked') = Rng(parked) /\ Rng(wire') = Rng(wire) /\ Kind' = Kind
    BY <1>1 DEF Kind
  <2>3. PlacesInv'
    <3>1. \A k \in Rng(parked) \cup Rng(wire) \cup heard : phase'[k] = "over"
      BY <1>2, <2>1, PlacesFacts
    <3> QED
      BY <1>1, <2>2, <3>1, PlacesFacts, PlacesAre DEF PlacesInv, ParkedForHub
  <2>4. \A k \in Jobs \ {j} : FateOf(k)' = FateOf(k)
    BY <1>1, <1>2, <2>2, FateSame
  <2>5. CASE phase[j] = "new" /\ phase' = [phase EXCEPT ![j] = "waiting"]
    <3>1. FateOf(j) = "none"
      BY <1>4, <2>1, <2>5, FateIs
    <3>2. phase'[j] = "waiting"
      BY <2>5 DEF LinkInv, TypeOK
    <3>3. FateOf(j)' = "owed"
      BY <1>1, <1>4, <2>1, <2>2, <3>2 DEF FateOf, Rng
    <3>4. Answers!Owe(j)
      BY <2>4, <3>1, <3>3, ToldOne DEF Answers!Owe, Told
    <3> QED
      BY <2>3, <3>4 DEF LedgerStep, Answers!LedgerNext
  <2>6. CASE phase[j] = "waiting" /\ phase' = [phase EXCEPT ![j] = "cancelled"]
    <3>1. FateOf(j) = "owed"
      BY <1>4, <2>1, <2>6, FateIs
    <3>2. phase'[j] = "cancelled"
      BY <2>6 DEF LinkInv, TypeOK
    <3>3. FateOf(j)' = "withdrawn"
      BY <1>1, <1>4, <2>1, <2>2, <3>2 DEF FateOf, Rng
    <3>4. Answers!Withdraw(j)
      BY <2>4, <3>1, <3>3, ToldOne DEF Answers!Withdraw, Told
    <3> QED
      BY <2>3, <3>4 DEF LedgerStep, Answers!LedgerNext
  <2> QED
    BY <1>1, <2>5, <2>6
<1> QED
  BY <1>3, <1>4

(* A turn starts, or fails before it could.                                *)
LEMMA StartsKeeps ==
  ASSUME LinkInv, PlacesInv, process = "up", UNCHANGED setup, NEW j \in Jobs,
         Starts(j) \/ Throws(j)
  PROVE  LedgerStep
<1>1. /\ UNCHANGED <<parked, wire, heard, process>> /\ phase[j] = "waiting"
      /\ \/ phase' = [phase EXCEPT ![j] = "running"]
         \/ phase' = [phase EXCEPT ![j] = "over"] /\ Kind[j] # "hub"
  BY DEF Starts, Throws, resultVars
<1>2. \A k \in Jobs : \/ phase'[k] = phase[k]
                      \/ {phase[k], phase'[k]} \subseteq {"waiting", "running"}
                      \/ phase[k] # "over" /\ Kind[k] # "hub"
  BY <1>1 DEF LinkInv, TypeOK
<1> QED
  BY <1>1, <1>2, QuietKeeps

(* What a park does to the places: it drops the first when it is full.     *)
LEMMA ParkPlaces ==
  ASSUME LinkInv, PlacesInv, NEW j \in Jobs, j \notin Rng(parked), Park(j)
  PROVE  /\ Distinct(parked')
         /\ \/ Len(parked) < Room /\ Rng(parked') = Rng(parked) \cup {j}
            \/ /\ Len(parked) >= Room
               /\ \E k \in Rng(parked) : Rng(parked') = (Rng(parked) \ {k}) \cup {j}
<1>1. Room \in Nat \ {0} /\ Len(parked) \in Nat
  BY LinkAssumption, PlacesFacts
<1>2. CASE Len(parked) >= Room
  <2>1. parked # << >>
    BY <1>1, <1>2
  <2>2. /\ Head(parked) \in Rng(parked) /\ Rng(Tail(parked)) = Rng(parked) \ {Head(parked)}
        /\ Distinct(Tail(parked)) /\ Tail(parked) \in Seq(Jobs)
    BY <2>1, PlacesFacts, TailPlaces
  <2>3. parked' = Append(Tail(parked), j)
    BY <1>2 DEF Park
  <2>4. Rng(parked') = (Rng(parked) \ {Head(parked)}) \cup {j} /\ Distinct(parked')
    BY <2>2, <2>3, AppendPlaces
  <2> QED
    BY <1>2, <2>2, <2>4
<1>3. CASE ~ (Len(parked) >= Room)
  <2>1. parked' = Append(parked, j)
    BY <1>3 DEF Park
  <2>2. Rng(parked') = Rng(parked) \cup {j} /\ Distinct(parked')
    BY <2>1, PlacesFacts, AppendPlaces
  <2> QED
    BY <1>1, <1>3, <2>2
<1> QED
  BY <1>2, <1>3

(* A turn of the hub ends while there is no connection.                    *)
LEMMA ParkKeeps ==
  ASSUME LinkInv, PlacesInv, process = "up", UNCHANGED <<setup, wire, heard, process>>,
         NEW j \in Jobs, Kind[j] = "hub", phase[j] = "running",
         phase' = [phase EXCEPT ![j] = "over"], Park(j)
  PROVE  LedgerStep
<1>1. j \notin Rng(parked) \cup Rng(wire) \cup heard
  BY PlacesFacts
<1>2. phase'[j] = "over" /\ \A k \in Jobs \ {j} : phase'[k] = phase[k]
  BY DEF LinkInv, TypeOK
<1>3. Kind' = Kind /\ Rng(wire') = Rng(wire)
  BY DEF Kind
<1>4. Distinct(parked') /\ j \in Rng(parked') /\ Rng(parked') \subseteq Rng(parked) \cup {j}
  BY <1>1, ParkPlaces
<1>5. PlacesInv'
  <2>1. \A k \in Rng(parked) \cup {j} \cup Rng(wire) \cup heard : phase'[k] = "over"
    BY <1>2, PlacesFacts
  <2> QED
    BY <1>1, <1>3, <1>4, <2>1, PlacesFacts, PlacesAre DEF PlacesInv, ParkedForHub
<1>6. FateOf(j) = "owed"
  BY <1>1, FateIs
<1>7. FateOf(j)' = "held"
  BY <1>1, <1>2, <1>3, <1>4 DEF FateOf, Rng
<1>8. ASSUME NEW k \in Jobs \ {j}, k \in Rng(parked') <=> k \in Rng(parked)
      PROVE  FateOf(k)' = FateOf(k)
  BY <1>2, <1>3, <1>8, FateSame
<1>9. CASE Len(parked) < Room /\ Rng(parked') = Rng(parked) \cup {j}
  <2>1. Told' = [Told EXCEPT ![j] = "held"]
    BY <1>7, <1>8, <1>9, ToldOne
  <2>2. Answers!SettleHeld(j)
    BY <1>6, <1>9, <2>1, HeldIsParked DEF Answers!SettleHeld, Told
  <2> QED
    BY <1>5, <2>2 DEF LedgerStep, Answers!LedgerNext
<1>10. ASSUME Len(parked) >= Room, NEW d \in Rng(parked),
              Rng(parked') = (Rng(parked) \ {d}) \cup {j}
       PROVE  LedgerStep
  <2>1. d # j /\ d \in Jobs /\ d \notin Rng(parked') /\ d \notin Rng(wire) \cup heard
        /\ phase[d] = "over" /\ Kind[d] = "hub"
    BY <1>1, <1>10, PlacesFacts DEF PlacesInv, ParkedForHub
  <2>2. FateOf(d)' = "lost"
    BY <1>2, <1>3, <2>1 DEF FateOf, Rng
  <2>3. \A k \in Jobs \ {j, d} : FateOf(k)' = FateOf(k)
    BY <1>8, <1>10
  <2>4. Told' = [Told EXCEPT ![j] = "held", ![d] = "lost"]
    BY <1>7, <2>1, <2>2, <2>3 DEF Told
  <2>5. Answers!SettleHeld(j)
    <3>1. ~ (Answers!Cardinality(Answers!In("held")) < Room)
          /\ Answers!Cardinality(Answers!In("held")) >= Room /\ d \in Answers!In("held")
      BY <1>10, HeldIsParked, PlacesFacts, LinkAssumption
    <3> QED
      BY <1>6, <2>4, <3>1 DEF Answers!SettleHeld, Told
  <2> QED
    BY <1>5, <2>5 DEF LedgerStep, Answers!LedgerNext
<1> QED
  BY <1>1, <1>9, <1>10, ParkPlaces

(* ... or its answer is sent at once, as is a refusal.                     *)
LEMMA SentKeeps ==
  ASSUME LinkInv, PlacesInv, process = "up", UNCHANGED <<setup, parked, heard, process>>,
         NEW j \in Jobs, phase[j] \in {"waiting", "running"},
         phase' = [phase EXCEPT ![j] = "over"], wire' = Append(wire, j)
  PROVE  LedgerStep
<1>1. j \notin Rng(parked) \cup Rng(wire) \cup heard
  BY PlacesFacts
<1>2. phase'[j] = "over" /\ \A k \in Jobs \ {j} : phase'[k] = phase[k]
  BY DEF LinkInv, TypeOK
<1>3. Rng(wire') = Rng(wire) \cup {j} /\ Distinct(wire')
  BY <1>1, PlacesFacts, AppendPlaces
<1>4. Kind' = Kind /\ Rng(parked') = Rng(parked)
  BY DEF Kind
<1>5. PlacesInv'
  <2>1. \A k \in Rng(parked) \cup (Rng(wire) \cup {j}) \cup heard : phase'[k] = "over"
    BY <1>2, PlacesFacts
  <2> QED
    BY <1>1, <1>3, <1>4, <2>1, PlacesFacts, PlacesAre DEF PlacesInv, ParkedForHub
<1>6. \A k \in Jobs \ {j} : FateOf(k)' = FateOf(k)
  BY <1>2, <1>3, <1>4, FateSame
<1>7. CASE Kind[j] = "hub"
  <2>1. FateOf(j) = "owed"
    BY <1>1, <1>7, FateIs
  <2>2. FateOf(j)' = "sent"
    BY <1>1, <1>3, <1>4, <1>7 DEF FateOf, Rng
  <2>3. Told' = [Told EXCEPT ![j] = "sent"]
    BY <1>6, <2>2, ToldOne
  <2>4. Answers!SettleSent(j)
    BY <2>1, <2>3 DEF Answers!SettleSent, Told
  <2> QED
    BY <1>5, <2>4 DEF LedgerStep, Answers!LedgerNext
<1>8. CASE Kind[j] # "hub"
  <2>1. FateOf(j)' = FateOf(j)
    BY <1>4, <1>8 DEF FateOf
  <2> QED
    BY <1>5, <1>6, <2>1, ToldSame DEF LedgerStep
<1> QED
  BY <1>7, <1>8

LEMMA FinishesKeeps ==
  ASSUME LinkInv, PlacesInv, process = "up", UNCHANGED setup, NEW j \in Jobs,
         Finishes(j) \/ Refuses(j)
  PROVE  LedgerStep
<1>1. /\ phase[j] \in {"waiting", "running"} /\ phase' = [phase EXCEPT ![j] = "over"]
      /\ UNCHANGED <<heard, process>>
  BY DEF Finishes, Refuses
<1>2. \/ wire' = Append(wire, j) /\ parked' = parked
      \/ wire' = wire /\ Kind[j] = "hub" /\ phase[j] = "running" /\ Park(j)
      \/ wire' = wire /\ parked' = parked /\ Kind[j] # "hub"
  BY DEF Finishes, Refuses, SendResult
<1>3. CASE wire' = Append(wire, j) /\ parked' = parked
  BY <1>1, <1>3, SentKeeps
<1>4. CASE wire' = wire /\ Kind[j] = "hub" /\ phase[j] = "running" /\ Park(j)
  BY <1>1, <1>4, ParkKeeps
<1>5. CASE wire' = wire /\ parked' = parked /\ Kind[j] # "hub"
  <2>1. \A k \in Jobs : phase'[k] = phase[k] \/ (phase[k] # "over" /\ Kind[k] # "hub")
    BY <1>1, <1>5 DEF LinkInv, TypeOK
  <2> QED
    BY <1>1, <1>5, <2>1, QuietKeeps
<1> QED
  BY <1>2, <1>3, <1>4, <1>5

(* The process is gone, and with it what it still had to say.              *)
LEMMA EndKeeps ==
  ASSUME LinkInv, PlacesInv, process = "up", process' # "up",
         UNCHANGED <<setup, phase, parked, wire, heard>>
  PROVE  LedgerStep
<1>1. PlacesInv'
  <2>1. /\ Rng(parked') = Rng(parked) /\ Rng(wire') = Rng(wire) /\ heard' = heard
        /\ phase' = phase /\ Kind' = Kind /\ parked' = parked /\ wire' = wire
    BY DEF Kind
  <2> QED
    BY <2>1, PlacesFacts, PlacesAre DEF PlacesInv, ParkedForHub
<1>2. ASSUME NEW j \in Jobs
      PROVE  FateOf(j)' = IF FateOf(j) \in {"held", "owed", "sent"} THEN "lost" ELSE FateOf(j)
  <2>1. Kind'[j] = Kind[j]
    BY DEF Kind
  <2>2. CASE Kind[j] # "hub"
    BY <2>1, <2>2 DEF FateOf
  <2>3. CASE Kind[j] = "hub" /\ j \in heard
    <3>1. FateOf(j) = "heard"
      BY <2>3, FateIs
    <3>2. FateOf(j)' = "heard"
      BY <2>1, <2>3 DEF FateOf
    <3> QED
      BY <3>1, <3>2
  <2>4. CASE Kind[j] = "hub" /\ j \notin heard /\ phase[j] \in {"waiting", "running", "over"}
    <3>1. FateOf(j)' = "lost"
      BY <2>1, <2>4 DEF FateOf
    <3>2. FateOf(j) \in {"held", "owed", "sent", "lost"}
      BY <2>4, FateIs
    <3> QED
      BY <3>1, <3>2
  <2>5. CASE Kind[j] = "hub" /\ j \notin heard /\ phase[j] \in {"new", "cancelled"}
    <3>1. j \notin Rng(parked) \cup Rng(wire) \cup heard
      BY <2>5, PlacesFacts
    <3>2. Rng(parked)' = Rng(parked) /\ Rng(wire)' = Rng(wire)
      BY DEF Rng
    <3>3. FateOf(j)' = FateOf(j)
      BY <2>1, <2>5, <3>1, <3>2 DEF FateOf
    <3>4. FateOf(j) \in {"none", "withdrawn"}
      BY <2>5, <3>1, FateIs
    <3> QED
      BY <3>3, <3>4
  <2> QED
    BY <2>2, <2>3, <2>4, <2>5, FateIs
<1>3. Answers!End
  BY <1>2 DEF Answers!End, Answers!Moved, Answers!In, Told
<1> QED
  BY <1>1, <1>3 DEF LedgerStep, Answers!LedgerNext

(* Every step of the link is one of the ledger, or none.                   *)
LEMMA LinkKeepsLedger ==
  ASSUME LinkInv, PlacesInv, Next
  PROVE  LedgerStep
<1> USE DEF jobVars, resultVars
<1>0. process = "up" /\ UNCHANGED setup
  BY DEF Next
<1>1. CASE Closed
  BY <1>0, <1>1, ClosedKeeps
<1>2. CASE Replaces \/ Exits
  <2>1. UNCHANGED <<phase, parked, wire, heard>>
    BY <1>2 DEF Replaces, Exits
  <2> QED
    BY <1>0, <2>1, EndKeeps, QuietKeeps
<1>3. CASE \/ Connect \/ Watchdog \/ Drained \/ OneShotEnds \/ Opens \/ Breaks \/ FallsSilent
           \/ StopRequested \/ RestartRequested \/ \E e \in 1..MaxSockets : OpenResumes(e)
  <2>1. UNCHANGED <<phase, parked, wire, heard, process>>
    BY <1>3 DEF Connect, Watchdog, Drained, OneShotEnds, Opens, Breaks, FallsSilent, StopRequested,
                RestartRequested, OpenResumes
  <2> QED
    BY <1>0, <2>1, QuietKeeps
<1>4. ASSUME NEW j \in Jobs, Starts(j) \/ Throws(j) PROVE LedgerStep
  BY <1>0, <1>4, StartsKeeps
<1>5. ASSUME NEW j \in Jobs, Refuses(j) \/ Finishes(j) PROVE LedgerStep
  BY <1>0, <1>5, FinishesKeeps
<1>6. CASE Registered
  BY <1>0, <1>6, RegisteredKeeps
<1>7. CASE Hears
  BY <1>0, <1>7, HearsKeeps
<1>8. ASSUME NEW j \in Jobs, Accepts(j) \/ Cancels(j) PROVE LedgerStep
  BY <1>0, <1>8, AcceptsKeeps
<1> QED
  BY <1>1, <1>2, <1>3, <1>4, <1>5, <1>6, <1>7, <1>8 DEF Next, DaemonStep, HubStep

LEMMA PlacesStep ==
  ASSUME LinkInv, PlacesInv, [Next]_vars
  PROVE  PlacesInv' /\ [Answers!LedgerNext]_Told
<1>1. CASE Next
  BY <1>1, LinkKeepsLedger DEF LedgerStep
<1>2. CASE UNCHANGED vars
  <2>1. UNCHANGED <<setup, phase, parked, wire, heard, process>>
    BY <1>2 DEF vars, jobVars, resultVars
  <2>2. PlacesInv'
    BY <2>1 DEF PlacesInv, InOnePlace, ParkedForHub, Kind, Rng
  <2>3. Told' = Told
    BY <2>1 DEF Told, FateOf, Kind, Rng
  <2> QED
    BY <2>2, <2>3
<1> QED
  BY <1>1, <1>2

LEMMA PlacesInit == Start => PlacesInv /\ Answers!LedgerInit
<1> SUFFICES ASSUME Start PROVE PlacesInv /\ Answers!LedgerInit
  OBVIOUS
<1>1. /\ parked = << >> /\ wire = << >> /\ heard = {}
      /\ \A j \in Jobs : phase[j] = "new"
  BY DEF Start
<1>2. Rng(parked) = {} /\ Rng(wire) = {}
  BY <1>1 DEF Rng
<1>3. PlacesInv
  BY <1>1, <1>2 DEF PlacesInv, InOnePlace, ParkedForHub
<1>4. \A j \in Jobs : FateOf(j) = "none"
  BY <1>1, <1>2 DEF FateOf
<1> QED
  BY <1>3, <1>4 DEF Answers!LedgerInit

LEMMA Places == Spec => []PlacesInv /\ [][Answers!LedgerNext]_Told
<1>1. Init => PlacesInv
  BY PlacesInit DEF Init
<1>2. LinkInv /\ PlacesInv /\ [Next]_vars => PlacesInv' /\ [Answers!LedgerNext]_Told
  BY PlacesStep
<1> QED
  BY <1>1, <1>2, LinkInvariant, PTL DEF Spec

(* An answer is in one place: parked, under way or heard, and once.        *)
THEOREM AnswersAreInOnePlace == Spec => []InOnePlace
<1>1. PlacesInv => InOnePlace
  BY DEF PlacesInv
<1> QED
  BY <1>1, Places, PTL

(* The link implements the ledger: whatever breaks, reconnects, restarts   *)
(* and one-shot ends do, an answer owed to the hub is lost only with the   *)
(* connection that carried it, by overflow of the park, or with the        *)
(* process, and never heard twice.                                         *)
THEOREM LinkKeepsTheLedger == Spec => KeepsLedger
<1>1. Init => Answers!LedgerInit
  BY PlacesInit DEF Init
<1> QED
  BY <1>1, Places, PTL DEF Spec, KeepsLedger, Answers!Ledger, Told

-----------------------------------------------------------------------------
(* The daemon: its queue runs as JobQueue, and its link as HubLink or not  *)
(* at all.                                                                 *)
LEMMA DaemonsQueue == DaemonSpec => QueueSpec
<1>1. DaemonInit => QueueInit
  BY DEF DaemonInit
<1>2. [DaemonNext]_daemonVars => [QueueNext]_queueVars
  BY DEF DaemonNext, Links, Queues, daemonVars
<1> QED
  BY <1>1, <1>2, PTL DEF DaemonSpec, QueueSpec

LEMMA DaemonsLink ==
  DaemonSpec => [](LinkInv /\ PlacesInv) /\ [][Next]_vars /\ Answers!LedgerInit
                  /\ [][Answers!LedgerNext]_Told
<1>1. DaemonInit => LinkInv /\ PlacesInv /\ Answers!LedgerInit
  BY InitInv, PlacesInit DEF DaemonInit, Init
<1>2. [DaemonNext]_daemonVars => [Next]_vars
  BY DEF DaemonNext, Links, Queues, daemonVars
<1>3. LinkInv /\ [Next]_vars => LinkInv'
  BY LinkStep
<1>4. LinkInv /\ PlacesInv /\ [Next]_vars => PlacesInv' /\ [Answers!LedgerNext]_Told
  BY PlacesStep
<1> QED
  BY <1>1, <1>2, <1>3, <1>4, PTL DEF DaemonSpec

(* Of the daemon as a whole: its counter is the turns that run, no key is  *)
(* live twice, and a heartbeat is the connection's own (queue.mjs:77-199,  *)
(* agensis.mjs:485-554, 819-833).                                          *)
THEOREM DaemonIsSafe == DaemonSpec => [](RunningCounts /\ NoDuplicateLiveKey /\ OneHeartbeat)
<1>1. LinkInv => OneHeartbeat
  BY DEF LinkInv
<1> QED
  BY <1>1, DaemonsLink, DaemonsQueue, CapHolds, KeysAreUnique, PTL

(* ... a cancelled job does not run, a conversation is served in order,    *)
(* and an answer is lost as the ledger says or not at all                  *)
(* (queue.mjs:77-199, agensis.mjs:2507-2514).                              *)
THEOREM DaemonKeepsItsPromises ==
  DaemonSpec => CancelIsFinal /\ LaneServed /\ KeepsLedger
<1>1. DaemonSpec => KeepsLedger
  BY DaemonsLink, PTL DEF KeepsLedger, Answers!Ledger, Told
<1> QED
  BY <1>1, DaemonsQueue, CancelsAreFinal, QueueServesLanes, PTL
=============================================================================
