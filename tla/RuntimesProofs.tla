-------------------------- MODULE RuntimesProofs --------------------------
(***************************************************************************)
(* What holds of the Codex pool for any number of turns and app-servers,   *)
(* whatever an app-server says or does; of sandboxes; and of the answer    *)
(* that is read from any output.                                           *)
(***************************************************************************)
EXTENDS Runtimes, AcpPoolProofs, SequenceTheorems, TLAPS

(* A turn past the lock.                                                   *)
Inside(t) == stage[t] \in {"opening", "running"}

Shape ==
  /\ DOMAIN stage = Turns /\ line \in Seq(Turns)
  /\ DOMAIN on = Turns
  /\ \A t \in Turns : Inside(t) => on[t] \in Servers
  /\ current \in Servers \cup {NoServer} /\ timers \subseteq Servers

ServerShape ==
  /\ DOMAIN server = Servers
  /\ \A s \in Servers : DOMAIN server[s] = {"child", "built", "inbox", "said", "out"}

(* The lock: only its holder is inside.                                    *)
OneInside == \A t \in Turns : Inside(t) => Holds(t)

(* Who is listened for, or waited for, is running.                         *)
OnlyRunning == attends \cup pending \subseteq {t \in Turns : stage[t] = "running"}

(* During a handshake no session is pooled.                                *)
OpensAlone == \A t \in Turns : stage[t] = "opening" => current = NoServer

LockInv == Shape /\ OneInside /\ OnlyRunning /\ OpensAlone /\ IdleTimerOwned

LEMMA NoneIsNoServer == NoServer \notin Servers
  BY DEF NoServer, Servers

LEMMA ArmedIsOwned ==
  ASSUME LockInv
  PROVE  Armed \subseteq {current} /\ Armed \subseteq Servers
  BY DEF Armed, LockInv, Shape, IdleTimerOwned

(* A turn that leaves takes the lock with it, whatever happens to the      *)
(* pooled session, as long as its timer goes with it.                      *)
LEMMA LeavingKeepsLock ==
  ASSUME LockInv, NEW t \in Turns, Holds(t),
         NEW next \in {"over", "local"}, Goes(t, next),
         current' \in {current, NoServer}, timers' \subseteq {current'}, timers' \subseteq Servers
  PROVE  LockInv'
<1>1. line # << >> /\ Head(line) = t /\ line' = Tail(line)
  BY DEF Holds, Goes
<1>2. line' \in Seq(Turns)
  BY <1>1 DEF LockInv, Shape
<1>3. \A u \in Turns : ~ Inside(u)'
  BY <1>1 DEF Goes, Inside, LockInv, Shape, OneInside, Holds
<1>4. Shape'
  BY <1>2, <1>3 DEF Goes, LockInv, Shape
<1>5. \A u \in Turns : stage[u] = "running" => u = t
  BY <1>1 DEF LockInv, OneInside, Inside, Holds
<1>6. attends' \cup pending' = {}
  BY <1>5 DEF Goes, LockInv, OnlyRunning
<1> QED
  BY <1>3, <1>4, <1>6
     DEF LockInv, OneInside, OnlyRunning, OpensAlone, IdleTimerOwned, Inside

(* A turn that attaches to the pooled session, or to the one it opened.    *)
LEMMA AttachKeepsLock ==
  ASSUME LockInv, NEW t \in Turns, Holds(t), NEW s \in Servers, Attach(t, s),
         current = s \/ stage[t] = "opening"
  PROVE  LockInv'
<1>1. timers \subseteq {s}
  BY NoneIsNoServer DEF LockInv, Shape, OpensAlone, IdleTimerOwned
<1>2. \A u \in Turns : Inside(u)' => u = t
  BY DEF Attach, Inside, LockInv, Shape, OneInside, Holds
<1>3. stage'[t] = "running" /\ on'[t] = s /\ line' = line
  BY DEF Attach, LockInv, Shape
<1>4. Shape'
  BY <1>2, <1>3 DEF Attach, LockInv, Shape
<1>5. OneInside' /\ OpensAlone'
  BY <1>2, <1>3 DEF OneInside, OpensAlone, Holds, Inside
<1>6. \A u \in Turns : stage[u] = "running" => u = t
  BY DEF LockInv, OneInside, Inside, Holds
<1>7. OnlyRunning'
  BY <1>3, <1>6 DEF Attach, LockInv, OnlyRunning
<1>8. IdleTimerOwned'
  BY <1>1 DEF Attach, IdleTimerOwned
<1> QED
  BY <1>4, <1>5, <1>7, <1>8 DEF LockInv

(* A step that leaves the turns and the pool where they are.               *)
LEMMA QuietKeepsLock ==
  ASSUME LockInv, UNCHANGED <<stage, line, on, current>>,
         attends' \subseteq attends, pending' \subseteq pending, timers' \subseteq timers
  PROVE  LockInv'
<1>1. Shape'
  BY DEF LockInv, Shape, Inside
<1>2. OneInside' /\ OpensAlone'
  BY DEF LockInv, OneInside, OpensAlone, Inside, Holds
<1>3. OnlyRunning' /\ IdleTimerOwned'
  BY DEF LockInv, OnlyRunning, IdleTimerOwned
<1> QED
  BY <1>1, <1>2, <1>3 DEF LockInv

LEMMA SpawningKeepsLock ==
  ASSUME LockInv, NEW t \in Turns, EnterSpawning(t)
  PROVE  LockInv'
<1>1. PICK s \in Servers : on' = [on EXCEPT ![t] = s]
  BY DEF EnterSpawning
<1>2. /\ stage' = [stage EXCEPT ![t] = "opening"] /\ line' = line /\ Holds(t)
      /\ current' = NoServer /\ attends' = attends /\ pending' = pending /\ stage[t] = "queued"
  BY DEF EnterSpawning
<1>3. timers' = {}
  BY DEF EnterSpawning, LockInv, IdleTimerOwned
<1>4. \A u \in Turns : Inside(u)' => u = t
  BY <1>2 DEF Inside, LockInv, Shape, OneInside, Holds
<1>5. Shape'
  BY <1>1, <1>2, <1>3, <1>4 DEF LockInv, Shape
<1>6. OneInside' /\ OpensAlone' /\ IdleTimerOwned'
  BY <1>2, <1>3, <1>4 DEF OneInside, OpensAlone, IdleTimerOwned, Holds
<1>7. OnlyRunning'
  BY <1>2 DEF LockInv, Shape, OnlyRunning
<1> QED
  BY <1>5, <1>6, <1>7 DEF LockInv

LEMMA CallingKeepsLock ==
  ASSUME LockInv, NEW t \in Turns, Calls(t) \/ CallsLocal(t) \/ LocalEnds(t) \/ CancelsUnheard(t)
  PROVE  LockInv'
<1>1. UNCHANGED <<on, current, timers, attends, pending>> /\ DOMAIN stage' = DOMAIN stage
  BY DEF Calls, CallsLocal, LocalEnds, CancelsUnheard
<1>2. /\ \A u \in Turns : Inside(u)' => Inside(u) /\ stage'[u] = stage[u]
      /\ \A u \in Turns : stage[u] = "running" => stage'[u] = "running"
  BY DEF Calls, CallsLocal, LocalEnds, CancelsUnheard, Inside, LockInv, Shape
<1>3. line' \in Seq(Turns) /\ (line # << >> => line' # << >> /\ Head(line') = Head(line))
  BY DEF Calls, CallsLocal, LocalEnds, CancelsUnheard, LockInv, Shape
<1>4. Shape'
  BY <1>1, <1>2, <1>3 DEF LockInv, Shape
<1>5. OneInside' /\ OpensAlone'
  BY <1>1, <1>2, <1>3 DEF LockInv, OneInside, OpensAlone, Holds, Inside
<1>6. OnlyRunning' /\ IdleTimerOwned'
  BY <1>1, <1>2 DEF LockInv, OnlyRunning, IdleTimerOwned
<1> QED
  BY <1>4, <1>5, <1>6 DEF LockInv

(* The pool and its timers after closeSession() and after armIdleTimer().  *)
LEMMA ClosedIsOwned ==
  ASSUME LockInv, NEW t, CloseSession(t)
  PROVE  current' = NoServer /\ timers' = {}
  BY DEF LockInv, IdleTimerOwned, CloseSession

(* A message leaves the turns alone, or ends the turn that listens.        *)
LEMMA ReadingKeepsLock ==
  ASSUME LockInv, NEW s \in Servers, DaemonReads(s)
  PROVE  LockInv'
<1> DEFINE m == Head(server[s].out)
<1>1. current' = current
  BY DEF DaemonReads
<1>2. CASE ReadsReply(s, m) \/ ReadsIdly(s, m) \/ \E t \in Turns : ReadsStarted(s, m, t) \/ ReadsItem(s, m, t)
  <2>1. UNCHANGED <<stage, line, on, attends, timers>> /\ pending' \subseteq pending
    BY <1>2 DEF ReadsReply, ReadsIdly, ReadsStarted, ReadsItem, ReadsOn
  <2> QED
    BY <1>1, <2>1, QuietKeepsLock
<1>3. ASSUME NEW t \in Turns, Holds(t), Leaves(t) \/ FailsOrFallsBack(t), timers' = Armed
      PROVE  LockInv'
  BY <1>1, <1>3, LeavingKeepsLock, ArmedIsOwned DEF Leaves, FailsOrFallsBack
<1>4. CASE ReadsRefusal(s, m)
  <2>1. m.turn \in Turns /\ Holds(m.turn)
    BY <1>4 DEF ReadsRefusal, LockInv, OnlyRunning, OneInside, Inside
  <2> QED
    BY <1>3, <1>4, <2>1 DEF ReadsRefusal, ReadsLast
<1>5. CASE \E t \in Turns : ReadsDone(s, m, t)
  <2>1. PICK t \in Turns : ReadsDone(s, m, t)
    BY <1>5
  <2>2. Holds(t) /\ (Leaves(t) \/ FailsOrFallsBack(t)) /\ timers' = Armed
    BY <2>1 DEF ReadsDone, ReadsLast, Hears, LockInv, OneInside, Inside
  <2> QED
    BY <1>3, <2>2
<1> QED
  BY <1>2, <1>4, <1>5 DEF DaemonReads

LEMMA LockStep ==
  ASSUME LockInv, [CodexNext]_codexVars
  PROVE  LockInv'
<1>1. ASSUME NEW t \in Turns, Calls(t) \/ CallsLocal(t) \/ LocalEnds(t) \/ CancelsUnheard(t)
      PROVE  LockInv'
  BY <1>1, CallingKeepsLock
<1>2. ASSUME NEW t \in Turns, EnterCancelled(t) \/ OpeningFails(t)
      PROVE  LockInv'
  <2>1. Holds(t) /\ UNCHANGED <<current, timers>> /\ (Leaves(t) \/ FailsOrFallsBack(t))
    BY <1>2 DEF EnterCancelled, OpeningFails, LockInv, OneInside, Inside
  <2>2. timers' \subseteq {current'} /\ timers' \subseteq Servers
    BY <2>1 DEF LockInv, Shape, IdleTimerOwned
  <2> QED
    BY <2>1, <2>2, LeavingKeepsLock DEF Leaves, FailsOrFallsBack
<1>3. ASSUME NEW t \in Turns, EnterReusing(t) PROVE LockInv'
  <2>1. current \in Servers
    BY <1>3 DEF EnterReusing, Reusable, LockInv, Shape
  <2> QED
    BY <1>3, <2>1, AttachKeepsLock DEF EnterReusing
<1>4. ASSUME NEW t \in Turns, EnterSpawning(t) PROVE LockInv'
  BY <1>4, SpawningKeepsLock
<1>5. ASSUME NEW t \in Turns, OpeningSucceeds(t) PROVE LockInv'
  <2>1. Holds(t) /\ on[t] \in Servers /\ stage[t] = "opening" /\ Attach(t, on[t])
    BY <1>5 DEF OpeningSucceeds, LockInv, Shape, OneInside, Inside
  <2> QED
    BY <2>1, AttachKeepsLock
<1>6. ASSUME NEW t \in Turns, CancelsRun(t) \/ Deadline(t) PROVE LockInv'
  <2>1. Holds(t) /\ Goes(t, "over") /\ CloseSession(t)
    BY <1>6 DEF CancelsRun, Deadline, Leaves, LockInv, OneInside, OnlyRunning, Inside
  <2> QED
    BY <2>1, LeavingKeepsLock, ClosedIsOwned
<1>7. ASSUME NEW t \in Turns, StartUnanswered(t) PROVE LockInv'
  <2>1. Holds(t) /\ Goes(t, "over") /\ current' = current /\ timers' = Armed
    BY <1>7 DEF StartUnanswered, ArmIdleTimer, Leaves, LockInv, OneInside, Inside
  <2> QED
    BY <2>1, LeavingKeepsLock, ArmedIsOwned
<1>8. ASSUME NEW s \in Servers, IdleClose(s) PROVE LockInv'
  <2>1. timers' = {} /\ current' = NoServer /\ UNCHANGED <<stage, line, on, attends, pending>>
    BY <1>8 DEF IdleClose, codexTurnVars, LockInv, IdleTimerOwned
  <2>2. Shape'
    BY <2>1 DEF LockInv, Shape, Inside
  <2>3. OneInside' /\ OpensAlone' /\ OnlyRunning' /\ IdleTimerOwned'
    BY <2>1 DEF LockInv, OneInside, OpensAlone, OnlyRunning, IdleTimerOwned, Inside, Holds
  <2> QED
    BY <2>2, <2>3 DEF LockInv
<1>9. ASSUME NEW s \in Servers, DaemonReads(s) PROVE LockInv'
  BY <1>9, ReadingKeepsLock
<1>10. ASSUME NEW s \in Servers, NEW t \in Turns, ChildExits(s, t) PROVE LockInv'
  <2>1. Holds(t) /\ FailsOrFallsBack(t) /\ current' = current /\ timers' = Armed
    BY <1>10 DEF ChildExits, Hears, LockInv, OneInside, Inside
  <2> QED
    BY <2>1, LeavingKeepsLock, ArmedIsOwned DEF Leaves, FailsOrFallsBack
<1>11. ASSUME NEW s \in Servers,
              \/ ChildExitsIdly(s) \/ ServerAnswers(s) \/ ServerBegins(s)
              \/ ServerProduces(s) \/ ServerEnds(s)
       PROVE  LockInv'
  <2>1. UNCHANGED <<codexTurnVars, current, timers>>
    BY <1>11 DEF ChildExitsIdly, ServerAnswers, ServerBegins, ServerProduces, ServerEnds, Says
  <2> QED
    BY <2>1, QuietKeepsLock DEF codexTurnVars
<1>12. CASE UNCHANGED codexVars
  BY <1>12, QuietKeepsLock DEF codexVars, codexTurnVars
<1> QED
  BY <1>1, <1>2, <1>3, <1>4, <1>5, <1>6, <1>7, <1>8, <1>9, <1>10, <1>11, <1>12
     DEF CodexNext, CodexStep

LEMMA LockInit == ASSUME CodexInit PROVE LockInv
<1>1. Shape /\ \A t \in Turns : ~ Inside(t)
  BY DEF CodexInit, Shape, Inside
<1>2. OneInside /\ OpensAlone /\ OnlyRunning /\ IdleTimerOwned
  BY <1>1 DEF CodexInit, OneInside, OpensAlone, OnlyRunning, IdleTimerOwned, Inside
<1> QED
  BY <1>1, <1>2 DEF LockInv

(* One turn at a time is past the keyed lock, whatever order turns call,   *)
(* are cancelled and time out in (connectionExecutors.mjs:942-1074).       *)
THEOREM LockIsExclusive == CodexSpec => []OneInside
<1>1. CodexInit => LockInv
  BY LockInit
<1>2. LockInv /\ [CodexNext]_codexVars => LockInv'
  BY LockStep
<1>3. LockInv => OneInside
  BY DEF LockInv
<1> QED
  BY <1>1, <1>2, <1>3, PTL DEF CodexSpec

(* An idle timer is armed for the pooled session only, so that it cannot   *)
(* close another (:877-891).                                               *)
THEOREM TimersAreOwned == CodexSpec => []IdleTimerOwned
<1>1. CodexInit => LockInv
  BY LockInit
<1>2. LockInv /\ [CodexNext]_codexVars => LockInv'
  BY LockStep
<1>3. LockInv => IdleTimerOwned
  BY DEF LockInv
<1> QED
  BY <1>1, <1>2, <1>3, PTL DEF CodexSpec

-----------------------------------------------------------------------------
ServerInv == ServerShape /\ NoOrphanServer

(* No app-server comes to life.                                            *)
NoneRises == \A s \in Servers : Alive(s)' => Alive(s)

LEMMA NothingSpawned == ~ (Blank.child = "live")
  BY DEF Blank

(* Telling app-servers to end.                                             *)
LEMMA EndedFacts ==
  ASSUME ServerShape, NEW S, NEW t, server' = Ended(S, t)
  PROVE  ServerShape' /\ NoneRises /\ \A s \in S \cap Servers : ~ Alive(s)'
<1> SUFFICES ASSUME NEW s \in Servers
             PROVE  /\ DOMAIN server'[s] = {"child", "built", "inbox", "said", "out"}
                    /\ Alive(s)' => Alive(s) /\ s \notin S
  BY DEF ServerShape, NoneRises, Ended
<1>1. CASE s \notin S
  BY <1>1 DEF ServerShape, Ended, Alive
<1>2. CASE s \in S
  <2>1. \/ server'[s] = Blank
        \/ server'[s] = [server[s] EXCEPT !.child = IF @ = "live" THEN "termed" ELSE @]
    BY <1>2 DEF Ended
  <2>2. CASE server'[s] = Blank
    BY <2>2 DEF Blank, Alive
  <2>3. CASE server'[s] = [server[s] EXCEPT !.child = IF @ = "live" THEN "termed" ELSE @]
    BY <2>3 DEF ServerShape, Alive
  <2> QED
    BY <2>1, <2>2, <2>3
<1> QED
  BY <1>1, <1>2

(* An app-server whose entry alone changes, to one that is not live or to  *)
(* one with other messages.                                                *)
LEMMA BlankedFacts ==
  ASSUME ServerShape, NEW s \in Servers, NEW v \in {Blank, Dead(s)}, server' = [server EXCEPT ![s] = v]
  PROVE  ServerShape' /\ NoneRises
<1>1. CASE v = Blank
  BY <1>1 DEF Blank, ServerShape, NoneRises, Alive
<1>2. CASE v = Dead(s)
  <2>1. DOMAIN v = {"child", "built", "inbox", "said", "out"} /\ v.child # "live"
    BY <1>2 DEF Blank, Dead
  <2> QED
    BY <2>1 DEF ServerShape, NoneRises, Alive
<1> QED
  BY <1>1, <1>2

LEMMA ReadFacts ==
  ASSUME ServerShape, NEW s \in Servers, server' = Read(s)
  PROVE  ServerShape' /\ NoneRises
<1>1. \A r \in Servers : DOMAIN server'[r] = DOMAIN server[r] /\ server'[r].child = server[r].child
  BY DEF ServerShape, Read
<1> QED
  BY <1>1 DEF ServerShape, NoneRises, Alive, Read

LEMMA SaysFacts ==
  ASSUME ServerShape, NEW s \in Servers, NEW k, NEW a, Says(s, k, a)
  PROVE  ServerShape' /\ NoneRises /\ UNCHANGED <<stage, on, current>>
<1>1. \E o, i : server' = [server EXCEPT ![s] = [@ EXCEPT !.out = o, !.inbox = i, !.said = a]]
  BY DEF Says
<1>2. DOMAIN server' = Servers
  BY <1>1 DEF ServerShape
<1>3. \A r \in Servers : DOMAIN server'[r] = DOMAIN server[r] /\ server'[r].child = server[r].child
  BY <1>1 DEF ServerShape
<1> QED
  BY <1>2, <1>3 DEF ServerShape, NoneRises, Alive, Says, codexTurnVars

(* A turn that leaves the pool takes what it opened with it.               *)
LEMMA LeavingOrphansNone ==
  ASSUME LockInv, NoOrphanServer, NEW t \in Turns, Holds(t), NoneRises,
         current' = current \/ (current' = NoServer /\ (current \in Servers => server'[current].child # "live")),
         stage[t] = "opening" => server'[on[t]].child # "live",
         \A u \in Turns \ {t} : stage'[u] = stage[u]
  PROVE  NoOrphanServer'
<1> SUFFICES ASSUME NEW s \in Servers, Alive(s)'
             PROVE  s = current'
  BY DEF NoOrphanServer
<1>1. Alive(s)
  BY DEF NoneRises
<1>2. \A u \in Turns : stage[u] = "opening" => u = t
  BY DEF LockInv, OneInside, Inside, Holds
<1> QED
  BY <1>1, <1>2 DEF NoOrphanServer, Alive

LEMMA QuietOrphansNone ==
  ASSUME NoOrphanServer, NoneRises, current' = current, on' = on,
         \A t \in Turns : stage[t] = "opening" => stage'[t] = "opening"
  PROVE  NoOrphanServer'
  BY DEF NoOrphanServer, NoneRises

LEMMA AttachOrphansNone ==
  ASSUME LockInv, ServerInv, NEW t \in Turns, Holds(t), NEW s \in Servers, Attach(t, s),
         (current = s /\ stage[t] = "queued") \/ (stage[t] = "opening" /\ on[t] = s)
  PROVE  ServerInv'
<1>1. DOMAIN server' = Servers
  BY DEF Attach, ServerInv, ServerShape
<1>2. \A r \in Servers : DOMAIN server'[r] = DOMAIN server[r] /\ server'[r].child = server[r].child
  BY DEF Attach, ServerInv, ServerShape
<1>3. \A u \in Turns : stage[u] = "opening" => u = t
  BY DEF LockInv, OneInside, Inside, Holds
<1>4. ASSUME NEW r \in Servers, Alive(r)
      PROVE  r = s
  BY <1>3, <1>4, NoneIsNoServer DEF ServerInv, NoOrphanServer, LockInv, OpensAlone
<1> QED
  BY <1>1, <1>2, <1>4 DEF ServerInv, ServerShape, NoOrphanServer, Alive, Attach

LEMMA SpawningOrphansNone ==
  ASSUME LockInv, ServerInv, NEW t \in Turns, EnterSpawning(t)
  PROVE  ServerInv'
<1>1. PICK s \in Servers : /\ server' = [Ended({current}, t) EXCEPT ![s] = Fresh(t)]
                           /\ on' = [on EXCEPT ![t] = s]
  BY DEF EnterSpawning
<1>2. /\ stage' = [stage EXCEPT ![t] = "opening"] /\ Holds(t) /\ stage[t] = "queued"
  BY DEF EnterSpawning
<1> DEFINE e == Ended({current}, t)
<1>3. /\ DOMAIN e = Servers
      /\ \A r \in Servers : /\ DOMAIN e[r] = {"child", "built", "inbox", "said", "out"}
                            /\ e[r].child = "live" => Alive(r) /\ r # current
  <2>1. DOMAIN e = Servers
    BY DEF Ended
  <2> SUFFICES ASSUME NEW r \in Servers
               PROVE  /\ DOMAIN e[r] = {"child", "built", "inbox", "said", "out"}
                      /\ e[r].child = "live" => Alive(r) /\ r # current
    BY <2>1
  <2>2. CASE r # current
    BY <2>2 DEF Ended, ServerInv, ServerShape, Alive
  <2>3. CASE r = current
    <3>1. \/ e[r] = Blank
          \/ e[r] = [server[r] EXCEPT !.child = IF @ = "live" THEN "termed" ELSE @]
      BY <2>3 DEF Ended
    <3> HIDE DEF e
    <3>2. CASE e[r] = Blank
      BY <3>2 DEF Blank
    <3>3. CASE e[r] = [server[r] EXCEPT !.child = IF @ = "live" THEN "termed" ELSE @]
      BY <3>3 DEF ServerInv, ServerShape
    <3> QED
      BY <3>1, <3>2, <3>3
  <2> QED
    BY <2>2, <2>3
<1>4. DOMAIN Fresh(t) = {"child", "built", "inbox", "said", "out"}
  BY DEF Fresh, Blank
<1> HIDE DEF e
<1>5. ServerShape'
  BY <1>1, <1>3, <1>4 DEF ServerShape, e
<1>6. \A u \in Turns : stage[u] # "opening"
  BY <1>2 DEF LockInv, OneInside, Inside, Holds
<1>7. ASSUME NEW r \in Servers, Alive(r)', r # s
      PROVE  FALSE
  <2>1. server'[r] = e[r]
    BY <1>1, <1>3, <1>7 DEF e
  <2> QED
    BY <1>3, <1>6, <1>7, <2>1 DEF Alive, ServerInv, NoOrphanServer
<1>8. stage'[t] = "opening" /\ on'[t] = s
  BY <1>1, <1>2 DEF LockInv, Shape
<1>9. NoOrphanServer'
  BY <1>7, <1>8 DEF NoOrphanServer
<1> QED
  BY <1>5, <1>9 DEF ServerInv

LEMMA ReadingOrphansNone ==
  ASSUME LockInv, ServerInv, NEW s \in Servers, DaemonReads(s)
  PROVE  ServerInv'
<1> DEFINE m == Head(server[s].out)
<1> USE DEF ServerInv
<1>1. current' = current
  BY DEF DaemonReads
<1>2. CASE ReadsReply(s, m) \/ ReadsIdly(s, m) \/ \E t \in Turns : ReadsStarted(s, m, t) \/ ReadsItem(s, m, t)
  <2>1. UNCHANGED <<stage, on>> /\ server' = Read(s)
    BY <1>2 DEF ReadsReply, ReadsIdly, ReadsStarted, ReadsItem, ReadsOn
  <2> QED
    BY <1>1, <2>1, ReadFacts, QuietOrphansNone
<1>3. ASSUME NEW t \in Turns, stage[t] = "running", Leaves(t) \/ FailsOrFallsBack(t), ReadsLast(s, t)
      PROVE  ServerInv'
  <2>1. ServerShape' /\ NoneRises
    BY <1>3, ReadFacts, BlankedFacts DEF ReadsLast
  <2>2. Holds(t) /\ \A u \in Turns \ {t} : stage'[u] = stage[u]
    BY <1>3 DEF LockInv, Shape, OneInside, Inside, Leaves, FailsOrFallsBack, Goes
  <2> QED
    BY <1>1, <1>3, <2>1, <2>2, LeavingOrphansNone
<1>4. CASE ReadsRefusal(s, m)
  <2>1. m.turn \in Turns /\ stage[m.turn] = "running"
    BY <1>4 DEF ReadsRefusal, LockInv, OnlyRunning
  <2> QED
    BY <1>3, <1>4, <2>1 DEF ReadsRefusal
<1>5. ASSUME NEW t \in Turns, ReadsDone(s, m, t)
      PROVE  ServerInv'
  <2>1. stage[t] = "running" /\ (Leaves(t) \/ FailsOrFallsBack(t)) /\ ReadsLast(s, t)
    BY <1>5 DEF ReadsDone, Hears
  <2> QED
    BY <1>3, <2>1
<1> QED
  BY <1>2, <1>4, <1>5 DEF DaemonReads

LEMMA ServerStep ==
  ASSUME LockInv, ServerInv, [CodexNext]_codexVars
  PROVE  ServerInv'
<1> USE DEF ServerInv
<1>1. ASSUME NEW t \in Turns, Calls(t) \/ CallsLocal(t) \/ LocalEnds(t) \/ CancelsUnheard(t)
      PROVE  ServerInv'
  <2>1. /\ UNCHANGED <<on, current, server>>
        /\ \A u \in Turns : stage[u] = "opening" => stage'[u] = "opening"
    BY <1>1 DEF Calls, CallsLocal, LocalEnds, CancelsUnheard, LockInv, Shape
  <2>2. ServerShape' /\ NoneRises
    BY <2>1 DEF ServerShape, NoneRises, Alive
  <2> QED
    BY <2>1, <2>2, QuietOrphansNone
<1>2. ASSUME NEW t \in Turns, Holds(t), Leaves(t) \/ FailsOrFallsBack(t)
      PROVE  \A u \in Turns \ {t} : stage'[u] = stage[u]
  BY <1>2 DEF Leaves, FailsOrFallsBack, Goes, LockInv, Shape
<1>3. ASSUME NEW t \in Turns, EnterCancelled(t) PROVE ServerInv'
  <2>1. Holds(t) /\ Leaves(t) /\ stage[t] = "queued" /\ UNCHANGED <<current, server>>
    BY <1>3 DEF EnterCancelled
  <2>2. ServerShape' /\ NoneRises
    BY <2>1 DEF ServerShape, NoneRises, Alive
  <2> QED
    BY <1>2, <2>1, <2>2, LeavingOrphansNone
<1>4. ASSUME NEW t \in Turns, EnterReusing(t) PROVE ServerInv'
  <2>1. current \in Servers
    BY <1>4 DEF EnterReusing, Reusable, LockInv, Shape
  <2> QED
    BY <1>4, <2>1, AttachOrphansNone DEF EnterReusing
<1>5. ASSUME NEW t \in Turns, EnterSpawning(t) PROVE ServerInv'
  BY <1>5, SpawningOrphansNone
<1>6. ASSUME NEW t \in Turns, OpeningSucceeds(t) PROVE ServerInv'
  <2>1. Holds(t) /\ on[t] \in Servers /\ stage[t] = "opening" /\ Attach(t, on[t])
    BY <1>6 DEF OpeningSucceeds, LockInv, Shape, OneInside, Inside
  <2> QED
    BY <2>1, AttachOrphansNone
<1>7. ASSUME NEW t \in Turns, OpeningFails(t) PROVE ServerInv'
  <2>1. /\ Holds(t) /\ on[t] \in Servers /\ (Leaves(t) \/ FailsOrFallsBack(t))
        /\ current' = current /\ server' = Ended({on[t]}, t)
    BY <1>7 DEF OpeningFails, LockInv, Shape, OneInside, Inside
  <2>2. ServerShape' /\ NoneRises /\ server'[on[t]].child # "live"
    BY <2>1, EndedFacts DEF Alive
  <2> QED
    BY <1>2, <2>1, <2>2, LeavingOrphansNone
<1>8. ASSUME NEW t \in Turns, CancelsRun(t) \/ Deadline(t) PROVE ServerInv'
  <2>1. Holds(t) /\ Leaves(t) /\ CloseSession(t) /\ stage[t] = "running"
    BY <1>8 DEF CancelsRun, Deadline, LockInv, OneInside, OnlyRunning, Inside
  <2>2. server' = Ended({current, on[t]}, t) /\ current' = NoServer
    BY <2>1 DEF CloseSession
  <2>3. ServerShape' /\ NoneRises /\ (current \in Servers => server'[current].child # "live")
    BY <2>2, EndedFacts DEF Alive
  <2> QED
    BY <1>2, <2>1, <2>2, <2>3, LeavingOrphansNone
<1>9. ASSUME NEW t \in Turns, StartUnanswered(t) PROVE ServerInv'
  <2>1. Holds(t) /\ Leaves(t) /\ current' = current /\ stage[t] = "running" /\ ArmIdleTimer(t)
    BY <1>9 DEF StartUnanswered, LockInv, OneInside, Inside
  <2>2. ServerShape' /\ NoneRises
    <3>1. CASE server' = server
      BY <3>1 DEF ServerShape, NoneRises, Alive
    <3>2. CASE server' = Ended({on[t]}, t)
      BY <3>2, EndedFacts
    <3> QED
      BY <2>1, <3>1, <3>2 DEF ArmIdleTimer
  <2> QED
    BY <1>2, <2>1, <2>2, LeavingOrphansNone
<1>10. ASSUME NEW s \in Servers, DaemonReads(s) PROVE ServerInv'
  BY <1>10, ReadingOrphansNone
<1>11. ASSUME NEW s \in Servers, NEW t \in Turns, ChildExits(s, t) PROVE ServerInv'
  <2>1. /\ Holds(t) /\ FailsOrFallsBack(t) /\ current' = current /\ stage[t] = "running"
        /\ server' = [server EXCEPT ![s] = IF s = current THEN Dead(s) ELSE Blank]
    BY <1>11 DEF ChildExits, Hears, LockInv, OneInside, Inside
  <2>2. ServerShape' /\ NoneRises
    BY <2>1, BlankedFacts
  <2> QED
    BY <1>2, <2>1, <2>2, LeavingOrphansNone
<1>12. ASSUME NEW s \in Servers, ChildExitsIdly(s) PROVE ServerInv'
  <2>1. UNCHANGED <<stage, on, current>> /\ server' = [server EXCEPT ![s] = Dead(s)]
    BY <1>12 DEF ChildExitsIdly, codexTurnVars
  <2>2. ServerShape' /\ NoneRises
    BY <2>1, BlankedFacts
  <2> QED
    BY <2>1, <2>2, QuietOrphansNone
<1>13. ASSUME NEW s \in Servers,
              ServerAnswers(s) \/ ServerBegins(s) \/ ServerProduces(s) \/ ServerEnds(s)
       PROVE  ServerInv'
  <2>1. \E k, a : Says(s, k, a)
    BY <1>13 DEF ServerAnswers, ServerBegins, ServerProduces, ServerEnds
  <2> QED
    BY <2>1, SaysFacts, QuietOrphansNone
<1>14. ASSUME NEW s \in Servers, IdleClose(s) PROVE ServerInv'
  <2>1. UNCHANGED <<stage, on>> /\ current' = NoServer
    BY <1>14 DEF IdleClose, codexTurnVars
  <2>2. DOMAIN server' = Servers
    BY <1>14 DEF IdleClose
  <2>3. ASSUME NEW r \in Servers
        PROVE  /\ DOMAIN server'[r] = {"child", "built", "inbox", "said", "out"}
               /\ Alive(r)' => Alive(r) /\ r # current
    <3>1. CASE r # current
      BY <1>14, <3>1 DEF IdleClose, ServerShape, Alive
    <3>2. CASE r = current
      <4>1. \/ server'[r] = Blank
            \/ server'[r] = [server[r] EXCEPT !.child = IF @ = "live" THEN "termed" ELSE @]
        BY <1>14, <3>2 DEF IdleClose
      <4>2. CASE server'[r] = Blank
        BY <4>2 DEF Blank, Alive
      <4>3. CASE server'[r] = [server[r] EXCEPT !.child = IF @ = "live" THEN "termed" ELSE @]
        BY <4>3 DEF ServerShape, Alive
      <4> QED
        BY <4>1, <4>2, <4>3
    <3> QED
      BY <3>1, <3>2
  <2>4. ServerShape'
    BY <2>2, <2>3 DEF ServerShape
  <2>5. NoOrphanServer'
    BY <2>1, <2>3 DEF NoOrphanServer
  <2> QED
    BY <2>4, <2>5
<1>15. CASE UNCHANGED codexVars
  <2>1. UNCHANGED <<stage, on, current, server>>
    BY <1>15 DEF codexVars, codexTurnVars
  <2>2. ServerShape' /\ NoneRises
    BY <2>1 DEF ServerShape, NoneRises, Alive
  <2> QED
    BY <2>1, <2>2, QuietOrphansNone
<1> QED
  BY <1>1, <1>3, <1>4, <1>5, <1>6, <1>7, <1>8, <1>9, <1>10, <1>11, <1>12, <1>13, <1>14, <1>15
     DEF CodexNext, CodexStep

(* Every live app-server is pooled or in the handshake of the turn that    *)
(* holds the lock, so that somebody can end it (:911-939).                 *)
THEOREM ServersAreOwned == CodexSpec => []NoOrphanServer
<1> DEFINE Inv == LockInv /\ ServerInv
<1>1. CodexInit => Inv
  <2>1. ASSUME CodexInit PROVE ServerShape /\ NoOrphanServer
    BY <2>1 DEF CodexInit, ServerShape, NoOrphanServer, Alive, Blank
  <2> QED
    BY <2>1, LockInit DEF ServerInv
<1>2. Inv /\ [CodexNext]_codexVars => Inv'
  BY LockStep, ServerStep
<1>3. Inv => NoOrphanServer
  BY DEF ServerInv
<1> HIDE DEF Inv
<1> QED
  BY <1>1, <1>2, <1>3, PTL DEF CodexSpec

-----------------------------------------------------------------------------
(* What an app-server still has to do with a turn.                         *)
Listed(e) == {e.inbox[i] : i \in 1..Len(e.inbox)}
Voiced(e) == {e.out[i].turn : i \in 1..Len(e.out)}
Mentions(e) == Listed(e) \cup Voiced(e)

Ends == {"refusal", "done", "failed"}
Messages == [kind : Kinds, turn : Turns]

(* It has a turn once, and nothing more of it after its end.               *)
Orderly(e) ==
  /\ e.inbox \in Seq(Turns) /\ e.out \in Seq(Messages)
  /\ \A i, k \in 1..Len(e.inbox) : e.inbox[i] = e.inbox[k] => i = k
  /\ \A i \in 1..Len(e.out) :
       e.out[i].kind \in Ends =>
         /\ e.out[i].turn \notin Listed(e)
         /\ \A k \in (i + 1)..Len(e.out) : e.out[k].turn # e.out[i].turn

(* It has been asked for nothing but turns that are or were attached.      *)
Attached(t) == stage[t] \in {"running", "over", "local"}

(* Of a turn that does not listen to it, it has nothing to say, unless     *)
(* that turn was given up, or ended by another.                            *)
Accounted(s, t) == Hears(t, s) \/ t \in Displaced

TalkInv ==
  /\ \A s \in Servers : /\ Orderly(server[s])
                        /\ \A t \in Mentions(server[s]) : Attached(t) /\ Accounted(s, t)
  /\ CodexNoCrossTalk

LEMMA EmptyOrderly ==
  ASSUME NEW e, e.inbox = << >>, e.out = << >>
  PROVE  Orderly(e) /\ Mentions(e) = {}
  BY DEF Orderly, Mentions, Listed, Voiced

LEMMA SameOrderly ==
  ASSUME NEW e, NEW f, Orderly(e), f.inbox = e.inbox, f.out = e.out
  PROVE  Orderly(f) /\ Mentions(f) = Mentions(e)
  BY DEF Orderly, Mentions, Listed, Voiced

(* One more turn in its inbox.                                             *)
LEMMA AskedOrderly ==
  ASSUME NEW e, NEW f, Orderly(e), NEW t \in Turns, t \notin Mentions(e),
         f.inbox = Append(e.inbox, t), f.out = e.out
  PROVE  Orderly(f) /\ Mentions(f) = Mentions(e) \cup {t}
<1>1. /\ e.inbox \in Seq(Turns) /\ f.inbox \in Seq(Turns) /\ Len(e.inbox) \in Nat
      /\ Len(f.inbox) = Len(e.inbox) + 1 /\ f.inbox[Len(e.inbox) + 1] = t
      /\ \A i \in 1..Len(e.inbox) : f.inbox[i] = e.inbox[i]
  BY DEF Orderly
<1>2. 1..Len(f.inbox) = 1..Len(e.inbox) \cup {Len(e.inbox) + 1}
  BY <1>1
<1>3. Listed(f) = Listed(e) \cup {t} /\ Voiced(f) = Voiced(e)
  BY <1>1, <1>2 DEF Listed, Voiced
<1>4. t \notin Listed(e) /\ t \notin Voiced(e)
  BY DEF Mentions
<1>5. \A i, k \in 1..Len(f.inbox) : f.inbox[i] = f.inbox[k] => i = k
  BY <1>1, <1>2, <1>4 DEF Orderly, Listed
<1>6. \A i \in 1..Len(f.out) :
        f.out[i].kind \in Ends =>
          /\ f.out[i].turn \notin Listed(f)
          /\ \A k \in (i + 1)..Len(f.out) : f.out[k].turn # f.out[i].turn
  BY <1>3, <1>4 DEF Orderly, Voiced
<1>7. f.out \in Seq(Messages)
  BY DEF Orderly
<1> QED
  BY <1>1, <1>3, <1>5, <1>6, <1>7 DEF Orderly, Mentions

(* A message is read: the last of a turn leaves no trace of it.            *)
LEMMA ReadOrderly ==
  ASSUME NEW e, NEW f, Orderly(e), e.out # << >>, f.inbox = e.inbox, f.out = Tail(e.out)
  PROVE  /\ Orderly(f) /\ Mentions(f) \subseteq Mentions(e)
         /\ Head(e.out).turn \in Turns /\ Head(e.out).turn \in Mentions(e)
         /\ Head(e.out).kind \in Ends => Head(e.out).turn \notin Mentions(f)
<1>1. /\ e.out \in Seq(Messages) /\ Len(e.out) \in Nat \ {0} /\ Head(e.out) = e.out[1]
      /\ f.out \in Seq(Messages) /\ Len(f.out) = Len(e.out) - 1
      /\ \A i \in 1..(Len(e.out) - 1) : f.out[i] = e.out[i + 1]
      /\ \A i \in 1..Len(e.out) : e.out[i] \in Messages
  BY DEF Orderly
<1>2. \A i \in 1..Len(f.out) : i + 1 \in 1..Len(e.out) /\ f.out[i] = e.out[i + 1]
  BY <1>1
<1>3. Listed(f) = Listed(e) /\ Voiced(f) \subseteq Voiced(e)
  BY <1>1, <1>2 DEF Listed, Voiced
<1>4. ASSUME NEW i \in 1..Len(f.out), f.out[i].kind \in Ends
      PROVE  /\ f.out[i].turn \notin Listed(f)
             /\ \A k \in (i + 1)..Len(f.out) : f.out[k].turn # f.out[i].turn
  <2>1. /\ e.out[i + 1].turn \notin Listed(e)
        /\ \A k \in ((i + 1) + 1)..Len(e.out) : e.out[k].turn # e.out[i + 1].turn
    BY <1>2, <1>4 DEF Orderly
  <2>2. ASSUME NEW k \in (i + 1)..Len(f.out) PROVE f.out[k].turn # f.out[i].turn
    <3>1. k \in 1..Len(f.out) /\ k + 1 \in ((i + 1) + 1)..Len(e.out)
      BY <1>1, <2>2
    <3> QED
      BY <1>2, <2>1, <3>1
  <2> QED
    BY <1>2, <1>3, <2>1, <2>2
<1>5. Orderly(f)
  BY <1>1, <1>4 DEF Orderly
<1>6. Head(e.out).turn \in Turns /\ Head(e.out).turn \in Voiced(e)
  BY <1>1 DEF Messages, Voiced
<1>7. ASSUME Head(e.out).kind \in Ends PROVE Head(e.out).turn \notin Mentions(f)
  <2>1. /\ e.out[1].turn \notin Listed(e)
        /\ \A k \in (1 + 1)..Len(e.out) : e.out[k].turn # e.out[1].turn
    BY <1>1, <1>7 DEF Orderly
  <2>2. \A i \in 1..Len(f.out) : f.out[i].turn # e.out[1].turn
    <3> SUFFICES ASSUME NEW i \in 1..Len(f.out) PROVE f.out[i].turn # e.out[1].turn
      OBVIOUS
    <3>1. i + 1 \in (1 + 1)..Len(e.out) /\ f.out[i] = e.out[i + 1]
      BY <1>1
    <3> QED
      BY <2>1, <3>1
  <2> QED
    BY <1>1, <1>3, <2>1, <2>2 DEF Mentions, Voiced
<1> QED
  BY <1>3, <1>5, <1>6, <1>7 DEF Mentions

(* The app-server says something of its turn.                              *)
LEMMA SaidOrderly ==
  ASSUME NEW e, NEW f, Orderly(e), e.inbox # << >>, NEW kind \in Kinds,
         f.out = Append(e.out, [kind |-> kind, turn |-> Head(e.inbox)]),
         f.inbox = IF kind \in Ends THEN Tail(e.inbox) ELSE e.inbox
  PROVE  Orderly(f) /\ Mentions(f) \subseteq Mentions(e)
<1> DEFINE t == Head(e.inbox)
           n == Len(e.out)
<1>1. /\ e.inbox \in Seq(Turns) /\ Len(e.inbox) \in Nat \ {0} /\ t = e.inbox[1] /\ t \in Turns
      /\ Tail(e.inbox) \in Seq(Turns) /\ Len(Tail(e.inbox)) = Len(e.inbox) - 1
      /\ \A i \in 1..(Len(e.inbox) - 1) : Tail(e.inbox)[i] = e.inbox[i + 1]
  BY DEF Orderly
<1>2. /\ f.out \in Seq(Messages) /\ n \in Nat /\ Len(f.out) = n + 1
      /\ f.out[n + 1].kind = kind /\ f.out[n + 1].turn = t
      /\ \A i \in 1..n : f.out[i] = e.out[i]
  <2>1. [kind |-> kind, turn |-> t] \in Messages
    BY <1>1 DEF Messages
  <2> HIDE DEF t
  <2> QED
    BY <2>1 DEF Orderly, t
<1> HIDE DEF t, n
<1>3. t \in Listed(e)
  BY <1>1 DEF Listed
<1>4. /\ f.inbox \in Seq(Turns) /\ Listed(f) \subseteq Listed(e)
      /\ \A i, k \in 1..Len(f.inbox) : f.inbox[i] = f.inbox[k] => i = k
      /\ kind \in Ends => t \notin Listed(f)
  <2>1. CASE kind \notin Ends
    BY <2>1 DEF Orderly, Listed
  <2>2. CASE kind \in Ends
    <3>1. /\ f.inbox \in Seq(Turns) /\ Len(f.inbox) = Len(e.inbox) - 1
          /\ \A i \in 1..Len(f.inbox) : i + 1 \in 1..Len(e.inbox) /\ f.inbox[i] = e.inbox[i + 1]
      BY <1>1, <2>2
    <3>2. \A i, k \in 1..Len(f.inbox) : f.inbox[i] = f.inbox[k] => i = k
      <4> SUFFICES ASSUME NEW i \in 1..Len(f.inbox), NEW k \in 1..Len(f.inbox),
                          f.inbox[i] = f.inbox[k]
                   PROVE  i = k
        OBVIOUS
      <4>1. i + 1 = k + 1
        BY <3>1 DEF Orderly
      <4> QED
        BY <1>1, <3>1, <4>1
    <3>3. Listed(f) \subseteq Listed(e)
      BY <3>1 DEF Listed
    <3>4. t \notin Listed(f)
      <4> SUFFICES ASSUME NEW i \in 1..Len(f.inbox), f.inbox[i] = t PROVE FALSE
        BY DEF Listed
      <4>1. i + 1 = 1
        BY <1>1, <3>1 DEF Orderly
      <4> QED
        BY <1>1, <3>1, <4>1
    <3> QED
      BY <3>1, <3>2, <3>3, <3>4
  <2> QED
    BY <2>1, <2>2
<1>5. ASSUME NEW i \in 1..Len(f.out), f.out[i].kind \in Ends
      PROVE  /\ f.out[i].turn \notin Listed(f)
             /\ \A k \in (i + 1)..Len(f.out) : f.out[k].turn # f.out[i].turn
  <2>1. CASE i = n + 1
    BY <1>2, <1>4, <1>5, <2>1
  <2>2. CASE i \in 1..n
    <3>1. /\ f.out[i] = e.out[i] /\ e.out[i].turn \notin Listed(e)
          /\ \A k \in (i + 1)..n : e.out[k].turn # e.out[i].turn
      BY <1>2, <1>5, <2>2 DEF Orderly, n
    <3>2. ASSUME NEW k \in (i + 1)..Len(f.out) PROVE f.out[k].turn # f.out[i].turn
      <4>1. CASE k = n + 1
        BY <1>2, <1>3, <3>1, <4>1
      <4>2. CASE k # n + 1
        <5>1. k \in (i + 1)..n /\ k \in 1..n
          BY <1>2, <2>2, <3>2, <4>2
        <5> QED
          BY <1>2, <3>1, <5>1
      <4> QED
        BY <4>1, <4>2
    <3> QED
      BY <1>4, <3>1, <3>2
  <2> QED
    BY <1>2, <2>1, <2>2
<1>6. Voiced(f) \subseteq Voiced(e) \cup {t}
  <2> SUFFICES ASSUME NEW i \in 1..Len(f.out) PROVE f.out[i].turn \in Voiced(e) \cup {t}
    BY DEF Voiced
  <2>1. i = n + 1 \/ i \in 1..n
    BY <1>2
  <2> QED
    BY <1>2, <2>1 DEF Voiced, n
<1> QED
  BY <1>2, <1>3, <1>4, <1>5, <1>6 DEF Orderly, Mentions

-----------------------------------------------------------------------------
(* What app-servers are left with: no more than they had.                  *)
NothingNew ==
  \A s \in Servers : Orderly(server'[s]) /\ Mentions(server'[s]) \subseteq Mentions(server[s])

LEMMA TalkIs ==
  ASSUME \A s \in Servers : Orderly(server'[s]),
         \A s \in Servers : \A t \in Mentions(server'[s]) : Attached(t)' /\ Accounted(s, t)',
         CodexNoCrossTalk'
  PROVE  TalkInv'
<1>1. \A s \in Servers : Orderly(server[s])'
  BY DEF Orderly, Listed
<1>2. \A s \in Servers : Mentions(server[s])' = Mentions(server'[s])
  BY DEF Mentions, Listed, Voiced
<1> QED
  BY <1>1, <1>2 DEF TalkInv

LEMMA BlankTalk ==
  /\ Orderly(Blank) /\ Mentions(Blank) = {}
  /\ \A s \in Servers : Orderly(Dead(s)) /\ Mentions(Dead(s)) = {}
  /\ \A t \in Turns : Orderly(Fresh(t)) /\ Mentions(Fresh(t)) = {}
<1>1. Blank.inbox = << >> /\ Blank.out = << >>
  BY DEF Blank
<1>2. \A s \in Servers : Dead(s).inbox = << >> /\ Dead(s).out = << >>
  BY DEF Dead, Blank
<1>3. \A t \in Turns : Fresh(t).inbox = << >> /\ Fresh(t).out = << >>
  BY DEF Fresh, Blank
<1> QED
  BY <1>1, <1>2, <1>3, EmptyOrderly

(* Nothing is given up or overheard.                                       *)
LEMMA DisplacedSame ==
  ASSUME TalkInv, UNCHANGED <<unanswered, overheard>>
  PROVE  CodexNoCrossTalk' /\ Displaced' = Displaced
  BY DEF TalkInv, CodexNoCrossTalk, Displaced

LEMMA MentionedFacts ==
  ASSUME TalkInv, NEW s \in Servers, NEW t \in Mentions(server[s])
  PROVE  Attached(t) /\ (Hears(t, s) \/ t \in Displaced)
  BY DEF TalkInv, Accounted

(* A step after which every turn listens as before.                        *)
LEMMA QuietTalk ==
  ASSUME TalkInv, NothingNew, CodexNoCrossTalk', Displaced \subseteq Displaced',
         UNCHANGED on, \A t \in DOMAIN stage : Attached(t) => stage'[t] = stage[t],
         \A s \in Servers : Mentions(server[s]) \subseteq DOMAIN stage
  PROVE  TalkInv'
<1> SUFFICES ASSUME NEW s \in Servers, NEW t \in Mentions(server'[s])
             PROVE  Attached(t)' /\ Accounted(s, t)'
  BY TalkIs DEF NothingNew
<1>1. t \in Mentions(server[s])
  BY DEF NothingNew
<1>2. Attached(t) /\ (Hears(t, s) \/ t \in Displaced) /\ stage'[t] = stage[t]
  BY <1>1, MentionedFacts
<1> QED
  BY <1>2 DEF Attached, Accounted, Hears

LEMMA MentionsTurns ==
  ASSUME TalkInv, NEW s \in Servers
  PROVE  Mentions(server[s]) \subseteq Turns
<1>1. server[s].inbox \in Seq(Turns) /\ server[s].out \in Seq(Messages)
  BY DEF TalkInv, Orderly
<1>2. Listed(server[s]) \subseteq Turns
  BY <1>1 DEF Listed
<1>3. \A i \in 1..Len(server[s].out) : server[s].out[i] \in Messages
  BY <1>1
<1>4. Voiced(server[s]) \subseteq Turns
  BY <1>3 DEF Voiced, Messages
<1> QED
  BY <1>2, <1>4 DEF Mentions

(* The holder of the lock leaves.                                          *)
LEMMA LeavingTalk ==
  ASSUME LockInv, TalkInv, NEW t \in Turns, Holds(t), NEW next \in {"over", "local"},
         Goes(t, next), NothingNew, CodexNoCrossTalk', Displaced \subseteq Displaced',
         on[t] \in Servers /\ t \in Mentions(server'[on[t]]) => t \in Displaced'
  PROVE  TalkInv'
<1> SUFFICES ASSUME NEW s \in Servers, NEW u \in Mentions(server'[s])
             PROVE  Attached(u)' /\ Accounted(s, u)'
  BY TalkIs DEF NothingNew
<1>1. u \in Mentions(server[s]) /\ u \in Turns
  BY MentionsTurns DEF NothingNew
<1>2. Attached(u) /\ (Hears(u, s) \/ u \in Displaced)
  BY <1>1, MentionedFacts
<1>3. DOMAIN stage = Turns /\ stage' = [stage EXCEPT ![t] = next]
  BY DEF LockInv, Shape, Goes
<1>4. Attached(u)'
  BY <1>1, <1>2, <1>3 DEF Attached
<1>5. Hears(u, s) => u = t /\ on[t] = s
  BY <1>1 DEF Hears, LockInv, OneInside, Inside, Holds
<1>6. u \in Displaced'
  BY <1>2, <1>5
<1> QED
  BY <1>4, <1>6 DEF Accounted

(* Telling app-servers to end.                                             *)
LEMMA EndedTalk ==
  ASSUME LockInv, ServerShape, TalkInv, NEW S, NEW t \in Turns, Holds(t), server' = Ended(S, t)
  PROVE  NothingNew /\ \A s \in S \cap Servers : Mentions(server'[s]) = {}
<1> SUFFICES ASSUME NEW s \in Servers
             PROVE  /\ Orderly(server'[s]) /\ Mentions(server'[s]) \subseteq Mentions(server[s])
                    /\ s \in S => Mentions(server'[s]) = {}
  BY DEF NothingNew
<1>1. \A u \in Turns \ {t} : ~ Hears(u, s)
  BY DEF Hears, LockInv, OneInside, Inside, Holds
<1>2. (server'[s] = server[s] /\ s \notin S) \/ server'[s] = Blank
  BY <1>1 DEF Ended
<1> QED
  BY <1>2, BlankTalk DEF TalkInv

(* One entry changes.                                                      *)
LEMMA OneTalk ==
  ASSUME ServerShape, TalkInv, NEW s \in Servers, NEW e, server' = [server EXCEPT ![s] = e],
         Orderly(e), Mentions(e) \subseteq Mentions(server[s])
  PROVE  NothingNew
  BY DEF ServerShape, TalkInv, NothingNew

(* A turn attaches, which no app-server knows of.                          *)
LEMMA AttachTalk ==
  ASSUME LockInv, ServerShape, TalkInv, NEW t \in Turns, NEW s \in Servers, Attach(t, s),
         stage[t] \in {"queued", "opening"}
  PROVE  TalkInv'
<1>1. \A r \in Servers : t \notin Mentions(server[r])
  <2>1. ~ Attached(t)
    BY DEF Attached
  <2> QED
    BY <2>1, MentionedFacts
<1>2. /\ server'[s].inbox = Append(server[s].inbox, t) /\ server'[s].out = server[s].out
      /\ \A r \in Servers \ {s} : server'[r] = server[r]
  BY DEF Attach, ServerShape
<1>3. \A r \in Servers : Orderly(server[r])
  BY DEF TalkInv
<1>4. Orderly(server'[s]) /\ Mentions(server'[s]) = Mentions(server[s]) \cup {t}
  BY <1>1, <1>2, <1>3, AskedOrderly
<1>5. CodexNoCrossTalk' /\ Displaced' = Displaced
  BY DisplacedSame DEF Attach
<1>6. DOMAIN stage = Turns /\ DOMAIN on = Turns
  BY DEF LockInv, Shape
<1> SUFFICES ASSUME NEW r \in Servers, NEW u \in Mentions(server'[r])
             PROVE  Attached(u)' /\ Accounted(r, u)'
  BY <1>2, <1>3, <1>4, <1>5, TalkIs
<1>7. CASE u = t
  <2>1. r = s
    BY <1>1, <1>2, <1>7
  <2> QED
    BY <1>6, <1>7, <2>1 DEF Attach, Attached, Accounted, Hears
<1>8. CASE u # t
  <2>1. u \in Mentions(server[r])
    BY <1>2, <1>4, <1>8
  <2>2. Attached(u) /\ (Hears(u, r) \/ u \in Displaced)
    BY <2>1, MentionedFacts
  <2>3. stage'[u] = stage[u] /\ on'[u] = on[u]
    BY <1>8 DEF Attach
  <2> QED
    BY <1>5, <2>2, <2>3 DEF Attached, Accounted, Hears
<1> QED
  BY <1>7, <1>8

(* What a turn hears of another, it hears of one that was displaced.       *)
LEMMA TakesTalk ==
  ASSUME LockInv, TalkInv, NEW s \in Servers, NEW t \in Turns, Hears(t, s),
         NEW u \in Mentions(server[s]), Takes(t, u), UNCHANGED unanswered
  PROVE  /\ CodexNoCrossTalk' /\ Displaced \subseteq Displaced'
         /\ u # t => t \in Displaced'
<1>1. CASE u = t
  BY <1>1, DisplacedSame DEF Takes
<1>2. CASE u # t
  <2>1. overheard' = overheard \cup {<<t, u>>}
    BY <1>2 DEF Takes
  <2>2. ~ Hears(u, s)
    BY <1>2, MentionsTurns DEF Hears, LockInv, OneInside, Inside, Holds
  <2>3. u \in Displaced
    BY <2>2, MentionedFacts
  <2>4. Displaced \subseteq Displaced' /\ t \in Displaced'
    <3>1. <<t, u>>[1] = t /\ <<t, u>> \in overheard'
      BY <2>1
    <3>2. t \in {p[1] : p \in overheard'}
      BY <3>1
    <3>3. {p[1] : p \in overheard} \subseteq {p[1] : p \in overheard'}
      BY <2>1
    <3> QED
      BY <3>2, <3>3 DEF Displaced
  <2>5. unanswered # {}
    BY <2>3 DEF Displaced, TalkInv, CodexNoCrossTalk
  <2>6. \A p \in overheard : p[2] \in Displaced
    BY DEF TalkInv, CodexNoCrossTalk
  <2>7. \A p \in overheard' : p[2] \in Displaced'
    BY <2>1, <2>3, <2>4, <2>6
  <2> QED
    BY <2>4, <2>5, <2>7 DEF CodexNoCrossTalk
<1> QED
  BY <1>1, <1>2

LEMMA ReadingTalk ==
  ASSUME LockInv, ServerShape, TalkInv, NEW s \in Servers, DaemonReads(s)
  PROVE  TalkInv'
<1> DEFINE e == server[s]
           f == [e EXCEPT !.out = Tail(@)]
<1>0. PICK m : m = Head(e.out)
  OBVIOUS
<1>1. /\ e.out # << >> /\ UNCHANGED <<unanswered, current>>
      /\ \/ ReadsReply(s, m) \/ ReadsRefusal(s, m) \/ ReadsIdly(s, m)
         \/ \E t \in Turns : ReadsStarted(s, m, t) \/ ReadsItem(s, m, t) \/ ReadsDone(s, m, t)
  BY <1>0 DEF DaemonReads
<1>2. f.inbox = e.inbox /\ f.out = Tail(e.out) /\ Read(s) = [server EXCEPT ![s] = f]
  BY DEF ServerShape, Read
<1>3. Orderly(e)
  BY DEF TalkInv
<1> HIDE DEF f
<1>4. /\ Orderly(f) /\ Mentions(f) \subseteq Mentions(e)
      /\ m.turn \in Turns /\ m.turn \in Mentions(e)
      /\ m.kind \in Ends => m.turn \notin Mentions(f)
  BY <1>0, <1>1, <1>2, <1>3, ReadOrderly
<1>5. ASSUME server' = Read(s) \/ server' = [server EXCEPT ![s] = Blank]
      PROVE  /\ NothingNew
             /\ m.kind \in Ends => m.turn \notin Mentions(server'[s])
  <2>1. CASE server' = Read(s)
    BY <1>2, <1>4, <2>1, OneTalk DEF ServerShape
  <2>2. CASE server' = [server EXCEPT ![s] = Blank]
    BY <2>2, BlankTalk, OneTalk DEF ServerShape
  <2> QED
    BY <1>5, <2>1, <2>2
<1>6. DOMAIN stage = Turns /\ \A r \in Servers : Mentions(server[r]) \subseteq Turns
  BY MentionsTurns DEF LockInv, Shape
<1>7. ASSUME ReadsOn(s), CodexNoCrossTalk', Displaced \subseteq Displaced' PROVE TalkInv'
  BY <1>5, <1>6, <1>7, QuietTalk DEF ReadsOn
<1>8. CASE ReadsReply(s, m) \/ ReadsIdly(s, m)
  <2>1. ReadsOn(s) /\ UNCHANGED overheard
    BY <1>8 DEF ReadsReply, ReadsIdly
  <2> QED
    BY <1>1, <1>7, <2>1, DisplacedSame
<1>9. ASSUME NEW t \in Turns, ReadsStarted(s, m, t) PROVE TalkInv'
  <2>1. ReadsOn(s) /\ UNCHANGED overheard
    BY <1>9 DEF ReadsStarted
  <2> QED
    BY <1>1, <1>7, <2>1, DisplacedSame
<1>10. ASSUME NEW t \in Turns, ReadsItem(s, m, t) PROVE TalkInv'
  <2>1. ReadsOn(s) /\ Hears(t, s) /\ Takes(t, m.turn)
    BY <1>10 DEF ReadsItem
  <2> QED
    BY <1>1, <1>4, <1>7, <2>1, TakesTalk
<1>11. ASSUME NEW t \in Turns, Holds(t), Leaves(t) \/ FailsOrFallsBack(t), ReadsLast(s, t),
              CodexNoCrossTalk', Displaced \subseteq Displaced',
              on[t] \in Servers /\ t \in Mentions(server'[on[t]]) => t \in Displaced'
       PROVE  TalkInv'
  <2>1. NothingNew
    BY <1>5, <1>11 DEF ReadsLast
  <2> QED
    BY <1>11, <2>1, LeavingTalk DEF Leaves, FailsOrFallsBack
<1>12. CASE ReadsRefusal(s, m)
  <2> DEFINE t == m.turn
  <2>1. t \in pending /\ m.kind \in Ends /\ FailsOrFallsBack(t) /\ ReadsLast(s, t) /\ UNCHANGED overheard
    BY <1>12 DEF ReadsRefusal, Ends
  <2>2. t \in Turns /\ Holds(t)
    BY <2>1 DEF LockInv, OnlyRunning, OneInside, Inside
  <2>3. CodexNoCrossTalk' /\ Displaced' = Displaced
    BY <1>1, <2>1, DisplacedSame
  <2>4. CASE on[t] = s
    <3>1. t \notin Mentions(server'[on[t]])
      BY <1>5, <2>1, <2>4 DEF ReadsLast
    <3> QED
      BY <1>11, <2>1, <2>2, <2>3, <3>1
  <2>5. CASE on[t] # s
    <3>1. t \in Displaced
      BY <1>4, <2>5, MentionedFacts DEF Hears
    <3> QED
      BY <1>11, <2>1, <2>2, <2>3, <3>1
  <2> QED
    BY <2>4, <2>5
<1>13. ASSUME NEW t \in Turns, ReadsDone(s, m, t) PROVE TalkInv'
  <2>1. /\ m.kind \in Ends /\ Hears(t, s) /\ Takes(t, m.turn) /\ ReadsLast(s, t)
        /\ Leaves(t) \/ FailsOrFallsBack(t)
    BY <1>13 DEF ReadsDone, Ends
  <2>2. Holds(t) /\ on[t] = s
    BY <2>1 DEF Hears, LockInv, OneInside, Inside
  <2>3. CodexNoCrossTalk' /\ Displaced \subseteq Displaced' /\ (m.turn # t => t \in Displaced')
    BY <1>1, <1>4, <2>1, TakesTalk
  <2>4. m.turn = t => t \notin Mentions(server'[on[t]])
    BY <1>5, <2>1, <2>2 DEF ReadsLast
  <2> QED
    BY <1>11, <2>1, <2>2, <2>3, <2>4
<1> QED
  BY <1>1, <1>8, <1>9, <1>10, <1>12, <1>13

LEMMA TalkStep ==
  ASSUME LockInv, ServerShape, TalkInv, [CodexNext]_codexVars
  PROVE  TalkInv'
<1> USE DEF codexTurnVars
<1>0. /\ DOMAIN stage = Turns /\ DOMAIN on = Turns
      /\ \A r \in Servers : Mentions(server[r]) \subseteq Turns
  BY MentionsTurns DEF LockInv, Shape
<1>1. ASSUME server' = server PROVE NothingNew
  BY <1>1 DEF NothingNew, TalkInv
<1>2. ASSUME UNCHANGED <<stage, on, unanswered, overheard>>, NothingNew PROVE TalkInv'
  BY <1>0, <1>2, DisplacedSame, QuietTalk
<1>3. ASSUME NEW t \in Turns, Holds(t), Leaves(t) \/ FailsOrFallsBack(t), NothingNew,
             UNCHANGED <<unanswered, overheard>>,
             on[t] \in Servers /\ t \in Mentions(server'[on[t]]) => t \in Displaced
      PROVE  TalkInv'
  BY <1>3, DisplacedSame, LeavingTalk DEF Leaves, FailsOrFallsBack
<1>4. ASSUME NEW t \in Turns, stage[t] \in {"queued", "opening"}, NEW s \in Servers
      PROVE  t \notin Mentions(server[s])
  BY <1>4, MentionedFacts DEF Attached
<1>5. ASSUME NEW t \in Turns, Calls(t) \/ CallsLocal(t) \/ CancelsUnheard(t) \/ LocalEnds(t)
      PROVE  TalkInv'
  <2>1. UNCHANGED <<on, server, unanswered, overheard>>
    BY <1>5 DEF Calls, CallsLocal, CancelsUnheard, LocalEnds
  <2>2. \A u \in Turns : Attached(u) => Attached(u)' /\ (stage[u] = "running" => stage'[u] = "running")
    BY <1>0, <1>5 DEF Calls, CallsLocal, CancelsUnheard, LocalEnds, Attached
  <2>3. ASSUME NEW r \in Servers, NEW u \in Mentions(server'[r])
        PROVE  Attached(u)' /\ Accounted(r, u)'
    <3>1. Attached(u) /\ (Hears(u, r) \/ u \in Displaced) /\ u \in Turns
      BY <1>0, <2>1, <2>3, MentionedFacts
    <3> QED
      BY <2>1, <2>2, <3>1, DisplacedSame DEF Accounted, Hears
  <2> QED
    BY <2>1, <2>3, DisplacedSame, TalkIs DEF TalkInv
<1>6. ASSUME NEW t \in Turns, EnterCancelled(t) PROVE TalkInv'
  BY <1>1, <1>3, <1>4, <1>6 DEF EnterCancelled
<1>7. ASSUME NEW t \in Turns, EnterReusing(t) PROVE TalkInv'
  <2>1. current \in Servers
    BY <1>7 DEF EnterReusing, Reusable, LockInv, Shape
  <2> QED
    BY <1>7, <2>1, AttachTalk DEF EnterReusing
<1>8. ASSUME NEW t \in Turns, EnterSpawning(t) PROVE TalkInv'
  <2>1. PICK s \in Servers : /\ server' = [Ended({current}, t) EXCEPT ![s] = Fresh(t)]
                             /\ on' = [on EXCEPT ![t] = s]
    BY <1>8 DEF EnterSpawning
  <2>2. /\ stage' = [stage EXCEPT ![t] = "opening"] /\ stage[t] = "queued" /\ Holds(t)
        /\ UNCHANGED <<unanswered, overheard>>
    BY <1>8 DEF EnterSpawning
  <2>3. \A r \in Servers : \/ server'[r] = Fresh(t) \/ server'[r] = server[r] \/ server'[r] = Blank
    <3>1. \A r \in Servers, u \in Turns \ {t} : ~ Hears(u, r)
      BY <2>2 DEF Hears, LockInv, OneInside, Inside, Holds
    <3>2. \A r \in Servers : Ended({current}, t)[r] \in {server[r], Blank}
      BY <3>1 DEF Ended
    <3>3. DOMAIN Ended({current}, t) = Servers
      BY DEF Ended
    <3> QED
      BY <2>1, <3>2, <3>3
  <2>4. NothingNew
    BY <2>3, BlankTalk DEF NothingNew, TalkInv
  <2>5. ASSUME NEW r \in Servers, NEW u \in Mentions(server'[r])
        PROVE  Attached(u)' /\ Accounted(r, u)'
    <3>1. u \in Mentions(server[r]) /\ u \in Turns
      BY <1>0, <2>4, <2>5 DEF NothingNew
    <3>2. Attached(u) /\ (Hears(u, r) \/ u \in Displaced) /\ u # t
      BY <1>4, <2>2, <3>1, MentionedFacts
    <3>3. stage'[u] = stage[u] /\ on'[u] = on[u]
      BY <2>1, <2>2, <3>2
    <3> QED
      BY <2>2, <3>2, <3>3, DisplacedSame DEF Attached, Accounted, Hears
  <2> QED
    BY <2>2, <2>4, <2>5, DisplacedSame, TalkIs DEF NothingNew
<1>9. ASSUME NEW t \in Turns, OpeningSucceeds(t) PROVE TalkInv'
  <2>1. on[t] \in Servers /\ stage[t] = "opening" /\ Attach(t, on[t])
    BY <1>9 DEF OpeningSucceeds, LockInv, Shape, Inside
  <2> QED
    BY <2>1, AttachTalk
<1>10. ASSUME NEW t \in Turns, OpeningFails(t) PROVE TalkInv'
  <2>1. /\ Holds(t) /\ FailsOrFallsBack(t) /\ UNCHANGED <<unanswered, overheard>>
        /\ server' = Ended({on[t]}, t) /\ stage[t] = "opening" /\ on[t] \in Servers
    BY <1>10 DEF OpeningFails, LockInv, Shape, OneInside, Inside
  <2>2. NothingNew /\ Mentions(server'[on[t]]) = {}
    BY <2>1, EndedTalk
  <2> QED
    BY <1>3, <2>1, <2>2
<1>11. ASSUME NEW t \in Turns, CancelsRun(t) \/ Deadline(t) PROVE TalkInv'
  <2>1. /\ Holds(t) /\ Leaves(t) /\ UNCHANGED <<unanswered, overheard>>
        /\ server' = Ended({current, on[t]}, t) /\ on[t] \in Servers
    BY <1>11 DEF CancelsRun, Deadline, CloseSession, LockInv, Shape, OneInside, OnlyRunning, Inside
  <2>2. NothingNew /\ Mentions(server'[on[t]]) = {}
    BY <2>1, EndedTalk
  <2> QED
    BY <1>3, <2>1, <2>2
<1>12. ASSUME NEW t \in Turns, StartUnanswered(t) PROVE TalkInv'
  <2>1. /\ Holds(t) /\ Goes(t, "over") /\ ArmIdleTimer(t)
        /\ unanswered' = unanswered \cup {t} /\ UNCHANGED overheard
    BY <1>12 DEF StartUnanswered, Leaves, LockInv, OneInside, Inside
  <2>2. NothingNew
    <3>1. server' = server \/ server' = Ended({on[t]}, t)
      BY <2>1 DEF ArmIdleTimer
    <3> QED
      BY <1>1, <2>1, <3>1, EndedTalk
  <2>3. Displaced' = Displaced \cup {t}
    BY <2>1 DEF Displaced
  <2>4. CodexNoCrossTalk'
    BY <2>1, <2>3 DEF TalkInv, CodexNoCrossTalk
  <2> QED
    BY <2>1, <2>2, <2>3, <2>4, LeavingTalk
<1>13. ASSUME NEW s \in Servers, DaemonReads(s) PROVE TalkInv'
  BY <1>13, ReadingTalk
<1>14. ASSUME NEW s \in Servers, NEW t \in Turns, ChildExits(s, t) PROVE TalkInv'
  <2>1. /\ Holds(t) /\ FailsOrFallsBack(t) /\ UNCHANGED <<unanswered, overheard>> /\ on[t] = s
        /\ server' = [server EXCEPT ![s] = IF s = current THEN Dead(s) ELSE Blank]
    BY <1>14 DEF ChildExits, Hears, LockInv, OneInside, Inside
  <2>2. NothingNew /\ Mentions(server'[s]) = {}
    BY <2>1, BlankTalk, OneTalk DEF ServerShape
  <2> QED
    BY <1>3, <2>1, <2>2
<1>15. ASSUME NEW s \in Servers, ChildExitsIdly(s) PROVE TalkInv'
  <2>1. UNCHANGED <<stage, on, unanswered, overheard>> /\ server' = [server EXCEPT ![s] = Dead(s)]
    BY <1>15 DEF ChildExitsIdly
  <2> QED
    BY <1>2, <2>1, BlankTalk, OneTalk
<1>16. ASSUME NEW s \in Servers, IdleClose(s) PROVE TalkInv'
  <2>1. UNCHANGED <<stage, on, unanswered, overheard>>
    BY <1>16 DEF IdleClose
  <2>2. ASSUME NEW r \in Servers
        PROVE  Orderly(server'[r]) /\ Mentions(server'[r]) \subseteq Mentions(server[r])
    <3>1. \/ server'[r] = server[r] \/ server'[r] = Blank
          \/ server'[r] = [server[r] EXCEPT !.child = IF @ = "live" THEN "termed" ELSE @]
      BY <1>16 DEF IdleClose
    <3>2. ASSUME server'[r] = [server[r] EXCEPT !.child = IF @ = "live" THEN "termed" ELSE @]
          PROVE  server'[r].inbox = server[r].inbox /\ server'[r].out = server[r].out
      BY <3>2 DEF ServerShape
    <3> QED
      BY <3>1, <3>2, BlankTalk, SameOrderly DEF TalkInv
  <2> QED
    BY <1>2, <2>1, <2>2 DEF NothingNew
<1>17. ASSUME NEW s \in Servers,
              ServerAnswers(s) \/ ServerBegins(s) \/ ServerProduces(s) \/ ServerEnds(s)
       PROVE  TalkInv'
  <2>1. PICK kind \in Kinds : \E a : Says(s, kind, a)
    BY <1>17 DEF ServerAnswers, ServerBegins, ServerProduces, ServerEnds, Kinds
  <2>5. PICK a : Says(s, kind, a)
    BY <2>1
  <2> DEFINE e == server[s]
             f == [e EXCEPT !.out = Append(e.out, [kind |-> kind, turn |-> Head(e.inbox)]),
                            !.inbox = IF kind \in Ends THEN Tail(e.inbox) ELSE e.inbox,
                            !.said = a]
  <2>2. server' = [server EXCEPT ![s] = f] /\ e.inbox # << >> /\ UNCHANGED <<stage, on, unanswered, overheard>>
    BY <2>5 DEF Says, Ends
  <2>3. /\ f.out = Append(e.out, [kind |-> kind, turn |-> Head(e.inbox)])
        /\ f.inbox = IF kind \in Ends THEN Tail(e.inbox) ELSE e.inbox
    <3>1. "inbox" \in DOMAIN e /\ "out" \in DOMAIN e
      BY DEF ServerShape
    <3> HIDE DEF e
    <3> QED
      BY <3>1
  <2> HIDE DEF f
  <2>4. Orderly(f) /\ Mentions(f) \subseteq Mentions(e)
    BY <2>2, <2>3, SaidOrderly DEF TalkInv
  <2> QED
    BY <1>2, <2>2, <2>4, OneTalk
<1>18. CASE UNCHANGED codexVars
  BY <1>1, <1>2, <1>18 DEF codexVars
<1> QED
  BY <1>5, <1>6, <1>7, <1>8, <1>9, <1>10, <1>11, <1>12, <1>13, <1>14, <1>15, <1>16, <1>17, <1>18
     DEF CodexNext, CodexStep

LEMMA TalkInit == CodexInit => TalkInv
<1> SUFFICES ASSUME CodexInit PROVE TalkInv
  OBVIOUS
<1>1. \A s \in Servers : server[s] = Blank
  BY DEF CodexInit
<1>2. CodexNoCrossTalk
  BY DEF CodexInit, CodexNoCrossTalk
<1> QED
  BY <1>1, <1>2, BlankTalk DEF TalkInv

(* An answer holds the output of its own turn only, unless a turn of the   *)
(* session was given up with its request unanswered; and whose output goes *)
(* astray then was given up, or was ended by another's (:1006-1066).       *)
THEOREM CodexAnswersDoNotMix == CodexSpec => []CodexNoCrossTalk
<1> DEFINE Inv == LockInv /\ ServerInv /\ TalkInv
<1>1. CodexInit => Inv
  <2>1. ASSUME CodexInit PROVE ServerShape /\ NoOrphanServer
    BY <2>1 DEF CodexInit, ServerShape, NoOrphanServer, Alive, Blank
  <2> QED
    BY <2>1, LockInit, TalkInit DEF ServerInv
<1>2. Inv /\ [CodexNext]_codexVars => Inv'
  BY LockStep, ServerStep, TalkStep DEF ServerInv
<1>3. Inv => CodexNoCrossTalk
  BY DEF TalkInv
<1> HIDE DEF Inv
<1> QED
  BY <1>1, <1>2, <1>3, PTL DEF CodexSpec

-----------------------------------------------------------------------------
(* Sandboxes.                                                              *)
BoxInv ==
  /\ DOMAIN doing = Boxes /\ DOMAIN vm = Boxes
  /\ \A b \in Boxes : /\ doing[b] = "idle" => vm[b] # "up"
                      /\ doing[b] \in {"idle", "install"} => b \notin handle
  /\ Box!NoOrphanVM

LEMMA BoxStep == ASSUME BoxInv, Box!BoxNext PROVE BoxInv'
<1>1. PICK b \in Boxes :
        \/ Box!EnsureEnv(b) \/ Box!Installed(b) \/ Box!PutRepo(b) \/ Box!Exec(b)
        \/ Box!GetResult(b) \/ Box!Destroy(b) \/ Box!Expires(b)
  BY DEF Box!BoxNext
<1> USE DEF BoxInv, Box!NoOrphanVM, Box!Goes
<1>2. CASE Box!EnsureEnv(b)
  BY <1>2 DEF Box!EnsureEnv
<1>3. CASE Box!Installed(b)
  BY <1>3 DEF Box!Installed
<1>4. CASE Box!PutRepo(b)
  BY <1>4 DEF Box!PutRepo
<1>5. CASE Box!Exec(b) \/ Box!GetResult(b)
  BY <1>5 DEF Box!Exec, Box!GetResult
<1>6. CASE Box!Destroy(b)
  BY <1>6 DEF Box!Destroy
<1>7. CASE Box!Expires(b)
  BY <1>7 DEF Box!Expires
<1> QED
  BY <1>1, <1>2, <1>3, <1>4, <1>5, <1>6, <1>7

(* A turn of a runtime that is not Codex's leaves the pool alone.          *)
LEMMA RuntimesRunCodex == RuntimesSpec => CodexSpec
<1>1. RuntimesInit => CodexInit
  BY DEF RuntimesInit
<1>2. [RuntimesNext]_runtimeVars => [CodexNext]_codexVars
  BY DEF RuntimesNext, RunsClaude, TakesSlots, RunsCodex, RunsAcp, RunsSandbox, ReadsAnswer, runtimeVars
<1> QED
  BY <1>1, <1>2, PTL DEF RuntimesSpec, CodexSpec

(* No child process is left behind, whichever runtime runs the turns: no   *)
(* app-server (connectionExecutors.mjs:911-939), and no machine that a     *)
(* handle was returned for (executor.mjs:72-99).                           *)
THEOREM NoChildIsLeftBehind == RuntimesSpec => []NoOrphanChild
<1>1. RuntimesInit => BoxInv
  BY DEF RuntimesInit, Box!BoxInit, BoxInv, Box!NoOrphanVM
<1>2. BoxInv /\ [RuntimesNext]_runtimeVars => BoxInv'
  <2> SUFFICES ASSUME BoxInv, [RuntimesNext]_runtimeVars PROVE BoxInv'
    OBVIOUS
  <2>1. CASE RunsSandbox
    BY <2>1, BoxStep DEF RunsSandbox
  <2>2. CASE UNCHANGED boxVars
    BY <2>2 DEF boxVars, BoxInv, Box!NoOrphanVM
  <2> QED
    BY <2>1, <2>2 DEF RuntimesNext, RunsClaude, TakesSlots, RunsCodex, RunsAcp, ReadsAnswer, runtimeVars
<1>3. RuntimesSpec => []Box!NoOrphanVM
  <2>1. BoxInv => Box!NoOrphanVM
    BY DEF BoxInv
  <2> QED
    BY <1>1, <1>2, <2>1, PTL DEF RuntimesSpec
<1>4. RuntimesSpec => []NoOrphanServer
  BY RuntimesRunCodex, ServersAreOwned, PTL
<1> QED
  BY <1>3, <1>4, PTL DEF NoOrphanChild

-----------------------------------------------------------------------------
(* The answer.  The text that was read is the segments sent and then the   *)
(* live view; a line that was written and not read goes on from there.     *)
LineSet == [kind : {"delta", "segment", "step", "result", "assistant", "control"},
            text : Seq(Nat), tool : Tools \cup {Stream!NoTool}]

WorldTyped ==
  /\ source \in Stream!Parsed \cup Stream!Direct \cup {"acp"}
  /\ parser \in BOOLEAN /\ (source \in Stream!Parsed => parser)
  /\ said \in Nat /\ closed \in Nat /\ closed <= said
  /\ asides \subseteq 1..said /\ (asides # {} => source \in {"pooled", "partial"})
  /\ last \in Seq(Nat) /\ \A i \in 1..Len(last) : last[i] \in 1..closed
  /\ lines \in Seq(LineSet) /\ half \in {"none", "head", "all"}
  /\ (half # "none" => lines # << >>)
  /\ end \in {"speaking", "exiting", "exited", "failed", "answered", "refused"}
  /\ wrote \in BOOLEAN

ParserTyped ==
  /\ heard \in Nat /\ heard <= said
  /\ shown \in Seq(Nat) /\ streamed \in Seq(Nat) /\ sawDelta \in BOOLEAN
  /\ assistantText = << >>
  /\ closedText \in Seq(Nat) /\ finalResult \in Seq(Nat) /\ steps \in Seq(Tools)

Shown == Len(shown)

KeptUpTo(text, n) ==
  /\ {text[i] : i \in 1..Len(text)} = {i \in 1..n : Stream!Kept(i)}
  /\ \A i, j \in 1..Len(text) : i < j => text[i] < text[j]

Different(s) == \A i, j \in 1..Len(s) : s[i] = s[j] => i = j

(* What the parser has is what it heard.                                   *)
ParsedRight ==
  source \in Stream!Parsed =>
    /\ Shown <= heard /\ shown = Stream!UpTo(Shown) /\ streamed = Stream!From(Shown, heard)
    /\ \A i \in 1..heard : i > Shown => i \notin asides
    /\ KeptUpTo(closedText, Shown)
    /\ Shown < heard => sawDelta
    /\ source = "partial" => (sawDelta <=> \E i \in 1..heard : i \notin asides)
    /\ source = "whole" => ~ sawDelta

DirectRight ==
  source \notin Stream!Parsed =>
    /\ streamed = IF source \in Stream!Deltas THEN Stream!UpTo(heard) ELSE << >>
    /\ \A i \in 1..Len(finalResult) : finalResult[i] \in 1..heard
    /\ source = "recap" /\ heard > 0 => finalResult # << >>

(* Plain text that was read was heard.                                     *)
PlainHeard == source = "plain" /\ wrote => heard > 0

(* Nothing is on its way.                                                  *)
Idle ==
  /\ source \in Stream!Parsed => Shown = closed
  /\ heard = IF source \in Stream!Deltas THEN said ELSE closed

DeltaDue ==
  /\ Len(lines) = 1 /\ lines[1].kind = "delta" /\ lines[1].text = <<said>>
  /\ source \in Stream!Deltas /\ heard + 1 = said /\ closed < said /\ said \notin asides
  /\ source \in Stream!Parsed => Shown = closed

(* A block that was heard piece by piece, one that was not, and one of a   *)
(* sub-agent.                                                              *)
BlockDue ==
  /\ lines # << >> /\ lines[1].kind \in {"segment", "assistant"}
  /\ closed = said
  /\ \E from \in 0..closed :
       /\ from < closed /\ lines[1].text = Stream!From(from, closed)
       /\ source \in Stream!Parsed => Shown = from
       /\ \/ source \in Stream!Deltas /\ heard = closed
          \/ source \notin Stream!Deltas /\ heard = from
          \/ source \in {"pooled", "partial"} /\ heard = from /\ from + 1 = closed /\ closed \in asides
  /\ lines[1].kind = "segment" <=> source = "pooled"
  /\ Len(lines) > 1 => source = "pooled" /\ Len(lines) = 2 /\ lines[2].kind = "step" /\ lines[2].text = << >>

RestDue ==
  /\ Idle /\ Len(lines) = 1
  /\ \/ lines[1].kind = "step" /\ source = "pooled" /\ lines[1].text = << >>
     \/ lines[1].kind = "assistant" /\ source # "pooled" /\ lines[1].text = << >>
     \/ lines[1].kind = "control" /\ lines[1].text = << >>
     \/ lines[1].kind = "result" /\ lines[1].text = last /\ closed = said

LinesRight ==
  /\ lines = << >> \/ (source \notin Stream!Unframed \/ DeltaDue)
  /\ \/ end \in {"speaking", "exiting"} /\ ((lines = << >> /\ Idle) \/ DeltaDue \/ BlockDue \/ RestDue)
     \/ end \notin {"speaking", "exiting"} /\ lines = << >>

StepsRight ==
  /\ Different(steps)
  /\ \A k \in 1..Len(lines) : lines[k].kind = "step" => \A i \in 1..Len(steps) : steps[i] # lines[k].tool

Answered ==
  /\ end = "refused" /\ source \in Stream!Parsed /\ finalResult = << >> => response = closedText \o Stream!Live
  /\ Stream!Quiet /\ source \in Stream!Direct /\ ~ parser /\ Stream!Stdout # << >> => response = Stream!Stdout

StreamInv ==
  /\ WorldTyped /\ ParserTyped /\ ParsedRight /\ DirectRight /\ PlainHeard
  /\ LinesRight /\ StepsRight /\ Answered

(* The pieces up to one, and those of a part.                              *)
LEMMA UpToIs ==
  ASSUME NEW n \in Nat
  PROVE  /\ Stream!UpTo(n) \in Seq(Nat) /\ Len(Stream!UpTo(n)) = n
         /\ \A i \in 1..n : Stream!UpTo(n)[i] = i
<1>1. Stream!UpTo(n) = [i \in 1..n |-> i]
  BY DEF Stream!UpTo
<1>2. Stream!UpTo(n) \in [1..n -> Nat]
  BY <1>1
<1>3. Stream!UpTo(n) \in Seq(Nat)
  BY <1>2, IsASeq
<1>4. Len(Stream!UpTo(n)) = n
  BY <1>1, <1>3, LenProperties
<1> QED
  BY <1>1, <1>3, <1>4

LEMMA FromIs ==
  ASSUME NEW m \in Nat, NEW n \in Nat, m <= n
  PROVE  /\ Stream!From(m, n) \in Seq(Nat) /\ Len(Stream!From(m, n)) = n - m
         /\ \A i \in 1..(n - m) : Stream!From(m, n)[i] = m + i
<1> DEFINE u == Stream!UpTo(n)
<1>1. \A i \in (m + 1)..n : u[i] = i /\ u[i] \in Nat
  BY UpToIs
<1> HIDE DEF u
<1>2. /\ SubSeq(u, m + 1, n) \in Seq(Nat)
      /\ Len(SubSeq(u, m + 1, n)) = IF m + 1 <= n THEN n - (m + 1) + 1 ELSE 0
      /\ \A i \in 1 .. n - (m + 1) + 1 : SubSeq(u, m + 1, n)[i] = u[(m + 1) + i - 1]
  BY <1>1, SubSeqProperties
<1>3. \A i \in 1..(n - m) : SubSeq(u, m + 1, n)[i] = m + i
  <2> TAKE i \in 1..(n - m)
  <2>1. SubSeq(u, m + 1, n)[i] = u[(m + 1) + i - 1]
    BY <1>2
  <2>2. (m + 1) + i - 1 = m + i /\ m + i \in (m + 1)..n
    OBVIOUS
  <2> QED
    BY <1>1, <2>1, <2>2
<1>4. Stream!From(m, n) = SubSeq(u, m + 1, n)
  BY DEF Stream!From, u
<1>5. Len(SubSeq(u, m + 1, n)) = n - m
  BY <1>2
<1> QED
  BY <1>2, <1>3, <1>4, <1>5

(* A part that follows another.                                            *)
LEMMA FromOn ==
  ASSUME NEW k \in Nat, NEW m \in Nat, NEW n \in Nat, k <= m, m <= n
  PROVE  Stream!From(k, m) \o Stream!From(m, n) = Stream!From(k, n)
<1> DEFINE a == Stream!From(k, m)
           b == Stream!From(m, n)
           c == Stream!From(k, n)
<1>1. a \in Seq(Nat) /\ Len(a) = m - k /\ \A i \in 1..(m - k) : a[i] = k + i
  BY FromIs
<1>2. b \in Seq(Nat) /\ Len(b) = n - m /\ \A i \in 1..(n - m) : b[i] = m + i
  BY FromIs
<1>3. c \in Seq(Nat) /\ Len(c) = n - k /\ \A i \in 1..(n - k) : c[i] = k + i
  BY FromIs
<1> HIDE DEF a, b, c
<1>4. /\ a \o b \in Seq(Nat) /\ Len(a \o b) = Len(a) + Len(b)
      /\ \A i \in 1 .. Len(a) + Len(b) :
           (a \o b)[i] = IF i <= Len(a) THEN a[i] ELSE b[i - Len(a)]
  BY <1>1, <1>2, ConcatProperties
<1>5. Len(a \o b) = Len(c)
  BY <1>1, <1>2, <1>3, <1>4
<1>6. \A i \in 1..Len(a \o b) : (a \o b)[i] = c[i]
  <2> TAKE i \in 1..Len(a \o b)
  <2>1. (a \o b)[i] = IF i <= m - k THEN a[i] ELSE b[i - (m - k)]
    BY <1>1, <1>2, <1>4
  <2>2. c[i] = k + i
    BY <1>3, <1>5
  <2>3. CASE i <= m - k
    BY <1>1, <2>1, <2>2, <2>3, <1>5, <1>3
  <2>4. CASE i > m - k
    <3>1. i - (m - k) \in 1..(n - m)
      BY <2>4, <1>5, <1>3
    <3>2. b[i - (m - k)] = m + (i - (m - k))
      BY <3>1, <1>2
    <3> QED
      BY <2>1, <2>2, <2>4, <3>2
  <2> QED
    BY <2>3, <2>4
<1>7. a \o b = c
  BY <1>3, <1>4, <1>5, <1>6, SeqEqual
<1> QED
  BY <1>7 DEF a, b, c

LEMMA FromNone ==
  ASSUME NEW n \in Nat
  PROVE  Stream!From(n, n) = << >>
  BY FromIs, EmptySeq

LEMMA FromFirst ==
  ASSUME NEW n \in Nat
  PROVE  Stream!UpTo(n) = Stream!From(0, n)
<1>1. /\ Stream!UpTo(n) \in Seq(Nat) /\ Len(Stream!UpTo(n)) = n
      /\ \A i \in 1..n : Stream!UpTo(n)[i] = i
  BY UpToIs
<1>2. /\ Stream!From(0, n) \in Seq(Nat) /\ Len(Stream!From(0, n)) = n
      /\ \A i \in 1..n : Stream!From(0, n)[i] = i
  <2>1. 0 \in Nat /\ 0 <= n /\ n - 0 = n
    OBVIOUS
  <2>2. /\ Stream!From(0, n) \in Seq(Nat) /\ Len(Stream!From(0, n)) = n - 0
        /\ \A i \in 1..(n - 0) : Stream!From(0, n)[i] = 0 + i
    BY ONLY <2>1, FromIs
  <2> QED
    BY ONLY <2>1, <2>2
<1> QED
  BY <1>1, <1>2, SeqEqual

LEMMA UpToOn ==
  ASSUME NEW m \in Nat, NEW n \in Nat, m <= n
  PROVE  Stream!UpTo(m) \o Stream!From(m, n) = Stream!UpTo(n)
<1>1. 0 \in Nat /\ 0 <= m
  OBVIOUS
<1>2. Stream!From(0, m) \o Stream!From(m, n) = Stream!From(0, n)
  BY <1>1, FromOn
<1> QED
  BY <1>2, FromFirst

LEMMA FromOne ==
  ASSUME NEW n \in Nat
  PROVE  Stream!From(n, n + 1) = <<n + 1>>
<1>1. /\ Stream!From(n, n + 1) \in Seq(Nat) /\ Len(Stream!From(n, n + 1)) = 1
      /\ \A i \in 1..1 : Stream!From(n, n + 1)[i] = n + i
  <2>1. n + 1 \in Nat /\ n <= n + 1 /\ (n + 1) - n = 1
    OBVIOUS
  <2>2. /\ Stream!From(n, n + 1) \in Seq(Nat) /\ Len(Stream!From(n, n + 1)) = (n + 1) - n
        /\ \A i \in 1..((n + 1) - n) : Stream!From(n, n + 1)[i] = n + i
    BY ONLY n \in Nat, <2>1, FromIs
  <2> QED
    BY ONLY <2>1, <2>2
<1>2. /\ <<n + 1>> \in Seq(Nat) /\ Len(<<n + 1>>) = 1 /\ <<n + 1>>[1] = n + 1
  OBVIOUS
<1> QED
  BY <1>1, <1>2, SeqEqual

LEMMA FromSome ==
  ASSUME NEW m \in Nat, NEW n \in Nat, m < n
  PROVE  LET text == Stream!From(m, n)
         IN  text \in Seq(Nat) /\ text # << >> /\ text[Len(text)] = n
<1>1. /\ Stream!From(m, n) \in Seq(Nat) /\ Len(Stream!From(m, n)) = n - m
      /\ \A i \in 1..(n - m) : Stream!From(m, n)[i] = m + i
  BY FromIs
<1>2. Stream!From(m, n)[n - m] = n
  BY <1>1
<1> QED
  BY <1>1, <1>2

(* The pieces that are kept, and what comes on top of them.                *)
LEMMA KeptOn ==
  ASSUME NEW m \in Nat, NEW n \in Nat, m <= n, NEW text \in Seq(Nat), KeptUpTo(text, m),
         \A i \in (m + 1)..n : Stream!Kept(i)
  PROVE  KeptUpTo(text \o Stream!From(m, n), n)
<1> DEFINE b == Stream!From(m, n)
           c == text \o b
<1>1. b \in Seq(Nat) /\ Len(b) = n - m /\ \A i \in 1..(n - m) : b[i] = m + i
  BY FromIs
<1> HIDE DEF b
<1>2. /\ c \in Seq(Nat) /\ Len(c) = Len(text) + (n - m)
      /\ \A i \in 1 .. Len(text) + (n - m) : c[i] = IF i <= Len(text) THEN text[i] ELSE b[i - Len(text)]
  <2>1. \A s \in Seq(Nat) :
          /\ text \o s \in Seq(Nat) /\ Len(text \o s) = Len(text) + Len(s)
          /\ \A i \in 1 .. Len(text) + Len(s) :
               (text \o s)[i] = IF i <= Len(text) THEN text[i] ELSE s[i - Len(text)]
    BY ONLY text \in Seq(Nat), ConcatProperties
  <2> HIDE DEF c
  <2>2. c = text \o b
    BY DEF c
  <2> QED
    BY ONLY <1>1, <2>1, <2>2, Zenon
<1> HIDE DEF c
<1>3. \A i \in 1..Len(text) : c[i] = text[i] /\ c[i] \in 1..m /\ Stream!Kept(c[i])
  <2> TAKE i \in 1..Len(text)
  <2>1. Len(text) \in Nat
    OBVIOUS
  <2>2. i \in 1 .. Len(text) + (n - m)
    BY ONLY <2>1, i \in 1..Len(text), m \in Nat, n \in Nat, m <= n
  <2>3. c[i] = text[i]
    <3>1. c[i] = IF i <= Len(text) THEN text[i] ELSE b[i - Len(text)]
      BY <1>2, <2>2, Zenon
    <3> QED
      BY ONLY <2>1, i \in 1..Len(text), <3>1
  <2>4. text[i] \in {k \in 1..m : Stream!Kept(k)}
    BY DEF KeptUpTo
  <2> QED
    BY <2>3, <2>4
<1>4. \A i \in (Len(text) + 1)..Len(c) : c[i] = m + (i - Len(text))
  <2> TAKE i \in (Len(text) + 1)..Len(c)
  <2>1. i - Len(text) \in 1..(n - m)
    BY <1>2
  <2> QED
    BY <1>1, <1>2, <2>1
<1>5. \A i \in 1..Len(c) : c[i] \in {k \in 1..n : Stream!Kept(k)}
  <2> TAKE i \in 1..Len(c)
  <2>1. CASE i <= Len(text)
    BY <1>3, <2>1
  <2>2. CASE i > Len(text)
    <3>1. c[i] = m + (i - Len(text)) /\ i - Len(text) \in 1..(n - m)
      BY <1>2, <1>4, <2>2
    <3>2. c[i] \in (m + 1)..n
      BY <3>1
    <3> QED
      BY <3>2
  <2> QED
    BY <2>1, <2>2
<1>6. ASSUME NEW k \in 1..n, Stream!Kept(k) PROVE \E i \in 1..Len(c) : c[i] = k
  <2>1. CASE k <= m
    <3>1. PICK i \in 1..Len(text) : text[i] = k
      <4>1. k \in {i \in 1..m : Stream!Kept(i)}
        BY <1>6, <2>1
      <4>2. {text[i] : i \in 1..Len(text)} = {i \in 1..m : Stream!Kept(i)}
        BY DEF KeptUpTo
      <4> QED
        BY ONLY <4>1, <4>2
    <3>2. i \in 1..Len(c)
      BY ONLY <1>2, i \in 1..Len(text), text \in Seq(Nat), m \in Nat, n \in Nat, m <= n
    <3>3. c[i] = k
      BY <1>3, <3>1
    <3> QED
      BY ONLY <3>2, <3>3
  <2>2. CASE k > m
    <3>1. Len(text) + (k - m) \in (Len(text) + 1)..Len(c)
      BY <1>2, <2>2
    <3>2. c[Len(text) + (k - m)] = k
      BY <1>4, <3>1
    <3> QED
      BY <3>1, <3>2
  <2> QED
    BY <2>1, <2>2
<1>7. ASSUME NEW i \in 1..Len(c), NEW j \in 1..Len(c), i < j PROVE c[i] < c[j]
  <2>1. CASE j <= Len(text)
    <3>1. i \in 1..Len(text) /\ j \in 1..Len(text)
      BY ONLY <1>2, <1>7, <2>1, i \in 1..Len(c), j \in 1..Len(c), text \in Seq(Nat)
    <3>2. text[i] < text[j]
      BY ONLY <1>7, <3>1, KeptUpTo(text, m) DEF KeptUpTo
    <3> QED
      BY <1>3, <3>1, <3>2
  <2>2. CASE i > Len(text)
    BY <1>4, <1>7, <2>2
  <2>3. CASE i <= Len(text) /\ j > Len(text)
    <3>1. c[i] <= m
      BY <1>3, <2>3
    <3>2. c[j] = m + (j - Len(text))
      BY <1>4, <2>3
    <3> QED
      BY <1>3, <3>1, <3>2, <2>3
  <2> QED
    BY <2>1, <2>2, <2>3
<1>8. {c[i] : i \in 1..Len(c)} = {k \in 1..n : Stream!Kept(k)}
  BY <1>5, <1>6
<1> QED
  BY <1>7, <1>8 DEF KeptUpTo, c, b

LEMMA KeptMore ==
  ASSUME NEW m \in Nat, NEW text \in Seq(Nat), KeptUpTo(text, m), ~ Stream!Kept(m + 1)
  PROVE  KeptUpTo(text, m + 1)
<1>1. \A i \in 1..(m + 1) : i \in 1..m \/ i = m + 1
  OBVIOUS
<1>2. {i \in 1..(m + 1) : Stream!Kept(i)} = {i \in 1..m : Stream!Kept(i)}
  BY <1>1
<1> QED
  BY <1>2 DEF KeptUpTo

LEMMA KeptStays ==
  ASSUME NEW n \in Nat, NEW text \in Seq(Nat), KeptUpTo(text, n),
         closedText' = text, Len(shown') = n, source' = source,
         \A i \in 1..n : i \in asides' <=> i \in asides
  PROVE  KeptUpTo(closedText, Shown)'
<1>1. ASSUME NEW i \in 1..n PROVE Stream!Kept(i)' <=> Stream!Kept(i)
  <2>1. \A j \in 1..i : j \in 1..n
    OBVIOUS
  <2> QED
    BY <2>1 DEF Stream!Kept
<1>2. {i \in 1..n : Stream!Kept(i)'} = {i \in 1..n : Stream!Kept(i)}
  BY <1>1
<1> QED
  BY <1>2 DEF KeptUpTo, Shown

LEMMA ReportsOnce ==
  ASSUME steps \in Seq(Tools), Different(steps), NEW tool \in Tools \cup {Stream!NoTool},
         \A i \in 1..Len(steps) : steps[i] # tool, Stream!Reports(tool)
  PROVE  steps' \in Seq(Tools) /\ Different(steps)'
<1>1. CASE tool = Stream!NoTool
  BY <1>1 DEF Stream!Reports, Different
<1>2. CASE tool # Stream!NoTool
  <2>1. steps' = Append(steps, tool) /\ tool \in Tools
    BY <1>2 DEF Stream!Reports
  <2>2. /\ steps' \in Seq(Tools) /\ Len(steps') = Len(steps) + 1
        /\ \A i \in 1..Len(steps) : steps'[i] = steps[i]
        /\ steps'[Len(steps) + 1] = tool
    BY <2>1, AppendProperties
  <2>3. \A i \in 1..Len(steps') : i \in 1..Len(steps) \/ i = Len(steps) + 1
    BY <2>2
  <2> QED
    BY <2>2, <2>3 DEF Different
<1> QED
  BY <1>1, <1>2

(* A line with no text, or with what was heard already, adds nothing.      *)
LEMMA HeardAgain ==
  ASSUME heard \in Nat, NEW text \in Seq(Nat), Stream!Heard(text),
         \A i \in 1..Len(text) : text[i] \in Nat /\ text[i] <= heard
  PROVE  heard' = heard
<1>1. text # << >> => Len(text) \in 1..Len(text)
  BY EmptySeq
<1> QED
  BY <1>1 DEF Stream!Heard

LEMMA HeardOn ==
  ASSUME heard \in Nat, NEW m \in Nat, NEW n \in Nat, m < n,
         Stream!Heard(Stream!From(m, n)), heard <= n
  PROVE  heard' = n
<1> DEFINE text == Stream!From(m, n)
<1>1. text # << >> /\ text[Len(text)] = n
  BY FromSome
<1>2. Stream!Heard(text)
  OBVIOUS
<1> HIDE DEF text
<1> QED
  BY <1>1, <1>2 DEF Stream!Heard

(* A complete block, as the parser takes it.                               *)
LEMMA BlockShown ==
  ASSUME WorldTyped, ParserTyped, ParsedRight, source \in Stream!Parsed,
         NEW text, NEW unclosed, unclosed = IF source = "pooled" THEN << >> ELSE text,
         closed = said, Shown < closed, text = Stream!From(Shown, closed),
         \/ source \in Stream!Deltas /\ heard = closed
         \/ source \notin Stream!Deltas /\ heard = Shown
         \/ source \in {"pooled", "partial"} /\ heard = Shown /\ Shown + 1 = closed /\ closed \in asides,
         Stream!Heard(text), Stream!RaiseSegment(text, unclosed), UNCHANGED sawDelta,
         UNCHANGED <<source, parser, Stream!worldVars>>
  PROVE  /\ ParsedRight' /\ heard' = closed /\ Shown' = closed
         /\ shown' \in Seq(Nat) /\ closedText' \in Seq(Nat)
         /\ streamed' = << >> /\ assistantText' = << >>
<1> DEFINE m == Len(shown)
<1>1. /\ m \in Nat /\ closed \in Nat /\ m < closed /\ m <= closed /\ shown = Stream!UpTo(m)
      /\ text = Stream!From(m, closed) /\ text \in Seq(Nat) /\ text # << >>
  <2>1. m \in Nat /\ closed \in Nat /\ m < closed /\ m <= closed /\ text = Stream!From(m, closed)
    <3>1. m \in Nat
      BY DEF ParserTyped
    <3>2. closed \in Nat
      BY ONLY WorldTyped DEF WorldTyped
    <3>3. m < closed /\ text = Stream!From(m, closed)
      BY DEF Shown
    <3> HIDE DEF m
    <3> QED
      BY ONLY <3>1, <3>2, <3>3
  <2>2. Stream!From(m, closed) \in Seq(Nat) /\ Stream!From(m, closed) # << >>
    BY ONLY <2>1, FromSome
  <2>3. shown = Stream!UpTo(m)
    BY DEF ParsedRight, Shown
  <2> QED
    BY ONLY <2>1, <2>2, <2>3
<1>2. heard' = closed
  <2>1. heard <= closed
    BY DEF WorldTyped, ParserTyped
  <2> QED
    BY <1>1, <2>1, HeardOn DEF ParserTyped
<1>3. shown' = Stream!UpTo(closed) /\ shown' \in Seq(Nat) /\ Len(shown') = closed
  <2>1. shown' = shown \o text
    BY DEF Stream!RaiseSegment
  <2>2. Stream!UpTo(m) \o Stream!From(m, closed) = Stream!UpTo(closed)
    BY ONLY <1>1, UpToOn
  <2>3. Stream!UpTo(closed) \in Seq(Nat) /\ Len(Stream!UpTo(closed)) = closed
    BY ONLY <1>1, UpToIs
  <2> QED
    BY ONLY <1>1, <2>1, <2>2, <2>3
<1>4. streamed' = << >> /\ assistantText' = << >>
  BY DEF Stream!RaiseSegment
<1>5. closedText' = closedText \o (IF sawDelta THEN streamed ELSE unclosed)
  BY DEF Stream!RaiseSegment
<1>6. KeptUpTo(closedText, m) /\ closedText \in Seq(Nat)
  BY DEF ParsedRight, ParserTyped, Shown
<1>7. closedText' \in Seq(Nat) /\ KeptUpTo(closedText', closed)
  <2>1. CASE heard = closed
    <3>1. sawDelta /\ streamed = text
      BY <1>1, <2>1 DEF ParsedRight, Shown
    <3>2. \A i \in (m + 1)..closed : Stream!Kept(i)
      BY <1>1, <2>1 DEF ParsedRight, Shown, Stream!Kept
    <3>3. closedText' = closedText \o text
      BY <1>5, <3>1
    <3>4. closedText \o text \in Seq(Nat)
      BY <1>1, <1>6
    <3> QED
      BY <1>1, <1>6, <3>2, <3>3, <3>4, KeptOn
  <2>2. CASE source \notin Stream!Deltas /\ heard = m
    <3>1. source = "whole" /\ ~ sawDelta /\ asides = {} /\ unclosed = text
      BY <2>2 DEF ParsedRight, WorldTyped, Stream!Parsed, Stream!Deltas
    <3>2. \A i \in (m + 1)..closed : Stream!Kept(i)
      BY <3>1 DEF Stream!Kept
    <3>3. closedText' = closedText \o text
      BY <1>5, <3>1
    <3>4. closedText \o text \in Seq(Nat)
      BY <1>1, <1>6
    <3> QED
      BY <1>1, <1>6, <3>2, <3>3, <3>4, KeptOn
  <2>3. CASE source \in {"pooled", "partial"} /\ heard = m /\ m + 1 = closed /\ closed \in asides
    <3>1. streamed = << >>
      BY <1>1, <2>3, FromNone DEF ParsedRight, Shown
    <3>2. CASE source = "partial" /\ ~ sawDelta
      <4>1. \A i \in 1..m : i \in asides
        BY <2>3, <3>2 DEF ParsedRight
      <4>2. \A i \in 1..closed : i \in 1..m \/ i = closed
        BY <1>1, <2>3
      <4>3. \A i \in 1..closed : i \in asides
        BY <2>3, <4>1, <4>2
      <4>4. \A i \in (m + 1)..closed : Stream!Kept(i)
        BY <1>1, <2>3, <3>2, <4>3 DEF Stream!Kept
      <4>5. closedText' = closedText \o text
        BY <1>5, <3>2
      <4>6. closedText \o text \in Seq(Nat)
        BY <1>1, <1>6
      <4> QED
        BY <1>1, <1>6, <4>4, <4>5, <4>6, KeptOn
    <3>3. CASE ~ (source = "partial" /\ ~ sawDelta)
      <4>1. ~ Stream!Kept(m + 1)
        <5>1. CASE source = "pooled"
          BY <2>3, <5>1 DEF Stream!Kept
        <5>2. CASE source = "partial" /\ sawDelta
          <6>1. PICK i \in 1..m : i \notin asides
            BY <2>3, <5>2 DEF ParsedRight
          <6>2. i \in 1..(m + 1)
            BY <1>1
          <6> QED
            BY <2>3, <6>1, <6>2 DEF Stream!Kept
        <5> QED
          BY <2>3, <3>3, <5>1, <5>2 DEF ParserTyped
      <4>2. closedText' = closedText \o << >>
        BY <1>5, <2>3, <3>1, <3>3
      <4>3. closedText' = closedText
        BY <1>6, <4>2, ConcatEmptySeq
      <4> QED
        BY <1>1, <1>6, <2>3, <4>1, <4>3, KeptMore
    <3> QED
      BY <3>2, <3>3
  <2> QED
    BY <2>1, <2>2, <2>3 DEF Shown
<1>8. KeptUpTo(closedText, Shown)'
  BY <1>1, <1>3, <1>7, KeptStays DEF Stream!worldVars
<1>9. source = "partial" => (sawDelta' <=> \E i \in 1..heard' : i \notin asides)
  <2>1. source = "partial" => heard = closed \/ (heard + 1 = closed /\ closed \in asides)
    BY DEF Stream!Deltas, Shown
  <2>2. heard \in Nat
    BY DEF ParserTyped
  <2>3. heard + 1 = closed => \A i \in 1..closed : i \in 1..heard \/ i = closed
    BY <2>2
  <2>4. heard + 1 = closed => \A i \in 1..heard : i \in 1..closed
    BY <2>2
  <2>5. source = "partial" => (sawDelta <=> \E i \in 1..heard : i \notin asides)
    BY DEF ParsedRight
  <2> QED
    BY <1>2, <2>1, <2>3, <2>4, <2>5
<1>10. /\ Shown' = closed /\ source' = source /\ asides' = asides /\ closed' = closed
       /\ source = "whole" => ~ sawDelta
  BY <1>3 DEF Shown, Stream!worldVars, ParsedRight
<1>11. Stream!From(closed, closed) = << >>
  BY <1>1, FromNone
<1> QED
  BY <1>1, <1>2, <1>3, <1>4, <1>7, <1>8, <1>9, <1>10, <1>11 DEF ParsedRight

LEMMA ReportsAgain ==
  ASSUME steps \in Seq(Tools), Different(steps), NEW tool \in Tools \cup {Stream!NoTool},
         Stream!Reports(IF \E i \in 1..Len(steps) : steps[i] = tool THEN Stream!NoTool ELSE tool)
  PROVE  steps' \in Seq(Tools) /\ Different(steps)'
<1>1. CASE \E i \in 1..Len(steps) : steps[i] = tool
  BY <1>1 DEF Stream!Reports, Different
<1>2. CASE \A i \in 1..Len(steps) : steps[i] # tool
  BY <1>2, ReportsOnce
<1> QED
  BY <1>1, <1>2

(* When a line was read, nothing is left of it.                            *)
ReadRight == ParserTyped /\ ParsedRight /\ DirectRight /\ Different(steps) /\ Idle

LEMMA FirstLine ==
  ASSUME WorldTyped, lines # << >>
  PROVE  /\ Len(lines) \in Nat /\ Len(lines) >= 1 /\ lines[1] \in LineSet
         /\ lines[1].text \in Seq(Nat) /\ lines[1].tool \in Tools \cup {Stream!NoTool}
<1>1. lines \in Seq(LineSet) /\ Len(lines) \in Nat
  <2>1. lines \in Seq(LineSet)
    BY DEF WorldTyped
  <2> QED
    BY ONLY <2>1, LenProperties
<1>2. Len(lines) >= 1
  BY <1>1, EmptySeq
<1>3. lines[1] \in LineSet
  BY <1>1, <1>2
<1> QED
  BY <1>1, <1>2, <1>3 DEF LineSet

(* A piece.                                                                *)
LEMMA DeltaRead ==
  ASSUME WorldTyped, ParserTyped, ParsedRight, DirectRight, StepsRight, lines # << >>, DeltaDue,
         Stream!Reads(lines[1]), UNCHANGED <<source, parser, Stream!worldVars>>
  PROVE  ReadRight' /\ UNCHANGED steps
<1> DEFINE l == lines[1]
<1>1. l.kind = "delta" /\ l.text = <<said>> /\ source \in Stream!Deltas /\ heard + 1 = said
      /\ closed < said /\ said \notin asides /\ (source \in Stream!Parsed => Shown = closed)
  BY DEF DeltaDue
<1>2. source' = source /\ said' = said /\ closed' = closed /\ asides' = asides
  BY DEF Stream!worldVars
<1>3. said \in Nat /\ heard \in Nat /\ closed \in Nat
  BY DEF WorldTyped, ParserTyped
<1>4. heard' = said
  <2>1. Stream!Heard(<<said>>)
    BY <1>1 DEF Stream!Reads
  <2>2. <<said>> # << >> /\ Len(<<said>>) = 1 /\ <<said>>[1] = said
    OBVIOUS
  <2> QED
    BY <1>1, <1>3, <2>1, <2>2 DEF Stream!Heard
<1>5. Stream!From(heard, said) = <<said>>
  <2>1. Stream!From(heard, heard + 1) = <<heard + 1>>
    BY <1>3, FromOne
  <2> QED
    BY <1>1, <2>1
<1>6. CASE source \in Stream!Parsed
  <2>1. Stream!ParseLine(l)
    BY <1>6 DEF Stream!Reads
  <2>2. /\ sawDelta' = TRUE /\ streamed' = streamed \o <<said>>
        /\ UNCHANGED <<assistantText, closedText, finalResult, shown, steps>>
    BY <1>1, <2>1 DEF Stream!ParseLine
  <2>3. Shown \in Nat /\ Shown <= heard /\ shown = Stream!UpTo(Shown) /\ streamed = Stream!From(Shown, heard)
        /\ KeptUpTo(closedText, Shown) /\ \A i \in 1..heard : i > Shown => i \notin asides
    BY <1>6 DEF ParsedRight, ParserTyped, Shown
  <2>4. streamed' = Stream!From(Shown, said)
    <3>1. Stream!From(Shown, heard) \o Stream!From(heard, said) = Stream!From(Shown, said)
      <4>1. Shown \in Nat /\ heard \in Nat /\ said \in Nat /\ Shown <= heard /\ heard <= said
        BY <1>1, <1>3, <2>3
      <4> QED
        BY ONLY <4>1, FromOn
    <3> QED
      BY <1>5, <2>2, <2>3, <3>1
  <2>5. streamed' \in Seq(Nat)
    BY <1>1, <1>3, <2>3, <2>4, FromIs
  <2>6. Shown' = Shown /\ shown' = shown
    BY <2>2 DEF Shown
  <2>7. KeptUpTo(closedText, Shown)'
    <3>1. \A i \in 1..Shown : i \in asides' <=> i \in asides
      BY <1>2
    <3>2. Len(shown') = Shown
      BY <2>6 DEF Shown
    <3> QED
      BY <1>2, <2>2, <2>3, <3>1, <3>2, KeptStays DEF ParserTyped
  <2>8. \A i \in 1..said : i \in 1..heard \/ i = said
    BY <1>1, <1>3
  <2>9. \A i \in 1..said : i > Shown => i \notin asides
    BY <1>1, <2>3, <2>8
  <2>10. \E i \in 1..said : i \notin asides
    BY <1>1, <1>3
  <2>11. source # "whole"
    BY <1>1 DEF Stream!Deltas, Stream!Unframed
  <2>12. ParsedRight'
    BY <1>1, <1>2, <1>3, <1>4, <2>2, <2>3, <2>4, <2>6, <2>7, <2>9, <2>10, <2>11 DEF ParsedRight
  <2>13. ParserTyped'
    BY <1>2, <1>3, <1>4, <2>2, <2>5 DEF ParserTyped
  <2>14. DirectRight'
    BY <1>2, <1>6 DEF DirectRight
  <2> QED
    BY <1>1, <1>2, <1>4, <2>2, <2>6, <2>12, <2>13, <2>14 DEF ReadRight, Idle, StepsRight, Different
<1>7. CASE source \notin Stream!Parsed
  <2>1. Stream!ParseStreamLine(l)
    BY <1>7 DEF Stream!Reads
  <2>2. /\ streamed' = streamed \o <<said>>
        /\ UNCHANGED <<finalResult, sawDelta, assistantText, closedText, shown, steps>>
    BY <1>1, <2>1 DEF Stream!ParseStreamLine
  <2>3. streamed = Stream!UpTo(heard)
    BY <1>1, <1>7 DEF DirectRight
  <2>4. streamed' = Stream!UpTo(said)
    <3>1. Stream!UpTo(heard) \o Stream!From(heard, said) = Stream!UpTo(said)
      <4>1. heard \in Nat /\ said \in Nat /\ heard <= said
        BY <1>1, <1>3
      <4> QED
        BY ONLY <4>1, UpToOn
    <3> QED
      BY <1>5, <2>2, <2>3, <3>1
  <2>5. streamed' \in Seq(Nat)
    BY <1>3, <2>4, UpToIs
  <2>6. ParserTyped'
    BY <1>2, <1>3, <1>4, <2>2, <2>5 DEF ParserTyped
  <2>7. DirectRight'
    BY <1>1, <1>2, <1>3, <1>4, <2>2, <2>4 DEF DirectRight, Stream!Deltas, Stream!Unframed
  <2>8. ParsedRight'
    BY <1>2, <1>7 DEF ParsedRight
  <2> QED
    BY <1>1, <1>2, <1>4, <1>7, <2>2, <2>6, <2>7, <2>8 DEF ReadRight, Idle, StepsRight, Different
<1> QED
  BY <1>6, <1>7

(* A block.                                                                *)
LEMMA BlockRead ==
  ASSUME WorldTyped, ParserTyped, ParsedRight, DirectRight, StepsRight, lines # << >>, BlockDue,
         Stream!Reads(lines[1]), UNCHANGED <<source, parser, Stream!worldVars>>
  PROVE  ReadRight' /\ (lines[1].kind = "segment" => UNCHANGED steps)
<1> DEFINE l == lines[1]
<1>1. /\ l.kind \in {"segment", "assistant"} /\ closed = said
      /\ l.kind = "segment" <=> source = "pooled"
  BY DEF BlockDue
<1>2. PICK from \in 0..closed :
       /\ from < closed /\ l.text = Stream!From(from, closed)
       /\ source \in Stream!Parsed => Shown = from
       /\ \/ source \in Stream!Deltas /\ heard = closed
          \/ source \notin Stream!Deltas /\ heard = from
          \/ source \in {"pooled", "partial"} /\ heard = from /\ from + 1 = closed /\ closed \in asides
  BY DEF BlockDue
<1>3. source' = source /\ said' = said /\ closed' = closed /\ asides' = asides
  BY DEF Stream!worldVars
<1>4. said \in Nat /\ heard \in Nat /\ closed \in Nat /\ from \in Nat
  <2>1. said \in Nat /\ heard \in Nat /\ closed \in Nat
    BY DEF WorldTyped, ParserTyped
  <2> QED
    BY <2>1
<1>5. l.text \in Seq(Nat) /\ l.text # << >> /\ l.text[Len(l.text)] = closed
  BY <1>2, <1>4, FromSome
<1>6. Stream!Heard(l.text) /\ heard <= closed
  BY <1>1 DEF Stream!Reads, ParserTyped
<1>7. heard' = closed
  BY <1>4, <1>5, <1>6 DEF Stream!Heard
<1>8. l.tool \in Tools \cup {Stream!NoTool}
  BY FirstLine
<1>9. CASE source \in Stream!Parsed
  <2>1. Stream!ParseLine(l)
    BY <1>9 DEF Stream!Reads
  <2>2. CASE l.kind = "segment"
    <3>1. Stream!RaiseSegment(l.text, assistantText) /\ UNCHANGED <<sawDelta, finalResult, steps>>
      BY <2>1, <2>2 DEF Stream!ParseLine
    <3>2. assistantText = IF source = "pooled" THEN << >> ELSE l.text
      BY <1>1, <2>2 DEF ParserTyped
    <3>3. /\ ParsedRight' /\ heard' = closed /\ Shown' = closed
          /\ shown' \in Seq(Nat) /\ closedText' \in Seq(Nat)
          /\ streamed' = << >> /\ assistantText' = << >>
      BY <1>1, <1>2, <1>6, <1>9, <3>1, <3>2, BlockShown
    <3>4. ParserTyped'
      BY <1>1, <1>3, <1>4, <3>1, <3>3 DEF ParserTyped
    <3> QED
      BY <1>1, <1>3, <1>9, <3>1, <3>3, <3>4 DEF ReadRight, DirectRight, Idle, StepsRight, Different
  <2>3. CASE l.kind = "assistant"
    <3>1. Stream!ParseAssistant(l)
      BY <2>1, <2>3 DEF Stream!ParseLine
    <3>2. Stream!RaiseSegment(l.text, assistantText \o l.text) /\ UNCHANGED <<sawDelta, finalResult>>
      BY <1>5, <3>1 DEF Stream!ParseAssistant
    <3>3. assistantText \o l.text = IF source = "pooled" THEN << >> ELSE l.text
      <4>1. source # "pooled" /\ assistantText = << >>
        BY <1>1, <2>3 DEF ParserTyped
      <4>2. << >> \o l.text = l.text
        BY <1>5, ConcatEmptySeq
      <4> QED
        BY <4>1, <4>2
    <3>4. /\ ParsedRight' /\ heard' = closed /\ Shown' = closed
          /\ shown' \in Seq(Nat) /\ closedText' \in Seq(Nat)
          /\ streamed' = << >> /\ assistantText' = << >>
      BY <1>1, <1>2, <1>6, <1>9, <3>2, <3>3, BlockShown
    <3>5. steps' \in Seq(Tools) /\ Different(steps)'
      BY <1>8, <3>1, ReportsAgain DEF Stream!ParseAssistant, ParserTyped, StepsRight
    <3>6. ParserTyped'
      BY <1>1, <1>3, <1>4, <3>2, <3>4, <3>5 DEF ParserTyped
    <3> QED
      BY <1>1, <1>3, <1>9, <2>3, <3>4, <3>5, <3>6 DEF ReadRight, DirectRight, Idle
  <2> QED
    BY <1>1, <2>2, <2>3
<1>10. CASE source \notin Stream!Parsed
  <2>1. Stream!ParseStreamLine(l)
    BY <1>10 DEF Stream!Reads
  <2>2. /\ finalResult' = l.text
        /\ UNCHANGED <<streamed, sawDelta, assistantText, closedText, shown, steps>>
    BY <1>1, <1>5, <2>1 DEF Stream!ParseStreamLine
  <2>3. source \in Stream!Deltas => heard = closed
    BY <1>2, <1>10 DEF Stream!Parsed
  <2>4. ParserTyped'
    BY <1>1, <1>3, <1>4, <1>5, <1>7, <2>2 DEF ParserTyped
  <2>5. DirectRight'
    <3>1. \A i \in 1..Len(l.text) : l.text[i] \in 1..closed
      <4>1. from <= closed /\ l.text = Stream!From(from, closed)
        BY <1>2, <1>4
      <4>2. /\ Len(Stream!From(from, closed)) = closed - from
            /\ \A i \in 1..(closed - from) : Stream!From(from, closed)[i] = from + i
        BY <1>4, <4>1, FromIs
      <4>3. \A i \in 1..(closed - from) : from + i \in 1..closed
        BY <1>4, <4>1
      <4> QED
        BY <4>1, <4>2, <4>3
    <3>2. \A i \in 1..Len(finalResult') : finalResult'[i] \in 1..heard'
      BY <1>7, <2>2, <3>1
    <3>3. streamed' = IF source' \in Stream!Deltas THEN Stream!UpTo(heard') ELSE << >>
      BY <1>3, <1>7, <1>10, <2>2, <2>3 DEF DirectRight
    <3> QED
      BY <1>5, <2>2, <3>2, <3>3 DEF DirectRight
  <2>6. ParsedRight'
    BY <1>3, <1>10 DEF ParsedRight
  <2> QED
    BY <1>1, <1>3, <1>7, <1>10, <2>2, <2>4, <2>5, <2>6 DEF ReadRight, Idle, StepsRight, Different
<1> QED
  BY <1>9, <1>10

(* A call or the result, with nothing that was not heard.                  *)
LEMMA RestRead ==
  ASSUME WorldTyped, ParserTyped, ParsedRight, DirectRight, StepsRight, lines # << >>, RestDue,
         Stream!Reads(lines[1]), UNCHANGED <<source, parser, Stream!worldVars>>
  PROVE  ReadRight'
<1> DEFINE l == lines[1]
<1>1. /\ Idle
      /\ \/ l.kind = "step" /\ source = "pooled" /\ l.text = << >>
         \/ l.kind = "assistant" /\ source # "pooled" /\ l.text = << >>
         \/ l.kind = "control" /\ l.text = << >>
         \/ l.kind = "result" /\ l.text = last /\ closed = said
  BY DEF RestDue
<1>2. source' = source /\ said' = said /\ closed' = closed /\ asides' = asides
  BY DEF Stream!worldVars
<1>3. said \in Nat /\ heard \in Nat /\ closed \in Nat /\ closed <= said
  BY DEF WorldTyped, ParserTyped
<1>4. l.text \in Seq(Nat) /\ l.tool \in Tools \cup {Stream!NoTool}
  BY FirstLine
<1>5. \A i \in 1..Len(l.text) : l.text[i] \in 1..heard
  <2>1. CASE l.text = << >>
    BY <2>1
  <2>2. CASE l.text = last /\ closed = said
    <3>1. heard = closed
      BY <1>1, <2>2 DEF Idle
    <3> QED
      BY <2>2, <3>1 DEF WorldTyped
  <2> QED
    BY <1>1, <2>1, <2>2
<1>6. heard' = heard
  <2>1. Stream!Heard(l.text)
    BY DEF Stream!Reads
  <2> QED
    BY <1>3, <1>4, <1>5, <2>1, HeardAgain
<1>7. l.text # << >> => heard > 0
  <2>1. l.text # << >> => Len(l.text) \in 1..Len(l.text)
    BY <1>4, EmptySeq
  <2> QED
    BY <1>3, <1>5, <2>1
<1>8. CASE source \in Stream!Parsed
  <2>1. Stream!ParseLine(l)
    BY <1>8 DEF Stream!Reads
  <2>2. /\ UNCHANGED <<sawDelta, closedText, streamed, assistantText, shown>>
        /\ finalResult' \in {finalResult, l.text}
    BY <1>1, <2>1 DEF Stream!ParseLine, Stream!ParseAssistant
  <2>3. steps' \in Seq(Tools) /\ Different(steps)'
    <3>1. CASE l.kind = "step"
      <4>1. Stream!Reports(l.tool)
        BY <2>1, <3>1 DEF Stream!ParseLine
      <4>2. \A i \in 1..Len(steps) : steps[i] # l.tool
        <5>1. 1 \in 1..Len(lines)
          BY FirstLine
        <5> QED
          BY <3>1, <5>1 DEF StepsRight
      <4> QED
        BY <1>4, <4>1, <4>2, ReportsOnce DEF ParserTyped, StepsRight
    <3>2. CASE l.kind = "assistant"
      <4>1. Stream!Reports(IF \E i \in 1..Len(steps) : steps[i] = l.tool THEN Stream!NoTool ELSE l.tool)
        BY <2>1, <3>2 DEF Stream!ParseLine, Stream!ParseAssistant
      <4> QED
        BY <1>4, <4>1, ReportsAgain DEF ParserTyped, StepsRight
    <3>3. CASE l.kind \in {"result", "control"}
      <4>1. steps' = steps
        BY <2>1, <3>3 DEF Stream!ParseLine
      <4> QED
        BY <4>1 DEF ParserTyped, StepsRight, Different
    <3> QED
      BY <1>1, <3>1, <3>2, <3>3
  <2>4. ParserTyped'
    BY <1>2, <1>4, <1>6, <2>2, <2>3 DEF ParserTyped
  <2>5. ParsedRight'
    BY <1>2, <1>6, <1>8, <2>2 DEF ParsedRight, Shown, KeptUpTo, Stream!Kept
  <2> QED
    BY <1>1, <1>2, <1>6, <1>8, <2>2, <2>3, <2>4, <2>5 DEF ReadRight, Idle, DirectRight, Shown
<1>9. CASE source \notin Stream!Parsed
  <2>1. Stream!ParseStreamLine(l)
    BY <1>9 DEF Stream!Reads
  <2>2. /\ finalResult' = IF l.text = << >> THEN finalResult ELSE l.text
        /\ UNCHANGED <<streamed, sawDelta, assistantText, closedText, shown, steps>>
    BY <1>1, <2>1 DEF Stream!ParseStreamLine
  <2>3. ParserTyped'
    BY <1>2, <1>4, <1>6, <2>2 DEF ParserTyped
  <2>4. DirectRight'
    BY <1>2, <1>5, <1>6, <1>7, <1>9, <2>2 DEF DirectRight
  <2>5. ParsedRight'
    BY <1>2, <1>9 DEF ParsedRight
  <2> QED
    BY <1>1, <1>2, <1>6, <1>9, <2>2, <2>3, <2>4, <2>5 DEF ReadRight, Idle, StepsRight, Different
<1> QED
  BY <1>8, <1>9

LEMMA DueRead ==
  ASSUME StreamInv, lines # << >>, Stream!Reads(lines[1]), UNCHANGED <<source, parser, Stream!worldVars>>
  PROVE  /\ ReadRight' /\ end \in {"speaking", "exiting"} /\ (source = "plain" => heard' > 0)
         /\ Len(lines) > 1 => source = "pooled" /\ Len(lines) = 2 /\ lines[2].kind = "step"
                              /\ lines[2].text = << >> /\ UNCHANGED steps
<1> DEFINE Next2 == Len(lines) > 1 => source = "pooled" /\ Len(lines) = 2 /\ lines[2].kind = "step"
                                     /\ lines[2].text = << >> /\ UNCHANGED steps
<1>1. end \in {"speaking", "exiting"} /\ (DeltaDue \/ BlockDue \/ RestDue)
  BY DEF StreamInv, LinesRight
<1>2. CASE DeltaDue
  <2>1. ReadRight' /\ Next2
    BY <1>2, DeltaRead DEF StreamInv, DeltaDue
  <2>2. (source = "plain" => heard' > 0)
    <3>1. heard' = said' /\ said' = said /\ heard + 1 = said /\ heard \in Nat
      BY <1>2, <2>1 DEF ReadRight, Idle, DeltaDue, StreamInv, ParserTyped, Stream!worldVars
    <3> QED
      BY <3>1
  <2> QED
    BY <1>1, <2>1, <2>2
<1>3. ASSUME source = "plain" PROVE DeltaDue
  BY <1>3 DEF StreamInv, LinesRight, Stream!Unframed
<1>4. CASE ~ DeltaDue /\ BlockDue
  <2>1. ReadRight' /\ (lines[1].kind = "segment" => UNCHANGED steps)
    BY <1>4, BlockRead DEF StreamInv
  <2>2. Next2
    BY <1>4, <2>1 DEF BlockDue
  <2> QED
    BY <1>1, <1>3, <1>4, <2>1, <2>2
<1>5. CASE ~ DeltaDue /\ RestDue
  <2>1. ReadRight'
    BY <1>5, RestRead DEF StreamInv
  <2>2. Next2
    BY <1>5 DEF RestDue
  <2> QED
    BY <1>1, <1>3, <1>5, <2>1, <2>2
<1> QED
  BY <1>1, <1>2, <1>4, <1>5

(* What is written while nothing is on its way.                            *)
LEMMA Written ==
  ASSUME StreamInv, Stream!Speaks, UNCHANGED <<source, parser, half, wrote, Stream!parserVars, response>>,
         end' \in {"speaking", "exiting"}, said' \in Nat, closed' \in Nat, closed' <= said', said <= said',
         asides' \subseteq 1..said', asides \subseteq asides', asides' # {} => source \in {"pooled", "partial"},
         \A i \in asides' : i <= heard => i \in asides,
         last' \in Seq(Nat), \A i \in 1..Len(last') : last'[i] \in 1..closed',
         lines' \in Seq(LineSet), LinesRight',
         \A k \in 1..Len(lines') : lines'[k].kind = "step" => \A i \in 1..Len(steps) : steps[i] # lines'[k].tool
  PROVE  StreamInv'
<1>1. end = "speaking" /\ lines = << >>
  BY DEF Stream!Speaks
<1>2. /\ heard' = heard /\ shown' = shown /\ steps' = steps /\ streamed' = streamed /\ sawDelta' = sawDelta
      /\ assistantText' = assistantText /\ closedText' = closedText /\ finalResult' = finalResult
      /\ response' = response /\ source' = source /\ parser' = parser /\ half' = half /\ wrote' = wrote
  BY DEF Stream!parserVars
<1>3. half = "none"
  BY <1>1 DEF StreamInv, WorldTyped
<1>4. WorldTyped'
  BY <1>2, <1>3 DEF StreamInv, WorldTyped
<1>5. ParserTyped'
  BY <1>2 DEF StreamInv, ParserTyped, WorldTyped
<1>6. \A i \in 1..heard : i \in asides' <=> i \in asides
  BY DEF StreamInv, ParserTyped
<1>7. ParsedRight'
  <2> SUFFICES ASSUME source \in Stream!Parsed PROVE ParsedRight'
    BY <1>2 DEF ParsedRight
  <2>1. /\ Shown \in Nat /\ Shown <= heard /\ closedText \in Seq(Nat) /\ KeptUpTo(closedText, Shown)
        /\ heard \in Nat
    BY DEF StreamInv, ParserTyped, ParsedRight, Shown
  <2>2. \A i \in 1..Shown : i \in asides' <=> i \in asides
    BY <1>6, <2>1
  <2>3. Len(shown') = Shown /\ Shown' = Shown
    BY <1>2 DEF Shown
  <2>4. KeptUpTo(closedText, Shown)'
    BY <1>2, <2>1, <2>2, <2>3, KeptStays
  <2> QED
    BY <1>2, <1>6, <2>3, <2>4 DEF StreamInv, ParsedRight
<1>8. DirectRight' /\ PlainHeard'
  BY <1>2 DEF StreamInv, DirectRight, PlainHeard
<1>9. StepsRight'
  BY <1>2 DEF StreamInv, StepsRight, Different
<1>10. Answered'
  BY <1>2 DEF Answered, Stream!Quiet
<1> QED
  BY <1>4, <1>5, <1>7, <1>8, <1>9, <1>10 DEF StreamInv

LEMMA SaysStep ==
  ASSUME StreamInv, Stream!Says, UNCHANGED <<source, parser>>
  PROVE  StreamInv'
<1>1. /\ end = "speaking" /\ lines = << >> /\ said' = said + 1 /\ end' = end /\ closed' = closed /\ asides' = asides
      /\ last' = last /\ heard' = heard /\ shown' = shown
      /\ lines' = IF source \in Stream!Deltas THEN <<Stream!Line("delta", <<said + 1>>, Stream!NoTool)>> ELSE << >>
  BY DEF Stream!Says, Stream!Speaks, Stream!parserVars
<1>2. /\ said \in Nat /\ closed \in Nat /\ closed <= said /\ asides \subseteq 1..said /\ heard \in Nat
      /\ asides # {} => source \in {"pooled", "partial"}
      /\ last \in Seq(Nat) /\ \A i \in 1..Len(last) : last[i] \in 1..closed
  BY DEF StreamInv, WorldTyped, ParserTyped
<1>3. Idle
  BY <1>1, FirstLine DEF StreamInv, LinesRight, DeltaDue, BlockDue, RestDue
<1>4. CASE source \in Stream!Deltas
  <2>1. /\ lines' = <<[kind |-> "delta", text |-> <<said + 1>>, tool |-> Stream!NoTool]>>
        /\ [kind |-> "delta", text |-> <<said + 1>>, tool |-> Stream!NoTool] \in LineSet
    BY <1>1, <1>2, <1>4 DEF Stream!Line, LineSet
  <2>2. /\ lines' \in Seq(LineSet) /\ Len(lines') = 1 /\ lines'[1].kind = "delta"
        /\ lines'[1].text = <<said + 1>> /\ lines' # << >>
    BY <2>1
  <2>3. said + 1 \notin asides
    BY <1>2
  <2>4. DeltaDue'
    BY <1>1, <1>2, <1>3, <1>4, <2>2, <2>3 DEF DeltaDue, Idle, Shown
  <2>5. LinesRight'
    BY <1>1, <2>4 DEF LinesRight
  <2>6. \A k \in 1..Len(lines') : lines'[k].kind # "step"
    BY <2>2
  <2> QED
    BY <1>1, <1>2, <2>2, <2>5, <2>6, Written DEF Stream!Says
<1>5. CASE source \notin Stream!Deltas
  <2>1. lines' = << >> /\ lines' \in Seq(LineSet) /\ Len(lines') = 0
    BY <1>1, <1>5
  <2>2. Idle'
    BY <1>1, <1>3, <1>5 DEF Idle, Shown
  <2>3. LinesRight'
    BY <1>1, <2>1, <2>2 DEF LinesRight
  <2> QED
    BY <1>1, <1>2, <2>1, <2>3, Written DEF Stream!Says
<1> QED
  BY <1>4, <1>5

LEMMA IdleWhenRead == StreamInv /\ lines = << >> /\ end \in {"speaking", "exiting"} => Idle
<1> SUFFICES ASSUME StreamInv, lines = << >>, end \in {"speaking", "exiting"} PROVE Idle
  OBVIOUS
<1>1. Len(lines) = 0
  OBVIOUS
<1> QED
  BY <1>1 DEF StreamInv, LinesRight, DeltaDue, BlockDue, RestDue

LEMMA EndsBlockStep ==
  ASSUME StreamInv, Stream!EndsBlock, UNCHANGED <<source, parser>>
  PROVE  StreamInv'
<1> DEFINE text == Stream!From(closed, said)
<1>1. PICK tool \in Tools \cup {Stream!NoTool} :
        /\ closed < said \/ tool # Stream!NoTool
        /\ source = "pooled" => \A i \in 1..Len(steps) : steps[i] # tool
        /\ lines' = Stream!BlockLines(text, tool)
  BY DEF Stream!EndsBlock
<1>2. /\ end = "speaking" /\ lines = << >> /\ said' = said /\ end' = end /\ closed' = said /\ asides' = asides
      /\ last' = (IF closed < said THEN text ELSE last) /\ heard' = heard /\ shown' = shown
      /\ source' = source
  BY DEF Stream!EndsBlock, Stream!Speaks, Stream!parserVars
<1>3. /\ said \in Nat /\ closed \in Nat /\ closed <= said /\ asides \subseteq 1..said /\ heard \in Nat
      /\ asides # {} => source \in {"pooled", "partial"}
      /\ last \in Seq(Nat) /\ \A i \in 1..Len(last) : last[i] \in 1..closed
  BY DEF StreamInv, WorldTyped, ParserTyped
<1>4. Idle
  BY <1>2, IdleWhenRead
<1>5. /\ text \in Seq(Nat) /\ Len(text) = said - closed
      /\ \A i \in 1..(said - closed) : text[i] = closed + i
      /\ text = << >> <=> closed = said
  <2>1. text \in Seq(Nat) /\ Len(text) = said - closed /\ \A i \in 1..(said - closed) : text[i] = closed + i
    BY <1>3, FromIs
  <2> QED
    BY <1>3, <2>1, EmptySeq
<1> HIDE DEF text
<1>6. last' \in Seq(Nat) /\ \A i \in 1..Len(last') : last'[i] \in 1..closed'
  BY <1>2, <1>3, <1>5
<1>7. ASSUME lines' \in Seq(LineSet), LinesRight',
             \A k \in 1..Len(lines') : lines'[k].kind = "step" => \A i \in 1..Len(steps) : steps[i] # lines'[k].tool
      PROVE  StreamInv'
  BY <1>2, <1>3, <1>6, <1>7, Written DEF Stream!EndsBlock
<1>8. CASE source \in Stream!Unframed
  <2>1. lines' = << >>
    BY <1>1, <1>8 DEF Stream!BlockLines, Stream!Unframed
  <2>2. Idle'
    BY <1>2, <1>4, <1>8 DEF Idle, Stream!Unframed, Stream!Deltas, Stream!Parsed
  <2> QED
    BY <1>2, <1>7, <2>1, <2>2 DEF LinesRight
<1>9. ASSUME lines' # << >>, lines' \in Seq(LineSet), closed < said, source \notin Stream!Unframed,
             lines'[1].kind \in {"segment", "assistant"}, lines'[1].text = text,
             lines'[1].kind = "segment" <=> source = "pooled",
             Len(lines') > 1 => source = "pooled" /\ Len(lines') = 2 /\ lines'[2].kind = "step" /\ lines'[2].text = << >>
      PROVE  LinesRight'
  <2>1. BlockDue'
    <3>1. closed \in 0..closed' /\ closed < closed' /\ closed' = said'
      BY <1>2, <1>3, <1>9
    <3>2. lines'[1].text = Stream!From(closed, closed')
      BY <1>2, <1>9 DEF text
    <3>3. source' \in Stream!Parsed => Shown' = closed
      BY <1>2, <1>4 DEF Idle, Shown
    <3>4. (source' \in Stream!Deltas /\ heard' = closed') \/ (source' \notin Stream!Deltas /\ heard' = closed)
      BY <1>2, <1>4 DEF Idle
    <3> QED
      BY <1>2, <1>9, <3>1, <3>2, <3>3, <3>4 DEF BlockDue
  <2> QED
    BY <1>2, <1>9, <2>1 DEF LinesRight
<1>10. CASE source = "pooled"
  <2> DEFINE segment == [kind |-> "segment", text |-> text, tool |-> Stream!NoTool]
             step == [kind |-> "step", text |-> << >>, tool |-> tool]
  <2>1. segment \in LineSet /\ step \in LineSet
    BY <1>1, <1>5 DEF LineSet
  <2>2. lines' = Stream!Segment(text) \o Stream!Step(tool)
    BY <1>1, <1>10 DEF Stream!BlockLines, Stream!Unframed
  <2>3. /\ segment.kind = "segment" /\ segment.text = text
        /\ step.kind = "step" /\ step.tool = tool /\ step.text = << >>
    OBVIOUS
  <2>4. source \notin Stream!Unframed
    BY <1>10 DEF Stream!Unframed
  <2>8. Stream!Segment(text) = IF text = << >> THEN << >> ELSE <<segment>>
    BY DEF Stream!Segment, Stream!Line
  <2>9. Stream!Step(tool) = IF tool = Stream!NoTool THEN << >> ELSE <<step>>
    BY DEF Stream!Step, Stream!Line
  <2> HIDE DEF segment, step
  <2>5. CASE closed < said /\ tool = Stream!NoTool
    <3>1. lines' = <<segment>>
      <4>1. lines' = <<segment>> \o << >>
        <5>1. text # << >> /\ tool = Stream!NoTool
          BY <1>3, <1>5, <2>5
        <5> QED
          BY <5>1, <2>2, <2>8, <2>9
      <4>2. <<segment>> \in Seq(LineSet)
        BY <2>1
      <4> QED
        BY <4>1, <4>2, ConcatEmptySeq
    <3>2. lines' \in Seq(LineSet) /\ Len(lines') = 1 /\ lines'[1] = segment /\ lines' # << >>
      BY <2>1, <3>1
    <3>3. LinesRight'
      BY <1>9, <1>10, <2>3, <2>4, <2>5, <3>2
    <3>4. \A k \in 1..Len(lines') : lines'[k].kind # "step"
      BY <2>3, <3>2
    <3> QED
      BY <1>7, <3>2, <3>3, <3>4
  <2>6. CASE closed < said /\ tool # Stream!NoTool
    <3>1. lines' = <<segment>> \o <<step>>
      <4>1. text # << >> /\ tool # Stream!NoTool
        BY <1>3, <1>5, <2>6
      <4> QED
        BY <4>1, <2>2, <2>8, <2>9
    <3>2. lines' \in Seq(LineSet) /\ Len(lines') = 2 /\ lines'[1] = segment /\ lines'[2] = step /\ lines' # << >>
      <4>1. <<segment>> \in Seq(LineSet) /\ <<step>> \in Seq(LineSet)
        BY <2>1
      <4> QED
        BY <3>1, <4>1
    <3>3. LinesRight'
      BY <1>9, <1>10, <2>3, <2>4, <2>6, <3>2
    <3>4. \A k \in 1..Len(lines') : lines'[k].kind = "step" => lines'[k].tool = tool
      BY <2>3, <3>2
    <3> QED
      BY <1>1, <1>7, <1>10, <3>2, <3>3, <3>4
  <2>7. CASE ~ (closed < said)
    <3>1. lines' = <<step>>
      <4>1. lines' = << >> \o <<step>>
        <5>1. text = << >> /\ tool # Stream!NoTool
          BY <1>1, <1>3, <1>5, <2>7
        <5> QED
          BY <5>1, <2>2, <2>8, <2>9
      <4>2. <<step>> \in Seq(LineSet)
        BY <2>1
      <4> QED
        BY <4>1, <4>2, ConcatEmptySeq
    <3>2. lines' \in Seq(LineSet) /\ Len(lines') = 1 /\ lines'[1] = step /\ lines' # << >>
      BY <2>1, <3>1
    <3>3. Idle'
      BY <1>2, <1>3, <1>4, <2>7 DEF Idle, Shown
    <3>4. RestDue'
      BY <1>2, <1>10, <2>3, <3>2, <3>3 DEF RestDue
    <3>5. LinesRight'
      BY <1>2, <2>4, <3>4 DEF LinesRight
    <3>6. \A k \in 1..Len(lines') : lines'[k].tool = tool
      BY <2>3, <3>2
    <3> QED
      BY <1>1, <1>7, <1>10, <3>2, <3>5, <3>6
  <2> QED
    BY <2>5, <2>6, <2>7
<1>11. CASE source # "pooled" /\ source \notin Stream!Unframed
  <2> DEFINE block == [kind |-> "assistant", text |-> text, tool |-> tool]
  <2>1. block \in LineSet
    BY <1>1, <1>5 DEF LineSet
  <2>2. lines' = <<block>>
    BY <1>1, <1>11 DEF Stream!BlockLines, Stream!Line
  <2>3. block.kind = "assistant" /\ block.text = text
    OBVIOUS
  <2> HIDE DEF block
  <2>4. lines' \in Seq(LineSet) /\ Len(lines') = 1 /\ lines'[1] = block /\ lines' # << >>
    BY <2>1, <2>2
  <2>5. \A k \in 1..Len(lines') : lines'[k].kind # "step"
    BY <2>3, <2>4
  <2>6. CASE closed < said
    BY <1>7, <1>9, <1>11, <2>3, <2>4, <2>5, <2>6
  <2>7. CASE ~ (closed < said)
    <3>1. Idle'
      BY <1>2, <1>3, <1>4, <2>7 DEF Idle, Shown
    <3>2. RestDue'
      BY <1>2, <1>3, <1>5, <1>11, <2>3, <2>4, <2>7, <3>1 DEF RestDue
    <3>3. LinesRight'
      BY <1>2, <1>11, <3>2 DEF LinesRight
    <3> QED
      BY <1>7, <2>4, <2>5, <3>3
  <2> QED
    BY <2>6, <2>7
<1> QED
  BY <1>8, <1>10, <1>11

LEMMA SubAgentStep ==
  ASSUME StreamInv, Stream!SubAgentSays, UNCHANGED <<source, parser>>
  PROVE  StreamInv'
<1>1. /\ end = "speaking" /\ lines = << >> /\ closed = said /\ said' = said + 1 /\ closed' = said + 1
      /\ asides' = asides \cup {said + 1} /\ last' = last /\ end' = end /\ heard' = heard /\ shown' = shown
      /\ source' = source /\ source \in {"pooled", "partial"}
      /\ lines' = Stream!BlockLines(<<said + 1>>, Stream!NoTool)
  BY DEF Stream!SubAgentSays, Stream!Speaks, Stream!parserVars
<1>2. /\ said \in Nat /\ asides \subseteq 1..said /\ heard \in Nat /\ heard <= said
      /\ last \in Seq(Nat) /\ \A i \in 1..Len(last) : last[i] \in 1..closed
  BY DEF StreamInv, WorldTyped, ParserTyped
<1>3. heard = said /\ Shown = said
  BY <1>1, IdleWhenRead DEF Idle, Stream!Deltas, Stream!Parsed
<1> DEFINE kind == IF source = "pooled" THEN "segment" ELSE "assistant"
           block == [kind |-> kind, text |-> <<said + 1>>, tool |-> Stream!NoTool]
<1>4. lines' = <<block>>
  <2>1. CASE source = "pooled"
    <3>1. lines' = Stream!Segment(<<said + 1>>) \o Stream!Step(Stream!NoTool)
      BY <1>1, <2>1 DEF Stream!BlockLines, Stream!Unframed
    <3>2. Stream!Step(Stream!NoTool) = << >>
      BY DEF Stream!Step
    <3>3. Stream!Segment(<<said + 1>>) = <<block>>
      BY <2>1 DEF Stream!Segment, Stream!Line
    <3> HIDE DEF block
    <3>4. <<block>> \in Seq({block})
      OBVIOUS
    <3> QED
      BY <3>1, <3>2, <3>3, <3>4, ConcatEmptySeq
  <2>2. CASE source # "pooled"
    BY <1>1, <2>2 DEF Stream!BlockLines, Stream!Line, Stream!Unframed
  <2> QED
    BY <2>1, <2>2
<1>5. block \in LineSet
  BY <1>2 DEF LineSet
<1>6. block.kind = kind /\ block.text = <<said + 1>>
  OBVIOUS
<1> HIDE DEF block
<1>7. lines' \in Seq(LineSet) /\ Len(lines') = 1 /\ lines'[1] = block /\ lines' # << >>
  BY <1>4, <1>5
<1>8. BlockDue'
  <2>1. said \in 0..closed' /\ said < closed' /\ said + 1 = closed' /\ closed' \in asides' /\ closed' = said'
    BY <1>1, <1>2
  <2>2. lines'[1].text = Stream!From(said, closed')
    BY <1>1, <1>2, <1>6, <1>7, FromOne
  <2>3. Shown' = said /\ heard' = said
    BY <1>1, <1>3 DEF Shown
  <2> QED
    BY <1>1, <1>6, <1>7, <2>1, <2>2, <2>3 DEF BlockDue
<1>9. LinesRight'
  BY <1>1, <1>8 DEF LinesRight, Stream!Unframed
<1>10. \A k \in 1..Len(lines') : lines'[k].kind # "step"
  BY <1>6, <1>7
<1>11. /\ said' \in Nat /\ closed' \in Nat /\ closed' <= said' /\ said <= said'
       /\ asides' \subseteq 1..said' /\ asides \subseteq asides'
       /\ \A i \in asides' : i <= heard => i \in asides
       /\ \A i \in 1..Len(last') : last'[i] \in 1..closed'
  BY <1>1, <1>2
<1> QED
  BY <1>1, <1>2, <1>7, <1>9, <1>10, <1>11, Written DEF Stream!SubAgentSays

LEMMA ConcludesStep ==
  ASSUME StreamInv, Stream!Concludes, UNCHANGED <<source, parser>>
  PROVE  StreamInv'
<1>1. /\ end = "speaking" /\ lines = << >> /\ closed = said /\ said' = said /\ closed' = closed
      /\ asides' = asides /\ last' = last /\ end' = "exiting" /\ heard' = heard /\ shown' = shown
      /\ source' = source
      /\ lines' = IF source \in Stream!Unframed THEN << >> ELSE <<Stream!Line("result", last, Stream!NoTool)>>
  BY DEF Stream!Concludes, Stream!Speaks, Stream!parserVars, Stream!worldVars
<1>2. /\ said \in Nat /\ asides \subseteq 1..said /\ heard \in Nat
      /\ asides # {} => source \in {"pooled", "partial"}
      /\ last \in Seq(Nat) /\ \A i \in 1..Len(last) : last[i] \in 1..closed
  BY DEF StreamInv, WorldTyped, ParserTyped
<1>3. Idle'
  BY <1>1, IdleWhenRead DEF Idle, Shown
<1>4. /\ lines' \in Seq(LineSet) /\ LinesRight'
      /\ \A k \in 1..Len(lines') : lines'[k].kind # "step"
  <2>1. CASE source \in Stream!Unframed
    <3>1. lines' = << >>
      BY <1>1, <2>1
    <3> QED
      BY <1>1, <1>3, <3>1 DEF LinesRight
  <2>2. CASE source \notin Stream!Unframed
    <3> DEFINE result == [kind |-> "result", text |-> last, tool |-> Stream!NoTool]
    <3>1. lines' = <<result>> /\ result \in LineSet
      BY <1>1, <1>2, <2>2 DEF Stream!Line, LineSet
    <3>2. result.kind = "result" /\ result.text = last
      OBVIOUS
    <3> HIDE DEF result
    <3>3. lines' \in Seq(LineSet) /\ Len(lines') = 1 /\ lines'[1] = result /\ lines' # << >>
      BY <3>1
    <3>4. RestDue'
      BY <1>1, <1>3, <3>2, <3>3 DEF RestDue
    <3> QED
      BY <1>1, <2>2, <3>2, <3>3, <3>4 DEF LinesRight
  <2> QED
    BY <2>1, <2>2
<1> QED
  BY <1>1, <1>2, <1>4, Written DEF Stream!Concludes

LEMMA AnnouncesStep ==
  ASSUME StreamInv, Stream!Announces, UNCHANGED <<source, parser>>
  PROVE  StreamInv'
<1> DEFINE control == [kind |-> "control", text |-> << >>, tool |-> Stream!NoTool]
<1>1. /\ end = "speaking" /\ lines = << >> /\ said' = said /\ closed' = closed /\ asides' = asides
      /\ last' = last /\ end' = end /\ heard' = heard /\ shown' = shown /\ source' = source
      /\ source \in Stream!Framed /\ lines' = <<control>>
  BY DEF Stream!Announces, Stream!Speaks, Stream!parserVars, Stream!worldVars, Stream!Line
<1>2. /\ said \in Nat /\ closed \in Nat /\ closed <= said /\ asides \subseteq 1..said /\ heard \in Nat
      /\ asides # {} => source \in {"pooled", "partial"}
      /\ last \in Seq(Nat) /\ \A i \in 1..Len(last) : last[i] \in 1..closed
  BY DEF StreamInv, WorldTyped, ParserTyped
<1>3. Idle'
  BY <1>1, IdleWhenRead DEF Idle, Shown
<1>4. control \in LineSet /\ control.kind = "control" /\ control.text = << >>
  BY DEF LineSet
<1> HIDE DEF control
<1>5. lines' \in Seq(LineSet) /\ Len(lines') = 1 /\ lines'[1] = control /\ lines' # << >>
  BY <1>1, <1>4
<1>6. RestDue'
  BY <1>3, <1>4, <1>5 DEF RestDue
<1>7. LinesRight'
  BY <1>1, <1>6 DEF LinesRight, Stream!Framed, Stream!Unframed
<1> QED
  BY <1>1, <1>2, <1>4, <1>5, <1>7, Written DEF Stream!Announces

LEMMA ReadsLineStep ==
  ASSUME StreamInv, Stream!ReadsLine, UNCHANGED <<source, parser>>
  PROVE  StreamInv'
<1>1. /\ lines # << >> /\ Stream!Reads(lines[1]) /\ lines' = Tail(lines) /\ half' = "none"
      /\ UNCHANGED Stream!worldVars /\ end' = end /\ response' = response /\ wrote' = TRUE
  BY DEF Stream!ReadsLine
<1>2. source' = source /\ parser' = parser /\ said' = said /\ closed' = closed /\ asides' = asides /\ last' = last
  BY <1>1 DEF Stream!worldVars
<1>3. /\ ReadRight' /\ end \in {"speaking", "exiting"} /\ PlainHeard'
      /\ Len(lines) > 1 => source = "pooled" /\ Len(lines) = 2 /\ lines[2].kind = "step"
                           /\ lines[2].text = << >> /\ UNCHANGED steps
  BY <1>1, <1>2, DueRead DEF PlainHeard
<1>4. lines \in Seq(LineSet) /\ Len(lines) \in Nat /\ Len(lines) >= 1
  BY <1>1, FirstLine DEF StreamInv, WorldTyped
<1>5. /\ lines' \in Seq(LineSet) /\ Len(lines') = Len(lines) - 1
      /\ \A k \in 1..Len(lines') : lines'[k] = lines[k + 1]
  BY <1>1, <1>4
<1>6. WorldTyped'
  BY <1>1, <1>2, <1>5 DEF StreamInv, WorldTyped
<1>7. CASE Len(lines) = 1
  <2>1. lines' = << >>
    BY <1>5, <1>7, EmptySeq
  <2>2. LinesRight'
    BY <1>1, <1>3, <2>1 DEF LinesRight, ReadRight
  <2>3. StepsRight'
    BY <1>3, <1>5, <1>7 DEF StepsRight, ReadRight
  <2> QED
    BY <1>1, <1>3, <1>6, <2>2, <2>3 DEF StreamInv, ReadRight, Answered, Stream!Quiet
<1>8. CASE Len(lines) > 1
  <2>1. Len(lines') = 1 /\ lines'[1] = lines[2] /\ lines' # << >>
    BY <1>3, <1>5, <1>8
  <2>2. RestDue'
    BY <1>2, <1>3, <1>8, <2>1 DEF RestDue, ReadRight
  <2>3. LinesRight'
    BY <1>1, <1>2, <1>3, <1>8, <2>2 DEF LinesRight, Stream!Unframed
  <2>4. \A i \in 1..Len(steps) : steps[i] # lines[2].tool
    BY <1>3, <1>8 DEF StreamInv, StepsRight
  <2>5. StepsRight'
    BY <1>3, <1>8, <2>1, <2>4 DEF StepsRight, ReadRight
  <2> QED
    BY <1>1, <1>3, <1>6, <2>3, <2>5 DEF StreamInv, ReadRight, Answered, Stream!Quiet
<1>9. \A n \in Nat : n >= 1 => n = 1 \/ n > 1
  OBVIOUS
<1>10. Len(lines) = 1 \/ Len(lines) > 1
  BY ONLY <1>4, <1>9, Zenon
<1> QED
  BY ONLY <1>7, <1>8, <1>10

LEMMA ReadsPartStep ==
  ASSUME StreamInv, half' \in {"none", "head", "all"}, half' # "none" => lines # << >>,
         wrote' \in BOOLEAN, wrote' = wrote \/ (lines # << >> /\ source # "plain"),
         UNCHANGED <<source, parser, Stream!worldVars, lines, end, Stream!parserVars, response>>
  PROVE  StreamInv'
<1>1. /\ said' = said /\ closed' = closed /\ asides' = asides /\ last' = last /\ lines' = lines /\ end' = end
      /\ heard' = heard /\ shown' = shown /\ steps' = steps /\ streamed' = streamed /\ sawDelta' = sawDelta
      /\ assistantText' = assistantText /\ closedText' = closedText /\ finalResult' = finalResult
      /\ response' = response /\ source' = source /\ parser' = parser
  BY DEF Stream!worldVars, Stream!parserVars
<1>2. WorldTyped' /\ ParserTyped'
  BY <1>1 DEF StreamInv, WorldTyped, ParserTyped
<1>3. ParsedRight' /\ DirectRight' /\ PlainHeard'
  BY <1>1 DEF StreamInv, ParsedRight, DirectRight, PlainHeard, Shown, KeptUpTo, Stream!Kept
<1>4. (Idle <=> Idle') /\ (DeltaDue <=> DeltaDue')
  BY <1>1 DEF Idle, DeltaDue, Shown
<1>5. BlockDue <=> BlockDue'
  BY <1>1 DEF BlockDue, Shown
<1>6. RestDue <=> RestDue'
  BY <1>1, <1>4 DEF RestDue
<1>7. LinesRight'
  BY <1>1, <1>4, <1>5, <1>6 DEF StreamInv, LinesRight
<1>8. StepsRight'
  BY <1>1 DEF StreamInv, StepsRight, Different
<1>9. Answered'
  <2>1. CASE wrote' = wrote
    BY <1>1, <2>1 DEF StreamInv, Answered, Stream!Quiet, Stream!Live, Stream!Stdout, Stream!OrElse
  <2>2. CASE lines # << >>
    BY <1>1, <2>2 DEF StreamInv, LinesRight, Answered, Stream!Quiet
  <2> QED
    BY <2>1, <2>2
<1> QED
  BY <1>2, <1>3, <1>7, <1>8, <1>9 DEF StreamInv

LEMMA ExitsStep ==
  ASSUME StreamInv, Stream!Exits, UNCHANGED <<source, parser>>
  PROVE  StreamInv'
<1>1. /\ end' \in {"exited", "failed"} /\ lines' = << >> /\ half' = "none" /\ end \in {"speaking", "exiting"}
      /\ UNCHANGED Stream!worldVars /\ response' = response
      /\ IF half = "all" THEN Stream!Reads(lines[1]) ELSE UNCHANGED Stream!parserVars
      /\ wrote' = wrote
  BY DEF Stream!Exits
<1>2. source' = source /\ parser' = parser /\ said' = said /\ closed' = closed /\ asides' = asides /\ last' = last
  BY <1>1 DEF Stream!worldVars
<1>3. ParserTyped' /\ ParsedRight' /\ DirectRight' /\ PlainHeard' /\ Different(steps)'
  <2>1. CASE half = "all"
    <3>1. lines # << >>
      BY <2>1 DEF StreamInv, WorldTyped
    <3> QED
      BY <1>1, <1>2, <2>1, <3>1, DueRead DEF ReadRight, PlainHeard
  <2>2. CASE half # "all"
    <3>1. UNCHANGED <<heard, shown, steps, streamed, sawDelta, assistantText, closedText, finalResult>>
      BY <1>1, <2>2 DEF Stream!parserVars
    <3>2. ParserTyped'
      BY <1>2, <3>1 DEF StreamInv, ParserTyped
    <3>3. ParsedRight' /\ DirectRight' /\ PlainHeard'
      BY <1>1, <1>2, <3>1 DEF StreamInv, ParsedRight, DirectRight, PlainHeard, Shown, KeptUpTo, Stream!Kept
    <3>4. Different(steps)'
      BY <3>1 DEF StreamInv, StepsRight, Different
    <3> QED
      BY <3>2, <3>3, <3>4
  <2> QED
    BY <2>1, <2>2
<1>4. lines' \in Seq(LineSet) /\ Len(lines') = 0
  BY <1>1
<1>5. WorldTyped'
  BY <1>1, <1>2, <1>4 DEF StreamInv, WorldTyped
<1>6. LinesRight' /\ StepsRight'
  BY <1>1, <1>3, <1>4 DEF LinesRight, StepsRight
<1>7. Answered'
  BY <1>1 DEF Answered, Stream!Quiet
<1> QED
  BY <1>3, <1>5, <1>6, <1>7 DEF StreamInv

LEMMA AnswerStep ==
  ASSUME StreamInv, Stream!Answer, UNCHANGED <<source, parser>>
  PROVE  StreamInv'
<1>1. /\ end \in {"exited", "failed"} /\ end' \in {"answered", "refused"}
      /\ end' = "refused" => end = "failed"
      /\ UNCHANGED <<Stream!worldVars, lines, half, wrote, Stream!parserVars>>
  BY DEF Stream!Answer
<1>2. /\ said' = said /\ closed' = closed /\ asides' = asides /\ last' = last /\ lines' = lines /\ half' = half
      /\ heard' = heard /\ shown' = shown /\ steps' = steps /\ streamed' = streamed /\ sawDelta' = sawDelta
      /\ assistantText' = assistantText /\ closedText' = closedText /\ finalResult' = finalResult
      /\ source' = source /\ parser' = parser /\ wrote' = wrote
  BY <1>1 DEF Stream!worldVars, Stream!parserVars
<1>3. lines = << >>
  BY <1>1 DEF StreamInv, LinesRight
<1>4. WorldTyped' /\ ParserTyped'
  BY <1>1, <1>2 DEF StreamInv, WorldTyped, ParserTyped
<1>5. ParsedRight' /\ DirectRight' /\ PlainHeard'
  BY <1>2 DEF StreamInv, ParsedRight, DirectRight, PlainHeard, Shown, KeptUpTo, Stream!Kept
<1>6. LinesRight' /\ StepsRight'
  BY <1>1, <1>2, <1>3 DEF StreamInv, LinesRight, StepsRight, Different
<1>7. Answered'
  <2>1. PICK noise \in {<< >>, Stream!Noise}, latest \in {<< >>} \cup {Stream!From(n, heard) : n \in 0..heard} :
          /\ noise # << >> => end = "exited"
          /\ response' = IF parser /\ source # "acp" THEN Stream!OrElse(Stream!ParserResult, noise)
                         ELSE Stream!OrElse(Stream!Stdout, Stream!OrElse(noise, latest))
    BY DEF Stream!Answer
  <2>2. source \in Stream!Parsed => parser /\ source # "acp"
    BY DEF StreamInv, WorldTyped, Stream!Parsed
  <2>3. end' = "refused" => noise = << >>
    BY <1>1, <2>1
  <2>4. source \in Stream!Parsed /\ finalResult = << >> => Stream!ParserResult = closedText \o Stream!Live
    BY DEF Stream!ParserResult, Stream!OrElse
  <2>5. end' = "refused" /\ source \in Stream!Parsed /\ finalResult = << >> => response' = closedText \o Stream!Live
    BY <2>1, <2>2, <2>3, <2>4 DEF Stream!OrElse
  <2>6. Stream!Live' = Stream!Live
    BY <1>2 DEF Stream!Live
  <2>7. ~ parser /\ Stream!Stdout # << >> => response' = Stream!Stdout
    BY <2>1 DEF Stream!OrElse
  <2>8. source \in Stream!Direct => Stream!Stdout' = Stream!Stdout
    BY <1>2 DEF Stream!Stdout, Stream!OrElse, Stream!Direct
  <2> QED
    BY <1>2, <2>5, <2>6, <2>7, <2>8 DEF Answered
<1> QED
  BY <1>4, <1>5, <1>6, <1>7 DEF StreamInv

LEMMA StreamStep == ASSUME StreamInv, Stream!StreamNext PROVE StreamInv'
<1>1. UNCHANGED <<source, parser>>
  BY DEF Stream!StreamNext
<1> QED
  <2>1. CASE Stream!ReadsPart
    <3>1. /\ half' \in {"none", "head", "all"} /\ lines # << >> /\ source # "plain" /\ wrote' = TRUE
          /\ UNCHANGED <<Stream!worldVars, lines, end, Stream!parserVars, response>>
      BY <2>1 DEF Stream!ReadsPart, Stream!Whole, Stream!Unframed
    <3> QED
      BY <1>1, <3>1, ReadsPartStep
  <2> QED
    BY <1>1, <2>1, SaysStep, AnnouncesStep, EndsBlockStep, SubAgentStep, ConcludesStep, ReadsLineStep, ExitsStep, AnswerStep
       DEF Stream!StreamNext

LEMMA StreamInitRight == Stream!StreamInit => StreamInv
<1> SUFFICES ASSUME Stream!StreamInit PROVE StreamInv
  OBVIOUS
<1> USE DEF Stream!StreamInit
<1>1. WorldTyped /\ ParserTyped
  <2>1. /\ << >> \in Seq(Nat) /\ << >> \in Seq(LineSet) /\ << >> \in Seq(Tools) /\ Len(<< >>) = 0
        /\ 1..0 = {}
    BY EmptySeq
  <2>2. closed \in Nat /\ closed <= said /\ said \in Nat /\ asides = {} /\ asides \subseteq 1..said
    OBVIOUS
  <2>3. last \in Seq(Nat) /\ \A i \in 1..Len(last) : last[i] \in 1..closed
    BY <2>1
  <2>4. lines \in Seq(LineSet) /\ half = "none" /\ end = "speaking" /\ wrote \in BOOLEAN
    BY <2>1
  <2>5. source \in Stream!Parsed \cup Stream!Direct \cup {"acp"} /\ parser \in BOOLEAN /\ (source \in Stream!Parsed => parser)
    OBVIOUS
  <2>6. WorldTyped
    BY ONLY <2>2, <2>3, <2>4, <2>5, Zenon DEF WorldTyped
  <2> QED
    <3>1. shown \in Seq(Nat) /\ streamed \in Seq(Nat) /\ closedText \in Seq(Nat) /\ finalResult \in Seq(Nat)
      BY <2>1
    <3>2. steps \in Seq(Tools) /\ sawDelta \in BOOLEAN /\ assistantText = << >>
      BY <2>1
    <3>3. heard \in Nat /\ heard <= said
      OBVIOUS
    <3> QED
      BY ONLY <2>6, <3>1, <3>2, <3>3, Zenon DEF ParserTyped
<1>2. Stream!UpTo(0) = << >> /\ Stream!From(0, 0) = << >>
  BY UpToIs, FromNone, EmptySeq
<1>3. Shown = 0
  BY DEF Shown
<1>4. KeptUpTo(closedText, Shown)
  BY <1>3 DEF KeptUpTo
<1>5. ParsedRight
  BY <1>2, <1>3, <1>4 DEF ParsedRight
<1>6. DirectRight /\ PlainHeard
  BY <1>2 DEF DirectRight, PlainHeard
<1>7. LinesRight
  BY <1>3 DEF LinesRight, Idle
<1>8. StepsRight /\ Answered
  BY DEF StepsRight, Different, Answered, Stream!Quiet
<1> QED
  BY <1>1, <1>5, <1>6, <1>7, <1>8 DEF StreamInv

(* What the invariant says of the bubbles and of the text.                 *)
LEMMA NothingTwice == StreamInv => SaidOnce
<1> SUFFICES ASSUME StreamInv PROVE SaidOnce
  OBVIOUS
<1>1. ASSUME source \in Stream!Parsed
      PROVE  /\ shown \o Stream!Live = Stream!UpTo(heard)
             /\ Stream!Keeps(closedText \o Stream!Live)
  <2>1. /\ Shown \in Nat /\ heard \in Nat /\ Shown <= heard /\ shown = Stream!UpTo(Shown)
        /\ streamed = Stream!From(Shown, heard) /\ closedText \in Seq(Nat) /\ KeptUpTo(closedText, Shown)
        /\ \A i \in 1..heard : i > Shown => i \notin asides
        /\ assistantText = << >> /\ (Shown < heard => sawDelta)
    BY <1>1 DEF StreamInv, ParsedRight, ParserTyped, Shown
  <2>2. Stream!Live = Stream!From(Shown, heard)
    <3>1. Shown = heard => streamed = << >>
      BY <2>1, FromNone
    <3> QED
      BY <2>1, <3>1 DEF Stream!Live
  <2>3. shown \o Stream!Live = Stream!UpTo(heard)
    BY <2>1, <2>2, UpToOn
  <2>4. \A i \in (Shown + 1)..heard : Stream!Kept(i)
    BY <2>1 DEF Stream!Kept
  <2>5. KeptUpTo(closedText \o Stream!Live, heard)
    BY <2>1, <2>2, <2>4, KeptOn
  <2> QED
    BY <2>3, <2>5 DEF KeptUpTo, Stream!Keeps
<1>2. source \in Stream!Parsed /\ end = "refused" /\ finalResult = << >> => Stream!Keeps(response)
  BY <1>1 DEF StreamInv, Answered
<1>3. source \in Stream!Deltas \ Stream!Parsed => streamed = Stream!UpTo(heard)
  BY DEF StreamInv, DirectRight
<1>4. ASSUME source \in Stream!Direct, ~ parser, Stream!Quiet
      PROVE  /\ heard > 0 => \A i \in 1..Len(response) : response[i] \in 1..heard
             /\ response = << >> => ~ wrote
  <2>1. source \notin Stream!Parsed /\ source # "acp"
    BY <1>4 DEF Stream!Direct, Stream!Parsed
  <2>2. Stream!Stdout # << >> => response = Stream!Stdout
    BY <1>4 DEF StreamInv, Answered
  <2>3. heard \in Nat
    BY DEF StreamInv, ParserTyped
  <2>4. /\ Stream!UpTo(heard) = << >> <=> heard = 0
        /\ \A i \in 1..Len(Stream!UpTo(heard)) : Stream!UpTo(heard)[i] \in 1..heard
    BY <2>3, UpToIs, EmptySeq
  <2>5. source \notin Stream!Deltas => source = "recap"
    BY <1>4 DEF Stream!Direct, Stream!Deltas, Stream!Unframed
  <2>6. /\ streamed = IF source \in Stream!Deltas THEN Stream!UpTo(heard) ELSE << >>
        /\ \A i \in 1..Len(finalResult) : finalResult[i] \in 1..heard
        /\ source = "recap" /\ heard > 0 => finalResult # << >>
    BY <2>1 DEF StreamInv, DirectRight
  <2>7. source \in {"recap"} => source \notin Stream!Deltas
    BY DEF Stream!Deltas, Stream!Unframed
  <2>8. heard > 0 => Stream!Stdout # << >> /\ Stream!Stdout \in {streamed, finalResult}
    BY <2>1, <2>3, <2>4, <2>5, <2>6, <2>7 DEF Stream!Stdout, Stream!OrElse, Stream!Deltas, Stream!Unframed
  <2>9. heard > 0 => \A i \in 1..Len(response) : response[i] \in 1..heard
    BY <2>2, <2>4, <2>6, <2>8
  <2>10. ASSUME wrote PROVE Stream!Stdout # << >>
    <3>1. CASE source = "plain"
      BY <2>3, <2>8, <2>10, <3>1 DEF StreamInv, PlainHeard
    <3>2. CASE source # "plain"
      BY <2>1, <2>10, <3>2 DEF Stream!Stdout, Stream!OrElse, Stream!Raw
    <3> QED
      BY <3>1, <3>2
  <2> QED
    BY <2>2, <2>9, <2>10
<1>5. \A i, j \in 1..Len(steps) : steps[i] = steps[j] => i = j
  BY DEF StreamInv, StepsRight, Different
<1> QED
  BY <1>1, <1>2, <1>3, <1>4, <1>5 DEF SaidOnce, Stream!SaidOnce

(* Whatever is read and wherever it is cut off, nothing is shown twice or  *)
(* left out, and no tool is reported twice (agensis.mjs:1871-1972).        *)
THEOREM NothingSaidTwice == RuntimesSpec => []SaidOnce
<1>1. RuntimesInit => StreamInv
  BY StreamInitRight DEF RuntimesInit
<1>2. StreamInv /\ [RuntimesNext]_runtimeVars => StreamInv'
  <2> SUFFICES ASSUME StreamInv, [RuntimesNext]_runtimeVars PROVE StreamInv'
    OBVIOUS
  <2>1. CASE ReadsAnswer
    BY <2>1, StreamStep DEF ReadsAnswer
  <2>2. CASE UNCHANGED streamVars
    <3>1. half' \in {"none", "head", "all"} /\ (half' # "none" => lines # << >>) /\ wrote' = wrote /\ wrote' \in BOOLEAN
      BY <2>2 DEF streamVars, StreamInv, WorldTyped
    <3>2. UNCHANGED <<source, parser, Stream!worldVars, lines, end, Stream!parserVars, response>>
      BY <2>2 DEF streamVars, Stream!worldVars, Stream!parserVars
    <3> QED
      BY <3>1, <3>2, ReadsPartStep
  <2> QED
    BY <2>1, <2>2 DEF RuntimesNext, RunsClaude, TakesSlots, RunsCodex, RunsAcp, RunsSandbox, runtimeVars
<1> QED
  BY <1>1, <1>2, NothingTwice, PTL DEF RuntimesSpec

-----------------------------------------------------------------------------
(* What holds of each runtime holds of the daemon, whichever it runs.      *)
LEMMA RuntimesRunAcp == RuntimesSpec => AcpSpec
<1>1. RuntimesInit => AcpInit
  BY DEF RuntimesInit
<1>2. [RuntimesNext]_runtimeVars => [AcpNext]_acpVars
  BY DEF RuntimesNext, RunsClaude, TakesSlots, RunsCodex, RunsAcp, RunsSandbox, ReadsAnswer, runtimeVars
<1> QED
  BY <1>1, <1>2, PTL DEF RuntimesSpec, AcpSpec

LEMMA RuntimesRunClaude == RuntimesSpec => Claude!Spec
<1>1. RuntimesInit => Claude!Init
  BY DEF RuntimesInit
<1>2. [RuntimesNext]_runtimeVars => [Claude!Next]_(Claude!vars)
  BY DEF RuntimesNext, RunsClaude, TakesSlots, RunsCodex, RunsAcp, RunsSandbox, ReadsAnswer, runtimeVars,
         claudeVars, Claude!vars
<1> QED
  BY <1>1, <1>2, PTL DEF RuntimesSpec, Claude!Spec

LEMMA RuntimesTakeSlots == RuntimesSpec => Spread!Spec
<1>1. RuntimesInit => Spread!Init
  BY DEF RuntimesInit
<1>2. [RuntimesNext]_runtimeVars => [Spread!Next]_(Spread!vars)
  BY DEF RuntimesNext, RunsClaude, TakesSlots, RunsCodex, RunsAcp, RunsSandbox, ReadsAnswer, runtimeVars,
         spreadVars, Spread!vars
<1> QED
  BY <1>1, <1>2, PTL DEF RuntimesSpec, Spread!Spec

(* Whichever runtime is chosen, what it does is what it does alone: each   *)
(* of them is implemented (executor.mjs:139-248).                          *)
THEOREM RuntimesAreTheirOwn ==
  RuntimesSpec => Claude!Spec /\ CodexSpec /\ AcpSpec /\ Spread!Spec
  BY RuntimesRunClaude, RuntimesRunCodex, RuntimesRunAcp, RuntimesTakeSlots, PTL

-----------------------------------------------------------------------------
(* What is proved of Claude's pool, in the names it has here.              *)
ClaudeFacts == INSTANCE ClaudePoolProofs WITH
  Jobs <- Turns, MaxOut <- MaxUnread,
  line <- waiting, aborted <- signalled, pool <- pooled, closed <- ended

LEMMA ClaudeTurns ==
  ASSUME NEW j \in Turns
  PROVE  /\ Claude!RunEnters(j) <=> ClaudeFacts!RunEnters(j)
         /\ Claude!RunGoesOn(j) <=> ClaudeFacts!RunGoesOn(j)
<1>1. Claude!EnterAborted(j) <=> ClaudeFacts!EnterAborted(j)
  BY DEF Claude!EnterAborted, ClaudeFacts!EnterAborted, Claude!Answer, ClaudeFacts!Answer,
         Claude!Enters, ClaudeFacts!Enters, Claude!Held, ClaudeFacts!Held, Claude!cliVars,
         ClaudeFacts!cliVars, Claude!sessVars, ClaudeFacts!sessVars
<1>2. Claude!EnterReusing(j) <=> ClaudeFacts!EnterReusing(j)
  BY DEF Claude!EnterReusing, ClaudeFacts!EnterReusing, Claude!Enters, ClaudeFacts!Enters,
         Claude!Held, ClaudeFacts!Held, Claude!Reusable, ClaudeFacts!Reusable, Claude!cliVars,
         ClaudeFacts!cliVars, Claude!sessVars, ClaudeFacts!sessVars
<1>3. Claude!EnterReplacing(j) <=> ClaudeFacts!EnterReplacing(j)
  BY DEF Claude!EnterReplacing, ClaudeFacts!EnterReplacing, Claude!Answer, ClaudeFacts!Answer,
         Claude!CloseSession, ClaudeFacts!CloseSession, Claude!EndStream, ClaudeFacts!EndStream,
         Claude!Enters, ClaudeFacts!Enters, Claude!Failing, ClaudeFacts!Failing, Claude!Held,
         ClaudeFacts!Held, Claude!Opening, ClaudeFacts!Opening, Claude!cliVars, ClaudeFacts!cliVars
<1>4. Claude!EnterOpening(j) <=> ClaudeFacts!EnterOpening(j)
  BY DEF Claude!EnterOpening, ClaudeFacts!EnterOpening, Claude!Answer, ClaudeFacts!Answer,
         Claude!Enters, ClaudeFacts!Enters, Claude!Failing, ClaudeFacts!Failing, Claude!Held,
         ClaudeFacts!Held, Claude!Opening, ClaudeFacts!Opening, Claude!cliVars, ClaudeFacts!cliVars
<1>5. Claude!EnterLoading(j) <=> ClaudeFacts!EnterLoading(j)
  BY DEF Claude!EnterLoading, ClaudeFacts!EnterLoading, Claude!Enters, ClaudeFacts!Enters,
         Claude!Held, ClaudeFacts!Held, Claude!cliVars, ClaudeFacts!cliVars, Claude!sessVars,
         ClaudeFacts!sessVars
<1>6. Claude!Load(j) <=> ClaudeFacts!Load(j)
  BY DEF Claude!Load, ClaudeFacts!Load, Claude!Answer, ClaudeFacts!Answer, Claude!Failing,
         ClaudeFacts!Failing, Claude!Opening, ClaudeFacts!Opening, Claude!cliVars,
         ClaudeFacts!cliVars
<1>7. Claude!BeginLost(j) <=> ClaudeFacts!BeginLost(j)
  BY DEF Claude!BeginLost, ClaudeFacts!BeginLost, Claude!Answer, ClaudeFacts!Answer, Claude!cliVars,
         ClaudeFacts!cliVars, Claude!sessVars, ClaudeFacts!sessVars
<1>8. Claude!Begin(j) <=> ClaudeFacts!Begin(j)
  BY DEF Claude!Begin, ClaudeFacts!Begin, Claude!Begins, ClaudeFacts!Begins
<1> QED
  BY <1>1, <1>2, <1>3, <1>4, <1>5, <1>6, <1>7, <1>8
     DEF Claude!RunEnters, ClaudeFacts!RunEnters, Claude!RunGoesOn, ClaudeFacts!RunGoesOn

LEMMA ClaudeSessions ==
  ASSUME NEW s \in ClaudeFacts!Sessions
  PROVE  /\ Claude!PumpReads(s) <=> ClaudeFacts!PumpReads(s)
         /\ Claude!Emits(s, "event") <=> ClaudeFacts!Emits(s, "event")
         /\ Claude!Emits(s, "result") <=> ClaudeFacts!Emits(s, "result")
<1>1. Claude!PumpDiscards(s) <=> ClaudeFacts!PumpDiscards(s)
  BY DEF Claude!PumpDiscards, ClaudeFacts!PumpDiscards, Claude!ArmIdle, ClaudeFacts!ArmIdle,
         Claude!Reads, ClaudeFacts!Reads, Claude!turnVars, ClaudeFacts!turnVars
<1>2. Claude!PumpEvent(s) <=> ClaudeFacts!PumpEvent(s)
  BY DEF Claude!PumpEvent, ClaudeFacts!PumpEvent, Claude!Bill, ClaudeFacts!Bill, Claude!Reads,
         ClaudeFacts!Reads, Claude!sessVars, ClaudeFacts!sessVars, Claude!turnVars,
         ClaudeFacts!turnVars
<1>3. Claude!PumpResult(s) <=> ClaudeFacts!PumpResult(s)
  BY DEF Claude!PumpResult, ClaudeFacts!PumpResult, Claude!Answer, ClaudeFacts!Answer,
         Claude!ArmIdle, ClaudeFacts!ArmIdle, Claude!Bill, ClaudeFacts!Bill, Claude!Reads,
         ClaudeFacts!Reads
<1>4. Claude!Emits(s, "event") <=> ClaudeFacts!Emits(s, "event")
  BY DEF Claude!Emits, ClaudeFacts!Emits, Claude!Works, ClaudeFacts!Works, Claude!sessVars,
         ClaudeFacts!sessVars, Claude!turnVars, ClaudeFacts!turnVars
<1>5. Claude!Emits(s, "result") <=> ClaudeFacts!Emits(s, "result")
  BY DEF Claude!Emits, ClaudeFacts!Emits, Claude!Works, ClaudeFacts!Works, Claude!sessVars,
         ClaudeFacts!sessVars, Claude!turnVars, ClaudeFacts!turnVars
<1> QED
  BY <1>1, <1>2, <1>3, <1>4, <1>5 DEF Claude!PumpReads, ClaudeFacts!PumpReads

LEMMA ClaudeIsClaude == RuntimesSpec => ClaudeFacts!Spec
<1>1. Claude!Init => ClaudeFacts!Init
  BY DEF Claude!Init, ClaudeFacts!Init, Claude!Sessions, ClaudeFacts!Sessions
<1>2. Claude!Next <=> ClaudeFacts!Next
  <2>1. \A j \in Turns : Claude!Call(j) <=> ClaudeFacts!Call(j)
    BY DEF Claude!Call, ClaudeFacts!Call, Claude!cliVars, ClaudeFacts!cliVars, Claude!sessVars,
           ClaudeFacts!sessVars
  <2>2. \A j \in Turns : Claude!CancelUnheard(j) <=> ClaudeFacts!CancelUnheard(j)
    BY DEF Claude!CancelUnheard, ClaudeFacts!CancelUnheard, Claude!Settled, ClaudeFacts!Settled,
           Claude!cliVars, ClaudeFacts!cliVars, Claude!sessVars, ClaudeFacts!sessVars
  <2>3. \A j \in Turns : Claude!CancelRunning(j) <=> ClaudeFacts!CancelRunning(j)
    BY DEF Claude!CancelRunning, ClaudeFacts!CancelRunning, Claude!Answer, ClaudeFacts!Answer,
           Claude!ArmIdle, ClaudeFacts!ArmIdle, Claude!EndEarly, ClaudeFacts!EndEarly, Claude!Settled,
           ClaudeFacts!Settled, Claude!cliVars, ClaudeFacts!cliVars
  <2>4. \A j \in Turns : Claude!TimesOut(j) <=> ClaudeFacts!TimesOut(j)
    BY DEF Claude!TimesOut, ClaudeFacts!TimesOut, Claude!Answer, ClaudeFacts!Answer, Claude!ArmIdle,
           ClaudeFacts!ArmIdle, Claude!EndEarly, ClaudeFacts!EndEarly, Claude!Settled,
           ClaudeFacts!Settled, Claude!cliVars, ClaudeFacts!cliVars
  <2>5. \A s \in ClaudeFacts!Sessions : Claude!PumpEnds(s) <=> ClaudeFacts!PumpEnds(s)
    BY DEF Claude!PumpEnds, ClaudeFacts!PumpEnds, Claude!Answer, ClaudeFacts!Answer,
           Claude!StreamRead, ClaudeFacts!StreamRead, Claude!cliVars, ClaudeFacts!cliVars
  <2>6. \A s \in ClaudeFacts!Sessions : Claude!DrainExpires(s) <=> ClaudeFacts!DrainExpires(s)
    BY DEF Claude!DrainExpires, ClaudeFacts!DrainExpires, Claude!CloseSession,
           ClaudeFacts!CloseSession, Claude!EndStream, ClaudeFacts!EndStream, Claude!Settled,
           ClaudeFacts!Settled, Claude!cliVars, ClaudeFacts!cliVars, Claude!turnVars,
           ClaudeFacts!turnVars
  <2>7. \A s \in ClaudeFacts!Sessions : Claude!IdleCloses(s) <=> ClaudeFacts!IdleCloses(s)
    BY DEF Claude!IdleCloses, ClaudeFacts!IdleCloses, Claude!CloseSession, ClaudeFacts!CloseSession,
           Claude!EndStream, ClaudeFacts!EndStream, Claude!Settled, ClaudeFacts!Settled,
           Claude!cliVars, ClaudeFacts!cliVars, Claude!turnVars, ClaudeFacts!turnVars
  <2>8. \A s \in ClaudeFacts!Sessions : Claude!ToolCall(s) <=> ClaudeFacts!ToolCall(s)
    BY DEF Claude!ToolCall, ClaudeFacts!ToolCall, Claude!Bill, ClaudeFacts!Bill, Claude!Works,
           ClaudeFacts!Works, Claude!cliVars, ClaudeFacts!cliVars, Claude!sessVars,
           ClaudeFacts!sessVars, Claude!turnVars, ClaudeFacts!turnVars
  <2>9. \A s \in ClaudeFacts!Sessions : Claude!Dies(s) <=> ClaudeFacts!Dies(s)
    BY DEF Claude!Dies, ClaudeFacts!Dies, Claude!EndStream, ClaudeFacts!EndStream, Claude!cliVars,
           ClaudeFacts!cliVars, Claude!turnVars, ClaudeFacts!turnVars
  <2> QED
    BY <2>1, <2>2, <2>3, <2>4, <2>5, <2>6, <2>7, <2>8, <2>9, ClaudeTurns, ClaudeSessions
       DEF Claude!Next, ClaudeFacts!Next, Claude!Sessions, ClaudeFacts!Sessions
<1>3. Claude!vars = ClaudeFacts!vars
  BY DEF Claude!vars, ClaudeFacts!vars
<1>4. [Claude!Next]_(Claude!vars) => [ClaudeFacts!Next]_(ClaudeFacts!vars)
  BY <1>2, <1>3 DEF Claude!vars, ClaudeFacts!vars
<1> QED
  BY <1>1, <1>4, RuntimesRunClaude, PTL DEF Claude!Spec, ClaudeFacts!Spec

(* Nothing of a Claude turn reaches another, no session is forgotten, and  *)
(* idle timers end unused sessions only, for any turns and sessions        *)
(* (connectionExecutors.mjs:324-352, 364-372, 448-459, 520-547).           *)
THEOREM ClaudeSessionsAreSafe ==
  RuntimesSpec => [](NoCrossTalk /\ NoOrphanSession /\ IdleTimerRight)
<1>1. ClaudeFacts!PoolAssumption
  BY RuntimesAssumption DEF Claude!PoolAssumption, ClaudeFacts!PoolAssumption
<1>2. ClaudeFacts!Spec => [](ClaudeFacts!NoCrossTalk /\ ClaudeFacts!NoOrphanSession /\ ClaudeFacts!IdleTimerRight)
  BY <1>1, ClaudeFacts!TurnsDoNotMix, ClaudeFacts!SessionsAreOwned, ClaudeFacts!IdleTimersAreRight, PTL
<1>3. /\ ClaudeFacts!NoCrossTalk => NoCrossTalk
      /\ ClaudeFacts!NoOrphanSession => NoOrphanSession
      /\ ClaudeFacts!IdleTimerRight => IdleTimerRight
  BY DEF NoCrossTalk, NoOrphanSession, IdleTimerRight, Claude!NoCrossTalk, ClaudeFacts!NoCrossTalk,
         Claude!NoOrphanSession, ClaudeFacts!NoOrphanSession, Claude!IdleTimerRight,
         ClaudeFacts!IdleTimerRight, Claude!Held, ClaudeFacts!Held
<1> QED
  BY <1>2, <1>3, ClaudeIsClaude, PTL

(* What is proved of the slots, in the names they have here.               *)
SlotFacts == INSTANCE AcpPoolProofs WITH
  Lanes <- Conversations, Size <- MaxConcurrency, MaxClaims <- MaxTurns,
  byLane <- slotOf, busy <- taken, lastUsed <- usedLast, seq <- claims, held <- runsOn

LEMMA SlotsMayBeUsed == SlotFacts!SlotsAssumption /\ SlotFacts!AcpAssumption
<1>1. MaxConcurrency \in Nat \ {0} /\ MaxConcurrency \in 1..MaxConcurrency
  BY SlotsAssumption
<1>2. MaxTurns \in Nat /\ IsFiniteSet(Conversations)
  BY RuntimesAssumption
<1>3. SlotFacts!IsFiniteSet(Conversations)
  BY <1>2 DEF IsFiniteSet, SlotFacts!IsFiniteSet
<1>4. SlotFacts!SlotsAssumption
  BY <1>1, <1>2, <1>3 DEF SlotFacts!SlotsAssumption
<1> QED
  BY <1>4, AcpAssumption DEF SlotFacts!AcpAssumption

LEMMA SlotsCount == \A S : Spread!Cardinality(S) = SlotFacts!Cardinality(S)
  BY DEF Spread!Cardinality, SlotFacts!Cardinality, Spread!IsFiniteSet, SlotFacts!IsFiniteSet

LEMMA SlotsAreSlots == RuntimesSpec => SlotFacts!Spec
<1>1. Spread!Init => SlotFacts!Init
  BY DEF Spread!Init, SlotFacts!Init, Spread!NoSlot, SlotFacts!NoSlot, Spread!Slots, SlotFacts!Slots
<1>2. Spread!Next <=> SlotFacts!Next
  <2>1. \A l \in Conversations : Spread!Claim(l) <=> SlotFacts!Claim(l)
    <3> SUFFICES ASSUME NEW l \in Conversations
                 PROVE  Spread!Claim(l) <=> SlotFacts!Claim(l)
      OBVIOUS
    <3>1. Spread!ClaimSticky(l) <=> SlotFacts!ClaimSticky(l)
      BY DEF Spread!ClaimSticky, SlotFacts!ClaimSticky, Spread!Gives, SlotFacts!Gives,
             Spread!NoSlot, SlotFacts!NoSlot, Spread!StickyFree, SlotFacts!StickyFree
    <3>2. Spread!ClaimUnbound(l) <=> SlotFacts!ClaimUnbound(l)
      BY DEF Spread!ClaimUnbound, SlotFacts!ClaimUnbound, Spread!Bound, SlotFacts!Bound,
             Spread!Gives, SlotFacts!Gives, Spread!NoSlot, SlotFacts!NoSlot, Spread!Slots,
             SlotFacts!Slots, Spread!StickyFree, SlotFacts!StickyFree, Spread!Unbound,
             SlotFacts!Unbound
    <3>3. Spread!ClaimVictim(l) <=> SlotFacts!ClaimVictim(l)
      BY DEF Spread!ClaimVictim, SlotFacts!ClaimVictim, Spread!Better, SlotFacts!Better,
             Spread!Bound, SlotFacts!Bound, Spread!Gives, SlotFacts!Gives, Spread!NoSlot,
             SlotFacts!NoSlot, Spread!Slots, SlotFacts!Slots, Spread!StickyFree,
             SlotFacts!StickyFree, Spread!Unbound, SlotFacts!Unbound, Spread!Victim,
             SlotFacts!Victim
    <3> QED
      BY <3>1, <3>2, <3>3, SlotsCount DEF Spread!Claim, SlotFacts!Claim, Spread!Running, SlotFacts!Running,
                              Spread!NoSlot, SlotFacts!NoSlot
  <2>2. \A l \in Conversations : Spread!Release(l) <=> SlotFacts!Release(l)
    BY DEF Spread!Release, SlotFacts!Release, Spread!NoSlot, SlotFacts!NoSlot
  <2> QED
    BY <2>1, <2>2 DEF Spread!Next, SlotFacts!Next
<1>3. Spread!vars = SlotFacts!vars
  BY DEF Spread!vars, SlotFacts!vars
<1>4. [Spread!Next]_(Spread!vars) => [SlotFacts!Next]_(SlotFacts!vars)
  BY <1>2 DEF Spread!vars, SlotFacts!vars
<1> QED
  BY <1>1, <1>4, RuntimesTakeSlots, PTL DEF Spread!Spec, SlotFacts!Spec

(* With a slot per turn, which is opt-in, no two running turns have one    *)
(* session; a conversation returns to the session it has                   *)
(* (sessionSlots.mjs:5-11, 48-50).                                         *)
THEOREM SlotsKeepTurnsApart == RuntimesSpec => []SpreadTurns /\ SpreadReturns
<1>1. SlotFacts!OwnSession => SpreadTurns
  BY DEF SpreadTurns, Spread!OwnSession, SlotFacts!OwnSession, Spread!Running, SlotFacts!Running,
         Spread!NoSlot, SlotFacts!NoSlot
<1>2. SlotFacts!ReturnsToItsSession => SpreadReturns
  BY PTL DEF SpreadReturns, Spread!ReturnsToItsSession, SlotFacts!ReturnsToItsSession,
         Spread!NoSlot, SlotFacts!NoSlot, Spread!vars, SlotFacts!vars
<1>3. RuntimesSpec => []SpreadTurns
  BY <1>1, SlotsMayBeUsed, SlotsAreSlots, SlotFacts!TurnsHaveTheirOwn, PTL
<1>4. RuntimesSpec => SpreadReturns
  BY <1>2, SlotsMayBeUsed, SlotsAreSlots, SlotFacts!TurnsReturn, PTL
<1> QED
  BY <1>3, <1>4

-----------------------------------------------------------------------------
(* For any number of slots, turns in flight have a harness opened for them *)
(* and answers of their own, no process, machine, session or timer is      *)
(* forgotten, and what is said is said once (acp/executor.mjs:276-456,     *)
(* connectionExecutors.mjs:324-690, 799-1000, agensis.mjs:1882-1997).      *)
THEOREM RuntimesAreSafe ==
  RuntimesSpec => /\ [](SpreadTurns /\ OwnHarness /\ NoCrossTalk /\ CodexNoCrossTalk /\ SaidOnce)
                  /\ [](NoOrphanChild /\ NoOrphanSession /\ NoStrayHarness)
                  /\ [](IdleTimerOwned /\ IdleTimerRight)
  BY RuntimesRunAcp, RuntimesRunCodex, SlotsKeepTurnsApart, ClaudeSessionsAreSafe,
     TurnsHaveTheirHarness, CodexAnswersDoNotMix, NothingSaidTwice,
     NoChildIsLeftBehind, NoHarnessStrays, TimersAreOwned, PTL

(* A conversation returns to the session it has, and a turn's harness ends *)
(* under it only by its own exit or with another turn that prompts it      *)
(* (sessionSlots.mjs:73-117, acp/executor.mjs:300-399).                    *)
THEOREM RuntimesKeepSessions ==
  RuntimesSpec => SpreadReturns /\ ReturnsToItsSession /\ TurnKeepsItsHarness
  BY RuntimesRunAcp, SlotsKeepTurnsApart, AcpTurnsReturn, HarnessesAreKept, PTL
=============================================================================
