-------------------------- MODULE ClaudePoolProofs --------------------------
(***************************************************************************)
(* What holds of the Claude session pool for any number of turns and       *)
(* sessions, whatever a runtime does and whenever timers fire.             *)
(***************************************************************************)
EXTENDS ClaudePool, TLAPS

(* A turn past the lock.                                                   *)
Inside(j) == phase[j] \in {"loading", "bound", "running"}

Typed ==
  /\ PoolAssumption
  /\ phase \in [Jobs -> {"idle", "queued", "loading", "bound", "running", "done"}]
  /\ sess \in [Jobs -> Sessions \cup {0}]
  /\ opened \in 0..MaxSessions /\ pool \in 0..opened
  /\ closed \subseteq 1..opened
  /\ stream \in [Sessions -> {"live", "over", "read"}]
  /\ active \in [Sessions -> Jobs \cup {NoJob}]
  /\ draining \subseteq Sessions /\ armed \subseteq Sessions
  /\ prompts \in [Sessions -> Seq(Jobs)]
  /\ out \in [Sessions -> Seq(Messages)]

OneInside == \A i, j \in Jobs : (Inside(i) /\ Inside(j)) => i = j

(* Nothing of a session is on its way ...                                  *)
Quiet(s) == prompts[s] = << >> /\ out[s] = << >>

(* ... or what is belongs to turn j and ends with its one result: the      *)
(* runtime has prompts ps to do and messages ms are unread.                *)
Owed(ps, ms, j) ==
  /\ ps \in {<< >>, <<j>>}
  /\ ps = << >> => ms # << >>
  /\ \A i \in 1..Len(ms) :
       /\ ms[i].job = j
       /\ ms[i].type = "result" <=> (ps = << >> /\ i = Len(ms))

Unopened ==
  \A s \in Sessions : s > opened => stream[s] = "live" /\ active[s] = NoJob /\ Quiet(s)

(* Only the pooled session drains or has a timer.                          *)
PoolOwns ==
  /\ draining \subseteq {pool} /\ armed \subseteq {pool}
  /\ pool # 0 => pool \notin closed /\ stream[pool] # "read"

InUse ==
  \A j \in Jobs :
    /\ phase[j] = "loading" => pool = 0
    /\ phase[j] = "bound" => /\ sess[j] \in Sessions
                             /\ IF pool = 0 THEN sess[j] \in closed
                                ELSE sess[j] = pool /\ pool \notin draining
    /\ phase[j] = "running" => pool # 0 /\ sess[j] = pool /\ active[pool] = j /\ pool \notin armed

Actives ==
  \A s \in Sessions :
    active[s] # NoJob => s = pool /\ phase[active[s]] = "running" /\ s \notin draining

(* What a session still has to say is its turn's, or is drained.           *)
Work ==
  \A s \in Sessions :
    /\ active[s] # NoJob => Owed(prompts[s], out[s], active[s])
    /\ s \in draining => \E p \in Jobs : Owed(prompts[s], out[s], p)
    /\ (s = pool /\ active[s] = NoJob /\ s \notin draining) => Quiet(s)

Timed == (pool # 0 /\ ~ Held) => pool \in armed

PoolInv ==
  /\ Typed /\ OneInside /\ Unopened /\ PoolOwns /\ InUse /\ Actives /\ Work /\ Timed
  /\ NoOrphanSession /\ NoCrossTalk

LEMMA PooledIsSession == ASSUME Typed, pool # 0 PROVE pool \in Sessions
  BY DEF Typed, Sessions, PoolAssumption

LEMMA NobodyIsNoJob == ASSUME PoolInv PROVE NoJob \notin Jobs
  BY DEF PoolInv, Typed, PoolAssumption

LEMMA NoneInside == ASSUME ~ Held, NEW j \in Jobs PROVE ~ Inside(j)
  BY DEF Held, Inside

(* While nobody runs no session has a turn.                                *)
LEMMA NoneActive ==
  ASSUME Typed, Actives, \A j \in Jobs : phase[j] # "running", NEW s \in Sessions
  PROVE  active[s] = NoJob
  BY DEF Typed, Actives

LEMMA PoolInit == PoolAssumption /\ Init => PoolInv
<1> SUFFICES ASSUME PoolAssumption, Init
             PROVE  PoolInv
  OBVIOUS
<1>1. Typed
  BY DEF Init, Typed, PoolAssumption
<1>2. OneInside /\ Unopened /\ PoolOwns
  BY DEF Init, OneInside, Inside, Unopened, Quiet, PoolOwns
<1>3. InUse /\ Actives /\ Work /\ Timed
  BY DEF Init, InUse, Actives, Work, Timed, Quiet, Sessions
<1>4. NoOrphanSession /\ NoCrossTalk
  BY DEF Init, NoOrphanSession, NoCrossTalk
<1> QED
  BY <1>1, <1>2, <1>3, <1>4 DEF PoolInv

-----------------------------------------------------------------------------
(* A step of a turn outside the lock, which stays outside.                 *)
LEMMA OutsideKeepsInv ==
  ASSUME PoolInv, UNCHANGED <<sess, sessVars, cliVars, billed>>, NEW j \in Jobs, ~ Inside(j),
         NEW to \in {"idle", "queued", "done"}, phase' = [phase EXCEPT ![j] = to]
  PROVE  PoolInv'
<1> USE DEF sessVars, cliVars
<1>1. /\ \A i \in Jobs : Inside(i)' = Inside(i)
      /\ \A i \in Jobs : Inside(i) => phase'[i] = phase[i]
  BY DEF PoolInv, Typed, Inside
<1>2. Held' = Held
  BY <1>1 DEF Held, Inside
<1>3. Typed' /\ OneInside' /\ Unopened' /\ PoolOwns'
  BY <1>1 DEF PoolInv, Typed, OneInside, Unopened, PoolOwns, Quiet
<1>4. InUse'
  BY <1>1 DEF PoolInv, InUse, Inside
<1>5. Actives'
  BY <1>1 DEF PoolInv, Typed, Actives, Inside
<1>6. Work' /\ Timed'
  BY <1>2 DEF PoolInv, Work, Timed, Quiet, Owed
<1>7. NoOrphanSession' /\ NoCrossTalk'
  BY DEF PoolInv, NoOrphanSession, NoCrossTalk
<1> QED
  BY <1>3, <1>4, <1>5, <1>6, <1>7 DEF PoolInv

(* A turn takes the lock: it waits for the SDK, or has the pooled session. *)
LEMMA TakingKeepsInv ==
  ASSUME PoolInv, UNCHANGED <<sessVars, cliVars, billed>>, ~ Held, NEW j \in Jobs,
         NEW to \in {"loading", "bound"}, phase' = [phase EXCEPT ![j] = to],
         \/ to = "loading" /\ sess' = sess /\ pool = 0
         \/ to = "bound" /\ sess' = [sess EXCEPT ![j] = pool] /\ Reusable(pool)
  PROVE  PoolInv'
<1> USE DEF sessVars, cliVars
<1>1. \A i \in Jobs : ~ Inside(i)
  BY NoneInside
<1>2. phase'[j] = to /\ \A i \in Jobs \ {j} : phase'[i] = phase[i]
  BY DEF PoolInv, Typed
<1>3. Held'
  BY <1>2 DEF Held
<1>4. pool # 0 => pool \in Sessions
  BY PooledIsSession DEF PoolInv
<1>5. Typed'
  BY <1>4 DEF PoolInv, Typed
<1>6. OneInside' /\ Unopened' /\ PoolOwns'
  BY <1>1, <1>2 DEF PoolInv, OneInside, Inside, Unopened, PoolOwns, Quiet
<1>7. InUse'
  BY <1>1, <1>2, <1>4 DEF PoolInv, Typed, InUse, Inside, Reusable
<1>8. \A s \in Sessions : active[s] = NoJob
  BY <1>1, NoneActive DEF PoolInv, Inside
<1>9. Actives' /\ Work' /\ Timed'
  BY <1>3, <1>8 DEF PoolInv, Actives, Work, Timed, Quiet, Owed
<1>10. NoOrphanSession' /\ NoCrossTalk'
  BY DEF PoolInv, NoOrphanSession, NoCrossTalk
<1> QED
  BY <1>5, <1>6, <1>7, <1>9, <1>10 DEF PoolInv

(* The pooled session, if there is one, is closed, and the next is opened  *)
(* or not.                                                                 *)
Emptied ==
  /\ closed' = IF pool = 0 THEN closed ELSE closed \cup {pool}
  /\ stream' \in [Sessions -> {"live", "over", "read"}]
  /\ \A s \in Sessions : s # pool => stream'[s] = stream[s]
  /\ draining' = {} /\ armed' = {}
  /\ UNCHANGED <<active, prompts, out, billed>>

LEMMA EmptyingEffect ==
  ASSUME PoolInv
  PROVE  /\ (CloseSession(pool) /\ pool # 0 /\ UNCHANGED <<active, prompts, out, billed>>) => Emptied
         /\ (pool = 0 /\ UNCHANGED <<closed, stream, draining, armed, active, prompts, out, billed>>) => Emptied
<1>1. ASSUME CloseSession(pool), pool # 0, UNCHANGED <<active, prompts, out, billed>>
      PROVE  Emptied
  BY <1>1, PooledIsSession DEF PoolInv, Typed, PoolOwns, CloseSession, EndStream, Emptied
<1>2. ASSUME pool = 0, UNCHANGED <<closed, stream, draining, armed, active, prompts, out, billed>>
      PROVE  Emptied
  BY <1>2 DEF PoolInv, Typed, PoolOwns, Emptied, Sessions
<1> QED
  BY <1>1, <1>2

(* What holds of the sessions once the pool is empty and nobody runs.      *)
LEMMA EmptiedKeeps ==
  ASSUME PoolInv, Emptied, \A j \in Jobs : phase[j] # "running", NEW n \in {opened, opened + 1}, opened' = n,
         n \in 0..MaxSessions
  PROVE  /\ closed' \subseteq 1..n /\ Unopened' /\ Actives' /\ NoCrossTalk'
         /\ \A s \in 1..opened : s \in closed'
         /\ \A s \in Sessions : active'[s] = NoJob
<1>1. \A s \in Sessions : active'[s] = NoJob
  BY NoneActive DEF PoolInv, Emptied
<1>2. Actives' /\ NoCrossTalk'
  BY <1>1 DEF PoolInv, Actives, NoCrossTalk, Emptied
<1>3. closed' \subseteq 1..n /\ \A s \in 1..opened : s \in closed'
  BY DEF PoolInv, Typed, NoOrphanSession, Emptied, PoolOwns
<1>4. Unopened'
  <2> SUFFICES ASSUME NEW s \in Sessions, s > n
               PROVE  stream'[s] = "live" /\ active'[s] = NoJob /\ Quiet(s)'
    BY DEF Unopened
  <2>1. s > opened /\ s # pool
    BY DEF PoolInv, Typed, Sessions
  <2>2. stream[s] = "live" /\ Quiet(s)
    BY <2>1 DEF PoolInv, Unopened
  <2> QED
    BY <1>1, <2>1, <2>2 DEF Emptied, Quiet
<1> QED
  BY <1>1, <1>2, <1>3, <1>4

LEMMA OpeningKeepsInv ==
  ASSUME PoolInv, NEW j \in Jobs, \A i \in Jobs \ {j} : ~ Inside(i), phase[j] # "running",
         Emptied, Opening(j), pool' = opened + 1
  PROVE  PoolInv'
<1>1. /\ opened' = opened + 1 /\ opened' \in 0..MaxSessions /\ pool' \in Sessions
      /\ phase' = [phase EXCEPT ![j] = "bound"] /\ sess' = [sess EXCEPT ![j] = pool']
  BY DEF Opening, PoolInv, Typed, Sessions, PoolAssumption
<1>2. \A i \in Jobs : phase[i] # "running"
  BY DEF Inside
<1>3. /\ closed' \subseteq 1..opened' /\ Unopened' /\ Actives' /\ NoCrossTalk'
      /\ \A s \in 1..opened : s \in closed'
      /\ \A s \in Sessions : active'[s] = NoJob
  BY <1>1, <1>2, EmptiedKeeps
<1>4. phase'[j] = "bound" /\ sess'[j] = pool' /\ \A i \in Jobs \ {j} : ~ Inside(i)'
  BY <1>1 DEF PoolInv, Typed, Inside
<1>5. Typed'
  BY <1>1, <1>3 DEF PoolInv, Typed, Emptied
<1>6. pool' # 0 /\ pool' > opened /\ pool' # pool
  BY <1>1 DEF PoolInv, Typed
<1>7. /\ pool' \notin closed' /\ stream'[pool'] = "live"
      /\ prompts'[pool'] = << >> /\ out'[pool'] = << >>
  BY <1>1, <1>6 DEF PoolInv, Typed, Unopened, Emptied, Quiet
<1>8. OneInside' /\ PoolOwns'
  BY <1>4, <1>7 DEF OneInside, PoolOwns, Emptied
<1>9. InUse'
  BY <1>1, <1>4, <1>6 DEF InUse, Inside, Emptied
<1>10. Work' /\ Timed'
  <2>1. Held'
    BY <1>4 DEF Held
  <2>2. Work'
    BY <1>3, <1>7 DEF Work, Quiet, Emptied
  <2> QED
    BY <2>1, <2>2 DEF Timed
<1>11. NoOrphanSession'
  BY <1>1, <1>3 DEF NoOrphanSession, PoolInv, Typed
<1> QED
  BY <1>3, <1>5, <1>8, <1>9, <1>10, <1>11 DEF PoolInv

LEMMA FailingKeepsInv ==
  ASSUME PoolInv, NEW j \in Jobs, \A i \in Jobs \ {j} : ~ Inside(i), phase[j] # "running",
         Emptied, Failing(j), pool' = 0
  PROVE  PoolInv'
<1>1. opened' = opened /\ phase' = [phase EXCEPT ![j] = "done"] /\ sess' = sess /\ opened \in 0..MaxSessions
  BY DEF Failing, Answer, PoolInv, Typed
<1>2. \A i \in Jobs : phase[i] # "running"
  BY DEF Inside
<1>3. /\ closed' \subseteq 1..opened' /\ Unopened' /\ Actives' /\ NoCrossTalk'
      /\ \A s \in 1..opened : s \in closed'
      /\ \A s \in Sessions : active'[s] = NoJob
  BY <1>1, <1>2, EmptiedKeeps
<1>4. \A i \in Jobs : ~ Inside(i)'
  BY <1>1 DEF PoolInv, Typed, Inside
<1>5. Typed'
  BY <1>1, <1>3 DEF PoolInv, Typed, Emptied
<1>6. OneInside' /\ PoolOwns' /\ InUse'
  BY <1>4 DEF OneInside, PoolOwns, InUse, Inside, Emptied
<1>7. Work' /\ Timed'
  BY <1>3 DEF Work, Timed, Emptied, Sessions
<1>8. NoOrphanSession'
  BY <1>1, <1>3 DEF NoOrphanSession
<1> QED
  BY <1>3, <1>5, <1>6, <1>7, <1>8 DEF PoolInv

-----------------------------------------------------------------------------
(* The pooled session is closed while nobody is past the lock.             *)
LEMMA ClosingKeepsInv ==
  ASSUME PoolInv, \A j \in Jobs : ~ Inside(j), Emptied, pool' = 0, UNCHANGED <<phase, sess, opened>>
  PROVE  PoolInv'
<1>1. opened \in 0..MaxSessions
  BY DEF PoolInv, Typed
<1>2. /\ closed' \subseteq 1..opened' /\ Unopened' /\ Actives' /\ NoCrossTalk'
      /\ \A s \in 1..opened : s \in closed'
      /\ \A s \in Sessions : active'[s] = NoJob
  BY <1>1, EmptiedKeeps DEF Inside
<1>3. \A i \in Jobs : ~ Inside(i)'
  BY DEF Inside
<1>4. Typed'
  BY <1>1, <1>2 DEF PoolInv, Typed, Emptied
<1>5. OneInside' /\ PoolOwns' /\ InUse'
  BY <1>3 DEF OneInside, PoolOwns, InUse, Inside, Emptied
<1>6. Work' /\ Timed'
  BY <1>2 DEF Work, Timed, Emptied, Sessions
<1>7. NoOrphanSession'
  BY <1>2 DEF NoOrphanSession
<1> QED
  BY <1>2, <1>4, <1>5, <1>6, <1>7 DEF PoolInv

(* A timer finds the session idle or draining, never in use.               *)
LEMMA TimersKeepInv ==
  ASSUME PoolInv, NEW s \in Sessions, DrainExpires(s) \/ IdleCloses(s)
  PROVE  PoolInv'
<1>1. s = pool /\ pool # 0
  BY DEF PoolInv, PoolOwns, DrainExpires, IdleCloses, Sessions
<1>2. /\ CloseSession(pool) /\ pool' = 0 /\ Settled
      /\ UNCHANGED <<active, prompts, out, billed>> /\ UNCHANGED <<phase, sess, opened>>
  BY <1>1 DEF DrainExpires, IdleCloses, turnVars, cliVars
<1>3. Emptied
  BY <1>1, <1>2, EmptyingEffect
<1>4. ASSUME NEW j \in Jobs
      PROVE  ~ Inside(j)
  <2>1. phase[j] # "loading" /\ phase[j] # "bound"
    BY <1>1, <1>2 DEF PoolInv, InUse, Settled
  <2>2. CASE s \in draining
    <3>1. active[pool] = NoJob
      BY <1>1, <2>2 DEF PoolInv, Actives
    <3>2. phase[j] # "running"
      BY <3>1, NobodyIsNoJob DEF PoolInv, InUse
    <3> QED
      BY <2>1, <3>2 DEF Inside
  <2>3. CASE s \in armed
    BY <1>1, <2>1, <2>3 DEF PoolInv, InUse, Inside
  <2> QED
    BY <2>2, <2>3 DEF DrainExpires, IdleCloses
<1> QED
  BY <1>2, <1>3, <1>4, ClosingKeepsInv

LEMMA BeginLostKeepsInv ==
  ASSUME PoolInv, NEW j \in Jobs, BeginLost(j)
  PROVE  PoolInv'
<1>1. /\ phase[j] = "bound" /\ phase' = [phase EXCEPT ![j] = "done"] /\ sess[j] \in closed
      /\ UNCHANGED <<sess, loaded, pool, opened, closed, stream, active, draining, armed, prompts, out, billed>>
  BY DEF BeginLost, Answer, sessVars, cliVars
<1>2. pool = 0
  BY <1>1 DEF PoolInv, InUse, PoolOwns
<1>3. \A i \in Jobs : ~ Inside(i)' /\ phase[i] # "running"
  BY <1>1 DEF PoolInv, Typed, OneInside, Inside
<1>4. Typed' /\ Unopened' /\ PoolOwns' /\ NoOrphanSession' /\ NoCrossTalk'
  BY <1>1 DEF PoolInv, Typed, Unopened, Quiet, PoolOwns, NoOrphanSession, NoCrossTalk
<1>5. OneInside' /\ InUse'
  BY <1>3 DEF OneInside, InUse, Inside
<1>6. \A s \in Sessions : active[s] = NoJob
  BY <1>3, NoneActive DEF PoolInv
<1>7. Actives' /\ Work' /\ Timed'
  BY <1>1, <1>2, <1>6 DEF PoolInv, Actives, Work, Quiet, Owed, Timed
<1> QED
  BY <1>4, <1>5, <1>7 DEF PoolInv

LEMMA BeginKeepsInv ==
  ASSUME PoolInv, NEW j \in Jobs, Begin(j)
  PROVE  PoolInv'
<1>1. pool # 0 /\ sess[j] = pool /\ pool \in Sessions /\ pool \notin draining
  BY PooledIsSession DEF Begin, Begins, PoolInv, InUse
<1>2. /\ phase[j] = "bound" /\ phase' = [phase EXCEPT ![j] = "running"]
      /\ active' = [active EXCEPT ![pool] = j] /\ prompts' = [prompts EXCEPT ![pool] = Append(@, j)]
      /\ UNCHANGED <<sess, pool, opened, closed, stream, draining, out, billed>>
      /\ armed' = armed \ {pool}
  BY <1>1 DEF Begin, Begins
<1>3. \A i \in Jobs \ {j} : ~ Inside(i) /\ phase'[i] = phase[i]
  BY <1>2 DEF PoolInv, Typed, OneInside, Inside
<1>4. \A s \in Sessions : active[s] = NoJob
  BY <1>2, <1>3, NoneActive DEF PoolInv, Inside
<1>5. Quiet(pool)
  BY <1>1, <1>4 DEF PoolInv, Work
<1>6. Typed'
  BY <1>1, <1>2 DEF PoolInv, Typed
<1>7. phase'[j] = "running" /\ active'[pool] = j /\ prompts'[pool] = <<j>> /\ out'[pool] = << >>
  BY <1>1, <1>2, <1>5 DEF PoolInv, Typed, Quiet
<1>8. \A s \in Sessions \ {pool} : active'[s] = NoJob /\ prompts'[s] = prompts[s]
  BY <1>2, <1>4 DEF PoolInv, Typed
<1>9. OneInside' /\ PoolOwns' /\ InUse'
  BY <1>1, <1>2, <1>3, <1>7 DEF PoolInv, OneInside, PoolOwns, InUse, Inside
<1>10. Unopened'
  BY <1>2, <1>8 DEF PoolInv, Typed, Unopened, Quiet
<1>11. Actives'
  BY <1>1, <1>2, <1>7, <1>8 DEF Actives
<1>12. Owed(<<j>>, << >>, j)
  BY DEF Owed
<1>13. Work'
  <2> SUFFICES ASSUME NEW s \in Sessions
               PROVE  /\ active'[s] # NoJob => Owed(prompts'[s], out'[s], active'[s])
                      /\ s \in draining' => \E p \in Jobs : Owed(prompts'[s], out'[s], p)
                      /\ (s = pool' /\ active'[s] = NoJob /\ s \notin draining') => Quiet(s)'
    BY DEF Work
  <2>1. CASE s = pool
    BY <1>1, <1>2, <1>7, <1>12, <2>1, NobodyIsNoJob
  <2>2. CASE s # pool
    BY <1>2, <1>8, <2>2 DEF PoolInv, PoolOwns
  <2> QED
    BY <2>1, <2>2
<1>14. Timed'
  BY <1>7 DEF Timed, Held
<1>15. NoOrphanSession' /\ NoCrossTalk'
  BY <1>2 DEF PoolInv, NoOrphanSession, NoCrossTalk
<1> QED
  BY <1>6, <1>9, <1>10, <1>11, <1>13, <1>14, <1>15 DEF PoolInv

-----------------------------------------------------------------------------
LEMMA NothingIsEmpty ==
  ASSUME NEW S, NEW q \in Seq(S)
  PROVE  Len(q) \in Nat /\ (q = << >> <=> Len(q) = 0)
  OBVIOUS

(* Reading the oldest message of a turn: more is owed until its result.    *)
LEMMA ReadOwed ==
  ASSUME NEW ps, NEW ms \in Seq(Messages), NEW p \in Jobs, Owed(ps, ms, p), ms # << >>
  PROVE  /\ Head(ms).job = p
         /\ Head(ms).type = "result" => ps = << >> /\ Tail(ms) = << >>
         /\ Head(ms).type # "result" => Owed(ps, Tail(ms), p)
<1>1. /\ Len(ms) \in Nat \ {0} /\ Head(ms) = ms[1]
      /\ Tail(ms) \in Seq(Messages) /\ Len(Tail(ms)) = Len(ms) - 1
      /\ \A i \in 1..Len(Tail(ms)) : Tail(ms)[i] = ms[i + 1]
  OBVIOUS
<1>2. 1 \in 1..Len(ms) /\ (Tail(ms) = << >> <=> Len(ms) = 1)
  BY <1>1, NothingIsEmpty
<1>3. /\ ms[1].job = p
      /\ ms[1].type = "result" <=> (ps = << >> /\ 1 = Len(ms))
  BY <1>2 DEF Owed
<1>4. ASSUME ms[1].type # "result"
      PROVE  Owed(ps, Tail(ms), p)
  <2>1. ps = << >> => Tail(ms) # << >>
    BY <1>2, <1>3, <1>4
  <2>2. ASSUME NEW i \in 1..Len(Tail(ms))
        PROVE  /\ Tail(ms)[i].job = p
               /\ Tail(ms)[i].type = "result" <=> (ps = << >> /\ i = Len(Tail(ms)))
    <3>1. i + 1 \in 1..Len(ms) /\ (i + 1 = Len(ms) <=> i = Len(Tail(ms)))
      BY <1>1
    <3> QED
      BY <1>1, <3>1 DEF Owed
  <2> QED
    BY <2>1, <2>2 DEF Owed
<1> QED
  BY <1>1, <1>2, <1>3, <1>4

(* Saying one message more: an event, or the result and nothing after it.  *)
LEMMA EmitOwed ==
  ASSUME NEW ps, NEW ms \in Seq(Messages), NEW p \in Jobs, Owed(ps, ms, p), ps # << >>,
         NEW t \in {"event", "result"}
  PROVE  /\ ps = <<p>>
         /\ Owed(IF t = "result" THEN << >> ELSE ps, Append(ms, [type |-> t, job |-> p]), p)
<1> DEFINE m == [type |-> t, job |-> p]
           new == Append(ms, m)
           rest == IF t = "result" THEN << >> ELSE ps
<1>1. ps = <<p>>
  BY DEF Owed
<1>2. m \in Messages /\ m.type = t /\ m.job = p
  BY DEF Messages
<1>3. /\ Len(ms) \in Nat /\ Len(new) = Len(ms) + 1
      /\ new[Len(new)] = m
      /\ \A i \in 1..Len(ms) : new[i] = ms[i]
  BY <1>2
<1> HIDE DEF m, new
<1>4. \A i \in 1..Len(ms) : ms[i].job = p /\ ms[i].type # "result"
  BY DEF Owed
<1>5. rest \in {<< >>, <<p>>} /\ (rest = << >> <=> t = "result")
  BY <1>1
<1> HIDE DEF rest
<1>6. ASSUME NEW i \in 1..Len(new)
      PROVE  new[i].job = p /\ (new[i].type = "result" <=> (rest = << >> /\ i = Len(new)))
  <2>1. CASE i = Len(new)
    BY <1>2, <1>3, <1>5, <2>1
  <2>2. CASE i # Len(new)
    <3>1. i \in 1..Len(ms)
      BY <1>3, <2>2
    <3> QED
      BY <1>3, <1>4, <2>2, <3>1
  <2> QED
    BY <2>1, <2>2
<1>7. new # << >>
  BY <1>3
<1>8. Owed(rest, new, p)
  BY <1>5, <1>6, <1>7 DEF Owed
<1> QED
  BY <1>1, <1>8 DEF rest, new, m

(* The turn that runs, and the session it runs on.                         *)
LEMMA Runner ==
  ASSUME PoolInv, NEW j \in Jobs, phase[j] = "running"
  PROVE  /\ pool \in Sessions /\ sess[j] = pool /\ pool \notin closed
         /\ active[pool] = j /\ pool \notin draining /\ Owed(prompts[pool], out[pool], j)
         /\ \A i \in Jobs \ {j} : ~ Inside(i)
         /\ \A s \in Sessions \ {pool} : active[s] = NoJob
<1>1. pool # 0 /\ sess[j] = pool /\ active[pool] = j
  BY DEF PoolInv, InUse
<1>2. pool \in Sessions
  BY <1>1, PooledIsSession DEF PoolInv
<1>3. active[pool] # NoJob
  BY <1>1, NobodyIsNoJob
<1>4. pool \notin draining /\ pool \notin closed /\ Owed(prompts[pool], out[pool], j)
  BY <1>1, <1>2, <1>3 DEF PoolInv, Actives, PoolOwns, Work
<1>5. \A i \in Jobs \ {j} : ~ Inside(i)
  BY DEF PoolInv, OneInside, Inside
<1>6. \A s \in Sessions \ {pool} : active[s] = NoJob
  BY DEF PoolInv, Actives
<1> QED
  BY <1>1, <1>2, <1>4, <1>5, <1>6

(* The turn ends while its session stays pooled: it drains what is owed,   *)
(* or nothing is.                                                          *)
LEMMA EndingKeepsInv ==
  ASSUME PoolInv, NEW j \in Jobs, phase[j] = "running",
         phase' = [phase EXCEPT ![j] = "done"],
         active' = [active EXCEPT ![pool] = NoJob], armed' = armed \cup {pool},
         UNCHANGED <<sess, pool, opened, closed, stream, prompts>>,
         \A b \in billed' \ billed : b[1] = b[2],
         \/ draining' = draining \cup {pool} /\ out' = out
         \/ /\ draining' = draining
            /\ prompts[pool] = << >> /\ out' = [out EXCEPT ![pool] = << >>]
  PROVE  PoolInv'
<1>1. /\ pool \in Sessions /\ sess[j] = pool /\ pool \notin closed
      /\ active[pool] = j /\ pool \notin draining /\ Owed(prompts[pool], out[pool], j)
      /\ \A i \in Jobs \ {j} : ~ Inside(i)
      /\ \A s \in Sessions \ {pool} : active[s] = NoJob
  BY Runner
<1>2. \A i \in Jobs : ~ Inside(i)'
  BY <1>1 DEF PoolInv, Typed, Inside
<1>3. \A s \in Sessions : active'[s] = NoJob
  BY <1>1 DEF PoolInv, Typed
<1>4. Typed'
  <2>1. Typed
    BY DEF PoolInv
  <2>2. draining' \subseteq Sessions /\ armed' \subseteq Sessions
    BY <1>1, <2>1 DEF Typed
  <2>3. out' \in [Sessions -> Seq(Messages)]
    <3>1. << >> \in Seq(Messages)
      OBVIOUS
    <3> QED
      BY <2>1, <3>1 DEF Typed
  <2>4. /\ phase' \in [Jobs -> {"idle", "queued", "loading", "bound", "running", "done"}]
        /\ active' \in [Sessions -> Jobs \cup {NoJob}]
    BY <2>1 DEF Typed
  <2> QED
    BY <2>1, <2>2, <2>3, <2>4 DEF Typed
<1>5. OneInside' /\ InUse' /\ Actives'
  BY <1>2, <1>3 DEF OneInside, InUse, Actives, Inside
<1>6. PoolOwns' /\ NoOrphanSession' /\ NoCrossTalk'
  BY DEF PoolInv, PoolOwns, NoOrphanSession, NoCrossTalk
<1>7. Unopened'
  BY <1>3 DEF PoolInv, Typed, Unopened, Quiet
<1>8. Work'
  <2> SUFFICES ASSUME NEW s \in Sessions
               PROVE  /\ s \in draining' => \E p \in Jobs : Owed(prompts'[s], out'[s], p)
                      /\ (s = pool' /\ s \notin draining') => Quiet(s)'
    BY <1>3 DEF Work
  <2>1. CASE s = pool
    BY <1>1, <2>1 DEF PoolInv, Typed, Quiet
  <2>2. CASE s # pool
    BY <2>2 DEF PoolInv, PoolOwns
  <2> QED
    BY <2>1, <2>2
<1>9. Timed'
  BY <1>1 DEF Timed
<1> QED
  BY <1>4, <1>5, <1>6, <1>7, <1>8, <1>9 DEF PoolInv

LEMMA EndEarlyKeepsInv ==
  ASSUME PoolInv, NEW j \in Jobs, NEW o, EndEarly(j, o)
  PROVE  PoolInv'
<1>1. phase[j] = "running"
  BY DEF EndEarly
<1>2. sess[j] = pool /\ pool \notin closed
  BY <1>1, Runner
<1> QED
  BY <1>1, <1>2, EndingKeepsInv DEF EndEarly, Answer, ArmIdle, cliVars

-----------------------------------------------------------------------------
(* A session and its runtime talk: what is owed stays owed, or the drain   *)
(* of the pooled session is over.                                          *)
LEMMA TalkKeepsInv ==
  ASSUME PoolInv, NEW s \in Sessions, ~ Quiet(s),
         UNCHANGED <<phase, sess, pool, opened, closed, stream, active>>,
         prompts' \in [Sessions -> Seq(Jobs)], out' \in [Sessions -> Seq(Messages)],
         \A x \in Sessions \ {s} : prompts'[x] = prompts[x] /\ out'[x] = out[x],
         \A b \in billed' \ billed : b[1] = b[2],
         \/ /\ UNCHANGED <<draining, armed>>
            /\ s = pool => \A p \in Jobs : Owed(prompts[s], out[s], p) => Owed(prompts'[s], out'[s], p)
         \/ /\ s = pool /\ active[s] = NoJob /\ s \in draining
            /\ draining' = draining \ {s} /\ armed' = armed \cup {s}
            /\ prompts'[s] = << >> /\ out'[s] = << >>
  PROVE  PoolInv'
<1>1. s <= opened
  BY DEF PoolInv, Typed, Unopened, Sessions
<1>2. \A x \in Sessions : x > opened => x # s
  BY <1>1 DEF PoolInv, Typed, Sessions
<1>3. Unopened'
  BY <1>2 DEF PoolInv, Unopened, Quiet
<1>4. Typed'
  BY DEF PoolInv, Typed
<1>5. OneInside' /\ PoolOwns' /\ Timed' /\ NoOrphanSession' /\ NoCrossTalk'
  BY DEF PoolInv, OneInside, Inside, PoolOwns, Timed, Held, NoOrphanSession, NoCrossTalk
<1>6. InUse' /\ Actives'
  BY NobodyIsNoJob DEF PoolInv, InUse, Actives
<1>7. Work'
  <2> SUFFICES ASSUME NEW x \in Sessions
               PROVE  /\ active[x] # NoJob => Owed(prompts'[x], out'[x], active[x])
                      /\ x \in draining' => \E p \in Jobs : Owed(prompts'[x], out'[x], p)
                      /\ (x = pool /\ active[x] = NoJob /\ x \notin draining') => Quiet(x)'
    BY DEF Work
  <2>1. CASE x # s
    <3>1. x \in draining' <=> x \in draining
      BY <2>1
    <3> QED
      BY <2>1, <3>1 DEF PoolInv, Work, Quiet
  <2>2. CASE x = s /\ s # pool
    BY <2>2 DEF PoolInv, PoolOwns, Actives
  <2>3. CASE x = s /\ s = pool
    <3>1. active[s] # NoJob => active[s] \in Jobs
      BY DEF PoolInv, Typed
    <3> QED
      BY <2>3, <3>1 DEF PoolInv, Work, Quiet
  <2> QED
    BY <2>1, <2>2, <2>3
<1> QED
  BY <1>3, <1>4, <1>5, <1>6, <1>7 DEF PoolInv

(* What a step of the pump that reads a message does.                      *)
LEMMA Reading ==
  ASSUME PoolInv, NEW s \in Sessions, NEW t, Reads(s, t)
  PROVE  /\ out[s] \in Seq(Messages) /\ out[s] # << >> /\ ~ Quiet(s) /\ Head(out[s]).type = t
         /\ out' = [out EXCEPT ![s] = Tail(out[s])] /\ out' \in [Sessions -> Seq(Messages)]
         /\ out'[s] = Tail(out[s]) /\ \A x \in Sessions \ {s} : out'[x] = out[x]
<1>1. out \in [Sessions -> Seq(Messages)] /\ out[s] \in Seq(Messages)
  BY DEF PoolInv, Typed
<1>2. out[s] # << >> /\ Head(out[s]).type = t /\ out' = [out EXCEPT ![s] = Tail(out[s])]
  BY DEF Reads
<1>3. Tail(out[s]) \in Seq(Messages)
  BY <1>1, <1>2
<1> QED
  BY <1>1, <1>2, <1>3 DEF Quiet

LEMMA PumpDiscardsKeepsInv ==
  ASSUME PoolInv, NEW s \in Sessions, PumpDiscards(s)
  PROVE  PoolInv'
<1>1. /\ active[s] = NoJob
      /\ UNCHANGED <<phase, sess, pool, opened, closed, stream, active, prompts, billed>>
  BY DEF PumpDiscards, turnVars
<1>2. PICK t \in {"event", "result"} :
         /\ Reads(s, t)
         /\ IF t = "result" /\ s \in draining
            THEN draining' = draining \ {s} /\ ArmIdle(s)
            ELSE UNCHANGED <<draining, armed>>
  BY DEF PumpDiscards
<1>3. /\ out[s] \in Seq(Messages) /\ out[s] # << >> /\ ~ Quiet(s) /\ Head(out[s]).type = t
      /\ out' = [out EXCEPT ![s] = Tail(out[s])] /\ out' \in [Sessions -> Seq(Messages)]
      /\ out'[s] = Tail(out[s]) /\ \A x \in Sessions \ {s} : out'[x] = out[x]
  BY <1>2, Reading
<1>4. prompts' \in [Sessions -> Seq(Jobs)]
  BY <1>1 DEF PoolInv, Typed
<1>5. CASE s \in draining
  <2>1. s = pool
    BY <1>5 DEF PoolInv, PoolOwns
  <2>2. PICK p \in Jobs : Owed(prompts[s], out[s], p)
    BY <1>5 DEF PoolInv, Work
  <2>3. CASE t = "result"
    <3>1. prompts[s] = << >> /\ Tail(out[s]) = << >>
      BY <1>3, <2>2, <2>3, ReadOwed
    <3> QED
      BY <1>1, <1>2, <1>3, <1>4, <1>5, <2>1, <2>3, <3>1, TalkKeepsInv DEF ArmIdle
  <2>4. CASE t = "event"
    <3>1. \A q \in Jobs : Owed(prompts[s], out[s], q) => Owed(prompts[s], Tail(out[s]), q)
      BY <1>3, <2>4, ReadOwed
    <3> QED
      BY <1>1, <1>2, <1>3, <1>4, <2>4, <3>1, TalkKeepsInv
  <2> QED
    BY <2>3, <2>4
<1>6. CASE s \notin draining
  <2>1. s # pool
    BY <1>1, <1>3, <1>6 DEF PoolInv, Work
  <2> QED
    BY <1>1, <1>2, <1>3, <1>4, <1>6, <2>1, TalkKeepsInv
<1> QED
  BY <1>5, <1>6

LEMMA PumpEventKeepsInv ==
  ASSUME PoolInv, NEW s \in Sessions, PumpEvent(s)
  PROVE  PoolInv'
<1>1. /\ active[s] \in Jobs /\ Owed(prompts[s], out[s], active[s])
      /\ billed' = billed \cup {<<Head(out[s]).job, active[s]>>}
      /\ UNCHANGED <<phase, sess, pool, opened, closed, stream, active, draining, armed, prompts>>
  BY DEF PumpEvent, Bill, turnVars, sessVars, PoolInv, Typed, Work
<1>2. /\ out[s] \in Seq(Messages) /\ out[s] # << >> /\ ~ Quiet(s) /\ Head(out[s]).type = "event"
      /\ out' \in [Sessions -> Seq(Messages)]
      /\ out'[s] = Tail(out[s]) /\ \A x \in Sessions \ {s} : out'[x] = out[x]
  BY Reading DEF PumpEvent
<1>3. Head(out[s]).job = active[s]
  <2>1. out[s] \in Seq(Messages) /\ out[s] # << >>
    BY <1>2
  <2>2. active[s] \in Jobs /\ Owed(prompts[s], out[s], active[s])
    BY <1>1
  <2> QED
    BY ONLY <2>1, <2>2, ReadOwed
<1>4. \A p \in Jobs : Owed(prompts[s], out[s], p) => Owed(prompts[s], Tail(out[s]), p)
  BY <1>2, ReadOwed
<1>5. prompts' \in [Sessions -> Seq(Jobs)]
  BY <1>1 DEF PoolInv, Typed
<1>6. \A b \in billed' \ billed : b[1] = b[2]
  BY <1>1, <1>3
<1> QED
  BY <1>1, <1>2, <1>4, <1>5, <1>6, TalkKeepsInv

LEMMA PumpResultKeepsInv ==
  ASSUME PoolInv, NEW s \in Sessions, PumpResult(s)
  PROVE  PoolInv'
<1>1. PICK j \in Jobs : active[s] = j
  BY DEF PumpResult, PoolInv, Typed
<1>2. s = pool /\ phase[j] = "running" /\ Owed(prompts[s], out[s], j)
  <2>1. active[s] # NoJob
    BY DEF PumpResult
  <2> QED
    BY <1>1, <2>1 DEF PoolInv, Actives, Work
<1>3. /\ phase' = [phase EXCEPT ![j] = "done"] /\ active' = [active EXCEPT ![s] = NoJob]
      /\ armed' = armed \cup {s} /\ billed' = billed \cup {<<Head(out[s]).job, j>>}
      /\ UNCHANGED <<sess, pool, opened, closed, stream, draining, prompts>>
  BY <1>1, <1>2 DEF PumpResult, Answer, ArmIdle, Bill
<1>4. /\ out[s] \in Seq(Messages) /\ out[s] # << >> /\ Head(out[s]).type = "result"
      /\ out' = [out EXCEPT ![s] = Tail(out[s])]
  BY Reading DEF PumpResult
<1>5. Head(out[s]).job = j /\ prompts[s] = << >> /\ Tail(out[s]) = << >>
  <2>1. out[s] \in Seq(Messages) /\ out[s] # << >> /\ Head(out[s]).type = "result"
    BY <1>4
  <2>2. Owed(prompts[s], out[s], j)
    BY <1>2
  <2> QED
    BY ONLY <2>1, <2>2, j \in Jobs, ReadOwed
<1>6. \A b \in billed' \ billed : b[1] = b[2]
  BY <1>3, <1>5
<1> QED
  BY <1>2, <1>3, <1>4, <1>5, <1>6, EndingKeepsInv

(* The stream of a session ends: of the pooled one, with its turn ...      *)
LEMMA PumpEndsPooled ==
  ASSUME PoolInv, pool # 0, PumpEnds(pool)
  PROVE  PoolInv'
<1>1. /\ pool \in Sessions /\ stream[pool] = "over" /\ stream' = [stream EXCEPT ![pool] = "read"]
      /\ closed' = closed \cup {pool} /\ armed' = {} /\ draining' = {} /\ pool' = 0
      /\ UNCHANGED <<sess, opened, prompts, out, billed>>
      /\ active' = [active EXCEPT ![pool] = NoJob]
  BY PooledIsSession DEF PumpEnds, StreamRead, PoolInv, PoolOwns, cliVars
<1>2. /\ \A i \in Jobs : phase'[i] \notin {"loading", "running"}
      /\ \A i \in Jobs : Inside(i)' => Inside(i) /\ phase'[i] = phase[i]
      /\ phase' \in [Jobs -> {"idle", "queued", "loading", "bound", "running", "done"}]
  <2>1. CASE active[pool] = NoJob
    <3>1. phase' = phase
      BY <2>1 DEF PumpEnds
    <3>2. \A i \in Jobs : phase[i] # "loading" /\ phase[i] # "running"
      BY <2>1, NobodyIsNoJob DEF PoolInv, InUse
    <3> QED
      BY <3>1, <3>2 DEF Inside, PoolInv, Typed
  <2>2. CASE active[pool] # NoJob
    <3>1. PICK j \in Jobs : active[pool] = j
      BY <1>1, <2>2 DEF PoolInv, Typed
    <3>2. phase[j] = "running" /\ phase' = [phase EXCEPT ![j] = "done"]
      BY <1>1, <2>2, <3>1 DEF PumpEnds, Answer, PoolInv, Actives
    <3>3. \A i \in Jobs \ {j} : ~ Inside(i) /\ phase'[i] = phase[i]
      BY <3>2, Runner DEF PoolInv, Typed
    <3>4. phase'[j] = "done"
      BY <3>2 DEF PoolInv, Typed
    <3> QED
      BY <3>2, <3>3, <3>4 DEF Inside, PoolInv, Typed
  <2> QED
    BY <2>1, <2>2
<1>3. \A s \in Sessions : active'[s] = NoJob
  BY <1>1 DEF PoolInv, Typed, Actives
<1>4. pool <= opened /\ opened \in 0..MaxSessions
  BY DEF PoolInv, Typed
<1>5. Typed'
  BY <1>1, <1>2, <1>4 DEF PoolInv, Typed
<1>6. OneInside' /\ PoolOwns' /\ Actives' /\ Timed' /\ NoCrossTalk'
  BY <1>1, <1>2, <1>3 DEF PoolInv, OneInside, PoolOwns, Actives, Timed, NoCrossTalk
<1>7. InUse'
  BY <1>1, <1>2 DEF PoolInv, InUse, Inside
<1>8. Work'
  BY <1>1, <1>3 DEF Work, Sessions
<1>9. Unopened'
  <2>1. \A s \in Sessions : s > opened => s # pool
    BY <1>1, <1>4 DEF Sessions
  <2> QED
    BY <1>1, <1>3, <2>1 DEF PoolInv, Unopened, Quiet
<1>10. NoOrphanSession'
  BY <1>1 DEF PoolInv, NoOrphanSession
<1> QED
  BY <1>5, <1>6, <1>7, <1>8, <1>9, <1>10 DEF PoolInv

(* ... or of one that was closed before.                                   *)
LEMMA PumpEndsClosed ==
  ASSUME PoolInv, NEW s \in Sessions, s # pool, PumpEnds(s)
  PROVE  PoolInv'
<1>1. active[s] = NoJob /\ s \notin armed /\ s \notin draining
  BY DEF PoolInv, Actives, PoolOwns
<1>2. /\ stream[s] = "over" /\ stream' = [stream EXCEPT ![s] = "read"] /\ closed' = closed \cup {s}
      /\ UNCHANGED <<phase, sess, pool, opened, active, draining, armed, prompts, out, billed>>
  BY <1>1 DEF PumpEnds, StreamRead, PoolInv, Typed, cliVars
<1>3. s \in 1..opened
  BY <1>2 DEF PoolInv, Typed, Unopened, Sessions
<1>4. Typed' /\ PoolOwns'
  BY <1>2, <1>3 DEF PoolInv, Typed, PoolOwns
<1>5. OneInside' /\ Actives' /\ Work' /\ Timed' /\ NoCrossTalk'
  BY <1>2 DEF PoolInv, OneInside, Inside, Actives, Work, Quiet, Timed, Held, NoCrossTalk
<1>6. InUse' /\ NoOrphanSession'
  BY <1>2 DEF PoolInv, InUse, NoOrphanSession
<1>7. Unopened'
  BY <1>2, <1>3 DEF PoolInv, Typed, Unopened, Quiet
<1> QED
  BY <1>4, <1>5, <1>6, <1>7 DEF PoolInv

-----------------------------------------------------------------------------
LEMMA EmitsKeepsInv ==
  ASSUME PoolInv, NEW s \in Sessions, NEW t \in {"event", "result"}, Emits(s, t)
  PROVE  PoolInv'
<1> DEFINE m == [type |-> t, job |-> Head(prompts[s])]
<1>1. prompts[s] \in Seq(Jobs) /\ prompts[s] # << >> /\ out[s] \in Seq(Messages)
  BY DEF Emits, Works, PoolInv, Typed
<1>2. Head(prompts[s]) \in Jobs /\ Tail(prompts[s]) \in Seq(Jobs)
  BY <1>1
<1>3. m \in Messages
  BY <1>2 DEF Messages
<1>4. out' = [out EXCEPT ![s] = Append(out[s], m)] /\ Append(out[s], m) \in Seq(Messages)
  BY <1>1, <1>3 DEF Emits
<1>5. prompts' = IF t = "result" THEN [prompts EXCEPT ![s] = Tail(prompts[s])] ELSE prompts
  BY DEF Emits
<1>6. UNCHANGED <<phase, sess, pool, opened, closed, stream, active, draining, armed, billed>>
  BY DEF Emits, turnVars, sessVars
<1>7. /\ out' \in [Sessions -> Seq(Messages)] /\ prompts' \in [Sessions -> Seq(Jobs)]
      /\ out'[s] = Append(out[s], m)
      /\ prompts'[s] = IF t = "result" THEN Tail(prompts[s]) ELSE prompts[s]
      /\ \A x \in Sessions \ {s} : prompts'[x] = prompts[x] /\ out'[x] = out[x]
  BY <1>2, <1>4, <1>5 DEF PoolInv, Typed
<1>8. ASSUME NEW p \in Jobs, Owed(prompts[s], out[s], p)
      PROVE  Owed(prompts'[s], out'[s], p)
  <2>1. prompts[s] = <<p>>
    BY <1>1, <1>8, EmitOwed
  <2>2. Head(prompts[s]) = p /\ Tail(prompts[s]) = << >>
    BY <2>1
  <2>3. Owed(IF t = "result" THEN << >> ELSE prompts[s], Append(out[s], [type |-> t, job |-> p]), p)
    BY <1>1, <1>8, EmitOwed
  <2> QED
    BY <1>7, <2>2, <2>3
<1>9. ~ Quiet(s)
  BY <1>1 DEF Quiet
<1> HIDE DEF m
<1> QED
  BY <1>6, <1>7, <1>8, <1>9, TalkKeepsInv

LEMMA ToolCallKeepsInv ==
  ASSUME PoolInv, NEW s \in Sessions, ToolCall(s)
  PROVE  PoolInv'
<1>1. /\ prompts[s] # << >> /\ active[s] \in Jobs /\ Owed(prompts[s], out[s], active[s])
      /\ billed' = billed \cup {<<Head(prompts[s]), active[s]>>}
      /\ UNCHANGED <<phase, sess, pool, opened, closed, stream, active, draining, armed, prompts, out>>
  BY DEF ToolCall, Works, Bill, turnVars, sessVars, cliVars, PoolInv, Typed, Work
<1>2. prompts[s] = <<active[s]>>
  BY <1>1 DEF Owed
<1>3. \A b \in billed' \ billed : b[1] = b[2]
  BY <1>1, <1>2
<1>4. prompts' \in [Sessions -> Seq(Jobs)] /\ out' \in [Sessions -> Seq(Messages)] /\ ~ Quiet(s)
  BY <1>1 DEF PoolInv, Typed, Quiet
<1> QED
  BY <1>1, <1>3, <1>4, TalkKeepsInv

LEMMA DiesKeepsInv ==
  ASSUME PoolInv, NEW s \in Sessions, Dies(s)
  PROVE  PoolInv'
<1>1. /\ s \in 1..opened /\ stream' = [stream EXCEPT ![s] = "over"]
      /\ UNCHANGED <<phase, sess, pool, opened, closed, active, draining, armed, prompts, out, billed>>
  BY DEF Dies, EndStream, turnVars, cliVars
<1>2. Typed' /\ PoolOwns'
  BY <1>1 DEF PoolInv, Typed, PoolOwns
<1>3. Unopened'
  BY <1>1 DEF PoolInv, Typed, Unopened, Quiet
<1>4. OneInside' /\ InUse' /\ Actives' /\ Work' /\ Timed' /\ NoOrphanSession' /\ NoCrossTalk'
  BY <1>1 DEF PoolInv, OneInside, Inside, InUse, Actives, Work, Quiet, Timed, Held,
              NoOrphanSession, NoCrossTalk
<1> QED
  BY <1>2, <1>3, <1>4 DEF PoolInv

-----------------------------------------------------------------------------
(* A call that has the lock: it is over, has its session or waits for one. *)
LEMMA RunEntersKeepsInv ==
  ASSUME PoolInv, NEW j \in Jobs, RunEnters(j) \/ Load(j), phase[j] # "running",
         \A i \in Jobs \ {j} : ~ Inside(i)
  PROVE  PoolInv'
<1>1. CASE EnterAborted(j)
  BY <1>1, NoneInside, OutsideKeepsInv DEF EnterAborted, Enters, Answer
<1>2. CASE EnterReusing(j)
  BY <1>2, TakingKeepsInv DEF EnterReusing, Enters
<1>3. CASE EnterLoading(j)
  BY <1>3, TakingKeepsInv DEF EnterLoading, Enters
<1>4. CASE EnterReplacing(j)
  <2>1. Emptied
    BY <1>4, EmptyingEffect DEF EnterReplacing, cliVars
  <2> QED
    BY <1>4, <2>1, OpeningKeepsInv, FailingKeepsInv DEF EnterReplacing
<1>5. CASE EnterOpening(j)
  <2>1. Emptied
    BY <1>5, EmptyingEffect DEF EnterOpening, cliVars
  <2> QED
    BY <1>5, <2>1, OpeningKeepsInv, FailingKeepsInv DEF EnterOpening
<1>6. CASE Load(j)
  <2>1. pool = 0
    BY <1>6 DEF PoolInv, InUse, Load
  <2>2. Emptied
    BY <1>6, <2>1, EmptyingEffect DEF Load, cliVars
  <2> QED
    BY <1>6, <2>2, OpeningKeepsInv, FailingKeepsInv DEF Load
<1> QED
  BY <1>1, <1>2, <1>3, <1>4, <1>5, <1>6 DEF RunEnters

LEMMA PoolStep == PoolInv /\ [Next]_vars => PoolInv'
<1> SUFFICES ASSUME PoolInv, [Next]_vars
             PROVE  PoolInv'
  OBVIOUS
<1>1. ASSUME NEW j \in Jobs, Call(j) \/ CancelUnheard(j)
      PROVE  PoolInv'
  <2>1. CASE Call(j)
    BY <2>1, OutsideKeepsInv DEF Call, Inside
  <2>2. CASE CancelUnheard(j)
    BY <2>2 DEF CancelUnheard, sessVars, cliVars, PoolInv, Typed, OneInside, Inside, Unopened, Quiet,
                PoolOwns, InUse, Actives, Work, Timed, Held, NoOrphanSession, NoCrossTalk
  <2> QED
    BY <1>1, <2>1, <2>2
<1>2. ASSUME NEW j \in Jobs, CancelRunning(j) \/ TimesOut(j)
      PROVE  PoolInv'
  BY <1>2, EndEarlyKeepsInv DEF CancelRunning, TimesOut
<1>3. ASSUME NEW j \in Jobs, RunEnters(j)
      PROVE  PoolInv'
  <2>1. ~ Held
    BY <1>3 DEF RunEnters, EnterAborted, EnterReusing, EnterReplacing, EnterOpening, EnterLoading, Enters
  <2>2. \A i \in Jobs : ~ Inside(i)
    BY <2>1, NoneInside
  <2> QED
    BY <1>3, <2>2, RunEntersKeepsInv DEF Inside
<1>4. ASSUME NEW j \in Jobs, RunGoesOn(j)
      PROVE  PoolInv'
  <2>1. CASE Load(j)
    <3>1. phase[j] = "loading"
      BY <2>1 DEF Load
    <3>2. \A i \in Jobs \ {j} : ~ Inside(i)
      BY <3>1 DEF PoolInv, OneInside, Inside
    <3> QED
      BY <2>1, <3>1, <3>2, RunEntersKeepsInv
  <2> QED
    BY <1>4, <2>1, BeginLostKeepsInv, BeginKeepsInv DEF RunGoesOn
<1>5. ASSUME NEW s \in Sessions, PumpReads(s) \/ PumpEnds(s)
      PROVE  PoolInv'
  <2>1. CASE PumpEnds(s)
    BY <2>1, PumpEndsPooled, PumpEndsClosed DEF Sessions
  <2> QED
    BY <1>5, <2>1, PumpDiscardsKeepsInv, PumpEventKeepsInv, PumpResultKeepsInv DEF PumpReads
<1>6. ASSUME NEW s \in Sessions, DrainExpires(s) \/ IdleCloses(s)
      PROVE  PoolInv'
  BY <1>6, TimersKeepInv
<1>7. ASSUME NEW s \in Sessions, Emits(s, "event") \/ Emits(s, "result") \/ ToolCall(s) \/ Dies(s)
      PROVE  PoolInv'
  BY <1>7, EmitsKeepsInv, ToolCallKeepsInv, DiesKeepsInv
<1>8. CASE UNCHANGED vars
  BY <1>8 DEF vars, PoolInv, Typed, OneInside, Inside, Unopened, Quiet, PoolOwns, InUse, Actives,
              Work, Timed, Held, NoOrphanSession, NoCrossTalk
<1> QED
  BY <1>1, <1>2, <1>3, <1>4, <1>5, <1>6, <1>7, <1>8 DEF Next

LEMMA PoolAlways == ASSUME PoolAssumption PROVE Spec => []PoolInv
  BY PoolInit, PoolStep, PTL DEF Spec

(* Nothing one turn's prompt makes the runtime do is taken for another     *)
(* turn: the drain of an interrupted session keeps the next turn off it    *)
(* (connectionExecutors.mjs:364-372, 448-459, 660).                        *)
THEOREM TurnsDoNotMix == ASSUME PoolAssumption PROVE Spec => []NoCrossTalk
<1>1. PoolInv => NoCrossTalk
  BY DEF PoolInv
<1> QED
  BY <1>1, PoolAlways, PTL

(* A session the key forgot is closed, so its runtime ends                 *)
(* (connectionExecutors.mjs:324-330, 340-349, 467-505).                    *)
THEOREM SessionsAreOwned == ASSUME PoolAssumption PROVE Spec => []NoOrphanSession
<1>1. PoolInv => NoOrphanSession
  BY DEF PoolInv
<1> QED
  BY <1>1, PoolAlways, PTL

(* The idle timer never takes the session of a live turn, and a pooled     *)
(* session nobody uses always has one (connectionExecutors.mjs:324-330,    *)
(* 602, 682).                                                              *)
THEOREM IdleTimersAreRight == ASSUME PoolAssumption PROVE Spec => []IdleTimerRight
<1>1. PoolInv => IdleTimerRight
  BY DEF PoolInv, InUse, Timed, IdleTimerRight
<1> QED
  BY <1>1, PoolAlways, PTL
=============================================================================
