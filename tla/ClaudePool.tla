----------------------------- MODULE ClaudePool -----------------------------
(***************************************************************************)
(* The pool of long-lived Claude sessions                                  *)
(* (packages/agensis-cli/src/connectionExecutors.mjs,                      *)
(* createClaudeSdkExecutor), seen from one session key: the turns that     *)
(* share the key, the sessions opened for them one after another, the pump *)
(* that reads each session, and the timers that end turns, drains and idle *)
(* sessions.                                                               *)
(*                                                                         *)
(* Keys do not interact, so one is enough.  The Claude runtime behind a    *)
(* session is not in the repository: it takes prompts one at a time, ends  *)
(* each with one result message whether it was interrupted or not, and may *)
(* hang or die at any point.                                               *)
(***************************************************************************)
EXTENDS Naturals, FiniteSets, Sequences

CONSTANTS
  Jobs,        \* turns that use the key
  MaxSessions, \* bound: sessions opened in a behaviour
  MaxOut,      \* bound: messages of a session the pump has not read
  NoJob

Sessions == 1..MaxSessions

PoolAssumption ==
  MaxSessions \in Nat \ {0} /\ MaxOut \in Nat \ {0} /\ NoJob \notin Jobs

VARIABLES
  phase,     \* "idle", "queued" (behind the lock), "loading" (ensureSession awaits
             \* the SDK), "bound" (has its session), "running" or "done"
  line,      \* withLock: the calls of run() that wait, in order
  aborted,   \* jobs whose signal was aborted
  outcome,   \* how run() answered
  sess,      \* the session a bound or running job uses
  loaded,    \* queryFn is known
  pool,      \* the session in the Map, or 0
  opened,    \* sessions opened so far
  closed,    \* sessions with closed = TRUE
  stream,    \* of a session: "live", "over", or "read" (the pump has seen the end)
  active,    \* session.activeTurn
  draining,  \* sessions with a settleDrain
  armed,     \* sessions with an idle-close timer
  prompts,   \* what a session's runtime still has to do
  out,       \* its messages on the way to the pump
  billed     \* <<p, t>>: something prompt p did was taken for turn t

turnVars == <<phase, line, aborted, outcome, sess>>
sessVars == <<loaded, pool, opened, closed, stream, active, draining, armed>>
cliVars  == <<prompts, out>>
vars == <<phase, line, aborted, outcome, sess, loaded, pool, opened, closed, stream, active,
          draining, armed, prompts, out, billed>>

Outcomes == {"none", "answered", "cancelled", "timeout", "connection_lost"}

Messages == [type : {"event", "result"}, job : Jobs]

TypeOK ==
  /\ phase \in [Jobs -> {"idle", "queued", "loading", "bound", "running", "done"}]
  /\ line \in Seq(Jobs)
  /\ aborted \subseteq Jobs
  /\ outcome \in [Jobs -> Outcomes]
  /\ \A j \in Jobs : outcome[j] # "none" <=> phase[j] = "done"
  /\ sess \in [Jobs -> Sessions \cup {0}]
  /\ loaded \in BOOLEAN
  /\ pool \in 0..opened /\ opened \in 0..MaxSessions
  /\ closed \subseteq Sessions
  /\ stream \in [Sessions -> {"live", "over", "read"}]
  /\ active \in [Sessions -> Jobs \cup {NoJob}]
  /\ draining \subseteq Sessions /\ armed \subseteq Sessions
  /\ prompts \in [Sessions -> Seq(Jobs)]
  /\ out \in [Sessions -> Seq(Messages)]
  /\ billed \subseteq Jobs \X Jobs

Init ==
  /\ phase = [j \in Jobs |-> "idle"]
  /\ line = << >>
  /\ aborted = {}
  /\ outcome = [j \in Jobs |-> "none"]
  /\ sess = [j \in Jobs |-> 0]
  /\ loaded = FALSE
  /\ pool = 0 /\ opened = 0
  /\ closed = {}
  /\ stream = [s \in Sessions |-> "live"]
  /\ active = [s \in Sessions |-> NoJob]
  /\ draining = {} /\ armed = {}
  /\ prompts = [s \in Sessions |-> << >>]
  /\ out = [s \in Sessions |-> << >>]
  /\ billed = {}

(* withLock: one call at a time is past the lock.                          *)
Held == \E j \in Jobs : phase[j] \in {"loading", "bound", "running"}

(* Timers and frames wait while a continuation of run() is due: it runs in *)
(* the same macrotask as the event that made it so.                        *)
Settled == \A j \in Jobs : phase[j] # "bound"

(* Mutant: the lock is not given back.                                     *)
AnswerLocked(j, o) ==
  /\ outcome' = [outcome EXCEPT ![j] = o]
  /\ UNCHANGED phase

(* run() resolves and the lock is free again.                              *)
Answer(j, o) ==
  /\ phase' = [phase EXCEPT ![j] = "done"]
  /\ outcome' = [outcome EXCEPT ![j] = o]

-----------------------------------------------------------------------------
(* query.close(): the stream of s ends, if it has not.                     *)
EndStream(s) == stream' = [stream EXCEPT ![s] = IF @ = "live" THEN "over" ELSE @]

(* closeSession(key) for the session in the Map; the drain is told and the *)
(* timers are cleared, the one that fired included.                        *)
CloseSession(fired) ==
  /\ closed' = closed \cup {pool}
  /\ EndStream(pool)
  /\ draining' = draining \ {pool}
  /\ armed' = armed \ {pool, fired}

(* queryFn(): a new session under the key.                                 *)
Opening(j) ==
  /\ opened < MaxSessions
  /\ opened' = opened + 1
  /\ sess' = [sess EXCEPT ![j] = opened + 1]
  /\ phase' = [phase EXCEPT ![j] = "bound"]
  /\ UNCHANGED outcome

Failing(j) ==
  /\ Answer(j, "connection_lost")
  /\ UNCHANGED <<opened, sess>>

(* run() is called and waits for the lock.                                 *)
Call(j) ==
  /\ phase[j] = "idle"
  /\ phase' = [phase EXCEPT ![j] = "queued"]
  /\ line' = Append(line, j)
  /\ UNCHANGED <<aborted, outcome, sess, sessVars, cliVars, billed>>

(* The signal is aborted before anybody listens to it.                     *)
CancelUnheard(j) ==
  /\ phase[j] \in {"idle", "queued", "loading"} /\ j \notin aborted /\ Settled
  /\ aborted' = aborted \cup {j}
  /\ UNCHANGED <<phase, line, outcome, sess, sessVars, cliVars, billed>>

Enters(j) == line # << >> /\ j = Head(line) /\ ~ Held /\ line' = Tail(line)

(* Mutant: the call is dropped without an answer.                          *)
EnterAbortedSilently(j) ==
  /\ Enters(j) /\ j \in aborted
  /\ UNCHANGED <<phase, outcome, aborted, sess, sessVars, cliVars, billed>>

(* The lock is ours, and the signal is aborted already.                    *)
EnterAborted(j) ==
  /\ Enters(j) /\ j \in aborted
  /\ Answer(j, "cancelled")
  /\ UNCHANGED <<aborted, sess, sessVars, cliVars, billed>>

(* Mutant: a session that still drains is handed out.                      *)
ReusableDraining(s) == s # 0 /\ s \notin closed

Reusable(s) == s # 0 /\ s \notin closed /\ s \notin draining

(* ensureSession(): the pooled session, if its options fit.                *)
EnterReusing(j) ==
  /\ Enters(j) /\ j \notin aborted
  /\ Reusable(pool)
  /\ sess' = [sess EXCEPT ![j] = pool]
  /\ phase' = [phase EXCEPT ![j] = "bound"]
  /\ UNCHANGED <<aborted, outcome, sessVars, cliVars, billed>>

(* Mutant: the pooled session is only forgotten.                           *)
EnterForgetting(j) ==
  /\ Enters(j) /\ j \notin aborted
  /\ pool # 0
  /\ Opening(j) /\ pool' = opened + 1
  /\ UNCHANGED <<aborted, loaded, closed, stream, draining, armed, active, cliVars, billed>>

(* ensureSession(): the pooled session drains or has other options, and is *)
(* closed; a new one takes its place, or queryFn() throws.                 *)
EnterReplacing(j) ==
  /\ Enters(j) /\ j \notin aborted
  /\ pool # 0
  /\ CloseSession(pool)
  /\ \/ Opening(j) /\ pool' = opened + 1
     \/ Failing(j) /\ pool' = 0
  /\ UNCHANGED <<aborted, loaded, active, cliVars, billed>>

(* ensureSession(): nothing pooled.                                        *)
EnterOpening(j) ==
  /\ Enters(j) /\ j \notin aborted
  /\ pool = 0 /\ loaded
  /\ \/ Opening(j) /\ pool' = opened + 1
     \/ Failing(j) /\ pool' = 0
  /\ UNCHANGED <<aborted, loaded, closed, stream, draining, armed, active, cliVars, billed>>

(* ... and the SDK is still to be imported.                                *)
EnterLoading(j) ==
  /\ Enters(j) /\ j \notin aborted
  /\ pool = 0 /\ ~ loaded
  /\ phase' = [phase EXCEPT ![j] = "loading"]
  /\ UNCHANGED <<aborted, outcome, sess, sessVars, cliVars, billed>>

Load(j) ==
  /\ phase[j] = "loading"
  /\ \/ Opening(j) /\ pool' = opened + 1 /\ loaded' = TRUE
     \/ Failing(j) /\ pool' = 0 /\ loaded' \in BOOLEAN
  /\ UNCHANGED <<line, aborted, closed, stream, draining, armed, active, cliVars, billed>>

(* run() goes on with its session: the connection may have closed, or the  *)
(* turn begins and its prompt is pushed.  The abort listener is attached   *)
(* only here.                                                              *)
BeginLost(j) ==
  /\ phase[j] = "bound" /\ sess[j] \in closed
  /\ Answer(j, "connection_lost")
  /\ UNCHANGED <<line, aborted, sess, sessVars, cliVars, billed>>

Begins(j) ==
  /\ phase[j] = "bound" /\ sess[j] \notin closed
  /\ phase' = [phase EXCEPT ![j] = "running"]
  /\ active' = [active EXCEPT ![sess[j]] = j]
  /\ prompts' = [prompts EXCEPT ![sess[j]] = Append(@, j)]
  /\ UNCHANGED <<line, aborted, outcome, sess, loaded, pool, opened, closed, stream, draining,
                 out, billed>>

(* Mutant: the idle timer of the session keeps running.                    *)
BeginTimerOn(j) == Begins(j) /\ UNCHANGED armed

Begin(j) == Begins(j) /\ armed' = armed \ {sess[j]}

-----------------------------------------------------------------------------
(* armIdleTimer(key), once run() has its result.                           *)
ArmIdle(s) == armed' = IF pool = s THEN armed \cup {s} ELSE armed

(* turn.finish() from a timer or the abort listener, drainAfterInterrupt() *)
(* and the continuation of run().                                          *)
EndEarly(j, o) ==
  LET s == sess[j] IN
  /\ phase[j] = "running" /\ Settled
  /\ Answer(j, o)
  /\ active' = [active EXCEPT ![s] = NoJob]
  /\ draining' = IF pool = s /\ s \notin closed THEN draining \cup {s} ELSE draining
  /\ ArmIdle(s)
  /\ UNCHANGED <<line, sess, loaded, pool, opened, closed, stream, cliVars, billed>>

CancelRunning(j) ==
  /\ j \notin aborted
  /\ aborted' = aborted \cup {j}
  /\ EndEarly(j, "cancelled")

(* The idle or the hard deadline of the turn.                              *)
TimesOut(j) == EndEarly(j, "timeout") /\ UNCHANGED aborted

(* The runtime did not settle the interrupted turn in time.                *)
DrainExpires(s) ==
  /\ s \in draining /\ Settled
  /\ IF pool = s
     THEN CloseSession(s) /\ pool' = 0
     ELSE draining' = draining \ {s} /\ UNCHANGED <<pool, closed, stream, armed>>
  /\ UNCHANGED <<turnVars, loaded, opened, active, cliVars, billed>>

(* The timer of s closes whatever session the key has by then.             *)
IdleCloses(s) ==
  /\ s \in armed /\ Settled
  /\ IF pool # 0
     THEN CloseSession(s) /\ pool' = 0
     ELSE armed' = armed \ {s} /\ UNCHANGED <<pool, closed, stream, draining>>
  /\ UNCHANGED <<turnVars, loaded, opened, active, cliVars, billed>>

-----------------------------------------------------------------------------
(* The pump of session s.                                                  *)
Reads(s, t) ==
  /\ stream[s] # "read" /\ out[s] # << >> /\ Head(out[s]).type = t
  /\ out' = [out EXCEPT ![s] = Tail(@)]

(* Mutant: any message counts as the end of the drain.                     *)
PumpDiscardsAny(s) ==
  /\ active[s] = NoJob
  /\ Reads(s, Head(out[s]).type)
  /\ draining' = draining \ {s} /\ ArmIdle(s)
  /\ UNCHANGED <<turnVars, loaded, pool, opened, closed, stream, active, prompts, billed>>

(* A message of a turn that was answered already; its result is the proof  *)
(* that the runtime is idle again.                                         *)
PumpDiscards(s) ==
  /\ active[s] = NoJob
  /\ \E t \in {"event", "result"} :
       /\ Reads(s, t)
       /\ IF t = "result" /\ s \in draining
          THEN draining' = draining \ {s} /\ ArmIdle(s)
          ELSE UNCHANGED <<draining, armed>>
  /\ UNCHANGED <<turnVars, loaded, pool, opened, closed, stream, active, prompts, billed>>

Bill(s, p) == billed' = billed \cup {<<p, active[s]>>}

PumpEvent(s) ==
  /\ active[s] # NoJob
  /\ Reads(s, "event")
  /\ Bill(s, Head(out[s]).job)
  /\ UNCHANGED <<turnVars, sessVars, prompts>>

PumpResult(s) ==
  /\ active[s] # NoJob
  /\ Reads(s, "result")
  /\ Bill(s, Head(out[s]).job)
  /\ Answer(active[s], "answered")
  /\ active' = [active EXCEPT ![s] = NoJob]
  /\ ArmIdle(s)
  /\ UNCHANGED <<line, aborted, sess, loaded, pool, opened, closed, stream, draining, prompts>>

(* The stream is over: the finally of the pump.                            *)
StreamRead(s) ==
  /\ stream[s] = "over"
  /\ stream' = [stream EXCEPT ![s] = "read"]
  /\ closed' = closed \cup {s}
  /\ armed' = armed \ {s}
  /\ pool' = IF pool = s THEN 0 ELSE pool
  /\ draining' = draining \ {s}
  /\ UNCHANGED <<line, aborted, sess, loaded, opened, cliVars, billed>>

PumpEnds(s) ==
  /\ StreamRead(s)
  /\ active' = [active EXCEPT ![s] = NoJob]
  /\ IF active[s] # NoJob
     THEN Answer(active[s], "connection_lost")
     ELSE UNCHANGED <<phase, outcome>>

-----------------------------------------------------------------------------
(* The runtime of session s works on the oldest prompt it was given.       *)
Works(s) == stream[s] = "live" /\ prompts[s] # << >>

Emits(s, t) ==
  /\ Works(s) /\ Len(out[s]) < MaxOut
  /\ out' = [out EXCEPT ![s] = Append(@, [type |-> t, job |-> Head(prompts[s])])]
  /\ prompts' = IF t = "result" THEN [prompts EXCEPT ![s] = Tail(@)] ELSE prompts
  /\ UNCHANGED <<turnVars, sessVars, billed>>

(* canUseTool: the call is put to the turn that is active.                 *)
ToolCall(s) ==
  /\ Works(s) /\ active[s] # NoJob
  /\ Bill(s, Head(prompts[s]))
  /\ UNCHANGED <<turnVars, sessVars, cliVars>>

Dies(s) ==
  /\ s \in 1..opened /\ stream[s] = "live"
  /\ EndStream(s)
  /\ UNCHANGED <<turnVars, loaded, pool, opened, closed, active, draining, armed, cliVars, billed>>

-----------------------------------------------------------------------------
RunEnters(j) ==
  EnterAborted(j) \/ EnterReusing(j) \/ EnterReplacing(j) \/ EnterOpening(j) \/ EnterLoading(j)

RunGoesOn(j) == Load(j) \/ BeginLost(j) \/ Begin(j)

PumpReads(s) == PumpDiscards(s) \/ PumpEvent(s) \/ PumpResult(s)

Next ==
  \/ \E j \in Jobs :
       \/ Call(j) \/ CancelUnheard(j) \/ CancelRunning(j) \/ TimesOut(j)
       \/ RunEnters(j) \/ RunGoesOn(j)
  \/ \E s \in Sessions :
       \/ PumpReads(s) \/ PumpEnds(s) \/ DrainExpires(s) \/ IdleCloses(s)
       \/ Emits(s, "event") \/ Emits(s, "result") \/ ToolCall(s) \/ Dies(s)

Spec == Init /\ [][Next]_vars

(* The lock is handed on, continuations run, and the callers give every    *)
(* turn a deadline (agensis.mjs:1362-1366).  Nothing is asked of the       *)
(* runtime.                                                                *)
DeadlineFairness ==
  \A j \in Jobs : WF_vars(RunEnters(j) \/ RunGoesOn(j) \/ TimesOut(j))

-----------------------------------------------------------------------------
(* What one prompt makes the runtime do is never taken for the turn of     *)
(* another: no output, no result and no question to the human crosses over *)
(* (connectionExecutors.mjs:364-372, 448-459, 660).                        *)
NoCrossTalk == \A b \in billed : b[1] = b[2]

(* A session that the key forgot is closed: no runtime is left behind.     *)
NoOrphanSession == \A s \in 1..opened : s = pool \/ s \in closed

(* The idle timer never takes a session from a live turn, and never leaves *)
(* an unused one behind (connectionExecutors.mjs:324-330, 602, 682).       *)
IdleTimerRight ==
  /\ \A j \in Jobs : phase[j] = "running" => sess[j] \notin armed
  /\ (pool # 0 /\ ~ Held) => pool \in armed

(* The turn of a session and the drain of a session exclude each other,    *)
(* and what a live turn waits for is still to come on its session.         *)
TurnOwnsSession ==
  \A j \in Jobs :
    phase[j] = "running" =>
      /\ active[sess[j]] = j /\ sess[j] \notin draining
      /\ \/ prompts[sess[j]] = <<j>>
         \/ \E i \in DOMAIN out[sess[j]] : out[sess[j]][i].job = j

(* Every call of run() resolves: in the end none of them waits or runs,    *)
(* whatever the runtimes did.                                              *)
EveryRunAnswers == <>[](\A j \in Jobs : phase[j] \in {"idle", "done"})

(* "Answer the caller NOW - a human who pressed cancel should not wait on  *)
(* the runtime acknowledging it" (connectionExecutors.mjs:653-655).        *)
CancelIsHeard == \A j \in Jobs : phase[j] = "running" => j \notin aborted

=============================================================================
