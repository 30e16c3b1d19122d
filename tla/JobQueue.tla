------------------------------ MODULE JobQueue ------------------------------
(***************************************************************************)
(* The lane-aware work queue of the daemon                                 *)
(* (packages/agensis-cli/src/queue.mjs, createQueue).                      *)
(*                                                                         *)
(* A job is one delivery handed to enqueue(); two deliveries may carry the *)
(* same key.  Every exported function of the queue runs to completion on   *)
(* the event loop, so each is one action; what interleaves is the          *)
(* microtask that begins a run, the end of the run, and the callers.       *)
(*                                                                         *)
(* The two ordered containers of the code are kept as numbered sets: a     *)
(* lane's array of queued jobs is the set of its waiting jobs ordered by   *)
(* the ticket each was pushed with, and the Map of lanes is the set of     *)
(* lanes whose born number is not 0, walked in the order of that number.   *)
(***************************************************************************)
EXTENDS Naturals, FiniteSets

CONSTANTS
  Deliveries,      \* deliveries, each enqueued at most once
  Lanes,           \* conversations: sessionId::threadParentId
  Keys,            \* job ids
  NoKey,           \* a job enqueued without a key
  NoJob,           \* lane.active = null
  Waiters,         \* callers of idle()
  JobKey, JobLane, \* the key and the lane of a delivery
  MaxConcurrency   \* opts.concurrency, at least 1

ASSUME QueueAssumption ==
  /\ IsFiniteSet(Deliveries) /\ IsFiniteSet(Lanes)
  /\ NoKey \notin Keys
  /\ NoJob \notin Deliveries
  /\ JobKey \in [Deliveries -> Keys \cup {NoKey}]
  /\ JobLane \in [Deliveries -> Lanes]
  /\ MaxConcurrency \in Nat \ {0}

VARIABLES
  waiting,   \* jobs in some lane.queued
  ticket,    \* the order in which jobs were pushed, 0 for one never pushed
  born,      \* the order in which lanes entered the Map, 0 for an absent lane
  active,    \* lane.active.job, or NoJob
  aborted,   \* active jobs whose signal is aborted (lane.active.cancelled)
  began,     \* jobs whose runJob was called (kept after the run: history)
  running,   \* the in-flight counter
  clock,     \* pushes so far
  idlers,    \* idle() promises not resolved yet
  fate       \* history: what became of each delivery

queueVars == <<waiting, ticket, born, active, aborted, began, running, clock, idlers, fate>>

Fates == {"unseen", "deduped", "accepted", "ran", "skipped", "removed"}

QueueTypeOK ==
  /\ waiting \subseteq Deliveries
  /\ ticket \in [Deliveries -> Nat]
  /\ born \in [Lanes -> Nat]
  /\ active \in [Lanes -> Deliveries \cup {NoJob}]
  /\ aborted \subseteq Deliveries
  /\ began \subseteq Deliveries
  /\ running \in Nat
  /\ clock \in Nat
  /\ idlers \subseteq Waiters
  /\ fate \in [Deliveries -> Fates]

Busy(a) == {l \in Lanes : a[l] # NoJob}

InLane(w, l) == {j \in w : JobLane[j] = l}

ActiveJobs == {active[l] : l \in Busy(active)}

-----------------------------------------------------------------------------
QueueInit ==
  /\ waiting = {}
  /\ ticket = [j \in Deliveries |-> 0]
  /\ born = [l \in Lanes |-> 0]
  /\ active = [l \in Lanes |-> NoJob]
  /\ aborted = {}
  /\ began = {}
  /\ running = 0
  /\ clock = 0
  /\ idlers = {}
  /\ fate = [j \in Deliveries |-> "unseen"]

(* Mutant: only active jobs are looked at.                                 *)
HasActiveOnly(k) ==
  k # NoKey /\ \E l \in Busy(active) : active[l] \notin aborted /\ JobKey[active[l]] = k

(* has(key): a job on its way out after a cancel does not block a re-ask.  *)
Has(k) ==
  /\ k # NoKey
  /\ \/ \E l \in Busy(active) : active[l] \notin aborted /\ JobKey[active[l]] = k
     \/ \E j \in waiting : JobKey[j] = k

(* Lanes pump() may start: no active job, something queued.                *)
Ready(w, a) == {l \in Lanes : a[l] = NoJob /\ InLane(w, l) # {}}

(* Mutant: the loop does not stop at the cap.                              *)
PicksUncapped(S, w, a, b, r) == S = Ready(w, a)

(* The lanes the loop of pump() starts: eligible lanes in Map order until  *)
(* the cap is reached or none is left.                                     *)
Picks(S, w, a, b, r) ==
  /\ S \subseteq Ready(w, a)
  /\ \A l \in S, m \in Ready(w, a) : b[m] < b[l] => m \in S
  /\ r + Cardinality(S) <= MaxConcurrency
  /\ S = Ready(w, a) \/ r + Cardinality(S) = MaxConcurrency

(* Mutant: pop() for shift().                                              *)
IsTail(j, l, w, t) ==
  j \in InLane(w, l) /\ \A i \in InLane(w, l) : t[i] <= t[j]

(* lane.queued.shift() of lane l would return j.                           *)
IsHead(j, l, w, t) ==
  /\ j \in InLane(w, l)
  /\ \A i \in InLane(w, l) : t[j] <= t[i]

(* pump() run on the mid-step values w, a, b, t, r of the queue.           *)
Pump(w, a, b, t, r) ==
  \E S \in SUBSET Lanes :
    /\ Picks(S, w, a, b, r)
    /\ \E head \in [S -> w] :
         /\ \A l \in S : IsHead(head[l], l, w, t)
         /\ waiting' = w \ {head[l] : l \in S}
         /\ active' = [l \in Lanes |-> IF l \in S THEN head[l] ELSE a[l]]
         /\ running' = r + Cardinality(S)

(* maybeResolveIdle(), on the values at the end of the step.               *)
ResolveIdle ==
  idlers' = IF running' = 0 /\ waiting' = {} THEN {} ELSE idlers

Dedupe(j) ==
  /\ Has(JobKey[j])
  /\ fate' = [fate EXCEPT ![j] = "deduped"]
  /\ UNCHANGED <<waiting, ticket, born, active, aborted, began, running, clock, idlers>>

Accept(j) ==
  LET l == JobLane[j]
      t == [ticket EXCEPT ![j] = clock + 1]
      b == IF born[l] = 0 THEN [born EXCEPT ![l] = clock + 1] ELSE born
  IN /\ ~ Has(JobKey[j])
     /\ clock' = clock + 1
     /\ ticket' = t
     /\ born' = b
     /\ Pump(waiting \cup {j}, active, b, t, running)
     /\ fate' = [fate EXCEPT ![j] = "accepted"]
     /\ UNCHANGED <<aborted, began, idlers>>

(* enqueue(job)                                                            *)
Enqueue(j) == fate[j] = "unseen" /\ (Dedupe(j) \/ Accept(j))

(* Mutant: the cap is not looked at.                                       *)
StartedIfLaneFree(j) ==
  active[JobLane[j]] = NoJob /\ InLane(waiting, JobLane[j]) = {}

(* The startedImmediately field of the answer to an accepted enqueue.      *)
StartedImmediately(j) ==
  /\ active[JobLane[j]] = NoJob
  /\ InLane(waiting, JobLane[j]) = {}
  /\ running < MaxConcurrency

(* Mutant: the signal is not looked at again.                              *)
BeginThoughAborted(l) ==
  /\ active[l] # NoJob
  /\ active[l] \notin began
  /\ began' = began \cup {active[l]}
  /\ UNCHANGED <<waiting, ticket, born, active, aborted, running, clock, idlers, fate>>

(* The microtask pump() left behind: runJob is called unless the signal is *)
(* already aborted.                                                        *)
Begin(l) ==
  /\ active[l] # NoJob
  /\ active[l] \notin began
  /\ active[l] \notin aborted
  /\ began' = began \cup {active[l]}
  /\ UNCHANGED <<waiting, ticket, born, active, aborted, running, clock, idlers, fate>>

(* Mutant: the slot is given back but nothing is started in it.            *)
SettleNoPump(l) ==
  LET j == active[l]
  IN /\ j # NoJob
     /\ j \in began \cup aborted
     /\ active' = [active EXCEPT ![l] = NoJob]
     /\ running' = running - 1
     /\ born' = IF InLane(waiting, l) = {} THEN [born EXCEPT ![l] = 0] ELSE born
     /\ UNCHANGED <<waiting, ticket, began, clock>>
     /\ ResolveIdle
     /\ aborted' = aborted \ {j}
     /\ fate' = [fate EXCEPT ![j] = IF j \in began THEN "ran" ELSE "skipped"]

(* Mutant: the end of a run wakes nobody.                                  *)
SettleNoWake(l) ==
  LET j == active[l]
      a == [active EXCEPT ![l] = NoJob]
  IN /\ j # NoJob
     /\ j \in began \cup aborted
     /\ born' = IF InLane(waiting, l) = {} THEN [born EXCEPT ![l] = 0] ELSE born
     /\ Pump(waiting, a, born', ticket, running - 1)
     /\ aborted' = aborted \ {j}
     /\ fate' = [fate EXCEPT ![j] = IF j \in began THEN "ran" ELSE "skipped"]
     /\ UNCHANGED <<ticket, began, clock, idlers>>

(* The finally block of a run: the run ended, or was never begun because   *)
(* its signal was aborted first.                                           *)
Settle(l) ==
  LET j == active[l]
      a == [active EXCEPT ![l] = NoJob]
      b == IF InLane(waiting, l) = {} THEN [born EXCEPT ![l] = 0] ELSE born
  IN /\ j # NoJob
     /\ j \in began \cup aborted
     /\ born' = b
     /\ Pump(waiting, a, b, ticket, running - 1)
     /\ ResolveIdle
     /\ aborted' = aborted \ {j}
     /\ fate' = [fate EXCEPT ![j] = IF j \in began THEN "ran" ELSE "skipped"]
     /\ UNCHANGED <<ticket, began, clock>>

(* Mutant: a cancelled run frees its slot twice.                           *)
CancelFreesSlot(k) ==
  LET gone == {j \in waiting : JobKey[j] = k}
      hit  == {j \in ActiveJobs : JobKey[j] = k}
  IN /\ waiting' = waiting \ gone
     /\ aborted' = aborted \cup hit
     /\ running' = running - Cardinality(hit)
     /\ fate' = [j \in Deliveries |-> IF j \in gone THEN "removed" ELSE fate[j]]
     /\ UNCHANGED <<ticket, born, active, began, clock>>
     /\ ResolveIdle

(* cancel(key): aborts the active job of that key, drops the queued ones,  *)
(* and forgets a lane left with neither.                                   *)
Cancel(k) ==
  LET gone == {j \in waiting : JobKey[j] = k}
  IN /\ k # NoKey
     /\ waiting' = waiting \ gone
     /\ aborted' = aborted \cup {j \in ActiveJobs : JobKey[j] = k}
     /\ born' = [l \in Lanes |->
                   IF active[l] = NoJob /\ InLane(waiting \ gone, l) = {}
                   THEN 0 ELSE born[l]]
     /\ fate' = [j \in Deliveries |-> IF j \in gone THEN "removed" ELSE fate[j]]
     /\ UNCHANGED <<ticket, active, began, running, clock>>
     /\ ResolveIdle

(* cancelActive(reason, laneKey): one lane, or every lane.                 *)
CancelActive(L) ==
  /\ aborted' = aborted \cup {active[l] : l \in L \cap Busy(active)}
  /\ UNCHANGED <<waiting, ticket, born, active, began, running, clock, idlers, fate>>

(* idle(): resolved at once when there is nothing to wait for.             *)
Idle(w) ==
  /\ w \notin idlers
  /\ idlers' = IF running = 0 /\ waiting = {} THEN idlers ELSE idlers \cup {w}
  /\ UNCHANGED <<waiting, ticket, born, active, aborted, began, running, clock, fate>>

QueueNext ==
  \/ \E j \in Deliveries : Enqueue(j)
  \/ \E l \in Lanes : Begin(l) \/ Settle(l)
  \/ \E k \in Keys : Cancel(k)
  \/ \E l \in Lanes : CancelActive({l})
  \/ CancelActive(Lanes)
  \/ \E w \in Waiters : Idle(w)

QueueSpec == QueueInit /\ [][QueueNext]_queueVars

(* A microtask always runs.  That a run ends is what the deadlines of the  *)
(* executors give the queue (timeoutMs and idleTimeoutMs of the CLI, Claude*)
(* and Codex executors); for an ACP run, which has no deadline, it is an   *)
(* assumption about the agent.                                             *)
QueueFairness == \A l \in Lanes : WF_queueVars(Begin(l)) /\ WF_queueVars(Settle(l))

-----------------------------------------------------------------------------
(* The in-flight counter is a cache of the lanes' active slots: it is      *)
(* incremented by pump() and decremented by a later finally, and is never  *)
(* out of step with them, nor above the cap (queue.mjs:109-114, 124-125).  *)
RunningCounts ==
  running = Cardinality(Busy(active)) /\ running <= MaxConcurrency

(* A lane is in the Map exactly while it has something to do: cancel() and *)
(* the finally of a run both forget drained lanes, and neither forgets one *)
(* that is still needed (queue.mjs:126, 179).                              *)
LaneResident ==
  \A l \in Lanes : born[l] # 0 <=> (active[l] # NoJob \/ InLane(waiting, l) # {})

(* No slot is idle while a lane could use it: every event that makes a     *)
(* lane eligible or frees a slot ends with a pump().                       *)
WorkConserving ==
  running = MaxConcurrency \/ Ready(waiting, active) = {}

Live(j) == j \in waiting \/ (j \in ActiveJobs /\ j \notin aborted)

(* Two live deliveries never carry the same key, however enqueues, cancels *)
(* and re-asks interleave with a cancelled run that has not ended yet      *)
(* (queue.mjs:93-103, 142).                                                *)
NoDuplicateLiveKey ==
  \A i, j \in Deliveries :
    (Live(i) /\ Live(j) /\ JobKey[i] = JobKey[j] /\ JobKey[i] # NoKey) => i = j

(* A lane is served in the order of acceptance: while a job waits, no job  *)
(* accepted later in its lane has been started.                            *)
LaneFIFO ==
  \A i, j \in Deliveries :
    (i \in waiting /\ JobLane[i] = JobLane[j] /\ ticket[i] < ticket[j])
    => (j \in waiting \/ fate[j] = "removed")

(* An unresolved idle() always has something left that will wake it: the   *)
(* cancel that empties the queue and the finally that ends the last run    *)
(* both resolve it (queue.mjs:128, 181).                                   *)
NoLostWakeup == idlers # {} => (running > 0 \/ waiting # {})

(* A cancel is final: a delivery aborted before its microtask, or taken    *)
(* out of its lane, is never handed to runJob afterwards, although it may  *)
(* still hold the slot of its lane (queue.mjs:116-119, 177).               *)
CancelIsFinal ==
  [][\A j \in Deliveries \ began :
       (j \in aborted \/ fate[j] \in {"skipped", "removed"}) => j \notin began']_queueVars

(* idle() resolves only when nothing is in flight and nothing is queued in *)
(* any lane: --once and a restart rely on it to have drained everything.   *)
IdleMeansDrained ==
  [][idlers \ idlers' # {} => (running' = 0 /\ waiting' = {} /\ Busy(active') = {})]_queueVars

(* What enqueue() answered is what happened: startedImmediately is         *)
(* computed before pump() and the job is active when enqueue() returns iff *)
(* it said so (queue.mjs:147-151).                                         *)
AckTruthful ==
  [][\A j \in Deliveries :
       (fate[j] = "unseen" /\ Accept(j))
       => (StartedImmediately(j) <=> active'[JobLane[j]] = j)]_queueVars

(* Every idle() is resolved once callers stop enqueuing, which the bounded *)
(* set of deliveries makes them do.                                        *)
EveryIdlerWakes == \A w \in Waiters : w \in idlers ~> w \notin idlers

(* A delivery as LaneService has it.                                       *)
Stage(j) ==
  CASE fate[j] = "unseen"  -> "unseen"
    [] fate[j] = "deduped" -> "refused"
    [] fate[j] = "accepted" /\ j \in waiting    -> "waiting"
    [] fate[j] = "accepted" /\ j \notin waiting -> "running"
    [] OTHER -> "over"

Stages == [j \in Deliveries |-> Stage(j)]

Abs == INSTANCE LaneService WITH Jobs <- Deliveries, st <- Stages, rank <- ticket

(* Conversations are served as LaneService promises (queue.mjs:93-131).    *)
LaneServed == Abs!AbsSpec
=============================================================================
