---------------------------- MODULE LocalBridge ----------------------------
(***************************************************************************)
(* The CursorBuddy bridge of the primary daemon                            *)
(* (packages/agensis-cli/src/cursorbuddyLocalBridge.mjs:482-946): commands *)
(* for the avatar, in a queue that browser extensions poll or stream, and  *)
(* the chats and edits a command line answers.                             *)
(*                                                                         *)
(* The extension is outside: it keeps the id of the last command it saw    *)
(* and asks for what is after it.  Claims and contexts are left out.       *)
(***************************************************************************)
EXTENDS Integers, Sequences, SequencesExt

CONSTANTS
  Viewers,              \* extensions
  CONTROL_QUEUE_LIMIT,
  MaxControls,          \* bound: commands of one process
  Streams,              \* bound: responses open at once
  Chats,                \* POST /chat/completions and /edit
  MaxLives              \* bound: starts of the daemon

VARIABLES
  controlQueue,    \* ids of commands
  nextControlId,
  controlClients,  \* responses the commands are written to
  pipe,            \* what was written to a response and not read
  at,              \* the responses a viewer reads: one, or none
  after,           \* the last id a viewer saw
  seen,            \* the commands of this process a viewer saw
  stale,           \* viewers whose id is of an earlier process
  chat,
  lives

controlVars == <<controlQueue, nextControlId, controlClients, pipe, at, after, seen, stale>>
buddyVars == <<controlVars, chat, lives>>

Init ==
  /\ controlQueue = <<>> /\ nextControlId = 1
  /\ controlClients = {} /\ pipe = [s \in Streams |-> <<>>]
  /\ at = [v \in Viewers |-> {}]
  /\ after = [v \in Viewers |-> 0] /\ seen = [v \in Viewers |-> {}]
  /\ stale = {}
  /\ chat = [q \in Chats |-> "new"]
  /\ lives = 1

(* The queue keeps the newest; every response has the command written.     *)
Enqueue ==
  /\ nextControlId <= MaxControls
  /\ controlQueue' =
       LET longer == Append(controlQueue, nextControlId) IN
       IF Len(longer) > CONTROL_QUEUE_LIMIT THEN Tail(longer) ELSE longer
  /\ nextControlId' = nextControlId + 1
  /\ pipe' = [s \in Streams |-> IF s \in controlClients THEN Append(pipe[s], nextControlId) ELSE pipe[s]]
  /\ UNCHANGED <<controlClients, at, after, seen, stale>>

Control == Enqueue /\ UNCHANGED <<chat, lives>>

(* filter() by the id: the queue is in the order of ids, so it keeps an    *)
(* end of it.                                                              *)
Older(id) == {i \in 1..Len(controlQueue) : controlQueue[i] <= id}

(* Mutant: the id asked for is sent again.                                 *)
QueuedFrom(id) ==
  SubSeq(controlQueue, Cardinality(Older(id - 1)) + 1, Len(controlQueue))

QueuedAfter(id) ==
  SubSeq(controlQueue, Cardinality(Older(id)) + 1, Len(controlQueue))

(* GET /control/stream: registered, then brought up to date, in one step.  *)
OpenStream(v) ==
  /\ at[v] = {}
  /\ \E s \in Streams \ controlClients :
       /\ \A w \in Viewers : s \notin at[w]
       /\ controlClients' = controlClients \cup {s}
       /\ pipe' = [pipe EXCEPT ![s] = QueuedAfter(after[v])]
       /\ at' = [at EXCEPT ![v] = {s}]
  /\ UNCHANGED <<controlQueue, nextControlId, after, seen, stale, chat, lives>>

(* The viewer goes; what it has not read is lost.                          *)
Leave(v) ==
  /\ at[v] # {} /\ at' = [at EXCEPT ![v] = {}]
  /\ UNCHANGED <<controlQueue, nextControlId, controlClients, pipe, after, seen, stale, chat, lives>>

(* 'close', or a ping that fails.                                          *)
CloseStream(s) ==
  /\ s \in controlClients /\ \A v \in Viewers : s \notin at[v]
  /\ controlClients' = controlClients \ {s}
  /\ pipe' = [pipe EXCEPT ![s] = <<>>]
  /\ UNCHANGED <<controlQueue, nextControlId, at, after, seen, stale, chat, lives>>

Sees(v, ids) ==
  /\ after' = [after EXCEPT ![v] = Last(ids)]
  /\ seen' = [seen EXCEPT ![v] = @ \cup ToSet(ids)]

ReadStream(v, s) ==
  /\ s \in at[v] /\ pipe[s] # <<>>
  /\ Sees(v, <<Head(pipe[s])>>)
  /\ pipe' = [pipe EXCEPT ![s] = Tail(@)]
  /\ UNCHANGED <<controlQueue, nextControlId, controlClients, at, stale, chat, lives>>

(* GET /control?after=.                                                    *)
Poll(v) ==
  /\ at[v] = {} /\ QueuedAfter(after[v]) # <<>>
  /\ Sees(v, QueuedAfter(after[v]))
  /\ UNCHANGED <<controlQueue, nextControlId, controlClients, pipe, at, stale, chat, lives>>

(* A chat the avatar can answer at once is a command to it.                *)
ChatFast(q) ==
  /\ chat[q] = "new" /\ chat' = [chat EXCEPT ![q] = "answered"]
  /\ Enqueue
  /\ UNCHANGED lives

(* Another is a run of the command line, streamed or not, edits included.  *)
ChatBegins(q) ==
  /\ chat[q] = "new"
  /\ \E how \in {"complete", "streamComplete"} : chat' = [chat EXCEPT ![q] = how]
  /\ UNCHANGED <<controlVars, lives>>

Running(q) == chat[q] \in {"complete", "streamComplete"}

(* runCli() returns, after 5 min at the latest: an answer ...              *)
ChatAnswers(q) ==
  /\ Running(q) /\ chat' = [chat EXCEPT ![q] = "answered"]
  /\ UNCHANGED <<controlVars, lives>>

(* ... or an error, in the form of the response that was begun.            *)
ChatFails(q) ==
  /\ Running(q)
  /\ chat' = [chat EXCEPT ![q] = IF @ = "complete" THEN "status 500" ELSE "error event"]
  /\ UNCHANGED <<controlVars, lives>>

ChatEnds(q) == ChatAnswers(q) \/ ChatFails(q)

(* The daemon is replaced: commands are numbered from 1 again.             *)
Replaced ==
  /\ lives < MaxLives /\ lives' = lives + 1
  /\ controlQueue' = <<>> /\ nextControlId' = 1
  /\ controlClients' = {} /\ pipe' = [s \in Streams |-> <<>>]
  /\ at' = [v \in Viewers |-> {}] /\ seen' = [v \in Viewers |-> {}]
  /\ stale' = {v \in Viewers : after[v] > 0}
  /\ chat' = [q \in Chats |-> IF Running(q) THEN "lost" ELSE chat[q]]
  /\ UNCHANGED after

Next ==
  \/ Control \/ Replaced
  \/ \E v \in Viewers : OpenStream(v) \/ Leave(v) \/ Poll(v) \/ \E s \in Streams : ReadStream(v, s)
  \/ \E s \in Streams : CloseStream(s)
  \/ \E q \in Chats : ChatFast(q) \/ ChatBegins(q) \/ ChatEnds(q)

Spec == Init /\ [][Next]_buddyVars

(* runCli() ends its command line at the deadline.                         *)
Fairness == \A q \in Chats : WF_buddyVars(ChatEnds(q))

-----------------------------------------------------------------------------
(* A viewer that streams misses no command of the queue and has none       *)
(* twice, however often it left and polled in between; one whose id is of  *)
(* an earlier process is on its own (:569-581, :743-772).                  *)
NoGap ==
  \A v \in Viewers \ stale : \A s \in at[v] :
    /\ ToSet(controlQueue) \subseteq seen[v] \cup ToSet(pipe[s])
    /\ seen[v] \cap ToSet(pipe[s]) = {}
    /\ \A i, j \in 1..Len(pipe[s]) : i < j => pipe[s][i] < pipe[s][j]

(* A chat or an edit that was begun is over at last (:596-673, :853-917).  *)
ChatsEnd == \A q \in Chats : chat[q] \in {"complete", "streamComplete"} ~> chat[q] \notin {"complete", "streamComplete"}
=============================================================================
