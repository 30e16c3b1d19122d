-------------------------- MODULE SharedInference --------------------------
(***************************************************************************)
(* Inference calls the hub makes on models this machine shares             *)
(* (agensis.mjs:651-725 and sharedInference.mjs: runSharedInference).      *)
(*                                                                         *)
(* The upstream server is outside: it answers a call, fails it, lets       *)
(* fetch()'s own timeouts end it, or sends on and on, for there is no      *)
(* deadline.  What an abort() settles runs in the microtasks after it,     *)
(* hence in its step.  The hub gives an id to one call at a time.          *)
(***************************************************************************)
EXTENDS Integers, FiniteSets

CONSTANTS
  Calls,     \* agent_inference_request frames
  Ids,       \* their requestIds
  IdOf,      \* [Calls -> Ids]
  Models,    \* the models shared
  ModelOf,   \* [Calls -> Models, or another name]
  Limit,     \* maxConcurrency of a model
  Streamed,  \* calls with stream: true
  NoCall

(* maxConcurrency is clamped to 1..64 (sharedInference.mjs:39).            *)
InferenceAssumption ==
  /\ IdOf \in [Calls -> Ids] /\ IsFiniteSet(Calls)
  /\ Limit \in [Models -> 1..64]
  /\ Streamed \subseteq Calls /\ NoCall \notin Calls

VARIABLES
  online,     \* the hub's socket is open
  call,       \* where a call is
  entry,      \* activeInference: the call an id stands for
  answered    \* the final frame of a call

inferVars == <<online, call, entry, answered>>

Init ==
  /\ online \in BOOLEAN
  /\ call = [c \in Calls |-> "new"]
  /\ entry = [i \in Ids |-> NoCall]
  /\ answered = [c \in Calls |-> "no"]

Upstream == {c \in Calls : call[c] \in {"fetching", "reading"}}

Final(c, frame) == answered' = [answered EXCEPT ![c] = IF online THEN frame ELSE "lost"]

(* The calls counted against a model's limit.                              *)
Counted(m) == {i \in Ids : entry[i] # NoCall /\ ModelOf[entry[i]] = m}

(* Mutant: the limit is compared one too late.                             *)
AtCapacityLate(m) == Cardinality(Counted(m)) > Limit[m]

AtCapacity(m) == Cardinality(Counted(m)) >= Limit[m]

Refuse(c) ==
  /\ call' = [call EXCEPT ![c] = "over"]
  /\ \/ ModelOf[c] \notin Models /\ Final(c, "not available")
     \/ ModelOf[c] \in Models /\ AtCapacity(ModelOf[c]) /\ Final(c, "capacity_exhausted")
  /\ UNCHANGED entry

Accept(c) ==
  /\ ModelOf[c] \in Models /\ ~AtCapacity(ModelOf[c])
  /\ entry' = [entry EXCEPT ![IdOf[c]] = c]
  /\ call' = [call EXCEPT ![c] = "fetching"]
  /\ UNCHANGED answered

(* An id is asked for again once its last call is over.                    *)
Request(c) ==
  /\ online /\ call[c] = "new"
  /\ \A d \in Upstream : IdOf[d] # IdOf[c]
  /\ Refuse(c) \/ Accept(c)
  /\ UNCHANGED online

(* The finally: whatever has the id is deleted.                            *)
Settle(c, frame) ==
  /\ Final(c, frame)
  /\ call' = [call EXCEPT ![c] = "over"]
  /\ entry' = [entry EXCEPT ![IdOf[c]] = NoCall]
  /\ UNCHANGED online

(* The response's headers; a status that is not ok, a stream without a     *)
(* body, a server that is gone or fetch()'s timeout throw.                 *)
Responds(c) ==
  /\ call[c] = "fetching"
  /\ call' = [call EXCEPT ![c] = "reading"]
  /\ UNCHANGED <<online, entry, answered>>

ResponseFails(c) == c \in Upstream /\ Settle(c, "inference_failed")

(* [DONE] or the end of the stream; the JSON of a call that is not         *)
(* streamed.  Either ends with a result, and a cut stream does as well.    *)
Completes(c) == call[c] = "reading" /\ Settle(c, "result")

CutShort(c) == c \in Streamed /\ call[c] = "reading" /\ Settle(c, "result")

(* agent_inference_cancel; an id without an entry is ignored.              *)
Cancel(i) == online /\ entry[i] \in Upstream /\ Settle(entry[i], "cancelled")

(* The socket closes, or the daemon stops: all are aborted, and no frame   *)
(* finds a socket.                                                         *)
AbortAll ==
  /\ online
  /\ online' = FALSE
  /\ answered' = [c \in Calls |-> IF c \in Upstream THEN "lost" ELSE answered[c]]
  /\ call' = [c \in Calls |-> IF c \in Upstream THEN "over" ELSE call[c]]
  /\ entry' = [i \in Ids |-> IF entry[i] \in Upstream THEN NoCall ELSE entry[i]]

Reconnect == ~online /\ online' = TRUE /\ UNCHANGED <<call, entry, answered>>

Ends(c) == ResponseFails(c) \/ Completes(c) \/ CutShort(c)

Next ==
  \/ \E c \in Calls : Request(c) \/ Responds(c) \/ Ends(c)
  \/ \E i \in Ids : Cancel(i)
  \/ AbortAll \/ Reconnect

Spec == Init /\ [][Next]_inferVars

-----------------------------------------------------------------------------
(* The map of entries and the calls under way agree: an id that is used    *)
(* again neither hides a call nor takes another's entry with it.           *)
EntriesAreCalls ==
  \A c \in Calls : c \in Upstream <=> entry[IdOf[c]] = c

(* A model never serves more calls than it is shared for, however ids are  *)
(* used again and calls end (agensis.mjs:696-722).                         *)
WithinCapacity ==
  \A m \in Models : Cardinality({c \in Upstream : ModelOf[c] = m}) <= Limit[m]
=============================================================================
