---------------------------- MODULE SessionSlots ----------------------------
(***************************************************************************)
(* Which warm session a conversation runs on                               *)
(* (packages/agensis-cli/src/sessionSlots.mjs), under the admission of the *)
(* work queue: a lane has at most one turn at a time, and at most          *)
(* MaxConcurrency lanes have one (JobQueue: RunningCounts).                *)
(*                                                                         *)
(* One silo: silos share nothing but the sequence number.  forgetLane()    *)
(* and busyCount() have no caller and are left out.                        *)
(***************************************************************************)
EXTENDS Integers, FiniteSets

CONSTANTS
  Lanes,           \* conversations
  Size,            \* slots of a silo
  MaxConcurrency,  \* lanes the queue runs at once
  MaxClaims        \* bound: claims in a behaviour

(* sessionSlots is clamped to [1, maxConcurrency] (agensis.mjs:943-946).   *)
ASSUME SlotsAssumption ==
  /\ MaxConcurrency \in Nat \ {0} /\ Size \in 1..MaxConcurrency
  /\ MaxClaims \in Nat
  /\ IsFiniteSet(Lanes)

Slots == 0..(Size - 1)
NoSlot == -1

VARIABLES
  byLane,    \* the slot a lane is bound to
  busy,      \* slots claimed and not released since
  lastUsed,  \* when a slot was claimed last
  seq,       \* claims so far
  held       \* the slot the running turn of a lane was given

vars == <<byLane, busy, lastUsed, seq, held>>

TypeOK ==
  /\ byLane \in [Lanes -> Slots \cup {NoSlot}]
  /\ busy \subseteq Slots
  /\ lastUsed \in [Slots -> 0..seq]
  /\ seq \in Nat
  /\ held \in [Lanes -> Slots \cup {NoSlot}]

Init ==
  /\ byLane = [l \in Lanes |-> NoSlot]
  /\ busy = {}
  /\ lastUsed = [s \in Slots |-> 0]
  /\ seq = 0
  /\ held = [l \in Lanes |-> NoSlot]

Running == {l \in Lanes : held[l] # NoSlot}

Bound == {byLane[l] : l \in Lanes} \ {NoSlot}

(* The lane's own slot, free.                                              *)
StickyFree(l) == byLane[l] # NoSlot /\ byLane[l] \notin busy

(* Mutant: a free slot is taken although a lane is bound to it.            *)
UnboundOrNot == {s \in Slots : s \notin busy}

(* Slots that nobody is bound to.                                          *)
Unbound == {s \in Slots : s \notin busy /\ s \notin Bound}

(* better(a, b): an idle slot before a busy one, then the least recently   *)
(* used; the walk over the slots keeps the first of equals.                *)
Better(a, b) ==
  \/ a \notin busy /\ b \in busy
  \/ /\ a \in busy <=> b \in busy
     /\ lastUsed[a] < lastUsed[b] \/ (lastUsed[a] = lastUsed[b] /\ a < b)

(* Mutant: only the time of the last use counts.                           *)
VictimByAge(s) == \A t \in Slots \ {s} : lastUsed[s] < lastUsed[t] \/ (lastUsed[s] = lastUsed[t] /\ s < t)

Victim(s) == \A t \in Slots \ {s} : Better(s, t)

(* What every claim ends with.                                             *)
Gives(l, s) ==
  /\ busy' = busy \cup {s}
  /\ lastUsed' = [lastUsed EXCEPT ![s] = seq + 1]
  /\ seq' = seq + 1
  /\ held' = [held EXCEPT ![l] = s]

ClaimSticky(l) ==
  /\ StickyFree(l)
  /\ Gives(l, byLane[l])
  /\ UNCHANGED byLane

ClaimUnbound(l) ==
  /\ ~ StickyFree(l)
  /\ \E s \in Unbound :
       /\ \A t \in Unbound : s <= t
       /\ byLane' = [byLane EXCEPT ![l] = s]
       /\ Gives(l, s)

(* Every slot is bound or busy: the victim's lane loses it.                *)
ClaimVictim(l) ==
  /\ ~ StickyFree(l) /\ Unbound = {}
  /\ \E s \in Slots :
       /\ Victim(s)
       /\ byLane' = [m \in Lanes |-> IF m = l THEN s
                                     ELSE IF byLane[m] = s THEN NoSlot ELSE byLane[m]]
       /\ Gives(l, s)

(* A turn of lane l starts, as the queue admits it.                        *)
Claim(l) ==
  /\ held[l] = NoSlot /\ Cardinality(Running) < MaxConcurrency
  /\ seq < MaxClaims
  /\ ClaimSticky(l) \/ ClaimUnbound(l) \/ ClaimVictim(l)

(* release(), from the finally of the turn.                                *)
Release(l) ==
  /\ held[l] # NoSlot
  /\ busy' = busy \ {held[l]}
  /\ held' = [held EXCEPT ![l] = NoSlot]
  /\ UNCHANGED <<byLane, lastUsed, seq>>

Next == \E l \in Lanes : Claim(l) \/ Release(l)

Spec == Init /\ [][Next]_vars

-----------------------------------------------------------------------------
(* With as many slots as lanes in flight no turn waits for another: two    *)
(* running turns never share a session (sessionSlots.mjs:5-11).            *)
OwnSession ==
  Size = MaxConcurrency => \A l, m \in Running : held[l] = held[m] => l = m

(* ... and none has its session's history given away under it              *)
(* (sessionSlots.mjs:13-19, 110-113).                                      *)
RunningKeepsBinding ==
  Size = MaxConcurrency => \A l \in Running : byLane[l] = held[l]

(* No two conversations are sent to one session history: a slot has one    *)
(* lane, whatever was evicted and re-bound before.                         *)
OneLanePerSlot ==
  \A l, m \in Lanes : (byLane[l] = byLane[m] /\ byLane[l] # NoSlot) => l = m

(* Nothing is stranded: a slot that is marked busy has a turn on it.       *)
NoStrandedSlot == busy \subseteq {held[l] : l \in Running}

(* A conversation that still has a session goes back to it, turn after     *)
(* turn (sessionSlots.mjs:48-50): its slot is never marked for another.    *)
ReturnsToItsSession ==
  [][\A l \in Lanes :
       (held[l] = NoSlot /\ held'[l] # NoSlot /\ byLane[l] # NoSlot)
         => held'[l] = byLane[l]]_vars
=============================================================================
