--------------------------- MODULE AcpPoolProofs ---------------------------
(***************************************************************************)
(* What holds of the session slots for any number of conversations, slots  *)
(* and turns at a time, and of turns over ACP for any number of            *)
(* selections and harnesses, whatever a harness does.  The pool takes its  *)
(* slots from SessionSlots, whose theorems carry over by refinement.       *)
(***************************************************************************)
EXTENDS AcpPool, FiniteSetTheorems, TLAPS

-----------------------------------------------------------------------------
(* The slots themselves, of either runtime.                                *)

(* A busy slot that some lane is bound to serves that lane's own turn.     *)
BusyIsOwn == \A l \in Lanes : byLane[l] \in busy => held[l] = byLane[l]

SlotInv == TypeOK /\ OneLanePerSlot /\ NoStrandedSlot /\ BusyIsOwn

(* A claim takes one slot; whichever way it was found, the lane is bound   *)
(* to it and no other lane is.                                             *)
ClaimsSlot(l, s) ==
  /\ held[l] = NoSlot
  /\ Gives(l, s)
  /\ byLane' \in [Lanes -> Slots \cup {NoSlot}]
  /\ byLane'[l] = s
  /\ \A m \in Lanes \ {l} :
       byLane'[m] = IF byLane[m] = s THEN NoSlot ELSE byLane[m]

LEMMA NoSlotIsNone == NoSlot \notin Slots
  BY SlotsAssumption DEF NoSlot, Slots

LEMMA ClaimTakesOneSlot ==
  ASSUME SlotInv, NEW l \in Lanes, Claim(l)
  PROVE  \E s \in Slots : ClaimsSlot(l, s)
<1> USE NoSlotIsNone
<1>1. CASE ClaimSticky(l)
  <2>1. byLane[l] \in Slots
    BY <1>1 DEF ClaimSticky, StickyFree, SlotInv, TypeOK
  <2>2. \A m \in Lanes \ {l} : byLane[m] # byLane[l]
    BY <2>1 DEF SlotInv, OneLanePerSlot
  <2>3. ClaimsSlot(l, byLane[l])
    BY <1>1, <2>1, <2>2 DEF ClaimSticky, ClaimsSlot, Claim, SlotInv, TypeOK
  <2> QED
    BY <2>1, <2>3
<1>2. CASE ClaimUnbound(l)
  <2>1. PICK s \in Unbound : byLane' = [byLane EXCEPT ![l] = s] /\ Gives(l, s)
    BY <1>2 DEF ClaimUnbound
  <2>2. s \in Slots /\ \A m \in Lanes : byLane[m] # s
    BY <2>1 DEF Unbound, Bound
  <2>3. ClaimsSlot(l, s)
    BY <2>1, <2>2 DEF ClaimsSlot, Claim, SlotInv, TypeOK
  <2> QED
    BY <2>2, <2>3
<1>3. CASE ClaimVictim(l)
  <2>1. PICK s \in Slots :
          /\ byLane' = [m \in Lanes |-> IF m = l THEN s
                                        ELSE IF byLane[m] = s THEN NoSlot ELSE byLane[m]]
          /\ Gives(l, s)
    BY <1>3 DEF ClaimVictim
  <2>2. byLane' \in [Lanes -> Slots \cup {NoSlot}] /\ byLane'[l] = s
    BY <2>1 DEF SlotInv, TypeOK
  <2>3. \A m \in Lanes \ {l} :
          byLane'[m] = IF byLane[m] = s THEN NoSlot ELSE byLane[m]
    BY <2>1
  <2>4. ClaimsSlot(l, s)
    BY <2>1, <2>2, <2>3 DEF ClaimsSlot, Claim
  <2> QED
    BY <2>4
<1> QED
  BY <1>1, <1>2, <1>3 DEF Claim

LEMMA ClaimKeepsInv ==
  ASSUME SlotInv, NEW l \in Lanes, NEW s \in Slots, ClaimsSlot(l, s)
  PROVE  SlotInv'
<1> USE NoSlotIsNone
<1>1. TypeOK'
  <2>1. lastUsed' \in [Slots -> 0..seq'] /\ seq' \in Nat
    BY DEF ClaimsSlot, Gives, SlotInv, TypeOK
  <2> QED
    BY <2>1 DEF ClaimsSlot, Gives, SlotInv, TypeOK
<1>2. OneLanePerSlot'
  BY DEF ClaimsSlot, SlotInv, TypeOK, OneLanePerSlot
<1>3. held'[l] = s /\ \A m \in Lanes \ {l} : held'[m] = held[m]
  BY DEF ClaimsSlot, Gives, SlotInv, TypeOK
<1>4. busy' = busy \cup {s}
  BY DEF ClaimsSlot, Gives
<1>5. NoStrandedSlot'
  <2>1. SUFFICES ASSUME NEW b \in busy'
                 PROVE  \E m \in Lanes : held'[m] = b /\ held'[m] # NoSlot
    BY <2>1 DEF NoStrandedSlot, Running
  <2>2. CASE b = s
    BY <1>3, <2>2
  <2>3. CASE b \in busy
    <3>1. PICK m \in Lanes : held[m] = b /\ held[m] # NoSlot
      BY <2>3 DEF SlotInv, NoStrandedSlot, Running
    <3>2. m # l
      BY <3>1 DEF ClaimsSlot
    <3> QED
      BY <1>3, <3>1, <3>2
  <2> QED
    BY <1>4, <2>2, <2>3
<1>6. BusyIsOwn'
  <2>1. SUFFICES ASSUME NEW m \in Lanes, byLane'[m] \in busy'
                 PROVE  held'[m] = byLane'[m]
    BY <2>1 DEF BusyIsOwn
  <2>2. CASE m = l
    BY <1>3, <2>2 DEF ClaimsSlot
  <2>3. CASE m # l
    <3>1. byLane'[m] # s /\ (byLane'[m] = byLane[m] \/ byLane'[m] = NoSlot)
      BY <2>3 DEF ClaimsSlot
    <3>2. byLane'[m] \in busy
      BY <1>4, <2>1, <3>1
    <3>3. byLane'[m] = byLane[m]
      BY <3>1, <3>2 DEF SlotInv, TypeOK
    <3> QED
      BY <1>3, <2>3, <3>2, <3>3 DEF SlotInv, BusyIsOwn
  <2> QED
    BY <2>2, <2>3
<1> QED
  BY <1>1, <1>2, <1>5, <1>6 DEF SlotInv

LEMMA ReleaseKeepsInv ==
  ASSUME SlotInv, NEW l \in Lanes, Release(l)
  PROVE  SlotInv'
<1> USE NoSlotIsNone
<1>1. TypeOK'
  BY DEF Release, SlotInv, TypeOK
<1>2. OneLanePerSlot'
  BY DEF Release, SlotInv, OneLanePerSlot
<1>3. /\ busy' = busy \ {held[l]} /\ byLane' = byLane /\ held'[l] = NoSlot
      /\ \A m \in Lanes \ {l} : held'[m] = held[m]
  BY DEF Release, SlotInv, TypeOK
<1>4. NoStrandedSlot'
  <2>1. SUFFICES ASSUME NEW b \in busy'
                 PROVE  \E m \in Lanes : held'[m] = b /\ held'[m] # NoSlot
    BY <2>1 DEF NoStrandedSlot, Running
  <2>2. PICK m \in Lanes : held[m] = b /\ held[m] # NoSlot
    BY <1>3, <2>1 DEF SlotInv, NoStrandedSlot, Running
  <2>3. m # l
    BY <1>3, <2>1, <2>2
  <2> QED
    BY <1>3, <2>2, <2>3
<1>5. BusyIsOwn'
  BY <1>3 DEF SlotInv, BusyIsOwn
<1> QED
  BY <1>1, <1>2, <1>4, <1>5 DEF SlotInv

(* The invariant of the allocator.                                         *)
THEOREM SlotInvariant == Spec => []SlotInv
<1>1. Init => SlotInv
  BY NoSlotIsNone DEF Init, SlotInv, TypeOK, OneLanePerSlot, NoStrandedSlot, BusyIsOwn
<1>2. SlotInv /\ [Next]_vars => SlotInv'
  <2> SUFFICES ASSUME SlotInv, [Next]_vars
               PROVE  SlotInv'
    OBVIOUS
  <2>1. ASSUME NEW l \in Lanes, Claim(l)
        PROVE  SlotInv'
    BY <2>1, ClaimTakesOneSlot, ClaimKeepsInv
  <2>2. ASSUME NEW l \in Lanes, Release(l)
        PROVE  SlotInv'
    BY <2>2, ReleaseKeepsInv
  <2>3. CASE UNCHANGED vars
    BY <2>3 DEF vars, SlotInv, TypeOK, OneLanePerSlot, NoStrandedSlot, Running, BusyIsOwn
  <2> QED
    BY <2>1, <2>2, <2>3 DEF Next
<1> QED
  BY <1>1, <1>2, PTL DEF Spec

(* Whatever was evicted and re-bound, no two conversations are bound to    *)
(* one session history.                                                    *)
THEOREM OneHistoryPerLane == Spec => []OneLanePerSlot
  BY SlotInvariant, PTL DEF SlotInv

(* A slot marked busy has a turn on it.                                    *)
THEOREM NoSlotIsStranded == Spec => []NoStrandedSlot
  BY SlotInvariant, PTL DEF SlotInv

(* A conversation that still has a session goes back to it.                *)
THEOREM TurnsReturn == Spec => ReturnsToItsSession
<1>1. SlotInv /\ [Next]_vars
        => [\A l \in Lanes :
              (held[l] = NoSlot /\ held'[l] # NoSlot /\ byLane[l] # NoSlot)
                => held'[l] = byLane[l]]_vars
  <2> SUFFICES ASSUME SlotInv, Next,
                      NEW l \in Lanes,
                      held[l] = NoSlot, held'[l] # NoSlot, byLane[l] # NoSlot
               PROVE  held'[l] = byLane[l]
    OBVIOUS
  <2>1. StickyFree(l)
    BY NoSlotIsNone DEF StickyFree, SlotInv, TypeOK, BusyIsOwn
  <2>2. PICK m \in Lanes : Claim(m) \/ Release(m)
    BY DEF Next
  <2>3. \A s : Gives(m, s) => m = l
    BY DEF Gives, SlotInv, TypeOK
  <2>4. ~ Release(m)
    BY DEF Release, SlotInv, TypeOK
  <2>5. ClaimSticky(l)
    BY <2>1, <2>2, <2>3, <2>4 DEF Claim, ClaimSticky, ClaimUnbound, ClaimVictim
  <2> QED
    BY <2>5 DEF ClaimSticky, Gives, SlotInv, TypeOK
<1> QED
  BY <1>1, SlotInvariant, PTL DEF Spec, ReturnsToItsSession

-----------------------------------------------------------------------------
(***************************************************************************)
(* As many slots as turns.  The busy slots are then exactly those of the   *)
(* running turns, each of which has its own; fewer turns than slots run    *)
(* when a turn is admitted, so one slot is idle and the victim is never    *)
(* busy.                                                                   *)
(***************************************************************************)
OwnInv ==
  /\ SlotInv
  /\ \A l \in Running : byLane[l] = held[l] /\ held[l] \in busy

LEMMA OneSlotIsIdle ==
  ASSUME SlotInv, Cardinality(Running) < Size
  PROVE  \E s \in Slots : s \notin busy
<1> SUFFICES ASSUME Slots \subseteq busy
             PROVE  FALSE
  OBVIOUS
<1> DEFINE turn == [s \in Slots |-> CHOOSE l \in Running : held[l] = s]
<1>1. \A s \in Slots : turn[s] \in Running /\ held[turn[s]] = s
  BY DEF SlotInv, NoStrandedSlot
<1>2. IsFiniteSet(Running)
  BY FS_Subset, SlotsAssumption DEF Running
<1>3. IsFiniteSet(Slots) /\ Cardinality(Slots) = Size
  BY FS_Interval, SlotsAssumption DEF Slots
<1>4. turn \in [Slots -> Running]
  BY <1>1
<1>5. \E x, y \in Slots : x # y /\ turn[x] = turn[y]
  <2> HIDE DEF turn
  <2> QED
    BY <1>2, <1>3, <1>4, FS_PigeonHole
<1> QED
  BY <1>1, <1>5

(* The session a claim takes is idle.                                      *)
LEMMA ClaimTakesIdle ==
  ASSUME OwnInv, Size = MaxConcurrency, NEW l \in Lanes, Claim(l)
  PROVE  \E s \in Slots : ClaimsSlot(l, s) /\ s \notin busy
<1> USE NoSlotIsNone
<1>1. PICK s \in Slots : ClaimsSlot(l, s)
  BY ClaimTakesOneSlot DEF OwnInv
<1>2. PICK t \in Slots : t \notin busy
  BY OneSlotIsIdle DEF OwnInv, Claim
<1>3. \A r \in Slots : Gives(l, r) => r = s
  BY <1>1 DEF ClaimsSlot, Gives, OwnInv, SlotInv, TypeOK
<1>4. CASE ClaimSticky(l)
  <2>1. byLane[l] \in Slots /\ byLane[l] \notin busy /\ Gives(l, byLane[l])
    BY <1>4 DEF ClaimSticky, StickyFree, OwnInv, SlotInv, TypeOK
  <2> QED
    BY <1>1, <1>3, <2>1
<1>5. CASE ClaimUnbound(l)
  <2>1. PICK r \in Unbound : Gives(l, r)
    BY <1>5 DEF ClaimUnbound
  <2> QED
    BY <1>1, <1>3, <2>1 DEF Unbound
<1>6. CASE ClaimVictim(l)
  <2>1. PICK r \in Slots : Victim(r) /\ Gives(l, r)
    BY <1>6 DEF ClaimVictim
  <2>2. r \notin busy
    BY <1>2, <2>1 DEF Victim, Better
  <2> QED
    BY <1>1, <1>3, <2>1, <2>2
<1> QED
  BY <1>4, <1>5, <1>6 DEF Claim

LEMMA OwnInvariant == ASSUME Size = MaxConcurrency PROVE Spec => []OwnInv
<1>1. Init => OwnInv
  <2>1. Init => SlotInv
    BY NoSlotIsNone DEF Init, SlotInv, TypeOK, OneLanePerSlot, NoStrandedSlot, BusyIsOwn
  <2> QED
    BY <2>1 DEF Init, OwnInv, Running
<1>2. OwnInv /\ SlotInv' /\ [Next]_vars => OwnInv'
  <2> SUFFICES ASSUME OwnInv, SlotInv', [Next]_vars
               PROVE  \A m \in Running' : byLane'[m] = held'[m] /\ held'[m] \in busy'
    BY DEF OwnInv
  <2> USE NoSlotIsNone
  <2>1. ASSUME NEW l \in Lanes, Claim(l)
        PROVE  \A m \in Running' : byLane'[m] = held'[m] /\ held'[m] \in busy'
    <3>1. PICK s \in Slots : ClaimsSlot(l, s) /\ s \notin busy
      BY <2>1, ClaimTakesIdle
    <3>2. /\ held'[l] = s /\ byLane'[l] = s /\ busy' = busy \cup {s}
          /\ \A m \in Lanes \ {l} : held'[m] = held[m]
      BY <3>1 DEF ClaimsSlot, Gives, OwnInv, SlotInv, TypeOK
    <3>3. ASSUME NEW m \in Running', m # l
          PROVE  byLane'[m] = held'[m] /\ held'[m] \in busy'
      <4>1. m \in Running /\ held'[m] = held[m]
        BY <3>2, <3>3 DEF Running
      <4>2. byLane[m] = held[m] /\ held[m] \in busy
        BY <4>1 DEF OwnInv
      <4>3. held'[m] \in busy'
        BY <3>2, <4>1, <4>2
      <4>4. byLane'[m] = byLane[m]
        BY <3>1, <3>3, <4>2 DEF ClaimsSlot, Running
      <4> QED
        BY <4>1, <4>2, <4>3, <4>4
    <3> QED
      BY <3>2, <3>3
  <2>2. ASSUME NEW l \in Lanes, Release(l)
        PROVE  \A m \in Running' : byLane'[m] = held'[m] /\ held'[m] \in busy'
    <3>1. /\ busy' = busy \ {held[l]} /\ byLane' = byLane /\ held'[l] = NoSlot
          /\ \A m \in Lanes \ {l} : held'[m] = held[m]
      BY <2>2 DEF Release, OwnInv, SlotInv, TypeOK
    <3>2. \A m \in Running' : m \in Running /\ m # l /\ held'[m] = held[m]
      BY <3>1 DEF Running
    <3>3. \A m \in Running' : held[m] # held[l]
      BY <2>2, <3>2 DEF OwnInv, SlotInv, OneLanePerSlot, Release, Running
    <3> QED
      BY <3>1, <3>2, <3>3 DEF OwnInv
  <2>3. CASE UNCHANGED vars
    BY <2>3 DEF vars, OwnInv, Running
  <2> QED
    BY <2>1, <2>2, <2>3 DEF Next
<1> QED
  BY <1>1, <1>2, SlotInvariant, PTL DEF Spec

(* With a session per turn in flight, no two turns share one ...           *)
THEOREM TurnsHaveTheirOwn == Spec => []OwnSession
<1>1. CASE Size = MaxConcurrency
  <2>1. OwnInv => OwnSession
    BY NoSlotIsNone DEF OwnInv, SlotInv, OneLanePerSlot, OwnSession, Running
  <2> QED
    BY <1>1, <2>1, OwnInvariant, PTL
<1>2. CASE Size # MaxConcurrency
  <2>1. OwnSession
    BY <1>2 DEF OwnSession
  <2> QED
    BY <2>1, PTL
<1> QED
  BY <1>1, <1>2

(* ... and none has its history given away while it runs.                  *)
THEOREM HistoriesAreKept == Spec => []RunningKeepsBinding
<1>1. CASE Size = MaxConcurrency
  <2>1. OwnInv => RunningKeepsBinding
    BY DEF OwnInv, RunningKeepsBinding
  <2> QED
    BY <1>1, <2>1, OwnInvariant, PTL
<1>2. CASE Size # MaxConcurrency
  <2>1. RunningKeepsBinding
    BY <1>2 DEF RunningKeepsBinding
  <2> QED
    BY <2>1, PTL
<1> QED
  BY <1>1, <1>2

-----------------------------------------------------------------------------
(* Turns over ACP.                                                         *)

LEMMA WarmKeyIsKey == WarmKey \in Keys
  BY SlotsAssumption, AcpAssumption DEF WarmKey, Keys, Slots

LEMMA NoneIsNoClient == None \notin Clients
  BY DEF None, Clients

-----------------------------------------------------------------------------
LEMMA AcpStepClaims == ASSUME [AcpNext]_acpVars PROVE [Next]_vars
<1>1. ASSUME NEW l \in Lanes, Begin(l) PROVE Next
  BY <1>1 DEF Begin, Next
<1>2. ASSUME NEW l \in Lanes, TurnEnds(l) PROVE Next
  BY <1>2 DEF TurnEnds, Next
<1>3. ASSUME NEW l \in Lanes,
             \/ HandshakeDone(l) \/ HandshakeFails(l) \/ PromptReturns(l) \/ PromptFails(l)
             \/ Cancels(l) \/ ColdIsKilled(l) \/ ColdCloses(l)
      PROVE  UNCHANGED vars
  BY <1>3 DEF HandshakeDone, HandshakeFails, PromptReturns, PromptFails, Fails, Cancels,
              ColdIsKilled, ColdCloses
<1>4. ASSUME Prewarm \/ \E c \in Clients : HarnessExits(c) \/ PrewarmDone(c) \/ PrewarmFails(c)
      PROVE  UNCHANGED vars
  BY <1>4 DEF Prewarm, HarnessExits, PrewarmDone, PrewarmFails
<1>5. CASE UNCHANGED acpVars
  BY <1>5 DEF acpVars
<1> QED
  BY <1>1, <1>2, <1>3, <1>4, <1>5 DEF AcpNext

(* The pool claims and releases its slots as the allocator is used there.  *)
THEOREM AcpUsesSlots == AcpSpec => Spec
<1>1. AcpInit => Init
  BY DEF AcpInit
<1>2. [AcpNext]_acpVars => [Next]_vars
  BY AcpStepClaims
<1> QED
  BY <1>1, <1>2, PTL DEF AcpSpec, Spec

-----------------------------------------------------------------------------
Typed ==
  /\ at \in [Lanes -> {"idle", "opening", "prompting", "classic", "over"}]
  /\ wants \in [Lanes -> Selections]
  /\ held \in [Lanes -> Slots \cup {NoSlot}]
  /\ uses \in [Lanes -> Clients \cup {None}]
  /\ harness \in [Clients -> [state : {"starting", "ready", "closed"}, home : Keys]]
  /\ pool \in [Keys -> Clients \cup {None}]
  /\ warming \subseteq Clients /\ contended \subseteq Keys

(* A turn has a slot while it lasts, and a client while it needs one.      *)
Staged ==
  \A l \in Lanes : (at[l] = "idle" <=> held[l] = NoSlot) /\ (Tenant(l) <=> uses[l] # None)

Live(c) == harness[c].state # "closed"

(* A live client was opened for the key it is found under.                 *)
Homes ==
  /\ \A l \in Lanes : (uses[l] # None /\ Live(uses[l])) => harness[uses[l]].home = Key(l)
  /\ \A k \in Keys : (pool[k] # None /\ Live(pool[k])) => harness[pool[k]].home = k
  /\ \A c \in warming : Live(c) => harness[c].home = WarmKey

(* Those that share a client share its key.                                *)
Sharing == \A l, m \in Lanes : (uses[l] = uses[m] /\ uses[l] # None) => Key(l) = Key(m)

(* A client that is coming up is known to the one that opened it.          *)
ComingUp ==
  /\ \A l \in Lanes : at[l] = "opening" =>
       /\ harness[uses[l]].state # "ready" /\ uses[l] \notin warming
       /\ \A k \in Keys : pool[k] # uses[l]
       /\ \A m \in Lanes \ {l} : uses[m] # uses[l]
  /\ \A c \in warming : (\A l \in Lanes : uses[l] # c) /\ (\A k \in Keys : pool[k] # c)

(* One turn or one prewarm of a key ...                                    *)
Alone(k) ==
  /\ \A l, m \in Lanes : (Tenant(l) /\ Tenant(m) /\ Key(l) = k /\ Key(m) = k) => l = m
  /\ k = WarmKey => /\ \A c, d \in warming : c = d
                    /\ warming # {} => \A l \in Lanes : Tenant(l) => Key(l) # k

(* ... finds the entry as it left it.                                      *)
Entered(k) ==
  /\ \A l \in Lanes : Key(l) = k =>
       /\ at[l] = "opening" => pool[k] = None
       /\ at[l] = "prompting" => pool[k] = uses[l]
  /\ (k = WarmKey /\ warming # {}) => pool[k] = None

Uncontended == \A k \in Keys \ contended : Alone(k) /\ Entered(k)

Referred(c) == (\E k \in Keys : pool[k] = c) \/ (\E l \in Lanes : uses[l] = c) \/ c \in warming

Found == \A c \in Clients : (Live(c) /\ harness[c].home \notin contended) => Referred(c)

HarnessInv == Typed /\ Staged /\ Homes /\ Sharing /\ ComingUp /\ Uncontended /\ Found

LEMMA TenantsHaveKeys ==
  ASSUME Typed, Staged, NEW l \in Lanes, at[l] # "idle"
  PROVE  Key(l) \in Keys
  BY DEF Typed, Staged, Key, Keys

LEMMA TenantsHaveClients ==
  ASSUME Typed, Staged, NEW l \in Lanes
  PROVE  /\ Tenant(l) => uses[l] \in Clients /\ Key(l) \in Keys
         /\ uses[l] # None => Tenant(l)
  BY TenantsHaveKeys DEF Typed, Staged, Tenant

LEMMA ClosedIsClosed == Closed.state = "closed" /\ Closed \in [state : {"starting", "ready", "closed"}, home : Keys]
  BY WarmKeyIsKey DEF Closed

LEMMA SpareIsFree ==
  ASSUME NEW c \in Spare, Typed
  PROVE  /\ c \in Clients /\ ~ Live(c) /\ c \notin warming
         /\ \A l \in Lanes : uses[l] # c
         /\ \A k \in Keys : pool[k] # c
  BY NoneIsNoClient, ClosedIsClosed DEF Spare, Pooled, Used, Live

(* What a claim does to the keys.                                          *)
LEMMA ClaimKeys ==
  ASSUME HarnessInv, SlotInv, NEW l \in Lanes, Begin(l)
  PROVE  /\ held' \in [Lanes -> Slots \cup {NoSlot}] /\ held'[l] \in Slots
         /\ wants' \in [Lanes -> Selections]
         /\ at[l] = "idle" /\ uses[l] = None /\ Key(l)' \in Keys
         /\ \A m \in Lanes \ {l} : held'[m] = held[m] /\ Key(m)' = Key(m)
<1>1. PICK s \in Slots : held' = [held EXCEPT ![l] = s]
  BY ClaimTakesOneSlot DEF Begin, ClaimsSlot, Gives
<1>2. held'[l] = s /\ \A m \in Lanes \ {l} : held'[m] = held[m]
  BY <1>1 DEF HarnessInv, Typed
<1>3. PICK w \in Selections : wants' = [wants EXCEPT ![l] = w]
  BY DEF Begin
<1>4. wants' \in [Lanes -> Selections] /\ \A m \in Lanes \ {l} : wants'[m] = wants[m]
  BY <1>3 DEF HarnessInv, Typed
<1>5. Key(l)' \in Keys /\ \A m \in Lanes \ {l} : Key(m)' = Key(m)
  BY <1>2, <1>4 DEF Key, Keys
<1>6. at[l] = "idle" /\ uses[l] = None
  BY DEF Begin, HarnessInv, Staged, Tenant
<1> QED
  BY <1>1, <1>2, <1>4, <1>5, <1>6 DEF HarnessInv, Typed

-----------------------------------------------------------------------------
(* A turn that lets go of its client has ended it, or leaves it pooled.    *)
LEMMA LettingGo ==
  ASSUME HarnessInv, NEW l \in Lanes, at[l] # "idle",
         NEW stop \in {"classic", "over"}, TurnTo(l, stop, None),
         UNCHANGED <<wants, warming, contended, held>>,
         \/ at[l] \in {"prompting", "classic"} /\ UNCHANGED <<harness, pool>>
         \/ Tenant(l) /\ harness' = [harness EXCEPT ![uses[l]] = Closed] /\ UNCHANGED pool
         \/ /\ at[l] = "prompting" /\ harness' = [harness EXCEPT ![uses[l]] = Closed]
            /\ pool' = [pool EXCEPT ![Key(l)] = None]
  PROVE  HarnessInv'
<1> USE NoneIsNoClient, ClosedIsClosed
<1>1. /\ at'[l] = stop /\ uses'[l] = None
      /\ \A m \in Lanes \ {l} : at'[m] = at[m] /\ uses'[m] = uses[m]
  BY DEF TurnTo, HarnessInv, Typed
<1>2. \A m \in Lanes : Key(m)' = Key(m)
  BY DEF Key
<1>3. Key(l) \in Keys /\ (Tenant(l) => uses[l] \in Clients)
  BY TenantsHaveKeys, TenantsHaveClients DEF HarnessInv
<1>4. Typed'
  BY <1>3 DEF TurnTo, HarnessInv, Typed
<1>5. Staged' /\ \A m \in Lanes : Tenant(m)' => Tenant(m) /\ m # l
  BY <1>1 DEF HarnessInv, Staged, Tenant
<1>6. \A c \in Clients : harness'[c] = harness[c] \/ (~ Live(c)' /\ harness'[c].state # "ready")
  BY <1>3 DEF HarnessInv, Typed, Live
<1>7. \A k \in Keys : pool'[k] = pool[k] \/ (pool'[k] = None /\ k = Key(l) /\ at[l] = "prompting")
  BY <1>3 DEF HarnessInv, Typed
<1>8. Homes'
  <2>1. ASSUME NEW m \in Lanes, uses'[m] # None, Live(uses[m])'
        PROVE  harness'[uses'[m]].home = Key(m)
    <3>1. m # l /\ uses'[m] = uses[m] /\ uses[m] \in Clients
      BY <1>1, <2>1 DEF HarnessInv, Typed
    <3> QED
      BY <1>6, <2>1, <3>1 DEF HarnessInv, Homes, Live
  <2>2. ASSUME NEW k \in Keys, pool'[k] # None, Live(pool[k])'
        PROVE  harness'[pool'[k]].home = k
    <3>1. pool'[k] = pool[k] /\ pool[k] \in Clients
      BY <1>7, <2>2 DEF HarnessInv, Typed
    <3> QED
      BY <1>6, <2>2, <3>1 DEF HarnessInv, Homes, Live
  <2>3. ASSUME NEW c \in warming', Live(c)'
        PROVE  harness'[c].home = WarmKey
    BY <1>6, <2>3 DEF HarnessInv, Homes, Live, Typed
  <2> QED
    BY <1>2, <2>1, <2>2, <2>3 DEF Homes
<1>9. Sharing'
  BY <1>1, <1>2 DEF HarnessInv, Sharing
<1>10. ComingUp'
  <2>1. ASSUME NEW m \in Lanes, at'[m] = "opening"
        PROVE  /\ harness'[uses'[m]].state # "ready" /\ uses'[m] \notin warming'
               /\ \A k \in Keys : pool'[k] # uses'[m]
               /\ \A n \in Lanes \ {m} : uses'[n] # uses'[m]
    <3>1. m # l /\ at[m] = "opening" /\ uses'[m] = uses[m] /\ uses[m] \in Clients
      BY <1>1, <2>1, TenantsHaveClients DEF HarnessInv, Tenant
    <3>2. harness'[uses[m]].state # "ready"
      BY <1>6, <3>1 DEF HarnessInv, ComingUp
    <3> QED
      BY <1>1, <1>7, <3>1, <3>2 DEF HarnessInv, ComingUp
  <2>2. ASSUME NEW c \in warming'
        PROVE  (\A m \in Lanes : uses'[m] # c) /\ (\A k \in Keys : pool'[k] # c)
    BY <1>1, <1>7, <2>2 DEF HarnessInv, ComingUp, Typed
  <2> QED
    BY <2>1, <2>2 DEF ComingUp
<1>11. ASSUME NEW k \in Keys \ contended
       PROVE  Alone(k)' /\ Entered(k)'
  <2>1. Alone(k) /\ Entered(k)
    BY DEF HarnessInv, Uncontended
  <2>2. Alone(k)'
    BY <1>2, <1>5, <2>1 DEF Alone, WarmKey
  <2>3. ASSUME NEW m \in Lanes, Tenant(m)', Key(m) = k
        PROVE  pool'[k] = pool[k] /\ at'[m] = at[m] /\ uses'[m] = uses[m]
    <3>1. Tenant(m) /\ m # l
      BY <1>5, <2>3
    <3>2. ~ (Key(l) = k /\ at[l] = "prompting")
      BY <2>1, <2>3, <3>1 DEF Alone, Tenant
    <3> QED
      BY <1>1, <1>7, <3>1, <3>2
  <2>4. (k = WarmKey /\ warming # {}) => pool'[k] = None
    BY <1>7, <2>1 DEF Entered
  <2> QED
    BY <1>2, <2>1, <2>2, <2>3, <2>4 DEF Entered, Tenant, WarmKey
<1>12. Found'
  <2> SUFFICES ASSUME NEW c \in Clients, Live(c)', harness'[c].home \notin contended
               PROVE  Referred(c)'
    BY DEF Found
  <2>1. harness'[c] = harness[c] /\ Live(c)
    BY <1>6 DEF Live
  <2>2. ASSUME NEW m \in Lanes \ {l}, uses[m] = c
        PROVE  Referred(c)'
    BY <1>1, <2>2 DEF Referred
  <2>3. ASSUME uses[l] = c
        PROVE  Referred(c)'
    <3>1. Tenant(l) /\ harness' = harness
      BY <1>3, <2>1, <2>3, TenantsHaveClients DEF HarnessInv, Typed, Live
    <3>2. at[l] = "prompting" /\ pool' = pool
      BY <3>1, <1>3, <2>1, <2>3 DEF Tenant, HarnessInv, Typed, Live
    <3>3. Key(l) \in Keys \ contended
      BY <1>3, <2>1, <2>3 DEF HarnessInv, Homes
    <3> QED
      BY <2>3, <3>2, <3>3 DEF HarnessInv, Uncontended, Entered, Referred
  <2>4. ASSUME NEW k \in Keys, pool[k] = c, uses[l] # c
        PROVE  pool'[k] = c
    <3>1. harness[c].home = k /\ k \in Keys \ contended
      BY <2>1, <2>4 DEF HarnessInv, Homes
    <3>2. ~ (k = Key(l) /\ at[l] = "prompting")
      BY <2>4, <3>1 DEF HarnessInv, Uncontended, Entered
    <3> QED
      BY <1>7, <2>4, <3>2
  <2>5. Referred(c)
    BY <2>1 DEF HarnessInv, Found
  <2> QED
    BY <2>2, <2>3, <2>4, <2>5 DEF Referred
<1> QED
  BY <1>4, <1>5, <1>8, <1>9, <1>10, <1>11, <1>12 DEF HarnessInv, Uncontended

-----------------------------------------------------------------------------
(* A turn that begins takes a client or none.                              *)
LEMMA Beginning ==
  ASSUME HarnessInv, SlotInv, NEW l \in Lanes, Begin(l),
         NEW stage \in {"opening", "prompting", "classic", "over"},
         NEW c \in Clients \cup {None}, TurnTo(l, stage, c),
         stage \in {"opening", "prompting"} <=> c # None,
         harness' \in [Clients -> [state : {"starting", "ready", "closed"}, home : Keys]],
         \A d \in Clients : harness'[d] = harness[d] \/ (d = c /\ d \in Spare),
         c # None => Live(c)' /\ harness'[c].home = Key(l)' /\ c \notin warming,
         \/ /\ stage # "opening" /\ pool' = pool
         \/ /\ stage # "prompting" /\ pool' = [pool EXCEPT ![Key(l)'] = None] /\ ~ Warm(Key(l)'),
         stage = "opening" => c \in Spare /\ harness'[c].state = "starting",
         stage = "prompting" => pool[Key(l)'] = c /\ harness' = harness
  PROVE  HarnessInv'
<1> USE NoneIsNoClient
<1>1. /\ at'[l] = stage /\ uses'[l] = c
      /\ \A m \in Lanes \ {l} : at'[m] = at[m] /\ uses'[m] = uses[m]
  BY DEF TurnTo, HarnessInv, Typed
<1>2. /\ held' \in [Lanes -> Slots \cup {NoSlot}] /\ held'[l] \in Slots
      /\ wants' \in [Lanes -> Selections]
      /\ at[l] = "idle" /\ uses[l] = None /\ Key(l)' \in Keys
      /\ \A m \in Lanes \ {l} : held'[m] = held[m] /\ Key(m)' = Key(m)
  BY ClaimKeys
<1>3. /\ warming' = warming
      /\ contended' = IF Taken(Key(l)') THEN contended \cup {Key(l)'} ELSE contended
  BY DEF Begin, Meets
<1>4. Typed'
  <2>1. at' \in [Lanes -> {"idle", "opening", "prompting", "classic", "over"}]
        /\ uses' \in [Lanes -> Clients \cup {None}]
    BY DEF TurnTo, HarnessInv, Typed
  <2>2. pool' \in [Keys -> Clients \cup {None}]
    BY <1>2 DEF HarnessInv, Typed
  <2>3. warming' \subseteq Clients /\ contended' \subseteq Keys
    BY <1>2, <1>3 DEF HarnessInv, Typed
  <2> QED
    BY <1>2, <2>1, <2>2, <2>3 DEF Typed
<1>5. Staged'
  BY <1>1, <1>2, NoSlotIsNone DEF HarnessInv, Staged, Tenant
<1>6. \A k \in Keys : pool'[k] = pool[k] \/ (pool'[k] = None /\ k = Key(l)')
  BY <1>2 DEF HarnessInv, Typed
<1>7. ASSUME NEW d \in Clients, Referred(d)
      PROVE  harness'[d] = harness[d]
  <2>1. d \notin Spare
    BY <1>7, SpareIsFree DEF HarnessInv, Referred
  <2> QED
    BY <2>1
<1>8. ASSUME NEW m \in Lanes, c # None, uses[m] = c
      PROVE  Key(m) = Key(l)' /\ m # l /\ stage = "prompting"
  <2>1. stage = "prompting"
    BY <1>8, SpareIsFree DEF HarnessInv
  <2>2. Live(c) /\ harness[c].home = Key(l)'
    BY <1>8, <2>1 DEF Live
  <2> QED
    BY <1>2, <1>8, <2>1, <2>2 DEF HarnessInv, Homes
<1>9. Homes'
  <2>1. ASSUME NEW m \in Lanes, uses'[m] # None, Live(uses[m])'
        PROVE  harness'[uses'[m]].home = Key(m)'
    <3>1. CASE m = l
      BY <1>1, <2>1, <3>1
    <3>2. CASE m # l
      <4>1. uses'[m] = uses[m] /\ uses[m] \in Clients /\ Referred(uses[m])
        BY <1>1, <2>1, <3>2 DEF HarnessInv, Typed, Referred
      <4>2. harness'[uses[m]] = harness[uses[m]]
        BY <1>7, <4>1
      <4> QED
        BY <1>2, <2>1, <3>2, <4>1, <4>2 DEF HarnessInv, Homes, Live
    <3> QED
      BY <3>1, <3>2
  <2>2. ASSUME NEW k \in Keys, pool'[k] # None, Live(pool[k])'
        PROVE  harness'[pool'[k]].home = k
    <3>1. pool'[k] = pool[k] /\ pool[k] \in Clients /\ Referred(pool[k])
      BY <1>6, <2>2 DEF HarnessInv, Typed, Referred
    <3>2. harness'[pool[k]] = harness[pool[k]]
      BY <1>7, <3>1
    <3> QED
      BY <2>2, <3>1, <3>2 DEF HarnessInv, Homes, Live
  <2>3. ASSUME NEW d \in warming', Live(d)'
        PROVE  harness'[d].home = WarmKey
    <3>1. d \in warming /\ d \in Clients /\ Referred(d)
      BY <1>3, <2>3 DEF HarnessInv, Typed, Referred
    <3>2. harness'[d] = harness[d]
      BY <1>7, <3>1
    <3> QED
      BY <2>3, <3>1, <3>2 DEF HarnessInv, Homes, Live
  <2> QED
    BY <2>1, <2>2, <2>3 DEF Homes
<1>10. Sharing'
  BY <1>1, <1>2, <1>8 DEF HarnessInv, Sharing
<1>11. ComingUp'
  <2>1. ASSUME NEW m \in Lanes, at'[m] = "opening", m # l
        PROVE  /\ harness'[uses'[m]].state # "ready" /\ uses'[m] \notin warming'
               /\ \A k \in Keys : pool'[k] # uses'[m]
               /\ \A n \in Lanes \ {m} : uses'[n] # uses'[m]
    <3>1. at[m] = "opening" /\ uses'[m] = uses[m] /\ uses[m] \in Clients /\ Referred(uses[m])
      BY <1>1, <2>1, TenantsHaveClients DEF HarnessInv, Tenant, Referred
    <3>2. harness'[uses[m]].state # "ready"
      BY <1>7, <3>1 DEF HarnessInv, ComingUp
    <3>3. uses[m] # c
      BY <1>2, <1>8, <3>1 DEF HarnessInv, ComingUp
    <3> QED
      BY <1>1, <1>3, <1>6, <3>1, <3>2, <3>3 DEF HarnessInv, ComingUp
  <2>2. ASSUME at'[l] = "opening"
        PROVE  /\ harness'[uses'[l]].state # "ready" /\ uses'[l] \notin warming'
               /\ \A k \in Keys : pool'[k] # uses'[l]
               /\ \A n \in Lanes \ {l} : uses'[n] # uses'[l]
    <3>1. c \in Spare /\ c \in Clients /\ harness'[c].state = "starting" /\ uses'[l] = c
      BY <1>1, <2>2
    <3>2. /\ c \notin warming /\ \A n \in Lanes : uses[n] # c
          /\ \A k \in Keys : pool[k] # c
      BY <3>1, SpareIsFree DEF HarnessInv
    <3> QED
      BY <1>1, <1>3, <1>6, <3>1, <3>2
  <2>3. ASSUME NEW d \in warming'
        PROVE  (\A m \in Lanes : uses'[m] # d) /\ (\A k \in Keys : pool'[k] # d)
    <3>1. d \in warming /\ d \in Clients /\ d # c
      BY <1>3, <2>3 DEF HarnessInv, Typed
    <3> QED
      BY <1>1, <1>6, <3>1 DEF HarnessInv, ComingUp
  <2> QED
    BY <2>1, <2>2, <2>3 DEF ComingUp
<1>12. ASSUME NEW k \in Keys \ contended'
       PROVE  Alone(k)' /\ Entered(k)'
  <2>1. k \in Keys \ contended /\ Alone(k) /\ Entered(k)
    BY <1>3 DEF HarnessInv, Uncontended
  <2>2. CASE k = Key(l)'
    <3>1. ~ Taken(k)
      BY <1>3, <2>2
    <3>2. ASSUME NEW m \in Lanes \ {l}, Key(m)' = k
          PROVE  ~ Tenant(m)'
      <4>1. Key(m) = k
        BY <1>2, <3>2
      <4>2. ~ Tenant(m)
        BY <3>1, <4>1 DEF Taken
      <4> QED
        BY <1>1, <4>2 DEF Tenant
    <3>3. k = WarmKey => warming' = {}
      BY <1>3, <3>1 DEF Taken
    <3>4. Alone(k)'
      BY <2>2, <3>2, <3>3 DEF Alone, WarmKey
    <3>5. /\ at'[l] = "opening" => pool'[k] = None
          /\ at'[l] = "prompting" => pool'[k] = uses'[l]
      BY <1>1, <1>2, <2>2 DEF HarnessInv, Typed
    <3> QED
      BY <3>2, <3>3, <3>4, <3>5 DEF Entered, Tenant, WarmKey
  <2>3. CASE k # Key(l)'
    <3>1. pool'[k] = pool[k]
      BY <1>6, <2>3
    <3>2. ASSUME NEW m \in Lanes, Key(m)' = k
          PROVE  m # l /\ Key(m) = k /\ at'[m] = at[m] /\ uses'[m] = uses[m]
      BY <1>1, <1>2, <2>3, <3>2
    <3>3. \A m \in Lanes : Key(m)' = k => Key(m) = k /\ (Tenant(m)' <=> Tenant(m))
      BY <3>2 DEF Tenant
    <3>4. Alone(k)'
      BY <1>3, <2>1, <3>3 DEF Alone, WarmKey
    <3> QED
      BY <1>3, <2>1, <3>1, <3>2, <3>4 DEF Entered, WarmKey
  <2> QED
    BY <2>2, <2>3
<1>13. Found'
  <2> SUFFICES ASSUME NEW d \in Clients, Live(d)', harness'[d].home \notin contended'
               PROVE  Referred(d)'
    BY DEF Found
  <2>1. CASE d = c
    BY <1>1, <2>1 DEF Referred
  <2>2. CASE d # c
    <3>1. harness'[d] = harness[d] /\ Live(d) /\ harness[d].home \notin contended
      BY <1>3, <2>2 DEF Live
    <3>2. ASSUME NEW m \in Lanes, uses[m] = d
          PROVE  uses'[m] = d
      BY <1>1, <1>2, <3>2
    <3>3. ASSUME NEW k \in Keys, pool[k] = d
          PROVE  pool'[k] = d
      BY <1>6, <3>1, <3>3 DEF Warm, Live, HarnessInv, Typed
    <3> QED
      BY <1>3, <3>1, <3>2, <3>3 DEF HarnessInv, Found, Referred
  <2> QED
    BY <2>1, <2>2
<1> QED
  BY <1>4, <1>5, <1>9, <1>10, <1>11, <1>12, <1>13 DEF HarnessInv, Uncontended

LEMMA BeginKeepsInv ==
  ASSUME HarnessInv, SlotInv, NEW l \in Lanes, Begin(l)
  PROVE  HarnessInv'
<1> USE NoneIsNoClient
<1>1. Key(l)' \in Keys
  BY ClaimKeys
<1>2. ASSUME GoesCold(l) \/ Over(l)
      PROVE  \E stage \in {"classic", "over"} : TurnTo(l, stage, None)
  BY <1>2 DEF GoesCold, Over
<1>3. CASE BeginCold(l)
  <2>1. PICK stage \in {"classic", "over"} : TurnTo(l, stage, None)
    BY <1>2, <1>3 DEF BeginCold
  <2>2. UNCHANGED <<harness, pool>>
    BY <1>3 DEF BeginCold
  <2> QED
    BY <2>1, <2>2, Beginning DEF HarnessInv, Typed
<1>4. CASE BeginWarm(l)
  <2>1. PICK c \in Clients :
          /\ c = pool[Key(l)'] /\ Live(c) /\ TurnTo(l, "prompting", c)
          /\ UNCHANGED <<harness, pool>>
    BY <1>1, <1>4 DEF BeginWarm, Warm, Live, HarnessInv, Typed
  <2>2. harness[c].home = Key(l)'
    BY <1>1, <2>1 DEF HarnessInv, Homes
  <2>3. c \notin warming
    BY <1>1, <2>1 DEF HarnessInv, ComingUp
  <2>4. Live(c)' /\ harness'[c].home = Key(l)'
    BY <2>1, <2>2 DEF Live
  <2> QED
    BY <2>1, <2>3, <2>4, Beginning DEF HarnessInv, Typed
<1>5. CASE BeginOpening(l) /\ l \in aborted'
  <2>1. /\ TurnTo(l, "over", None) /\ harness' = harness
        /\ pool' = [pool EXCEPT ![Key(l)'] = None] /\ ~ Warm(Key(l)')
    BY <1>5 DEF BeginOpening, Over
  <2> QED
    BY <2>1, Beginning DEF HarnessInv, Typed
<1>6. CASE BeginOpening(l) /\ l \notin aborted'
  <2>1. PICK c \in Clients : Opens(c, Key(l)') /\ TurnTo(l, "opening", c)
    BY <1>6 DEF BeginOpening
  <2>2. /\ c \in Spare /\ harness' = [harness EXCEPT ![c] = [state |-> "starting", home |-> Key(l)']]
        /\ pool' = [pool EXCEPT ![Key(l)'] = None] /\ ~ Warm(Key(l)')
    BY <1>6, <2>1 DEF BeginOpening, Opens
  <2>3. Live(c)' /\ harness'[c].home = Key(l)' /\ harness'[c].state = "starting"
    BY <2>2 DEF Live, HarnessInv, Typed
  <2>4. harness' \in [Clients -> [state : {"starting", "ready", "closed"}, home : Keys]]
    BY <1>1, <2>2 DEF HarnessInv, Typed
  <2>5. \A d \in Clients : harness'[d] = harness[d] \/ (d = c /\ d \in Spare)
    BY <2>2 DEF HarnessInv, Typed
  <2>6. c \notin warming
    BY <2>2, SpareIsFree DEF HarnessInv
  <2> QED
    BY <2>1, <2>2, <2>3, <2>4, <2>5, <2>6, Beginning
<1> QED
  BY <1>3, <1>4, <1>5, <1>6 DEF Begin

(* The harness of a turn comes up, and is pooled.                          *)
LEMMA OpeningKeepsInv ==
  ASSUME HarnessInv, NEW l \in Lanes, HandshakeDone(l)
  PROVE  HarnessInv'
<1> USE NoneIsNoClient
<1> DEFINE c == uses[l]
<1>1. /\ at[l] = "opening" /\ at' = [at EXCEPT ![l] = "prompting"] /\ c \in Clients
      /\ UNCHANGED <<uses, wants, warming, contended, held>>
      /\ harness' = [harness EXCEPT ![c].state = "ready"] /\ Live(c)
      /\ pool' = [pool EXCEPT ![Key(l)] = c]
  BY TenantsHaveClients DEF HandshakeDone, HarnessInv, Tenant, Live, vars
<1>2. \A m \in Lanes : Key(m)' = Key(m)
  BY <1>1 DEF Key
<1>3. Key(l) \in Keys
  BY <1>1, TenantsHaveKeys DEF HarnessInv
<1>4. Typed'
  BY <1>1, <1>3 DEF HarnessInv, Typed
<1>5. Staged' /\ \A m \in Lanes : Tenant(m)' <=> Tenant(m)
  BY <1>1 DEF HarnessInv, Typed, Staged, Tenant
<1>6. \A d \in Clients : harness'[d].home = harness[d].home /\ (Live(d)' <=> Live(d))
  BY <1>1 DEF HarnessInv, Typed, Live
<1>7. harness[c].home = Key(l) /\ \A k \in Keys : pool'[k] = IF k = Key(l) THEN c ELSE pool[k]
  BY <1>1 DEF HarnessInv, Typed, Homes
<1>8. Homes'
  <2>1. \A m \in Lanes : (uses'[m] # None /\ Live(uses[m])') => harness'[uses'[m]].home = Key(m)
    BY <1>1, <1>6 DEF HarnessInv, Typed, Homes, Live
  <2>2. ASSUME NEW k \in Keys, pool'[k] # None, Live(pool[k])'
        PROVE  harness'[pool'[k]].home = k
    <3>1. CASE k = Key(l)
      BY <1>1, <1>6, <1>7, <3>1
    <3>2. CASE k # Key(l)
      <4>1. pool'[k] = pool[k] /\ pool[k] \in Clients
        BY <1>7, <2>2, <3>2 DEF HarnessInv, Typed
      <4> QED
        BY <1>6, <2>2, <4>1 DEF HarnessInv, Homes, Live
    <3> QED
      BY <3>1, <3>2
  <2>3. \A d \in warming' : Live(d)' => harness'[d].home = WarmKey
    BY <1>1, <1>6 DEF HarnessInv, Typed, Homes
  <2> QED
    BY <1>2, <2>1, <2>2, <2>3 DEF Homes
<1>9. Sharing'
  BY <1>1, <1>2 DEF HarnessInv, Sharing
<1>10. ComingUp'
  <2>1. ASSUME NEW m \in Lanes, at'[m] = "opening"
        PROVE  /\ harness'[uses'[m]].state # "ready" /\ uses'[m] \notin warming'
               /\ \A k \in Keys : pool'[k] # uses'[m]
               /\ \A n \in Lanes \ {m} : uses'[n] # uses'[m]
    <3>1. at[m] = "opening" /\ m # l /\ uses[m] \in Clients /\ uses[m] # c
      BY <1>1, <2>1, TenantsHaveClients DEF HarnessInv, Typed, ComingUp, Tenant
    <3>2. harness'[uses[m]] = harness[uses[m]]
      BY <1>1, <3>1 DEF HarnessInv, Typed
    <3> QED
      BY <1>1, <1>7, <3>1, <3>2 DEF HarnessInv, ComingUp
  <2>2. ASSUME NEW d \in warming'
        PROVE  (\A m \in Lanes : uses'[m] # d) /\ (\A k \in Keys : pool'[k] # d)
    BY <1>1, <1>7, <2>2 DEF HarnessInv, ComingUp
  <2> QED
    BY <2>1, <2>2 DEF ComingUp
<1>11. ASSUME NEW k \in Keys \ contended
       PROVE  Alone(k)' /\ Entered(k)'
  <2>1. Alone(k) /\ Entered(k)
    BY DEF HarnessInv, Uncontended
  <2>2. Alone(k)'
    BY <1>1, <1>2, <1>5, <2>1 DEF Alone, WarmKey
  <2>3. Tenant(l)
    BY <1>1 DEF Tenant
  <2>4. CASE k = Key(l)
    <3>1. \A m \in Lanes : (Key(m) = k /\ Tenant(m)) => m = l
      BY <2>1, <2>3, <2>4 DEF Alone
    <3>2. ~ (k = WarmKey /\ warming # {})
      BY <2>1, <2>3, <2>4 DEF Alone
    <3>3. at'[l] = "prompting" /\ pool'[k] = uses'[l]
      BY <1>1, <1>7, <2>4 DEF HarnessInv, Typed
    <3>4. \A m \in Lanes : Key(m)' = k => /\ at'[m] = "opening" => pool'[k] = None
                                          /\ at'[m] = "prompting" => pool'[k] = uses'[m]
      BY <1>2, <1>5, <3>1, <3>3 DEF Tenant
    <3> QED
      BY <1>1, <2>2, <3>2, <3>4 DEF Entered, WarmKey
  <2>5. CASE k # Key(l)
    BY <1>1, <1>2, <1>7, <2>1, <2>2, <2>5 DEF Entered, HarnessInv, Typed, WarmKey
  <2> QED
    BY <2>4, <2>5
<1>12. Found'
  <2> SUFFICES ASSUME NEW d \in Clients, Live(d)', harness'[d].home \notin contended
               PROVE  Referred(d)'
    BY <1>1 DEF Found
  <2>1. Live(d) /\ harness[d].home \notin contended
    BY <1>6
  <2>2. ASSUME NEW k \in Keys, pool[k] = d
        PROVE  pool'[k] = d
    <3>1. harness[d].home = k
      BY <2>1, <2>2 DEF HarnessInv, Homes
    <3>2. k # Key(l)
      BY <1>1, <2>1, <2>2, <3>1 DEF HarnessInv, Uncontended, Entered
    <3> QED
      BY <1>7, <2>2, <3>2
  <2> QED
    BY <1>1, <2>1, <2>2 DEF HarnessInv, Found, Referred
<1> QED
  BY <1>1, <1>4, <1>5, <1>8, <1>9, <1>10, <1>11, <1>12 DEF HarnessInv, Uncontended

-----------------------------------------------------------------------------
(* A client that is closed, whoever refers to it.                          *)
LEMMA ClosingKeepsInv ==
  ASSUME HarnessInv, NEW c \in Clients,
         UNCHANGED <<at, uses, wants, held, pool, contended>>,
         warming' = warming \/ warming' = warming \ {c},
         harness' = [harness EXCEPT ![c] = Closed]
  PROVE  HarnessInv'
<1> USE ClosedIsClosed
<1>1. \A l \in Lanes : Key(l)' = Key(l) /\ (Tenant(l)' <=> Tenant(l))
  BY DEF Key, Tenant
<1>2. Typed' /\ Staged' /\ Sharing'
  BY <1>1 DEF HarnessInv, Typed, Staged, Sharing
<1>3. \A d \in Clients : /\ Live(d)' => harness'[d] = harness[d] /\ Live(d) /\ d # c
                         /\ harness'[d].state = "ready" => harness[d].state = "ready"
  BY DEF HarnessInv, Typed, Live
<1>4. Homes'
  <2>1. \A l \in Lanes : (uses'[l] # None /\ Live(uses[l])') => harness'[uses'[l]].home = Key(l)
    BY <1>3 DEF HarnessInv, Homes, Typed, Live
  <2>2. \A k \in Keys : (pool'[k] # None /\ Live(pool[k])') => harness'[pool'[k]].home = k
    BY <1>3 DEF HarnessInv, Homes, Typed, Live
  <2>3. \A d \in warming' : Live(d)' => harness'[d].home = WarmKey
    BY <1>3 DEF HarnessInv, Homes, Typed
  <2> QED
    BY <1>1, <2>1, <2>2, <2>3 DEF Homes
<1>5. ComingUp'
  <2>1. \A l \in Lanes : at[l] = "opening" => uses[l] \in Clients
    BY TenantsHaveClients DEF HarnessInv, Tenant
  <2> QED
    BY <1>3, <2>1 DEF HarnessInv, ComingUp
<1>6. \A k \in Keys \ contended' : Alone(k)' /\ Entered(k)'
  BY <1>1 DEF HarnessInv, Uncontended, Alone, Entered, WarmKey
<1>7. Found'
  BY <1>3 DEF HarnessInv, Found, Referred
<1> QED
  BY <1>2, <1>4, <1>5, <1>6, <1>7 DEF HarnessInv, Uncontended

LEMMA PrewarmKeepsInv ==
  ASSUME HarnessInv, Prewarm
  PROVE  HarnessInv'
<1> USE NoneIsNoClient, WarmKeyIsKey
<1>1. PICK c \in Clients : Opens(c, WarmKey) /\ warming' = warming \cup {c}
  BY DEF Prewarm
<1>2. /\ UNCHANGED <<at, uses, wants, held, pool>> /\ pool[WarmKey] = None
      /\ contended' = IF Taken(WarmKey) THEN contended \cup {WarmKey} ELSE contended
  BY DEF Prewarm, turnVars, vars, Meets
<1>3. c \in Spare /\ harness' = [harness EXCEPT ![c] = [state |-> "starting", home |-> WarmKey]]
  BY <1>1 DEF Opens
<1>4. /\ ~ Live(c) /\ c \notin warming
      /\ \A l \in Lanes : uses[l] # c
      /\ \A k \in Keys : pool[k] # c
  BY <1>3, SpareIsFree DEF HarnessInv
<1>5. \A l \in Lanes : Key(l)' = Key(l) /\ (Tenant(l)' <=> Tenant(l))
  BY <1>2 DEF Key, Tenant
<1>6. Typed' /\ Staged' /\ Sharing'
  BY <1>1, <1>2, <1>3, <1>5 DEF HarnessInv, Typed, Staged, Sharing
<1>7. harness'[c].home = WarmKey /\ \A d \in Clients \ {c} : harness'[d] = harness[d]
  BY <1>3 DEF HarnessInv, Typed
<1>8. Homes'
  <2>1. ASSUME NEW l \in Lanes, uses'[l] # None, Live(uses[l])'
        PROVE  harness'[uses'[l]].home = Key(l)
    BY <1>2, <1>4, <1>7, <2>1 DEF HarnessInv, Homes, Typed, Live
  <2>2. ASSUME NEW k \in Keys, pool'[k] # None, Live(pool[k])'
        PROVE  harness'[pool'[k]].home = k
    BY <1>2, <1>4, <1>7, <2>2 DEF HarnessInv, Homes, Typed, Live
  <2>3. ASSUME NEW d \in warming', Live(d)'
        PROVE  harness'[d].home = WarmKey
    BY <1>1, <1>7, <2>3 DEF HarnessInv, Homes, Typed, Live
  <2> QED
    BY <1>5, <2>1, <2>2, <2>3 DEF Homes, WarmKey
<1>9. ComingUp'
  <2>1. \A l \in Lanes : at[l] = "opening" => uses[l] \in Clients /\ harness'[uses[l]] = harness[uses[l]]
    BY <1>4, <1>7, TenantsHaveClients DEF HarnessInv, Tenant
  <2> QED
    BY <1>1, <1>2, <1>4, <2>1 DEF HarnessInv, ComingUp
<1>10. ASSUME NEW k \in Keys \ contended'
       PROVE  Alone(k)' /\ Entered(k)'
  <2>1. k \in Keys \ contended /\ Alone(k) /\ Entered(k)
    BY <1>2 DEF HarnessInv, Uncontended
  <2>2. k = WarmKey => /\ warming' = {c}
                       /\ \A l \in Lanes : Tenant(l) => Key(l) # k
    BY <1>1, <1>2 DEF Taken
  <2>3. Alone(k)'
    BY <1>5, <2>1, <2>2 DEF Alone, WarmKey
  <2>4. Entered(k)'
    BY <1>2, <1>5, <2>1 DEF Entered, WarmKey
  <2> QED
    BY <2>3, <2>4
<1>11. Found'
  BY <1>1, <1>2, <1>7 DEF HarnessInv, Found, Referred, Live
<1> QED
  BY <1>6, <1>8, <1>9, <1>10, <1>11 DEF HarnessInv, Uncontended

LEMMA WarmedKeepsInv ==
  ASSUME HarnessInv, NEW c \in Clients, PrewarmDone(c)
  PROVE  HarnessInv'
<1> USE NoneIsNoClient, WarmKeyIsKey
<1>1. /\ c \in warming /\ Live(c) /\ warming' = warming \ {c}
      /\ UNCHANGED <<at, uses, wants, held, contended>>
      /\ harness' = [harness EXCEPT ![c].state = "ready"]
      /\ pool' = [pool EXCEPT ![WarmKey] = c]
  BY DEF PrewarmDone, turnVars, vars, Live
<1>2. \A l \in Lanes : Key(l)' = Key(l) /\ (Tenant(l)' <=> Tenant(l))
  BY <1>1 DEF Key, Tenant
<1>3. Typed' /\ Staged' /\ Sharing'
  BY <1>1, <1>2 DEF HarnessInv, Typed, Staged, Sharing
<1>4. \A d \in Clients : /\ harness'[d].home = harness[d].home /\ (Live(d)' <=> Live(d))
                         /\ d # c => harness'[d] = harness[d]
  BY <1>1 DEF HarnessInv, Typed, Live
<1>5. \A k \in Keys : pool'[k] = IF k = WarmKey THEN c ELSE pool[k]
  BY <1>1 DEF HarnessInv, Typed
<1>6. harness[c].home = WarmKey
  BY <1>1 DEF HarnessInv, Homes
<1>7. Homes'
  <2>1. \A l \in Lanes : (uses'[l] # None /\ Live(uses[l])') => harness'[uses'[l]].home = Key(l)
    BY <1>1, <1>4 DEF HarnessInv, Typed, Homes, Live
  <2>2. ASSUME NEW k \in Keys, pool'[k] # None, Live(pool[k])'
        PROVE  harness'[pool'[k]].home = k
    <3>1. CASE k = WarmKey
      BY <1>4, <1>5, <1>6, <3>1
    <3>2. CASE k # WarmKey
      <4>1. pool'[k] = pool[k] /\ pool[k] \in Clients
        BY <1>5, <2>2, <3>2 DEF HarnessInv, Typed
      <4> QED
        BY <1>4, <2>2, <4>1 DEF HarnessInv, Homes, Live
    <3> QED
      BY <3>1, <3>2
  <2>3. \A d \in warming' : Live(d)' => harness'[d].home = WarmKey
    BY <1>1, <1>4 DEF HarnessInv, Typed, Homes
  <2> QED
    BY <1>2, <2>1, <2>2, <2>3 DEF Homes, WarmKey
<1>8. ComingUp'
  <2>1. ASSUME NEW l \in Lanes, at[l] = "opening"
        PROVE  uses[l] \in Clients /\ uses[l] # c /\ harness'[uses[l]] = harness[uses[l]]
    BY <1>1, <1>4, <2>1, TenantsHaveClients DEF HarnessInv, ComingUp, Tenant
  <2> QED
    BY <1>1, <1>5, <2>1 DEF HarnessInv, ComingUp
<1>9. ASSUME NEW k \in Keys \ contended'
      PROVE  Alone(k)' /\ Entered(k)'
  <2>1. Alone(k) /\ Entered(k)
    BY <1>1, <1>9 DEF HarnessInv, Uncontended
  <2>2. Alone(k)'
    BY <1>1, <1>2, <2>1 DEF Alone, WarmKey
  <2>3. CASE k = WarmKey
    <3>1. warming' = {} /\ \A l \in Lanes : Tenant(l) => Key(l) # k
      BY <1>1, <2>1, <2>3 DEF Alone
    <3> QED
      BY <1>2, <2>2, <3>1 DEF Entered, Tenant
  <2>4. CASE k # WarmKey
    BY <1>1, <1>2, <1>5, <2>1, <2>2, <2>4 DEF Entered, WarmKey
  <2> QED
    BY <2>3, <2>4
<1>10. Found'
  <2> SUFFICES ASSUME NEW d \in Clients, Live(d)', harness'[d].home \notin contended
               PROVE  Referred(d)'
    BY <1>1 DEF Found
  <2>1. Live(d) /\ harness[d].home \notin contended
    BY <1>4
  <2>2. CASE d = c
    BY <1>5, <2>2 DEF Referred
  <2>3. ASSUME NEW k \in Keys, pool[k] = d
        PROVE  pool'[k] = d
    <3>1. harness[d].home = k
      BY <2>1, <2>3 DEF HarnessInv, Homes
    <3>2. k # WarmKey
      BY <1>1, <2>1, <2>3, <3>1 DEF HarnessInv, Uncontended, Entered
    <3> QED
      BY <1>5, <2>3, <3>2
  <2> QED
    BY <1>1, <2>1, <2>2, <2>3 DEF HarnessInv, Found, Referred
<1> QED
  BY <1>1, <1>3, <1>7, <1>8, <1>9, <1>10 DEF HarnessInv, Uncontended

LEMMA EndingKeepsInv ==
  ASSUME HarnessInv, NEW l \in Lanes, TurnEnds(l)
  PROVE  HarnessInv'
<1>1. /\ at[l] = "over" /\ at' = [at EXCEPT ![l] = "idle"]
      /\ wants' = [wants EXCEPT ![l] = Default] /\ held' = [held EXCEPT ![l] = NoSlot]
      /\ UNCHANGED <<uses, harness, pool, warming, contended>>
  BY DEF TurnEnds, Release, poolVars
<1>2. Typed'
  BY <1>1, AcpAssumption DEF HarnessInv, Typed
<1>3. \A m \in Lanes \ {l} : at'[m] = at[m] /\ held'[m] = held[m] /\ Key(m)' = Key(m)
  BY <1>1 DEF Key, HarnessInv, Typed
<1>4. at'[l] = "idle" /\ held'[l] = NoSlot /\ uses[l] = None /\ ~ Tenant(l)
  BY <1>1 DEF HarnessInv, Typed, Staged, Tenant
<1>5. Staged' /\ \A m \in Lanes : Tenant(m)' <=> Tenant(m)
  BY <1>1, <1>3, <1>4 DEF HarnessInv, Staged, Tenant
<1>6. Homes'
  BY <1>1, <1>3, <1>4 DEF HarnessInv, Homes, Live, WarmKey
<1>7. Sharing'
  BY <1>1, <1>3, <1>4 DEF HarnessInv, Sharing
<1>8. ComingUp' /\ Found'
  BY <1>1, <1>3, <1>4 DEF HarnessInv, ComingUp, Found, Live, Referred
<1>9. ASSUME NEW k \in Keys \ contended'
      PROVE  Alone(k)' /\ Entered(k)'
  <2>1. Alone(k) /\ Entered(k)
    BY <1>1, <1>9 DEF HarnessInv, Uncontended
  <2>2. \A m \in Lanes : Tenant(m)' => Tenant(m) /\ m # l /\ Key(m)' = Key(m)
    BY <1>3, <1>4, <1>5
  <2>3. Alone(k)'
    BY <1>1, <2>1, <2>2 DEF Alone, WarmKey
  <2>4. Entered(k)'
    BY <1>1, <1>3, <1>4, <2>1 DEF Entered, WarmKey
  <2> QED
    BY <2>3, <2>4
<1> QED
  BY <1>2, <1>5, <1>6, <1>7, <1>8, <1>9 DEF HarnessInv, Uncontended

LEMMA QuietKeepsInv ==
  ASSUME HarnessInv, UNCHANGED <<at, uses, wants, held, harness, pool, warming, contended>>
  PROVE  HarnessInv'
<1>1. \A l \in Lanes : Key(l)' = Key(l) /\ (Tenant(l)' <=> Tenant(l))
  BY DEF Key, Tenant
<1>2. Typed' /\ Staged' /\ Sharing' /\ ComingUp'
  BY <1>1 DEF HarnessInv, Typed, Staged, Sharing, ComingUp
<1>3. Homes' /\ Found'
  BY <1>1 DEF HarnessInv, Homes, Found, Referred, Live, WarmKey
<1>4. \A k \in Keys \ contended' : Alone(k)' /\ Entered(k)'
  BY <1>1 DEF HarnessInv, Uncontended, Alone, Entered, WarmKey
<1> QED
  BY <1>2, <1>3, <1>4 DEF HarnessInv, Uncontended

LEMMA HarnessStep ==
  ASSUME HarnessInv, SlotInv, [AcpNext]_acpVars
  PROVE  HarnessInv'
<1>1. ASSUME NEW l \in Lanes, Begin(l) PROVE HarnessInv'
  BY <1>1, BeginKeepsInv
<1>2. ASSUME NEW l \in Lanes, HandshakeDone(l) PROVE HarnessInv'
  BY <1>2, OpeningKeepsInv
<1>3. ASSUME NEW l \in Lanes, Fails(l) \/ PromptReturns(l) \/ ColdCloses(l)
      PROVE  /\ \E stop \in {"classic", "over"} : TurnTo(l, stop, None)
             /\ UNCHANGED <<wants, warming, contended, held>>
  BY <1>3 DEF Fails, FailsAsSlow, FailsAsBroken, FailsOtherwise, GoesCold, Over,
              PromptReturns, ColdCloses, vars, poolVars
<1>4. ASSUME NEW l \in Lanes, HandshakeFails(l) \/ PromptReturns(l) \/ PromptFails(l) \/ ColdCloses(l)
      PROVE  HarnessInv'
  <2>1. PICK stop \in {"classic", "over"} :
          TurnTo(l, stop, None) /\ UNCHANGED <<wants, warming, contended, held>>
    BY <1>3, <1>4 DEF HandshakeFails, PromptFails
  <2>2. /\ at[l] # "idle"
        /\ \/ at[l] \in {"prompting", "classic"} /\ UNCHANGED <<harness, pool>>
           \/ Tenant(l) /\ harness' = [harness EXCEPT ![uses[l]] = Closed] /\ UNCHANGED pool
           \/ /\ at[l] = "prompting" /\ harness' = [harness EXCEPT ![uses[l]] = Closed]
              /\ pool' = [pool EXCEPT ![Key(l)] = None]
    BY <1>4 DEF HandshakeFails, PromptReturns, PromptFails, ColdCloses, poolVars, Tenant
  <2> QED
    BY <2>1, <2>2, LettingGo
<1>5. ASSUME NEW l \in Lanes, Cancels(l) \/ ColdIsKilled(l) PROVE HarnessInv'
  <2>1. UNCHANGED <<at, uses, wants, held, harness, pool, warming, contended>>
    BY <1>5 DEF Cancels, ColdIsKilled, vars, poolVars
  <2> QED
    BY <2>1, QuietKeepsInv
<1>6. ASSUME NEW l \in Lanes, TurnEnds(l) PROVE HarnessInv'
  BY <1>6, EndingKeepsInv
<1>7. ASSUME Prewarm PROVE HarnessInv'
  BY <1>7, PrewarmKeepsInv
<1>8. ASSUME NEW c \in Clients, HarnessExits(c) \/ PrewarmFails(c) PROVE HarnessInv'
  <2>1. /\ UNCHANGED <<at, uses, wants, held, pool, contended>>
        /\ warming' = warming \/ warming' = warming \ {c}
        /\ harness' = [harness EXCEPT ![c] = Closed]
    BY <1>8 DEF HarnessExits, PrewarmFails, vars, turnVars
  <2> QED
    BY <2>1, ClosingKeepsInv
<1>9. ASSUME NEW c \in Clients, PrewarmDone(c) PROVE HarnessInv'
  BY <1>9, WarmedKeepsInv
<1>10. CASE UNCHANGED acpVars
  BY <1>10, QuietKeepsInv DEF acpVars, vars, turnVars, poolVars
<1> QED
  BY <1>1, <1>2, <1>4, <1>5, <1>6, <1>7, <1>8, <1>9, <1>10 DEF AcpNext

LEMMA HarnessInit == ASSUME AcpInit PROVE HarnessInv
<1> USE NoneIsNoClient, ClosedIsClosed
<1>1. Typed /\ Staged /\ \A l \in Lanes : ~ Tenant(l) /\ uses[l] = None
  BY AcpAssumption DEF AcpInit, Init, Typed, Staged, Tenant
<1>2. \A c \in Clients : ~ Live(c)
  BY DEF AcpInit, Live
<1>3. \A k \in Keys : Alone(k) /\ Entered(k)
  BY <1>1 DEF AcpInit, Alone, Entered, Tenant
<1> QED
  BY <1>1, <1>2, <1>3
     DEF AcpInit, HarnessInv, Homes, Sharing, ComingUp, Found, Uncontended, Tenant

-----------------------------------------------------------------------------
(* The pool on the allocator, with any number of slots.                    *)
LEMMA HarnessInvariant == AcpSpec => []HarnessInv
<1>1. AcpInit => HarnessInv
  BY HarnessInit
<1>2. HarnessInv /\ SlotInv /\ [AcpNext]_acpVars => HarnessInv'
  BY HarnessStep
<1> QED
  BY <1>1, <1>2, AcpUsesSlots, SlotInvariant, PTL DEF AcpSpec

(* A turn never has a harness built for another slot or for a previous     *)
(* selection, however many turns a slot has (acp/executor.mjs:257-260).    *)
THEOREM TurnsHaveTheirHarness == AcpSpec => []OwnHarness
<1>1. HarnessInv => OwnHarness
  BY NoneIsNoClient DEF HarnessInv, Homes, Live, Key, OwnHarness
<1> QED
  BY <1>1, HarnessInvariant, PTL

(* A live harness can be reached, unless two turns or a turn and a prewarm *)
(* met on its key (acp/executor.mjs:293, 324-327, 447).                    *)
THEOREM NoHarnessStrays == AcpSpec => []NoStrayHarness
<1>1. HarnessInv => NoStrayHarness
  BY NoneIsNoClient DEF HarnessInv, Found, Referred, Live, NoStrayHarness, Pooled, Used
<1> QED
  BY <1>1, HarnessInvariant, PTL

(* A step that ends a harness under a turn which goes on is its exit, or   *)
(* the failure of another turn that prompts it.                            *)
LEMMA WhoEndsIt ==
  ASSUME HarnessInv, AcpNext, NEW l \in Lanes,
         at[l] = "prompting", at'[l] = "prompting",
         harness[uses[l]].state = "ready", harness'[uses[l]].state = "closed"
  PROVE  \/ HarnessExits(uses[l])
         \/ \E m \in Lanes \ {l} :
              Key(m) = Key(l) /\ at[m] = "prompting" /\ at'[m] # "prompting"
<1> USE ClosedIsClosed
<1> DEFINE c == uses[l]
<1>1. c \in Clients /\ harness'[c] # harness[c]
  BY TenantsHaveClients DEF HarnessInv, Tenant
<1>2. ~ \E m \in Lanes : \/ PromptReturns(m) \/ Cancels(m) \/ ColdIsKilled(m)
                         \/ ColdCloses(m) \/ TurnEnds(m)
  BY <1>1 DEF PromptReturns, Cancels, ColdIsKilled, ColdCloses, TurnEnds, poolVars
<1>3. ~ \E m \in Lanes : HandshakeFails(m)
  BY <1>1 DEF HandshakeFails, HarnessInv, Typed, ComingUp
<1>4. ASSUME NEW m \in Lanes, PromptFails(m)
      PROVE  m # l /\ Key(m) = Key(l) /\ at[m] = "prompting" /\ at'[m] # "prompting"
  <2>1. at[m] = "prompting" /\ \E stop \in {"classic", "over"} : TurnTo(m, stop, None)
    BY <1>4 DEF PromptFails, Fails, FailsAsSlow, FailsAsBroken, FailsOtherwise, GoesCold, Over
  <2>2. at'[m] # "prompting"
    BY <2>1 DEF TurnTo, HarnessInv, Typed
  <2>3. uses[m] = c
    BY <1>1, <1>4 DEF PromptFails, HarnessInv, Typed
  <2>4. Key(m) = Key(l)
    BY <1>1, <2>3, NoneIsNoClient DEF HarnessInv, Sharing
  <2> QED
    BY <2>1, <2>2, <2>4
<1>5. ASSUME NEW d \in Clients, NEW k, Opens(d, k)
      PROVE  harness'[c] = harness[c] \/ harness'[c].state = "starting"
  BY <1>1, <1>5 DEF Opens, HarnessInv, Typed
<1>6. ~ \E m \in Lanes : Begin(m)
  BY <1>1, <1>5 DEF Begin, BeginCold, BeginWarm, BeginOpening
<1>7. ~ Prewarm
  BY <1>1, <1>5 DEF Prewarm
<1>8. ~ \E m \in Lanes : HandshakeDone(m)
  BY <1>1 DEF HandshakeDone, HarnessInv, Typed
<1>9. ~ \E d \in Clients : PrewarmDone(d) \/ PrewarmFails(d)
  BY <1>1 DEF PrewarmDone, PrewarmFails, HarnessInv, Typed, ComingUp
<1>10. ASSUME NEW d \in Clients, HarnessExits(d)
       PROVE  d = c
  BY <1>1, <1>10 DEF HarnessExits, HarnessInv, Typed
<1> QED
  BY <1>2, <1>3, <1>4, <1>6, <1>7, <1>8, <1>9, <1>10 DEF AcpNext

(* Nobody but itself or another turn that fails on it ends a harness under *)
(* a turn that prompts it.                                                 *)
THEOREM HarnessesAreKept == AcpSpec => TurnKeepsItsHarness
<1>1. HarnessInv /\ [AcpNext]_acpVars
        => [\A l \in Lanes :
              (/\ at[l] = "prompting" /\ at'[l] = "prompting"
               /\ harness[uses[l]].state = "ready" /\ harness'[uses[l]].state = "closed")
                => \/ HarnessExits(uses[l])
                   \/ \E m \in Lanes \ {l} :
                        Key(m) = Key(l) /\ at[m] = "prompting" /\ at'[m] # "prompting"]_acpVars
  BY WhoEndsIt
<1> QED
  BY <1>1, HarnessInvariant, PTL DEF AcpSpec, TurnKeepsItsHarness

(* A slot for each turn in flight, which an operator may choose, is enough *)
(* for a harness to have one turn at a time.                               *)
THEOREM SlotPerTurnSuffices == AcpSpec => [](Size = MaxConcurrency => OneTurnPerHarness)
<1>1. HarnessInv /\ OwnSession => (Size = MaxConcurrency => OneTurnPerHarness)
  <2> SUFFICES ASSUME HarnessInv, OwnSession, Size = MaxConcurrency,
                      NEW l \in Lanes, NEW m \in Lanes,
                      at[l] = "prompting", at[m] = "prompting", uses[l] = uses[m]
               PROVE  l = m
    BY DEF OneTurnPerHarness
  <2>1. Key(l) = Key(m) /\ held[l] # NoSlot /\ held[m] # NoSlot
    BY DEF HarnessInv, Sharing, Staged, Tenant
  <2> QED
    BY <2>1 DEF Key, OwnSession, Running
<1> QED
  BY <1>1, HarnessInvariant, AcpUsesSlots, TurnsHaveTheirOwn, PTL

(* Turns over ACP go back to their session history.                        *)
THEOREM AcpTurnsReturn == AcpSpec => ReturnsToItsSession
  BY AcpUsesSlots, TurnsReturn, PTL
=============================================================================
