------------------------- MODULE HubServicesProofs -------------------------
(***************************************************************************)
(* What holds of the daemon's services for any number of calls, ids and    *)
(* models, and any limits; of bridges and sends; of hand-offs; of viewers  *)
(* and streams.                                                            *)
(***************************************************************************)
EXTENDS HubServices, FiniteSetTheorems, SequenceTheorems, TLAPS

CallsTyped ==
  /\ call \in [Calls -> {"new", "fetching", "reading", "over"}]
  /\ entry \in [Ids -> Calls \cup {NoCall}]

(* An entry is filed under its call's own id.                              *)
FiledRight == \A i \in Ids : entry[i] # NoCall => IdOf[entry[i]] = i

Bounded ==
  \A m \in Models : IsFiniteSet(Counted(m)) /\ Cardinality(Counted(m)) <= Limit[m]

InferenceInv == CallsTyped /\ EntriesAreCalls /\ FiledRight /\ Bounded

(* The entries that stay keep the limits.                                  *)
LEMMA FewerAreBounded ==
  ASSUME InferenceAssumption, Bounded,
         \A i \in Ids : entry'[i] # NoCall => entry'[i] = entry[i]
  PROVE  Bounded'
<1> SUFFICES ASSUME NEW m \in Models
             PROVE  IsFiniteSet(Counted(m)') /\ Cardinality(Counted(m)') <= Limit[m]
  BY DEF Bounded
<1>1. Counted(m)' \subseteq Counted(m)
  BY DEF Counted
<1>2. IsFiniteSet(Counted(m)) /\ Cardinality(Counted(m)) <= Limit[m]
  BY DEF Bounded
<1>3. IsFiniteSet(Counted(m)') /\ Cardinality(Counted(m)') <= Cardinality(Counted(m))
  BY <1>1, <1>2, FS_Subset
<1>4. Cardinality(Counted(m)) \in Nat /\ Cardinality(Counted(m)') \in Nat
  BY <1>2, <1>3, FS_CardinalityType
<1>5. Limit[m] \in Nat
  BY DEF InferenceAssumption
<1> QED
  BY <1>2, <1>3, <1>4, <1>5

(* A call that is accepted takes a place that was free.                    *)
LEMMA AcceptKeepsInv ==
  ASSUME InferenceAssumption, InferenceInv, NEW c \in Calls, Request(c), Accept(c)
  PROVE  InferenceInv'
<1> USE DEF InferenceInv
<1>1. /\ IdOf[c] \in Ids /\ c # NoCall
      /\ entry' = [entry EXCEPT ![IdOf[c]] = c]
      /\ call' = [call EXCEPT ![c] = "fetching"] /\ call[c] = "new"
  BY DEF InferenceAssumption, Accept, Request
<1>2. CallsTyped'
  BY <1>1 DEF CallsTyped
<1>3. Upstream' = Upstream \cup {c}
  BY <1>1 DEF CallsTyped, Upstream
<1>4. EntriesAreCalls'
  <2> SUFFICES ASSUME NEW d \in Calls
               PROVE  d \in Upstream' <=> entry'[IdOf[d]] = d
    BY DEF EntriesAreCalls
  <2>1. CASE d = c
    BY <1>1, <1>3, <2>1 DEF CallsTyped
  <2>2. CASE d # c /\ IdOf[d] = IdOf[c]
    BY <1>1, <1>3, <2>2 DEF CallsTyped, Request
  <2>3. CASE d # c /\ IdOf[d] # IdOf[c]
    <3>1. IdOf[d] \in Ids /\ entry'[IdOf[d]] = entry[IdOf[d]]
      BY <1>1, <2>3 DEF CallsTyped, InferenceAssumption
    <3> QED
      BY <1>3, <2>3, <3>1 DEF EntriesAreCalls
  <2> QED
    BY <2>1, <2>2, <2>3
<1>5. FiledRight'
  BY <1>1 DEF FiledRight, CallsTyped
<1>6. Bounded'
  <2> SUFFICES ASSUME NEW m \in Models
               PROVE  IsFiniteSet(Counted(m)') /\ Cardinality(Counted(m)') <= Limit[m]
    BY DEF Bounded
  <2>1. /\ IsFiniteSet(Counted(m)) /\ Cardinality(Counted(m)) <= Limit[m]
        /\ Cardinality(Counted(m)) \in Nat /\ Limit[m] \in Nat
    <3>1. IsFiniteSet(Counted(m)) /\ Cardinality(Counted(m)) <= Limit[m]
      BY DEF Bounded
    <3>2. Cardinality(Counted(m)) \in Nat
      BY <3>1, FS_CardinalityType
    <3>3. Limit[m] \in Nat
      BY DEF InferenceAssumption
    <3> QED
      BY <3>1, <3>2, <3>3
  <2>2. CASE ModelOf[c] = m
    <3>1. Cardinality(Counted(m)) < Limit[m]
      BY <2>1, <2>2 DEF Accept, AtCapacity
    <3>2. Counted(m)' \subseteq Counted(m) \cup {IdOf[c]}
      BY <1>1 DEF Counted, CallsTyped
    <3>3. /\ IsFiniteSet(Counted(m) \cup {IdOf[c]})
          /\ Cardinality(Counted(m) \cup {IdOf[c]}) <= Limit[m]
      BY <2>1, <3>1, FS_AddElement
    <3>4. /\ IsFiniteSet(Counted(m)')
          /\ Cardinality(Counted(m)') <= Cardinality(Counted(m) \cup {IdOf[c]})
      BY <3>2, <3>3, FS_Subset
    <3>5. Cardinality(Counted(m)') \in Nat /\ Cardinality(Counted(m) \cup {IdOf[c]}) \in Nat
      BY <3>3, <3>4, FS_CardinalityType
    <3> QED
      BY <2>1, <3>3, <3>4, <3>5
  <2>3. CASE ModelOf[c] # m
    <3>1. Counted(m)' \subseteq Counted(m)
      BY <1>1, <2>3 DEF Counted, CallsTyped
    <3>2. IsFiniteSet(Counted(m)') /\ Cardinality(Counted(m)') <= Cardinality(Counted(m))
      BY <2>1, <3>1, FS_Subset
    <3>3. Cardinality(Counted(m)') \in Nat
      BY <3>2, FS_CardinalityType
    <3> QED
      BY <2>1, <3>2, <3>3
  <2> QED
    BY <2>2, <2>3
<1> QED
  BY <1>2, <1>4, <1>5, <1>6

(* A call that ends gives its own place back, and no other's.              *)
LEMMA SettleKeepsInv ==
  ASSUME InferenceAssumption, InferenceInv, NEW c \in Upstream, NEW f, Settle(c, f)
  PROVE  InferenceInv'
<1> USE DEF InferenceInv
<1>1. /\ c \in Calls /\ IdOf[c] \in Ids /\ entry[IdOf[c]] = c
      /\ entry' = [entry EXCEPT ![IdOf[c]] = NoCall]
      /\ call' = [call EXCEPT ![c] = "over"]
  BY DEF InferenceAssumption, Settle, Upstream, EntriesAreCalls
<1>2. CallsTyped'
  BY <1>1 DEF CallsTyped
<1>3. Upstream' = Upstream \ {c}
  BY <1>1 DEF CallsTyped, Upstream
<1>4. EntriesAreCalls'
  <2> SUFFICES ASSUME NEW d \in Calls
               PROVE  d \in Upstream' <=> entry'[IdOf[d]] = d
    BY DEF EntriesAreCalls
  <2>1. IdOf[d] \in Ids /\ d # NoCall
    BY DEF InferenceAssumption
  <2>2. CASE IdOf[d] = IdOf[c]
    BY <1>1, <1>3, <2>1, <2>2 DEF CallsTyped, EntriesAreCalls
  <2>3. CASE IdOf[d] # IdOf[c]
    BY <1>1, <1>3, <2>1, <2>3 DEF CallsTyped, EntriesAreCalls
  <2> QED
    BY <2>2, <2>3
<1>5. FiledRight'
  BY <1>1 DEF FiledRight, CallsTyped
<1>6. Bounded'
  BY <1>1, FewerAreBounded DEF CallsTyped
<1> QED
  BY <1>2, <1>4, <1>5, <1>6

LEMMA AbortKeepsInv ==
  ASSUME InferenceAssumption, InferenceInv, AbortAll
  PROVE  InferenceInv'
<1> USE DEF InferenceInv
<1>1. CallsTyped'
  BY DEF CallsTyped, AbortAll
<1>2. Upstream' = {}
  BY DEF CallsTyped, AbortAll, Upstream
<1>3. \A i \in Ids : entry'[i] = NoCall
  <2> SUFFICES ASSUME NEW i \in Ids, entry[i] # NoCall
               PROVE  entry[i] \in Upstream
    BY DEF AbortAll
  <2>1. entry[i] \in Calls /\ IdOf[entry[i]] = i
    BY DEF CallsTyped, FiledRight
  <2> QED
    BY <2>1 DEF EntriesAreCalls
<1>4. EntriesAreCalls'
  BY <1>2, <1>3 DEF EntriesAreCalls, InferenceAssumption
<1>5. FiledRight'
  BY <1>3 DEF FiledRight
<1>6. Bounded'
  BY <1>3, FewerAreBounded
<1> QED
  BY <1>1, <1>4, <1>5, <1>6

(* A step that leaves the entries alone, and no call begins or ends.       *)
LEMMA OtherwiseKeepsInv ==
  ASSUME InferenceAssumption, InferenceInv, CallsTyped', entry' = entry, Upstream' = Upstream
  PROVE  InferenceInv'
<1>1. EntriesAreCalls' /\ FiledRight'
  BY DEF InferenceInv, EntriesAreCalls, FiledRight
<1>2. Bounded'
  BY FewerAreBounded DEF InferenceInv
<1> QED
  BY <1>1, <1>2 DEF InferenceInv

LEMMA InferenceStep ==
  ASSUME InferenceAssumption, InferenceInv, [Next]_inferVars
  PROVE  InferenceInv'
<1>1. ASSUME NEW c \in Calls, Request(c)
      PROVE  InferenceInv'
  <2>1. CASE Accept(c)
    BY <1>1, <2>1, AcceptKeepsInv
  <2>2. CASE Refuse(c)
    <3>1. CallsTyped' /\ Upstream' = Upstream /\ entry' = entry
      BY <1>1, <2>2 DEF InferenceInv, CallsTyped, Refuse, Request, Upstream
    <3> QED
      BY <3>1, OtherwiseKeepsInv
  <2> QED
    BY <1>1, <2>1, <2>2 DEF Request
<1>2. ASSUME NEW c \in Calls, Responds(c)
      PROVE  InferenceInv'
  <2>1. CallsTyped' /\ Upstream' = Upstream /\ entry' = entry
    BY <1>2 DEF InferenceInv, CallsTyped, Responds, Upstream
  <2> QED
    BY <2>1, OtherwiseKeepsInv
<1>3. ASSUME NEW c \in Calls, Ends(c)
      PROVE  InferenceInv'
  <2>1. c \in Upstream /\ (Settle(c, "inference_failed") \/ Settle(c, "result"))
    BY <1>3 DEF Ends, ResponseFails, Completes, CutShort, Upstream
  <2> QED
    BY <2>1, SettleKeepsInv
<1>4. ASSUME NEW i \in Ids, Cancel(i)
      PROVE  InferenceInv'
  BY <1>4, SettleKeepsInv DEF Cancel
<1>5. ASSUME AbortAll PROVE InferenceInv'
  BY <1>5, AbortKeepsInv
<1>6. ASSUME Reconnect \/ UNCHANGED inferVars
      PROVE  InferenceInv'
  <2>1. call' = call /\ entry' = entry
    BY <1>6 DEF Reconnect, inferVars
  <2>2. CallsTyped' /\ Upstream' = Upstream
    BY <2>1 DEF InferenceInv, CallsTyped, Upstream
  <2> QED
    BY <2>1, <2>2, OtherwiseKeepsInv
<1> QED
  BY <1>1, <1>2, <1>3, <1>4, <1>5, <1>6 DEF Next

LEMMA InferenceInit == ASSUME InferenceAssumption, Init PROVE InferenceInv
<1>1. CallsTyped /\ FiledRight /\ Upstream = {}
  BY DEF Init, CallsTyped, FiledRight, Upstream
<1>2. EntriesAreCalls
  BY <1>1 DEF Init, EntriesAreCalls, InferenceAssumption
<1>3. \A m \in Models : Counted(m) = {}
  BY DEF Init, Counted
<1>4. \A m \in Models : Limit[m] \in Nat /\ Limit[m] >= 0
  BY DEF InferenceAssumption
<1>5. Bounded
  BY <1>3, <1>4, FS_EmptySet DEF Bounded
<1> QED
  BY <1>1, <1>2, <1>5 DEF InferenceInv

(* The calls of a model are as many as their entries, at most.             *)
LEMMA EntriesBoundCalls ==
  ASSUME InferenceAssumption, InferenceInv
  PROVE  WithinCapacity
<1> SUFFICES ASSUME NEW m \in Models
             PROVE  Cardinality({c \in Upstream : ModelOf[c] = m}) <= Limit[m]
  BY DEF WithinCapacity
<1> DEFINE S == {c \in Upstream : ModelOf[c] = m}
           f == [c \in S |-> IdOf[c]]
<1>1. /\ IsFiniteSet(Counted(m)) /\ Cardinality(Counted(m)) <= Limit[m]
      /\ Limit[m] \in Nat
  BY DEF InferenceInv, Bounded, InferenceAssumption
<1>2. \A c \in S : /\ entry[IdOf[c]] = c /\ IdOf[c] \in Ids /\ c # NoCall
                   /\ ModelOf[c] = m
  BY DEF InferenceInv, EntriesAreCalls, InferenceAssumption, Upstream
<1>3. \A c \in S : IdOf[c] \in Counted(m)
  BY <1>2 DEF Counted
<1>4. \A c, d \in S : IdOf[c] = IdOf[d] => c = d
  BY <1>2
<1>5. f \in Injection(S, Counted(m))
  BY <1>3, <1>4 DEF Injection, IsInjective
<1>6. IsFiniteSet(S) /\ Cardinality(S) <= Cardinality(Counted(m))
  <2> HIDE DEF S, f
  <2> QED
    BY <1>1, <1>5, FS_Injection
<1>7. Cardinality(S) \in Nat /\ Cardinality(Counted(m)) \in Nat
  BY <1>1, <1>6, FS_CardinalityType
<1> QED
  BY <1>1, <1>6, <1>7

(* The entries and the calls under way agree, however ids are used again   *)
(* and calls end (agensis.mjs:696-722).                                    *)
THEOREM EntriesAgree == ASSUME InferenceAssumption PROVE Spec => []EntriesAreCalls
<1>1. Init => InferenceInv
  BY InferenceInit
<1>2. InferenceInv /\ [Next]_inferVars => InferenceInv'
  BY InferenceStep
<1>3. InferenceInv => EntriesAreCalls
  BY DEF InferenceInv
<1> QED
  BY <1>1, <1>2, <1>3, PTL DEF Spec

(* A model never serves more calls than it is shared for ...               *)
THEOREM CapacityHolds == ASSUME InferenceAssumption PROVE Spec => []WithinCapacity
<1>1. Init => InferenceInv
  BY InferenceInit
<1>2. InferenceInv /\ [Next]_inferVars => InferenceInv'
  BY InferenceStep
<1>3. InferenceInv => WithinCapacity
  BY EntriesBoundCalls
<1> QED
  BY <1>1, <1>2, <1>3, PTL DEF Spec

(* ... nor when the daemon has bridges, peers and viewers to serve, which  *)
(* see the socket come and go and leave the calls alone                    *)
(* (agensis.mjs:689-724).                                                  *)
THEOREM ServicesKeepCapacity ==
  ASSUME ServicesAssumption PROVE ServicesSpec => []WithinCapacity
<1> USE DEF ServicesAssumption
<1>1. ServicesInit => InferenceInv
  BY InferenceInit DEF ServicesInit
<1>2. InferenceInv /\ [ServicesNext]_serviceVars => InferenceInv'
  <2> SUFFICES ASSUME InferenceInv, [ServicesNext]_serviceVars PROVE InferenceInv'
    OBVIOUS
  <2>1. CASE Infers
    BY <2>1, InferenceStep DEF Infers
  <2>2. CASE UNCHANGED inferenceState
    <3>1. call' = call /\ entry' = entry
      BY <2>2 DEF inferenceState
    <3>2. CallsTyped' /\ Upstream' = Upstream
      BY <3>1 DEF InferenceInv, CallsTyped, Upstream
    <3> QED
      BY <3>1, <3>2, OtherwiseKeepsInv
  <2> QED
    BY <2>1, <2>2 DEF ServicesNext, Messages, Meshes, Serves, serviceVars
<1>3. InferenceInv => WithinCapacity
  BY EntriesBoundCalls
<1> QED
  BY <1>1, <1>2, <1>3, PTL DEF ServicesSpec

-----------------------------------------------------------------------------
(* Messenger bridges.  A connection counts while it is up, a timer while   *)
(* it is armed, and a frame that began a connection for good.              *)
Lines == 1..MaxConns

Up(b) == {c \in Lines : of[c] = b /\ conn[c] \in {"starting", "live"}}
Framed(b) == {c \in Lines : conn[c] # "none" /\ of[c] = b /\ by[c] = "frame"}

LinesTyped ==
  /\ active \in [Channels -> Lines \cup {0}]
  /\ DOMAIN conn = Lines /\ DOMAIN of = Lines /\ DOMAIN by = Lines
  /\ redials \in [Channels -> Nat]

(* The Map files a connection under its own bridge, once it was begun.     *)
Registered ==
  /\ \A b \in Channels : active[b] # 0 => of[active[b]] = b /\ conn[active[b]] # "none"
  /\ \A c \in Lines : conn[c] # "none" => of[c] \in Channels

Paid(b) == Cardinality(Up(b)) + redials[b] <= Cardinality(Framed(b))

MessengerInv == LinesTyped /\ Registered /\ \A b \in Channels : Paid(b)

LEMMA LinesAreFinite ==
  ASSUME MaxConns \in Nat, NEW b
  PROVE  /\ IsFiniteSet(Up(b)) /\ IsFiniteSet(Framed(b))
         /\ Cardinality(Up(b)) \in Nat /\ Cardinality(Framed(b)) \in Nat
<1>1. IsFiniteSet(Lines)
  BY FS_Interval DEF Lines
<1>2. IsFiniteSet(Up(b)) /\ IsFiniteSet(Framed(b))
  BY <1>1, FS_Subset DEF Up, Framed
<1> QED
  BY <1>2, FS_CardinalityType

LEMMA SameIsPaid ==
  ASSUME MaxConns \in Nat, LinesTyped, NEW b \in Channels, Paid(b),
         Up(b)' \subseteq Up(b), Framed(b) \subseteq Framed(b)', redials'[b] = redials[b]
  PROVE  Paid(b)'
<1>1. /\ Cardinality(Up(b)) \in Nat /\ Cardinality(Framed(b)) \in Nat
      /\ IsFiniteSet(Up(b)) /\ IsFiniteSet(Framed(b)')
      /\ Cardinality(Framed(b)') \in Nat
  <2>1. IsFiniteSet(Lines)
    BY FS_Interval DEF Lines
  <2>2. IsFiniteSet(Framed(b)')
    BY <2>1, FS_Subset DEF Framed
  <2> QED
    BY <2>2, LinesAreFinite, FS_CardinalityType
<1>2. Cardinality(Up(b)') <= Cardinality(Up(b)) /\ Cardinality(Up(b)') \in Nat
  BY <1>1, FS_Subset, FS_CardinalityType
<1>3. Cardinality(Framed(b)) <= Cardinality(Framed(b)')
  BY <1>1, FS_Subset
<1>4. redials[b] \in Nat
  BY DEF LinesTyped
<1> QED
  BY <1>1, <1>2, <1>3, <1>4 DEF Paid

LEMMA OneMore ==
  ASSUME NEW S, IsFiniteSet(S), NEW c, NEW T, T \subseteq S \cup {c}
  PROVE  Cardinality(T) <= Cardinality(S) + 1
<1>1. /\ IsFiniteSet(S \cup {c}) /\ Cardinality(S) \in Nat
      /\ Cardinality(S \cup {c}) \in {Cardinality(S), Cardinality(S) + 1}
  BY FS_AddElement, FS_CardinalityType
<1>2. IsFiniteSet(T) /\ Cardinality(T) <= Cardinality(S \cup {c})
  BY <1>1, FS_Subset
<1> QED
  BY <1>1, <1>2, FS_CardinalityType

LEMMA OneLess ==
  ASSUME NEW S, IsFiniteSet(S), NEW c \in S, NEW T, T \subseteq S \ {c}
  PROVE  Cardinality(T) + 1 <= Cardinality(S)
<1>1. /\ IsFiniteSet(S \ {c}) /\ Cardinality(S) \in Nat
      /\ Cardinality(S \ {c}) = Cardinality(S) - 1
  BY FS_RemoveElement, FS_CardinalityType
<1>2. IsFiniteSet(T) /\ Cardinality(T) <= Cardinality(S \ {c})
  BY <1>1, FS_Subset
<1> QED
  BY <1>1, <1>2, FS_CardinalityType

(* A connection that is lost pays for the timer it may arm.                *)
LEMMA LossIsPaid ==
  ASSUME MaxConns \in Nat, LinesTyped, NEW b \in Channels, Paid(b), NEW c \in Up(b),
         Up(b)' \subseteq Up(b) \ {c}, Framed(b) \subseteq Framed(b)',
         redials'[b] \in {redials[b], redials[b] + 1}
  PROVE  Paid(b)'
<1>1. IsFiniteSet(Lines)
  BY FS_Interval DEF Lines
<1>2. IsFiniteSet(Framed(b)') /\ IsFiniteSet(Up(b)')
  BY <1>1, FS_Subset DEF Framed, Up
<1>3. Cardinality(Up(b)') + 1 <= Cardinality(Up(b))
  BY LinesAreFinite, OneLess
<1>4. Cardinality(Framed(b)) <= Cardinality(Framed(b)')
  BY <1>2, FS_Subset
<1>5. /\ Cardinality(Up(b)) \in Nat /\ Cardinality(Up(b)') \in Nat /\ redials[b] \in Nat
      /\ Cardinality(Framed(b)) \in Nat /\ Cardinality(Framed(b)') \in Nat
  BY <1>2, LinesAreFinite, FS_CardinalityType DEF LinesTyped
<1> QED
  BY <1>3, <1>4, <1>5 DEF Paid

(* One that is begun is paid for by a timer or a frame.                    *)
LEMMA BeginningIsPaid ==
  ASSUME MaxConns \in Nat, LinesTyped, NEW b \in Channels, Paid(b), NEW c,
         Up(b)' \subseteq Up(b) \cup {c}, Framed(b) \subseteq Framed(b)',
         \/ redials'[b] = redials[b] - 1
         \/ redials'[b] = redials[b] /\ c \in Framed(b)' /\ c \notin Framed(b)
  PROVE  Paid(b)'
<1>1. IsFiniteSet(Lines)
  BY FS_Interval DEF Lines
<1>2. IsFiniteSet(Framed(b)') /\ IsFiniteSet(Up(b)')
  BY <1>1, FS_Subset DEF Framed, Up
<1>3. Cardinality(Up(b)') <= Cardinality(Up(b)) + 1
  BY LinesAreFinite, OneMore
<1>4. Cardinality(Framed(b)) <= Cardinality(Framed(b)')
  BY <1>2, FS_Subset
<1>5. c \in Framed(b)' /\ c \notin Framed(b) => Cardinality(Framed(b)) + 1 <= Cardinality(Framed(b)')
  BY <1>2, OneLess
<1>6. /\ Cardinality(Up(b)) \in Nat /\ Cardinality(Up(b)') \in Nat /\ redials[b] \in Nat
      /\ Cardinality(Framed(b)) \in Nat /\ Cardinality(Framed(b)') \in Nat
  BY <1>2, LinesAreFinite, FS_CardinalityType DEF LinesTyped
<1> QED
  BY <1>3, <1>4, <1>5, <1>6 DEF Paid

(* A connection is begun.                                                  *)
LEMMA BeginFacts ==
  ASSUME MessengerInv, NEW b \in Channels, NEW cause, Messengers!Begin(b, cause),
         active' = active
  PROVE  \E c \in Lines :
           /\ conn[c] = "none" /\ conn' = [conn EXCEPT ![c] = "starting"]
           /\ of' = [of EXCEPT ![c] = b] /\ by' = [by EXCEPT ![c] = cause]
           /\ Registered'
           /\ DOMAIN conn' = Lines /\ DOMAIN of' = Lines /\ DOMAIN by' = Lines
           /\ \A a \in Channels : Up(a)' \subseteq (IF a = b THEN Up(a) \cup {c} ELSE Up(a))
           /\ \A a \in Channels : Framed(a) \subseteq Framed(a)'
           /\ c \notin Framed(b) /\ (cause = "frame" => c \in Framed(b)')
<1>1. PICK c \in Lines : /\ conn[c] = "none" /\ conn' = [conn EXCEPT ![c] = "starting"]
                         /\ of' = [of EXCEPT ![c] = b] /\ by' = [by EXCEPT ![c] = cause]
  BY DEF Messengers!Begin, Messengers!Conns, Lines
<1>2. DOMAIN conn = Lines /\ DOMAIN of = Lines /\ DOMAIN by = Lines
  BY DEF MessengerInv, LinesTyped
<1>3. Registered'
  BY <1>1, <1>2 DEF MessengerInv, Registered, LinesTyped
<1>4. \A a \in Channels : Up(a)' \subseteq (IF a = b THEN Up(a) \cup {c} ELSE Up(a))
  BY <1>1, <1>2 DEF Up
<1>5. \A a \in Channels : Framed(a) \subseteq Framed(a)'
  BY <1>1, <1>2 DEF Framed
<1>6. c \notin Framed(b) /\ (cause = "frame" => c \in Framed(b)')
  BY <1>1, <1>2 DEF Framed
<1> QED
  BY <1>1, <1>2, <1>3, <1>4, <1>5, <1>6

(* The step leaves the connections as they are, or ends some without a     *)
(* timer.                                                                  *)
LEMMA QuietMessengers ==
  ASSUME MaxConns \in Nat, MessengerInv, LinesTyped', Registered',
         \A b \in Channels : Up(b)' \subseteq Up(b) /\ Framed(b) \subseteq Framed(b)',
         redials' = redials
  PROVE  MessengerInv'
BY SameIsPaid DEF MessengerInv

(* A connection that was up ends; its bridge may dial again.               *)
LEMMA LossKeepsInv ==
  ASSUME MaxConns \in Nat, MessengerInv, NEW b \in Channels, NEW c \in Lines,
         of[c] = b, conn[c] \in {"starting", "live"}, conn' = [conn EXCEPT ![c] = "dead"],
         UNCHANGED <<of, by>>, active' \in {active, [active EXCEPT ![b] = 0]},
         redials' \in {redials, [redials EXCEPT ![b] = @ + 1]}
  PROVE  MessengerInv'
<1>1. DOMAIN conn = Lines /\ LinesTyped
  BY DEF MessengerInv, LinesTyped
<1>2. LinesTyped'
  BY <1>1 DEF LinesTyped
<1>3. Registered'
  BY <1>1 DEF MessengerInv, Registered, LinesTyped
<1>4. \A a \in Channels : Up(a)' \subseteq Up(a) \ {c} /\ Framed(a) \subseteq Framed(a)'
  BY <1>1 DEF Up, Framed
<1>5. c \in Up(b)
  BY DEF Up
<1>6. Paid(b)'
  <2>1. redials'[b] \in {redials[b], redials[b] + 1}
    BY <1>1 DEF LinesTyped
  <2> QED
    BY <1>1, <1>4, <1>5, <2>1, LossIsPaid DEF MessengerInv
<1>7. ASSUME NEW a \in Channels \ {b} PROVE Paid(a)'
  <2>1. redials'[a] = redials[a]
    BY <1>1 DEF LinesTyped
  <2> QED
    BY <1>1, <1>4, <2>1, SameIsPaid DEF MessengerInv
<1> QED
  BY <1>2, <1>3, <1>6, <1>7 DEF MessengerInv

LEMMA MessengerStep ==
  ASSUME MaxConns \in Nat, MessengerInv, Messengers!Next
  PROVE  MessengerInv'
<1>0. LinesTyped /\ Registered
  BY DEF MessengerInv
<1>1. ASSUME NEW b \in Channels, Messengers!Start(b) PROVE MessengerInv'
  <2>1. Messengers!Begin(b, "frame") /\ UNCHANGED <<active, redials>>
    BY <1>1 DEF Messengers!Start
  <2>2. PICK c : /\ Registered'
                 /\ DOMAIN conn' = Lines /\ DOMAIN of' = Lines /\ DOMAIN by' = Lines
                 /\ \A a \in Channels : Up(a)' \subseteq (IF a = b THEN Up(a) \cup {c} ELSE Up(a))
                 /\ \A a \in Channels : Framed(a) \subseteq Framed(a)'
                 /\ c \notin Framed(b) /\ c \in Framed(b)'
    BY <2>1, BeginFacts
  <2>3. LinesTyped'
    BY <1>0, <2>1, <2>2 DEF LinesTyped
  <2>4. \A a \in Channels : Paid(a)'
    BY <1>0, <2>1, <2>2, SameIsPaid, BeginningIsPaid DEF MessengerInv
  <2> QED
    BY <2>2, <2>3, <2>4 DEF MessengerInv
<1>2. ASSUME NEW b \in Channels, Messengers!Redial(b) PROVE MessengerInv'
  <2>1. /\ Messengers!Begin(b, "redial") /\ active' = active
        /\ redials[b] > 0 /\ redials' = [redials EXCEPT ![b] = @ - 1]
    BY <1>2 DEF Messengers!Redial
  <2>2. PICK c : /\ Registered'
                 /\ DOMAIN conn' = Lines /\ DOMAIN of' = Lines /\ DOMAIN by' = Lines
                 /\ \A a \in Channels : Up(a)' \subseteq (IF a = b THEN Up(a) \cup {c} ELSE Up(a))
                 /\ \A a \in Channels : Framed(a) \subseteq Framed(a)'
    BY <2>1, BeginFacts
  <2>3. LinesTyped' /\ redials'[b] = redials[b] - 1 /\ \A a \in Channels \ {b} : redials'[a] = redials[a]
    BY <1>0, <2>1, <2>2 DEF LinesTyped
  <2>4. \A a \in Channels : Paid(a)'
    BY <1>0, <2>2, <2>3, SameIsPaid, BeginningIsPaid DEF MessengerInv
  <2> QED
    BY <2>2, <2>3, <2>4 DEF MessengerInv
<1>3. ASSUME NEW b \in Channels, Messengers!Stop(b) PROVE MessengerInv'
  <2> DEFINE c == active[b]
  <2>1. /\ c # 0 /\ active' = [active EXCEPT ![b] = 0] /\ conn' = [conn EXCEPT ![c] = "dead"]
        /\ UNCHANGED <<of, by>>
        /\ \/ conn[c] = "live" /\ redials' \in {redials, [redials EXCEPT ![b] = @ + 1]}
           \/ redials' = redials
    BY <1>3 DEF Messengers!Stop, Messengers!Redials, Messengers!NoConn
  <2>2. c \in Lines /\ of[c] = b /\ conn[c] # "none"
    BY <1>0, <2>1 DEF LinesTyped, Registered
  <2>3. CASE conn[c] \in {"starting", "live"}
    <3> HIDE DEF c
    <3> QED
      BY <2>1, <2>2, <2>3, LossKeepsInv
  <2>4. CASE conn[c] \notin {"starting", "live"}
    <3>1. LinesTyped' /\ redials' = redials
      BY <1>0, <2>1, <2>4 DEF LinesTyped
    <3>2. Registered'
      BY <1>0, <2>1, <2>2 DEF LinesTyped, Registered
    <3>3. \A a \in Channels : Up(a)' \subseteq Up(a) /\ Framed(a) \subseteq Framed(a)'
      BY <1>0, <2>1, <2>2 DEF LinesTyped, Up, Framed
    <3> QED
      BY <3>1, <3>2, <3>3, QuietMessengers
  <2> QED
    BY <2>3, <2>4
<1>4. ASSUME NEW b \in Channels, Messengers!Scan(b) \/ Messengers!Unlink(b) PROVE MessengerInv'
  <2>1. UNCHANGED <<active, conn, of, by, redials>>
    BY <1>4 DEF Messengers!Scan, Messengers!Unlink
  <2> QED
    BY <1>0, <2>1, QuietMessengers DEF LinesTyped, Registered, Up, Framed
<1>5. ASSUME NEW c \in Lines, Messengers!Started(c) PROVE MessengerInv'
  <2>1. /\ conn[c] = "starting" /\ conn' = [conn EXCEPT ![c] = "live"]
        /\ active' \in {active, [active EXCEPT ![of[c]] = c]} /\ UNCHANGED <<of, by, redials>>
    BY <1>0, <1>5 DEF Messengers!Started, LinesTyped
  <2>2. LinesTyped'
    BY <1>0, <2>1 DEF LinesTyped
  <2>3. Registered'
    BY <1>0, <2>1 DEF LinesTyped, Registered
  <2>4. \A a \in Channels : Up(a)' \subseteq Up(a) /\ Framed(a) \subseteq Framed(a)'
    BY <1>0, <2>1 DEF LinesTyped, Up, Framed
  <2> QED
    BY <2>1, <2>2, <2>3, <2>4, QuietMessengers
<1>6. ASSUME NEW c \in Lines, Messengers!StartFails(c) PROVE MessengerInv'
  <2>1. /\ conn[c] = "starting" /\ conn' = [conn EXCEPT ![c] = "dead"]
        /\ UNCHANGED <<active, of, by, redials>>
    BY <1>6 DEF Messengers!StartFails
  <2> QED
    BY <1>0, <2>1, LossKeepsInv DEF Registered
<1>7. ASSUME NEW c \in Lines, NEW loggedOut \in BOOLEAN, Messengers!Dies(c, loggedOut)
      PROVE  MessengerInv'
  <2>1. /\ conn[c] = "live" /\ conn' = [conn EXCEPT ![c] = "dead"]
        /\ UNCHANGED <<active, of, by>>
        /\ redials' \in {redials, [redials EXCEPT ![of[c]] = @ + 1]}
    BY <1>7 DEF Messengers!Dies, Messengers!Redials
  <2> QED
    BY <1>0, <2>1, LossKeepsInv DEF Registered
<1>8. ASSUME UNCHANGED <<active, conn, of, by, redials>> PROVE MessengerInv'
  BY <1>0, <1>8, QuietMessengers DEF LinesTyped, Registered, Up, Framed
<1>9. ASSUME NEW p \in Posts, Messengers!Send(p) \/ Messengers!Answers(p) \/ Messengers!TimesOut(p)
      PROVE  MessengerInv'
  <2>1. UNCHANGED <<active, conn, of, by, redials>>
    BY <1>9 DEF Messengers!Send, Messengers!Answers, Messengers!TimesOut, Messengers!Posted
  <2> QED
    BY <2>1, <1>8
<1>10. ASSUME Messengers!SocketTurns PROVE MessengerInv'
  BY <1>8, <1>10 DEF Messengers!SocketTurns
<1> QED
  BY <1>1, <1>2, <1>3, <1>4, <1>5, <1>6, <1>7, <1>9, <1>10
     DEF Messengers!Next, Messengers!Conns, Lines

LEMMA MessengerInit == ASSUME MaxConns \in Nat, Messengers!Init PROVE MessengerInv
<1>1. LinesTyped /\ Registered
  BY DEF Messengers!Init, Messengers!NoConn, Messengers!Conns, Lines, LinesTyped, Registered
<1>2. ASSUME NEW b \in Channels PROVE Paid(b)
  <2>1. Up(b) = {} /\ redials[b] = 0
    BY DEF Messengers!Init, Messengers!Conns, Lines, Up
  <2>2. Cardinality(Up(b)) = 0
    BY <2>1, FS_EmptySet
  <2> QED
    BY <2>1, <2>2, LinesAreFinite DEF Paid
<1> QED
  BY <1>1, <1>2 DEF MessengerInv

(* Reconnecting does not multiply, for any number of bridges, connections  *)
(* and timers: a bridge never has more of them, up or due, than frames     *)
(* that began one (bridges.mjs:58-74).                                     *)
THEOREM ReconnectsDoNotMultiply ==
  ASSUME ServicesAssumption PROVE ServicesSpec => []OneLinePerStart
<1> USE DEF ServicesAssumption
<1>1. ServicesInit => MessengerInv
  BY MessengerInit DEF ServicesInit
<1>2. MessengerInv /\ [ServicesNext]_serviceVars => MessengerInv'
  <2> SUFFICES ASSUME MessengerInv, [ServicesNext]_serviceVars PROVE MessengerInv'
    OBVIOUS
  <2>1. CASE Messages
    BY <2>1, MessengerStep DEF Messages
  <2>2. CASE UNCHANGED <<active, conn, of, by, redials>>
    BY <2>2, QuietMessengers DEF MessengerInv, LinesTyped, Registered, Up, Framed
  <2> QED
    <3>1. ASSUME UNCHANGED messengerState PROVE UNCHANGED <<active, conn, of, by, redials>>
      BY <3>1 DEF messengerState
    <3> QED
      BY <2>1, <2>2, <3>1 DEF ServicesNext, Infers, Meshes, Serves, serviceVars
<1>3. MessengerInv => OneLinePerStart
  <2>1. \A S : Messengers!Cardinality(S) = Cardinality(S)
    BY DEF Messengers!Cardinality, Cardinality
  <2>2. \A b : Messengers!Up(b) = Up(b)
    BY DEF Messengers!Up, Messengers!Conns, Up, Lines
  <2> QED
    BY <2>1, <2>2 DEF MessengerInv, Paid, Framed, OneLinePerStart, Messengers!OneLinePerStart,
                      Messengers!Conns, Lines
<1> QED
  BY <1>1, <1>2, <1>3, PTL DEF ServicesSpec

-----------------------------------------------------------------------------
(* Hand-offs.  Lists of waiters and tickets on their way have nothing      *)
(* twice.                                                                  *)
Apart(s) == \A i, j \in 1..Len(s) : s[i] = s[j] => i = j
In(s, e) == \E i \in 1..Len(s) : s[i] = e

LEMMA TailApart ==
  ASSUME NEW S, NEW s \in Seq(S), Apart(s), s # << >>
  PROVE  /\ Tail(s) \in Seq(S) /\ Apart(Tail(s)) /\ Head(s) \in S /\ In(s, Head(s))
         /\ \A e : In(Tail(s), e) <=> In(s, e) /\ e # Head(s)
<1>1. /\ Tail(s) \in Seq(S) /\ Len(Tail(s)) = Len(s) - 1 /\ Len(s) \in Nat \ {0}
      /\ \A i \in 1..Len(Tail(s)) : Tail(s)[i] = s[i + 1]
      /\ Head(s) = s[1] /\ Head(s) \in S
  BY HeadTailProperties
<1>2. Apart(Tail(s))
  BY <1>1 DEF Apart
<1>3. ASSUME NEW e, In(Tail(s), e) PROVE In(s, e) /\ e # Head(s)
  <2>1. PICK i \in 1..Len(Tail(s)) : Tail(s)[i] = e
    BY <1>3 DEF In
  <2>2. i + 1 \in 1..Len(s) /\ s[i + 1] = e /\ 1 \in 1..Len(s) /\ i + 1 # 1
    BY <1>1, <2>1
  <2> QED
    BY <1>1, <2>2 DEF In, Apart
<1>4. ASSUME NEW e, In(s, e), e # Head(s) PROVE In(Tail(s), e)
  <2>1. PICK i \in 1..Len(s) : s[i] = e
    BY <1>4 DEF In
  <2>2. i - 1 \in 1..Len(Tail(s)) /\ Tail(s)[i - 1] = e
    BY <1>1, <1>4, <2>1
  <2> QED
    BY <2>2 DEF In
<1> QED
  BY <1>1, <1>2, <1>3, <1>4 DEF In

LEMMA AppendFacts ==
  ASSUME NEW S, NEW s \in Seq(S), NEW e \in S
  PROVE  /\ Append(s, e) \in Seq(S) /\ Len(Append(s, e)) = Len(s) + 1 /\ Len(s) \in Nat
         /\ Append(s, e)[Len(s) + 1] = e /\ \A i \in 1..Len(s) : Append(s, e)[i] = s[i]
OBVIOUS

LEMMA AppendApart ==
  ASSUME NEW S, NEW s \in Seq(S), Apart(s), NEW e \in S, ~ In(s, e)
  PROVE  /\ Append(s, e) \in Seq(S) /\ Apart(Append(s, e))
         /\ \A d : In(Append(s, e), d) <=> In(s, d) \/ d = e
<1> DEFINE t == Append(s, e)
<1>1. /\ t \in Seq(S) /\ Len(t) = Len(s) + 1 /\ Len(s) \in Nat
      /\ t[Len(s) + 1] = e /\ \A i \in 1..Len(s) : t[i] = s[i]
  BY AppendFacts
<1> HIDE DEF t
<1>2. Apart(t)
  BY <1>1 DEF Apart, In
<1>3. \A d : In(t, d) <=> In(s, d) \/ d = e
  BY <1>1 DEF In
<1> QED
  BY <1>1, <1>2, <1>3 DEF t

(* indexOf() and splice().                                                 *)
LEMMA RemoveApart ==
  ASSUME NEW S, NEW s \in Seq(S), Apart(s), NEW e, In(s, e)
  PROVE  /\ Mesh!RemoveFirst(s, e) \in Seq(S) /\ Apart(Mesh!RemoveFirst(s, e))
         /\ \A d : In(Mesh!RemoveFirst(s, e), d) <=> In(s, d) /\ d # e
<1>1. PICK k \in 1..Len(s) : s[k] = e
  BY DEF In
<1>2. {i \in 1..Len(s) : s[i] = e} = {k}
  BY <1>1 DEF Apart
<1>3. Mesh!SelectInSeq(s, LAMBDA v : v = e) = k
  BY <1>2 DEF Mesh!SelectInSeq, Mesh!Min
<1>4. Mesh!RemoveFirst(s, e) = SubSeq(s, 1, k - 1) \o SubSeq(s, k + 1, Len(s))
  BY <1>1, <1>3 DEF Mesh!RemoveFirst, Mesh!RemoveAt
<1> DEFINE left == SubSeq(s, 1, k - 1)
           right == SubSeq(s, k + 1, Len(s))
           t == left \o right
<1>5. /\ left \in Seq(S) /\ Len(left) = k - 1
      /\ \A i \in 1..Len(left) : left[i] = s[i]
  <2>1. \A i \in 1..(k - 1) : s[i] \in S
    BY ElementOfSeq
  <2> QED
    BY <2>1, SubSeqProperties
<1>6. /\ right \in Seq(S) /\ Len(right) = Len(s) - k
      /\ \A i \in 1..Len(right) : right[i] = s[k + i]
  <2>1. \A i \in (k + 1)..Len(s) : s[i] \in S
    BY ElementOfSeq
  <2> QED
    BY <2>1, SubSeqProperties
<1> HIDE DEF left, right
<1>7. /\ t \in Seq(S) /\ Len(t) = Len(s) - 1
      /\ \A i \in 1..Len(t) : t[i] = IF i < k THEN s[i] ELSE s[i + 1]
  <2>1. /\ t \in Seq(S) /\ Len(t) = Len(left) + Len(right)
        /\ \A i \in 1..(Len(left) + Len(right)) :
             t[i] = IF i <= Len(left) THEN left[i] ELSE right[i - Len(left)]
    BY <1>5, <1>6, ConcatProperties
  <2>2. Len(s) \in Nat /\ k \in 1..Len(s)
    BY LenProperties
  <2>3. Len(left) + Len(right) = Len(s) - 1
    BY <1>5, <1>6, <2>2
  <2> HIDE DEF t
  <2>4. ASSUME NEW i \in 1..Len(t) PROVE t[i] = IF i < k THEN s[i] ELSE s[i + 1]
    <3>1. CASE i < k
      <4>1. i \in 1..Len(left) /\ i <= Len(left)
        BY <1>5, <2>2, <3>1
      <4> QED
        BY <1>5, <2>1, <3>1, <4>1
    <3>2. CASE ~ (i < k)
      <4>1. /\ ~ (i <= Len(left)) /\ i - Len(left) \in 1..Len(right)
            /\ k + (i - Len(left)) = i + 1
        BY <1>5, <1>6, <2>1, <2>2, <2>3, <3>2
      <4> QED
        BY <1>6, <2>1, <3>2, <4>1
    <3> QED
      BY <3>1, <3>2
  <2> QED
    BY <2>1, <2>3, <2>4
<1> HIDE DEF t
<1>0. /\ Len(s) \in Nat
      /\ \A i \in 1..Len(t) : /\ (IF i < k THEN i ELSE i + 1) \in 1..Len(s) \ {k}
                               /\ t[i] = s[IF i < k THEN i ELSE i + 1]
  <2>1. Len(s) \in Nat
    BY LenProperties
  <2> QED
    BY <1>7, <2>1
<1>8. Apart(t)
  <2> SUFFICES ASSUME NEW i \in 1..Len(t), NEW j \in 1..Len(t), t[i] = t[j] PROVE i = j
    BY DEF Apart
  <2>1. (IF i < k THEN i ELSE i + 1) = (IF j < k THEN j ELSE j + 1)
    BY <1>0 DEF Apart
  <2>2. i \in Int /\ j \in Int /\ k \in Int
    BY <1>0, <1>7
  <2> QED
    BY <2>1, <2>2
<1>9. ASSUME NEW d, In(t, d) PROVE In(s, d) /\ d # e
  BY <1>0, <1>1, <1>9 DEF In, Apart
<1>10. ASSUME NEW d, In(s, d), d # e PROVE In(t, d)
  <2>1. PICK i \in 1..Len(s) : s[i] = d
    BY <1>10 DEF In
  <2>0. Len(s) \in Nat
    BY LenProperties
  <2>2. CASE i < k
    <3>1. i \in 1..Len(t) /\ t[i] = d
      BY <1>7, <2>0, <2>1, <2>2
    <3> QED
      BY <3>1 DEF In
  <2>3. CASE i > k
    <3>1. i - 1 \in 1..Len(t) /\ t[i - 1] = d
      BY <1>7, <2>0, <2>1, <2>3
    <3> QED
      BY <3>1 DEF In
  <2> QED
    BY <1>1, <1>10, <2>1, <2>2, <2>3
<1> QED
  BY <1>4, <1>7, <1>8, <1>9, <1>10 DEF left, right, t

MeshTyped ==
  /\ stage \in [Handoffs -> {"new", "listing", "ticketing", "dialling", "true", "false"}]
  /\ ticket \in [Handoffs -> SUBSET Handoffs]
  /\ listWaiters \in Seq(Handoffs) /\ ticketWaiters \in Seq(Handoffs)
  /\ tickets \in Seq(Handoffs)
  /\ DOMAIN grants = Handoffs /\ DOMAIN socket = Handoffs
  /\ mail \in [Handoffs -> Seq({"peer_auth", "agent_job"})]
  /\ ran \subseteq Handoffs

(* A hand-off is in the list of what it waits for, once.                   *)
Listed ==
  /\ Apart(listWaiters) /\ \A h \in Handoffs : In(listWaiters, h) <=> stage[h] = "listing"
  /\ Apart(ticketWaiters) /\ \A h \in Handoffs : In(ticketWaiters, h) <=> stage[h] = "ticketing"

(* A ticket is in one place, and was issued to one that asked.             *)
TicketsApart ==
  /\ Apart(tickets)
  /\ \A t \in Handoffs : In(tickets, t) => stage[t] \notin {"new", "listing"}
  /\ \A h \in Handoffs : \A t \in ticket[h] :
       /\ stage[t] \notin {"new", "listing"} /\ ~ In(tickets, t)
       /\ \A g \in Handoffs \ {h} : t \notin ticket[g]

(* Only one that dialled is heard, and by the ticket it was given.         *)
HeardByTicket ==
  \A h \in Handoffs :
    /\ stage[h] \in {"dialling", "true"} => ticket[h] # {}
    /\ stage[h] # "true" => mail[h] = << >> /\ h \notin ran /\ socket[h] # "authed"
    /\ socket[h] = "authed" \/ h \in ran => \E t \in ticket[h] : grants[t] = "used"

MeshInv == MeshTyped /\ Listed /\ TicketsApart /\ HeardByTicket

(* The callee's side of a step.                                            *)
LEMMA CalleeKeepsInv ==
  ASSUME MeshInv, UNCHANGED <<stage, ticket, listWaiters, ticketWaiters, tickets>>,
         MeshTyped', HeardByTicket'
  PROVE  MeshInv'
BY DEF MeshInv, Listed, TicketsApart, In, Apart

(* A hand-off moves on before it has dialled, or gives up.                 *)
LEMMA AskingIsUnheard ==
  ASSUME MeshInv, NEW h \in Handoffs, stage[h] # "true",
         stage' = [stage EXCEPT ![h] = "listing"] \/ stage' = [stage EXCEPT ![h] = "ticketing"]
           \/ stage' = [stage EXCEPT ![h] = "false"],
         UNCHANGED <<ticket, mail, ran>>,
         \A g \in Handoffs : grants[g] = "used" => grants'[g] = "used",
         \A g \in Handoffs : socket'[g] = "authed" => socket[g] = "authed"
  PROVE  HeardByTicket'
BY DEF MeshInv, MeshTyped, HeardByTicket

LEMMA AskStep ==
  ASSUME MeshInv, NEW h \in Handoffs, Mesh!Ask(h)
  PROVE  MeshInv'
<1>1. /\ MeshTyped /\ Listed /\ TicketsApart /\ stage[h] = "new"
      /\ UNCHANGED <<ticket, ticketWaiters, tickets, grants, socket, mail, ran>>
  BY DEF MeshInv, Mesh!Ask, Mesh!calleeVars
<1>2. CASE stage' = [stage EXCEPT ![h] = "false"] /\ listWaiters' = listWaiters
  <2>1. MeshTyped' /\ Listed'
    BY <1>1, <1>2 DEF MeshTyped, Listed, In, Apart
  <2>2. TicketsApart'
    BY <1>1, <1>2 DEF MeshTyped, TicketsApart, In, Apart
  <2> QED
    BY <1>1, <1>2, <2>1, <2>2, AskingIsUnheard DEF MeshInv
<1>3. CASE stage' = [stage EXCEPT ![h] = "listing"] /\ listWaiters' = Append(listWaiters, h)
  <2>0. /\ listWaiters' \in Seq(Handoffs) /\ Apart(listWaiters')
        /\ \A d : In(listWaiters', d) <=> In(listWaiters, d) \/ d = h
    BY <1>1, <1>3, AppendApart DEF MeshTyped, Listed
  <2>1. MeshTyped'
    BY <1>1, <1>3, <2>0 DEF MeshTyped
  <2>2. Listed'
    BY <1>1, <1>3, <2>0 DEF MeshTyped, Listed
  <2>3. TicketsApart'
    BY <1>1, <1>3 DEF MeshTyped, TicketsApart, In, Apart
  <2> QED
    BY <1>1, <1>3, <2>1, <2>2, <2>3, AskingIsUnheard DEF MeshInv
<1> QED
  BY <1>2, <1>3 DEF Mesh!Ask, Mesh!Goes

LEMMA ListAnsweredStep ==
  ASSUME MeshInv, Mesh!ListAnswered
  PROVE  MeshInv'
<1>1. /\ MeshTyped /\ Listed /\ TicketsApart
      /\ UNCHANGED <<ticket, socket, mail, ran>>
  BY DEF MeshInv, Mesh!ListAnswered
<1>2. CASE listWaiters = << >>
  <2>1. UNCHANGED <<stage, listWaiters, ticketWaiters, tickets, grants>>
    BY <1>2 DEF Mesh!ListAnswered
  <2>2. MeshTyped' /\ HeardByTicket'
    BY <1>1, <2>1 DEF MeshInv, MeshTyped, HeardByTicket
  <2> QED
    BY <1>1, <2>1, <2>2, CalleeKeepsInv
<1>3. CASE listWaiters # << >>
  <2> DEFINE h == Head(listWaiters)
  <2>1. /\ listWaiters' \in Seq(Handoffs) /\ Apart(listWaiters') /\ h \in Handoffs
        /\ \A d : In(listWaiters', d) <=> In(listWaiters, d) /\ d # h
        /\ stage[h] = "listing"
    <3>1. listWaiters' = Tail(listWaiters)
      BY <1>3 DEF Mesh!ListAnswered
    <3> QED
      BY <1>1, <1>3, <3>1, TailApart DEF MeshTyped, Listed
  <2>2. \/ /\ stage' = [stage EXCEPT ![h] = "false"]
           /\ UNCHANGED <<ticketWaiters, tickets, grants>>
        \/ /\ stage' = [stage EXCEPT ![h] = "ticketing"]
           /\ ticketWaiters' = Append(ticketWaiters, h)
           /\ \/ tickets' = Append(tickets, h) /\ grants' = [grants EXCEPT ![h] = "sent"]
              \/ UNCHANGED <<tickets, grants>>
    BY <1>3 DEF Mesh!ListAnswered, Mesh!Goes
  <2> HIDE DEF h
  <2>3. CASE stage' = [stage EXCEPT ![h] = "false"] /\ UNCHANGED <<ticketWaiters, tickets, grants>>
    <3>1. MeshTyped'
      BY <1>1, <2>1, <2>3 DEF MeshTyped
    <3>2. Listed'
      BY <1>1, <2>1, <2>3 DEF MeshTyped, Listed
    <3>3. TicketsApart'
      BY <1>1, <2>3 DEF MeshTyped, TicketsApart
    <3> QED
      BY <1>1, <2>1, <2>3, <3>1, <3>2, <3>3, AskingIsUnheard DEF MeshInv
  <2>4. CASE stage' = [stage EXCEPT ![h] = "ticketing"] /\ ticketWaiters' = Append(ticketWaiters, h)
    <3>0. /\ ticketWaiters' \in Seq(Handoffs) /\ Apart(ticketWaiters')
          /\ \A d : In(ticketWaiters', d) <=> In(ticketWaiters, d) \/ d = h
      <4>1. ~ In(ticketWaiters, h)
        BY <1>1, <2>1 DEF Listed
      <4> QED
        BY <1>1, <2>1, <2>4, <4>1, AppendApart DEF MeshTyped, Listed
    <3>1. Listed'
      BY <1>1, <2>1, <2>4, <3>0 DEF MeshTyped, Listed
    <3>2. CASE UNCHANGED <<tickets, grants>>
      <4>1. MeshTyped'
        BY <1>1, <2>1, <2>4, <3>0, <3>2 DEF MeshTyped
      <4>2. TicketsApart'
        BY <1>1, <2>4, <3>2 DEF MeshTyped, TicketsApart
      <4> QED
        BY <1>1, <2>1, <2>4, <3>1, <3>2, <4>1, <4>2, AskingIsUnheard DEF MeshInv
    <3>3. CASE tickets' = Append(tickets, h) /\ grants' = [grants EXCEPT ![h] = "sent"]
      <4>1. ~ In(tickets, h) /\ \A g \in Handoffs : h \notin ticket[g]
        BY <1>1, <2>1 DEF TicketsApart
      <4>2. /\ tickets' \in Seq(Handoffs) /\ Apart(tickets')
            /\ \A d : In(tickets', d) <=> In(tickets, d) \/ d = h
        BY <1>1, <2>1, <3>3, <4>1, AppendApart DEF MeshTyped, TicketsApart
      <4>3. MeshTyped'
        BY <1>1, <2>1, <2>4, <3>0, <3>3, <4>2 DEF MeshTyped
      <4>4. TicketsApart'
        BY <1>1, <2>1, <2>4, <4>1, <4>2 DEF MeshTyped, TicketsApart
      <4>5. HeardByTicket'
        <5>1. \A g \in Handoffs : \A t \in ticket[g] : t # h
          BY <4>1
        <5> QED
          BY <1>1, <2>1, <2>4, <3>3, <5>1 DEF MeshInv, MeshTyped, HeardByTicket
      <4> QED
        BY <3>1, <4>3, <4>4, <4>5 DEF MeshInv
    <3> QED
      BY <2>1, <2>2, <2>4, <3>2, <3>3 DEF MeshTyped
  <2> QED
    BY <2>2, <2>3, <2>4
<1> QED
  BY <1>2, <1>3

LEMMA TicketAnsweredStep ==
  ASSUME MeshInv, Mesh!TicketAnswered
  PROVE  MeshInv'
<1>1. /\ MeshTyped /\ Listed /\ TicketsApart /\ HeardByTicket
      /\ UNCHANGED <<listWaiters, grants, socket, mail, ran>>
  BY DEF MeshInv, Mesh!TicketAnswered, Mesh!calleeVars
<1> DEFINE t == Head(tickets)
<1>2. /\ tickets' \in Seq(Handoffs) /\ Apart(tickets') /\ t \in Handoffs /\ In(tickets, t)
      /\ \A d : In(tickets', d) <=> In(tickets, d) /\ d # t
  <2>1. tickets # << >> /\ tickets' = Tail(tickets)
    BY DEF Mesh!TicketAnswered
  <2> QED
    BY <1>1, <2>1, TailApart DEF MeshTyped, TicketsApart
<1>3. CASE ticketWaiters = << >>
  <2>1. UNCHANGED <<stage, ticket, ticketWaiters>>
    BY <1>3 DEF Mesh!TicketAnswered
  <2>2. MeshTyped' /\ HeardByTicket'
    BY <1>1, <1>2, <2>1 DEF MeshTyped, HeardByTicket
  <2>3. Listed'
    BY <1>1, <2>1 DEF Listed
  <2>4. TicketsApart'
    BY <1>1, <1>2, <2>1 DEF TicketsApart, MeshTyped
  <2> QED
    BY <2>2, <2>3, <2>4 DEF MeshInv
<1>4. CASE ticketWaiters # << >>
  <2> DEFINE h == Head(ticketWaiters)
  <2>1. /\ ticketWaiters' \in Seq(Handoffs) /\ Apart(ticketWaiters') /\ h \in Handoffs
        /\ \A d : In(ticketWaiters', d) <=> In(ticketWaiters, d) /\ d # h
        /\ stage[h] = "ticketing"
    <3>1. ticketWaiters' = Tail(ticketWaiters)
      BY <1>4 DEF Mesh!TicketAnswered
    <3> QED
      BY <1>1, <1>4, <3>1, TailApart DEF MeshTyped, Listed
  <2>2. /\ ticket' = [ticket EXCEPT ![h] = {t}]
        /\ \E to \in {"dialling", "false"} : stage' = [stage EXCEPT ![h] = to]
    BY <1>4 DEF Mesh!TicketAnswered, Mesh!Goes
  <2> HIDE DEF h, t
  <2>3. MeshTyped'
    BY <1>1, <1>2, <2>1, <2>2 DEF MeshTyped
  <2>4. Listed'
    BY <1>1, <2>1, <2>2 DEF MeshTyped, Listed
  <2>5. TicketsApart'
    <3>1. stage[t] \notin {"new", "listing"} /\ \A g \in Handoffs : t \notin ticket[g]
      BY <1>1, <1>2 DEF TicketsApart
    <3>2. \A g \in Handoffs : stage[g] \notin {"new", "listing"} => stage'[g] \notin {"new", "listing"}
      BY <1>1, <2>1, <2>2 DEF MeshTyped
    <3>3. ticket'[h] = {t} /\ \A g \in Handoffs \ {h} : ticket'[g] = ticket[g]
      BY <1>1, <2>1, <2>2 DEF MeshTyped
    <3>4. \A g \in Handoffs : ticket[g] \subseteq Handoffs
      BY <1>1 DEF MeshTyped
    <3> QED
      BY <1>1, <1>2, <2>1, <3>1, <3>2, <3>3, <3>4 DEF TicketsApart
  <2>6. HeardByTicket'
    BY <1>1, <2>1, <2>2 DEF MeshTyped, HeardByTicket
  <2> QED
    BY <2>3, <2>4, <2>5, <2>6 DEF MeshInv
<1> QED
  BY <1>3, <1>4

(* A wait that times out leaves its list.                                  *)
LEMMA TimeoutStep ==
  ASSUME MeshInv, NEW h \in Handoffs, Mesh!ListTimesOut(h) \/ Mesh!TicketTimesOut(h)
  PROVE  MeshInv'
<1>1. /\ MeshTyped /\ Listed /\ TicketsApart /\ stage' = [stage EXCEPT ![h] = "false"]
      /\ stage[h] \in {"listing", "ticketing"}
      /\ UNCHANGED <<ticket, tickets, grants, socket, mail, ran>>
  BY DEF MeshInv, Mesh!ListTimesOut, Mesh!TicketTimesOut, Mesh!Goes, Mesh!calleeVars
<1>2. /\ listWaiters' \in Seq(Handoffs) /\ Apart(listWaiters')
      /\ ticketWaiters' \in Seq(Handoffs) /\ Apart(ticketWaiters')
      /\ \A d \in Handoffs : In(listWaiters', d) <=> In(listWaiters, d) /\ d # h
      /\ \A d \in Handoffs : In(ticketWaiters', d) <=> In(ticketWaiters, d) /\ d # h
  <2>1. CASE Mesh!ListTimesOut(h)
    <3>1. /\ listWaiters' = Mesh!RemoveFirst(listWaiters, h) /\ ticketWaiters' = ticketWaiters
          /\ In(listWaiters, h) /\ ~ In(ticketWaiters, h)
      BY <1>1, <2>1 DEF Mesh!ListTimesOut, Listed
    <3> QED
      BY <1>1, <3>1, RemoveApart DEF MeshTyped, Listed
  <2>2. CASE Mesh!TicketTimesOut(h)
    <3>1. /\ ticketWaiters' = Mesh!RemoveFirst(ticketWaiters, h) /\ listWaiters' = listWaiters
          /\ In(ticketWaiters, h) /\ ~ In(listWaiters, h)
      BY <1>1, <2>2 DEF Mesh!TicketTimesOut, Listed
    <3> QED
      BY <1>1, <3>1, RemoveApart DEF MeshTyped, Listed
  <2> QED
    BY <2>1, <2>2
<1>3. MeshTyped'
  BY <1>1, <1>2 DEF MeshTyped
<1>4. Listed'
  BY <1>1, <1>2 DEF MeshTyped, Listed
<1>5. TicketsApart'
  BY <1>1 DEF MeshTyped, TicketsApart
<1> QED
  BY <1>1, <1>3, <1>4, <1>5, AskingIsUnheard DEF MeshInv

(* The frames go out with the end of the hand-off, or never.               *)
LEMMA DialStep ==
  ASSUME MeshInv, NEW h \in Handoffs, Mesh!Dials(h) \/ Mesh!DialFails(h)
  PROVE  MeshInv'
<1>1. /\ MeshTyped /\ Listed /\ TicketsApart /\ stage[h] = "dialling"
      /\ UNCHANGED <<ticket, listWaiters, ticketWaiters, tickets, grants, ran>>
      /\ socket' \in {socket, [socket EXCEPT ![h] = "open"]}
  BY DEF MeshInv, Mesh!Dials, Mesh!DialFails, Mesh!Accepts
<1>2. \/ stage' = [stage EXCEPT ![h] = "false"] /\ mail' = mail
      \/ /\ stage' = [stage EXCEPT ![h] = "true"]
         /\ mail' = [mail EXCEPT ![h] = <<"peer_auth", "agent_job">>]
  BY DEF Mesh!Dials, Mesh!DialFails, Mesh!Goes
<1>3. MeshTyped'
  <2>1. <<"peer_auth", "agent_job">> \in Seq({"peer_auth", "agent_job"})
    OBVIOUS
  <2>2. mail' \in [Handoffs -> Seq({"peer_auth", "agent_job"})]
    BY <1>1, <1>2, <2>1 DEF MeshTyped
  <2>3. DOMAIN socket' = Handoffs /\ DOMAIN grants' = Handoffs
    BY <1>1 DEF MeshTyped
  <2>4. stage' \in [Handoffs -> {"new", "listing", "ticketing", "dialling", "true", "false"}]
    BY <1>1, <1>2 DEF MeshTyped
  <2> QED
    BY <1>1, <2>2, <2>3, <2>4 DEF MeshTyped
<1>4. Listed'
  BY <1>1, <1>2 DEF MeshTyped, Listed
<1>5. TicketsApart'
  BY <1>1, <1>2 DEF MeshTyped, TicketsApart
<1>6. HeardByTicket'
  BY <1>1, <1>2 DEF MeshInv, MeshTyped, HeardByTicket
<1> QED
  BY <1>3, <1>4, <1>5, <1>6 DEF MeshInv

LEMMA CalleeStep ==
  ASSUME MeshInv, NEW h \in Handoffs,
         \/ Mesh!GrantArrives(h) \/ Mesh!GrantExpires(h) \/ Mesh!AuthArrives(h)
         \/ Mesh!JobArrives(h) \/ Mesh!PeerCloses(h)
  PROVE  MeshInv'
<1>1. MeshTyped /\ HeardByTicket
  BY DEF MeshInv
<1>2. UNCHANGED <<stage, ticket, listWaiters, ticketWaiters, tickets>>
  BY DEF Mesh!GrantArrives, Mesh!GrantExpires, Mesh!AuthArrives, Mesh!JobArrives,
         Mesh!PeerCloses, Mesh!askVars
<1>3. MeshTyped' /\ HeardByTicket'
  <2>1. CASE Mesh!GrantArrives(h) \/ Mesh!GrantExpires(h)
    BY <1>1, <1>2, <2>1 DEF Mesh!GrantArrives, Mesh!GrantExpires, MeshTyped, HeardByTicket
  <2>2. CASE Mesh!AuthArrives(h)
    <3> DEFINE t == CHOOSE t \in ticket[h] : TRUE
    <3>1. mail[h] # << >> /\ stage[h] = "true" /\ t \in ticket[h] /\ t \in Handoffs
      BY <1>1, <2>2 DEF Mesh!AuthArrives, MeshTyped, HeardByTicket
    <3>2. /\ mail' = [mail EXCEPT ![h] = Tail(@)] /\ ran' = ran
          /\ \/ /\ grants' = [grants EXCEPT ![t] = "used"]
                /\ socket' = [socket EXCEPT ![h] = "authed"]
             \/ grants' = grants /\ socket' = [socket EXCEPT ![h] = "closed"]
      BY <2>2 DEF Mesh!AuthArrives
    <3> HIDE DEF t
    <3>3. Tail(mail[h]) \in Seq({"peer_auth", "agent_job"})
      BY <1>1, <3>1 DEF MeshTyped
    <3>4. MeshTyped'
      BY <1>1, <1>2, <3>2, <3>3 DEF MeshTyped
    <3>5. HeardByTicket'
      BY <1>1, <1>2, <3>1, <3>2 DEF MeshTyped, HeardByTicket
    <3> QED
      BY <3>4, <3>5
  <2>3. CASE Mesh!JobArrives(h)
    <3>1. /\ mail[h] # << >> /\ mail' = [mail EXCEPT ![h] = Tail(@)] /\ ran' = ran \cup {h}
          /\ socket[h] = "authed" /\ UNCHANGED <<grants, socket>>
      BY <2>3 DEF Mesh!JobArrives
    <3>2. Tail(mail[h]) \in Seq({"peer_auth", "agent_job"})
      BY <1>1, <3>1 DEF MeshTyped
    <3>3. MeshTyped'
      BY <1>1, <1>2, <3>1, <3>2 DEF MeshTyped
    <3>4. HeardByTicket'
      BY <1>1, <1>2, <3>1 DEF MeshTyped, HeardByTicket
    <3> QED
      BY <3>3, <3>4
  <2>4. CASE Mesh!PeerCloses(h)
    BY <1>1, <1>2, <2>4 DEF Mesh!PeerCloses, MeshTyped, HeardByTicket
  <2> QED
    BY <2>1, <2>2, <2>3, <2>4
<1> QED
  BY <1>2, <1>3, CalleeKeepsInv

LEMMA IdleMesh ==
  ASSUME MeshInv, UNCHANGED <<stage, ticket, listWaiters, ticketWaiters, grants, socket, mail, ran>>,
         tickets' = tickets \/ tickets' = << >>
  PROVE  MeshInv'
<1>1. MeshTyped'
  BY EmptySeq DEF MeshInv, MeshTyped
<1>4. HeardByTicket'
  BY DEF MeshInv, HeardByTicket
<1>2. Listed'
  BY DEF MeshInv, Listed
<1>3. TicketsApart'
  <2>1. Apart(<< >>) /\ \A t : ~ In(<< >>, t)
    BY DEF Apart, In
  <2> QED
    BY <2>1 DEF MeshInv, TicketsApart
<1> QED
  BY <1>1, <1>2, <1>3, <1>4 DEF MeshInv

LEMMA MeshStep == ASSUME MeshInv, Mesh!Next PROVE MeshInv'
<1>1. ASSUME Mesh!Disconnect \/ Mesh!Reconnect \/ Mesh!ListenerTurns PROVE MeshInv'
  BY <1>1, IdleMesh DEF Mesh!Disconnect, Mesh!Reconnect, Mesh!ListenerTurns, Mesh!askVars, Mesh!calleeVars
<1> QED
  BY <1>1, AskStep, ListAnsweredStep, TicketAnsweredStep, TimeoutStep, DialStep, CalleeStep DEF Mesh!Next

LEMMA MeshInit == ASSUME Mesh!Init PROVE MeshInv
BY DEF Mesh!Init, MeshInv, MeshTyped, Listed, TicketsApart, HeardByTicket, Apart, In

(* For any number of hand-offs and any order of answers, grants, frames    *)
(* and timeouts: one that falls back to the hub never runs at the peer,    *)
(* and each job that ran came with a ticket that let in no other           *)
(* (agensis.mjs:241-354).                                                  *)
THEOREM HandoffsAreSafe == ServicesSpec => []HandsOverOnce
<1>1. ServicesInit => MeshInv
  BY MeshInit DEF ServicesInit
<1>2. MeshInv /\ [ServicesNext]_serviceVars => MeshInv'
  <2> SUFFICES ASSUME MeshInv, [ServicesNext]_serviceVars PROVE MeshInv'
    OBVIOUS
  <2>1. CASE Meshes
    BY <2>1, MeshStep DEF Meshes
  <2>2. ASSUME UNCHANGED meshState PROVE MeshInv'
    BY <2>2, IdleMesh DEF meshState
  <2> QED
    BY <2>1, <2>2 DEF ServicesNext, Infers, Messages, Serves, serviceVars
<1>3. MeshInv => HandsOverOnce
  BY DEF MeshInv, MeshTyped, TicketsApart, HeardByTicket, HandsOverOnce,
         Mesh!FallbackIsSafe, Mesh!TicketServesOne
<1> QED
  BY <1>1, <1>2, <1>3, PTL DEF ServicesSpec

-----------------------------------------------------------------------------
(* Viewers.  Ids in the queue are consecutive and end with the last one    *)
(* given; what a stream has yet to say is the queue after what its viewer  *)
(* saw, and perhaps older commands before it.                              *)
Increasing(s) == \A i, j \in 1..Len(s) : i < j => s[i] < s[j]

BuddyTyped ==
  /\ controlQueue \in Seq(Nat) /\ nextControlId \in Nat
  /\ controlClients \subseteq Streams /\ pipe \in [Streams -> Seq(Nat)]
  /\ at \in [Viewers -> SUBSET Streams]
  /\ after \in [Viewers -> Nat] /\ seen \in [Viewers -> SUBSET Nat]

Numbered ==
  /\ Len(controlQueue) < nextControlId
  /\ \A i \in 1..Len(controlQueue) : controlQueue[i] = nextControlId - 1 - Len(controlQueue) + i

(* A viewer reads one response, and nobody else does.                      *)
OneStream ==
  \A v \in Viewers :
    /\ at[v] \subseteq controlClients /\ \A s, r \in at[v] : s = r
    /\ \A w \in Viewers \ {v} : at[v] \cap at[w] = {}

SawAll ==
  \A v \in Viewers \ stale :
    /\ after[v] < nextControlId
    /\ \A k \in seen[v] : k <= after[v]
    /\ \A i \in 1..Len(controlQueue) : controlQueue[i] <= after[v] => controlQueue[i] \in seen[v]

(* What a response has yet to say to one that saw what is up to id.        *)
Brings(s, id) ==
  /\ Increasing(s)
  /\ \A i \in 1..Len(s) : id < s[i] /\ s[i] < nextControlId
  /\ \A i \in 1..Len(controlQueue) : id < controlQueue[i] => In(s, controlQueue[i])

PipesBring == \A v \in Viewers \ stale : \A s \in at[v] : Brings(pipe[s], after[v])

BuddyInv == BuddyTyped /\ Numbered /\ OneStream /\ SawAll /\ PipesBring

(* The queue is brought from where its viewer stopped.                     *)
LEMMA QueuedAfterBrings ==
  ASSUME BuddyTyped, Numbered, NEW id \in Nat
  PROVE  Buddy!QueuedAfter(id) \in Seq(Nat) /\ Brings(Buddy!QueuedAfter(id), id)
<1> DEFINE n == Len(controlQueue)
           first == nextControlId - n
           k == IF id < first THEN 0 ELSE IF id - first + 1 <= n THEN id - first + 1 ELSE n
<1>1. n \in Nat /\ nextControlId \in Nat /\ n < nextControlId
  BY LenProperties DEF BuddyTyped, Numbered
<1>2. k \in 0..n
  BY <1>1
<1>3. \A i \in 1..n : controlQueue[i] = first + i - 1
  BY <1>1 DEF Numbered
<1>4. \A i \in 1..n : controlQueue[i] <= id <=> i <= k
  BY <1>1, <1>3
<1>5. Buddy!Older(id) = 1..k
  BY <1>1, <1>2, <1>4 DEF Buddy!Older
<1>6. Buddy!Cardinality(Buddy!Older(id)) = k
  <2>1. Cardinality(1..k) = k
    <3>1. k \in Nat
      BY <1>1, <1>2
    <3> HIDE DEF k
    <3> QED
      BY <3>1, FS_Interval
  <2>2. \A S : Buddy!Cardinality(S) = Cardinality(S)
    BY DEF Buddy!Cardinality, Cardinality
  <2> QED
    BY <1>5, <2>1, <2>2
<1> DEFINE r == SubSeq(controlQueue, k + 1, n)
<1>7. Buddy!QueuedAfter(id) = r
  BY <1>6 DEF Buddy!QueuedAfter
<1>8. /\ r \in Seq(Nat) /\ Len(r) = n - k
      /\ \A i \in 1..Len(r) : r[i] = controlQueue[k + i]
  <2>1. \A i \in (k + 1)..n : controlQueue[i] \in Nat
    BY <1>1, <1>2, ElementOfSeq DEF BuddyTyped
  <2> HIDE DEF k, n
  <2> QED
    BY <1>1, <1>2, <2>1, SubSeqProperties
<1> HIDE DEF r, k
<1>9. \A i \in 1..Len(r) : r[i] = first + k + i - 1 /\ k + i \in 1..n
  BY <1>1, <1>2, <1>3, <1>8
<1>12. Increasing(r)
  BY <1>1, <1>2, <1>8, <1>9 DEF Increasing
<1>10. \A i \in 1..Len(r) : id < r[i] /\ r[i] < nextControlId
  BY <1>1, <1>2, <1>3, <1>4, <1>8, <1>9
<1>11. ASSUME NEW i \in 1..n, id < controlQueue[i] PROVE In(r, controlQueue[i])
  <2>1. i > k
    BY <1>1, <1>2, <1>3, <1>4, <1>11
  <2>2. i - k \in 1..Len(r) /\ r[i - k] = controlQueue[i]
    BY <1>1, <1>2, <1>8, <2>1
  <2> QED
    BY <2>2 DEF In
<1> QED
  BY <1>7, <1>8, <1>10, <1>11, <1>12 DEF Brings

(* A command goes to the queue and to every response.                      *)
LEMMA EnqueueStep ==
  ASSUME CONTROL_QUEUE_LIMIT \in Nat, BuddyInv, Buddy!Enqueue
  PROVE  BuddyInv'
<1> DEFINE n == Len(controlQueue)
           longer == Append(controlQueue, nextControlId)
<1>1. /\ BuddyTyped /\ Numbered /\ OneStream /\ SawAll /\ PipesBring
      /\ n \in Nat /\ nextControlId \in Nat /\ n < nextControlId
  BY LenProperties DEF BuddyInv, BuddyTyped, Numbered
<1>2. /\ nextControlId' = nextControlId + 1 /\ UNCHANGED <<controlClients, at, after, seen, stale>>
      /\ pipe' = [s \in Streams |-> IF s \in controlClients THEN Append(pipe[s], nextControlId)
                                                              ELSE pipe[s]]
      /\ controlQueue' = IF Len(longer) > CONTROL_QUEUE_LIMIT THEN Tail(longer) ELSE longer
  BY DEF Buddy!Enqueue
<1>3. /\ longer \in Seq(Nat) /\ Len(longer) = n + 1 /\ longer # << >>
      /\ \A i \in 1..n : longer[i] = controlQueue[i]
      /\ longer[n + 1] = nextControlId
  <2>1. /\ longer \in Seq(Nat) /\ Len(longer) = n + 1
        /\ \A i \in 1..n : longer[i] = controlQueue[i]
        /\ longer[n + 1] = nextControlId
    BY <1>1, AppendFacts DEF BuddyTyped
  <2> HIDE DEF longer
  <2> QED
    BY <1>1, <2>1, EmptySeq
<1>4. \A i \in 1..(n + 1) : longer[i] = nextControlId - n - 1 + i
  BY <1>1, <1>3 DEF Numbered
<1> HIDE DEF longer
<1>5. /\ controlQueue' \in Seq(Nat) /\ Numbered'
      /\ \A i \in 1..Len(controlQueue') :
           controlQueue'[i] = nextControlId \/ \E j \in 1..n : controlQueue'[i] = controlQueue[j]
  <2>1. CASE controlQueue' = longer
    <3>1. Len(controlQueue') = n + 1
      BY <1>3, <2>1
    <3>2. Numbered'
      <4>1. nextControlId' = nextControlId + 1
        BY <1>2
      <4>2. \A i \in 1..(n + 1) : controlQueue'[i] = nextControlId' - 1 - (n + 1) + i
        BY <1>1, <1>4, <2>1, <4>1
      <4> HIDE DEF n
      <4> QED
        BY <1>1, <3>1, <4>1, <4>2 DEF Numbered
    <3> QED
      BY <1>1, <1>3, <2>1, <3>2
  <2>2. CASE controlQueue' = Tail(longer)
    <3>1. /\ Tail(longer) \in Seq(Nat) /\ Len(Tail(longer)) = n
          /\ \A i \in 1..n : Tail(longer)[i] = longer[i + 1]
      BY <1>1, <1>3, HeadTailProperties
    <3>2. Numbered'
      <4>1. nextControlId' = nextControlId + 1
        BY <1>2
      <4>2. \A i \in 1..n : controlQueue'[i] = nextControlId' - 1 - n + i
        BY <1>1, <1>4, <2>2, <3>1, <4>1
      <4>3. Len(controlQueue') = n
        BY <2>2, <3>1
      <4> HIDE DEF n
      <4> QED
        BY <1>1, <4>1, <4>2, <4>3 DEF Numbered
    <3>3. ASSUME NEW i \in 1..n
          PROVE  longer[i + 1] = nextControlId \/ \E j \in 1..n : longer[i + 1] = controlQueue[j]
      <4>1. i + 1 = n + 1 \/ i + 1 \in 1..n
        BY <1>1
      <4> QED
        BY <1>3, <4>1
    <3> QED
      BY <2>2, <3>1, <3>2, <3>3
  <2> QED
    BY <1>2, <2>1, <2>2
<1>6. BuddyTyped'
  BY <1>1, <1>2, <1>5 DEF BuddyTyped
<1>7. OneStream'
  BY <1>1, <1>2 DEF OneStream
<1>8. SawAll'
  <2> SUFFICES ASSUME NEW v \in Viewers \ stale
               PROVE  /\ after[v] < nextControlId + 1
                      /\ \A k \in seen[v] : k <= after[v]
                      /\ \A i \in 1..Len(controlQueue') :
                           controlQueue'[i] <= after[v] => controlQueue'[i] \in seen[v]
    BY <1>2 DEF SawAll
  <2>1. after[v] \in Nat /\ after[v] < nextControlId
    BY <1>1 DEF BuddyTyped, SawAll
  <2> QED
    BY <1>1, <1>5, <2>1 DEF SawAll
<1>9. PipesBring'
  <2> SUFFICES ASSUME NEW v \in Viewers \ stale, NEW s \in at[v]
               PROVE  Brings(pipe[s], after[v])'
    BY <1>2 DEF PipesBring
  <2>1. /\ s \in Streams /\ s \in controlClients /\ Brings(pipe[s], after[v])
        /\ pipe[s] \in Seq(Nat) /\ after[v] \in Nat /\ after[v] < nextControlId
    BY <1>1 DEF BuddyTyped, OneStream, PipesBring, SawAll
  <2> DEFINE p == pipe[s]
  <2>2. /\ Len(p) \in Nat /\ Len(pipe'[s]) = Len(p) + 1 /\ pipe'[s][Len(p) + 1] = nextControlId
        /\ \A i \in 1..Len(p) : pipe'[s][i] = p[i] /\ p[i] \in Nat
    <3>1. pipe'[s] = Append(p, nextControlId)
      BY <1>2, <2>1
    <3> QED
      BY <1>1, <2>1, <3>1, AppendFacts, ElementOfSeq
  <2>3. \A e : In(p, e) \/ e = nextControlId => In(pipe'[s], e)
    BY <2>2 DEF In
  <2> HIDE DEF p
  <2>4. Increasing(p) /\ \A i \in 1..Len(p) : after[v] < p[i] /\ p[i] < nextControlId
    BY <2>1 DEF Brings, p
  <2>5. Increasing(pipe'[s])
    BY <1>1, <2>2, <2>4 DEF Increasing
  <2>6. \A i \in 1..Len(pipe'[s]) : after[v] < pipe'[s][i] /\ pipe'[s][i] < nextControlId + 1
    BY <1>1, <2>1, <2>2, <2>4
  <2>7. \A i \in 1..Len(controlQueue') : after[v] < controlQueue'[i] => In(pipe'[s], controlQueue'[i])
    BY <1>5, <2>1, <2>3 DEF Brings, p
  <2> QED
    BY <1>2, <2>5, <2>6, <2>7 DEF Brings
<1> QED
  BY <1>5, <1>6, <1>7, <1>8, <1>9 DEF BuddyInv

LEMMA OpenStreamStep ==
  ASSUME BuddyInv, NEW v \in Viewers, Buddy!OpenStream(v)
  PROVE  BuddyInv'
<1>1. /\ BuddyTyped /\ Numbered /\ OneStream /\ SawAll /\ PipesBring
      /\ at[v] = {} /\ UNCHANGED <<controlQueue, nextControlId, after, seen, stale>>
  BY DEF BuddyInv, Buddy!OpenStream
<1>2. PICK s \in Streams \ controlClients :
        /\ \A w \in Viewers : s \notin at[w]
        /\ controlClients' = controlClients \cup {s}
        /\ pipe' = [pipe EXCEPT ![s] = Buddy!QueuedAfter(after[v])]
        /\ at' = [at EXCEPT ![v] = {s}]
  BY DEF Buddy!OpenStream
<1>3. /\ Buddy!QueuedAfter(after[v]) \in Seq(Nat)
      /\ Brings(Buddy!QueuedAfter(after[v]), after[v])
  BY <1>1, QueuedAfterBrings DEF BuddyTyped
<1>4. BuddyTyped'
  BY <1>1, <1>2, <1>3 DEF BuddyTyped
<1>5. Numbered' /\ SawAll'
  BY <1>1 DEF Numbered, SawAll
<1>6. OneStream'
  BY <1>1, <1>2 DEF BuddyTyped, OneStream
<1>7. PipesBring'
  <2> SUFFICES ASSUME NEW w \in Viewers \ stale, NEW r \in at'[w] PROVE Brings(pipe'[r], after[w])
    BY <1>1 DEF PipesBring, Brings
  <2>1. CASE w = v
    BY <1>1, <1>2, <1>3, <2>1 DEF BuddyTyped
  <2>2. CASE w # v
    <3>1. r \in at[w] /\ r # s /\ pipe'[r] = pipe[r]
      BY <1>1, <1>2, <2>2 DEF BuddyTyped
    <3> QED
      BY <1>1, <3>1 DEF PipesBring
  <2> QED
    BY <2>1, <2>2
<1> QED
  BY <1>4, <1>5, <1>6, <1>7 DEF BuddyInv

LEMMA LeaveStep ==
  ASSUME BuddyInv, NEW v \in Viewers, Buddy!Leave(v)
  PROVE  BuddyInv'
<1>1. /\ BuddyTyped /\ Numbered /\ OneStream /\ SawAll /\ PipesBring /\ at' = [at EXCEPT ![v] = {}]
      /\ UNCHANGED <<controlQueue, nextControlId, controlClients, pipe, after, seen, stale>>
  BY DEF BuddyInv, Buddy!Leave
<1>2. BuddyTyped' /\ OneStream'
  BY <1>1 DEF BuddyTyped, OneStream
<1>3. Numbered' /\ SawAll'
  BY <1>1 DEF Numbered, SawAll
<1>4. \A w \in Viewers : at'[w] \subseteq at[w]
  BY <1>1 DEF BuddyTyped
<1>5. PipesBring'
  BY <1>1, <1>4 DEF PipesBring, Brings
<1> QED
  BY <1>2, <1>3, <1>5 DEF BuddyInv

LEMMA CloseStreamStep ==
  ASSUME BuddyInv, NEW s \in Streams, Buddy!CloseStream(s)
  PROVE  BuddyInv'
<1>1. /\ BuddyTyped /\ Numbered /\ OneStream /\ SawAll /\ PipesBring
      /\ \A v \in Viewers : s \notin at[v]
      /\ controlClients' = controlClients \ {s} /\ pipe' = [pipe EXCEPT ![s] = << >>]
      /\ UNCHANGED <<controlQueue, nextControlId, at, after, seen, stale>>
  BY DEF BuddyInv, Buddy!CloseStream
<1>2. BuddyTyped'
  BY <1>1, EmptySeq DEF BuddyTyped
<1>3. Numbered' /\ SawAll'
  BY <1>1 DEF Numbered, SawAll
<1>4. OneStream'
  BY <1>1 DEF OneStream
<1>5. \A v \in Viewers : \A r \in at[v] : pipe'[r] = pipe[r]
  BY <1>1 DEF BuddyTyped
<1>6. PipesBring'
  BY <1>1, <1>5 DEF PipesBring, Brings
<1> QED
  BY <1>2, <1>3, <1>4, <1>6 DEF BuddyInv

LEMMA OneSeen == \A e : Buddy!Last(<<e>>) = e /\ Buddy!ToSet(<<e>>) = {e}
<1> SUFFICES ASSUME NEW e PROVE Buddy!Last(<<e>>) = e /\ Buddy!ToSet(<<e>>) = {e}
  OBVIOUS
<1>1. Len(<<e>>) = 1 /\ <<e>>[1] = e /\ DOMAIN <<e>> = {1}
  OBVIOUS
<1>2. Buddy!Last(<<e>>) = e
  BY <1>1 DEF Buddy!Last
<1>3. Buddy!ToSet(<<e>>) = {e}
  BY <1>1 DEF Buddy!ToSet
<1> QED
  BY <1>2, <1>3

(* The next command of a response is the next of the queue as well.        *)
LEMMA ReadStreamStep ==
  ASSUME BuddyInv, NEW v \in Viewers, NEW s \in Streams, Buddy!ReadStream(v, s)
  PROVE  BuddyInv'
<1> DEFINE p == pipe[s]
           id == Head(p)
<1>1. /\ BuddyTyped /\ Numbered /\ OneStream /\ SawAll /\ PipesBring /\ s \in at[v] /\ p # << >>
      /\ pipe' = [pipe EXCEPT ![s] = Tail(p)]
      /\ UNCHANGED <<controlQueue, nextControlId, controlClients, at, stale>>
  BY DEF BuddyInv, Buddy!ReadStream
<1>2. after' = [after EXCEPT ![v] = id] /\ seen' = [seen EXCEPT ![v] = @ \cup {id}]
  BY OneSeen DEF Buddy!ReadStream, Buddy!Sees
<1>3. /\ p \in Seq(Nat) /\ Tail(p) \in Seq(Nat) /\ Len(Tail(p)) = Len(p) - 1 /\ Len(p) \in Nat \ {0}
      /\ \A i \in 1..Len(Tail(p)) : Tail(p)[i] = p[i + 1]
      /\ id = p[1] /\ id \in Nat
  <2>1. p \in Seq(Nat)
    BY <1>1 DEF BuddyTyped
  <2> HIDE DEF p
  <2> QED
    BY <1>1, <2>1, HeadTailProperties
<1> HIDE DEF p, id
<1>4. BuddyTyped'
  BY <1>1, <1>2, <1>3 DEF BuddyTyped
<1>5. Numbered'
  BY <1>1 DEF Numbered
<1>6. OneStream'
  BY <1>1 DEF OneStream
<1>7. ASSUME v \notin stale
      PROVE  /\ id < nextControlId /\ after[v] < id
             /\ \A i \in 1..Len(controlQueue) : controlQueue[i] <= id =>
                  controlQueue[i] <= after[v] \/ controlQueue[i] = id
             /\ Increasing(Tail(p)) /\ \A i \in 1..Len(Tail(p)) : id < Tail(p)[i] /\ Tail(p)[i] < nextControlId
             /\ \A i \in 1..Len(controlQueue) : id < controlQueue[i] => In(Tail(p), controlQueue[i])
  <2>1. Brings(p, after[v]) /\ after[v] \in Nat
    BY <1>1, <1>7 DEF PipesBring, BuddyTyped, p
  <2>2. /\ \A i, j \in 1..Len(p) : i < j => p[i] < p[j]
        /\ \A i \in 1..Len(p) : after[v] < p[i] /\ p[i] < nextControlId /\ p[i] \in Nat
    BY <1>3, <2>1, ElementOfSeq DEF Brings, Increasing
  <2>3. id < nextControlId /\ after[v] < id
    BY <1>3, <2>2
  <2>4. \A e : In(p, e) => e = id \/ (id < e /\ In(Tail(p), e))
    <3> SUFFICES ASSUME NEW k \in 1..Len(p), k # 1 PROVE id < p[k] /\ In(Tail(p), p[k])
      BY <1>3 DEF In
    <3>1. k - 1 \in 1..Len(Tail(p)) /\ Tail(p)[k - 1] = p[k]
      BY <1>3
    <3> QED
      <4>1. 1 \in 1..Len(p) /\ 1 < k
        BY <1>3
      <4>2. id < p[k]
        BY <1>3, <2>2, <4>1
      <4> QED
        BY <3>1, <4>2 DEF In
  <2>5. \A i \in 1..Len(controlQueue) : controlQueue[i] \in Nat
    BY <1>1, ElementOfSeq DEF BuddyTyped
  <2>6. \A i \in 1..Len(controlQueue) : after[v] < controlQueue[i] => In(p, controlQueue[i])
    BY <2>1 DEF Brings
  <2>7. \A i \in 1..Len(controlQueue) :
          /\ controlQueue[i] <= id => controlQueue[i] <= after[v] \/ controlQueue[i] = id
          /\ id < controlQueue[i] => In(Tail(p), controlQueue[i])
    BY <1>3, <2>1, <2>3, <2>4, <2>5, <2>6
  <2>8. Increasing(Tail(p)) /\ \A i \in 1..Len(Tail(p)) : id < Tail(p)[i] /\ Tail(p)[i] < nextControlId
    BY <1>3, <2>2 DEF Increasing
  <2> QED
    BY <2>3, <2>7, <2>8
<1>8. SawAll'
  <2> SUFFICES ASSUME NEW w \in Viewers \ stale
               PROVE  /\ after'[w] < nextControlId
                      /\ \A k \in seen'[w] : k <= after'[w]
                      /\ \A i \in 1..Len(controlQueue) :
                           controlQueue[i] <= after'[w] => controlQueue[i] \in seen'[w]
    BY <1>1 DEF SawAll
  <2>1. CASE w = v
    <3>1. /\ after'[v] = id /\ seen'[v] = seen[v] \cup {id}
          /\ after[v] \in Nat /\ seen[v] \subseteq Nat
      BY <1>1, <1>2 DEF BuddyTyped
    <3>2. \A k \in seen[v] : k <= after[v]
      BY <1>1, <2>1 DEF SawAll
    <3>3. \A i \in 1..Len(controlQueue) : controlQueue[i] <= after[v] => controlQueue[i] \in seen[v]
      BY <1>1, <2>1 DEF SawAll
    <3> QED
      BY <1>3, <1>7, <2>1, <3>1, <3>2, <3>3
  <2>2. CASE w # v
    BY <1>1, <1>2, <2>2 DEF BuddyTyped, SawAll
  <2> QED
    BY <2>1, <2>2
<1>9. PipesBring'
  <2> SUFFICES ASSUME NEW w \in Viewers \ stale, NEW r \in at[w] PROVE Brings(pipe[r], after[w])'
    BY <1>1 DEF PipesBring
  <2>0. \A q, k : Brings(q, k) => Brings(q, k)'
    BY <1>1 DEF Brings
  <2>1. CASE w = v
    <3>1. r = s /\ pipe'[r] = Tail(p) /\ after'[w] = id
      BY <1>1, <1>2, <2>1 DEF BuddyTyped, OneStream
    <3>2. Brings(Tail(p), id)
      BY <1>7, <2>1 DEF Brings
    <3> QED
      BY <2>0, <3>1, <3>2
  <2>2. CASE w # v
    <3>1. r # s /\ pipe'[r] = pipe[r] /\ after'[w] = after[w]
      BY <1>1, <1>2, <2>2 DEF BuddyTyped, OneStream
    <3>2. Brings(pipe[r], after[w])
      BY <1>1 DEF PipesBring
    <3> QED
      BY <2>0, <3>1, <3>2
  <2> QED
    BY <2>1, <2>2
<1> QED
  BY <1>4, <1>5, <1>6, <1>8, <1>9 DEF BuddyInv

LEMMA PollStep ==
  ASSUME BuddyInv, NEW v \in Viewers, Buddy!Poll(v)
  PROVE  BuddyInv'
<1> DEFINE r == Buddy!QueuedAfter(after[v])
           id == r[Len(r)]
<1>1. /\ BuddyTyped /\ Numbered /\ OneStream /\ SawAll /\ PipesBring /\ at[v] = {} /\ r # << >>
      /\ after' = [after EXCEPT ![v] = id]
      /\ seen' = [seen EXCEPT ![v] = @ \cup Buddy!ToSet(r)]
      /\ UNCHANGED <<controlQueue, nextControlId, controlClients, pipe, at, stale>>
  BY DEF BuddyInv, Buddy!Poll, Buddy!Sees, Buddy!Last
<1>2. after[v] \in Nat /\ seen[v] \subseteq Nat /\ r \in Seq(Nat) /\ Brings(r, after[v])
  BY <1>1, QueuedAfterBrings DEF BuddyTyped
<1> HIDE DEF r
<1>3. /\ Len(r) \in Nat \ {0} /\ DOMAIN r = 1..Len(r)
      /\ \A i \in 1..Len(r) : r[i] \in Nat
  BY <1>1, <1>2, EmptySeq, LenProperties, ElementOfSeq
<1>4. /\ id \in Nat /\ id < nextControlId /\ after[v] < id
      /\ \A i \in 1..Len(r) : r[i] <= id
      /\ \A k \in Buddy!ToSet(r) : k \in Nat /\ k <= id
      /\ \A e : In(r, e) => e \in Buddy!ToSet(r)
  <2>1. Len(r) \in 1..Len(r)
    BY <1>3
  <2>2. \A i \in 1..Len(r) : r[i] <= id
    <3> SUFFICES ASSUME NEW i \in 1..Len(r) PROVE r[i] <= id
      OBVIOUS
    <3>1. CASE i = Len(r)
      BY <1>3, <2>1, <3>1
    <3>2. CASE i < Len(r)
      <4>1. r[i] < r[Len(r)]
        BY <1>2, <2>1, <3>2 DEF Brings, Increasing
      <4>2. r[i] \in Nat /\ r[Len(r)] \in Nat
        BY <1>3, <2>1
      <4> QED
        BY <4>1, <4>2
    <3>3. i = Len(r) \/ i < Len(r)
      <4>1. Len(r) \in Nat
        BY <1>3
      <4> QED
        BY <4>1
    <3> QED
      BY <3>1, <3>2, <3>3
  <2>3. id \in Nat /\ id < nextControlId /\ after[v] < id
    BY <1>2, <1>3, <2>1 DEF Brings
  <2> QED
    BY <1>3, <2>2, <2>3 DEF Buddy!ToSet, In
<1> HIDE DEF id
<1>5. BuddyTyped'
  BY <1>1, <1>2, <1>4 DEF BuddyTyped
<1>6. Numbered'
  BY <1>1 DEF Numbered
<1>7. OneStream'
  BY <1>1 DEF OneStream
<1>8. SawAll'
  <2> SUFFICES ASSUME NEW w \in Viewers \ stale
               PROVE  /\ after'[w] < nextControlId
                      /\ \A k \in seen'[w] : k <= after'[w]
                      /\ \A i \in 1..Len(controlQueue) :
                           controlQueue[i] <= after'[w] => controlQueue[i] \in seen'[w]
    BY <1>1 DEF SawAll
  <2>1. CASE w = v
    <3>1. after'[v] = id /\ seen'[v] = seen[v] \cup Buddy!ToSet(r)
      BY <1>1 DEF BuddyTyped
    <3>2. \A k \in seen[v] : k <= after[v]
      BY <1>1, <2>1 DEF SawAll
    <3>3. ASSUME NEW i \in 1..Len(controlQueue)
          PROVE  controlQueue[i] \in seen[v] \cup Buddy!ToSet(r)
      <4>1. controlQueue[i] \in Nat
        BY <1>1, ElementOfSeq DEF BuddyTyped
      <4>2. CASE controlQueue[i] <= after[v]
        BY <1>1, <2>1, <4>2 DEF SawAll
      <4>3. CASE after[v] < controlQueue[i]
        BY <1>2, <1>4, <4>3 DEF Brings
      <4> QED
        BY <1>2, <4>1, <4>2, <4>3
    <3> QED
      BY <1>2, <1>4, <2>1, <3>1, <3>2, <3>3
  <2>2. CASE w # v
    BY <1>1, <2>2 DEF BuddyTyped, SawAll
  <2> QED
    BY <2>1, <2>2
<1>9. PipesBring'
  <2> SUFFICES ASSUME NEW w \in Viewers \ stale, NEW s \in at[w] PROVE Brings(pipe[s], after'[w])
    BY <1>1 DEF PipesBring, Brings
  <2>1. w # v /\ after'[w] = after[w]
    BY <1>1 DEF BuddyTyped
  <2> QED
    BY <1>1, <2>1 DEF PipesBring
<1> QED
  BY <1>5, <1>6, <1>7, <1>8, <1>9 DEF BuddyInv

(* Another process starts with no commands and no responses; who saw some  *)
(* of the last one's is on its own.                                        *)
LEMMA ReplacedStep ==
  ASSUME BuddyInv, Buddy!Replaced
  PROVE  BuddyInv'
<1>1. /\ controlQueue' = << >> /\ nextControlId' = 1 /\ controlClients' = {}
      /\ pipe' = [s \in Streams |-> << >>] /\ at' = [v \in Viewers |-> {}]
      /\ seen' = [v \in Viewers |-> {}] /\ after' = after
      /\ stale' = {v \in Viewers : after[v] > 0} /\ after \in [Viewers -> Nat]
  BY DEF Buddy!Replaced, BuddyInv, BuddyTyped
<1>2. /\ controlQueue' \in Seq(Nat) /\ pipe' \in [Streams -> Seq(Nat)] /\ Len(controlQueue') = 0
  BY <1>1, EmptySeq
<1>3. BuddyTyped'
  BY <1>1, <1>2 DEF BuddyTyped
<1>4. Numbered' /\ OneStream' /\ SawAll' /\ PipesBring'
  BY <1>1, <1>2 DEF Numbered, OneStream, SawAll, PipesBring
<1> QED
  BY <1>3, <1>4 DEF BuddyInv

LEMMA BuddyInit == ASSUME Buddy!Init PROVE BuddyInv
<1>1. /\ controlQueue = << >> /\ nextControlId = 1 /\ controlClients = {}
      /\ pipe = [s \in Streams |-> << >>] /\ at = [v \in Viewers |-> {}]
      /\ seen = [v \in Viewers |-> {}] /\ after = [v \in Viewers |-> 0] /\ stale = {}
  BY DEF Buddy!Init
<1>2. /\ controlQueue \in Seq(Nat) /\ pipe \in [Streams -> Seq(Nat)] /\ Len(controlQueue) = 0
  BY <1>1, EmptySeq
<1>3. BuddyTyped
  BY <1>1, <1>2 DEF BuddyTyped
<1>4. Numbered /\ OneStream /\ SawAll /\ PipesBring
  BY <1>1, <1>2 DEF Numbered, OneStream, SawAll, PipesBring
<1> QED
  BY <1>3, <1>4 DEF BuddyInv

LEMMA IdleBuddy ==
  ASSUME BuddyInv, UNCHANGED Buddy!controlVars
  PROVE  BuddyInv'
BY DEF Buddy!controlVars, BuddyInv, BuddyTyped, Numbered, OneStream, SawAll, PipesBring, Brings

LEMMA BuddyStep ==
  ASSUME CONTROL_QUEUE_LIMIT \in Nat, BuddyInv, Buddy!Next
  PROVE  BuddyInv'
<1>1. ASSUME NEW q \in Chats, Buddy!ChatFast(q) \/ Buddy!ChatBegins(q) \/ Buddy!ChatEnds(q)
      PROVE  BuddyInv'
  BY <1>1, EnqueueStep, IdleBuddy
     DEF Buddy!ChatFast, Buddy!ChatBegins, Buddy!ChatEnds, Buddy!ChatAnswers, Buddy!ChatFails
<1>2. ASSUME Buddy!Control PROVE BuddyInv'
  BY <1>2, EnqueueStep DEF Buddy!Control
<1> QED
  BY <1>1, <1>2, ReplacedStep, OpenStreamStep, LeaveStep, PollStep, ReadStreamStep, CloseStreamStep
     DEF Buddy!Next

(* For any number of viewers, responses and commands, and any limit of the *)
(* queue: a viewer that streams misses no command of the queue and has     *)
(* none twice (cursorbuddyLocalBridge.mjs:569-581, 743-772).               *)
THEOREM ViewersMissNothing == ASSUME ServicesAssumption PROVE ServicesSpec => []NoGap
<1> USE DEF ServicesAssumption
<1>1. ServicesInit => BuddyInv
  BY BuddyInit DEF ServicesInit
<1>2. BuddyInv /\ [ServicesNext]_serviceVars => BuddyInv'
  <2> SUFFICES ASSUME BuddyInv, [ServicesNext]_serviceVars PROVE BuddyInv'
    OBVIOUS
  <2>1. CASE Serves
    BY <2>1, BuddyStep DEF Serves
  <2>2. ASSUME UNCHANGED buddyState PROVE BuddyInv'
    BY <2>2, IdleBuddy DEF buddyState, Buddy!controlVars
  <2> QED
    BY <2>1, <2>2 DEF ServicesNext, Infers, Messages, Meshes, serviceVars
<1>3. BuddyInv => NoGap
  <2> SUFFICES ASSUME BuddyInv, NEW v \in Viewers \ stale, NEW s \in at[v]
               PROVE  /\ Buddy!ToSet(controlQueue) \subseteq seen[v] \cup Buddy!ToSet(pipe[s])
                      /\ seen[v] \cap Buddy!ToSet(pipe[s]) = {}
                      /\ \A i, j \in 1..Len(pipe[s]) : i < j => pipe[s][i] < pipe[s][j]
    BY DEF NoGap, Buddy!NoGap
  <2>1. /\ BuddyTyped /\ SawAll /\ Brings(pipe[s], after[v])
        /\ controlQueue \in Seq(Nat) /\ pipe[s] \in Seq(Nat)
        /\ after[v] \in Nat /\ seen[v] \subseteq Nat
    BY DEF BuddyInv, BuddyTyped, PipesBring
  <2>2. /\ DOMAIN controlQueue = 1..Len(controlQueue) /\ DOMAIN pipe[s] = 1..Len(pipe[s])
        /\ \A i \in 1..Len(controlQueue) : controlQueue[i] \in Nat
        /\ \A i \in 1..Len(pipe[s]) : pipe[s][i] \in Nat
    BY <2>1, LenProperties, ElementOfSeq
  <2>3. \A e : In(pipe[s], e) => e \in Buddy!ToSet(pipe[s])
    BY <2>2 DEF In, Buddy!ToSet
  <2>4. \A i \in 1..Len(controlQueue) : controlQueue[i] \in seen[v] \cup Buddy!ToSet(pipe[s])
    BY <2>1, <2>2, <2>3 DEF SawAll, Brings
  <2>5. ASSUME NEW i \in 1..Len(pipe[s]) PROVE pipe[s][i] \notin seen[v]
    <3>1. after[v] < pipe[s][i] /\ pipe[s][i] \in Nat /\ \A k \in seen[v] : k <= after[v]
      BY <2>1, <2>2 DEF SawAll, Brings
    <3> QED
      BY <2>1, <3>1
  <2>6. \A i, j \in 1..Len(pipe[s]) : i < j => pipe[s][i] < pipe[s][j]
    BY <2>1 DEF Brings, Increasing
  <2> QED
    BY <2>2, <2>4, <2>5, <2>6 DEF Buddy!ToSet
<1> QED
  BY <1>1, <1>2, <1>3, PTL DEF ServicesSpec

=============================================================================
