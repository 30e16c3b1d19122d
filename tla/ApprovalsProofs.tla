-------------------------- MODULE ApprovalsProofs --------------------------
(***************************************************************************)
(* What holds of the permission broker for any set of calls, jobs and      *)
(* answers and for any number of frames in flight.                         *)
(***************************************************************************)
EXTENDS Approvals, TLAPS

(* The receipt bit and the poison bit of a park exclude each other: this   *)
(* is what makes a commit, which carries only the id, unambiguous.         *)
ReceiptsUnpoisoned == receipted \cap conflicted = {}

(* A closed socket delivers nothing, and a stopped daemon has none.        *)
SocketSound ==
  /\ link = "down" => inbox = << >>
  /\ stopped => link = "down"

ApprovalInv ==
  /\ TypeOK
  /\ DeadlineGuardsParks
  /\ CancelledCallsStayDenied
  /\ ReceiptsUnpoisoned
  /\ SocketSound

(* Moving a frame from one end of a queue to the handler keeps the queue a *)
(* sequence of frames.                                                     *)
LEMMA QueueMoves ==
  ASSUME NEW q \in Seq(Frames)
  PROVE  /\ \A f \in Frames : Append(q, f) \in Seq(Frames)
         /\ q # << >> => (Head(q) \in Frames /\ Tail(q) \in Seq(Frames))
  OBVIOUS

(* The values of a frame that a handler reads.                             *)
LEMMA FrameShapes ==
  ASSUME NEW f \in Frames
  PROVE  /\ f.type \in {"ask", "receipt", "decision", "prepare", "commit", "abort"} => f.req \in Reqs
         /\ f.type \in {"decision", "prepare"} => f.val \in Decisions
         /\ f.type = "cancel" => f.val \in Jobs
  BY DEF Frames

(* Every frame that is sent is one.                                        *)
LEMMA FramesMade ==
  /\ \A r \in Reqs : Frame("ask", r, Nothing) \in Frames
  /\ \A r \in Reqs, b \in BOOLEAN : Frame("receipt", r, b) \in Frames
  /\ \A S \in SUBSET Reqs : Frame("register", Nothing, S) \in Frames
  /\ \A S \in SUBSET Reqs : Frame("registered", Nothing, S) \in Frames
  /\ \A r \in Reqs, d \in Decisions : Frame("decision", r, d) \in Frames
  /\ \A r \in Reqs, d \in Decisions : Frame("prepare", r, d) \in Frames
  /\ \A r \in Reqs : Frame("commit", r, Nothing) \in Frames
  /\ \A r \in Reqs : Frame("abort", r, Nothing) \in Frames
  /\ \A j \in Jobs : Frame("cancel", Nothing, j) \in Frames
  BY DEF Frame, Frames

(* What a denial of the calls of S does to the broker.                     *)
LEMMA DenialEffect ==
  ASSUME TypeOK, NEW S, DenyAll(S)
  PROVE  /\ park' \in [Reqs -> {"fresh", "parked", "settled"}]
         /\ result' \in [Reqs -> Decisions \cup {Nothing, Denial}]
         /\ \A r \in Reqs : park'[r] = "settled" <=> result'[r] # Nothing
         /\ prepared' \in [Reqs -> Decisions \cup {Nothing}]
         /\ receipted' \subseteq receipted /\ conflicted' \subseteq conflicted
         /\ Parked' = Parked \ S
         /\ \A r \in Reqs : result'[r] \in Decisions => result'[r] = result[r]
         /\ \A r \in Reqs : result[r] = Denial \/ r \in Parked \cap S => result'[r] = Denial
  BY ApprovalAssumption DEF TypeOK, DenyAll, DenyExactly, Parked

(* What the release of one parked call does.                               *)
LEMMA ReleaseEffect ==
  ASSUME TypeOK, NEW r \in Parked, NEW d \in Decisions, Release(r, d)
  PROVE  /\ park' \in [Reqs -> {"fresh", "parked", "settled"}]
         /\ result' \in [Reqs -> Decisions \cup {Nothing, Denial}]
         /\ \A s \in Reqs : park'[s] = "settled" <=> result'[s] # Nothing
         /\ prepared' \in [Reqs -> Decisions \cup {Nothing}]
         /\ receipted' \subseteq receipted /\ conflicted' \subseteq conflicted
         /\ Parked' = Parked \ {r}
         /\ \A s \in Reqs \ {r} : result'[s] = result[s]
         /\ result'[r] = d
  BY ApprovalAssumption DEF TypeOK, Release, Parked

(* An answer of the hub is a frame in flight or is lost.                   *)
LEMMA ReplyEffect ==
  ASSUME inbox \in Seq(Frames), NEW f \in Frames, Reply(f)
  PROVE  inbox' \in Seq(Frames)
<1>1. CASE SocketOpen
  <2>1. inbox' = Append(inbox, f)
    BY <1>1 DEF Reply
  <2> QED
    BY <2>1, QueueMoves
<1>2. CASE ~ SocketOpen
  BY <1>2 DEF Reply
<1> QED
  BY <1>1, <1>2

-----------------------------------------------------------------------------
LEMMA ApprovalInit == Init => ApprovalInv
<1> SUFFICES ASSUME Init PROVE ApprovalInv
  OBVIOUS
<1>1. << >> \in Seq(Frames)
  OBVIOUS
<1>2. TypeOK
  BY <1>1, ApprovalAssumption DEF Init, TypeOK
<1>3. DeadlineGuardsParks /\ CancelledCallsStayDenied /\ ReceiptsUnpoisoned /\ SocketSound
  BY DEF Init, DeadlineGuardsParks, CancelledCallsStayDenied, ReceiptsUnpoisoned, Parked, SocketSound
<1> QED
  BY <1>2, <1>3 DEF ApprovalInv

(* The steps that only move frames and cards leave the broker alone.       *)
LEMMA HubSteps ==
  ASSUME ApprovalInv,
         \/ \E r \in Reqs : HubGivesUp(r)
         \/ \E r \in Reqs, d \in Decisions : HumanAnswers(r, d) \/ HubPreparesAgain(r, d)
         \/ \E j \in Jobs : HubCancels(j)
         \/ HubAsks \/ HubRegisters \/ HubCommits
  PROVE  ApprovalInv' /\ UNCHANGED result
<1> USE ApprovalAssumption, QueueMoves, FramesMade, FrameShapes DEF ApprovalInv
<1>0. UNCHANGED <<brokerVars, link, deadline, cancelled, stopped>>
  BY DEF HubGivesUp, HumanAnswers, HubPreparesAgain, HubCancels, HubAsks, HubRegisters, HubCommits
<1>s. SocketSound'
  <2>1. link = "down" => UNCHANGED inbox
    BY DEF HubGivesUp, HumanAnswers, HubPreparesAgain, HubCancels, HubAsks, HubRegisters, HubCommits,
           Reply, SocketOpen
  <2> QED
    BY <1>0, <2>1 DEF SocketSound
<1>1. /\ DeadlineGuardsParks' /\ CancelledCallsStayDenied' /\ ReceiptsUnpoisoned'
      /\ UNCHANGED result
  BY <1>0 DEF brokerVars, DeadlineGuardsParks, CancelledCallsStayDenied, ReceiptsUnpoisoned, Parked
<1>2. ASSUME outbox' \in Seq(Frames), inbox' \in Seq(Frames),
             card' \in [Reqs -> {"none", "open", "preparing", "committed", "gone"}],
             chosen' \in [Reqs -> Decisions \cup {Nothing}]
      PROVE  TypeOK'
  BY <1>0, <1>2 DEF TypeOK, brokerVars
<1>3. ASSUME NEW r \in Reqs, HubGivesUp(r) PROVE TypeOK'
  <2>1. inbox' \in Seq(Frames)
    BY <1>3, ReplyEffect DEF HubGivesUp, TypeOK
  <2> QED
    BY <1>2, <1>3, <2>1 DEF HubGivesUp, TypeOK
<1>4. ASSUME NEW r \in Reqs, NEW d \in Decisions, HumanAnswers(r, d) PROVE TypeOK'
  <2>1. inbox' \in Seq(Frames)
    BY <1>4, ReplyEffect DEF HumanAnswers, TypeOK
  <2> QED
    BY <1>2, <1>4, <2>1 DEF HumanAnswers, TypeOK
<1>5. ASSUME NEW r \in Reqs, NEW d \in Decisions, HubPreparesAgain(r, d) PROVE TypeOK'
  <2>1. inbox' \in Seq(Frames)
    BY <1>5, ReplyEffect DEF HubPreparesAgain, TypeOK
  <2> QED
    BY <1>2, <1>5, <2>1 DEF HubPreparesAgain, TypeOK
<1>6. ASSUME NEW j \in Jobs, HubCancels(j) PROVE TypeOK'
  <2>1. inbox' \in Seq(Frames)
    BY <1>6, ReplyEffect DEF HubCancels, TypeOK
  <2> QED
    BY <1>2, <1>6, <2>1 DEF HubCancels, TypeOK
<1>7. ASSUME HubAsks PROVE TypeOK'
  BY <1>2, <1>7 DEF HubAsks, HubTakes, TypeOK
<1>8. ASSUME HubRegisters PROVE TypeOK'
  <2>1. PICK kept \in SUBSET (Answerable \cap Head(outbox).val) :
          /\ card' = [r \in Reqs |-> IF card[r] \in {"none", "gone", "committed"} \/ r \in kept
                                     THEN card[r] ELSE "gone"]
          /\ Reply(Frame("registered", Nothing, kept))
    BY <1>8 DEF HubRegisters
  <2>2. Frame("registered", Nothing, kept) \in Frames
    BY DEF Answerable
  <2>3. outbox' \in Seq(Frames) /\ chosen' = chosen
    BY <1>8 DEF HubRegisters, HubTakes, TypeOK
  <2>4. inbox' \in Seq(Frames)
    BY <2>1, <2>2, ReplyEffect DEF TypeOK
  <2> QED
    BY <1>2, <2>1, <2>3, <2>4 DEF TypeOK
<1>9. ASSUME HubCommits PROVE TypeOK'
  <2>1. outbox # << >> /\ outbox' = Tail(outbox) /\ Head(outbox).type = "receipt" /\ chosen' = chosen
    BY <1>9 DEF HubCommits, HubTakes
  <2>2. outbox' \in Seq(Frames) /\ Head(outbox).req \in Reqs
    BY <2>1 DEF TypeOK
  <2>3. CASE UNCHANGED <<card, inbox>>
    BY <1>2, <2>1, <2>2, <2>3 DEF TypeOK
  <2>4. CASE /\ card' = [card EXCEPT ![Head(outbox).req] = "committed"]
             /\ Reply(Frame("commit", Head(outbox).req, Nothing))
    <3>1. inbox' \in Seq(Frames)
      BY <2>2, <2>4, ReplyEffect DEF TypeOK
    <3> QED
      BY <1>2, <2>1, <2>2, <2>4, <3>1 DEF TypeOK
  <2> QED
    BY <1>9, <2>3, <2>4 DEF HubCommits
<1> QED
  BY <1>s, <1>1, <1>3, <1>4, <1>5, <1>6, <1>7, <1>8, <1>9

(* The steps of the broker and of the socket.  The last conjunct is what   *)
(* the handshake promises of a prepared call.                              *)
HandshakeStep ==
  \A r \in Reqs :
     (park[r] = "parked" /\ prepared[r] # Nothing /\ result'[r] \in Decisions)
     => (result'[r] = prepared[r] /\ r \in receipted \ conflicted)

LEMMA ParkedHasNoResult ==
  ASSUME TypeOK, NEW r \in Reqs, park[r] = "parked"
  PROVE  result[r] \notin Decisions
  BY ApprovalAssumption DEF TypeOK

LEMMA DenialStep ==
  ASSUME ApprovalInv, NEW S, DenyAll(S),
         link' \in {"down", "open", "joining", "registered"}, deadline' \in BOOLEAN,
         cancelled' \subseteq cancelled \cup (Parked \cap S), stopped' \in BOOLEAN,
         outbox' \in Seq(Frames), inbox' \in Seq(Frames), UNCHANGED hubVars,
         (link' = "down" /\ Parked \ S # {}) => deadline',
         link' = "registered" => ~ deadline',
         stopped' => Parked \ S = {},
         SocketSound'
  PROVE  ApprovalInv' /\ HandshakeStep
<1>0. cancelled \subseteq Reqs /\ Parked \subseteq Reqs
  BY DEF ApprovalInv, TypeOK, Parked
<1>1. TypeOK'
  BY <1>0, DenialEffect DEF ApprovalInv, TypeOK, hubVars
<1>2. DeadlineGuardsParks' /\ CancelledCallsStayDenied' /\ ReceiptsUnpoisoned'
  BY <1>0, DenialEffect DEF ApprovalInv, DeadlineGuardsParks, CancelledCallsStayDenied, ReceiptsUnpoisoned
<1>3. HandshakeStep
  BY DenialEffect, ParkedHasNoResult DEF ApprovalInv, HandshakeStep
<1> QED
  BY <1>1, <1>2, <1>3 DEF ApprovalInv

LEMMA FramesOnly ==
  ASSUME ApprovalInv, inbox' \in Seq(Frames), SocketSound',
         UNCHANGED <<brokerVars, link, deadline, cancelled, stopped, outbox, card, chosen>>
  PROVE  ApprovalInv' /\ HandshakeStep
<1>1. TypeOK' /\ UNCHANGED <<brokerVars, link, deadline, cancelled, stopped>>
  BY DEF ApprovalInv, TypeOK, brokerVars
<1>2. DeadlineGuardsParks' /\ CancelledCallsStayDenied' /\ ReceiptsUnpoisoned'
  BY <1>1 DEF ApprovalInv, DeadlineGuardsParks, CancelledCallsStayDenied, ReceiptsUnpoisoned,
      brokerVars, Parked
<1>3. HandshakeStep
  BY <1>1, ParkedHasNoResult DEF ApprovalInv, HandshakeStep, brokerVars
<1> QED
  BY <1>1, <1>2, <1>3 DEF ApprovalInv

(* A release is legitimate before any prepare, or of the receipted prepare.*)
LEMMA ReleaseStep ==
  ASSUME ApprovalInv, NEW r \in Parked, NEW d \in Decisions, Release(r, d),
         prepared[r] # Nothing => (d = prepared[r] /\ r \in receipted \ conflicted),
         inbox' \in Seq(Frames), SocketSound',
         UNCHANGED <<link, deadline, cancelled, stopped, outbox, card, chosen>>
  PROVE  ApprovalInv' /\ HandshakeStep
<1>1. TypeOK'
  BY ReleaseEffect DEF ApprovalInv, TypeOK
<1>0. cancelled \subseteq Reqs /\ result[r] = Nothing /\ Nothing # Denial
  BY ApprovalAssumption DEF ApprovalInv, TypeOK, Parked
<1>2. DeadlineGuardsParks' /\ CancelledCallsStayDenied' /\ ReceiptsUnpoisoned'
  BY <1>0, ReleaseEffect DEF ApprovalInv, DeadlineGuardsParks, CancelledCallsStayDenied, ReceiptsUnpoisoned
<1>3. HandshakeStep
  BY ReleaseEffect, ParkedHasNoResult DEF ApprovalInv, HandshakeStep, Parked
<1> QED
  BY <1>1, <1>2, <1>3 DEF ApprovalInv

LEMMA BrokerSteps ==
  ASSUME ApprovalInv,
         \/ \E r \in Reqs : Request(r) \/ Expire(r)
         \/ Handlers
         \/ Open \/ Register \/ Close \/ DeadlineFires \/ Stop
  PROVE  ApprovalInv' /\ HandshakeStep
<1> USE ApprovalAssumption DEF ApprovalInv
<1>0. /\ TypeOK /\ inbox \in Seq(Frames) /\ outbox \in Seq(Frames)
      /\ inbox # << >> => (Head(inbox) \in Frames /\ Tail(inbox) \in Seq(Frames))
  BY QueueMoves DEF TypeOK
<1>u. ASSUME UNCHANGED <<link, stopped, inbox>> PROVE SocketSound'
  BY <1>u DEF SocketSound
<1>t. ASSUME NEW t, Takes(t), link' \in {link, "registered"}, UNCHANGED stopped PROVE SocketSound'
  BY <1>t DEF SocketSound, Takes
<1>1. ASSUME NEW r \in Reqs, Request(r) PROVE ApprovalInv' /\ HandshakeStep
  <2>1. outbox' \in Seq(Frames)
    BY <1>0, <1>1, QueueMoves, FramesMade DEF Request
  <2>2. TypeOK'
    <3>1. CASE park' = [park EXCEPT ![r] = "parked"] /\ UNCHANGED result
      BY <1>1, <2>1, <3>1 DEF Request, TypeOK
    <3>2. CASE park' = [park EXCEPT ![r] = "settled"] /\ result' = [result EXCEPT ![r] = Denial]
      BY <1>1, <2>1, <3>2 DEF Request, TypeOK
    <3> QED
      BY <1>1, <3>1, <3>2 DEF Request
  <2>3. /\ Parked' \subseteq Parked \cup {r}
        /\ r \in Parked' => link # "down"
        /\ \A s \in Reqs : result[s] = Denial => result'[s] = Denial
    BY <1>0, <1>1 DEF Request, Parked, SocketOpen, TypeOK
  <2>4. DeadlineGuardsParks'
    <3>1. UNCHANGED <<link, deadline>>
      BY <1>1 DEF Request
    <3>2. link' = "down" /\ Parked' # {} => Parked # {}
      BY <2>3, <3>1
    <3> QED
      BY <3>1, <3>2 DEF DeadlineGuardsParks
  <2>5. CancelledCallsStayDenied'
    <3>1. cancelled \subseteq Reqs /\ UNCHANGED <<cancelled, stopped, link>>
      BY <1>0, <1>1 DEF Request, TypeOK
    <3>2. \A s \in cancelled' : result'[s] = Denial
      BY <2>3, <3>1 DEF CancelledCallsStayDenied
    <3>3. stopped' => Parked' = {}
      BY <2>3, <3>1 DEF CancelledCallsStayDenied, SocketSound
    <3> QED
      BY <3>2, <3>3 DEF CancelledCallsStayDenied
  <2>6. ReceiptsUnpoisoned'
    BY <1>1 DEF Request, ReceiptsUnpoisoned
  <2>7. HandshakeStep
    BY <1>1, ParkedHasNoResult DEF Request, HandshakeStep, TypeOK
  <2> QED
    BY <1>u, <1>1, <2>2, <2>4, <2>5, <2>6, <2>7 DEF Request
<1>2. ASSUME NEW r \in Reqs, Expire(r) PROVE ApprovalInv' /\ HandshakeStep
  <2>1. Parked \ {r} \subseteq Parked
    OBVIOUS
  <2> QED
    BY <1>0, <1>2, <1>u, <2>1, DenialStep
    DEF Expire, TypeOK, DeadlineGuardsParks, CancelledCallsStayDenied, hubVars
<1>3. ASSUME OnDecision PROVE ApprovalInv' /\ HandshakeStep
  <2> DEFINE r == Head(inbox).req
  <2>1. /\ r \in Reqs /\ Head(inbox).val \in Decisions /\ inbox' \in Seq(Frames)
        /\ UNCHANGED <<link, deadline, cancelled, stopped, outbox, card, chosen>>
    BY <1>0, <1>3, FrameShapes DEF OnDecision, Takes
  <2>s. SocketSound'
    BY <1>3, <1>t DEF OnDecision
  <2>2. CASE UNCHANGED brokerVars
    BY <1>0, <2>s, <2>1, <2>2, FramesOnly
  <2>3. CASE r \in Parked /\ prepared[r] = Nothing /\ Release(r, Head(inbox).val)
    BY <2>s, <2>1, <2>3, ReleaseStep
  <2> QED
    BY <1>3, <2>2, <2>3 DEF OnDecision
<1>4. ASSUME OnPrepare PROVE ApprovalInv' /\ HandshakeStep
  <2> DEFINE r == Head(inbox).req
             conflict == r \in Parked /\ prepared[r] \notin {Nothing, Head(inbox).val}
             accepted == r \in Parked /\ ~ conflict /\ r \notin conflicted
  <2>1. /\ inbox # << >> /\ Head(inbox).type = "prepare" /\ inbox' = Tail(inbox)
        /\ UNCHANGED <<park, result, link, deadline, cancelled, stopped, card, chosen>>
        /\ conflicted' = IF conflict THEN conflicted \cup {r} ELSE conflicted
        /\ prepared' = IF accepted /\ prepared[r] = Nothing
                       THEN [prepared EXCEPT ![r] = Head(inbox).val] ELSE prepared
    BY <1>4 DEF OnPrepare, PrepareAs, Takes
  <2>2. PICK sent \in BOOLEAN :
          /\ outbox' = IF sent THEN Append(outbox, Frame("receipt", r, accepted)) ELSE outbox
          /\ receipted' = (IF conflict THEN receipted \ {r} ELSE receipted)
                            \cup (IF accepted /\ sent THEN {r} ELSE {})
    BY <1>4 DEF OnPrepare, PrepareAs
  <2>3. r \in Reqs /\ Head(inbox).val \in Decisions
    BY <1>0, <2>1, FrameShapes
  <2>4. Frame("receipt", r, accepted) \in Frames
    BY <2>3, FramesMade
  <2>5. outbox' \in Seq(Frames) /\ inbox' \in Seq(Frames)
    BY <1>0, <2>1, <2>2, <2>4, QueueMoves
  <2>6. receipted' \subseteq Reqs /\ conflicted' \subseteq Reqs /\ ReceiptsUnpoisoned'
    BY <1>0, <2>1, <2>2, <2>3 DEF TypeOK, ReceiptsUnpoisoned
  <2>7. prepared' \in [Reqs -> Decisions \cup {Nothing}]
    BY <1>0, <2>1, <2>3 DEF TypeOK
  <2>8. TypeOK'
    BY <1>0, <2>1, <2>5, <2>6, <2>7 DEF TypeOK
  <2>9. DeadlineGuardsParks' /\ CancelledCallsStayDenied'
    BY <2>1 DEF DeadlineGuardsParks, CancelledCallsStayDenied, Parked
  <2>10. HandshakeStep
    BY <1>0, <2>1, ParkedHasNoResult DEF HandshakeStep
  <2>11. SocketSound'
    BY <2>1 DEF SocketSound
  <2> QED
    BY <2>11, <2>6, <2>8, <2>9, <2>10
<1>5. ASSUME OnCommit PROVE ApprovalInv' /\ HandshakeStep
  <2> DEFINE r == Head(inbox).req
  <2>1. /\ r \in Reqs /\ inbox' \in Seq(Frames)
        /\ UNCHANGED <<link, deadline, cancelled, stopped, outbox, card, chosen>>
    BY <1>0, <1>5, FrameShapes DEF OnCommit, Takes
  <2>s. SocketSound'
    BY <1>5, <1>t DEF OnCommit
  <2>2. CASE UNCHANGED brokerVars
    BY <1>0, <2>s, <2>1, <2>2, FramesOnly
  <2>3. CASE /\ r \in Parked /\ prepared[r] # Nothing /\ r \in receipted
             /\ Release(r, prepared[r])
    <3>1. prepared[r] \in Decisions /\ r \notin conflicted
      BY <1>0, <2>1, <2>3 DEF TypeOK, ReceiptsUnpoisoned
    <3> QED
      BY <2>s, <2>1, <2>3, <3>1, ReleaseStep
  <2> QED
    BY <1>5, <2>2, <2>3 DEF OnCommit
<1>6. ASSUME OnAbort PROVE ApprovalInv' /\ HandshakeStep
  <2>1. SocketSound'
    BY <1>6, <1>t DEF OnAbort
  <2> QED
    BY <1>0, <1>6, <2>1, DenialStep
    DEF OnAbort, Takes, TypeOK, DeadlineGuardsParks, CancelledCallsStayDenied, hubVars
<1>7. ASSUME OnCancel PROVE ApprovalInv' /\ HandshakeStep
  <2> DEFINE S == {r \in Reqs : ReqJob[r] = Head(inbox).val}
  <2>2. cancelled' \subseteq cancelled \cup (Parked \cap S)
    BY <1>7 DEF OnCancel, Parked
  <2>3. DenyAll(S)
    BY <1>7 DEF OnCancel
  <2>4. SocketSound'
    BY <1>7, <1>t DEF OnCancel
  <2> HIDE DEF S
  <2> QED
    BY <1>0, <1>7, <2>2, <2>3, <2>4, DenialStep
    DEF OnCancel, Takes, TypeOK, DeadlineGuardsParks, CancelledCallsStayDenied, hubVars
<1>8. ASSUME OnRegistered PROVE ApprovalInv' /\ HandshakeStep
  <2>1. SocketSound'
    BY <1>8, <1>t DEF OnRegistered
  <2> QED
    BY <1>0, <1>8, <2>1, DenialStep
    DEF OnRegistered, Takes, TypeOK, DeadlineGuardsParks, CancelledCallsStayDenied, hubVars
<1>9. ASSUME Open \/ Register \/ Close PROVE ApprovalInv' /\ HandshakeStep
  <2>1. UNCHANGED <<brokerVars, cancelled, stopped, hubVars>>
    BY <1>9 DEF Open, Register, Close, Drops
  <2>2. outbox' \in Seq(Frames) /\ inbox' \in Seq(Frames)
    <3>1. CASE Open
      BY <1>0, <3>1 DEF Open
    <3>2. CASE Register
      <4>1. Frame("register", Nothing, Parked) \in Frames
        BY FramesMade DEF Parked
      <4> QED
        BY <1>0, <3>2, <4>1, QueueMoves DEF Register
    <3>3. CASE Close
      BY <1>0, <3>3 DEF Close, Drops
    <3> QED
      BY <1>9, <3>1, <3>2, <3>3
  <2>3. /\ link' \in {"down", "open", "joining", "registered"} /\ deadline' \in BOOLEAN
        /\ (link' = "down" /\ Parked # {}) => deadline'
        /\ link' # "registered"
    <3>1. CASE Open \/ Register
      BY <1>0, <3>1 DEF Open, Register, TypeOK
    <3>2. CASE Close
      <4>1. link' = "down" /\ deadline' = (deadline \/ Parked # {})
        BY <3>2 DEF Close, Drops
      <4> QED
        BY <4>1
    <3> QED
      BY <1>9, <3>1, <3>2
  <2>4. TypeOK'
    BY <2>1, <2>2, <2>3 DEF TypeOK, brokerVars, hubVars
  <2>5. DeadlineGuardsParks' /\ CancelledCallsStayDenied' /\ ReceiptsUnpoisoned'
    BY <2>1, <2>3 DEF DeadlineGuardsParks, CancelledCallsStayDenied, ReceiptsUnpoisoned, brokerVars, Parked
  <2>6. HandshakeStep
    BY <2>1, ParkedHasNoResult DEF HandshakeStep, brokerVars
  <2>7. SocketSound'
    BY <1>9 DEF Open, Register, Close, Drops, SocketSound, SocketOpen
  <2> QED
    BY <2>4, <2>5, <2>6, <2>7
<1>10. ASSUME DeadlineFires PROVE ApprovalInv' /\ HandshakeStep
  <2>1. Parked \ Reqs = {}
    BY DEF Parked
  <2> QED
    BY <1>0, <1>u, <1>10, <2>1, DenialStep DEF DeadlineFires, TypeOK, hubVars
<1>11. ASSUME Stop PROVE ApprovalInv' /\ HandshakeStep
  <2>1. Parked \ Reqs = {} /\ << >> \in Seq(Frames)
    BY DEF Parked
  <2>2. /\ DenyAll(Reqs) /\ link' = "down" /\ deadline' = FALSE /\ stopped' = TRUE
        /\ outbox' = << >> /\ inbox' = << >> /\ UNCHANGED <<cancelled, hubVars>>
    BY <1>11 DEF Stop
  <2> QED
    BY <1>0, <2>1, <2>2, DenialStep DEF TypeOK, SocketSound
<1> QED
  BY <1>1, <1>2, <1>3, <1>4, <1>5, <1>6, <1>7, <1>8, <1>9, <1>10, <1>11 DEF Handlers

-----------------------------------------------------------------------------
LEMMA ApprovalStep == ApprovalInv /\ [Next]_vars => ApprovalInv' /\ HandshakeStep
<1> SUFFICES ASSUME ApprovalInv, [Next]_vars PROVE ApprovalInv' /\ HandshakeStep
  OBVIOUS
<1>1. ASSUME UNCHANGED vars PROVE ApprovalInv' /\ HandshakeStep
  <2>1. inbox' \in Seq(Frames)
    BY <1>1 DEF ApprovalInv, TypeOK, vars
  <2>2. SocketSound'
    BY <1>1 DEF ApprovalInv, SocketSound, vars
  <2> QED
    BY <1>1, <2>1, <2>2, FramesOnly DEF vars, brokerVars
<1>2. ASSUME ApprovalInv' /\ UNCHANGED result PROVE HandshakeStep
  BY <1>2, ParkedHasNoResult DEF ApprovalInv, HandshakeStep
<1> QED
  BY <1>1, <1>2, HubSteps, BrokerSteps DEF Next

(* The broker's Map, the deadline, the cancelled jobs and the receipt bits *)
(* agree in every state.                                                   *)
THEOREM ApprovalInvariant == Spec => []ApprovalInv
<1>1. ApprovalInv /\ [Next]_vars => ApprovalInv'
  BY ApprovalStep
<1> QED
  BY ApprovalInit, <1>1, PTL DEF Spec

(* Type correctness: among other things, request() has resolved exactly    *)
(* for the settled calls (permissions.mjs:245-252).                        *)
THEOREM ApprovalTypeCorrect == Spec => []TypeOK
<1>1. ApprovalInv => TypeOK
  BY DEF ApprovalInv
<1> QED
  BY ApprovalInvariant, <1>1, PTL

(* No outage leaves a parked call without the deadline that bounds it      *)
(* (agensis.mjs:169-178, 816-825).                                         *)
THEOREM ParksAreGuarded == Spec => []DeadlineGuardsParks
<1>1. ApprovalInv => DeadlineGuardsParks
  BY DEF ApprovalInv
<1> QED
  BY ApprovalInvariant, <1>1, PTL

(* What waits when its job is cancelled is denied for good, and nothing    *)
(* waits in a stopped daemon (permissions.mjs:428-454).                    *)
THEOREM CancelsAreFinal == Spec => []CancelledCallsStayDenied
<1>1. ApprovalInv => CancelledCallsStayDenied
  BY DEF ApprovalInv
<1> QED
  BY ApprovalInvariant, <1>1, PTL

(* The two-phase handshake cannot be bypassed (permissions.mjs:303-370).   *)
THEOREM HandshakeHolds == Spec => CommitNeedsReceipt
<1>1. ApprovalInv /\ [Next]_vars
      => [\A r \in Reqs :
            (park[r] = "parked" /\ prepared[r] # Nothing /\ result'[r] \in Decisions)
            => (result'[r] = prepared[r] /\ r \in receipted \ conflicted)]_vars
  BY ApprovalStep DEF HandshakeStep
<1> QED
  BY ApprovalInvariant, <1>1, PTL DEF Spec, CommitNeedsReceipt



-----------------------------------------------------------------------------
(* What the hub and the broker know of each other, and the frames between  *)
(* them: enough to follow an answer from the human to the tool.            *)

(* A frame of type t about call r is in queue q.                           *)
InFlight(t, r, q) == \E i \in 1..Len(q) : q[i].type = t /\ q[i].req = r

(* A receipt that accepts a decision on r is on its way to the hub.        *)
Acked(r) == \E i \in 1..Len(outbox) :
  outbox[i].type = "receipt" /\ outbox[i].req = r /\ outbox[i].val = TRUE

(* The hub has named r, and the broker will hear of it.                    *)
Kept(r) == \E i \in 1..Len(inbox) : inbox[i].type = "registered" /\ r \in inbox[i].val

Cancelling(r) == \E i \in 1..Len(inbox) : inbox[i].type = "cancel" /\ inbox[i].val = ReqJob[r]

(* A frame is coming that ends the wait of r.                              *)
Decisive(r) ==
  InFlight("decision", r, inbox) \/ InFlight("commit", r, inbox) \/ InFlight("abort", r, inbox)

(* A call is asked once, and before anything is said about it.             *)
AskedOnce ==
  \A r \in Reqs :
    /\ park[r] = "fresh" => (card[r] = "none" /\ ~ InFlight("ask", r, outbox))
    /\ InFlight("ask", r, outbox) => card[r] = "none"
    /\ \A i, k \in 1..Len(outbox) :
         (outbox[i].type = "ask" /\ outbox[k].type = "ask" /\ outbox[i].req = r /\ outbox[k].req = r)
         => i = k
    /\ card[r] \in {"none", "open"} =>
         /\ prepared[r] = Nothing /\ ~ Acked(r)
         /\ ~ InFlight("prepare", r, inbox) /\ ~ InFlight("commit", r, inbox)

(* A legacy decision says what the human chose, and was never prepared.    *)
DecisionSpeaks ==
  \A i \in 1..Len(inbox) : inbox[i].type = "decision" =>
    /\ card[inbox[i].req] = "committed" /\ chosen[inbox[i].req] = inbox[i].val
    /\ prepared[inbox[i].req] = Nothing /\ ~ InFlight("prepare", inbox[i].req, inbox)

(* So does the last prepare of a call.                                     *)
LastPrepareSpeaks ==
  \A i \in 1..Len(inbox) : inbox[i].type = "prepare" =>
    \/ inbox[i].val = chosen[inbox[i].req]
    \/ \E k \in 1..Len(inbox) : k > i /\ inbox[k].type = "prepare" /\ inbox[k].req = inbox[i].req

(* Nothing is prepared behind a commit.                                    *)
CommitIsLast ==
  \A i \in 1..Len(inbox) : inbox[i].type = "commit" =>
    /\ card[inbox[i].req] = "committed"
    /\ \A k \in 1..Len(inbox) : (k > i /\ inbox[k].type = "prepare") => inbox[k].req # inbox[i].req

(* The broker holds what the human chose, or will learn that it changed.   *)
InStep(r) ==
  \/ r \notin Parked \/ r \in conflicted
  \/ /\ prepared[r] # Nothing /\ r \in receipted
     /\ prepared[r] = chosen[r] \/ InFlight("prepare", r, inbox)

(* The hub may commit, or has committed, only what is in step.             *)
ReceiptsInStep == \A r \in Reqs : (Acked(r) \/ InFlight("commit", r, inbox)) => InStep(r)

(* One socket carries one register frame and one answer to it.             *)
OneRegister ==
  /\ link = "down" => outbox = << >>
  /\ \A i \in 1..Len(outbox) : outbox[i].type = "register" =>
       /\ link = "joining" /\ \A k \in 1..Len(inbox) : inbox[k].type # "registered"
       /\ \A k \in 1..Len(outbox) : outbox[k].type = "register" => k = i
  /\ \A i \in 1..Len(inbox) : inbox[i].type = "registered" =>
       /\ link = "joining"
       /\ \A k \in 1..Len(inbox) : inbox[k].type = "registered" => k = i

(* Somebody, or some frame, will still answer r.                           *)
Held(r) == r \in Answerable \/ InFlight("ask", r, outbox) \/ Decisive(r) \/ Cancelling(r)

(* A call that survives the reconnect has a card or a frame that ends it.  *)
KeptIsHeld == \A r \in Parked \ conflicted : (link = "registered" \/ Kept(r)) => Held(r)

Lines == AskedOnce /\ DecisionSpeaks /\ LastPrepareSpeaks /\ CommitIsLast /\ OneRegister

HubInv == Lines /\ ReceiptsInStep /\ KeptIsHeld /\ ReleasedAsCommitted

(* A queue after one more frame: what it holds, and where.                 *)
Grows(p, q, f) ==
  /\ Len(p) = Len(q) + 1 /\ Len(q) \in Nat /\ p[Len(q) + 1] = f
  /\ \A i \in 1..Len(q) : p[i] = q[i]
  /\ \A t, r : InFlight(t, r, p) <=> (InFlight(t, r, q) \/ (f.type = t /\ f.req = r))

LEMMA Appended ==
  ASSUME NEW q \in Seq(Frames), NEW f \in Frames
  PROVE  Grows(Append(q, f), q, f)
  BY DEF InFlight, Grows

(* A queue after frames were taken from its front, or lost with the socket.*)
Suffix(p, q) ==
  \E d \in 0..Len(q) : Len(p) = Len(q) - d /\ \A i \in 1..Len(p) : p[i] = q[i + d]

LEMMA Suffixes ==
  ASSUME NEW q \in Seq(Frames)
  PROVE  /\ Suffix(q, q) /\ Suffix(<< >>, q)
         /\ q # << >> => (Suffix(Tail(q), q) /\ Head(q) = q[1] /\ Len(q) \in Nat \ {0})
<1>1. Len(q) \in Nat
  OBVIOUS
<1>2. Suffix(q, q)
  <2>1. 0 \in 0..Len(q) /\ Len(q) = Len(q) - 0 /\ \A i \in 1..Len(q) : q[i] = q[i + 0]
    BY <1>1
  <2> QED
    BY <2>1 DEF Suffix
<1>3. Suffix(<< >>, q)
  <2>1. Len(q) \in 0..Len(q) /\ Len(<< >>) = Len(q) - Len(q) /\ 1..Len(<< >>) = {}
    BY <1>1
  <2> QED
    BY <2>1 DEF Suffix
<1>4. ASSUME q # << >> PROVE Suffix(Tail(q), q) /\ Head(q) = q[1] /\ Len(q) \in Nat \ {0}
  <2>1. 1 \in 0..Len(q) /\ Len(Tail(q)) = Len(q) - 1
        /\ \A i \in 1..Len(Tail(q)) : Tail(q)[i] = q[i + 1]
    BY <1>4
  <2> QED
    BY <1>4, <2>1 DEF Suffix
<1> QED
  BY <1>2, <1>3, <1>4

(* Nothing appears in a queue that only loses frames.                      *)
LEMMA SuffixHolds ==
  ASSUME NEW q \in Seq(Frames), NEW p, Suffix(p, q), NEW t, NEW r, InFlight(t, r, p)
  PROVE  InFlight(t, r, q)
<1>1. PICK d \in 0..Len(q) : Len(p) = Len(q) - d /\ \A i \in 1..Len(p) : p[i] = q[i + d]
  BY DEF Suffix
<1>2. PICK i \in 1..Len(p) : p[i].type = t /\ p[i].req = r
  BY DEF InFlight
<1>3. i + d \in 1..Len(q) /\ q[i + d] = p[i]
  BY <1>1
<1> QED
  BY <1>2, <1>3 DEF InFlight

(* Only the head is missing after it was taken.                            *)
LEMMA TailHolds ==
  ASSUME NEW q \in Seq(Frames), q # << >>, NEW t, NEW r, InFlight(t, r, q),
         Head(q).type # t \/ Head(q).req # r
  PROVE  InFlight(t, r, Tail(q))
<1>1. PICK k \in 1..Len(q) : q[k].type = t /\ q[k].req = r
  BY DEF InFlight
<1>2. k # 1 /\ Len(Tail(q)) = Len(q) - 1 /\ \A i \in 1..Len(Tail(q)) : Tail(q)[i] = q[i + 1]
  BY <1>1
<1>3. k - 1 \in 1..Len(Tail(q)) /\ (k - 1) + 1 = k /\ Tail(q)[k - 1] = q[k]
  BY <1>2
<1> QED
  BY <1>1, <1>3 DEF InFlight

(* A step of the broker that resolves promises and forgets what it knew of *)
(* their calls, and does nothing else.                                     *)
BrokerQuiet ==
  \A r \in Reqs :
    /\ park'[r] = "fresh" => park[r] = "fresh"
    /\ prepared'[r] \in {prepared[r], Nothing}
    /\ r \in Parked' =>
         /\ r \in Parked /\ prepared'[r] = prepared[r]
         /\ r \in receipted' <=> r \in receipted
         /\ r \in conflicted' <=> r \in conflicted

LEMMA QuietBrokers ==
  ASSUME TypeOK
  PROVE  /\ UNCHANGED brokerVars => BrokerQuiet
         /\ \A S : DenyAll(S) => BrokerQuiet
         /\ \A r \in Parked, d \in Decisions : Release(r, d) => BrokerQuiet
<1>1. UNCHANGED brokerVars => BrokerQuiet
  BY DEF brokerVars, BrokerQuiet, Parked
<1>2. ASSUME NEW S, DenyAll(S) PROVE BrokerQuiet
  BY <1>2 DEF BrokerQuiet, DenyAll, DenyExactly, Parked, TypeOK
<1>3. ASSUME NEW r \in Parked, NEW d \in Decisions, Release(r, d) PROVE BrokerQuiet
  BY <1>3 DEF BrokerQuiet, Release, Parked, TypeOK
<1> QED
  BY <1>1, <1>2, <1>3

(* The order of the hub's frames about a call survives the loss of the     *)
(* first of them.                                                          *)
LEMMA InboxQuiet ==
  ASSUME TypeOK, LastPrepareSpeaks, CommitIsLast, UNCHANGED hubVars, Suffix(inbox', inbox)
  PROVE  LastPrepareSpeaks' /\ CommitIsLast'
<1>0. inbox \in Seq(Frames) /\ card' = card /\ chosen' = chosen
  BY DEF TypeOK, hubVars
<1>i. PICK d \in 0..Len(inbox) :
        Len(inbox') = Len(inbox) - d /\ \A i \in 1..Len(inbox') : inbox'[i] = inbox[i + d]
  BY DEF Suffix
<1>li. Len(inbox) \in Nat
  BY <1>0
<1>ii. \A i \in 1..Len(inbox') : i + d \in 1..Len(inbox)
  BY <1>i, <1>li
<1>1. LastPrepareSpeaks'
  <2> SUFFICES ASSUME NEW i \in 1..Len(inbox'), inbox'[i].type = "prepare"
               PROVE  \/ inbox'[i].val = chosen'[inbox'[i].req]
                      \/ \E k \in 1..Len(inbox') :
                           k > i /\ inbox'[k].type = "prepare" /\ inbox'[k].req = inbox'[i].req
    BY DEF LastPrepareSpeaks
  <2>1. i + d \in 1..Len(inbox) /\ inbox'[i] = inbox[i + d]
    BY <1>i, <1>ii
  <2>2. ASSUME NEW k \in 1..Len(inbox), k > i + d, inbox[k].type = "prepare", inbox[k].req = inbox'[i].req
        PROVE  \E n \in 1..Len(inbox') :
                 n > i /\ inbox'[n].type = "prepare" /\ inbox'[n].req = inbox'[i].req
    <3>1. k - d \in 1..Len(inbox') /\ k - d > i /\ (k - d) + d = k
      BY <1>i, <1>li, <2>2
    <3>2. inbox'[k - d] = inbox[k]
      BY <1>i, <3>1
    <3> QED
      BY <2>2, <3>1, <3>2
  <2> QED
    BY <1>0, <2>1, <2>2 DEF LastPrepareSpeaks
<1>2. CommitIsLast'
  <2> SUFFICES ASSUME NEW i \in 1..Len(inbox'), inbox'[i].type = "commit"
               PROVE  /\ card'[inbox'[i].req] = "committed"
                      /\ \A k \in 1..Len(inbox') :
                           (k > i /\ inbox'[k].type = "prepare") => inbox'[k].req # inbox'[i].req
    BY DEF CommitIsLast
  <2>1. i + d \in 1..Len(inbox) /\ inbox'[i] = inbox[i + d]
    BY <1>i, <1>ii
  <2>2. ASSUME NEW k \in 1..Len(inbox'), k > i, inbox'[k].type = "prepare"
        PROVE  inbox'[k].req # inbox'[i].req
    <3>1. k + d \in 1..Len(inbox) /\ inbox'[k] = inbox[k + d] /\ k + d > i + d
      BY <1>i, <1>ii, <1>li, <2>2
    <3> QED
      BY <2>1, <2>2, <3>1 DEF CommitIsLast
  <2> QED
    BY <1>0, <2>1, <2>2 DEF CommitIsLast
<1> QED
  BY <1>1, <1>2

(* The cards and the frames about them survive whatever only settles calls *)
(* and takes or loses frames.                                              *)
LEMMA QuietLines ==
  ASSUME TypeOK, Lines, BrokerQuiet, UNCHANGED hubVars,
         Suffix(outbox', outbox), Suffix(inbox', inbox), OneRegister'
  PROVE  Lines'
<1> USE DEF Lines
<1>0. /\ inbox \in Seq(Frames) /\ outbox \in Seq(Frames) /\ card' = card /\ chosen' = chosen
      /\ \A t, r : InFlight(t, r, inbox') => InFlight(t, r, inbox)
      /\ \A t, r : InFlight(t, r, outbox') => InFlight(t, r, outbox)
  BY SuffixHolds DEF TypeOK, hubVars
<1>i. PICK d \in 0..Len(inbox) :
        Len(inbox') = Len(inbox) - d /\ \A i \in 1..Len(inbox') : inbox'[i] = inbox[i + d]
  BY DEF Suffix
<1>o. PICK e \in 0..Len(outbox) :
        Len(outbox') = Len(outbox) - e /\ \A i \in 1..Len(outbox') : outbox'[i] = outbox[i + e]
  BY DEF Suffix
<1>li. Len(inbox) \in Nat /\ Len(outbox) \in Nat
  BY <1>0
<1>ii. \A i \in 1..Len(inbox') : i + d \in 1..Len(inbox)
  BY <1>i, <1>li
<1>oo. \A i \in 1..Len(outbox') : i + e \in 1..Len(outbox)
  BY <1>o, <1>li
<1>1. AskedOnce'
  <2> SUFFICES ASSUME NEW r \in Reqs
               PROVE  /\ park'[r] = "fresh" => (card'[r] = "none" /\ ~ InFlight("ask", r, outbox'))
                      /\ InFlight("ask", r, outbox') => card'[r] = "none"
                      /\ \A i, k \in 1..Len(outbox') :
                           (outbox'[i].type = "ask" /\ outbox'[k].type = "ask"
                              /\ outbox'[i].req = r /\ outbox'[k].req = r)
                           => i = k
                      /\ card'[r] \in {"none", "open"} =>
                           /\ prepared'[r] = Nothing /\ ~ Acked(r)'
                           /\ ~ InFlight("prepare", r, inbox') /\ ~ InFlight("commit", r, inbox')
    BY DEF AskedOnce, InFlight
  <2>1. park'[r] = "fresh" => (card'[r] = "none" /\ ~ InFlight("ask", r, outbox'))
    BY <1>0 DEF AskedOnce, BrokerQuiet
  <2>2. InFlight("ask", r, outbox') => card'[r] = "none"
    BY <1>0 DEF AskedOnce
  <2>3. ASSUME NEW i \in 1..Len(outbox'), NEW k \in 1..Len(outbox'),
               outbox'[i].type = "ask", outbox'[k].type = "ask", outbox'[i].req = r, outbox'[k].req = r
        PROVE  i = k
    <3>1. i + e = k + e
      BY <1>o, <1>oo, <2>3 DEF AskedOnce
    <3> QED
      BY <3>1, <1>li
  <2>4. Acked(r)' => Acked(r)
    BY <1>o, <1>oo DEF Acked
  <2>5. prepared[r] = Nothing => prepared'[r] = Nothing
    BY DEF BrokerQuiet
  <2> QED
    BY <1>0, <2>1, <2>2, <2>3, <2>4, <2>5 DEF AskedOnce
<1>2. DecisionSpeaks'
  <2> SUFFICES ASSUME NEW i \in 1..Len(inbox'), inbox'[i].type = "decision"
               PROVE  /\ card'[inbox'[i].req] = "committed" /\ chosen'[inbox'[i].req] = inbox'[i].val
                      /\ prepared'[inbox'[i].req] = Nothing
                      /\ ~ InFlight("prepare", inbox'[i].req, inbox')
    BY DEF DecisionSpeaks, InFlight
  <2>1. i + d \in 1..Len(inbox) /\ inbox'[i] = inbox[i + d] /\ inbox[i + d].req \in Reqs
    BY <1>0, <1>i, <1>ii, FrameShapes
  <2> QED
    BY <1>0, <2>1 DEF DecisionSpeaks, BrokerQuiet
<1>3. LastPrepareSpeaks' /\ CommitIsLast'
  BY InboxQuiet
<1> QED
  BY <1>1, <1>2, <1>3

(* The frames that remain keep the hub and the broker in step, unless a    *)
(* prepare was taken.                                                      *)
LEMMA QuietReceipts ==
  ASSUME TypeOK, ReceiptsInStep, BrokerQuiet, UNCHANGED hubVars,
         \/ outbox' = << >> /\ inbox' = << >>
         \/ outbox' = outbox /\ inbox' = inbox
         \/ /\ outbox' = outbox /\ inbox # << >> /\ inbox' = Tail(inbox)
            /\ Head(inbox).type # "prepare"
  PROVE  ReceiptsInStep'
<1> SUFFICES ASSUME NEW r \in Reqs, Acked(r)' \/ InFlight("commit", r, inbox') PROVE InStep(r)'
  BY DEF ReceiptsInStep, InFlight
<1>0. inbox \in Seq(Frames) /\ chosen' = chosen
  BY DEF TypeOK, hubVars
<1>1. ~ (outbox' = << >> /\ inbox' = << >>)
  BY DEF Acked, InFlight
<1>2. outbox' = outbox /\ Suffix(inbox', inbox)
  BY <1>0, <1>1, Suffixes
<1>3. Acked(r) \/ InFlight("commit", r, inbox)
  BY <1>0, <1>2, SuffixHolds DEF Acked
<1>4. InFlight("prepare", r, inbox) => InFlight("prepare", r, inbox')
  BY <1>0, <1>1, TailHolds
<1>5. InStep(r)
  BY <1>3 DEF ReceiptsInStep
<1> QED
  BY <1>0, <1>4, <1>5 DEF InStep, BrokerQuiet, InFlight

(* Frame f ends the wait of r.                                             *)
Ends(f, r) ==
  \/ f.type \in {"decision", "commit", "abort"} /\ f.req = r
  \/ f.type = "cancel" /\ f.val = ReqJob[r]

LEMMA HeldStays ==
  ASSUME TypeOK, NEW r \in Reqs, Held(r), card' = card,
         InFlight("ask", r, outbox) => InFlight("ask", r, outbox'),
         inbox # << >>, inbox' = Tail(inbox), ~ Ends(Head(inbox), r)
  PROVE  Held(r)'
<1>0. inbox \in Seq(Frames)
  BY DEF TypeOK
<1>1. CASE r \in Answerable
  BY <1>1 DEF Held, Answerable
<1>2. CASE InFlight("ask", r, outbox)
  BY <1>2 DEF Held, InFlight
<1>3. CASE Decisive(r)
  <2>1. \A t \in {"decision", "commit", "abort"} : InFlight(t, r, inbox) => InFlight(t, r, inbox')
    BY <1>0, TailHolds DEF Ends
  <2>2. Decisive(r)'
    BY <1>3, <2>1 DEF Decisive, InFlight
  <2> QED
    BY <2>2 DEF Held
<1>4. CASE Cancelling(r)
  <2>1. PICK k \in 1..Len(inbox) : inbox[k].type = "cancel" /\ inbox[k].val = ReqJob[r]
    BY <1>4 DEF Cancelling
  <2>2. Head(inbox) = inbox[1] /\ Len(inbox') = Len(inbox) - 1
        /\ \A i \in 1..Len(inbox') : inbox'[i] = inbox[i + 1]
    BY <1>0
  <2>3. k # 1
    BY <2>1, <2>2 DEF Ends
  <2>4. k - 1 \in 1..Len(inbox') /\ (k - 1) + 1 = k /\ inbox'[k - 1] = inbox[k]
    BY <1>0, <2>2, <2>3
  <2> QED
    BY <2>1, <2>4 DEF Held, Cancelling
<1> QED
  BY <1>1, <1>2, <1>3, <1>4 DEF Held

(* What the handler of one frame has to show, prepare() apart.             *)
LEMMA TakeStep ==
  ASSUME TypeOK, HubInv, BrokerQuiet, UNCHANGED hubVars, outbox' = outbox,
         inbox # << >>, inbox' = Tail(inbox), Head(inbox).type # "prepare",
         IF Head(inbox).type = "registered"
           THEN link' = "registered" /\ Parked' \subseteq Head(inbox).val
           ELSE link' = link,
         \A r \in Parked' \ conflicted' : ~ Ends(Head(inbox), r),
         ReleasedAsCommitted'
  PROVE  HubInv'
<1> USE DEF HubInv
<1>0. /\ inbox \in Seq(Frames) /\ card' = card
      /\ Len(inbox) \in Nat \ {0} /\ Head(inbox) = inbox[1]
      /\ Len(inbox') = Len(inbox) - 1 /\ \A i \in 1..Len(inbox') : inbox'[i] = inbox[i + 1]
  BY DEF TypeOK, hubVars
<1>1. Suffix(outbox', outbox) /\ Suffix(inbox', inbox)
  BY Suffixes DEF TypeOK
<1>2. OneRegister'
  <2>0. \A i \in 1..Len(inbox') : i + 1 \in 1..Len(inbox) /\ i + 1 # 1
    BY <1>0
  <2>1. ASSUME Head(inbox).type = "registered"
        PROVE  /\ \A i \in 1..Len(inbox') : inbox'[i].type # "registered"
               /\ \A i \in 1..Len(outbox) : outbox[i].type # "register"
    <3>1. 1 \in 1..Len(inbox) /\ inbox[1].type = "registered"
      BY <1>0, <2>1
    <3> QED
      BY <1>0, <2>0, <3>1 DEF Lines, OneRegister
  <2>2. CASE Head(inbox).type = "registered"
    BY <2>1, <2>2 DEF OneRegister
  <2>3. CASE Head(inbox).type # "registered"
    <3>1. link' = link
      BY <2>3
    <3>2. ASSUME NEW i \in 1..Len(inbox'), NEW k \in 1..Len(inbox'),
                 inbox'[i].type = "registered", inbox'[k].type = "registered"
          PROVE  i = k
      <4>1. i + 1 = k + 1
        BY <1>0, <2>0, <3>2 DEF Lines, OneRegister
      <4> QED
        BY <4>1, <1>0
    <3>3. \A i \in 1..Len(inbox') : inbox'[i].type = "registered" => link = "joining"
      BY <1>0, <2>0 DEF Lines, OneRegister
    <3>4. (\A k \in 1..Len(inbox) : inbox[k].type # "registered")
          => (\A k \in 1..Len(inbox') : inbox'[k].type # "registered")
      BY <1>0, <2>0
    <3> QED
      BY <3>1, <3>2, <3>3, <3>4 DEF Lines, OneRegister
  <2> QED
    BY <2>2, <2>3
<1>3. Lines'
  BY <1>1, <1>2, QuietLines
<1>4. ReceiptsInStep'
  BY QuietReceipts
<1>5. KeptIsHeld'
  <2> SUFFICES ASSUME NEW r \in Parked' \ conflicted', link' = "registered" \/ Kept(r)'
               PROVE  Held(r)'
    BY DEF KeptIsHeld
  <2>1. r \in Reqs /\ r \in Parked \ conflicted
    BY DEF BrokerQuiet, Parked
  <2>2. Kept(r)' => Kept(r)
    <3>1. \A i \in 1..Len(inbox') : i + 1 \in 1..Len(inbox)
      BY <1>0
    <3> QED
      BY <1>0, <3>1 DEF Kept
  <2>3. CASE Head(inbox).type = "registered"
    <3>1. 1 \in 1..Len(inbox) /\ inbox[1].type = "registered" /\ r \in inbox[1].val
      BY <1>0, <2>3
    <3>2. Kept(r)
      BY <3>1 DEF Kept
    <3> QED
      BY <1>0, <2>1, <3>2, HeldStays DEF KeptIsHeld
  <2>4. CASE Head(inbox).type # "registered"
    BY <1>0, <2>1, <2>2, <2>4, HeldStays DEF KeptIsHeld
  <2> QED
    BY <2>3, <2>4
<1> QED
  BY <1>3, <1>4, <1>5

(* Calls are settled and no frame moves.                                   *)
LEMMA IdleStep ==
  ASSUME ApprovalInv, HubInv, BrokerQuiet, UNCHANGED <<hubVars, outbox, inbox>>,
         link' = link \/ (link = "down" /\ link' = "open"),
         ReleasedAsCommitted'
  PROVE  HubInv'
<1> USE DEF HubInv, ApprovalInv
<1>0. inbox \in Seq(Frames) /\ card' = card /\ inbox' = inbox /\ outbox' = outbox
  BY DEF TypeOK, hubVars
<1>1. Suffix(outbox', outbox) /\ Suffix(inbox', inbox)
  BY <1>0, Suffixes DEF TypeOK
<1>2. OneRegister'
  BY <1>0 DEF Lines, OneRegister, SocketSound
<1>3. Lines'
  BY <1>1, <1>2, QuietLines
<1>4. ReceiptsInStep'
  BY <1>0, QuietReceipts
<1>5. KeptIsHeld'
  BY <1>0 DEF KeptIsHeld, BrokerQuiet, Parked, Kept, Held, Answerable, Decisive, Cancelling, InFlight
<1> QED
  BY <1>3, <1>4, <1>5

(* The socket is gone with what it carried.                                *)
LEMMA LossStep ==
  ASSUME TypeOK, HubInv, BrokerQuiet, UNCHANGED hubVars,
         link' = "down", outbox' = << >>, inbox' = << >>, ReleasedAsCommitted'
  PROVE  HubInv'
<1> USE DEF HubInv
<1>1. Suffix(outbox', outbox) /\ Suffix(inbox', inbox)
  BY Suffixes DEF TypeOK
<1>2. OneRegister'
  BY DEF OneRegister
<1>3. Lines'
  BY <1>1, <1>2, QuietLines
<1>4. ReceiptsInStep'
  BY QuietReceipts
<1>5. KeptIsHeld'
  BY DEF KeptIsHeld, Kept
<1> QED
  BY <1>3, <1>4, <1>5

LEMMA DenialsReleaseNothing ==
  ASSUME TypeOK, ReleasedAsCommitted, NEW S, DenyAll(S), UNCHANGED hubVars
  PROVE  ReleasedAsCommitted'
  BY DenialEffect DEF ReleasedAsCommitted, hubVars

LEMMA SettlingSteps ==
  ASSUME ApprovalInv, HubInv,
         \/ \E r \in Reqs : Expire(r)
         \/ OnAbort \/ OnCancel \/ OnRegistered
         \/ Open \/ Close \/ DeadlineFires \/ Stop
  PROVE  HubInv'
<1> USE DEF ApprovalInv
<1>0. TypeOK /\ ReleasedAsCommitted
  BY DEF HubInv
<1>1. ASSUME NEW r \in Reqs, Expire(r) PROVE HubInv'
  <2>1. DenyAll({r}) /\ UNCHANGED <<hubVars, outbox, inbox, link>>
    BY <1>1 DEF Expire, hubVars
  <2> QED
    BY <1>0, <2>1, QuietBrokers, DenialsReleaseNothing, IdleStep DEF hubVars
<1>2. ASSUME OnAbort PROVE HubInv'
  <2>1. DenyAll({Head(inbox).req}) /\ UNCHANGED <<hubVars, outbox, link>>
        /\ inbox # << >> /\ Head(inbox).type = "abort" /\ inbox' = Tail(inbox)
    BY <1>2 DEF OnAbort, Takes, hubVars
  <2>2. \A r \in Parked' : ~ Ends(Head(inbox), r)
    BY <1>0, <2>1, DenialEffect DEF Ends
  <2> QED
    BY <1>0, <2>1, <2>2, QuietBrokers, DenialsReleaseNothing, TakeStep DEF hubVars
<1>3. ASSUME OnCancel PROVE HubInv'
  <2> DEFINE S == {r \in Reqs : ReqJob[r] = Head(inbox).val}
  <2>1. DenyAll(S) /\ UNCHANGED <<hubVars, outbox, link>>
        /\ inbox # << >> /\ Head(inbox).type = "cancel" /\ inbox' = Tail(inbox)
    BY <1>3 DEF OnCancel, Takes, hubVars
  <2>2. \A r \in Parked \ S : ~ Ends(Head(inbox), r)
    BY <2>1 DEF Ends, Parked
  <2> HIDE DEF S
  <2>3. \A r \in Parked' : ~ Ends(Head(inbox), r)
    BY <1>0, <2>1, <2>2, DenialEffect
  <2> QED
    BY <1>0, <2>1, <2>3, QuietBrokers, DenialsReleaseNothing, TakeStep DEF hubVars
<1>4. ASSUME OnRegistered PROVE HubInv'
  <2>1. DenyAll(Reqs \ Head(inbox).val) /\ UNCHANGED <<hubVars, outbox>> /\ link' = "registered"
        /\ inbox # << >> /\ Head(inbox).type = "registered" /\ inbox' = Tail(inbox)
    BY <1>4 DEF OnRegistered, Takes, hubVars
  <2>2. Parked' \subseteq Head(inbox).val
    BY <1>0, <2>1, DenialEffect DEF Parked
  <2>3. \A r : ~ Ends(Head(inbox), r)
    BY <2>1 DEF Ends
  <2> QED
    BY <1>0, <2>1, <2>2, <2>3, QuietBrokers, DenialsReleaseNothing, TakeStep DEF hubVars
<1>5. ASSUME Open PROVE HubInv'
  <2>1. UNCHANGED <<brokerVars, hubVars, outbox, inbox>> /\ link = "down" /\ link' = "open"
    BY <1>5 DEF Open
  <2>2. ReleasedAsCommitted'
    BY <1>0, <2>1 DEF ReleasedAsCommitted, brokerVars, hubVars
  <2> QED
    BY <1>0, <2>1, <2>2, QuietBrokers, IdleStep DEF hubVars
<1>6. ASSUME Close PROVE HubInv'
  <2>1. UNCHANGED <<brokerVars, hubVars>> /\ link' = "down" /\ outbox' = << >> /\ inbox' = << >>
    BY <1>6 DEF Close, Drops
  <2>2. ReleasedAsCommitted'
    BY <1>0, <2>1 DEF ReleasedAsCommitted, brokerVars, hubVars
  <2> QED
    BY <1>0, <2>1, <2>2, QuietBrokers, LossStep
<1>7. ASSUME DeadlineFires PROVE HubInv'
  <2>1. DenyAll(Reqs) /\ UNCHANGED <<hubVars, outbox, inbox, link>>
    BY <1>7 DEF DeadlineFires
  <2> QED
    BY <1>0, <2>1, QuietBrokers, DenialsReleaseNothing, IdleStep DEF hubVars
<1>8. ASSUME Stop PROVE HubInv'
  <2>1. DenyAll(Reqs) /\ UNCHANGED hubVars /\ link' = "down" /\ outbox' = << >> /\ inbox' = << >>
    BY <1>8 DEF Stop
  <2> QED
    BY <1>0, <2>1, QuietBrokers, DenialsReleaseNothing, LossStep
<1> QED
  BY <1>1, <1>2, <1>3, <1>4, <1>5, <1>6, <1>7, <1>8

(* The two frames that release a call: what they release is what the human *)
(* chose.                                                                  *)
LEMMA ReleasingSteps ==
  ASSUME ApprovalInv, HubInv, OnDecision \/ OnCommit
  PROVE  HubInv'
<1> USE DEF ApprovalInv
<1> DEFINE r == Head(inbox).req
<1>0. /\ TypeOK /\ ReleasedAsCommitted /\ inbox \in Seq(Frames)
      /\ UNCHANGED <<hubVars, outbox, link>> /\ inbox # << >> /\ inbox' = Tail(inbox)
      /\ Head(inbox).type \in {"decision", "commit"}
      /\ Len(inbox) \in Nat \ {0} /\ Head(inbox) = inbox[1] /\ Head(inbox) \in Frames
  BY DEF HubInv, OnDecision, OnCommit, Takes, hubVars, TypeOK
<1>r. r \in Reqs /\ 1 \in 1..Len(inbox)
  BY <1>0, FrameShapes
<1>1. CASE OnDecision
  <2>1. /\ Head(inbox).type = "decision"
        /\ IF r \in Parked /\ prepared[r] = Nothing
           THEN Release(r, Head(inbox).val) ELSE UNCHANGED brokerVars
    BY <1>1 DEF OnDecision, Takes
  <2>2. /\ card[r] = "committed" /\ chosen[r] = Head(inbox).val /\ prepared[r] = Nothing
        /\ Head(inbox).val \in Decisions
    BY <1>0, <1>r, <2>1, FrameShapes DEF HubInv, Lines, DecisionSpeaks
  <2>3. CASE r \in Parked
    <3>1. Release(r, Head(inbox).val)
      BY <2>1, <2>2, <2>3
    <3>2. \A s \in Parked' : ~ Ends(Head(inbox), s)
      BY <1>0, <2>1, <2>2, <2>3, <3>1, ReleaseEffect DEF Ends
    <3>3. ReleasedAsCommitted'
      BY <1>0, <2>2, <2>3, <3>1, ReleaseEffect DEF ReleasedAsCommitted, hubVars
    <3> QED
      BY <1>0, <2>1, <2>2, <2>3, <3>1, <3>2, <3>3, QuietBrokers, TakeStep DEF hubVars
  <2>4. CASE r \notin Parked
    <3>1. UNCHANGED brokerVars
      BY <2>1, <2>4
    <3>2. \A s \in Parked' : ~ Ends(Head(inbox), s)
      BY <2>1, <2>4, <3>1 DEF Ends, Parked, brokerVars
    <3>3. ReleasedAsCommitted'
      BY <1>0, <3>1 DEF ReleasedAsCommitted, hubVars, brokerVars
    <3> QED
      BY <1>0, <2>1, <3>1, <3>2, <3>3, QuietBrokers, TakeStep DEF hubVars
  <2> QED
    BY <2>3, <2>4
<1>2. CASE OnCommit
  <2>1. /\ Head(inbox).type = "commit"
        /\ IF r \in Parked /\ prepared[r] # Nothing /\ r \in receipted
           THEN Release(r, prepared[r]) ELSE UNCHANGED brokerVars
    BY <1>2 DEF OnCommit, Takes
  <2>2. card[r] = "committed" /\ ~ InFlight("prepare", r, inbox)
    <3>1. /\ card[r] = "committed"
          /\ \A k \in 1..Len(inbox) : (k > 1 /\ inbox[k].type = "prepare") => inbox[k].req # r
      BY <1>0, <1>r, <2>1 DEF HubInv, Lines, CommitIsLast
    <3>2. \A k \in 1..Len(inbox) : k # 1 => k > 1
      BY <1>0
    <3> QED
      BY <1>0, <2>1, <3>1, <3>2 DEF InFlight
  <2>3. InStep(r)
    <3>1. InFlight("commit", r, inbox)
      BY <1>0, <1>r, <2>1 DEF InFlight
    <3> QED
      BY <1>r, <3>1 DEF HubInv, ReceiptsInStep
  <2>4. CASE r \in Parked /\ prepared[r] # Nothing /\ r \in receipted
    <3>1. Release(r, prepared[r]) /\ prepared[r] \in Decisions
      BY <1>0, <1>r, <2>1, <2>4 DEF TypeOK
    <3>2. prepared[r] = chosen[r]
      BY <2>2, <2>3, <2>4 DEF InStep, ReceiptsUnpoisoned
    <3>3. \A s \in Parked' : ~ Ends(Head(inbox), s)
      BY <1>0, <2>1, <2>4, <3>1, ReleaseEffect DEF Ends
    <3>4. ReleasedAsCommitted'
      BY <1>0, <2>2, <2>4, <3>1, <3>2, ReleaseEffect DEF ReleasedAsCommitted, hubVars
    <3> QED
      BY <1>0, <2>1, <2>4, <3>1, <3>3, <3>4, QuietBrokers, TakeStep DEF hubVars
  <2>5. CASE ~ (r \in Parked /\ prepared[r] # Nothing /\ r \in receipted)
    <3>1. UNCHANGED brokerVars
      BY <2>1, <2>5
    <3>2. r \notin Parked \ conflicted
      BY <2>3, <2>5 DEF InStep
    <3>3. \A s \in Parked' \ conflicted' : ~ Ends(Head(inbox), s)
      BY <2>1, <3>1, <3>2 DEF Ends, Parked, brokerVars
    <3>4. ReleasedAsCommitted'
      BY <1>0, <3>1 DEF ReleasedAsCommitted, hubVars, brokerVars
    <3> QED
      BY <1>0, <2>1, <3>1, <3>3, <3>4, QuietBrokers, TakeStep DEF hubVars
  <2> QED
    BY <2>4, <2>5
<1> QED
  BY <1>1, <1>2

(* prepare(): the decision it keeps is the last one, or another prepare    *)
(* follows that changes or poisons it.                                     *)
LEMMA PrepareStep ==
  ASSUME ApprovalInv, HubInv, OnPrepare
  PROVE  HubInv'
<1> USE DEF ApprovalInv, HubInv, Lines
<1> DEFINE r == Head(inbox).req
           v == Head(inbox).val
           conflict == r \in Parked /\ prepared[r] \notin {Nothing, v}
           accepted == r \in Parked /\ ~ conflict /\ r \notin conflicted
<1>1. /\ inbox # << >> /\ Head(inbox).type = "prepare" /\ inbox' = Tail(inbox)
      /\ UNCHANGED <<park, result, link, card, chosen>>
      /\ conflicted' = IF conflict THEN conflicted \cup {r} ELSE conflicted
      /\ prepared' = IF accepted /\ prepared[r] = Nothing
                     THEN [prepared EXCEPT ![r] = v] ELSE prepared
  BY DEF OnPrepare, PrepareAs, Takes
<1>2. PICK sent \in BOOLEAN :
        /\ outbox' = IF sent THEN Append(outbox, Frame("receipt", r, accepted)) ELSE outbox
        /\ receipted' = (IF conflict THEN receipted \ {r} ELSE receipted)
                          \cup (IF accepted /\ sent THEN {r} ELSE {})
  BY DEF OnPrepare, PrepareAs
<1>0. /\ inbox \in Seq(Frames) /\ outbox \in Seq(Frames)
      /\ Head(inbox) \in Frames /\ Len(inbox) \in Nat \ {0} /\ Head(inbox) = inbox[1]
      /\ Len(inbox') = Len(inbox) - 1 /\ \A i \in 1..Len(inbox') : inbox'[i] = inbox[i + 1]
      /\ Suffix(inbox', inbox) /\ Len(outbox) \in Nat
  BY <1>1, Suffixes DEF TypeOK
<1>3. r \in Reqs /\ v \in Decisions /\ 1 \in 1..Len(inbox)
  BY <1>0, <1>1, FrameShapes
<1>4. /\ InFlight("prepare", r, inbox) /\ card[r] \notin {"none", "open"}
      /\ ~ \E i \in 1..Len(inbox) : inbox[i].type = "decision" /\ inbox[i].req = r
  <2>1. InFlight("prepare", r, inbox)
    BY <1>0, <1>1, <1>3 DEF InFlight
  <2> QED
    BY <1>3, <2>1 DEF AskedOnce, DecisionSpeaks
<1>5. /\ Frame("receipt", r, accepted) \in Frames
      /\ Frame("receipt", r, accepted).type = "receipt" /\ Frame("receipt", r, accepted).req = r
      /\ Frame("receipt", r, accepted).val = accepted
  BY <1>3, FramesMade DEF Frame
<1> DEFINE f == Frame("receipt", r, accepted)
<1> HIDE DEF f
<1>6. /\ \A i \in 1..Len(outbox') :
           (i \in 1..Len(outbox) /\ outbox'[i] = outbox[i])
             \/ (i = Len(outbox) + 1 /\ sent /\ outbox'[i] = f)
      /\ \A i \in 1..Len(outbox) : i \in 1..Len(outbox') /\ outbox'[i] = outbox[i]
  <2>1. CASE sent
    <3>1. outbox' = Append(outbox, f) /\ f \in Frames
      BY <1>2, <1>5, <2>1 DEF f
    <3> HIDE DEF accepted
    <3>2. Len(outbox') = Len(outbox) + 1 /\ outbox'[Len(outbox) + 1] = f
          /\ \A i \in 1..Len(outbox) : outbox'[i] = outbox[i]
      BY <1>0, <3>1
    <3> QED
      BY <1>0, <2>1, <3>2
  <2>2. CASE ~ sent
    BY <1>2, <2>2
  <2> QED
    BY <2>1, <2>2
<1>f. f.type = "receipt" /\ f.req = r /\ f.val = accepted
  BY <1>5 DEF f
<1>7. \A s : InFlight("ask", s, outbox') <=> InFlight("ask", s, outbox)
  BY <1>6, <1>f DEF InFlight
<1>8. \A s \in Reqs \ {r} : Acked(s)' => Acked(s)
  BY <1>6, <1>f DEF Acked
<1>9. \A t, s : InFlight(t, s, inbox') => InFlight(t, s, inbox)
  BY <1>0, SuffixHolds
<1>10. \A s \in Reqs \ {r} :
         /\ prepared'[s] = prepared[s]
         /\ s \in receipted' <=> s \in receipted
         /\ s \in conflicted' <=> s \in conflicted
  BY <1>1, <1>2 DEF TypeOK
<1>11. AskedOnce'
  <2> SUFFICES ASSUME NEW s \in Reqs
               PROVE  /\ park'[s] = "fresh" => (card'[s] = "none" /\ ~ InFlight("ask", s, outbox'))
                      /\ InFlight("ask", s, outbox') => card'[s] = "none"
                      /\ \A i, k \in 1..Len(outbox') :
                           (outbox'[i].type = "ask" /\ outbox'[k].type = "ask"
                              /\ outbox'[i].req = s /\ outbox'[k].req = s)
                           => i = k
                      /\ card'[s] \in {"none", "open"} =>
                           /\ prepared'[s] = Nothing /\ ~ Acked(s)'
                           /\ ~ InFlight("prepare", s, inbox') /\ ~ InFlight("commit", s, inbox')
    BY DEF AskedOnce, InFlight
  <2>1. park' = park /\ card' = card
    BY <1>1
  <2>2. \A i, k \in 1..Len(outbox') :
           (outbox'[i].type = "ask" /\ outbox'[k].type = "ask" /\ outbox'[i].req = s /\ outbox'[k].req = s)
           => i = k
    BY <1>6, <1>f DEF AskedOnce
  <2>3. card'[s] \in {"none", "open"} => s # r
    BY <1>4, <2>1
  <2> QED
    BY <1>7, <1>8, <1>9, <1>10, <2>1, <2>2, <2>3 DEF AskedOnce
<1>12. DecisionSpeaks'
  <2> SUFFICES ASSUME NEW i \in 1..Len(inbox'), inbox'[i].type = "decision"
               PROVE  /\ card'[inbox'[i].req] = "committed" /\ chosen'[inbox'[i].req] = inbox'[i].val
                      /\ prepared'[inbox'[i].req] = Nothing
                      /\ ~ InFlight("prepare", inbox'[i].req, inbox')
    BY DEF DecisionSpeaks, InFlight
  <2>1. i + 1 \in 1..Len(inbox) /\ inbox'[i] = inbox[i + 1] /\ inbox[i + 1].req \in Reqs
    BY <1>0, FrameShapes
  <2>2. inbox'[i].req \in Reqs \ {r}
    BY <1>4, <2>1
  <2> HIDE DEF r
  <2> QED
    BY <1>1, <1>9, <1>10, <2>1, <2>2 DEF DecisionSpeaks
<1>13. LastPrepareSpeaks' /\ CommitIsLast'
  BY <1>0, <1>1, InboxQuiet DEF hubVars
<1>14. OneRegister'
  <2>1. \A i \in 1..Len(inbox') : i + 1 \in 1..Len(inbox)
    BY <1>0
  <2>2. link # "down" /\ link' = link
    BY <1>0, <1>1 DEF SocketSound
  <2>3. /\ \A i \in 1..Len(outbox') : outbox'[i].type = "register" =>
             i \in 1..Len(outbox) /\ outbox[i].type = "register"
        /\ \A i \in 1..Len(inbox') : inbox'[i].type = "registered" => inbox[i + 1].type = "registered"
    BY <1>0, <1>6, <1>f
  <2>4. ASSUME NEW i \in 1..Len(inbox'), NEW k \in 1..Len(inbox'),
               inbox'[i].type = "registered", inbox'[k].type = "registered"
        PROVE  i = k
    <3>1. i + 1 = k + 1
      BY <2>1, <2>3, <2>4 DEF OneRegister
    <3> QED
      BY <1>0, <3>1
  <2>5. \A i \in 1..Len(outbox') : outbox'[i].type = "register" =>
          /\ link = "joining" /\ \A k \in 1..Len(inbox') : inbox'[k].type # "registered"
          /\ \A k \in 1..Len(outbox') : outbox'[k].type = "register" => k = i
    BY <2>1, <2>3 DEF OneRegister
  <2>6. \A i \in 1..Len(inbox') : inbox'[i].type = "registered" => link = "joining"
    BY <2>1, <2>3 DEF OneRegister
  <2> QED
    BY <2>2, <2>4, <2>5, <2>6 DEF OneRegister
<1>15. ReceiptsInStep'
  <2> SUFFICES ASSUME NEW s \in Reqs, Acked(s)' \/ InFlight("commit", s, inbox') PROVE InStep(s)'
    BY DEF ReceiptsInStep, InFlight
  <2>0. Parked' = Parked /\ chosen' = chosen
    BY <1>1 DEF Parked
  <2>1. CASE s # r
    <3>1. InStep(s)
      BY <1>8, <1>9, <2>1 DEF ReceiptsInStep
    <3>2. InFlight("prepare", s, inbox) => InFlight("prepare", s, inbox')
      BY <1>0, <1>1, <2>1, TailHolds
    <3> HIDE DEF r
    <3> QED
      BY <1>10, <2>0, <2>1, <3>1, <3>2 DEF InStep, InFlight
  <2>2. CASE s = r
    <3>1. v = chosen[r] \/ InFlight("prepare", r, inbox')
      <4>1. \/ v = chosen[r]
            \/ \E k \in 1..Len(inbox) : k > 1 /\ inbox[k].type = "prepare" /\ inbox[k].req = r
        BY <1>0, <1>1, <1>3 DEF LastPrepareSpeaks
      <4>2. ASSUME NEW k \in 1..Len(inbox), k > 1, inbox[k].type = "prepare", inbox[k].req = r
            PROVE  InFlight("prepare", r, inbox')
        <5>1. k - 1 \in 1..Len(inbox') /\ (k - 1) + 1 = k
          BY <1>0, <4>2
        <5>2. inbox'[k - 1] = inbox[k]
          BY <1>0, <5>1
        <5> QED
          BY <4>2, <5>1, <5>2 DEF InFlight
      <4> QED
        BY <4>1, <4>2
    <3>2. CASE conflict \/ r \notin Parked \/ r \in conflicted
      <4>1. r \notin Parked' \/ r \in conflicted'
        BY <1>1, <2>0, <3>2
      <4> QED
        BY <2>2, <4>1 DEF InStep
    <3>3. CASE accepted
      <4>1. prepared'[r] = v /\ v # Nothing
        BY <1>1, <1>3, <3>3, ApprovalAssumption DEF TypeOK
      <4>2. r \in receipted'
        <5>1. CASE sent
          BY <1>2, <3>3, <5>1
        <5>2. CASE ~ sent
          <6>1. outbox' = outbox /\ receipted' = receipted
            BY <1>2, <3>3, <5>2
          <6>2. Acked(r) \/ InFlight("commit", r, inbox)
            BY <1>9, <2>2, <6>1 DEF Acked
          <6>3. InStep(r)
            BY <1>3, <6>2 DEF ReceiptsInStep
          <6> QED
            BY <3>3, <6>1, <6>3 DEF InStep
        <5> QED
          BY <5>1, <5>2
      <4>3. prepared'[r] = chosen'[r] \/ InFlight("prepare", r, inbox')
        BY <2>0, <3>1, <4>1
      <4> HIDE DEF r, v
      <4> QED
        BY <2>2, <4>1, <4>2, <4>3 DEF InStep, InFlight
    <3> QED
      BY <3>2, <3>3
  <2> QED
    BY <2>1, <2>2
<1>16. KeptIsHeld'
  <2> SUFFICES ASSUME NEW s \in Parked' \ conflicted', link' = "registered" \/ Kept(s)'
               PROVE  Held(s)'
    BY DEF KeptIsHeld
  <2>1. s \in Reqs /\ s \in Parked \ conflicted
    BY <1>1 DEF Parked
  <2>2. Kept(s)' => Kept(s)
    <3>1. \A i \in 1..Len(inbox') : i + 1 \in 1..Len(inbox)
      BY <1>0
    <3> QED
      BY <1>0, <3>1 DEF Kept
  <2>3. Held(s)
    BY <1>1, <2>1, <2>2 DEF KeptIsHeld
  <2> QED
    BY <1>1, <1>7, <2>1, <2>3, HeldStays DEF Ends
<1>17. ReleasedAsCommitted'
  BY <1>1 DEF ReleasedAsCommitted
<1> QED
  BY <1>11, <1>12, <1>13, <1>14, <1>15, <1>16, <1>17

(* What the daemon itself sends is an ask, or the one register frame of a  *)
(* socket.                                                                 *)
LEMMA RequestStep ==
  ASSUME ApprovalInv, HubInv, NEW r \in Reqs, Request(r)
  PROVE  HubInv'
<1> USE DEF ApprovalInv, HubInv, Lines
<1>0. /\ inbox \in Seq(Frames) /\ outbox \in Seq(Frames) /\ Len(outbox) \in Nat
      /\ park[r] = "fresh" /\ card[r] = "none"
      /\ ~ InFlight("ask", r, outbox) /\ prepared[r] = Nothing /\ ~ Acked(r)
      /\ ~ InFlight("commit", r, inbox)
      /\ UNCHANGED <<prepared, receipted, conflicted, link, inbox, card, chosen>>
  BY DEF Request, TypeOK, AskedOnce
<1>1. CASE /\ ~ SocketOpen
           /\ park' = [park EXCEPT ![r] = "settled"]
           /\ result' = [result EXCEPT ![r] = Denial]
           /\ UNCHANGED outbox
  <2>1. BrokerQuiet
    BY <1>0, <1>1 DEF BrokerQuiet, Parked, TypeOK
  <2>2. ReleasedAsCommitted'
    BY <1>0, <1>1, ApprovalAssumption DEF ReleasedAsCommitted, TypeOK
  <2> QED
    BY <1>0, <1>1, <2>1, <2>2, IdleStep DEF hubVars
<1>2. CASE /\ SocketOpen
           /\ outbox' = Append(outbox, Frame("ask", r, Nothing))
           /\ park' = [park EXCEPT ![r] = "parked"]
           /\ UNCHANGED result
  <2>1. PICK f \in Frames : outbox' = Append(outbox, f) /\ f.type = "ask" /\ f.req = r
    BY <1>2, FramesMade DEF Frame
  <2>2. /\ Len(outbox') = Len(outbox) + 1 /\ outbox'[Len(outbox) + 1] = f
        /\ \A i \in 1..Len(outbox) : outbox'[i] = outbox[i]
        /\ \A t, s : InFlight(t, s, outbox') <=> (InFlight(t, s, outbox) \/ (f.type = t /\ f.req = s))
    <3>1. Grows(outbox', outbox, f)
      BY <1>0, <2>1, Appended
    <3> QED
      BY <3>1 DEF Grows
  <2>3. \A i \in 1..Len(outbox') : (i \in 1..Len(outbox) /\ outbox'[i] = outbox[i])
                                     \/ (i = Len(outbox) + 1 /\ outbox'[i] = f)
    BY <1>0, <2>2
  <2>4. Parked' = Parked \cup {r}
    BY <1>0, <1>2 DEF Parked, TypeOK
  <2>5. AskedOnce'
    <3> SUFFICES ASSUME NEW s \in Reqs
                 PROVE  /\ park'[s] = "fresh" => (card'[s] = "none" /\ ~ InFlight("ask", s, outbox'))
                        /\ InFlight("ask", s, outbox') => card'[s] = "none"
                        /\ \A i, k \in 1..Len(outbox') :
                             (outbox'[i].type = "ask" /\ outbox'[k].type = "ask"
                                /\ outbox'[i].req = s /\ outbox'[k].req = s)
                             => i = k
                        /\ card'[s] \in {"none", "open"} =>
                             /\ prepared'[s] = Nothing /\ ~ Acked(s)'
                             /\ ~ InFlight("prepare", s, inbox') /\ ~ InFlight("commit", s, inbox')
      BY DEF AskedOnce, InFlight
    <3>1. park'[s] = "fresh" => (s # r /\ park[s] = "fresh")
      BY <1>2 DEF TypeOK
    <3>2. Acked(s)' => Acked(s)
      BY <2>1, <2>3 DEF Acked
    <3>3. ASSUME NEW i \in 1..Len(outbox'), NEW k \in 1..Len(outbox'),
                 outbox'[i].type = "ask", outbox'[k].type = "ask",
                 outbox'[i].req = s, outbox'[k].req = s
          PROVE  i = k
      <4>1. CASE s = r
        BY <1>0, <2>3, <3>3, <4>1 DEF InFlight
      <4>2. CASE s # r
        BY <2>1, <2>3, <3>3, <4>2 DEF AskedOnce
      <4> QED
        BY <4>1, <4>2
    <3>4. /\ park'[s] = "fresh" => (card'[s] = "none" /\ ~ InFlight("ask", s, outbox'))
          /\ InFlight("ask", s, outbox') => card'[s] = "none"
      BY <1>0, <2>1, <2>2, <3>1 DEF AskedOnce
    <3> QED
      BY <1>0, <3>2, <3>3, <3>4 DEF AskedOnce
  <2>6. DecisionSpeaks' /\ LastPrepareSpeaks' /\ CommitIsLast'
    BY <1>0 DEF DecisionSpeaks, LastPrepareSpeaks, CommitIsLast, InFlight
  <2>7. OneRegister'
    BY <1>0, <1>2, <2>1, <2>3 DEF OneRegister, SocketOpen
  <2>8. ReceiptsInStep'
    <3> SUFFICES ASSUME NEW s \in Reqs, Acked(s)' \/ InFlight("commit", s, inbox') PROVE InStep(s)'
      BY DEF ReceiptsInStep, InFlight
    <3>1. Acked(s) \/ InFlight("commit", s, inbox)
      BY <1>0, <2>1, <2>3 DEF Acked
    <3>2. s # r /\ InStep(s)
      BY <1>0, <3>1 DEF ReceiptsInStep
    <3> QED
      BY <1>0, <2>4, <3>2 DEF InStep, InFlight
  <2>9. KeptIsHeld'
    <3> SUFFICES ASSUME NEW s \in Parked' \ conflicted', link' = "registered" \/ Kept(s)'
                 PROVE  Held(s)'
      BY DEF KeptIsHeld
    <3>1. CASE s = r
      <4>1. InFlight("ask", s, outbox')
        BY <2>1, <2>2, <3>1
      <4> QED
        BY <4>1 DEF Held, InFlight
    <3>2. CASE s # r
      <4>1. Held(s)
        BY <1>0, <2>4, <3>2 DEF KeptIsHeld, Kept
      <4>2. InFlight("ask", s, outbox) => InFlight("ask", s, outbox')
        BY <2>2
      <4> QED
        BY <1>0, <4>1, <4>2 DEF Held, Answerable, InFlight, Decisive, Cancelling
    <3> QED
      BY <3>1, <3>2
  <2>10. ReleasedAsCommitted'
    BY <1>0, <1>2 DEF ReleasedAsCommitted
  <2> QED
    BY <2>5, <2>6, <2>7, <2>8, <2>9, <2>10
<1> QED
  BY <1>1, <1>2 DEF Request

LEMMA RegisterStep ==
  ASSUME ApprovalInv, HubInv, Register
  PROVE  HubInv'
<1> USE DEF ApprovalInv, HubInv, Lines
<1>0. /\ inbox \in Seq(Frames) /\ outbox \in Seq(Frames) /\ Len(outbox) \in Nat
      /\ link = "open" /\ link' = "joining"
      /\ UNCHANGED <<park, result, prepared, receipted, conflicted, inbox, card, chosen>>
  BY DEF Register, TypeOK, brokerVars, hubVars
<1>1. PICK f \in Frames : outbox' = Append(outbox, f) /\ f.type = "register"
  <2>1. Frame("register", Nothing, Parked) \in Frames /\ Frame("register", Nothing, Parked).type = "register"
    BY FramesMade DEF Parked, Frame
  <2> QED
    BY <2>1 DEF Register
<1>2. /\ Len(outbox') = Len(outbox) + 1 /\ outbox'[Len(outbox) + 1] = f
      /\ \A i \in 1..Len(outbox) : outbox'[i] = outbox[i]
      /\ \A t, s : InFlight(t, s, outbox') <=> (InFlight(t, s, outbox) \/ (f.type = t /\ f.req = s))
  <2>1. Grows(outbox', outbox, f)
    BY <1>0, <1>1, Appended
  <2> QED
    BY <2>1 DEF Grows
<1>3. \A i \in 1..Len(outbox') : (i \in 1..Len(outbox) /\ outbox'[i] = outbox[i])
                                   \/ (i = Len(outbox) + 1 /\ outbox'[i] = f)
  BY <1>0, <1>2
<1>4. /\ \A s : InFlight("ask", s, outbox') <=> InFlight("ask", s, outbox)
      /\ \A s : Acked(s)' => Acked(s)
      /\ \A s : ~ Kept(s)
  <2>1. \A s : Acked(s)' => Acked(s)
    BY <1>1, <1>3 DEF Acked
  <2>2. \A s : ~ Kept(s)
    BY <1>0 DEF Kept, OneRegister
  <2> QED
    BY <1>1, <1>2, <2>1, <2>2
<1>5. AskedOnce'
  <2> SUFFICES ASSUME NEW s \in Reqs
               PROVE  /\ park'[s] = "fresh" => (card'[s] = "none" /\ ~ InFlight("ask", s, outbox'))
                      /\ InFlight("ask", s, outbox') => card'[s] = "none"
                      /\ \A i, k \in 1..Len(outbox') :
                           (outbox'[i].type = "ask" /\ outbox'[k].type = "ask"
                              /\ outbox'[i].req = s /\ outbox'[k].req = s)
                           => i = k
                      /\ card'[s] \in {"none", "open"} =>
                           /\ prepared'[s] = Nothing /\ ~ Acked(s)'
                           /\ ~ InFlight("prepare", s, inbox') /\ ~ InFlight("commit", s, inbox')
    BY DEF AskedOnce, InFlight
  <2>1. \A i, k \in 1..Len(outbox') :
           (outbox'[i].type = "ask" /\ outbox'[k].type = "ask" /\ outbox'[i].req = s /\ outbox'[k].req = s)
           => i = k
    BY <1>1, <1>3 DEF AskedOnce
  <2> QED
    BY <1>0, <1>4, <2>1 DEF AskedOnce
<1>6. DecisionSpeaks' /\ LastPrepareSpeaks' /\ CommitIsLast'
  BY <1>0 DEF DecisionSpeaks, LastPrepareSpeaks, CommitIsLast, InFlight
<1>7. OneRegister'
  <2>1. /\ \A i \in 1..Len(outbox) : outbox[i].type # "register"
        /\ \A i \in 1..Len(inbox) : inbox[i].type # "registered"
    BY <1>0 DEF OneRegister
  <2>2. \A i \in 1..Len(outbox') : outbox'[i].type = "register" => i = Len(outbox) + 1
    BY <1>3, <2>1
  <2> QED
    BY <1>0, <2>1, <2>2 DEF OneRegister
<1>8. ReceiptsInStep'
  BY <1>0, <1>4 DEF ReceiptsInStep, InStep, Parked, InFlight
<1>9. KeptIsHeld'
  BY <1>0, <1>4 DEF KeptIsHeld, Kept
<1>10. ReleasedAsCommitted'
  BY <1>0 DEF ReleasedAsCommitted
<1> QED
  BY <1>5, <1>6, <1>7, <1>8, <1>9, <1>10

(* A card is posted, or refused before the hub answered a register frame.  *)
LEMMA AskStep ==
  ASSUME ApprovalInv, HubInv, HubAsks
  PROVE  HubInv'
<1> USE DEF ApprovalInv, HubInv, Lines
<1> DEFINE r == Head(outbox).req
<1>0. /\ inbox \in Seq(Frames) /\ outbox \in Seq(Frames)
      /\ outbox # << >> /\ Head(outbox).type = "ask" /\ outbox' = Tail(outbox)
      /\ card' = [card EXCEPT ![r] = "open"] \/ (~ HubKnowsAgent /\ card' = card)
      /\ UNCHANGED <<park, result, prepared, receipted, conflicted, link, inbox, chosen>>
  BY DEF HubAsks, HubTakes, TypeOK, brokerVars
<1>1. /\ Len(outbox) \in Nat \ {0} /\ Head(outbox) = outbox[1] /\ Head(outbox) \in Frames
      /\ Len(outbox') = Len(outbox) - 1 /\ \A i \in 1..Len(outbox') : outbox'[i] = outbox[i + 1]
  BY <1>0
<1>2. r \in Reqs /\ 1 \in 1..Len(outbox) /\ \A i \in 1..Len(outbox') : i + 1 \in 1..Len(outbox)
  BY <1>0, <1>1, FrameShapes
<1>3. /\ InFlight("ask", r, outbox) /\ card[r] = "none"
      /\ \A i \in 1..Len(outbox) : outbox[i].type = "ask" /\ outbox[i].req = r => i = 1
  <2>1. InFlight("ask", r, outbox)
    BY <1>0, <1>1, <1>2 DEF InFlight
  <2> QED
    BY <1>0, <1>1, <1>2, <2>1 DEF AskedOnce
<1>4. ~ InFlight("ask", r, outbox')
  <2> SUFFICES ASSUME NEW i \in 1..Len(outbox'), outbox'[i].type = "ask", outbox'[i].req = r
               PROVE  FALSE
    BY DEF InFlight
  <2>1. i + 1 = 1
    BY <1>1, <1>2, <1>3
  <2> QED
    BY <1>1, <2>1
<1>5. /\ \A s : InFlight("ask", s, outbox') => InFlight("ask", s, outbox)
      /\ \A s : s # r => (InFlight("ask", s, outbox) => InFlight("ask", s, outbox'))
      /\ \A s : Acked(s)' => Acked(s)
  <2>1. \A s : InFlight("ask", s, outbox') => InFlight("ask", s, outbox)
    BY <1>1, <1>2 DEF InFlight
  <2>2. \A s : s # r => (InFlight("ask", s, outbox) => InFlight("ask", s, outbox'))
    BY <1>0, TailHolds
  <2>3. \A s : Acked(s)' => Acked(s)
    BY <1>1, <1>2 DEF Acked
  <2> QED
    BY <2>1, <2>2, <2>3
<1>6. /\ \A s \in Reqs \ {r} : card'[s] = card[s]
      /\ card'[r] \in {"none", "open"}
  BY <1>0, <1>2, <1>3 DEF TypeOK
<1> HIDE DEF r
<1>7. AskedOnce'
  <2> SUFFICES ASSUME NEW s \in Reqs
               PROVE  /\ park'[s] = "fresh" => (card'[s] = "none" /\ ~ InFlight("ask", s, outbox'))
                      /\ InFlight("ask", s, outbox') => card'[s] = "none"
                      /\ \A i, k \in 1..Len(outbox') :
                           (outbox'[i].type = "ask" /\ outbox'[k].type = "ask"
                              /\ outbox'[i].req = s /\ outbox'[k].req = s)
                           => i = k
                      /\ card'[s] \in {"none", "open"} =>
                           /\ prepared'[s] = Nothing /\ ~ Acked(s)'
                           /\ ~ InFlight("prepare", s, inbox') /\ ~ InFlight("commit", s, inbox')
    BY DEF AskedOnce, InFlight
  <2>1. ASSUME NEW i \in 1..Len(outbox'), NEW k \in 1..Len(outbox'),
               outbox'[i].type = "ask", outbox'[k].type = "ask",
               outbox'[i].req = s, outbox'[k].req = s
        PROVE  i = k
    <3>1. i + 1 = k + 1
      BY <1>1, <1>2, <2>1 DEF AskedOnce
    <3> QED
      BY <1>1, <3>1
  <2>2. CASE s = r
    <3>1. park'[s] # "fresh"
      BY <1>0, <1>3, <2>2 DEF AskedOnce
    <3>2. prepared'[s] = Nothing /\ ~ Acked(s)'
          /\ ~ InFlight("prepare", s, inbox') /\ ~ InFlight("commit", s, inbox')
      BY <1>0, <1>3, <1>5, <2>2 DEF AskedOnce
    <3> QED
      BY <1>4, <2>1, <2>2, <3>1, <3>2
  <2>3. CASE s # r
    BY <1>0, <1>5, <1>6, <2>1, <2>3 DEF AskedOnce
  <2> QED
    BY <2>2, <2>3
<1>8. DecisionSpeaks' /\ LastPrepareSpeaks' /\ CommitIsLast'
  <2>1. \A s \in Reqs : card[s] = "committed" => card'[s] = "committed"
    BY <1>3, <1>6
  <2>2. \A i \in 1..Len(inbox) : inbox[i] \in Frames
    BY <1>0
  <2>3. \A i \in 1..Len(inbox) : inbox[i].type \in {"decision", "commit"} => inbox[i].req \in Reqs
    BY <2>2, FrameShapes
  <2>4. DecisionSpeaks'
    BY <1>0, <2>1, <2>3 DEF DecisionSpeaks, InFlight
  <2>5. LastPrepareSpeaks'
    BY <1>0 DEF LastPrepareSpeaks
  <2>6. CommitIsLast'
    BY <1>0, <2>1, <2>3 DEF CommitIsLast
  <2> QED
    BY <2>4, <2>5, <2>6
<1>9. OneRegister'
  <2>1. link # "down"
    BY <1>0 DEF OneRegister
  <2>2. ASSUME NEW i \in 1..Len(outbox'), outbox'[i].type = "register"
        PROVE  /\ link = "joining" /\ \A k \in 1..Len(inbox) : inbox[k].type # "registered"
               /\ \A k \in 1..Len(outbox') : outbox'[k].type = "register" => k = i
    <3>1. /\ link = "joining" /\ \A k \in 1..Len(inbox) : inbox[k].type # "registered"
          /\ \A k \in 1..Len(outbox) : outbox[k].type = "register" => k = i + 1
      BY <1>1, <1>2, <2>2 DEF OneRegister
    <3>2. \A k \in 1..Len(outbox') : outbox'[k].type = "register" => k + 1 = i + 1
      BY <1>1, <1>2, <3>1
    <3>3. \A k \in 1..Len(outbox') : k + 1 = i + 1 => k = i
      BY <1>1
    <3> QED
      BY <3>1, <3>2, <3>3
  <2> QED
    BY <1>0, <2>1, <2>2 DEF OneRegister
<1>10. ReceiptsInStep'
  BY <1>0, <1>5 DEF ReceiptsInStep, InStep, Parked, InFlight
<1>11. KeptIsHeld'
  <2> SUFFICES ASSUME NEW s \in Parked' \ conflicted', link' = "registered" \/ Kept(s)'
               PROVE  Held(s)'
    BY DEF KeptIsHeld
  <2>1. s \in Reqs /\ s \in Parked \ conflicted /\ (link = "registered" \/ Kept(s))
    BY <1>0 DEF Parked, Kept
  <2>2. Held(s)
    BY <2>1 DEF KeptIsHeld
  <2>3. CASE s # r
    BY <1>0, <1>5, <1>6, <2>1, <2>2, <2>3 DEF Held, Answerable, InFlight, Decisive, Cancelling
  <2>4. CASE s = r /\ card' = [card EXCEPT ![r] = "open"]
    BY <1>2, <2>1, <2>4 DEF Held, Answerable, TypeOK
  <2>5. CASE s = r /\ ~ HubKnowsAgent
    <3>1. link \in {"joining", "registered"} /\ \A i \in 1..Len(outbox) : outbox[i].type # "register"
      BY <2>1 DEF Kept, OneRegister
    <3>2. DOMAIN outbox = 1..Len(outbox)
      BY <1>0
    <3> QED
      BY <2>5, <3>1, <3>2 DEF HubKnowsAgent
  <2> QED
    BY <1>0, <2>3, <2>4, <2>5 DEF r
<1>12. ReleasedAsCommitted'
  BY <1>0, <1>3, <1>6 DEF ReleasedAsCommitted
<1> QED
  BY <1>7, <1>8, <1>9, <1>10, <1>11, <1>12

(* A step of the hub that sends a frame.  The hypotheses are what is true  *)
(* of the cards before and after, whatever the frame.                      *)
LEMMA SendStep ==
  ASSUME ApprovalInv, HubInv, UNCHANGED <<park, result, prepared, receipted, conflicted, link>>,
         NEW f \in Frames, link # "down", inbox' = Append(inbox, f),
         outbox' = outbox \/ (outbox # << >> /\ outbox' = Tail(outbox) /\ Head(outbox).type # "ask"),
         \A r \in Reqs : card'[r] = "none" <=> card[r] = "none",
         \A r \in Reqs : card'[r] = "open" => card[r] = "open",
         \A r \in Reqs : card[r] = "committed" => (card'[r] = "committed" /\ chosen'[r] = chosen[r]),
         \A r \in Reqs : chosen'[r] # chosen[r] => (f.type \in {"prepare", "decision"} /\ f.req = r),
         f.type = "prepare" =>
           card[f.req] # "committed" /\ card'[f.req] = "preparing" /\ chosen'[f.req] = f.val,
         f.type = "decision" =>
           card[f.req] = "open" /\ card'[f.req] = "committed" /\ chosen'[f.req] = f.val,
         f.type = "commit" => card'[f.req] = "committed" /\ InStep(f.req),
         f.type = "registered" =>
           /\ link = "joining" /\ f.val \subseteq Answerable'
           /\ \A i \in 1..Len(inbox) : inbox[i].type # "registered"
           /\ \A i \in 1..Len(outbox') : outbox'[i].type # "register",
         f.type # "registered" =>
           \A r \in Answerable : r \in Answerable' \/ Ends(f, r)
  PROVE  HubInv'
<1> USE DEF ApprovalInv, HubInv, Lines
<1>0. inbox \in Seq(Frames) /\ outbox \in Seq(Frames) /\ Len(inbox) \in Nat /\ Len(outbox) \in Nat
  BY DEF TypeOK
<1>1. /\ Len(inbox') = Len(inbox) + 1 /\ inbox'[Len(inbox) + 1] = f
      /\ \A i \in 1..Len(inbox) : inbox'[i] = inbox[i]
      /\ \A t, r : InFlight(t, r, inbox') <=> (InFlight(t, r, inbox) \/ (f.type = t /\ f.req = r))
  <2>1. Grows(inbox', inbox, f)
    BY <1>0, Appended
  <2> QED
    BY <2>1 DEF Grows
<1>2. /\ \A i \in 1..Len(inbox') : (i \in 1..Len(inbox) /\ inbox'[i] = inbox[i])
                                     \/ (i = Len(inbox) + 1 /\ inbox'[i] = f)
      /\ \A i \in 1..Len(inbox) : i \in 1..Len(inbox') /\ i < Len(inbox) + 1
      /\ Len(inbox) + 1 \in 1..Len(inbox')
  BY <1>0, <1>1
<1>3. /\ \A i \in 1..Len(inbox) : inbox[i] \in Frames
      /\ \A i \in 1..Len(inbox) :
           inbox[i].type \in {"decision", "prepare", "commit", "abort"} => inbox[i].req \in Reqs
      /\ f.type \in {"decision", "prepare", "commit", "abort"} => f.req \in Reqs
  <2>1. \A i \in 1..Len(inbox) : inbox[i] \in Frames
    BY <1>0
  <2> QED
    BY <2>1, FrameShapes
<1>4. PICK e \in 0..Len(outbox) :
        Len(outbox') = Len(outbox) - e /\ \A i \in 1..Len(outbox') : outbox'[i] = outbox[i + e]
  <2>1. Suffix(outbox', outbox)
    BY <1>0, Suffixes
  <2> QED
    BY <2>1 DEF Suffix
<1>5. \A i \in 1..Len(outbox') : i + e \in 1..Len(outbox)
  BY <1>0, <1>4
<1>f. \A t, r : InFlight(t, r, outbox') => InFlight(t, r, outbox)
  BY <1>0, Suffixes, SuffixHolds
<1>a. \A r : InFlight("ask", r, outbox) => InFlight("ask", r, outbox')
  <2>1. CASE outbox' = outbox
    BY <2>1
  <2>2. CASE outbox # << >> /\ outbox' = Tail(outbox) /\ Head(outbox).type # "ask"
    BY <1>0, <2>2, TailHolds
  <2> QED
    BY <2>1, <2>2
<1>k. ASSUME NEW r, Acked(r)' PROVE Acked(r)
  <2>1. PICK i \in 1..Len(outbox') :
          outbox'[i].type = "receipt" /\ outbox'[i].req = r /\ outbox'[i].val = TRUE
    BY <1>k DEF Acked
  <2>2. i + e \in 1..Len(outbox) /\ outbox[i + e] = outbox'[i]
    BY <1>4, <1>5
  <2> QED
    BY <2>1, <2>2 DEF Acked
<1>6. AskedOnce'
  <2> SUFFICES ASSUME NEW s \in Reqs
               PROVE  /\ park'[s] = "fresh" => (card'[s] = "none" /\ ~ InFlight("ask", s, outbox'))
                      /\ InFlight("ask", s, outbox') => card'[s] = "none"
                      /\ \A i, k \in 1..Len(outbox') :
                           (outbox'[i].type = "ask" /\ outbox'[k].type = "ask"
                              /\ outbox'[i].req = s /\ outbox'[k].req = s)
                           => i = k
                      /\ card'[s] \in {"none", "open"} =>
                           /\ prepared'[s] = Nothing /\ ~ Acked(s)'
                           /\ ~ InFlight("prepare", s, inbox') /\ ~ InFlight("commit", s, inbox')
    BY DEF AskedOnce, InFlight
  <2>1. ASSUME NEW i \in 1..Len(outbox'), NEW k \in 1..Len(outbox'),
               outbox'[i].type = "ask", outbox'[k].type = "ask",
               outbox'[i].req = s, outbox'[k].req = s
        PROVE  i = k
    <3>0. /\ i + e \in 1..Len(outbox) /\ k + e \in 1..Len(outbox)
          /\ outbox[i + e].type = "ask" /\ outbox[k + e].type = "ask"
          /\ outbox[i + e].req = s /\ outbox[k + e].req = s
      BY <1>4, <1>5, <2>1
    <3>1. i + e = k + e
      BY <3>0 DEF AskedOnce
    <3> QED
      BY <1>0, <3>1
  <2>2. card'[s] \in {"none", "open"} =>
           /\ prepared'[s] = Nothing /\ ~ Acked(s)'
           /\ ~ InFlight("prepare", s, inbox') /\ ~ InFlight("commit", s, inbox')
    BY <1>1, <1>k DEF AskedOnce
  <2>3. /\ park'[s] = "fresh" => (card'[s] = "none" /\ ~ InFlight("ask", s, outbox'))
        /\ InFlight("ask", s, outbox') => card'[s] = "none"
    BY <1>f DEF AskedOnce
  <2> QED
    BY <2>1, <2>2, <2>3
<1>7. DecisionSpeaks'
  <2> SUFFICES ASSUME NEW i \in 1..Len(inbox'), inbox'[i].type = "decision"
               PROVE  /\ card'[inbox'[i].req] = "committed" /\ chosen'[inbox'[i].req] = inbox'[i].val
                      /\ prepared'[inbox'[i].req] = Nothing
                      /\ ~ InFlight("prepare", inbox'[i].req, inbox')
    BY DEF DecisionSpeaks, InFlight
  <2>1. CASE i \in 1..Len(inbox) /\ inbox'[i] = inbox[i]
    <3>1. inbox[i].req \in Reqs /\ card[inbox[i].req] = "committed"
      BY <1>3, <2>1 DEF DecisionSpeaks
    <3>2. ~ (f.type = "prepare" /\ f.req = inbox[i].req)
      BY <3>1
    <3> QED
      BY <1>1, <2>1, <3>1, <3>2 DEF DecisionSpeaks
  <2>2. CASE inbox'[i] = f
    <3>1. f.req \in Reqs /\ card[f.req] = "open" /\ card'[f.req] = "committed" /\ chosen'[f.req] = f.val
      BY <1>3, <2>2
    <3>2. prepared[f.req] = Nothing /\ ~ InFlight("prepare", f.req, inbox)
      BY <3>1 DEF AskedOnce
    <3> QED
      BY <1>1, <2>2, <3>1, <3>2
  <2> QED
    BY <1>2, <2>1, <2>2
<1>8. LastPrepareSpeaks'
  <2> SUFFICES ASSUME NEW i \in 1..Len(inbox'), inbox'[i].type = "prepare"
               PROVE  \/ inbox'[i].val = chosen'[inbox'[i].req]
                      \/ \E k \in 1..Len(inbox') :
                           k > i /\ inbox'[k].type = "prepare" /\ inbox'[k].req = inbox'[i].req
    BY DEF LastPrepareSpeaks
  <2>1. CASE i \in 1..Len(inbox) /\ inbox'[i] = inbox[i]
    <3> DEFINE s == inbox[i].req
    <3>1. s \in Reqs /\ InFlight("prepare", s, inbox)
      BY <1>3, <2>1 DEF InFlight
    <3>2. ~ (f.type = "decision" /\ f.req = s)
      BY <3>1 DEF AskedOnce
    <3>3. CASE f.type = "prepare" /\ f.req = s
      BY <1>1, <1>2, <2>1, <3>3
    <3>4. CASE ~ (f.type = "prepare" /\ f.req = s)
      <4>1. chosen'[s] = chosen[s]
        BY <3>1, <3>2, <3>4
      <4>2. \/ inbox[i].val = chosen[s]
            \/ \E k \in 1..Len(inbox) : k > i /\ inbox[k].type = "prepare" /\ inbox[k].req = s
        BY <2>1 DEF LastPrepareSpeaks
      <4> QED
        BY <1>1, <1>2, <2>1, <4>1, <4>2
    <3> QED
      BY <3>3, <3>4
  <2>2. CASE inbox'[i] = f
    BY <2>2
  <2> QED
    BY <1>2, <2>1, <2>2
<1>9. CommitIsLast'
  <2> SUFFICES ASSUME NEW i \in 1..Len(inbox'), inbox'[i].type = "commit"
               PROVE  /\ card'[inbox'[i].req] = "committed"
                      /\ \A k \in 1..Len(inbox') :
                           (k > i /\ inbox'[k].type = "prepare") => inbox'[k].req # inbox'[i].req
    BY DEF CommitIsLast
  <2>1. CASE i \in 1..Len(inbox) /\ inbox'[i] = inbox[i]
    <3>1. inbox[i].req \in Reqs /\ card[inbox[i].req] = "committed"
      BY <1>3, <2>1 DEF CommitIsLast
    <3> QED
      BY <1>2, <2>1, <3>1 DEF CommitIsLast
  <2>2. CASE i = Len(inbox) + 1 /\ inbox'[i] = f
    BY <1>0, <1>1, <2>2
  <2> QED
    BY <1>2, <2>1, <2>2
<1>10. OneRegister'
  <2>1. ASSUME NEW i \in 1..Len(outbox'), outbox'[i].type = "register"
        PROVE  /\ link = "joining" /\ \A k \in 1..Len(inbox') : inbox'[k].type # "registered"
               /\ \A k \in 1..Len(outbox') : outbox'[k].type = "register" => k = i
    <3>1. /\ link = "joining" /\ \A k \in 1..Len(inbox) : inbox[k].type # "registered"
          /\ \A k \in 1..Len(outbox) : outbox[k].type = "register" => k = i + e
      BY <1>4, <1>5, <2>1 DEF OneRegister
    <3>2. \A k \in 1..Len(outbox') : outbox'[k].type = "register" => k + e = i + e
      BY <1>4, <1>5, <3>1
    <3>3. \A k \in 1..Len(outbox') : k + e = i + e => k = i
      BY <1>0
    <3>4. f.type # "registered"
      BY <2>1
    <3> QED
      BY <1>2, <3>1, <3>2, <3>3, <3>4
  <2>2. ASSUME NEW i \in 1..Len(inbox'), inbox'[i].type = "registered"
        PROVE  /\ link = "joining"
               /\ \A k \in 1..Len(inbox') : inbox'[k].type = "registered" => k = i
    <3>1. CASE f.type = "registered"
      BY <1>2, <2>2, <3>1
    <3>2. CASE f.type # "registered"
      BY <1>2, <2>2, <3>2 DEF OneRegister
    <3> QED
      BY <3>1, <3>2
  <2> QED
    BY <2>1, <2>2 DEF OneRegister
<1>11. ReceiptsInStep'
  <2> SUFFICES ASSUME NEW s \in Reqs, Acked(s)' \/ InFlight("commit", s, inbox') PROVE InStep(s)'
    BY DEF ReceiptsInStep, InFlight
  <2>1. Acked(s) \/ InFlight("commit", s, inbox) \/ (f.type = "commit" /\ f.req = s)
    BY <1>1, <1>k
  <2>2. InStep(s)
    BY <2>1 DEF ReceiptsInStep
  <2>3. f.type = "decision" => f.req # s
    BY <2>1 DEF AskedOnce
  <2>4. chosen'[s] = chosen[s] \/ InFlight("prepare", s, inbox')
    BY <1>1, <2>3
  <2>5. InFlight("prepare", s, inbox) => InFlight("prepare", s, inbox')
    BY <1>1
  <2> QED
    BY <2>2, <2>4, <2>5 DEF InStep, Parked, InFlight
<1>12. KeptIsHeld'
  <2> SUFFICES ASSUME NEW s \in Parked' \ conflicted', link' = "registered" \/ Kept(s)'
               PROVE  Held(s)'
    BY DEF KeptIsHeld
  <2>1. s \in Reqs /\ s \in Parked \ conflicted /\ (link = "registered" \/ Kept(s)')
    BY DEF Parked
  <2>2. CASE f.type = "registered"
    <3>1. s \in f.val
      BY <1>2, <2>1, <2>2 DEF Kept
    <3> QED
      BY <2>2, <3>1 DEF Held
  <2>3. CASE f.type # "registered"
    <3>1. Kept(s)' => Kept(s)
      BY <1>2, <2>3 DEF Kept
    <3>2. Held(s)
      BY <2>1, <3>1 DEF KeptIsHeld
    <3>3. Decisive(s) => Decisive(s)'
      BY <1>1 DEF Decisive, InFlight
    <3>4. Cancelling(s) => Cancelling(s)'
      BY <1>2 DEF Cancelling
    <3>5. Ends(f, s) => (Decisive(s)' \/ Cancelling(s)')
      BY <1>1, <1>2 DEF Ends, Decisive, Cancelling, InFlight
    <3>6. InFlight("ask", s, outbox) => InFlight("ask", s, outbox)'
      BY <1>a DEF InFlight
    <3> QED
      BY <2>3, <3>2, <3>3, <3>4, <3>5, <3>6 DEF Held
  <2> QED
    BY <2>2, <2>3
<1>13. ReleasedAsCommitted'
  BY DEF ReleasedAsCommitted
<1> QED
  BY <1>6, <1>7, <1>8, <1>9, <1>10, <1>11, <1>12, <1>13

(* The human answers, or the hub gives up, while the socket is down: no    *)
(* frame is in flight.                                                     *)
LEMMA MuseStep ==
  ASSUME ApprovalInv, HubInv, UNCHANGED <<brokerVars, link, outbox, inbox>>, link = "down",
         \A r \in Reqs : card'[r] \in {"none", "open"} => card[r] = card'[r],
         \A r \in Reqs : card[r] = "none" => card'[r] = "none",
         \A r \in Reqs : card[r] = "committed" => (card'[r] = "committed" /\ chosen'[r] = chosen[r])
  PROVE  HubInv'
<1> USE DEF ApprovalInv, HubInv, Lines
<1>1. /\ inbox = << >> /\ outbox = << >> /\ inbox' = << >> /\ outbox' = << >> /\ link' = "down"
      /\ UNCHANGED <<park, result, prepared, receipted, conflicted>>
  BY DEF SocketSound, OneRegister, brokerVars
<1>2. 1..Len(inbox') = {} /\ 1..Len(outbox') = {} /\ 1..Len(inbox) = {} /\ 1..Len(outbox) = {}
  BY <1>1
<1>3. DecisionSpeaks' /\ LastPrepareSpeaks' /\ CommitIsLast' /\ OneRegister' /\ KeptIsHeld'
  BY <1>1, <1>2 DEF DecisionSpeaks, LastPrepareSpeaks, CommitIsLast, OneRegister, KeptIsHeld, Kept
<1>4. ReceiptsInStep'
  BY <1>2 DEF ReceiptsInStep, Acked, InFlight
<1>5. AskedOnce'
  <2> SUFFICES ASSUME NEW s \in Reqs
               PROVE  /\ park'[s] = "fresh" => card'[s] = "none"
                      /\ card'[s] \in {"none", "open"} => prepared'[s] = Nothing
    BY <1>2 DEF AskedOnce, Acked, InFlight
  <2> QED
    BY <1>1 DEF AskedOnce
<1>6. ReleasedAsCommitted'
  BY <1>1 DEF ReleasedAsCommitted
<1> QED
  BY <1>3, <1>4, <1>5, <1>6

LEMMA HubAnswers ==
  ASSUME ApprovalInv, HubInv,
         \/ \E r \in Reqs : HubGivesUp(r)
         \/ \E r \in Reqs, d \in Decisions : HumanAnswers(r, d) \/ HubPreparesAgain(r, d)
         \/ \E j \in Jobs : HubCancels(j)
  PROVE  HubInv'
<1> USE ApprovalAssumption
<1>0. TypeOK
  BY DEF ApprovalInv
<1>1. ASSUME NEW r \in Reqs, HubGivesUp(r) PROVE HubInv'
  <2>1. PICK f \in Frames : Reply(f) /\ f.type = "abort" /\ f.req = r
    BY <1>1, FramesMade DEF HubGivesUp, Frame
  <2>2. /\ UNCHANGED <<brokerVars, link, outbox, chosen>>
        /\ card[r] \in {"open", "preparing"} /\ card' = [card EXCEPT ![r] = "gone"]
    BY <1>1 DEF HubGivesUp, Answerable
  <2>3. /\ \A s \in Reqs : card'[s] = IF s = r THEN "gone" ELSE card[s]
        /\ \A s \in Reqs : chosen'[s] = chosen[s]
    BY <1>0, <2>2 DEF TypeOK
  <2>4. CASE link = "down"
    <3>1. UNCHANGED inbox
      BY <2>1, <2>4 DEF Reply, SocketOpen
    <3> QED
      BY <2>2, <2>3, <2>4, <3>1, MuseStep
  <2>5. CASE link # "down"
    <3>1. inbox' = Append(inbox, f)
      BY <2>1, <2>5 DEF Reply, SocketOpen
    <3>2. \A s \in Answerable : s \in Answerable' \/ Ends(f, s)
      BY <2>1, <2>3 DEF Answerable, Ends
    <3>3. UNCHANGED <<park, result, prepared, receipted, conflicted, link>> /\ outbox' = outbox
      BY <2>2 DEF brokerVars
    <3> QED
      BY <2>1, <2>2, <2>3, <2>5, <3>1, <3>2, <3>3, SendStep
  <2> QED
    BY <2>4, <2>5
<1>2. ASSUME NEW r \in Reqs, NEW d \in Decisions, HumanAnswers(r, d) PROVE HubInv'
  <2>1. PICK t \in {"prepare", "decision"}, f \in Frames :
          /\ Reply(f) /\ f.type = t /\ f.req = r /\ f.val = d
          /\ card' = [card EXCEPT ![r] = IF t = "prepare" THEN "preparing" ELSE "committed"]
    <3>1. CASE card' = [card EXCEPT ![r] = "preparing"] /\ Reply(Frame("prepare", r, d))
      BY <3>1, FramesMade DEF Frame
    <3>2. CASE card' = [card EXCEPT ![r] = "committed"] /\ Reply(Frame("decision", r, d))
      BY <3>2, FramesMade DEF Frame
    <3> QED
      BY <1>2, <3>1, <3>2 DEF HumanAnswers
  <2>2. /\ UNCHANGED <<brokerVars, link, outbox>> /\ card[r] = "open"
        /\ chosen' = [chosen EXCEPT ![r] = d]
    BY <1>2 DEF HumanAnswers
  <2>3. /\ \A s \in Reqs : card'[s] =
             IF s = r THEN (IF t = "prepare" THEN "preparing" ELSE "committed") ELSE card[s]
        /\ \A s \in Reqs : chosen'[s] = IF s = r THEN d ELSE chosen[s]
    BY <1>0, <2>1, <2>2 DEF TypeOK
  <2>4. CASE link = "down"
    <3>1. UNCHANGED inbox
      BY <2>1, <2>4 DEF Reply, SocketOpen
    <3> QED
      BY <2>2, <2>3, <2>4, <3>1, MuseStep
  <2>5. CASE link # "down"
    <3>1. inbox' = Append(inbox, f)
      BY <2>1, <2>5 DEF Reply, SocketOpen
    <3>2. \A s \in Answerable : s \in Answerable' \/ Ends(f, s)
      BY <2>1, <2>3 DEF Answerable, Ends
    <3>3. UNCHANGED <<park, result, prepared, receipted, conflicted, link>> /\ outbox' = outbox
      BY <2>2 DEF brokerVars
    <3> QED
      BY <2>1, <2>2, <2>3, <2>5, <3>1, <3>2, <3>3, SendStep
  <2> QED
    BY <2>4, <2>5
<1>3. ASSUME NEW r \in Reqs, NEW d \in Decisions, HubPreparesAgain(r, d) PROVE HubInv'
  <2>1. PICK f \in Frames : Reply(f) /\ f.type = "prepare" /\ f.req = r /\ f.val = d
    BY <1>3, FramesMade DEF HubPreparesAgain, Frame
  <2>2. /\ UNCHANGED <<brokerVars, link, outbox, card>> /\ card[r] = "preparing"
        /\ chosen' = [chosen EXCEPT ![r] = d] /\ link # "down"
    BY <1>3 DEF HubPreparesAgain, SocketOpen
  <2>3. \A s \in Reqs : chosen'[s] = IF s = r THEN d ELSE chosen[s]
    BY <1>0, <2>2 DEF TypeOK
  <2>4. inbox' = Append(inbox, f)
    BY <2>1, <2>2 DEF Reply, SocketOpen
  <2>5. \A s \in Answerable : s \in Answerable' \/ Ends(f, s)
    BY <2>2 DEF Answerable
  <2>6. UNCHANGED <<park, result, prepared, receipted, conflicted, link>> /\ outbox' = outbox
    BY <2>2 DEF brokerVars
  <2> QED
    BY <2>1, <2>2, <2>3, <2>4, <2>5, <2>6, SendStep
<1>4. ASSUME NEW j \in Jobs, HubCancels(j) PROVE HubInv'
  <2>1. PICK f \in Frames : Reply(f) /\ f.type = "cancel" /\ f.val = j
    BY <1>4, FramesMade DEF HubCancels, Frame
  <2>2. /\ UNCHANGED <<brokerVars, link, outbox, chosen>> /\ link # "down"
        /\ card' = [r \in Reqs |-> IF ReqJob[r] = j /\ r \in Answerable THEN "gone" ELSE card[r]]
    BY <1>4 DEF HubCancels, SocketOpen
  <2>3. /\ \A s \in Reqs : card'[s] = IF ReqJob[s] = j /\ s \in Answerable THEN "gone" ELSE card[s]
        /\ \A s \in Reqs : chosen'[s] = chosen[s]
    BY <2>2
  <2>4. inbox' = Append(inbox, f)
    BY <2>1, <2>2 DEF Reply, SocketOpen
  <2>5. \A s \in Answerable : s \in Answerable' \/ Ends(f, s)
    BY <2>1, <2>3 DEF Answerable, Ends
  <2>6. UNCHANGED <<park, result, prepared, receipted, conflicted, link>> /\ outbox' = outbox
    BY <2>2 DEF brokerVars
  <2> QED
    BY <2>1, <2>2, <2>3, <2>4, <2>5, <2>6, SendStep DEF Answerable
<1> QED
  BY <1>1, <1>2, <1>3, <1>4

LEMMA HubReceives ==
  ASSUME ApprovalInv, HubInv, HubRegisters \/ HubCommits
  PROVE  HubInv'
<1> USE ApprovalAssumption
<1>0. /\ TypeOK /\ outbox \in Seq(Frames) /\ outbox # << >> /\ outbox' = Tail(outbox)
      /\ Head(outbox).type \in {"register", "receipt"} /\ link # "down"
      /\ Len(outbox) \in Nat \ {0} /\ Head(outbox) = outbox[1] /\ Head(outbox) \in Frames
      /\ 1 \in 1..Len(outbox)
      /\ UNCHANGED <<park, result, prepared, receipted, conflicted, link>>
      /\ \A s \in Reqs : chosen'[s] = chosen[s]
  BY DEF HubRegisters, HubCommits, HubTakes, ApprovalInv, HubInv, Lines, OneRegister, TypeOK, brokerVars
<1>1. CASE HubRegisters
  <2>1. PICK kept \in SUBSET (Answerable \cap Head(outbox).val) :
          /\ card' = [r \in Reqs |-> IF card[r] \in {"none", "gone", "committed"} \/ r \in kept
                                     THEN card[r] ELSE "gone"]
          /\ Reply(Frame("registered", Nothing, kept))
    BY <1>1 DEF HubRegisters
  <2>2. PICK f \in Frames : Reply(f) /\ f.type = "registered" /\ f.val = kept
    <3>1. kept \in SUBSET Reqs
      BY DEF Answerable
    <3> QED
      BY <2>1, <3>1, FramesMade DEF Frame
  <2>3. inbox' = Append(inbox, f)
    BY <1>0, <2>2 DEF Reply, SocketOpen
  <2>4. /\ link = "joining"
        /\ \A i \in 1..Len(inbox) : inbox[i].type # "registered"
        /\ \A i \in 1..Len(outbox) : outbox[i].type = "register" => i = 1
    <3>1. outbox[1].type = "register"
      BY <1>0, <1>1 DEF HubRegisters, HubTakes
    <3> QED
      BY <1>0, <3>1 DEF HubInv, Lines, OneRegister
  <2>5. \A i \in 1..Len(outbox') : outbox'[i].type # "register"
    <3>1. \A i \in 1..Len(outbox') : i + 1 \in 1..Len(outbox) /\ i + 1 # 1 /\ outbox'[i] = outbox[i + 1]
      BY <1>0
    <3> QED
      BY <2>4, <3>1
  <2>6. f.val \subseteq Answerable'
    BY <2>1, <2>2 DEF Answerable
  <2>7. \A s \in Reqs : card'[s] \in {card[s], "gone"} /\ (card[s] \in {"none", "committed"} => card'[s] = card[s])
    BY <2>1
  <2>8. card \in [Reqs -> {"none", "open", "preparing", "committed", "gone"}]
    BY <1>0 DEF TypeOK
  <2>9. \A s \in Reqs : card'[s] = "none" <=> card[s] = "none"
    BY <2>7, <2>8
  <2> QED
    BY <1>0, <2>2, <2>3, <2>4, <2>5, <2>6, <2>7, <2>9, SendStep
<1>2. CASE HubCommits
  <2> DEFINE r == Head(outbox).req
  <2>1. Head(outbox).type = "receipt" /\ r \in Reqs /\ Head(outbox).val \in BOOLEAN
    BY <1>0, <1>2, FrameShapes DEF HubCommits, HubTakes, Frames
  <2>2. CASE Head(outbox).val /\ card[r] = "preparing"
    <3>1. card' = [card EXCEPT ![r] = "committed"] /\ Reply(Frame("commit", r, Nothing))
      BY <1>2, <2>2 DEF HubCommits
    <3>2. PICK f \in Frames : Reply(f) /\ f.type = "commit" /\ f.req = r
      BY <2>1, <3>1, FramesMade DEF Frame
    <3>3. inbox' = Append(inbox, f)
      BY <1>0, <3>2 DEF Reply, SocketOpen
    <3>4. \A s \in Reqs : card'[s] = IF s = r THEN "committed" ELSE card[s]
      BY <1>0, <3>1 DEF TypeOK
    <3>5. InStep(r)
      <4>1. Acked(r)
        BY <1>0, <2>1, <2>2 DEF Acked
      <4> QED
        BY <2>1, <4>1 DEF HubInv, ReceiptsInStep
    <3>6. \A s \in Answerable : s \in Answerable' \/ Ends(f, s)
      BY <3>2, <3>4 DEF Answerable, Ends
    <3> HIDE DEF r
    <3> QED
      BY <1>0, <2>1, <2>2, <3>2, <3>3, <3>4, <3>5, <3>6, SendStep
  <2>3. CASE ~ (Head(outbox).val /\ card[r] = "preparing")
    <3>1. UNCHANGED <<card, inbox, chosen, hubVars>>
      BY <1>2, <2>3 DEF HubCommits, hubVars
    <3>2. BrokerQuiet
      BY <1>0, QuietBrokers DEF brokerVars
    <3>3. Suffix(outbox', outbox) /\ Suffix(inbox', inbox)
      BY <1>0, <3>1, Suffixes DEF TypeOK
    <3>4. \A i \in 1..Len(outbox') : i + 1 \in 1..Len(outbox) /\ outbox'[i] = outbox[i + 1]
      BY <1>0
    <3>5. OneRegister'
      <4>1. ASSUME NEW i \in 1..Len(outbox'), outbox'[i].type = "register"
            PROVE  /\ link = "joining" /\ \A k \in 1..Len(inbox) : inbox[k].type # "registered"
                   /\ \A k \in 1..Len(outbox') : outbox'[k].type = "register" => k = i
        <5>1. /\ link = "joining" /\ \A k \in 1..Len(inbox) : inbox[k].type # "registered"
              /\ \A k \in 1..Len(outbox) : outbox[k].type = "register" => k = i + 1
          BY <3>4, <4>1 DEF HubInv, Lines, OneRegister
        <5>2. \A k \in 1..Len(outbox') : outbox'[k].type = "register" => k + 1 = i + 1
          BY <3>4, <5>1
        <5>3. \A k \in 1..Len(outbox') : k + 1 = i + 1 => k = i
          BY <1>0
        <5> QED
          BY <5>1, <5>2, <5>3
      <4> QED
        BY <1>0, <3>1, <4>1 DEF HubInv, Lines, OneRegister
    <3>6. Lines'
      BY <1>0, <3>1, <3>2, <3>3, <3>5, QuietLines DEF HubInv
    <3>7. \A s : Acked(s)' => Acked(s)
      BY <3>4 DEF Acked
    <3>8. ReceiptsInStep'
      BY <1>0, <3>1, <3>7 DEF HubInv, ReceiptsInStep, InStep, Parked, InFlight
    <3>9. \A s : InFlight("ask", s, outbox) => InFlight("ask", s, outbox')
      BY <1>0, <2>1, TailHolds
    <3>10. KeptIsHeld'
      <4> SUFFICES ASSUME NEW s \in Parked' \ conflicted', link' = "registered" \/ Kept(s)'
                   PROVE  Held(s)'
        BY DEF KeptIsHeld
      <4>1. s \in Parked \ conflicted /\ (link = "registered" \/ Kept(s))
        BY <1>0, <3>1 DEF Parked, Kept
      <4>2. Held(s)
        BY <4>1 DEF HubInv, KeptIsHeld
      <4> QED
        BY <3>1, <3>9, <4>2 DEF Held, Answerable, InFlight, Decisive, Cancelling
    <3>11. ReleasedAsCommitted'
      BY <1>0, <3>1 DEF HubInv, ReleasedAsCommitted
    <3> QED
      BY <3>6, <3>8, <3>10, <3>11 DEF HubInv
  <2> QED
    BY <2>2, <2>3
<1> QED
  BY <1>1, <1>2

LEMMA HubInit == Init => HubInv
<1> SUFFICES ASSUME Init PROVE HubInv
  OBVIOUS
<1>1. /\ inbox = << >> /\ outbox = << >> /\ link = "down"
      /\ \A r \in Reqs : card[r] = "none" /\ prepared[r] = Nothing /\ result[r] = Nothing
  BY DEF Init
<1>2. 1..Len(inbox) = {} /\ 1..Len(outbox) = {}
  BY <1>1
<1>3. Lines
  BY <1>1, <1>2 DEF Lines, AskedOnce, DecisionSpeaks, LastPrepareSpeaks, CommitIsLast, OneRegister,
                    InFlight, Acked
<1>4. ReceiptsInStep /\ KeptIsHeld
  BY <1>1, <1>2 DEF ReceiptsInStep, KeptIsHeld, Acked, Kept, InFlight
<1>5. ReleasedAsCommitted
  BY <1>1, ApprovalAssumption DEF ReleasedAsCommitted
<1> QED
  BY <1>3, <1>4, <1>5 DEF HubInv

LEMMA HubInvStep == ApprovalInv /\ HubInv /\ [Next]_vars => HubInv'
<1> SUFFICES ASSUME ApprovalInv, HubInv, [Next]_vars PROVE HubInv'
  OBVIOUS
<1>1. ASSUME UNCHANGED vars PROVE HubInv'
  <2>1. UNCHANGED <<brokerVars, hubVars, outbox, inbox, link>>
    BY <1>1 DEF vars, brokerVars, hubVars
  <2>2. BrokerQuiet
    BY <2>1, QuietBrokers DEF ApprovalInv
  <2>3. ReleasedAsCommitted'
    BY <1>1 DEF vars, HubInv, ReleasedAsCommitted
  <2> QED
    BY <2>1, <2>2, <2>3, IdleStep DEF hubVars
<1> QED
  BY <1>1, SettlingSteps, ReleasingSteps, PrepareStep, RequestStep, RegisterStep, AskStep,
     HubAnswers, HubReceives
  DEF Next, Handlers

(* What the broker, the hub and the frames between them agree on, in every *)
(* state: the cards, the receipts and the answers that are still coming.   *)
THEOREM HubInvariant == Spec => []HubInv
<1>1. ApprovalInv /\ HubInv /\ [Next]_vars => HubInv'
  BY HubInvStep
<1> QED
  BY ApprovalInvariant, HubInit, <1>1, PTL DEF Spec

(* A tool runs only on the answer the hub committed, and on the last one   *)
(* the human gave: through lost sockets, repeated and changed prepares and *)
(* receipts that were never sent (permissions.mjs:303-370).                *)
THEOREM ReleasesAreCommitted == Spec => []ReleasedAsCommitted
<1>1. HubInv => ReleasedAsCommitted
  BY DEF HubInv
<1> QED
  BY HubInvariant, <1>1, PTL

LEMMA HeldIsNotForlorn ==
  ASSUME TypeOK, NEW r \in Reqs, Held(r)
  PROVE  \/ r \in Answerable
         \/ About(r, outbox) \/ About(r, inbox)
         \/ \E i \in DOMAIN inbox : inbox[i].type = "cancel" /\ inbox[i].val = ReqJob[r]
<1>1. DOMAIN inbox = 1..Len(inbox) /\ DOMAIN outbox = 1..Len(outbox)
  BY DEF TypeOK
<1> QED
  BY <1>1 DEF Held, Decisive, InFlight, Cancelling, About

(* On a registered socket every call that is parked and not poisoned has a *)
(* card, or a frame about it is in flight (permissions.mjs:399-411).       *)
THEOREM NoParkIsForlorn == Spec => []NoForlornPark
<1>1. ApprovalInv /\ HubInv => NoForlornPark
  <2> SUFFICES ASSUME ApprovalInv, HubInv, link = "registered", NEW r \in Parked \ conflicted
               PROVE  \/ r \in Answerable
                      \/ About(r, outbox) \/ About(r, inbox)
                      \/ \E i \in DOMAIN inbox : inbox[i].type = "cancel" /\ inbox[i].val = ReqJob[r]
    BY DEF NoForlornPark
  <2>1. r \in Reqs /\ Held(r)
    BY DEF Parked, HubInv, KeptIsHeld
  <2> QED
    BY <2>1, HeldIsNotForlorn DEF ApprovalInv
<1> QED
  BY ApprovalInvariant, HubInvariant, <1>1, PTL

=============================================================================
