----------------------------- MODULE Approvals -----------------------------
(***************************************************************************)
(* Tool approvals: the permission broker of the daemon                     *)
(* (packages/agensis-cli/src/permissions.mjs, createPermissionBroker), the *)
(* socket it talks through and the reconnect deadline that guards it       *)
(* (agensis.mjs, connect()), against a hub that asks a human.              *)
(*                                                                         *)
(* A tool call of a running turn parks in the broker while a request       *)
(* travels to the hub.  The hub answers with one legacy decision frame, or *)
(* prepares the decision, waits for the broker's receipt and commits it.   *)
(* The socket may drop at any moment and takes every frame in flight with  *)
(* it; the parks survive, are named in the next register frame, and those  *)
(* the hub does not name back are denied.                                  *)
(*                                                                         *)
(* The hub is not in the repository: its actions are what the comments and *)
(* the handlers of the daemon rely on, and it is left free wherever they   *)
(* say nothing (which cards it keeps, when it gives up, whether it asks    *)
(* the human twice).                                                       *)
(***************************************************************************)
EXTENDS Naturals, Sequences

CONSTANTS
  Reqs,         \* permission requests, one per tool call
  Jobs,
  ReqJob,       \* the job whose turn makes the call
  Decisions,    \* answers a human can give
  Nothing,      \* no decision
  Denial,       \* the broker's own denial
  MaxFlight     \* bound: frames in flight in one direction

ASSUME ApprovalAssumption ==
  /\ ReqJob \in [Reqs -> Jobs]
  /\ Nothing \notin Decisions /\ Denial \notin Decisions /\ Nothing # Denial
  /\ MaxFlight \in Nat \ {0}

VARIABLES
  park,        \* "fresh", "parked" (in the pending Map) or "settled"
  result,      \* what the promise of request() resolved to
  prepared,    \* entry.prepared
  receipted,   \* entries with preparedReceipted
  conflicted,  \* entries with preparedConflicted
  link,        \* the socket: "down", "open", "joining" (register sent), "registered"
  deadline,    \* permissionReconnectTimer is armed
  cancelled,   \* history: calls that waited when the cancel of their job was handled
  stopped,     \* stop() has run
  outbox,      \* frames on their way to the hub
  inbox,       \* frames on their way to the daemon
  card,        \* the hub: "none", "open", "preparing", "committed" or "gone"
  chosen       \* the hub: the human's answer

brokerVars == <<park, result, prepared, receipted, conflicted>>
hubVars    == <<card, chosen>>
vars == <<park, result, prepared, receipted, conflicted, link, deadline, cancelled,
          stopped, outbox, inbox, card, chosen>>

Frame(t, r, v) == [type |-> t, req |-> r, val |-> v]

Frames ==
  [type : {"ask"}, req : Reqs, val : {Nothing}]
    \cup [type : {"receipt"}, req : Reqs, val : BOOLEAN]
    \cup [type : {"register"}, req : {Nothing}, val : SUBSET Reqs]
    \cup [type : {"decision", "prepare"}, req : Reqs, val : Decisions]
    \cup [type : {"commit", "abort"}, req : Reqs, val : {Nothing}]
    \cup [type : {"cancel"}, req : {Nothing}, val : Jobs]
    \cup [type : {"registered"}, req : {Nothing}, val : SUBSET Reqs]

TypeOK ==
  /\ park \in [Reqs -> {"fresh", "parked", "settled"}]
  /\ result \in [Reqs -> Decisions \cup {Nothing, Denial}]
  /\ \A r \in Reqs : park[r] = "settled" <=> result[r] # Nothing
  /\ prepared \in [Reqs -> Decisions \cup {Nothing}]
  /\ receipted \subseteq Reqs /\ conflicted \subseteq Reqs
  /\ link \in {"down", "open", "joining", "registered"}
  /\ deadline \in BOOLEAN
  /\ cancelled \subseteq Reqs
  /\ stopped \in BOOLEAN
  /\ outbox \in Seq(Frames) /\ inbox \in Seq(Frames)
  /\ card \in [Reqs -> {"none", "open", "preparing", "committed", "gone"}]
  /\ chosen \in [Reqs -> Decisions \cup {Nothing}]

Init ==
  /\ park = [r \in Reqs |-> "fresh"]
  /\ result = [r \in Reqs |-> Nothing]
  /\ prepared = [r \in Reqs |-> Nothing]
  /\ receipted = {} /\ conflicted = {}
  /\ link = "down"
  /\ deadline = FALSE
  /\ cancelled = {}
  /\ stopped = FALSE
  /\ outbox = << >> /\ inbox = << >>
  /\ card = [r \in Reqs |-> "none"]
  /\ chosen = [r \in Reqs |-> Nothing]

Parked == {r \in Reqs : park[r] = "parked"}

(* send(ws, frame): true iff the socket is open.                           *)
SocketOpen == link # "down"

Room(q) == Len(q) < MaxFlight

-----------------------------------------------------------------------------
(* What happens to the entries of S: deleted, their promises resolved.     *)
DenyExactly(S) ==
  /\ park' = [r \in Reqs |-> IF r \in S THEN "settled" ELSE park[r]]
  /\ result' = [r \in Reqs |-> IF r \in S THEN Denial ELSE result[r]]
  /\ prepared' = [r \in Reqs |-> IF r \in S THEN Nothing ELSE prepared[r]]
  /\ receipted' = receipted \ S
  /\ conflicted' = conflicted \ S

(* Mutant: the entry is answered but stays in the Map.                     *)
DenyNotDeleted(S) ==
  /\ result' = [r \in Reqs |-> IF r \in S \cap Parked THEN Denial ELSE result[r]]
  /\ UNCHANGED <<park, prepared, receipted, conflicted>>

(* Mutant: a prepared call is not touched.                                 *)
DenyUnprepared(S) == DenyExactly({r \in S \cap Parked : prepared[r] = Nothing})

(* settle(requestId, denial(...)) for every id of S that is still parked.  *)
DenyAll(S) == DenyExactly(S \cap Parked)

(* settle(requestId, decisionResult(d)).                                   *)
Release(r, d) ==
  /\ park' = [park EXCEPT ![r] = "settled"]
  /\ result' = [result EXCEPT ![r] = d]
  /\ prepared' = [prepared EXCEPT ![r] = Nothing]
  /\ receipted' = receipted \ {r}
  /\ conflicted' = conflicted \ {r}

(* request(): delivered and parked, or denied at once.  The broker does not*)
(* know which jobs were cancelled: a turn that did not hear its cancel     *)
(* (connectionExecutors.mjs:660, 947) asks as if there had been none.      *)
Request(r) ==
  /\ park[r] = "fresh"
  /\ \/ /\ SocketOpen /\ Room(outbox)
        /\ outbox' = Append(outbox, Frame("ask", r, Nothing))
        /\ park' = [park EXCEPT ![r] = "parked"]
        /\ UNCHANGED result
     \/ /\ ~ SocketOpen
        /\ park' = [park EXCEPT ![r] = "settled"]
        /\ result' = [result EXCEPT ![r] = Denial]
        /\ UNCHANGED outbox
  /\ UNCHANGED <<prepared, receipted, conflicted, link, deadline, cancelled, stopped, inbox, card, chosen>>

(* The request's own timer (timeoutMs), or the abort of the SDK's signal.  *)
Expire(r) ==
  /\ r \in Parked
  /\ DenyAll({r})
  /\ UNCHANGED <<link, deadline, cancelled, stopped, outbox, inbox, card, chosen>>

-----------------------------------------------------------------------------
(* Inbound frames; each handler runs to completion.                        *)
Takes(t) == inbox # << >> /\ Head(inbox).type = t /\ inbox' = Tail(inbox)

(* decide(): a legacy frame cannot bypass a prepare.                       *)
OnDecision ==
  LET r == Head(inbox).req IN
  /\ Takes("decision")
  /\ IF r \in Parked /\ prepared[r] = Nothing
     THEN Release(r, Head(inbox).val)
     ELSE UNCHANGED brokerVars
  /\ UNCHANGED <<link, deadline, cancelled, stopped, outbox, card, chosen>>

(* prepare(): the first decision is kept, the same one again is receipted  *)
(* again, and a different one poisons the park.  The receipt goes out on   *)
(* the socket the frame came in on, and may fail to be sent.               *)
PrepareAs(conflict) ==
  LET r == Head(inbox).req
      accepted == r \in Parked /\ ~ conflict /\ r \notin conflicted
  IN /\ Takes("prepare")
     /\ conflicted' = IF conflict THEN conflicted \cup {r} ELSE conflicted
     /\ prepared' = IF accepted /\ prepared[r] = Nothing
                    THEN [prepared EXCEPT ![r] = Head(inbox).val] ELSE prepared
     /\ \E sent \in BOOLEAN :
          /\ sent => Room(outbox)
          /\ outbox' = IF sent THEN Append(outbox, Frame("receipt", r, accepted)) ELSE outbox
          /\ receipted' = (IF conflict THEN receipted \ {r} ELSE receipted)
                            \cup (IF accepted /\ sent THEN {r} ELSE {})
     /\ UNCHANGED <<park, result, link, deadline, cancelled, stopped, card, chosen>>

(* Mutant: a changed decision is taken for a repeated one.                 *)
OnPrepareUnpoisoned == PrepareAs(FALSE)

OnPrepare ==
  LET r == Head(inbox).req IN
  PrepareAs(r \in Parked /\ prepared[r] \notin {Nothing, Head(inbox).val})

(* Mutant: the receipt bit is not looked at.                               *)
OnCommitUnreceipted ==
  LET r == Head(inbox).req IN
  /\ Takes("commit")
  /\ IF r \in Parked /\ prepared[r] # Nothing
     THEN Release(r, prepared[r])
     ELSE UNCHANGED brokerVars
  /\ UNCHANGED <<link, deadline, cancelled, stopped, outbox, card, chosen>>

(* commit(): releases the prepared decision once its receipt went out.     *)
OnCommit ==
  LET r == Head(inbox).req IN
  /\ Takes("commit")
  /\ IF r \in Parked /\ prepared[r] # Nothing /\ r \in receipted
     THEN Release(r, prepared[r])
     ELSE UNCHANGED brokerVars
  /\ UNCHANGED <<link, deadline, cancelled, stopped, outbox, card, chosen>>

(* abort(): the hub gave up on the request, prepared or not.               *)
OnAbort ==
  /\ Takes("abort")
  /\ DenyAll({Head(inbox).req})
  /\ UNCHANGED <<link, deadline, cancelled, stopped, outbox, card, chosen>>

(* agent_job_cancel: cancelJob() first, then the queue's cancel.           *)
OnCancel ==
  LET j == Head(inbox).val IN
  /\ Takes("cancel")
  /\ DenyAll({r \in Reqs : ReqJob[r] = j})
  /\ cancelled' = cancelled \cup {r \in Parked : ReqJob[r] = j}
  /\ UNCHANGED <<link, deadline, stopped, outbox, card, chosen>>

(* Mutant: nothing is settled up after a reconnect.                        *)
OnRegisteredNoResume ==
  /\ Takes("registered")
  /\ link' = "registered"
  /\ deadline' = FALSE
  /\ UNCHANGED <<brokerVars, cancelled, stopped, outbox, card, chosen>>

(* agent_registered: the deadline is called off and resume() denies what   *)
(* the hub did not name.                                                   *)
OnRegistered ==
  /\ Takes("registered")
  /\ link' = "registered"
  /\ deadline' = FALSE
  /\ DenyAll(Reqs \ Head(inbox).val)
  /\ UNCHANGED <<cancelled, stopped, outbox, card, chosen>>

-----------------------------------------------------------------------------
(* connect() succeeded: 'open'.  The register frame follows only after the *)
(* identity file was read.                                                 *)
Open ==
  /\ link = "down"
  /\ ~ stopped
  /\ link' = "open"
  /\ UNCHANGED <<brokerVars, deadline, cancelled, stopped, outbox, inbox, hubVars>>

Register ==
  /\ link = "open" /\ Room(outbox)
  /\ link' = "joining"
  /\ outbox' = Append(outbox, Frame("register", Nothing, Parked))
  /\ UNCHANGED <<brokerVars, deadline, cancelled, stopped, inbox, hubVars>>

(* The frames in flight are gone, the parks stay.                          *)
Drops(guards) ==
  /\ SocketOpen
  /\ link' = "down"
  /\ outbox' = << >> /\ inbox' = << >>
  /\ deadline' = (deadline \/ guards)
  /\ UNCHANGED <<brokerVars, cancelled, stopped, hubVars>>

(* Mutant: only the loss of a registered socket arms the deadline.         *)
CloseIfRegistered == Drops(link = "registered" /\ Parked # {})

(* 'close': the deadline is armed unless it runs already or there is       *)
(* nothing to guard.                                                       *)
Close == Drops(Parked # {})

(* The reconnect grace ran out: permissions.shutdown().                    *)
DeadlineFires ==
  /\ deadline
  /\ deadline' = FALSE
  /\ DenyAll(Reqs)
  /\ UNCHANGED <<link, cancelled, stopped, outbox, inbox, hubVars>>

(* stop(): a signal, agent_disabled, or a close that rejects the agent.    *)
(* The turns run on until the process ends; a call they make now finds the *)
(* socket closed.                                                          *)
Stop ==
  /\ ~ stopped
  /\ stopped' = TRUE
  /\ deadline' = FALSE
  /\ DenyAll(Reqs)
  /\ link' = "down"
  /\ outbox' = << >> /\ inbox' = << >>
  /\ UNCHANGED <<cancelled, hubVars>>

-----------------------------------------------------------------------------
(* The hub.                                                                *)
Reply(f) ==
  IF SocketOpen THEN Room(inbox) /\ inbox' = Append(inbox, f) ELSE UNCHANGED inbox

HubTakes(t) == outbox # << >> /\ Head(outbox).type = t /\ outbox' = Tail(outbox)

(* A card is posted for the human.  A hub that has not seen the register   *)
(* frame of this socket yet may refuse the request.                        *)
HubKnowsAgent ==
  link \in {"joining", "registered"} /\ \A i \in DOMAIN outbox : outbox[i].type # "register"

HubAsks ==
  LET r == Head(outbox).req IN
  /\ HubTakes("ask")
  /\ \/ card' = [card EXCEPT ![r] = "open"]
     \/ ~ HubKnowsAgent /\ UNCHANGED card
  /\ UNCHANGED <<brokerVars, link, deadline, cancelled, stopped, inbox, chosen>>

Answerable == {r \in Reqs : card[r] \in {"open", "preparing"}}

(* A register frame: the hub re-homes some of the named cards it still     *)
(* has, gives up on every other one and names those it kept.               *)
HubRegisters ==
  /\ HubTakes("register")
  /\ \E kept \in SUBSET (Answerable \cap Head(outbox).val) :
       /\ card' = [r \in Reqs |-> IF card[r] \in {"none", "gone", "committed"} \/ r \in kept
                                  THEN card[r] ELSE "gone"]
       /\ Reply(Frame("registered", Nothing, kept))
  /\ UNCHANGED <<brokerVars, link, deadline, cancelled, stopped, chosen>>

(* A positive receipt is what allows the hub to commit.                    *)
HubCommits ==
  LET f == Head(outbox) IN
  /\ HubTakes("receipt")
  /\ IF f.val /\ card[f.req] = "preparing"
     THEN card' = [card EXCEPT ![f.req] = "committed"] /\ Reply(Frame("commit", f.req, Nothing))
     ELSE UNCHANGED <<card, inbox>>
  /\ UNCHANGED <<brokerVars, link, deadline, cancelled, stopped, chosen>>

(* The human answers; a hub that speaks two phases prepares the answer,    *)
(* an old one sends the decision.                                          *)
HumanAnswers(r, d) ==
  /\ card[r] = "open"
  /\ chosen' = [chosen EXCEPT ![r] = d]
  /\ \/ card' = [card EXCEPT ![r] = "preparing"] /\ Reply(Frame("prepare", r, d))
     \/ card' = [card EXCEPT ![r] = "committed"] /\ Reply(Frame("decision", r, d))
  /\ UNCHANGED <<brokerVars, link, deadline, cancelled, stopped, outbox>>

(* A receipt that never came is asked for again, with the same decision or *)
(* with one the human changed.                                             *)
HubPreparesAgain(r, d) ==
  /\ card[r] = "preparing"
  /\ chosen' = [chosen EXCEPT ![r] = d]
  /\ SocketOpen
  /\ Reply(Frame("prepare", r, d))
  /\ UNCHANGED <<brokerVars, link, deadline, cancelled, stopped, outbox, card>>

HubGivesUp(r) ==
  /\ r \in Answerable
  /\ card' = [card EXCEPT ![r] = "gone"]
  /\ Reply(Frame("abort", r, Nothing))
  /\ UNCHANGED <<brokerVars, link, deadline, cancelled, stopped, outbox, chosen>>

HubCancels(j) ==
  /\ SocketOpen
  /\ card' = [r \in Reqs |-> IF ReqJob[r] = j /\ r \in Answerable THEN "gone" ELSE card[r]]
  /\ Reply(Frame("cancel", Nothing, j))
  /\ UNCHANGED <<brokerVars, link, deadline, cancelled, stopped, outbox, chosen>>

-----------------------------------------------------------------------------
Handlers == OnDecision \/ OnPrepare \/ OnCommit \/ OnAbort \/ OnCancel \/ OnRegistered

Next ==
  \/ \E r \in Reqs : Request(r) \/ Expire(r) \/ HubGivesUp(r)
  \/ \E r \in Reqs, d \in Decisions : HumanAnswers(r, d) \/ HubPreparesAgain(r, d)
  \/ \E j \in Jobs : HubCancels(j)
  \/ Handlers
  \/ Open \/ Register \/ Close \/ DeadlineFires \/ Stop
  \/ HubAsks \/ HubRegisters \/ HubCommits

Spec == Init /\ [][Next]_vars

(* Timers fire.                                                            *)
FairSpec == Spec /\ WF_vars(DeadlineFires)

-----------------------------------------------------------------------------
(* A tool runs only on the answer the hub committed: whatever is receipted *)
(* twice, lost with a socket or answered again, a released decision is the *)
(* human's last one (permissions.mjs:315-370).                             *)
ReleasedAsCommitted ==
  \A r \in Reqs : result[r] \in Decisions => (card[r] = "committed" /\ chosen[r] = result[r])

(* While the socket is down and a call is parked the reconnect deadline is *)
(* running, whatever sequence of drops and half-done reconnects led here;  *)
(* on a registered socket it never is (agensis.mjs:163-178, 577, 825).     *)
DeadlineGuardsParks ==
  /\ (link = "down" /\ Parked # {}) => deadline
  /\ link = "registered" => ~ deadline

About(r, q) == \E i \in DOMAIN q : q[i].req = r

(* On a registered socket no call is parked on an answer that cannot come: *)
(* the hub has its card, or a frame about it is in flight.  A poisoned     *)
(* park is the exception, it waits for its own timer (permissions.mjs:402).*)
NoForlornPark ==
  link = "registered" =>
    \A r \in Parked \ conflicted :
      \/ r \in Answerable
      \/ About(r, outbox) \/ About(r, inbox)
      \/ \E i \in DOMAIN inbox : inbox[i].type = "cancel" /\ inbox[i].val = ReqJob[r]

(* A call that waits when the cancel of its job is handled is denied for   *)
(* good: prepared or not, and although a decision, a commit or a reconnect *)
(* that names it may be on the way.  A stopped daemon has no call left     *)
(* (permissions.mjs:428-454).  A call made after the cancel is not denied  *)
(* by it.                                                                  *)
CancelledCallsStayDenied ==
  /\ \A r \in cancelled : result[r] = Denial
  /\ stopped => Parked = {}

(* A prepared call is released by its commit only, after its receipt went *)
(* out and never once poisoned: no legacy decision frame that was already  *)
(* on its way, and no repeated prepare, gets around the handshake          *)
(* (permissions.mjs:303-370).                                              *)
CommitNeedsReceipt ==
  [][\A r \in Reqs :
       (park[r] = "parked" /\ prepared[r] # Nothing /\ result'[r] \in Decisions)
       => (result'[r] = prepared[r] /\ r \in receipted \ conflicted)]_vars

(* An outage does not hold a turn open: a call parked while the socket is  *)
(* down is settled or finds itself on a registered socket again.           *)
OutageIsBounded ==
  \A r \in Reqs : (park[r] = "parked" /\ link = "down") ~> (park[r] = "settled" \/ link = "registered")

(* What resume() says of the calls it denies: "a request the server has    *)
(* already expired (or never had): its card is gone from the human's       *)
(* screen" (permissions.mjs:405-406).                                      *)
ResumeDeniesOnlyLost ==
  [][\A r \in Reqs :
       (OnRegistered /\ park[r] = "parked" /\ park'[r] = "settled")
       => r \notin Answerable]_vars
=============================================================================
