------------------------------ MODULE PeerMesh ------------------------------
(***************************************************************************)
(* Jobs handed to another daemon over the LAN                              *)
(* (agensis.mjs:205-354 and :743-784): the caller asks the hub for the     *)
(* peers, then for a ticket, and dials; the callee takes the ticket once   *)
(* and queues the job.  One caller and one callee.  Nothing in this        *)
(* version calls handoffJobToPeer(); its callers are taken to be any.      *)
(*                                                                         *)
(* A ticket is named after the hand-off that asked for it; the answer      *)
(* goes to the one that waits longest.                                     *)
(***************************************************************************)
EXTENDS Integers, Sequences, SequencesExt

CONSTANT Handoffs

VARIABLES
  online,         \* the caller's socket to the hub is open
  stage,          \* of a hand-off; "true" and "false" are what it returns
  ticket,         \* the tickets a hand-off was given
  listWaiters,    \* peerListWaiters
  ticketWaiters,  \* peerTicketWaiters of the callee
  lists,          \* answers of the hub on their way: to peer_list_request,
  tickets,        \* and to peer_ticket_request
  grants,         \* peerGrants: "none", "sent", "held", "expired" or "used"
  listening,      \* the callee's LAN listener
  socket,         \* the callee's end of a connection
  mail,           \* frames on the connection
  ran             \* hand-offs whose job the callee queued

askVars == <<stage, ticket, listWaiters, ticketWaiters, lists, tickets>>
calleeVars == <<grants, listening, socket, mail, ran>>
meshVars == <<online, askVars, calleeVars>>

Init ==
  /\ online \in BOOLEAN
  /\ stage = [h \in Handoffs |-> "new"]
  /\ ticket = [h \in Handoffs |-> {}]
  /\ listWaiters = <<>> /\ ticketWaiters = <<>>
  /\ lists = 0 /\ tickets = <<>>
  /\ grants = [t \in Handoffs |-> "none"]
  /\ listening \in BOOLEAN
  /\ socket = [h \in Handoffs |-> "none"]
  /\ mail = [h \in Handoffs |-> <<>>]
  /\ ran = {}

Goes(h, to) == stage' = [stage EXCEPT ![h] = to]

(* requestPeerList(); without a socket it rejects.                         *)
Ask(h) ==
  /\ stage[h] = "new"
  /\ IF online
     THEN /\ Goes(h, "listing")
          /\ listWaiters' = Append(listWaiters, h)
          /\ lists' = lists + 1
     ELSE Goes(h, "false") /\ UNCHANGED <<listWaiters, lists>>
  /\ UNCHANGED <<online, ticket, ticketWaiters, tickets, calleeVars>>

(* peer_list answers the waiter at the head, if there is one: the callee   *)
(* is not in it, or requestPeerTicket() follows in the same turn.  The hub *)
(* issues the ticket, sends its grant to the callee and answers, or not.   *)
ListAnswered ==
  /\ online /\ lists > 0 /\ lists' = lists - 1
  /\ IF listWaiters = <<>>
     THEN UNCHANGED <<stage, listWaiters, ticketWaiters, tickets, grants>>
     ELSE LET h == Head(listWaiters) IN
          /\ listWaiters' = Tail(listWaiters)
          /\ \/ Goes(h, "false") /\ UNCHANGED <<ticketWaiters, tickets, grants>>
             \/ /\ Goes(h, "ticketing")
                /\ ticketWaiters' = Append(ticketWaiters, h)
                /\ \/ tickets' = Append(tickets, h) /\ grants' = [grants EXCEPT ![h] = "sent"]
                   \/ UNCHANGED <<tickets, grants>>
  /\ UNCHANGED <<online, ticket, listening, socket, mail, ran>>

(* Mutant: the waiter is forgotten, and its promise with it.               *)
ListTimesOutSilently(h) ==
  /\ stage[h] = "listing"
  /\ listWaiters' = RemoveFirst(listWaiters, h)
  /\ UNCHANGED <<online, stage, ticket, ticketWaiters, lists, tickets, calleeVars>>

(* 10 s without an answer read as "no peers".                              *)
ListTimesOut(h) ==
  /\ stage[h] = "listing" /\ Goes(h, "false")
  /\ listWaiters' = RemoveFirst(listWaiters, h)
  /\ UNCHANGED <<online, ticket, ticketWaiters, lists, tickets, calleeVars>>

(* peer_ticket, to the waiter at the head; without an address it is of no  *)
(* use.                                                                    *)
TicketAnswered ==
  /\ online /\ tickets # <<>> /\ tickets' = Tail(tickets)
  /\ IF ticketWaiters = <<>>
     THEN UNCHANGED <<stage, ticket, ticketWaiters>>
     ELSE LET h == Head(ticketWaiters) IN
          /\ ticketWaiters' = Tail(ticketWaiters)
          /\ ticket' = [ticket EXCEPT ![h] = {Head(tickets)}]
          /\ \E to \in {"dialling", "false"} : Goes(h, to)
  /\ UNCHANGED <<online, listWaiters, lists, calleeVars>>

TicketTimesOut(h) ==
  /\ stage[h] = "ticketing" /\ Goes(h, "false")
  /\ ticketWaiters' = RemoveFirst(ticketWaiters, h)
  /\ UNCHANGED <<online, ticket, listWaiters, lists, tickets, calleeVars>>

Accepts(h) == listening /\ socket[h] = "none" /\ socket' = [socket EXCEPT ![h] = "open"]

(* Mutant: the frames are sent before 'open' is awaited.                   *)
DialsUnawaited(h) ==
  /\ stage[h] = "dialling" /\ Accepts(h)
  /\ mail' = [mail EXCEPT ![h] = <<"peer_auth", "agent_job">>]
  /\ \E to \in {"true", "false"} : Goes(h, to)
  /\ UNCHANGED <<online, ticket, listWaiters, ticketWaiters, lists, tickets, grants, listening, ran>>

(* 'open': both frames are sent and the hand-off is over for the caller,   *)
(* whatever the callee makes of them.                                      *)
Dials(h) ==
  /\ stage[h] = "dialling" /\ Accepts(h) /\ Goes(h, "true")
  /\ mail' = [mail EXCEPT ![h] = <<"peer_auth", "agent_job">>]
  /\ UNCHANGED <<online, ticket, listWaiters, ticketWaiters, lists, tickets, grants, listening, ran>>

(* 'error', or 5 s; the callee may have accepted.                          *)
DialFails(h) ==
  /\ stage[h] = "dialling" /\ Goes(h, "false")
  /\ Accepts(h) \/ UNCHANGED socket
  /\ UNCHANGED <<online, ticket, listWaiters, ticketWaiters, lists, tickets, grants, listening, mail, ran>>

(* The caller's socket closes: what is on its way is lost.  Waiters stay.  *)
Disconnect ==
  /\ online /\ online' = FALSE
  /\ lists' = 0 /\ tickets' = <<>>
  /\ UNCHANGED <<stage, ticket, listWaiters, ticketWaiters, calleeVars>>

Reconnect == ~online /\ online' = TRUE /\ UNCHANGED <<askVars, calleeVars>>

(* peer_ticket_grant reaches the callee, or never does.                    *)
GrantArrives(t) ==
  /\ grants[t] = "sent"
  /\ grants' = [grants EXCEPT ![t] = "held"]
  /\ UNCHANGED <<online, askVars, listening, socket, mail, ran>>

GrantExpires(t) ==
  /\ grants[t] = "held"
  /\ grants' = [grants EXCEPT ![t] = "expired"]
  /\ UNCHANGED <<online, askVars, listening, socket, mail, ran>>

(* The first frame must be peer_auth with a grant; it is used up.          *)
AuthArrives(h) ==
  /\ socket[h] = "open" /\ mail[h] # <<>> /\ mail' = [mail EXCEPT ![h] = Tail(@)]
  /\ LET t == CHOOSE t \in ticket[h] : TRUE IN
     IF grants[t] = "held"
     THEN grants' = [grants EXCEPT ![t] = "used"] /\ socket' = [socket EXCEPT ![h] = "authed"]
     ELSE socket' = [socket EXCEPT ![h] = "closed"] /\ UNCHANGED grants
  /\ UNCHANGED <<online, askVars, listening, ran>>

(* agent_job on a connection that was let in, the listener stopped since   *)
(* or not.                                                                 *)
JobArrives(h) ==
  /\ socket[h] = "authed" /\ mail[h] # <<>> /\ mail' = [mail EXCEPT ![h] = Tail(@)]
  /\ ran' = ran \cup {h}
  /\ UNCHANGED <<online, askVars, grants, listening, socket>>

(* No first frame for 5 s, or the connection breaks.                       *)
PeerCloses(h) ==
  /\ socket[h] \in {"open", "authed"}
  /\ socket' = [socket EXCEPT ![h] = "closed"]
  /\ mail' = [mail EXCEPT ![h] = <<>>]
  /\ UNCHANGED <<online, askVars, grants, listening, ran>>

(* The callee registers, which opens its listener; agent_reach_disable     *)
(* closes it for new connections, until it registers again.                *)
ListenerTurns == listening' = ~listening /\ UNCHANGED <<online, askVars, grants, socket, mail, ran>>

Next ==
  \/ \E h \in Handoffs :
       \/ Ask(h) \/ ListTimesOut(h) \/ TicketTimesOut(h) \/ Dials(h) \/ DialFails(h)
       \/ GrantArrives(h) \/ GrantExpires(h) \/ AuthArrives(h) \/ JobArrives(h) \/ PeerCloses(h)
  \/ ListAnswered \/ TicketAnswered \/ Disconnect \/ Reconnect \/ ListenerTurns

Spec == Init /\ [][Next]_meshVars

(* The caller's timers fire.                                               *)
Fairness ==
  \A h \in Handoffs : WF_meshVars(ListTimesOut(h)) /\ WF_meshVars(TicketTimesOut(h))
                      /\ WF_meshVars(DialFails(h))

-----------------------------------------------------------------------------
(* A hand-off that returned false is relayed by the hub instead: the peer  *)
(* never has its job as well, now or later (agensis.mjs:320-354).          *)
FallbackIsSafe ==
  \A h \in Handoffs : stage[h] = "false" => mail[h] = <<>> /\ h \notin ran

(* Every job that ran came with a ticket of its own, which let in no other *)
(* connection, although a late answer may hand one hand-off's ticket to    *)
(* the next (:255-263, :743-752).                                          *)
TicketServesOne ==
  \A h \in ran :
    \E t \in ticket[h] : grants[t] = "used" /\ \A g \in Handoffs \ {h} : t \notin ticket[g]

(* A hand-off never hangs its caller (:285-318).                           *)
HandoffsDecide ==
  \A h \in Handoffs : stage[h] \in {"listing", "ticketing", "dialling"} ~> stage[h] \in {"true", "false"}
=============================================================================
