---------------------------- MODULE HubServices ----------------------------
(***************************************************************************)
(* What the daemon does besides turns, on the same socket to the hub and   *)
(* the same event loop: shared inference, messenger bridges, hand-offs to  *)
(* peers, and the CursorBuddy bridge.  They share the socket and no other  *)
(* state, so a behaviour exercises one of them (part).                     *)
(***************************************************************************)
EXTENDS SharedInference

CONSTANTS
  Channels, Provider, Posts, PostTo, MaxConns,
  Handoffs,
  Viewers, CONTROL_QUEUE_LIMIT, MaxControls, Streams, Chats, MaxLives

VARIABLES
  part,
  active, conn, of, by, redials, device, post, over,
  stage, ticket, listWaiters, ticketWaiters, lists, tickets, grants, listening, socket, mail, ran,
  controlQueue, nextControlId, controlClients, pipe, at, after, seen, stale, chat, lives

Messengers == INSTANCE Bridges
Mesh == INSTANCE PeerMesh
Buddy == INSTANCE LocalBridge

ASSUME ServicesAssumption ==
  /\ InferenceAssumption
  /\ MaxConns \in Nat /\ CONTROL_QUEUE_LIMIT \in Nat

inferenceState == <<call, entry, answered>>
messengerState == <<active, conn, of, by, redials, device, post, over>>
meshState == <<stage, ticket, listWaiters, ticketWaiters, lists, tickets, grants, listening, socket, mail, ran>>
buddyState == <<controlQueue, nextControlId, controlClients, pipe, at, after, seen, stale, chat, lives>>

serviceVars == <<part, online, inferenceState, messengerState, meshState, buddyState>>

ServicesInit ==
  /\ part \in {"inference", "messengers", "mesh", "buddy"}
  /\ online = TRUE
  /\ Init /\ Messengers!Init /\ Mesh!Init /\ Buddy!Init
  /\ listening = (part = "mesh")

Infers == part = "inference" /\ Next /\ UNCHANGED <<messengerState, meshState, buddyState>>

Messages == part = "messengers" /\ Messengers!Next /\ UNCHANGED <<inferenceState, meshState, buddyState>>

Meshes == part = "mesh" /\ Mesh!Next /\ UNCHANGED <<inferenceState, messengerState, buddyState>>

Serves == part = "buddy" /\ Buddy!Next /\ UNCHANGED <<online, inferenceState, messengerState, meshState>>

ServicesNext == (Infers \/ Messages \/ Meshes \/ Serves) /\ UNCHANGED part

ServicesSpec == ServicesInit /\ [][ServicesNext]_serviceVars

FairServices ==
  ServicesSpec /\ Messengers!Fairness /\ Mesh!Fairness /\ Buddy!Fairness

-----------------------------------------------------------------------------
(* Of Bridges: reconnecting does not multiply (bridges.mjs:58-74).         *)
OneLinePerStart == Messengers!OneLinePerStart

(* Of Bridges: an unlinked device is left alone (bridges.mjs:65-72).       *)
UnlinkedStops == Messengers!UnlinkedStops

(* Of PeerMesh: a job handed over runs once, on a ticket of its own, and   *)
(* one that falls back to the hub does not run at the peer                 *)
(* (agensis.mjs:241-354).                                                  *)
HandsOverOnce == Mesh!FallbackIsSafe /\ Mesh!TicketServesOne

(* Of LocalBridge: a viewer misses nothing (cursorbuddyLocalBridge.mjs:    *)
(* 569-581).                                                               *)
NoGap == Buddy!NoGap

(* A send over a bridge, a hand-off and a chat of the extension end,       *)
(* whatever the messenger, the peer or the command line does: each has its *)
(* deadline, that of WhatsApp in Baileys (bridges.mjs:201-212,             *)
(* agensis.mjs:285-318, :343, cursorbuddyLocalBridge.mjs:605, :641).  An   *)
(* inference call has none.                                                *)
NothingHangs ==
  /\ Messengers!SendsEnd
  /\ Mesh!HandoffsDecide /\ Buddy!ChatsEnd
=============================================================================
