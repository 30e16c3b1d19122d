------------------------------ MODULE Bridges ------------------------------
(***************************************************************************)
(* Messenger bridges (packages/agensis-cli/src/bridges.mjs): WhatsApp,     *)
(* Signal and OpenClaw connections the hub starts, stops and sends over.   *)
(*                                                                         *)
(* A start is two steps: frames read in the meantime see the Map without   *)
(* it.  What the messengers do is outside; QR codes, inbound messages and  *)
(* formatting are left out.  Whether Baileys tells of a close it was asked *)
(* for before or after the Map forgets the connection is left open.        *)
(***************************************************************************)
EXTENDS Integers, FiniteSets, Functions, FiniteSetsExt

CONSTANTS
  Channels,   \* bridgeIds
  Provider,   \* [Channels -> {"whatsapp", "signal", "openclaw"}]
  Posts,      \* bridge_send frames
  PostTo,     \* [Posts -> Channels]
  MaxConns    \* bound: connections in a behaviour

Conns == 1..MaxConns
NoConn == 0

VARIABLES
  online,     \* the hub's socket is open
  active,     \* the connection the Map has for a bridge
  conn,       \* state of a connection
  of,         \* its bridge
  by,         \* "frame" or "redial"
  redials,    \* armed 5 s timers of a bridge
  device,     \* the account on the phone: "new", "linked" or "unlinked"
  post,       \* what became of a bridge_send
  over        \* the connection it went out on

bridgeVars == <<online, active, conn, of, by, redials, device, post, over>>

Init ==
  /\ online \in BOOLEAN
  /\ active = [b \in Channels |-> NoConn]
  /\ conn = [c \in Conns |-> "none"]
  /\ of = [c \in Conns |-> CHOOSE b \in Channels : TRUE]
  /\ by = [c \in Conns |-> "frame"]
  /\ redials = [b \in Channels |-> 0]
  /\ device = [b \in Channels |-> "new"]
  /\ post = [p \in Posts |-> "new"]
  /\ over = [p \in Posts |-> NoConn]

Up(b) == {c \in Conns : of[c] = b /\ conn[c] \in {"starting", "live"}}

WhatsApp(b) == Provider[b] = "whatsapp"

(* Bound: a timer is armed, or a frame handled, while a connection that is *)
(* not promised to a timer is left.                                        *)
Left == Cardinality({c \in Conns : conn[c] = "none"}) > SumFunction(redials)

(* A connection is begun: the lowest that was never used.                  *)
Begin(b, cause) ==
  \E c \in Conns :
    /\ conn[c] = "none" /\ \A d \in 1..(c - 1) : conn[d] # "none"
    /\ conn' = [conn EXCEPT ![c] = "starting"]
    /\ of' = [of EXCEPT ![c] = b]
    /\ by' = [by EXCEPT ![c] = cause]

(* bridge_start: nothing if the bridge runs.                               *)
Start(b) ==
  /\ online /\ active[b] = NoConn /\ Left
  /\ Begin(b, "frame")
  /\ UNCHANGED <<online, active, redials, device, post, over>>

(* The starter returns; only the one a frame began goes into the Map,      *)
(* whatever is there.                                                      *)
Started(c) ==
  /\ conn[c] = "starting"
  /\ conn' = [conn EXCEPT ![c] = "live"]
  /\ active' = [active EXCEPT ![of[c]] = IF by[c] = "frame" THEN c ELSE @]
  /\ UNCHANGED <<online, of, by, redials, device, post, over>>

(* It throws, or returns null: Baileys is not installed, a file is not     *)
(* readable.                                                               *)
StartFails(c) ==
  /\ conn[c] = "starting" /\ Provider[of[c]] # "signal"
  /\ conn' = [conn EXCEPT ![c] = "dead"]
  /\ UNCHANGED <<online, active, of, by, redials, device, post, over>>

(* Mutant: the reason of the close is not looked at.                       *)
RedialsBlindly(b, loggedOut) ==
  IF active[b] # NoConn
  THEN Left /\ redials' = [redials EXCEPT ![b] = @ + 1]
  ELSE UNCHANGED redials

(* 'close': a bridge of the Map is dialled again, unless the reason is     *)
(* that the device was unlinked.                                           *)
Redials(b, loggedOut) ==
  IF ~ loggedOut /\ active[b] # NoConn
  THEN Left /\ redials' = [redials EXCEPT ![b] = @ + 1]
  ELSE UNCHANGED redials

(* Mutant: an error that does not end the socket redials as well.          *)
DiesOrErrs(c, loggedOut) ==
  /\ conn[c] = "live" /\ (loggedOut => device[of[c]] = "unlinked")
  /\ \E after \in {"dead", "live"} : conn' = [conn EXCEPT ![c] = after]
  /\ IF WhatsApp(of[c]) THEN Redials(of[c], loggedOut) ELSE UNCHANGED redials
  /\ UNCHANGED <<online, active, of, by, device, post, over>>

(* The peer, the network or the process ends a connection; loggedOut is    *)
(* what the messenger says to an unlinked device.  Signal and OpenClaw do  *)
(* not hear it.                                                            *)
Dies(c, loggedOut) ==
  /\ conn[c] = "live" /\ (loggedOut => device[of[c]] = "unlinked")
  /\ conn' = [conn EXCEPT ![c] = "dead"]
  /\ IF WhatsApp(of[c]) THEN Redials(of[c], loggedOut) ELSE UNCHANGED redials
  /\ UNCHANGED <<online, active, of, by, device, post, over>>

(* The 5 s are over; stop() does not clear the timer.                      *)
Redial(b) ==
  /\ redials[b] > 0
  /\ redials' = [redials EXCEPT ![b] = @ - 1]
  /\ Begin(b, "redial")
  /\ UNCHANGED <<online, active, device, post, over>>

(* bridge_stop: the connection in the Map is ended, for no reason that the *)
(* close would tell; the others live on.                                   *)
Stop(b) ==
  /\ online /\ active[b] # NoConn
  /\ active' = [active EXCEPT ![b] = NoConn]
  /\ conn' = [conn EXCEPT ![active[b]] = "dead"]
  /\ \/ conn[active[b]] = "live" /\ WhatsApp(b) /\ Redials(b, FALSE)
     \/ UNCHANGED redials
  /\ UNCHANGED <<online, of, by, device, post, over>>

(* On the phone.                                                           *)
Scan(b) ==
  /\ device[b] = "new" /\ \E c \in Up(b) : conn[c] = "live"
  /\ device' = [device EXCEPT ![b] = "linked"]
  /\ UNCHANGED <<online, active, conn, of, by, redials, post, over>>

Unlink(b) ==
  /\ WhatsApp(b) /\ device[b] = "linked"
  /\ device' = [device EXCEPT ![b] = "unlinked"]
  /\ UNCHANGED <<online, active, conn, of, by, redials, post, over>>

Posted(p, outcome) ==
  /\ post' = [post EXCEPT ![p] = outcome]
  /\ UNCHANGED <<online, active, conn, of, by, redials, device>>

(* bridge_send: over what the Map has, dead or alive.  Signal does not     *)
(* wait for an answer.                                                     *)
Send(p) ==
  LET b == PostTo[p] IN
  /\ online /\ post[p] = "new"
  /\ over' = [over EXCEPT ![p] = active[b]]
  /\ Posted(p, IF active[b] = NoConn THEN "not running"
               ELSE IF Provider[b] = "signal" THEN "written" ELSE "pending")

(* The messenger answers with the message's id, or refuses.                *)
Answers(p) ==
  /\ post[p] = "pending" /\ conn[over[p]] = "live"
  /\ \E outcome \in {"sent", "refused"} : Posted(p, outcome)
  /\ UNCHANGED over

(* OpenClaw's 30 s are over; Baileys rejects on its own.                   *)
TimesOut(p) == post[p] = "pending" /\ Posted(p, "refused") /\ UNCHANGED over

SocketTurns == online' = ~online /\ UNCHANGED <<active, conn, of, by, redials, device, post, over>>

Next ==
  \/ \E b \in Channels : Start(b) \/ Stop(b) \/ Redial(b) \/ Scan(b) \/ Unlink(b)
  \/ \E c \in Conns : Started(c) \/ StartFails(c) \/ \E loggedOut \in BOOLEAN : Dies(c, loggedOut)
  \/ \E p \in Posts : Send(p) \/ Answers(p) \/ TimesOut(p)
  \/ SocketTurns

Spec == Init /\ [][Next]_bridgeVars

(* Timers fire, a starter ends, and the messenger closes a socket whose    *)
(* device was unlinked; that the network does not always forestall it is   *)
(* the bound's.                                                            *)
Fairness ==
  /\ \A b \in Channels : WF_bridgeVars(Redial(b))
  /\ \A c \in Conns :
       /\ WF_bridgeVars(Started(c) \/ StartFails(c))
       /\ WF_bridgeVars(Dies(c, TRUE))
  /\ \A p \in Posts : WF_bridgeVars(TimesOut(p))

-----------------------------------------------------------------------------
(* Reconnecting does not multiply: each connection that was lost begets    *)
(* one, so a bridge never has more connections, up or due, than frames     *)
(* that began one (bridges.mjs:58-74).                                     *)
OneLinePerStart ==
  \A b \in Channels :
    Cardinality(Up(b)) + redials[b]
      <= Cardinality({c \in Conns : conn[c] # "none" /\ of[c] = b /\ by[c] = "frame"})

(* Reconnecting a device that was unlinked "would just spin" (:65-66): the *)
(* bridge comes to rest, the sockets the Map has lost included.            *)
UnlinkedStops ==
  \A b \in Channels : device[b] = "unlinked" ~> (Up(b) = {} /\ redials[b] = 0)

(* A bridge_send is answered, on a connection that died as well (:201-212, *)
(* :331-347).                                                              *)
SendsEnd == \A p \in Posts : post[p] = "pending" ~> post[p] \in {"sent", "refused"}
=============================================================================
