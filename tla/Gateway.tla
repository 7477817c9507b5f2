-------------------------------- MODULE Gateway --------------------------------
(***************************************************************************)
(* One browser session of client/gateway/server.js: a WebSocket on one     *)
(* side, the TCP connections it opens to the chat server on the other.     *)
(*                                                                         *)
(* Node runs one callback at a time, so an action is one callback: a       *)
(* message, connect or close event with the microtasks it queues.  Only    *)
(* startTcpSession is awaited, so a register is two actions, and anything  *)
(* may happen between them.  TCP delivers bytes: packets arrive cut at any *)
(* point and are reassembled in session.tcpBuffer.  A data event is an     *)
(* action that takes the chunk in, and one for each turn of the loop that  *)
(* takes packets out (TakePacket), during which no other callback runs.    *)
(*                                                                         *)
(* Abstracted: a packet is its command and the user it is about; requests  *)
(* the gateway forwards without keeping any state are one command, OTHER,  *)
(* and so are the packets it turns into an event from their own fields.    *)
(* The host is the chat server: it answers requests in order, sends what   *)
(* other users say, and may vanish.  The browser waits for a connection    *)
(* being made before it registers again (the web client registers once     *)
(* per WebSocket).                                                         *)
(***************************************************************************)
EXTENDS PacketBytes

CONSTANTS
  Names, None,
  Links,         \* the TCP connections, each used once
  MAX_FLIGHT     \* bound of the model: requests, packets, targets in a queue

ASSUME GatewayAssumption ==
  /\ None \notin Names \cup Links
  /\ MAX_FLIGHT \in Nat

VARIABLES
  ws,          \* open; closing (by the gateway); leaving (by the browser); closed
  tcp, username, tcpBuffer, pendingInfoTargets,    \* the session record
  link,        \* none, connecting, up, dropped (by the host, not yet noticed),
               \* destroyed (by closeTcp), gone (its close event has run)
  registering, \* the username of the handler awaiting the connection
  out, inbox,  \* requests on their way to the host, bytes on their way back
  shown,       \* history: the user_info events sent to the browser, and the
               \* events made of a packet that the host did not send
  refused      \* history: the host has answered an INFO with an ERROR

host_vars == <<out, inbox, refused>>
gw_vars == <<ws, tcp, username, tcpBuffer, pendingInfoTargets, link,
             registering, host_vars, shown>>

Packet ==
  [command : {"OTHER", "ERROR"}, about : {None}]
    \cup [command : {"USER_INFO"}, about : Names]
Garbled == [command |-> "garbled", about |-> None]
Outgoing == [command : {"REGISTER", "OTHER"}, about : {None}]
              \cup [command : {"INFO"}, about : Names]

Event == [type : {"garbled"}, user : {None}, about : {None}]
           \cup [type : {"USER_INFO"}, user : Names \cup {None}, about : Names]

Destroyed(t) == link[t] \in {"destroyed", "gone"}
Usable == tcp # None /\ ~Destroyed(tcp)
Fits(queue) == Len(queue) < MAX_FLIGHT

\* The test of the loop at server.js:195, which runs before other callbacks do.
HoldsPacket == Len(tcpBuffer) >= PACKET_SIZE

\* The session is well formed, and nothing is left of a connection that was
\* closed: on every way to closeTcp the buffer is emptied (server.js:219-232).
GatewayTypeOK ==
  /\ ws \in {"open", "closing", "leaving", "closed"}
  /\ tcp \in Links \cup {None}
  /\ username \in Names \cup {None}
  /\ tcpBuffer \in Seq(Byte(Packet))
  /\ tcp = None => tcpBuffer = <<>>
  /\ pendingInfoTargets \in Seq(Names)
  /\ link \in [Links -> {"none", "connecting", "up", "dropped", "destroyed", "gone"}]
  /\ registering \in [Links -> Names \cup {None}]
  /\ out \in [Links -> Seq(Outgoing)]
  /\ inbox \in [Links -> Seq(Byte(Packet))]
  /\ shown \subseteq Event
  /\ refused \in BOOLEAN

GatewayInit ==
  /\ ws = "open"
  /\ tcp = None /\ username = None
  /\ tcpBuffer = <<>> /\ pendingInfoTargets = <<>>
  /\ link = [t \in Links |-> "none"]
  /\ registering = [t \in Links |-> None]
  /\ out = [t \in Links |-> <<>>] /\ inbox = [t \in Links |-> <<>>]
  /\ shown = {} /\ refused = FALSE

-----------------------------------------------------------------------------
(* From the browser.                                                       *)

Hears == ws \in {"open", "closing"}

Moves(t, state) == link' = [link EXCEPT ![t] = state]

\* What the host has already dropped is written in vain.
sendPacket(r) ==
  /\ Usable
  /\ out' = IF link[tcp] = "up"
              THEN [out EXCEPT ![tcp] = Append(@, r)] ELSE out
  /\ UNCHANGED <<inbox, refused>>

Forward(command, about) ==
  sendPacket([command |-> command, about |-> about])

\* Slip: the buffer is kept.
EndsOnly ==
  /\ IF Usable
       THEN /\ Moves(tcp, "destroyed")
            /\ out' = [out EXCEPT ![tcp] = <<>>]
            /\ inbox' = [inbox EXCEPT ![tcp] = <<>>]
       ELSE UNCHANGED <<link, out, inbox>>
  /\ tcp' = None
  /\ pendingInfoTargets' = <<>>
  /\ UNCHANGED <<tcpBuffer, refused>>

\* A LOGOUT is written and the socket destroyed: nothing is read from it any
\* more, so what the host still does with it is left out.
closeTcp ==
  /\ IF Usable
       THEN /\ Moves(tcp, "destroyed")
            /\ out' = [out EXCEPT ![tcp] = <<>>]
            /\ inbox' = [inbox EXCEPT ![tcp] = <<>>]
       ELSE UNCHANGED <<link, out, inbox>>
  /\ tcp' = None
  /\ tcpBuffer' = <<>>
  /\ pendingInfoTargets' = <<>>
  /\ UNCHANGED refused

Unused == {t \in Links : link[t] = "none"}

startTcpSession(u) ==
  LET t == CHOOSE l \in Unused : TRUE
  IN  /\ Unused # {}
      /\ Moves(t, "connecting")
      /\ registering' = [registering EXCEPT ![t] = u]
      /\ UNCHANGED <<tcp, username, host_vars>>

\* Slip: a register always opens a connection of its own.
RegisterAnew(u) ==
  /\ Hears
  /\ \A t \in Links : link[t] # "connecting"
  /\ startTcpSession(u)
  /\ UNCHANGED <<ws, tcpBuffer, pendingInfoTargets, shown>>

Register(u) ==
  /\ Hears
  /\ \A t \in Links : link[t] # "connecting"
  /\ \/ ~Usable /\ startTcpSession(u)
     \/ /\ Usable /\ Fits(out[tcp])
        /\ username' = u
        /\ Forward("REGISTER", None)
        /\ UNCHANGED <<tcp, link, registering>>
  /\ UNCHANGED <<ws, tcpBuffer, pendingInfoTargets, shown>>

\* The target is queued before sendPacket, which may throw.
Info(n) ==
  /\ Hears /\ username # None
  /\ Fits(pendingInfoTargets)
  /\ pendingInfoTargets' = Append(pendingInfoTargets, n)
  /\ \/ Usable /\ Fits(out[tcp]) /\ Forward("INFO", n)
     \/ ~Usable /\ UNCHANGED host_vars
  /\ UNCHANGED <<ws, tcp, username, tcpBuffer, link, registering, shown>>

\* broadcast, direct, list, status
OtherRequest ==
  /\ Hears /\ username # None
  /\ Usable /\ Fits(out[tcp]) /\ Forward("OTHER", None)
  /\ UNCHANGED <<ws, tcp, username, tcpBuffer, pendingInfoTargets, link,
                 registering, shown>>

Logout ==
  /\ Hears /\ username # None
  /\ closeTcp
  /\ UNCHANGED <<ws, username, registering, shown>>

BrowserCloses ==
  /\ Hears
  /\ ws' = "leaving"
  /\ UNCHANGED <<tcp, username, tcpBuffer, pendingInfoTargets, link,
                 registering, host_vars, shown>>

WsCloseEvent ==
  /\ ws \in {"closing", "leaving"}
  /\ ws' = "closed"
  /\ closeTcp
  /\ UNCHANGED <<username, registering, shown>>

WsErrorEvent ==
  /\ Hears
  /\ ws' = "leaving"
  /\ closeTcp
  /\ UNCHANGED <<username, registering, shown>>

-----------------------------------------------------------------------------
(* From the host's connection.                                             *)

\* The connect event and, before any other event, the rest of the handler
\* that awaited it: nobody looks at ws.  A socket destroyed earlier has had its
\* close event: the event loop runs those before it polls again.
Connected(t) ==
  /\ link[t] = "connecting"
  /\ \A l \in Links : link[l] # "destroyed"
  /\ Moves(t, "up")
  /\ tcp' = t
  /\ tcpBuffer' = <<>>
  /\ username' = registering[t]
  /\ registering' = [registering EXCEPT ![t] = None]
  /\ out' = [out EXCEPT ![t] = <<[command |-> "REGISTER", about |-> None]>>]
  /\ UNCHANGED <<ws, pendingInfoTargets, inbox, refused, shown>>

ConnectFails(t) ==
  /\ link[t] = "connecting"
  /\ Moves(t, "gone")
  /\ registering' = [registering EXCEPT ![t] = None]
  /\ UNCHANGED <<ws, tcp, username, tcpBuffer, pendingInfoTargets, host_vars, shown>>

parsePacket(bytes) ==
  IF \E p \in Packet : bytes = Bytes(p) THEN bytes[1][1] ELSE Garbled

\* Slip: the queue is used as a stack.
pop(queue) ==
  IF queue = <<>> THEN [first |-> None, rest |-> queue]
                  ELSE [first |-> queue[Len(queue)],
                        rest |-> SubSeq(queue, 1, Len(queue) - 1)]

shift(queue) ==
  IF queue = <<>> THEN [first |-> None, rest |-> queue]
                  ELSE [first |-> Head(queue), rest |-> Tail(queue)]

\* The event for a packet: only a USER_INFO takes a target off the queue, an
\* ERROR does not.
toClientEvent(packet) ==
  LET info == packet.command = "USER_INFO"
      s == shift(pendingInfoTargets)
      event == [type |-> packet.command, about |-> packet.about,
                user |-> IF info THEN s.first ELSE None]
  IN  /\ pendingInfoTargets' = IF info THEN s.rest ELSE pendingInfoTargets
      /\ shown' = IF ws = "open" THEN shown \cup ({event} \cap Event) ELSE shown

DataEvent(t) ==
  /\ link[t] \in {"up", "dropped"}
  /\ \E n \in 1 .. Len(inbox[t]) :
       /\ inbox' = [inbox EXCEPT ![t] = SubSeq(@, n + 1, Len(@))]
       /\ tcpBuffer' = tcpBuffer \o SubSeq(inbox[t], 1, n)
  /\ UNCHANGED <<ws, tcp, username, pendingInfoTargets, link, registering, out,
                 refused, shown>>

\* Slip: what follows the packet in the buffer is dropped with it.
NoRest(bytes) == <<>>

Rest(bytes) == SubSeq(bytes, PACKET_SIZE + 1, Len(bytes))

\* One turn of the loop.
TakePacket ==
  /\ HoldsPacket
  /\ tcpBuffer' = Rest(tcpBuffer)
  /\ toClientEvent(parsePacket(SubSeq(tcpBuffer, 1, PACKET_SIZE)))
  /\ UNCHANGED <<ws, tcp, username, link, registering, host_vars>>

\* Slip: the page is told of the loss, and its WebSocket is kept for another
\* register.
CloseTellsOnly(t) ==
  /\ \/ link[t] = "dropped" /\ inbox[t] = <<>>
     \/ link[t] = "destroyed"
  /\ Moves(t, "gone")
  /\ UNCHANGED <<ws, tcp, username, tcpBuffer, pendingInfoTargets, registering,
                 host_vars, shown>>

TcpCloseEvent(t) ==
  /\ \/ link[t] = "dropped" /\ inbox[t] = <<>>
     \/ link[t] = "destroyed"
  /\ Moves(t, "gone")
  /\ ws' = IF ws = "open" THEN "closing" ELSE ws
  /\ UNCHANGED <<tcp, username, tcpBuffer, pendingInfoTargets, registering,
                 host_vars, shown>>

-----------------------------------------------------------------------------
(* The chat server, as one client sees it: server/session.c.               *)

\* An INFO about a user who is not connected, or asked before the register
\* succeeded, is refused.
Replies(r) ==
  IF r.command = "INFO"
    THEN {[command |-> "USER_INFO", about |-> r.about],
          [command |-> "ERROR", about |-> None]}
    ELSE {[command |-> c, about |-> None] : c \in {"OTHER", "ERROR"}}

Arrives(t, p) ==
  /\ Len(inbox[t]) <= (MAX_FLIGHT - 1) * PACKET_SIZE
  /\ inbox' = [inbox EXCEPT ![t] = @ \o Bytes(p)]

HostAnswers(t) ==
  /\ link[t] = "up" /\ out[t] # <<>>
  /\ \E p \in Replies(Head(out[t])) :
       /\ Arrives(t, p)
       /\ out' = [out EXCEPT ![t] = Tail(@)]
       /\ refused' = (refused \/ (Head(out[t]).command = "INFO" /\ p.command = "ERROR"))
  /\ UNCHANGED <<ws, tcp, username, tcpBuffer, pendingInfoTargets, link,
                 registering, shown>>

\* A message, a departure or a warning that nobody asked for.
HostSends(t) ==
  /\ link[t] = "up"
  /\ Arrives(t, [command |-> "OTHER", about |-> None])
  /\ UNCHANGED <<ws, tcp, username, tcpBuffer, pendingInfoTargets, link,
                 registering, out, refused, shown>>

\* The host closes or dies: what it had not sent is lost, mid-packet too.
HostDrops(t) ==
  /\ link[t] = "up"
  /\ Moves(t, "dropped")
  /\ \E n \in 0 .. Len(inbox[t]) :
       inbox' = [inbox EXCEPT ![t] = SubSeq(@, 1, n)]
  /\ out' = [out EXCEPT ![t] = <<>>]
  /\ UNCHANGED <<ws, tcp, username, tcpBuffer, pendingInfoTargets, registering,
                 refused, shown>>

-----------------------------------------------------------------------------
FromBrowser ==
  \/ \E n \in Names : Register(n) \/ Info(n)
  \/ OtherRequest \/ Logout
  \/ BrowserCloses \/ WsCloseEvent \/ WsErrorEvent

FromHost ==
  \E t \in Links : \/ Connected(t) \/ ConnectFails(t)
                   \/ DataEvent(t) \/ TcpCloseEvent(t)
                   \/ HostAnswers(t) \/ HostSends(t) \/ HostDrops(t)

\* A callback runs to its end before the next begins.  What the host does
\* meanwhile it may as well do after: the loop looks at nothing of the host's.
GatewayNext == TakePacket \/ (~HoldsPacket /\ (FromBrowser \/ FromHost))

GatewaySpec == GatewayInit /\ [][GatewayNext]_gw_vars

\* The event loop runs the callbacks of a connection that has data or has
\* ended, and every callback ends.  The browser and the host owe nothing.
FairGateway ==
  /\ GatewaySpec
  /\ WF_gw_vars(TakePacket)
  /\ \A t \in Links : WF_gw_vars(~HoldsPacket /\ (DataEvent(t) \/ TcpCloseEvent(t)))

-----------------------------------------------------------------------------
(* What the gateway promises.                                              *)

\* However TCP cuts the stream, the browser is never shown a packet made of
\* bytes of two (server.js:192-201).
FramesWhole == \A e \in shown : e.type # "garbled"

\* Every user_info carries the user it was asked about, as long as no INFO
\* has been refused: answers come in order, and so do the targets waiting for
\* them (server.js:141, 314).
LabelledUnlessRefused == refused \/ \A e \in shown : e.user = e.about

\* Every user_info carries the user it is about, as client/gateway/README.md
\* shows it (server.js:139-146).
LabelsTrue == \A e \in shown : e.user = e.about

\* Behind a closed WebSocket there is no connection but one that was still
\* being made when it closed: closing destroys the one that is up, over failed
\* and repeated registers (server.js:219-232, 259, 365-368).  The exception is
\* real: the handler that awaits a connection does not look at the WebSocket
\* afterwards, and nothing will close what it then registers (server.js:261-276).
OnlyAwaitedOutlives ==
  [][\A t \in Links :
       ws' = "closed" /\ link'[t] \in {"connecting", "up", "dropped"} =>
         \/ link[t] = "connecting"
         \/ ws = "closed" /\ link[t] \in {"up", "dropped"}]_gw_vars

\* A connection that was made and is lost, or was closed on a LOGOUT, takes the
\* WebSocket with it, whatever is still unread (server.js:203-208): the page is
\* not left talking to nobody.
LossReachesPage ==
  \A t \in Links : (link[t] \in {"dropped", "destroyed"}) ~> (ws # "open")
=============================================================================
