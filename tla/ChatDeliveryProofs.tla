-------------------------- MODULE ChatDeliveryProofs --------------------------
(***************************************************************************)
(* Proofs about ChatDelivery, for any number of connections, descriptors   *)
(* and users.                                                              *)
(*                                                                         *)
(* A broadcast, and the announcement of a departure, reach everybody       *)
(* exactly once.  The fan-out loop writes to sockets that were looked up   *)
(* earlier; the invariant DeliveryInv says, for every session in the       *)
(* middle of a loop, who has the packet, who will still get it, and why    *)
(* nobody is both.                                                         *)
(*                                                                         *)
(* A silent user is warned once.  The invariant WarnInv is a balance of    *)
(* warnings and of what pays for them.                                     *)
(*                                                                         *)
(* Both are conditional on server_up: a send that ends the process         *)
(* delivers nothing.                                                       *)
(***************************************************************************)
EXTENDS ChatDelivery, ChatServerProofs

\* The packets that a session sends to its own client.
Replies == {"OK", "ERROR", "USER_LIST", "USER_INFO"}

Goodbyes == {make_packet("DISCONNECTED", "SERVER", "ALL", <<n>>) : n \in Names}

Says(c, n) == make_packet("MSG", username[c], n, Text(c))

\* What session c may have to send at each point of its code.
WorkOK(c) ==
  /\ pc[c] \notin {"send", "close"} => Pending(c) = {}
  /\ pc[c] \notin {"send", "announce", "close"} => todo[c].out = None
  /\ pc[c] = "send" => \/ todo[c].out = None /\ Pending(c) = {}
                       \/ \E n \in Names \cup {"ALL"} : todo[c].out = Says(c, n)
  /\ pc[c] = "announce" => todo[c].out \in Goodbyes
  /\ pc[c] = "close" => \/ todo[c].out = None /\ Pending(c) = {}
                        \/ todo[c].out \in Goodbyes
  /\ pc[c] \in {"send", "logout"} => todo[c].reply.command \in Replies

\* What anybody may have seen of session c: texts that it has already
\* broadcast, each with its number, and no announcement before it leaves.
HistoryOK(c) ==
  \A d \in Conns : \A k \in DOMAIN seen[d] : seen[d][k].by = c =>
    /\ seen[d][k].command = "MSG" =>
         \E m \in 0 .. nreq[c] : /\ seen[d][k].payload = <<c, m>>
                                 /\ pc[c] = "dispatch" => m < nreq[c]
    /\ seen[d][k].command = "DISCONNECTED" => pc[c] \in {"close", "done"}

OwedOK(c) == /\ owed[c] \subseteq Conns \ {c}
             /\ \A d \in owed[c] : Registered(d)

\* Session c is sending a packet to everybody.
ToAll(c) == /\ pc[c] \in {"send", "close"}
            /\ todo[c].out # None
            /\ todo[c].out.target = "ALL"

Awaits(d, c) == \E i \in Slots : todo[c].to[i] # None /\ todo[c].to[i] = sockfd[d]

SpreadOK(c) ==
  /\ \A i, j \in Pending(c) : todo[c].to[i] = todo[c].to[j] => i = j
  /\ ~ Awaits(c, c)
  /\ Copies(c, c) = {}
  /\ \A d \in Conns : \A k, l \in Copies(d, c) : k = l
  /\ \A d \in Conns : Awaits(d, c) => Copies(d, c) = {}
  /\ \A d \in owed[c] : Member(d) /\ Copies(d, c) = {} => Awaits(d, c)

FreshOK == \A d \in Conns : pc[d] = "new" => seen[d] = <<>>

DeliveryInv ==
  server_up => /\ FreshOK
               /\ \A c \in Conns : /\ WorkOK(c) /\ HistoryOK(c) /\ OwedOK(c)
                                   /\ ToAll(c) => SpreadOK(c)

\* What a client has seen is a sequence.
SeenType == \E S : seen \in [Conns -> Seq(S)]

-----------------------------------------------------------------------------
(* One packet is written.                                                  *)

\* seen[d] gets one more element, e.
Grows(d, e) ==
  \E n : /\ n \notin DOMAIN seen[d]
         /\ DOMAIN seen'[d] = DOMAIN seen[d] \cup {n}
         /\ seen'[d][n] = e
         /\ \A k \in DOMAIN seen[d] : seen'[d][k] = seen[d][k]

\* Append adds one element at the end and keeps the others.
LEMMA AppendGrows ==
  ASSUME NEW S, NEW s \in Seq(S), NEW e
  PROVE  /\ Len(s) + 1 \notin DOMAIN s
         /\ DOMAIN Append(s, e) = DOMAIN s \cup {Len(s) + 1}
         /\ Append(s, e)[Len(s) + 1] = e
         /\ \A k \in DOMAIN s : Append(s, e)[k] = s[k]
         /\ Append(s, e) \in Seq(S \cup {e})
         /\ s \in Seq(S \cup {e})
<1>1. s \in Seq(S \cup {e})
  OBVIOUS
<1>2. Len(s) \in Nat /\ DOMAIN s = 1 .. Len(s)
  OBVIOUS
<1>3. /\ Append(s, e) \in Seq(S \cup {e})
      /\ Len(Append(s, e)) = Len(s) + 1
      /\ Append(s, e)[Len(s) + 1] = e
      /\ \A k \in 1 .. Len(s) : Append(s, e)[k] = s[k]
  BY <1>1
<1>. QED BY <1>1, <1>2, <1>3

\* A delivery is one more packet for the owners of the descriptor.
LEMMA DeliverSeen ==
  ASSUME SeenType, NEW s, NEW packet, NEW a, Deliver(s, packet, a)
  PROVE  /\ SeenType'
         /\ \A d \in Conns :
              \/ seen'[d] = seen[d]
              \/ d \in Owners(s) /\ Grows(d, Event(packet, a))
         /\ server_up' /\ packet.command \in Traced =>
              \A d \in Owners(s) : Grows(d, Event(packet, a))
<1>. DEFINE e == Event(packet, a)
<1>1. PICK S : seen \in [Conns -> Seq(S)]
  BY DEF SeenType
<1>2. ASSUME NEW d \in Conns
      PROVE  \/ seen'[d] = seen[d]
             \/ d \in Owners(s) /\ seen'[d] = Append(seen[d], e)
  BY DEF Deliver
<1>3. ASSUME NEW d \in Conns, seen'[d] = Append(seen[d], e) PROVE Grows(d, e)
  <2>. HIDE DEF e
  <2>1. seen[d] \in Seq(S)
    BY <1>1
  <2>2. /\ Len(seen[d]) + 1 \notin DOMAIN seen[d]
        /\ DOMAIN seen'[d] = DOMAIN seen[d] \cup {Len(seen[d]) + 1}
        /\ seen'[d][Len(seen[d]) + 1] = e
        /\ \A k \in DOMAIN seen[d] : seen'[d][k] = seen[d][k]
    BY <1>3, <2>1, AppendGrows
  <2>. QED BY <2>2 DEF Grows
<1>4. SeenType'
  <2>1. ASSUME NEW d \in Conns PROVE seen'[d] \in Seq(S \cup {e})
    <3>. HIDE DEF e
    <3>1. seen[d] \in Seq(S)
      BY <1>1
    <3>2. seen[d] \in Seq(S \cup {e}) /\ Append(seen[d], e) \in Seq(S \cup {e})
      BY <3>1, AppendGrows
    <3>3. seen'[d] = seen[d] \/ seen'[d] = Append(seen[d], e)
      BY <1>2
    <3>. QED BY <3>2, <3>3
  <2>2. seen' = [d \in Conns |-> seen'[d]]
    BY DEF Deliver
  <2>3. seen' \in [Conns -> Seq(S \cup {e})]
    <3>. HIDE DEF e
    <3>. QED BY <2>1, <2>2
  <2>. QED BY <2>3 DEF SeenType
<1>5. ASSUME server_up', packet.command \in Traced, NEW d \in Owners(s)
      PROVE  Grows(d, e)
  <2>1. d \in Conns
    BY DEF Owners
  <2>2. seen'[d] = Append(seen[d], e)
    BY <1>5, <2>1 DEF Deliver
  <2>. QED BY <1>3, <2>1, <2>2
<1>. QED BY <1>2, <1>3, <1>4, <1>5

\* The life of a session goes one way.
LEMMA Life ==
  ASSUME ChatInv, [Next]_vars, NEW d \in Conns
  PROVE  /\ Registered(d) => Registered(d)'
         /\ Registered(d) /\ Member(d)' => Member(d) /\ sockfd'[d] = sockfd[d]
         /\ pc'[d] = "new" => pc[d] = "new"
         /\ sockfd'[d] \in {sockfd[d], None} \/ pc[d] = "new"
         /\ pc[d] \in {"send", "close"} /\ pc'[d] = pc[d] => sockfd'[d] = sockfd[d]
<1>. ChatTypeOK /\ LocalsOK
  BY DEF ChatInv
<1>. USE DEF Member, Registered
<1>1. ASSUME NEW c \in Conns,
             \/ \E addr \in IPs : Accept(c, addr)
             \/ AcceptFails(c) \/ Close(c)
      PROVE  \/ Untouched(d)
             \/ /\ pc[d] = "new" /\ username[d] = None
                /\ username'[d] = username[d] /\ pc'[d] # "new"
             \/ /\ pc[d] = "close" /\ pc'[d] = "done"
                /\ username'[d] = username[d] /\ sockfd'[d] = None
  BY <1>1 DEF Accept, AcceptFails, Close, Goto, session_vars, Untouched,
              ChatTypeOK, LocalsOK
<1>2. ASSUME NEW c \in Conns, NEW r \in Requests,
             \/ RejectUnregistered(c, r) \/ RegisterFails(c, r)
             \/ Register(c, r) \/ ReceiveCommand(c, r)
      PROVE  \/ pc'[d] = pc[d] /\ sockfd'[d] = sockfd[d] /\ username'[d] = username[d]
             \/ /\ pc[d] = "recv" /\ pc'[d] \in {"send", "dispatch"}
                /\ sockfd'[d] = sockfd[d]
                /\ Registered(d) => username'[d] = username[d]
  BY <1>2 DEF RejectUnregistered, RegisterFails, Register, ReceiveCommand,
              Receive, Goto, ChatTypeOK
<1>3. ASSUME NEW c \in Conns,
             \/ Broadcast(c) \/ Direct(c) \/ List(c) \/ Info(c) \/ SetStatus(c)
             \/ Logout(c) \/ Unsupported(c)
             \/ RecvFails(c) \/ Remove(c) \/ broadcast_disconnected(c)
             \/ ClientClose(c) \/ Reply(c) \/ \E i \in Slots : FanOut(c, i)
      PROVE  /\ sockfd' = sockfd /\ username' = username
             /\ \/ pc'[d] = pc[d]
                \/ /\ pc[d] \in {"recv", "dispatch", "send", "logout"}
                   /\ pc'[d] \in {"recv", "dispatch", "send", "logout", "remove"}
                \/ pc[d] = "recv" /\ ~ Registered(d) /\ pc'[d] = "close"
                \/ pc[d] \in {"remove", "announce"} /\ pc'[d] \in {"announce", "close"}
  BY <1>3 DEF Broadcast, Direct, List, Info, SetStatus, Logout, Unsupported,
              Dispatch, RecvFails, Remove, broadcast_disconnected, ClientClose,
              Reply, FanOut, session_vars, Goto, ChatTypeOK
<1>4. CASE \/ WdReadClock \/ WdMark \/ WdSleep \/ ClockTicks
           \/ \E i \in Slots : WdSend(i)
           \/ UNCHANGED vars
  BY <1>4 DEF WdReadClock, WdMark, WdSleep, ClockTicks, WdSend, vars, session_vars
<1>. QED
  BY <1>1, <1>2, <1>3, <1>4 DEF Next, Quiet, Sends, SessionQuiet, Incoming, Untouched

-----------------------------------------------------------------------------
(* A session that does not move is not disturbed by the others.            *)

Unmoved(c) ==
  /\ pc'[c] = pc[c] /\ todo'[c] = todo[c] /\ nreq'[c] = nreq[c]
  /\ username'[c] = username[c] /\ owed'[c] = owed[c]

\* At most packets of sessions other than c are written, to descriptors in use.
OthersWrite(c) ==
  \A d \in Conns : \/ seen'[d] = seen[d]
                   \/ \E e : e.by # c /\ Grows(d, e) /\ sockfd[d] # None

\* What such a session has to send, and who has it already, stays true.
LEMMA OthersStay ==
  ASSUME ChatInv, [Next]_vars, FreshOK, NEW c \in Conns,
         WorkOK(c), HistoryOK(c), OwedOK(c), ToAll(c) => SpreadOK(c),
         Unmoved(c), OthersWrite(c)
  PROVE  /\ WorkOK(c)' /\ HistoryOK(c)' /\ OwedOK(c)'
         /\ ToAll(c)' => SpreadOK(c)'
<1>1. ASSUME NEW d \in Conns, NEW k \in DOMAIN seen'[d], seen'[d][k].by = c
      PROVE  k \in DOMAIN seen[d] /\ seen'[d][k] = seen[d][k]
  BY <1>1 DEF OthersWrite, Grows
<1>2. ASSUME NEW d \in Conns, NEW k \in DOMAIN seen[d]
      PROVE  k \in DOMAIN seen'[d] /\ seen'[d][k] = seen[d][k]
  BY <1>2 DEF OthersWrite, Grows
<1>3. WorkOK(c)'
  BY DEF WorkOK, Unmoved, Pending, Says, Text, make_packet
<1>4. HistoryOK(c)'
  BY <1>1 DEF HistoryOK, Unmoved
<1>5. OwedOK(c)'
  BY Life DEF OwedOK, Unmoved
<1>6. ASSUME ToAll(c)' PROVE SpreadOK(c)'
  <2>1. ToAll(c) /\ SpreadOK(c)
    BY <1>6 DEF ToAll, Unmoved
  <2>2. \A d \in Conns : Copies(d, c)' = Copies(d, c)
    BY <1>1, <1>2 DEF Copies, Unmoved
  <2>3. sockfd'[c] = sockfd[c]
    BY <2>1, Life DEF ToAll, Unmoved
  <2>4. \A i, j \in Pending(c)' : todo'[c].to[i] = todo'[c].to[j] => i = j
    BY <2>1 DEF SpreadOK, Unmoved, Pending
  <2>5. ~ Awaits(c, c)'
    BY <2>1, <2>3 DEF SpreadOK, Unmoved, Awaits
  <2>6. ASSUME NEW d \in Conns, Awaits(d, c)' PROVE Copies(d, c)' = {}
    <3>1. CASE pc[d] = "new"
      BY <2>2, <3>1 DEF FreshOK, Copies
    <3>2. CASE pc[d] # "new"
      <4>1. Awaits(d, c)
        BY <2>6, <3>2, Life DEF Awaits, Unmoved
      <4>. QED BY <2>1, <2>2, <4>1 DEF SpreadOK
    <3>. QED BY <3>1, <3>2
  <2>7. ASSUME NEW d \in owed'[c], Member(d)', Copies(d, c)' = {} PROVE Awaits(d, c)'
    <3>1. d \in owed[c] /\ d \in Conns /\ Registered(d)
      BY <2>7 DEF OwedOK, Unmoved
    <3>2. Member(d) /\ sockfd'[d] = sockfd[d]
      BY <2>7, <3>1, Life
    <3>3. Awaits(d, c)
      BY <2>1, <2>2, <2>7, <3>1, <3>2 DEF SpreadOK
    <3>. QED BY <3>2, <3>3 DEF Awaits, Unmoved
  <2>. QED BY <2>1, <2>2, <2>4, <2>5, <2>6, <2>7 DEF SpreadOK
<1>. QED BY <1>3, <1>4, <1>5, <1>6

\* A connection that was not accepted yet has seen nothing.
LEMMA FreshStays ==
  ASSUME ChatInv, [Next]_vars, FreshOK,
         \A d \in Conns : seen'[d] = seen[d] \/ sockfd[d] # None
  PROVE  FreshOK'
<1>1. LocalsOK
  BY DEF ChatInv
<1>. QED BY <1>1, Life DEF FreshOK, LocalsOK

-----------------------------------------------------------------------------
(* The moves of a session that write nothing.                              *)

\* What a session has to send after each of its own moves.
LEMMA OwnWork ==
  ASSUME ChatInv, NEW c \in Conns, WorkOK(c), SessionQuiet(c) \/ Incoming(c)
  PROVE  WorkOK(c)'
<1>. ChatTypeOK /\ CMTypeOK /\ LocalsOK
  BY DEF ChatInv, CMInv
<1>. USE DEF Replies, WorkOK
<1>1. \A p : Pending(c)' = {} <=> \A i \in Slots : todo'[c].to[i] = None
  BY DEF Pending
<1>2. ASSUME NEW l \in {"send", "logout"}, NEW p, p.command \in Replies,
             pc'[c] = l, todo'[c] = Answer(p)
      PROVE  WorkOK(c)'
  BY <1>2 DEF Answer, Work, NoSocks, Pending
<1>3. ASSUME NEW l \in {"recv", "dispatch", "done"}, pc'[c] = l,
             todo'[c].out = None, Pending(c)' = {}
      PROVE  WorkOK(c)'
  BY <1>3
<1>4. CASE \E addr \in IPs : Accept(c, addr)
  BY <1>3, <1>4 DEF Accept, Goto, ChatTypeOK, Pending
<1>5. CASE AcceptFails(c)
  BY <1>3, <1>5 DEF AcceptFails, Goto, ChatTypeOK, Pending
<1>6. ASSUME NEW r \in Requests,
             RejectUnregistered(c, r) \/ RegisterFails(c, r) \/ Register(c, r)
      PROVE  WorkOK(c)'
  <2>1. \E p : p.command \in Replies /\ pc'[c] = "send" /\ todo'[c] = Answer(p)
    BY <1>6 DEF RejectUnregistered, RegisterFails, Register, Goto, ChatTypeOK,
                send_ok, send_error, make_packet
  <2>. QED BY <1>2, <2>1
<1>7. ASSUME NEW r \in Requests, ReceiveCommand(c, r) PROVE WorkOK(c)'
  BY <1>3, <1>7 DEF ReceiveCommand, Receive, Goto, ChatTypeOK, Pending
<1>8. CASE List(c) \/ Info(c) \/ SetStatus(c) \/ Logout(c) \/ Unsupported(c)
  <2>1. ASSUME NEW commands, NEW l \in {"send", "logout"}, NEW p,
               p.command \in Replies, Dispatch(c, commands, l, Answer(p))
        PROVE  WorkOK(c)'
    BY <1>2, <2>1 DEF Dispatch, Goto, ChatTypeOK
  <2>2. CASE List(c)
    <3>. DEFINE p == IF ListLength >= PAYLOAD_SIZE
                       THEN send_error(username[c], <<"No se pudo construir lista">>)
                       ELSE make_packet("USER_LIST", "SERVER", username[c], UserList)
    <3>1. p.command \in Replies
      BY DEF send_error, make_packet
    <3>2. Dispatch(c, {"LIST"}, "send", Answer(p))
      BY <2>2 DEF List
    <3>. HIDE DEF p
    <3>. QED BY <2>1, <3>1, <3>2
  <2>3. CASE Info(c)
    <3>. DEFINE i == CHOOSE j \in Slots : First(j, NamedSlots(req[c].arg))
                p == IF NamedSlots(req[c].arg) = {}
                       THEN send_error(username[c], <<"Usuario no conectado">>)
                       ELSE make_packet("USER_INFO", "SERVER", username[c],
                                        <<g_clients[i].ip, g_clients[i].status>>)
    <3>1. p.command \in Replies
      BY DEF send_error, make_packet
    <3>2. Dispatch(c, {"INFO"}, "send", Answer(p))
      BY <2>3 DEF Info
    <3>. HIDE DEF p
    <3>. QED BY <2>1, <3>1, <3>2
  <2>4. CASE SetStatus(c)
    <3>. DEFINE st == req[c].arg
                p == IF st \in Status /\ NamedSlots(username[c]) # {}
                       THEN send_ok(username[c], <<st>>)
                       ELSE send_error(username[c], <<"Status invalido">>)
    <3>1. p.command \in Replies
      BY DEF send_ok, send_error, make_packet
    <3>2. Dispatch(c, {"STATUS"}, "send", Answer(p))
      BY <2>4 DEF SetStatus
    <3>. HIDE DEF p
    <3>. QED BY <2>1, <3>1, <3>2
  <2>5. CASE Logout(c)
    <3>. DEFINE p == send_ok(username[c], <<"Logout exitoso">>)
    <3>1. p.command \in Replies
      BY DEF send_ok, make_packet
    <3>2. Dispatch(c, {"LOGOUT"}, "logout", Answer(p))
      BY <2>5 DEF Logout
    <3>. HIDE DEF p
    <3>. QED BY <2>1, <3>1, <3>2
  <2>6. CASE Unsupported(c)
    <3>. DEFINE p == send_error(username[c], <<"Comando no soportado">>)
    <3>1. p.command \in Replies
      BY DEF send_error, make_packet
    <3>2. Dispatch(c, {"REGISTER", "OTHER"}, "send", Answer(p))
      BY <2>6 DEF Unsupported
    <3>. HIDE DEF p
    <3>. QED BY <2>1, <3>1, <3>2
  <2>. QED BY <1>8, <2>2, <2>3, <2>4, <2>5, <2>6
<1>9. ASSUME NEW to, NEW n \in Names \cup {"ALL"}, NEW text, pc'[c] = "send",
             todo'[c] = Work(to, make_packet("MSG", username[c], n, Text(c)),
                             send_ok(username[c], text)),
             UNCHANGED <<username, nreq>>
      PROVE  WorkOK(c)'
  BY <1>9 DEF Says, Text, Work, send_ok, make_packet
<1>10. CASE Broadcast(c)
  BY <1>9, <1>10 DEF Broadcast, Dispatch, Goto, ChatTypeOK, session_vars
<1>11. CASE Direct(c)
  <2>1. CASE NamedSlots(req[c].arg) = {}
    <3>1. \E p : p.command \in Replies /\ pc'[c] = "send" /\ todo'[c] = Answer(p)
      BY <1>11, <2>1 DEF Direct, Dispatch, Goto, ChatTypeOK, send_error, make_packet
    <3>. QED BY <1>2, <3>1
  <2>2. CASE NamedSlots(req[c].arg) # {}
    <3>1. req[c].arg \in Names
      BY <2>2, ActiveIsClient DEF NamedSlots, ActiveSlots, Client
    <3>2. /\ pc'[c] = "send" /\ UNCHANGED <<username, nreq>>
          /\ todo'[c] = Work(cm_get_socket_by_username(req[c].arg),
                             make_packet("MSG", username[c], req[c].arg, Text(c)),
                             send_ok(username[c], <<"Mensaje directo enviado">>))
      BY <1>11, <2>2 DEF Direct, Dispatch, Goto, ChatTypeOK, session_vars
    <3>. QED BY <1>9, <3>1, <3>2
  <2>. QED BY <2>1, <2>2
<1>12. CASE RecvFails(c)
  BY <1>12 DEF RecvFails, Goto, ChatTypeOK, Pending
<1>13. CASE Remove(c)
  <2>1. ASSUME NEW i \in Slots, First(i, SockSlots(sockfd[c]))
        PROVE  g_clients[i].username \in Names
    BY <2>1, ActiveIsClient DEF First, SockSlots, ActiveSlots, Client
  <2>2. pc[c] = "remove"
    BY <1>13 DEF Remove
  <2>3. CASE pc'[c] = "close" /\ todo' = todo
    BY <2>2, <2>3 DEF Pending
  <2>4. ASSUME NEW i \in Slots, First(i, SockSlots(sockfd[c])), pc'[c] = "announce",
               todo' = [todo EXCEPT ![c].out =
                          make_packet("DISCONNECTED", "SERVER", "ALL",
                                      <<g_clients[i].username>>)]
        PROVE  WorkOK(c)'
    <3>1. todo'[c].to = todo[c].to /\ todo'[c].out \in Goodbyes
      BY <2>1, <2>4 DEF ChatTypeOK, Goodbyes
    <3>. QED BY <2>2, <2>4, <3>1 DEF Pending
  <2>. QED BY <1>13, <2>3, <2>4 DEF Remove, Goto, ChatTypeOK
<1>14. CASE broadcast_disconnected(c)
  BY <1>14 DEF broadcast_disconnected, Goto, ChatTypeOK
<1>15. CASE Close(c)
  BY <1>3, <1>15 DEF Close, Goto, ChatTypeOK, Nothing, Work, NoSocks, Pending
<1>16. CASE ClientClose(c)
  BY <1>16 DEF ClientClose, session_vars, Pending, Says, Text, make_packet
<1>. QED
  BY <1>4, <1>5, <1>6, <1>7, <1>8, <1>10, <1>11, <1>12, <1>13, <1>14, <1>15,
     <1>16 DEF SessionQuiet, Incoming

\* A step that writes nothing to a socket.
QuietStep ==
  /\ server_up /\ Quiet
  /\ owed' = [c \in Conns |->
       IF Begins(c) THEN {d \in Conns \ {c} : Member(d)} ELSE owed[c]]
  /\ UNCHANGED seen

\* It moves one session at most.
LEMMA QuietMoves ==
  ASSUME ChatInv, QuietStep, NEW c \in Conns, ~ Unmoved(c)
  PROVE  SessionQuiet(c) \/ Incoming(c)
<1>. ChatTypeOK
  BY DEF ChatInv
<1>0. SUFFICES ASSUME ~ SessionQuiet(c) /\ ~ Incoming(c) PROVE Unmoved(c)
  OBVIOUS
<1>. USE DEF ChatTypeOK, Goto, session_vars
<1>1. ASSUME pc'[c] = pc[c] /\ todo'[c] = todo[c] /\ nreq'[c] = nreq[c]
             /\ username'[c] = username[c]
      PROVE  Unmoved(c)
  BY <1>1 DEF Unmoved, QuietStep, Begins
<1>2. ASSUME NEW a \in Conns \ {c}, SessionQuiet(a) PROVE Unmoved(c)
  BY <1>1, <1>2 DEF SessionQuiet, Broadcast, Direct, List, Info, SetStatus, Logout,
       Unsupported, Dispatch, RecvFails, Remove, broadcast_disconnected, Close
<1>3. ASSUME NEW a \in Conns \ {c}, Incoming(a) PROVE Unmoved(c)
  BY <1>1, <1>3 DEF Incoming, Accept, AcceptFails, RejectUnregistered,
       RegisterFails, Register, ReceiveCommand, Receive, ClientClose
<1>4. CASE WdReadClock \/ WdMark \/ WdSleep \/ ClockTicks
  BY <1>1, <1>4 DEF WdReadClock, WdMark, WdSleep, ClockTicks
<1>. QED BY <1>0, <1>2, <1>3, <1>4 DEF QuietStep, Quiet

\* Its own moves do not make a session forget what it has sent.
LEMMA OwnHistory ==
  ASSUME ChatInv, NEW c \in Conns, HistoryOK(c), UNCHANGED seen,
         SessionQuiet(c) \/ Incoming(c)
  PROVE  HistoryOK(c)'
<1>. ChatTypeOK
  BY DEF ChatInv
<1>1. /\ nreq[c] \in Nat /\ nreq'[c] \in {nreq[c], nreq[c] + 1}
      /\ pc'[c] = "dispatch" => \/ nreq'[c] = nreq[c] + 1
                                \/ nreq'[c] = nreq[c] /\ pc[c] = "dispatch"
      /\ pc[c] \in {"close", "done"} => pc'[c] \in {"close", "done"}
  <2>. nreq[c] \in Nat
    BY ServerAssumption DEF ChatTypeOK
  <2>. USE DEF ChatTypeOK, Goto, session_vars
  <2>1. ASSUME SessionQuiet(c)
        PROVE  /\ nreq'[c] = nreq[c] /\ pc'[c] # "dispatch"
               /\ pc[c] \in {"close", "done"} => pc'[c] \in {"close", "done"}
    BY <2>1 DEF SessionQuiet, Broadcast, Direct, List, Info, SetStatus, Logout,
       Unsupported, Dispatch, RecvFails, Remove, broadcast_disconnected, Close
  <2>2. CASE Incoming(c)
    BY <2>2 DEF Incoming, Accept, AcceptFails, RejectUnregistered,
       RegisterFails, Register, ReceiveCommand, Receive, ClientClose
  <2>. QED BY <2>1, <2>2
<1>. QED BY <1>1 DEF HistoryOK

\* Who is owed a packet is registered, and stays so.
LEMMA OwnOwed ==
  ASSUME ChatInv, QuietStep, [Next]_vars, NEW c \in Conns, OwedOK(c)
  PROVE  OwedOK(c)'
<1>1. /\ owed'[c] \subseteq Conns \ {c}
      /\ \A d \in owed'[c] : Registered(d)
  BY DEF QuietStep, OwedOK, Member
<1>. QED BY <1>1, Life DEF OwedOK

\* A session that has just looked up everybody's sockets has everybody left
\* to write to, and itself not.
LEMMA LookUp ==
  ASSUME ChatInv, [Next]_vars, NEW c \in Conns, sockfd' = sockfd,
         sockfd[c] # None,
         todo'[c].to = cm_get_sockets_except(sockfd[c]),
         \A d \in Conns : Copies(d, c)' = {},
         owed'[c] \subseteq Conns \ {c}, \A d \in owed'[c] : Registered(d)
  PROVE  SpreadOK(c)'
<1>. ChatTypeOK /\ CMTypeOK /\ UniqueSocks /\ SlotsMatchSessions
  BY DEF ChatInv, CMInv
<1>1. \A i \in Slots :
        todo'[c].to[i] = IF i \in ActiveSlots /\ g_clients[i].sockfd # sockfd[c]
                           THEN g_clients[i].sockfd ELSE None
  BY DEF cm_get_sockets_except
<1>2. \A i, j \in Pending(c)' : todo'[c].to[i] = todo'[c].to[j] => i = j
  BY <1>1 DEF Pending, UniqueSocks
<1>3. ~ Awaits(c, c)'
  BY <1>1 DEF Awaits
<1>4. ASSUME NEW d \in owed'[c], Member(d)' PROVE Awaits(d, c)'
  <2>1. d \in Conns \ {c} /\ Member(d)
    BY <1>4, Life
  <2>2. PICK i \in Slots : Listed(d, i)
    BY <2>1 DEF SlotsMatchSessions
  <2>3. g_clients[i].sockfd \in Socks
    BY <2>2, ActiveIsClient DEF Listed, Client
  <2>4. sockfd[d] # sockfd[c] /\ sockfd[d] # None
    BY <2>1, <2>2, <2>3, SocksAssumption DEF SlotsMatchSessions, Listed
  <2>. QED BY <1>1, <2>2, <2>4 DEF Listed, Awaits, ActiveSlots
<1>. QED BY <1>2, <1>3, <1>4 DEF SpreadOK

\* The moves of a session that begin no sending to everybody.
LEMMA NotToAll ==
  ASSUME ChatInv, "ALL" \notin Names, NEW c \in Conns, WorkOK(c),
         \/ Direct(c) \/ List(c) \/ Info(c) \/ SetStatus(c)
         \/ Logout(c) \/ Unsupported(c)
         \/ RecvFails(c) \/ Remove(c) \/ Close(c)
         \/ \E addr \in IPs : Accept(c, addr)
         \/ AcceptFails(c)
         \/ \E r \in Requests :
              \/ RejectUnregistered(c, r) \/ RegisterFails(c, r) \/ Register(c, r)
              \/ ReceiveCommand(c, r)
  PROVE  ~ ToAll(c)'
<1>. ChatTypeOK /\ CMTypeOK
  BY DEF ChatInv, CMInv
<1>. USE DEF ToAll, Goto, ChatTypeOK
<1>1. CASE List(c) \/ Info(c) \/ SetStatus(c) \/ Logout(c) \/ Unsupported(c)
  <2>1. \E commands, reply : \E l \in {"send", "logout"} :
          Dispatch(c, commands, l, Answer(reply))
    BY <1>1 DEF List, Info, SetStatus, Logout, Unsupported
  <2>. QED BY <2>1 DEF Dispatch, Answer, Work
<1>2. CASE \E r \in Requests :
              RejectUnregistered(c, r) \/ RegisterFails(c, r) \/ Register(c, r)
  <2>1. \E reply : todo'[c] = Answer(reply)
    BY <1>2 DEF RejectUnregistered, RegisterFails, Register
  <2>. QED BY <2>1 DEF Answer, Work
<1>3. CASE Direct(c)
  <2>1. CASE NamedSlots(req[c].arg) = {}
    <3>1. \E reply : todo'[c] = Answer(reply)
      BY <1>3, <2>1 DEF Direct, Dispatch
    <3>. QED BY <3>1 DEF Answer, Work
  <2>2. CASE NamedSlots(req[c].arg) # {}
    <3>1. req[c].arg \in Names
      BY <2>2, ActiveIsClient DEF NamedSlots, ActiveSlots, Client
    <3>2. todo'[c].out.target = req[c].arg
      BY <1>3, <2>2 DEF Direct, Dispatch, Work, make_packet
    <3>. QED BY <3>1, <3>2
  <2>. QED BY <2>1, <2>2
<1>4. CASE RecvFails(c) \/ Remove(c)
  <2>1. todo[c].out = None
    BY <1>4 DEF RecvFails, Remove, WorkOK
  <2>. QED BY <1>4, <2>1 DEF RecvFails, Remove
<1>5. CASE \/ Close(c) \/ AcceptFails(c) \/ \E addr \in IPs : Accept(c, addr)
           \/ \E r \in Requests : ReceiveCommand(c, r)
  BY <1>5 DEF Close, AcceptFails, Accept, ReceiveCommand
<1>. QED BY <1>1, <1>2, <1>3, <1>4, <1>5

\* The parts of a Work.
LEMMA WorkFields ==
  ASSUME NEW to, NEW out, NEW reply
  PROVE  Work(to, out, reply).to = to /\ Work(to, out, reply).out = out
BY DEF Work

\* A session that begins to send to everybody.
LEMMA OwnSpread ==
  ASSUME ChatInv, QuietStep, [Next]_vars, "ALL" \notin Names, NEW c \in Conns,
         WorkOK(c), HistoryOK(c), OwedOK(c), ~ Unmoved(c), ToAll(c)'
  PROVE  SpreadOK(c)'
<1>. ChatTypeOK /\ LocalsOK
  BY DEF ChatInv
<1>1. Broadcast(c) \/ broadcast_disconnected(c) \/ ClientClose(c)
  BY QuietMoves, NotToAll DEF SessionQuiet, Incoming
<1>2. /\ owed'[c] \subseteq Conns \ {c}
      /\ \A d \in owed'[c] : Registered(d)
  BY DEF QuietStep, OwedOK, Member
<1>3. pc[c] \in {"dispatch", "announce"} => sockfd[c] # None
  BY SocksAssumption DEF LocalsOK, Running, SessionPC
<1>4. CASE Broadcast(c)
  <2>1. /\ pc[c] = "dispatch" /\ sockfd' = sockfd /\ nreq' = nreq
        /\ todo'[c] = Work(cm_get_sockets_except(sockfd[c]),
                           make_packet("MSG", username[c], "ALL", Text(c)),
                           send_ok(username[c], <<"Broadcast enviado">>))
    BY <1>4 DEF Broadcast, Dispatch, session_vars, ChatTypeOK
  <2>2. /\ todo'[c].to = cm_get_sockets_except(sockfd[c])
        /\ todo'[c].out = make_packet("MSG", username[c], "ALL", Text(c))
    <3>. DEFINE to == cm_get_sockets_except(sockfd[c])
                out == make_packet("MSG", username[c], "ALL", Text(c))
                reply == send_ok(username[c], <<"Broadcast enviado">>)
    <3>1. todo'[c] = Work(to, out, reply)
      BY <2>1
    <3>. HIDE DEF to, out, reply
    <3>2. todo'[c].to = to /\ todo'[c].out = out
      BY <3>1, WorkFields
    <3>. QED BY <3>2 DEF to, out
  <2>3. todo'[c].out.command = "MSG" /\ todo'[c].out.payload = <<c, nreq[c]>>
    BY <2>2 DEF make_packet, Text
  <2>4. ASSUME NEW d \in Conns PROVE Copies(d, c)' = {}
    <3>1. SUFFICES ASSUME NEW k \in DOMAIN seen[d], seen[d][k].by = c,
                          seen[d][k].command = "MSG",
                          seen[d][k].payload = <<c, nreq[c]>>
                   PROVE  FALSE
      BY <2>3 DEF QuietStep, Copies
    <3>2. PICK m \in 0 .. nreq[c] : seen[d][k].payload = <<c, m>> /\ m < nreq[c]
      BY <2>1, <3>1 DEF HistoryOK
    <3>. QED BY <3>1, <3>2
  <2>. QED BY <1>2, <1>3, <2>1, <2>2, <2>4, LookUp
<1>5. CASE broadcast_disconnected(c)
  <2>1. /\ pc[c] = "announce" /\ sockfd' = sockfd
        /\ todo'[c].to = cm_get_sockets_except(sockfd[c])
        /\ todo'[c].out = todo[c].out
    BY <1>5 DEF broadcast_disconnected, session_vars, ChatTypeOK
  <2>2. todo'[c].out.command = "DISCONNECTED"
    BY <2>1 DEF ToAll, WorkOK, Goodbyes, make_packet
  <2>3. \A d \in Conns : Copies(d, c)' = {}
    BY <2>1, <2>2 DEF QuietStep, Copies, HistoryOK
  <2>. QED BY <1>2, <1>3, <2>1, <2>2, <2>3, LookUp
<1>6. CASE ClientClose(c)
  BY <1>6 DEF ClientClose, session_vars, QuietStep, Begins, Unmoved, ChatTypeOK
<1>. QED BY <1>1, <1>4, <1>5, <1>6

-----------------------------------------------------------------------------
(* The moves of a session that write.                                      *)

\* One iteration of the loop: the owner of the descriptor gets its first and
\* only copy, and nobody's second one remains to be sent.
LEMMA FanOutKeeps ==
  ASSUME ChatInv, SeenType, {"MSG", "DISCONNECTED"} \subseteq Traced,
         NEW c \in Conns, NEW i \in Slots, server_up', FanOut(c, i),
         [Next]_vars,
         Deliver(todo[c].to[i], todo[c].out, c), UNCHANGED owed,
         WorkOK(c), HistoryOK(c), OwedOK(c), ToAll(c) => SpreadOK(c)
  PROVE  /\ WorkOK(c)' /\ HistoryOK(c)' /\ OwedOK(c)'
         /\ ToAll(c)' => SpreadOK(c)'
<1>. DEFINE s == todo[c].to[i]
            e == Event(todo[c].out, c)
<1>. ChatTypeOK
  BY DEF ChatInv
<1>1. /\ pc[c] \in {"send", "close"} /\ pc' = pc /\ sockfd' = sockfd
      /\ nreq' = nreq /\ username' = username /\ s # None /\ s \in Socks
      /\ todo'[c].out = todo[c].out /\ todo'[c].reply = todo[c].reply
      /\ todo'[c].to[i] = None
      /\ \A j \in Slots \ {i} : todo'[c].to[j] = todo[c].to[j]
  BY DEF FanOut, First, Pending, session_vars, ChatTypeOK
<1>2. WorkOK(c)'
  <2>1. Pending(c)' \subseteq Pending(c)
    BY <1>1 DEF Pending
  <2>. QED BY <1>1, <2>1 DEF WorkOK, Says, Text, make_packet
<1>3. OwedOK(c)'
  BY <1>1 DEF OwedOK, Registered
<1>4. \A d \in Conns : \/ seen'[d] = seen[d]
                       \/ d \in Owners(s) /\ Grows(d, e)
  <2>. HIDE DEF s, e
  <2>. QED BY DeliverSeen DEF s, e
<1>5. \/ /\ pc[c] = "send" /\ todo[c].out.command = "MSG"
         /\ todo[c].out.payload = <<c, nreq[c]>>
      \/ pc[c] = "close" /\ todo[c].out.command = "DISCONNECTED"
  <2>1. i \in Pending(c)
    BY DEF FanOut, First
  <2>2. CASE pc[c] = "send"
    <3>1. PICK n \in Names \cup {"ALL"} : todo[c].out = Says(c, n)
      BY <2>1, <2>2 DEF WorkOK
    <3>. QED BY <2>2, <3>1 DEF Says, Text, make_packet
  <2>3. CASE pc[c] = "close"
    BY <2>1, <2>3 DEF WorkOK, Goodbyes, make_packet
  <2>. QED BY <1>1, <2>2, <2>3
<1>6. /\ e.by = c /\ e.command = todo[c].out.command
      /\ e.payload = todo[c].out.payload
  BY DEF Event
<1>7. HistoryOK(c)'
  <2>1. ASSUME NEW d \in Conns, NEW k \in DOMAIN seen'[d], seen'[d][k].by = c,
               ~ (k \in DOMAIN seen[d] /\ seen'[d][k] = seen[d][k])
        PROVE  seen'[d][k] = e
    <3>. HIDE DEF e
    <3>. QED BY <1>4, <2>1 DEF Grows
  <2>2. nreq[c] \in Nat
    BY ServerAssumption DEF ChatTypeOK
  <2>3. /\ e.command = "MSG" => /\ nreq[c] \in 0 .. nreq[c] /\ pc[c] # "dispatch"
                                /\ e.payload = <<c, nreq[c]>>
        /\ e.command = "DISCONNECTED" => pc[c] = "close"
    <3>. HIDE DEF e
    <3>. QED BY <1>5, <1>6, <2>2
  <2>. HIDE DEF e
  <2>. QED BY <1>1, <2>1, <2>3 DEF HistoryOK
<1>8. ASSUME ToAll(c)' PROVE SpreadOK(c)'
  <2>1. ToAll(c) /\ SpreadOK(c)
    BY <1>1, <1>8 DEF ToAll
  <2>2. \A d \in Owners(s) : Grows(d, e)
    <3>1. todo[c].out.command \in Traced
      BY <1>5
    <3>. HIDE DEF s, e
    <3>. QED BY <3>1, DeliverSeen DEF s, e
  <2>3. \A d \in Conns : d \in Owners(s) <=> sockfd[d] = s
    BY <1>1 DEF Owners
  <2>4. i \in Pending(c) /\ Pending(c)' = Pending(c) \ {i}
    BY <1>1 DEF Pending
  <2>5. \A d \in Conns : Awaits(d, c)' => Awaits(d, c) /\ d \notin Owners(s)
    BY <1>1, <2>1, <2>3, <2>4 DEF Awaits, SpreadOK, Pending
  <2>6. \A d \in Conns \ Owners(s) : Copies(d, c)' = Copies(d, c)
    BY <1>1, <1>4 DEF Copies
  <2>7. ASSUME NEW d \in Owners(s)
        PROVE  d \in Conns \ {c} /\ \E n : Copies(d, c)' = {n}
    <3>1. d \in Conns /\ Awaits(d, c)
      BY <1>1, <2>3, <2>4 DEF Awaits, Owners
    <3>2. d # c /\ Copies(d, c) = {}
      BY <2>1, <3>1 DEF SpreadOK
    <3>3. PICK n : /\ n \notin DOMAIN seen[d]
                   /\ DOMAIN seen'[d] = DOMAIN seen[d] \cup {n}
                   /\ seen'[d][n] = e
                   /\ \A k \in DOMAIN seen[d] : seen'[d][k] = seen[d][k]
      BY <2>2 DEF Grows
    <3>4. Copies(d, c)' = {n}
      <4>. HIDE DEF e
      <4>. QED BY <1>1, <1>6, <3>2, <3>3 DEF Copies
    <3>. QED BY <3>1, <3>2, <3>4
  <2>8. c \notin Owners(s) /\ Copies(c, c)' = {} /\ ~ Awaits(c, c)'
    BY <2>1, <2>5, <2>6, <2>7 DEF SpreadOK
  <2>9. \A d \in Conns : \A k, l \in Copies(d, c)' : k = l
    BY <2>1, <2>6, <2>7 DEF SpreadOK
  <2>10. \A d \in Conns : Awaits(d, c)' => Copies(d, c)' = {}
    BY <2>1, <2>5, <2>6 DEF SpreadOK
  <2>11. ASSUME NEW d \in owed'[c], Member(d)', Copies(d, c)' = {} PROVE Awaits(d, c)'
    <3>1. d \in Conns /\ d \in owed[c] /\ Member(d) /\ d \notin Owners(s)
      BY <1>1, <2>7, <2>11 DEF OwedOK, Member, Registered
    <3>2. Awaits(d, c)
      BY <2>1, <2>6, <2>11, <3>1 DEF SpreadOK
    <3>. QED BY <1>1, <2>3, <3>1, <3>2 DEF Awaits
  <2>12. \A j, k \in Pending(c)' : todo'[c].to[j] = todo'[c].to[k] => j = k
    BY <1>1, <2>1, <2>4 DEF SpreadOK, Pending
  <2>. QED BY <2>8, <2>9, <2>10, <2>11, <2>12 DEF SpreadOK
<1>. QED BY <1>2, <1>3, <1>7, <1>8

\* The answer to a command is not mistaken for a message to everybody.
LEMMA ReplyKeeps ==
  ASSUME ChatInv, SeenType, NEW c \in Conns, Reply(c), [Next]_vars,
         Deliver(sockfd[c], todo[c].reply, c), UNCHANGED owed,
         WorkOK(c), HistoryOK(c), OwedOK(c)
  PROVE  /\ WorkOK(c)' /\ HistoryOK(c)' /\ OwedOK(c)'
         /\ ~ ToAll(c)'
<1>. DEFINE e == Event(todo[c].reply, c)
<1>. ChatTypeOK
  BY DEF ChatInv
<1>1. /\ pc[c] \in {"send", "logout"} /\ pc'[c] \in {"recv", "remove"}
      /\ todo'[c] = Nothing /\ nreq' = nreq
  BY DEF Reply, Goto, ChatTypeOK
<1>2. WorkOK(c)'
  BY <1>1 DEF WorkOK, Nothing, Work, NoSocks, Pending
<1>3. OwedOK(c)'
  BY Life DEF OwedOK
<1>4. ~ ToAll(c)'
  BY <1>1 DEF ToAll
<1>5. \A d \in Conns : seen'[d] = seen[d] \/ Grows(d, e)
  <2>. HIDE DEF e
  <2>. QED BY DeliverSeen DEF e
<1>6. e.command \in Replies
  BY <1>1 DEF WorkOK, Event
<1>7. HistoryOK(c)'
  <2>1. ASSUME NEW d \in Conns, NEW k \in DOMAIN seen'[d], seen'[d][k].by = c,
               ~ (k \in DOMAIN seen[d] /\ seen'[d][k] = seen[d][k])
        PROVE  seen'[d][k] = e
    <3>. HIDE DEF e
    <3>. QED BY <1>5, <2>1 DEF Grows
  <2>. HIDE DEF e
  <2>. QED BY <1>1, <1>6, <2>1 DEF HistoryOK, Replies
<1>. QED BY <1>2, <1>3, <1>4, <1>7

\* A packet that another thread writes is not one of c's.
LEMMA NotMine ==
  ASSUME SeenType, NEW c \in Conns, NEW a, a # c, NEW s, NEW packet,
         Deliver(s, packet, a)
  PROVE  OthersWrite(c)
<1>. DEFINE e == Event(packet, a)
<1>1. e.by # c
  BY DEF Event
<1>. HIDE DEF e
<1>2. \A d \in Conns : \/ seen'[d] = seen[d]
                       \/ d \in Owners(s) /\ Grows(d, e)
  BY DeliverSeen DEF e
<1>. QED BY <1>1, <1>2 DEF OthersWrite, Owners

-----------------------------------------------------------------------------
(* The invariant.                                                          *)

DeliveryStrong == ChatInv /\ SeenType /\ DeliveryInv

\* The history variables only watch the server.
LEMMA DeliveryIsNext ==
  ASSUME [DeliveryNext]_delivery_vars
  PROVE  [Next]_vars
BY DEF DeliveryNext, delivery_vars, Next, Sends

\* Nobody has seen anything yet.
LEMMA DeliveryInitInv == DeliveryInit => DeliveryStrong
<1>1. SUFFICES ASSUME DeliveryInit PROVE DeliveryStrong
  OBVIOUS
<1>2. ChatInv
  BY <1>1, ChatInit DEF DeliveryInit
<1>3. SeenType
  <2>1. seen \in [Conns -> Seq({})]
    BY <1>1 DEF DeliveryInit
  <2>. QED BY <2>1 DEF SeenType
<1>4. DeliveryInv
  BY <1>1 DEF DeliveryInit, Init, DeliveryInv, FreshOK, WorkOK, HistoryOK, OwedOK,
              ToAll, Pending, Nothing, Work, NoSocks
<1>. QED BY <1>2, <1>3, <1>4 DEF DeliveryStrong

\* The inductive step: the session that moves, the sessions that do not.
LEMMA DeliveryStep ==
  ASSUME "ALL" \notin Names, {"MSG", "DISCONNECTED"} \subseteq Traced,
         DeliveryStrong, [DeliveryNext]_delivery_vars
  PROVE  DeliveryStrong'
<1>. DEFINE Good(c) == /\ WorkOK(c) /\ HistoryOK(c) /\ OwedOK(c)
                       /\ ToAll(c) => SpreadOK(c)
<1>. ChatInv /\ SeenType /\ DeliveryInv /\ [Next]_vars
  BY DeliveryIsNext DEF DeliveryStrong
<1>1. ChatInv'
  BY ChatNext
<1>. ChatTypeOK
  BY DEF ChatInv
<1>2. CASE UNCHANGED delivery_vars
  <2>1. \A d \in Conns : OthersWrite(d) /\ Unmoved(d)
    BY <1>2 DEF delivery_vars, vars, session_vars, OthersWrite, Unmoved
  <2>2. SeenType' /\ server_up' = server_up
    BY <1>2 DEF delivery_vars, vars, SeenType
  <2>3. FreshOK => FreshOK'
    BY <1>2, FreshStays DEF delivery_vars
  <2>. QED BY <1>1, <2>1, <2>2, <2>3, OthersStay DEF DeliveryInv, DeliveryStrong
<1>3. ASSUME DeliveryNext PROVE FreshOK /\ \A c \in Conns : Good(c)
  BY <1>3 DEF DeliveryNext, DeliveryInv
<1>4. ASSUME DeliveryNext, NEW c \in Conns, OthersWrite(c), Unmoved(c)
      PROVE  Good(c)'
  BY <1>3, <1>4, OthersStay
<1>5. CASE QuietStep
  <2>0. DeliveryNext
    BY <1>5 DEF QuietStep, DeliveryNext
  <2>1. SeenType' /\ FreshOK'
    BY <1>3, <1>5, <2>0, FreshStays DEF QuietStep, SeenType
  <2>2. ASSUME NEW c \in Conns PROVE Good(c)'
    <3>1. CASE Unmoved(c)
      BY <1>4, <1>5, <2>0, <3>1 DEF QuietStep, OthersWrite
    <3>2. CASE ~ Unmoved(c)
      <4>1. SessionQuiet(c) \/ Incoming(c)
        BY <1>5, <3>2, QuietMoves
      <4>2. WorkOK(c) /\ HistoryOK(c) /\ OwedOK(c)
        BY <1>3, <2>0
      <4>3. WorkOK(c)'
        BY <4>1, <4>2, OwnWork
      <4>4. HistoryOK(c)'
        BY <1>5, <4>1, <4>2, OwnHistory DEF QuietStep
      <4>5. OwedOK(c)'
        BY <1>5, <4>2, OwnOwed
      <4>6. ToAll(c)' => SpreadOK(c)'
        BY <1>5, <3>2, <4>2, OwnSpread
      <4>. QED BY <4>3, <4>4, <4>5, <4>6
    <3>. QED BY <3>1, <3>2
  <2>. QED BY <1>1, <2>1, <2>2 DEF DeliveryInv, DeliveryStrong
<1>6. ASSUME DeliveryNext, NEW a, NEW s, NEW packet, Deliver(s, packet, a),
             UNCHANGED owed,
             \A c \in Conns \ {a} : Unmoved(c),
             server_up' /\ a \in Conns => Good(a)'
      PROVE  DeliveryStrong'
  <2>1. SeenType'
    BY <1>6, DeliverSeen
  <2>2. FreshOK'
    <3>1. \A d \in Conns : seen'[d] = seen[d] \/ sockfd[d] # None
      BY <1>6 DEF Deliver, Owners
    <3>. QED BY <1>3, <1>6, <3>1, FreshStays
  <2>3. ASSUME NEW c \in Conns \ {a} PROVE Good(c)'
    BY <1>4, <1>6, NotMine
  <2>. QED BY <1>1, <1>6, <2>1, <2>2, <2>3 DEF DeliveryInv, DeliveryStrong
<1>7. ASSUME NEW c \in Conns, NEW i \in Slots, server_up, FanOut(c, i),
             Deliver(todo[c].to[i], todo[c].out, c), UNCHANGED owed
      PROVE  DeliveryStrong'
  <2>1. DeliveryNext
    BY <1>7 DEF DeliveryNext
  <2>2. \A d \in Conns \ {c} : Unmoved(d)
    BY <1>7 DEF FanOut, session_vars, Unmoved, ChatTypeOK
  <2>3. server_up' => Good(c)'
    BY <1>3, <1>7, <2>1, FanOutKeeps
  <2>. QED BY <1>6, <1>7, <2>1, <2>2, <2>3
<1>8. ASSUME NEW c \in Conns, server_up, Reply(c),
             Deliver(sockfd[c], todo[c].reply, c), UNCHANGED owed
      PROVE  DeliveryStrong'
  <2>1. DeliveryNext
    BY <1>8 DEF DeliveryNext
  <2>2. \A d \in Conns \ {c} : Unmoved(d)
    BY <1>8 DEF Reply, Goto, session_vars, Unmoved, ChatTypeOK
  <2>3. Good(c)'
    BY <1>3, <1>8, <2>1, ReplyKeeps
  <2>. QED BY <1>6, <1>8, <2>1, <2>2, <2>3
<1>9. ASSUME NEW i \in Slots, server_up, WdSend(i),
             Deliver(wd_events[i].sockfd, Notice(i), None), UNCHANGED owed
      PROVE  DeliveryStrong'
  <2>1. DeliveryNext
    BY <1>9 DEF DeliveryNext
  <2>2. \A d \in Conns : Unmoved(d)
    BY <1>9 DEF WdSend, session_vars, Unmoved
  <2>3. None \notin Conns
    BY ServerAssumption
  <2>. QED BY <1>6, <1>9, <2>1, <2>2, <2>3
<1>. QED BY <1>2, <1>5, <1>7, <1>8, <1>9 DEF DeliveryNext, QuietStep

\* When a session is answered, or closes, everybody it was writing to has
\* the packet.
LEMMA DeliveryImplies == DeliveryStrong => EveryoneToldOnce
<1>1. SUFFICES ASSUME DeliveryStrong, NEW c \in Conns, Told(c)
               PROVE  /\ \A d \in owed[c] : Member(d) => Cardinality(Copies(d, c)) = 1
                      /\ \A d \in Conns : Cardinality(Copies(d, c)) <= 1
                      /\ Copies(c, c) = {}
  BY DEF EveryoneToldOnce
<1>2. OwedOK(c) /\ SpreadOK(c)
  BY <1>1 DEF DeliveryStrong, DeliveryInv, Told, ToAll
<1>3. \A d \in Conns : ~ Awaits(d, c)
  BY <1>1 DEF Told, Pending, Awaits
<1>4. ASSUME NEW d \in Conns, Copies(d, c) # {} PROVE Cardinality(Copies(d, c)) = 1
  <2>1. \E k : Copies(d, c) = {k}
    BY <1>2, <1>4 DEF SpreadOK
  <2>. QED BY <2>1, FS_Singleton
<1>5. ASSUME NEW d \in Conns PROVE Cardinality(Copies(d, c)) <= 1
  <2>1. Copies(d, c) = {} => Cardinality(Copies(d, c)) = 0
    BY FS_EmptySet
  <2>. QED BY <1>4, <2>1
<1>6. ASSUME NEW d \in owed[c], Member(d) PROVE Cardinality(Copies(d, c)) = 1
  <2>1. d \in Conns /\ Copies(d, c) # {}
    BY <1>2, <1>3, <1>6 DEF OwedOK, SpreadOK
  <2>. QED BY <1>4, <2>1
<1>7. Copies(c, c) = {}
  BY <1>2 DEF SpreadOK
<1>. QED BY <1>5, <1>6, <1>7

\* Every broadcast and every announcement of a departure reaches each session
\* that was registered when it began and still is, exactly once, and never
\* its author, although the sockets are looked up first and written to later,
\* while sessions come, go and reuse descriptors.  A user called "ALL" is
\* left out: a direct message to it carries the target of a broadcast.
THEOREM BroadcastExactlyOnce ==
  "ALL" \notin Names /\ {"MSG", "DISCONNECTED"} \subseteq Traced =>
    (DeliverySpec => []EveryoneToldOnce)
<1>1. SUFFICES ASSUME "ALL" \notin Names, {"MSG", "DISCONNECTED"} \subseteq Traced
               PROVE  DeliverySpec => []EveryoneToldOnce
  OBVIOUS
<1>2. DeliveryStrong /\ [DeliveryNext]_delivery_vars => DeliveryStrong'
  BY <1>1, DeliveryStep
<1>. QED BY <1>2, DeliveryInitInv, DeliveryImplies, PTL DEF DeliverySpec
-----------------------------------------------------------------------------
(* A silent user is warned once.                                           *)
(*                                                                         *)
(* Every warning is paid for: by a registration or by a change of status,  *)
(* each of which lets the watchdog mark its user once.  On one side of the *)
(* balance are the warnings sent, those still to be sent, and the users    *)
(* that may still be marked; on the other the sessions that registered,    *)
(* the changes confirmed, and those whose confirmation is still to be      *)
(* sent.                                                                   *)

ToWarn(n) == {i \in Slots : wd_events[i] # None /\ wd_events[i].username = n}

Awake(n) == {i \in ActiveSlots : /\ g_clients[i].username = n
                                 /\ g_clients[i].status # "INACTIVE"}

Confirming(n) == {c \in SessionsOf(n) : /\ pc[c] = "send"
                                        /\ todo[c].reply.command = "OK"
                                        /\ SaysStatus(todo[c].reply) # {}}

Paid(n) ==
  /\ IsFiniteSet(WarningsTo(n))
  /\ IsFiniteSet(SessionsOf(n))
  /\ IsFiniteSet(ConfirmationsTo(n))
  /\ Cardinality(WarningsTo(n)) + Cardinality(ToWarn(n)) + Cardinality(Awake(n))
       <= Cardinality(SessionsOf(n)) + Cardinality(ConfirmationsTo(n))
            + Cardinality(Confirming(n))

WarnInv ==
  server_up => /\ wd_pc # "send" => Noticed = {}
               /\ \A c \in Conns : WorkOK(c)
               /\ \A n \in Names : Paid(n)

WarnStrong == ChatInv /\ SeenType /\ WarnInv

\* A part of a finite set.
LEMMA Within ==
  ASSUME NEW S, IsFiniteSet(S), NEW T, T \subseteq S
  PROVE  /\ IsFiniteSet(T) /\ Cardinality(T) <= Cardinality(S)
         /\ Cardinality(S) \in Nat /\ Cardinality(T) \in Nat
BY FS_Subset, FS_CardinalityType

\* One element more, at most.
LEMMA OneMore ==
  ASSUME NEW S, IsFiniteSet(S), NEW x, NEW T, T \subseteq S \cup {x}
  PROVE  /\ IsFiniteSet(T) /\ Cardinality(T) <= Cardinality(S) + 1
         /\ Cardinality(S) \in Nat /\ Cardinality(T) \in Nat
<1>1. /\ IsFiniteSet(S \cup {x}) /\ Cardinality(S) \in Nat
      /\ Cardinality(S \cup {x}) <= Cardinality(S) + 1
  <2>1. /\ IsFiniteSet(S \cup {x})
        /\ Cardinality(S \cup {x}) = IF x \in S THEN Cardinality(S)
                                              ELSE Cardinality(S) + 1
    BY FS_AddElement
  <2>2. Cardinality(S) \in Nat
    BY FS_CardinalityType
  <2>. QED BY <2>1, <2>2
<1>2. /\ IsFiniteSet(T) /\ Cardinality(T) <= Cardinality(S \cup {x})
      /\ Cardinality(S \cup {x}) \in Nat /\ Cardinality(T) \in Nat
  BY <1>1, Within
<1>. QED BY <1>1, <1>2

\* One element more, at least.
LEMMA OneNew ==
  ASSUME NEW S, NEW T, IsFiniteSet(T), NEW x, x \in T \ S, S \subseteq T
  PROVE  /\ IsFiniteSet(S) /\ Cardinality(S) + 1 <= Cardinality(T)
         /\ Cardinality(S) \in Nat /\ Cardinality(T) \in Nat
<1>1. IsFiniteSet(S) /\ Cardinality(S) \in Nat /\ Cardinality(T) \in Nat
  BY Within
<1>2. Cardinality(S \cup {x}) = Cardinality(S) + 1
  BY <1>1, FS_AddElement
<1>3. S \cup {x} \subseteq T
  OBVIOUS
<1>4. Cardinality(S \cup {x}) <= Cardinality(T)
  BY <1>3, Within
<1>. QED BY <1>1, <1>2, <1>4

\* What the pairs stand for.
LEMMA Pairs ==
  ASSUME NEW n, NEW x
  PROVE  /\ x \in WarningsTo(n) <=>
              \E d \in Conns : \E k \in Warnings(d, n) : x = <<d, k>>
         /\ x \in ConfirmationsTo(n) <=>
              \E c \in SessionsOf(n) : \E k \in Confirmations(c) : x = <<c, k>>
BY DEF WarningsTo, ConfirmationsTo

\* The parts of the balance are numbers.
LEMMA Countable ==
  ASSUME NEW n, IsFiniteSet(SessionsOf(n))
  PROVE  /\ Cardinality(ToWarn(n)) \in Nat /\ IsFiniteSet(ToWarn(n))
         /\ Cardinality(Awake(n)) \in Nat /\ IsFiniteSet(Awake(n))
         /\ Cardinality(Confirming(n)) \in Nat /\ IsFiniteSet(Confirming(n))
<1>1. ToWarn(n) \in SUBSET Slots /\ Awake(n) \in SUBSET Slots
  BY DEF ToWarn, Awake, ActiveSlots
<1>2. Confirming(n) \subseteq SessionsOf(n)
  BY DEF Confirming
<1>. QED BY <1>1, <1>2, SlotsFinite, Within

\* The balance stands when the payments grow by as much as the warnings.
LEMMA StillPaid ==
  ASSUME NEW n, Paid(n), IsFiniteSet(WarningsTo(n)'),
         IsFiniteSet(SessionsOf(n)'), IsFiniteSet(ConfirmationsTo(n)'),
         NEW w \in Int, NEW e \in Int, NEW a \in Int,
         NEW s \in Int, NEW m \in Int, NEW f \in Int,
         Cardinality(WarningsTo(n)') <= Cardinality(WarningsTo(n)) + w,
         Cardinality(ToWarn(n)') <= Cardinality(ToWarn(n)) + e,
         Cardinality(Awake(n)') <= Cardinality(Awake(n)) + a,
         Cardinality(SessionsOf(n)') >= Cardinality(SessionsOf(n)) + s,
         Cardinality(ConfirmationsTo(n)') >= Cardinality(ConfirmationsTo(n)) + m,
         Cardinality(Confirming(n)') >= Cardinality(Confirming(n)) + f,
         w + e + a <= s + m + f
  PROVE  Paid(n)'
<1>1. /\ Cardinality(WarningsTo(n)) \in Nat /\ Cardinality(WarningsTo(n)') \in Nat
      /\ Cardinality(SessionsOf(n)) \in Nat /\ Cardinality(SessionsOf(n)') \in Nat
      /\ Cardinality(ConfirmationsTo(n)) \in Nat
      /\ Cardinality(ConfirmationsTo(n)') \in Nat
  BY FS_CardinalityType DEF Paid
<1>2. /\ Cardinality(ToWarn(n)) \in Nat /\ Cardinality(Awake(n)) \in Nat
      /\ Cardinality(Confirming(n)) \in Nat
  BY Countable DEF Paid
<1>3. /\ Cardinality(ToWarn(n)') \in Nat /\ Cardinality(Awake(n)') \in Nat
      /\ Cardinality(Confirming(n)') \in Nat
  <2>1. ToWarn(n)' \in SUBSET Slots /\ Awake(n)' \in SUBSET Slots
    BY DEF ToWarn, Awake, ActiveSlots
  <2>2. Confirming(n)' \subseteq SessionsOf(n)'
    BY DEF Confirming
  <2>. QED BY <2>1, <2>2, SlotsFinite, Within
<1>4. Cardinality(WarningsTo(n)) + Cardinality(ToWarn(n)) + Cardinality(Awake(n))
        <= Cardinality(SessionsOf(n)) + Cardinality(ConfirmationsTo(n))
             + Cardinality(Confirming(n))
  BY DEF Paid
<1>5. Cardinality(WarningsTo(n)') + Cardinality(ToWarn(n)') + Cardinality(Awake(n)')
        <= Cardinality(SessionsOf(n)') + Cardinality(ConfirmationsTo(n)')
             + Cardinality(Confirming(n)')
  BY <1>1, <1>2, <1>3, <1>4
<1>. QED BY <1>5 DEF Paid

\* A session that others leave alone has the same work to do.
LEMMA WorkStays ==
  ASSUME NEW c \in Conns, WorkOK(c), Unmoved(c)
  PROVE  WorkOK(c)'
BY DEF WorkOK, Unmoved, Pending, Says, Text, make_packet

\* While a session has an answer to send, it moves only by sending.
LEMMA SendingStays ==
  ASSUME ChatInv, QuietStep, NEW c \in Conns, pc[c] = "send"
  PROVE  Unmoved(c)
<1>1. SUFFICES ASSUME SessionQuiet(c) \/ Incoming(c) PROVE Unmoved(c)
  BY QuietMoves
<1>2. ClientClose(c)
  BY <1>1 DEF SessionQuiet, Incoming, Broadcast, Direct, List, Info, SetStatus,
     Logout, Unsupported, Dispatch, RecvFails, Remove, broadcast_disconnected,
     Close, Accept, AcceptFails, RejectUnregistered, RegisterFails, Register,
     ReceiveCommand, Receive
<1>. QED
  BY <1>2 DEF ClientClose, session_vars, QuietStep, Begins, Unmoved

\* A step that writes nothing leaves what clients were told, and what they
\* are still to be told.
LEMMA QuietKeeps ==
  ASSUME ChatInv, QuietStep, NEW n \in Names
  PROVE  /\ WarningsTo(n)' = WarningsTo(n)
         /\ \A c \in Conns : Confirmations(c)' = Confirmations(c)
         /\ Confirming(n) \subseteq Confirming(n)'
<1>1. seen' = seen
  BY DEF QuietStep
<1>2. \A d \in Conns : Warnings(d, n)' = Warnings(d, n)
  BY <1>1 DEF Warnings, SaysStatus
<1>3. WarningsTo(n)' = WarningsTo(n)
  BY <1>2 DEF WarningsTo
<1>4. \A c \in Conns : Confirmations(c)' = Confirmations(c)
  BY <1>1 DEF Confirmations, SaysStatus
<1>5. ASSUME NEW c \in Confirming(n) PROVE c \in Confirming(n)'
  <2>1. /\ c \in Conns /\ username[c] = n /\ pc[c] = "send"
        /\ todo[c].reply.command = "OK" /\ SaysStatus(todo[c].reply) # {}
    BY <1>5 DEF Confirming, SessionsOf
  <2>2. username'[c] = username[c] /\ pc'[c] = pc[c] /\ todo'[c] = todo[c]
    BY <2>1, SendingStays DEF Unmoved
  <2>3. SaysStatus(todo[c].reply)' # {}
    BY <2>1, <2>2 DEF SaysStatus
  <2>. QED BY <2>1, <2>2, <2>3 DEF Confirming, SessionsOf
<1>. QED BY <1>3, <1>4, <1>5

\* If no session registers, warnings to be sent, and users that may be
\* marked, grow by no more than the changes to be confirmed.
LEMMA QuietPaid ==
  ASSUME ChatInv, QuietStep, UNCHANGED username, NEW n \in Names, Paid(n),
         NEW e \in Int, NEW a \in Int, NEW f \in Int,
         Cardinality(ToWarn(n)') <= Cardinality(ToWarn(n)) + e,
         Cardinality(Awake(n)') <= Cardinality(Awake(n)) + a,
         Cardinality(Confirming(n)') >= Cardinality(Confirming(n)) + f,
         e + a <= f
  PROVE  Paid(n)'
<1>1. WarningsTo(n)' = WarningsTo(n)
  BY QuietKeeps
<1>2. SessionsOf(n)' = SessionsOf(n)
  BY DEF SessionsOf
<1>3. ConfirmationsTo(n)' = ConfirmationsTo(n)
  BY <1>2, QuietKeeps DEF ConfirmationsTo, SessionsOf
<1>4. /\ IsFiniteSet(WarningsTo(n)) /\ Cardinality(WarningsTo(n)) \in Nat
      /\ IsFiniteSet(SessionsOf(n)) /\ Cardinality(SessionsOf(n)) \in Nat
      /\ IsFiniteSet(ConfirmationsTo(n)) /\ Cardinality(ConfirmationsTo(n)) \in Nat
  BY FS_CardinalityType DEF Paid
<1>5. /\ Cardinality(WarningsTo(n)') <= Cardinality(WarningsTo(n)) + 0
      /\ Cardinality(SessionsOf(n)') >= Cardinality(SessionsOf(n)) + 0
      /\ Cardinality(ConfirmationsTo(n)') >= Cardinality(ConfirmationsTo(n)) + 0
      /\ 0 \in Int /\ 0 + e + a <= 0 + 0 + f
  BY <1>1, <1>2, <1>3, <1>4
<1>6. /\ IsFiniteSet(WarningsTo(n)') /\ IsFiniteSet(SessionsOf(n)')
      /\ IsFiniteSet(ConfirmationsTo(n)')
  BY <1>1, <1>2, <1>3, <1>4
<1>. QED BY <1>5, <1>6, StillPaid

\* A step that wakes nobody up.
LEMMA OtherPaid ==
  ASSUME ChatInv, QuietStep, UNCHANGED <<username, wd_events>>,
         NEW n \in Names, Paid(n), Awake(n)' \subseteq Awake(n)
  PROVE  Paid(n)'
<1>1. IsFiniteSet(SessionsOf(n)) /\ SessionsOf(n)' = SessionsOf(n)
  BY DEF Paid, SessionsOf
<1>2. ToWarn(n)' = ToWarn(n) /\ Cardinality(ToWarn(n)) \in Nat
  BY <1>1, Countable DEF ToWarn
<1>3. Cardinality(Awake(n)') <= Cardinality(Awake(n)) /\ Cardinality(Awake(n)) \in Nat
      /\ Cardinality(Awake(n)') \in Nat
  BY <1>1, Countable, Within
<1>4. IsFiniteSet(Confirming(n)') /\ Confirming(n) \subseteq Confirming(n)'
  <2>1. Confirming(n)' \subseteq SessionsOf(n)'
    BY DEF Confirming
  <2>. QED BY <1>1, <2>1, Within, QuietKeeps
<1>5. /\ Cardinality(Confirming(n)') >= Cardinality(Confirming(n))
      /\ Cardinality(Confirming(n)) \in Nat /\ Cardinality(Confirming(n)') \in Nat
  BY <1>4, Within
<1>6. /\ Cardinality(ToWarn(n)') <= Cardinality(ToWarn(n)) + 0
      /\ Cardinality(Awake(n)') <= Cardinality(Awake(n)) + 0
      /\ Cardinality(Confirming(n)') >= Cardinality(Confirming(n)) + 0
      /\ 0 \in Int /\ 0 + 0 <= 0
  BY <1>2, <1>3, <1>5
<1>. QED BY <1>6, QuietPaid

\* A change of status may wake its user up, and will be confirmed.
LEMMA SetStatusPaid ==
  ASSUME ChatInv, QuietStep, NEW c \in Conns, SetStatus(c),
         NEW n \in Names, Paid(n)
  PROVE  Paid(n)'
<1>. ChatTypeOK /\ CMTypeOK
  BY DEF ChatInv, CMInv
<1>1. /\ UNCHANGED <<username, wd_events>>
      /\ pc[c] = "dispatch" /\ pc'[c] = "send"
  BY DEF SetStatus, Dispatch, session_vars, wd_vars, Goto, ChatTypeOK
<1>2. CASE Awake(n)' \subseteq Awake(n)
  BY <1>1, <1>2, OtherPaid
<1>3. CASE ~ (Awake(n)' \subseteq Awake(n))
  <2>1. PICK i \in Awake(n)' : i \notin Awake(n)
    BY <1>3
  <2>2. /\ i \in Slots /\ g_clients'[i].active /\ g_clients'[i].username = n
        /\ g_clients'[i].status # "INACTIVE"
    BY <2>1 DEF Awake, ActiveSlots
  <2>3. PICK st : /\ st = req[c].arg
                  /\ cm_set_status(username[c], st)
                  /\ todo'[c] = Answer(IF st \in Status /\ NamedSlots(username[c]) # {}
                                         THEN send_ok(username[c], <<st>>)
                                         ELSE send_error(username[c], <<"Status invalido">>))
    BY DEF SetStatus, Dispatch, ChatTypeOK
  <2>4. g_clients'[i] # g_clients[i]
    BY <2>1, <2>2 DEF Awake, ActiveSlots
  <2>5. /\ st \in Status /\ First(i, NamedSlots(username[c]))
        /\ g_clients[i].active /\ g_clients[i].username = username[c]
    BY <2>2, <2>3, <2>4 DEF cm_set_status, First, NamedSlots, ActiveSlots
  <2>6. g_clients'[i].username = g_clients[i].username
    BY <2>2, <2>3, <2>5, ActiveIsClient DEF cm_set_status, Client
  <2>7. username[c] = n
    BY <2>2, <2>5, <2>6
  <2>8. c \in Confirming(n)' /\ c \notin Confirming(n)
    <3>1. todo'[c].reply = send_ok(n, <<st>>)
      <4>1. NamedSlots(username[c]) # {}
        BY <2>5 DEF First
      <4>2. todo'[c] = Answer(send_ok(n, <<st>>))
        BY <2>3, <2>5, <2>7, <4>1
      <4>. QED BY <4>2 DEF Answer, Work
    <3>2. todo'[c].reply.command = "OK" /\ todo'[c].reply.payload[1] = st
      BY <3>1 DEF send_ok, make_packet
    <3>3. SaysStatus(todo[c].reply)' # {}
      BY <2>5, <3>2 DEF SaysStatus
    <3>4. c \in SessionsOf(n)'
      BY <1>1, <2>7 DEF SessionsOf
    <3>. QED BY <1>1, <3>2, <3>3, <3>4 DEF Confirming
  <2>9. Awake(n)' \subseteq Awake(n) \cup {i}
    <3>1. ASSUME NEW j \in Awake(n)', j # i PROVE j \in Awake(n)
      <4>1. j \in Slots
        BY <3>1 DEF Awake, ActiveSlots
      <4>2. ~ First(j, NamedSlots(username[c]))
        BY <2>5, <3>1, FirstUnique DEF NamedSlots, ActiveSlots
      <4>3. g_clients'[j] = g_clients[j]
        BY <2>3, <4>1, <4>2 DEF cm_set_status
      <4>. QED BY <3>1, <4>1, <4>3 DEF Awake, ActiveSlots
    <3>. QED BY <3>1
  <2>10. IsFiniteSet(SessionsOf(n)) /\ SessionsOf(n)' = SessionsOf(n)
    BY <1>1 DEF Paid, SessionsOf
  <2>11. ToWarn(n)' = ToWarn(n) /\ Cardinality(ToWarn(n)) \in Nat
    BY <1>1, <2>10, Countable DEF ToWarn
  <2>12. /\ Cardinality(Awake(n)') <= Cardinality(Awake(n)) + 1
         /\ Cardinality(Awake(n)) \in Nat /\ Cardinality(Awake(n)') \in Nat
    BY <2>9, <2>10, Countable, OneMore
  <2>13. IsFiniteSet(Confirming(n)') /\ Confirming(n) \subseteq Confirming(n)'
    <3>1. Confirming(n)' \subseteq SessionsOf(n)'
      BY DEF Confirming
    <3>. QED BY <2>10, <3>1, Within, QuietKeeps
  <2>14. /\ Cardinality(Confirming(n)') >= Cardinality(Confirming(n)) + 1
         /\ Cardinality(Confirming(n)) \in Nat /\ Cardinality(Confirming(n)') \in Nat
    BY <2>8, <2>13, OneNew
  <2>15. /\ Cardinality(ToWarn(n)') <= Cardinality(ToWarn(n)) + 0
         /\ 0 \in Int /\ 1 \in Int /\ 0 + 1 <= 1
    BY <2>11
  <2>. QED BY <1>1, <2>12, <2>14, <2>15, QuietPaid
<1>. QED BY <1>2, <1>3

\* A round of the watchdog turns users that may be marked into warnings.
LEMMA MarkPaid ==
  ASSUME ChatInv, QuietStep, WdMark, Noticed = {}, NEW n \in Names, Paid(n)
  PROVE  Paid(n)'
<1>. ChatTypeOK /\ CMTypeOK
  BY DEF ChatInv, CMInv
<1>. DEFINE Idle == {i \in Awake(n) : i \in IdleSlots(wd_now)}
<1>1. /\ UNCHANGED <<username, pc, todo>>
      /\ wd_events' = InactiveEvents(wd_now)
      /\ cm_mark_inactive_clients(wd_now)
  BY DEF WdMark, session_vars
<1>2. ToWarn(n) = {}
  BY DEF Noticed, ToWarn
<1>3. IsFiniteSet(SessionsOf(n)) /\ SessionsOf(n)' = SessionsOf(n)
  BY <1>1 DEF Paid, SessionsOf
<1>4. ToWarn(n)' \subseteq Idle
  <2>1. ASSUME NEW i \in ToWarn(n)' PROVE i \in Idle
    <3>1. i \in Slots /\ wd_events'[i] # None /\ wd_events'[i].username = n
      BY <2>1 DEF ToWarn
    <3>2. i \in IdleSlots(wd_now)
      BY <1>1, <3>1 DEF InactiveEvents
    <3>3. g_clients[i].username = n
      BY <1>1, <3>1, <3>2 DEF InactiveEvents
    <3>. QED BY <3>2, <3>3 DEF Awake, IdleSlots
  <2>. QED BY <2>1
<1>5. Awake(n)' \subseteq Awake(n) \ Idle
  <2>1. ASSUME NEW i \in Awake(n)' PROVE i \in Awake(n) /\ i \notin IdleSlots(wd_now)
    <3>1. /\ i \in Slots /\ g_clients'[i].active /\ g_clients'[i].username = n
          /\ g_clients'[i].status # "INACTIVE"
      BY <2>1 DEF Awake, ActiveSlots
    <3>2. CASE i \in IdleSlots(wd_now)
      <4>1. g_clients[i] \in Client
        BY <3>1, <3>2, ActiveIsClient DEF IdleSlots, ActiveSlots
      <4>2. g_clients'[i] = [g_clients[i] EXCEPT !.status = "INACTIVE"]
        BY <1>1, <3>1, <3>2 DEF cm_mark_inactive_clients
      <4>. QED BY <3>1, <4>1, <4>2 DEF Client
    <3>3. CASE i \notin IdleSlots(wd_now)
      <4>1. g_clients'[i] = g_clients[i]
        BY <1>1, <3>1, <3>3 DEF cm_mark_inactive_clients
      <4>. QED BY <3>1, <3>3, <4>1 DEF Awake, ActiveSlots
    <3>. QED BY <3>2, <3>3
  <2>. QED BY <2>1
<1>6. /\ IsFiniteSet(Awake(n)) /\ Idle \subseteq Awake(n)
      /\ Cardinality(ToWarn(n)) = 0
  BY <1>2, <1>3, Countable, FS_EmptySet
<1>. HIDE DEF Idle
<1>7. /\ IsFiniteSet(Idle) /\ Cardinality(Idle) \in Nat
      /\ Cardinality(Awake(n)) \in Nat
      /\ Cardinality(Awake(n) \ Idle) = Cardinality(Awake(n)) - Cardinality(Idle)
  <2>1. Awake(n) \cap Idle = Idle
    BY <1>6
  <2>. QED BY <1>6, <2>1, Within, FS_Difference
<1>8. Cardinality(ToWarn(n)') <= Cardinality(Idle)
  BY <1>4, <1>7, Within
<1>9. Cardinality(Awake(n)') <= Cardinality(Awake(n) \ Idle)
  <2>1. IsFiniteSet(Awake(n) \ Idle)
    BY <1>6, Within
  <2>. QED BY <1>5, <2>1, Within
<1>10. /\ Cardinality(Confirming(n)') >= Cardinality(Confirming(n))
       /\ Cardinality(Confirming(n)) \in Nat /\ Cardinality(Confirming(n)') \in Nat
  <2>1. Confirming(n)' \subseteq SessionsOf(n)'
    BY DEF Confirming
  <2>2. IsFiniteSet(Confirming(n)') /\ Confirming(n) \subseteq Confirming(n)'
    BY <1>3, <2>1, Within, QuietKeeps
  <2>. QED BY <2>2, Within
<1>. DEFINE e == Cardinality(Idle)
            a == 0 - Cardinality(Idle)
<1>11. /\ e \in Int /\ a \in Int /\ 0 \in Int /\ e + a <= 0
       /\ Cardinality(ToWarn(n)') <= Cardinality(ToWarn(n)) + e
       /\ Cardinality(Awake(n)') <= Cardinality(Awake(n)) + a
       /\ Cardinality(Confirming(n)') >= Cardinality(Confirming(n)) + 0
  BY <1>6, <1>7, <1>8, <1>9, <1>10
<1>. HIDE DEF e, a
<1>. QED BY <1>1, <1>11, QuietPaid

\* What a client was sent can be counted.
LEMMA ConfirmationsFinite ==
  ASSUME SeenType, NEW c \in Conns
  PROVE  IsFiniteSet({c} \X Confirmations(c))
<1>1. PICK S : seen \in [Conns -> Seq(S)]
  BY DEF SeenType
<1>2. seen[c] \in Seq(S)
  BY <1>1
<1>3. DOMAIN seen[c] = 1 .. Len(seen[c]) /\ Len(seen[c]) \in Nat
  BY <1>2
<1>4. IsFiniteSet(DOMAIN seen[c])
  BY <1>3, FS_Interval
<1>5. IsFiniteSet(Confirmations(c))
  BY <1>4, Within DEF Confirmations
<1>. QED BY <1>5, FS_Singleton, FS_Product

\* A registration puts one user on the table, and is one more session.
LEMMA RegisterPaid ==
  ASSUME ChatInv, SeenType, QuietStep,
         NEW c \in Conns, NEW r \in Requests, Register(c, r),
         NEW n \in Names, Paid(n)
  PROVE  Paid(n)'
<1>. ChatTypeOK /\ CMTypeOK /\ CountExact
  BY DEF ChatInv, CMInv
<1>1. r.arg \in Names /\ ip[c] \in IPs /\ sockfd[c] \in Socks
  BY RegisterAdds
<1>2. PICK k \in Slots : OneNewClient(r.arg, ip[c], sockfd[c], k)
  BY <1>1, AddShape DEF Register
<1>3. /\ g_clients'[k].username = Stored[r.arg]
      /\ \A i \in Slots \ {k} : g_clients'[i] = g_clients[i]
  <2>1. /\ g_clients'[k] = NewClient(r.arg, ip[c], sockfd[c])
        /\ \A i \in Slots \ {k} : g_clients'[i] = g_clients[i]
    BY <1>2, NewIsActive
  <2>. QED BY <2>1 DEF NewClient
<1>4. /\ username[c] = None /\ username'[c] = Stored[r.arg]
      /\ \A d \in Conns \ {c} : username'[d] = username[d]
      /\ wd_events' = wd_events
  BY DEF Register, Receive, Registered, wd_vars, ChatTypeOK
<1>5. n # None
  BY NamesAssumption
<1>6. /\ IsFiniteSet(WarningsTo(n)) /\ WarningsTo(n)' = WarningsTo(n)
      /\ IsFiniteSet(SessionsOf(n)) /\ IsFiniteSet(ConfirmationsTo(n))
      /\ Cardinality(WarningsTo(n)) \in Nat
  BY QuietKeeps, FS_CardinalityType DEF Paid
<1>7. SessionsOf(n)' = IF n = Stored[r.arg] THEN SessionsOf(n) \cup {c}
                                            ELSE SessionsOf(n)
  BY <1>4, <1>5 DEF SessionsOf
<1>8. c \notin SessionsOf(n)
  BY <1>4, <1>5 DEF SessionsOf
<1>9. IsFiniteSet(SessionsOf(n)')
  BY <1>6, <1>7, OneMore
<1>10. /\ IsFiniteSet(ConfirmationsTo(n)')
       /\ ConfirmationsTo(n) \subseteq ConfirmationsTo(n)'
  <2>1. ASSUME NEW x
        PROVE  x \in ConfirmationsTo(n)' <=>
                 \E d \in SessionsOf(n)' : \E j \in Confirmations(d) : x = <<d, j>>
    <3>1. x \in ConfirmationsTo(n)' <=>
            \E d \in SessionsOf(n)' : \E j \in Confirmations(d)' : x = <<d, j>>
      BY DEF ConfirmationsTo
    <3>2. SessionsOf(n)' \subseteq Conns
      BY DEF SessionsOf
    <3>. QED BY <3>1, <3>2, QuietKeeps
  <2>2. ConfirmationsTo(n) \subseteq ConfirmationsTo(n)'
    BY <1>7, <2>1, Pairs
  <2>3. ConfirmationsTo(n)' \subseteq ConfirmationsTo(n) \cup ({c} \X Confirmations(c))
    <3>1. ASSUME NEW x \in ConfirmationsTo(n)', x \notin ConfirmationsTo(n)
          PROVE  x \in {c} \X Confirmations(c)
      BY <1>7, <2>1, <3>1, Pairs
    <3>. QED BY <3>1
  <2>4. IsFiniteSet(ConfirmationsTo(n) \cup ({c} \X Confirmations(c)))
    BY <1>6, ConfirmationsFinite, FS_Union
  <2>. QED BY <2>2, <2>3, <2>4, Within
<1>11. /\ Cardinality(ConfirmationsTo(n)') >= Cardinality(ConfirmationsTo(n))
       /\ Cardinality(ConfirmationsTo(n)) \in Nat
       /\ Cardinality(ConfirmationsTo(n)') \in Nat
  BY <1>10, Within
<1>12. ToWarn(n)' = ToWarn(n) /\ Cardinality(ToWarn(n)) \in Nat
  BY <1>4, <1>6, Countable DEF ToWarn
<1>13. IsFiniteSet(Awake(n)) /\ Cardinality(Awake(n)) \in Nat
  BY <1>6, Countable
<1>14. /\ Cardinality(Confirming(n)') >= Cardinality(Confirming(n))
       /\ Cardinality(Confirming(n)) \in Nat /\ Cardinality(Confirming(n)') \in Nat
  <2>1. Confirming(n)' \subseteq SessionsOf(n)'
    BY DEF Confirming
  <2>2. IsFiniteSet(Confirming(n)') /\ Confirming(n) \subseteq Confirming(n)'
    BY <1>9, <2>1, Within, QuietKeeps
  <2>. QED BY <2>2, Within
<1>15. ASSUME NEW j \in Awake(n)'
       PROVE  j \in Awake(n) \/ (j = k /\ n = Stored[r.arg])
  <2>1. /\ j \in Slots /\ g_clients'[j].active /\ g_clients'[j].username = n
        /\ g_clients'[j].status # "INACTIVE"
    BY <1>15 DEF Awake, ActiveSlots
  <2>. QED BY <1>3, <2>1 DEF Awake, ActiveSlots
<1>16. CASE n = Stored[r.arg]
  <2>1. /\ Cardinality(SessionsOf(n)') >= Cardinality(SessionsOf(n)) + 1
    BY <1>7, <1>8, <1>9, <1>16, OneNew
  <2>2. Awake(n)' \subseteq Awake(n) \cup {k}
    BY <1>15
  <2>3. Cardinality(Awake(n)') <= Cardinality(Awake(n)) + 1
    BY <1>13, <2>2, OneMore
  <2>4. /\ Cardinality(WarningsTo(n)') <= Cardinality(WarningsTo(n)) + 0
        /\ Cardinality(ToWarn(n)') <= Cardinality(ToWarn(n)) + 0
        /\ Cardinality(ConfirmationsTo(n)') >= Cardinality(ConfirmationsTo(n)) + 0
        /\ Cardinality(Confirming(n)') >= Cardinality(Confirming(n)) + 0
        /\ 0 \in Int /\ 1 \in Int /\ 0 + 0 + 1 <= 1 + 0 + 0
    BY <1>6, <1>11, <1>12, <1>14
  <2>. QED BY <1>6, <1>9, <1>10, <2>1, <2>3, <2>4, StillPaid
<1>17. CASE n # Stored[r.arg]
  <2>1. SessionsOf(n)' = SessionsOf(n) /\ Cardinality(SessionsOf(n)) \in Nat
    BY <1>6, <1>7, <1>17, FS_CardinalityType
  <2>2. Awake(n)' \subseteq Awake(n)
    BY <1>15, <1>17
  <2>3. Cardinality(Awake(n)') <= Cardinality(Awake(n)) /\ Cardinality(Awake(n)') \in Nat
    BY <1>13, <2>2, Within
  <2>4. /\ Cardinality(WarningsTo(n)') <= Cardinality(WarningsTo(n)) + 0
        /\ Cardinality(ToWarn(n)') <= Cardinality(ToWarn(n)) + 0
        /\ Cardinality(Awake(n)') <= Cardinality(Awake(n)) + 0
        /\ Cardinality(SessionsOf(n)') >= Cardinality(SessionsOf(n)) + 0
        /\ Cardinality(ConfirmationsTo(n)') >= Cardinality(ConfirmationsTo(n)) + 0
        /\ Cardinality(Confirming(n)') >= Cardinality(Confirming(n)) + 0
        /\ 0 \in Int /\ 0 + 0 + 0 <= 0 + 0 + 0
    BY <1>6, <1>11, <1>12, <1>13, <1>14, <2>1, <2>3
  <2>. QED BY <1>6, <1>9, <1>10, <2>4, StillPaid
<1>. QED BY <1>16, <1>17

\* What does not register anybody, change a status or mark users.
LEMMA QuietWakesNobody ==
  ASSUME ChatInv, QuietStep, ~ WdMark, \A c \in Conns : ~ SetStatus(c),
         \A c \in Conns : \A r \in Requests : ~ Register(c, r),
         NEW n \in Names
  PROVE  /\ UNCHANGED <<username, wd_events>>
         /\ Awake(n)' \subseteq Awake(n)
<1>. ChatTypeOK /\ CMTypeOK
  BY DEF ChatInv, CMInv
<1>1. ASSUME NEW c \in Conns,
             \/ Broadcast(c) \/ Direct(c) \/ List(c) \/ Info(c) \/ Logout(c)
             \/ Unsupported(c) \/ RecvFails(c) \/ broadcast_disconnected(c)
             \/ Close(c) \/ (\E addr \in IPs : Accept(c, addr)) \/ AcceptFails(c)
             \/ (\E r \in Requests : RejectUnregistered(c, r) \/ RegisterFails(c, r))
             \/ ClientClose(c)
      PROVE  UNCHANGED <<username, wd_events, g_clients>>
  BY <1>1 DEF Broadcast, Direct, List, Info, Logout, Unsupported, Dispatch,
     RecvFails, broadcast_disconnected, Close, Accept, AcceptFails,
     RejectUnregistered, RegisterFails, Receive, ClientClose, session_vars,
     wd_vars, cm_vars
<1>2. ASSUME NEW c \in Conns, Remove(c)
      PROVE  /\ UNCHANGED <<username, wd_events>>
             /\ \A i \in Slots : g_clients'[i] \in {g_clients[i], Zeroed}
  BY <1>2 DEF Remove, session_vars, wd_vars, cm_remove_by_sockfd, Erase
<1>3. ASSUME NEW c \in Conns, NEW r \in Requests, ReceiveCommand(c, r)
      PROVE  /\ UNCHANGED <<username, wd_events>>
             /\ \A i \in Slots : \/ g_clients'[i] = g_clients[i]
                                 \/ /\ i \in ActiveSlots
                                    /\ g_clients'[i] =
                                         [g_clients[i] EXCEPT !.last_activity = clock]
  BY <1>3 DEF ReceiveCommand, Receive, wd_vars, cm_update_activity, First, NamedSlots
<1>4. ASSUME WdReadClock \/ WdSleep \/ ClockTicks
      PROVE  UNCHANGED <<username, wd_events, g_clients>>
  BY <1>4 DEF WdReadClock, WdSleep, ClockTicks, Tick, session_vars, wd_vars, cm_vars
<1>5. /\ UNCHANGED <<username, wd_events>>
      /\ \/ UNCHANGED g_clients
         \/ \A i \in Slots : g_clients'[i] \in {g_clients[i], Zeroed}
         \/ \A i \in Slots : \/ g_clients'[i] = g_clients[i]
                             \/ /\ i \in ActiveSlots
                                /\ g_clients'[i] =
                                     [g_clients[i] EXCEPT !.last_activity = clock]
  BY <1>1, <1>2, <1>3, <1>4 DEF QuietStep, Quiet, SessionQuiet, Incoming
<1>6. ASSUME NEW i \in Awake(n)' PROVE i \in Awake(n)
  <2>1. /\ i \in Slots /\ g_clients'[i].active /\ g_clients'[i].username = n
        /\ g_clients'[i].status # "INACTIVE"
    BY <1>6 DEF Awake, ActiveSlots
  <2>2. CASE g_clients'[i] = g_clients[i]
    BY <2>1, <2>2 DEF Awake, ActiveSlots
  <2>3. CASE g_clients'[i] = Zeroed
    BY <2>1, <2>3 DEF Zeroed
  <2>4. CASE /\ i \in ActiveSlots
             /\ g_clients'[i] = [g_clients[i] EXCEPT !.last_activity = clock]
    <3>1. g_clients[i] \in Client
      BY <2>1, <2>4, ActiveIsClient DEF ActiveSlots
    <3>. QED BY <2>1, <2>4, <3>1 DEF Awake, Client
  <2>. QED BY <1>5, <2>1, <2>2, <2>3, <2>4
<1>. QED BY <1>5, <1>6

\* A step that writes nothing keeps the balance.
LEMMA QuietWarn ==
  ASSUME ChatInv, SeenType, WarnInv, QuietStep
  PROVE  WarnInv'
<1>. ChatTypeOK
  BY DEF ChatInv
<1>1. /\ wd_pc # "send" => Noticed = {}
      /\ \A c \in Conns : WorkOK(c)
      /\ \A n \in Names : Paid(n)
  BY DEF WarnInv, QuietStep
<1>2. wd_pc' # "send" => Noticed' = {}
  <2>1. CASE WdReadClock \/ WdMark \/ WdSleep
    BY <1>1, <2>1 DEF WdReadClock, WdMark, WdSleep, Noticed
  <2>2. CASE ~ (WdReadClock \/ WdMark \/ WdSleep)
    <3>1. ASSUME NEW c \in Conns, SessionQuiet(c) PROVE UNCHANGED wd_vars
      BY <3>1 DEF SessionQuiet, Broadcast, Direct, List, Info, SetStatus, Logout,
         Unsupported, Dispatch, RecvFails, Remove, broadcast_disconnected, Close
    <3>2. ASSUME NEW c \in Conns, Incoming(c) PROVE UNCHANGED wd_vars
      BY <3>2 DEF Incoming, Accept, AcceptFails, RejectUnregistered,
         RegisterFails, Register, ReceiveCommand, Receive, ClientClose
    <3>3. ClockTicks => UNCHANGED wd_vars
      BY DEF ClockTicks
    <3>4. UNCHANGED wd_vars
      BY <2>2, <3>1, <3>2, <3>3 DEF QuietStep, Quiet
    <3>. QED BY <1>1, <3>4 DEF Noticed, wd_vars
  <2>. QED BY <2>1, <2>2
<1>3. ASSUME NEW c \in Conns PROVE WorkOK(c)'
  BY <1>1, WorkStays, QuietMoves, OwnWork
<1>4. ASSUME NEW n \in Names PROVE Paid(n)'
  <2>1. CASE WdMark
    <3>1. Noticed = {}
      BY <1>1, <2>1 DEF WdMark
    <3>. QED BY <1>1, <2>1, <3>1, MarkPaid
  <2>2. ASSUME NEW c \in Conns, SetStatus(c) PROVE Paid(n)'
    BY <1>1, <2>2, SetStatusPaid
  <2>3. ASSUME NEW c \in Conns, NEW r \in Requests, Register(c, r) PROVE Paid(n)'
    BY <1>1, <2>3, RegisterPaid
  <2>4. CASE /\ ~ WdMark
             /\ \A c \in Conns : ~ SetStatus(c)
             /\ \A c \in Conns : \A r \in Requests : ~ Register(c, r)
    BY <1>1, <2>4, QuietWakesNobody, OtherPaid
  <2>. QED BY <2>1, <2>2, <2>3, <2>4
<1>. QED BY <1>2, <1>3, <1>4 DEF WarnInv

\* The packet is a warning to user n.
Warns(e, n) == e.command = "MSG" /\ SaysStatus(e) # {} /\ e.target = n

\* A delivery is one packet at most, since a descriptor has one owner.
LEMMA OnePacket ==
  ASSUME ChatInv, SeenType, NEW s, NEW packet, NEW a, Deliver(s, packet, a)
  PROVE  /\ \A o \in Conns : \A k \in DOMAIN seen[o] :
              k \in DOMAIN seen'[o] /\ seen'[o][k] = seen[o][k]
         /\ \E x : \A o \in Conns : \A k \in DOMAIN seen'[o] :
              \/ k \in DOMAIN seen[o] /\ seen'[o][k] = seen[o][k]
              \/ x = <<o, k>> /\ seen'[o][k] = Event(packet, a)
<1>. DEFINE e == Event(packet, a)
<1>1. \A o \in Conns : \/ seen'[o] = seen[o]
                       \/ o \in Owners(s) /\ Grows(o, e)
  <2>. HIDE DEF e
  <2>. QED BY DeliverSeen DEF e
<1>2. \A o, d \in Owners(s) : o = d
  BY DEF ChatInv, SlotsMatchSessions, Owners
<1>. HIDE DEF e
<1>3. \A o \in Conns : \A k \in DOMAIN seen[o] :
        k \in DOMAIN seen'[o] /\ seen'[o][k] = seen[o][k]
  BY <1>1 DEF Grows
<1>4. CASE \E d \in Conns : d \in Owners(s) /\ Grows(d, e)
  <2>1. PICK d \in Conns : d \in Owners(s) /\ Grows(d, e)
    BY <1>4
  <2>2. PICK j : /\ DOMAIN seen'[d] = DOMAIN seen[d] \cup {j}
                 /\ seen'[d][j] = e
    BY <2>1 DEF Grows
  <2>3. ASSUME NEW o \in Conns, NEW k \in DOMAIN seen'[o]
        PROVE  \/ k \in DOMAIN seen[o] /\ seen'[o][k] = seen[o][k]
               \/ <<d, j>> = <<o, k>> /\ seen'[o][k] = e
    <3>1. CASE o = d
      BY <1>3, <2>2, <2>3, <3>1
    <3>2. CASE o # d
      BY <1>1, <1>2, <2>1, <2>3, <3>2
    <3>. QED BY <3>1, <3>2
  <2>. QED BY <1>3, <2>3 DEF e
<1>5. CASE ~ \E d \in Conns : d \in Owners(s) /\ Grows(d, e)
  BY <1>1, <1>3, <1>5
<1>. QED BY <1>4, <1>5

\* What a delivery does to the balance.
LEMMA SentPaid ==
  ASSUME ChatInv, SeenType, NEW s, NEW packet, NEW a, Deliver(s, packet, a),
         UNCHANGED <<username, g_clients>>, NEW n \in Names, Paid(n)
  PROVE  /\ IsFiniteSet(WarningsTo(n)')
         /\ Cardinality(WarningsTo(n)') <= Cardinality(WarningsTo(n)) + 1
         /\ ~ Warns(Event(packet, a), n) =>
              Cardinality(WarningsTo(n)') <= Cardinality(WarningsTo(n)) + 0
         /\ IsFiniteSet(SessionsOf(n)') /\ SessionsOf(n)' = SessionsOf(n)
         /\ Cardinality(SessionsOf(n)') >= Cardinality(SessionsOf(n)) + 0
         /\ IsFiniteSet(ConfirmationsTo(n)')
         /\ ConfirmationsTo(n) \subseteq ConfirmationsTo(n)'
         /\ Cardinality(ConfirmationsTo(n)') >= Cardinality(ConfirmationsTo(n)) + 0
         /\ Cardinality(Awake(n)') <= Cardinality(Awake(n)) + 0
<1>. DEFINE e == Event(packet, a)
<1>0. \A o \in Conns : \A k \in DOMAIN seen[o] :
        k \in DOMAIN seen'[o] /\ seen'[o][k] = seen[o][k]
  BY OnePacket
<1>1. PICK x : \A o \in Conns : \A k \in DOMAIN seen'[o] :
        \/ k \in DOMAIN seen[o] /\ seen'[o][k] = seen[o][k]
        \/ x = <<o, k>> /\ seen'[o][k] = e
  <2>. HIDE DEF e
  <2>. QED BY OnePacket DEF e
<1>. HIDE DEF e
<1>2. /\ IsFiniteSet(WarningsTo(n)) /\ Cardinality(WarningsTo(n)) \in Nat
      /\ IsFiniteSet(SessionsOf(n)) /\ Cardinality(SessionsOf(n)) \in Nat
      /\ IsFiniteSet(ConfirmationsTo(n))
  BY FS_CardinalityType DEF Paid
<1>3. SessionsOf(n)' = SessionsOf(n) /\ SessionsOf(n) \subseteq Conns
  BY DEF SessionsOf
<1>4. Awake(n)' = Awake(n) /\ Cardinality(Awake(n)) \in Nat
  BY <1>2, Countable DEF Awake, ActiveSlots
<1>5. ASSUME NEW w \in WarningsTo(n)'
      PROVE  w \in WarningsTo(n) \/ (w = x /\ Warns(e, n))
  <2>1. PICK d \in Conns : \E k \in Warnings(d, n)' : w = <<d, k>>
    BY <1>5 DEF WarningsTo
  <2>2. PICK k \in Warnings(d, n)' : w = <<d, k>>
    BY <2>1
  <2>3. k \in DOMAIN seen'[d] /\ Warns(seen'[d][k], n)
    BY <2>2 DEF Warnings, Warns, SaysStatus
  <2>4. CASE k \in DOMAIN seen[d] /\ seen'[d][k] = seen[d][k]
    <3>1. k \in Warnings(d, n)
      BY <2>3, <2>4 DEF Warnings, Warns
    <3>. QED BY <2>2, <3>1, Pairs
  <2>5. CASE x = <<d, k>> /\ seen'[d][k] = e
    BY <2>2, <2>3, <2>5
  <2>. QED BY <1>1, <2>3, <2>4, <2>5
<1>6. /\ IsFiniteSet(WarningsTo(n)')
      /\ Cardinality(WarningsTo(n)') <= Cardinality(WarningsTo(n)) + 1
  <2>1. WarningsTo(n)' \subseteq WarningsTo(n) \cup {x}
    BY <1>5
  <2>. QED BY <1>2, <2>1, OneMore
<1>7. ASSUME ~ Warns(e, n)
      PROVE  Cardinality(WarningsTo(n)') <= Cardinality(WarningsTo(n)) + 0
  <2>1. WarningsTo(n)' \subseteq WarningsTo(n)
    BY <1>5, <1>7
  <2>2. /\ Cardinality(WarningsTo(n)') <= Cardinality(WarningsTo(n))
        /\ Cardinality(WarningsTo(n)') \in Nat
    BY <1>2, <2>1, Within
  <2>. QED BY <1>2, <2>2
<1>8. ASSUME NEW c \in Conns, NEW k
      PROVE  k \in Confirmations(c)' <=> /\ k \in DOMAIN seen'[c]
                                         /\ seen'[c][k].command = "OK"
                                         /\ SaysStatus(seen'[c][k]) # {}
  BY DEF Confirmations, SaysStatus
<1>9. ConfirmationsTo(n) \subseteq ConfirmationsTo(n)'
  <2>1. ASSUME NEW w \in ConfirmationsTo(n) PROVE w \in ConfirmationsTo(n)'
    <3>1. PICK c \in SessionsOf(n) : \E k \in Confirmations(c) : w = <<c, k>>
      BY <2>1, Pairs
    <3>2. PICK k \in Confirmations(c) : w = <<c, k>>
      BY <3>1
    <3>3. k \in Confirmations(c)'
      BY <1>0, <1>3, <1>8, <3>1, <3>2 DEF Confirmations
    <3>. QED BY <1>3, <3>2, <3>3 DEF ConfirmationsTo
  <2>. QED BY <2>1
<1>10. ConfirmationsTo(n)' \subseteq ConfirmationsTo(n) \cup {x}
  <2>1. ASSUME NEW w \in ConfirmationsTo(n)' PROVE w \in ConfirmationsTo(n) \/ w = x
    <3>1. PICK c \in SessionsOf(n) : \E k \in Confirmations(c)' : w = <<c, k>>
      BY <1>3, <2>1 DEF ConfirmationsTo
    <3>2. PICK k \in Confirmations(c)' : w = <<c, k>>
      BY <3>1
    <3>3. CASE k \in DOMAIN seen[c] /\ seen'[c][k] = seen[c][k]
      <4>1. k \in Confirmations(c)
        BY <1>3, <1>8, <3>2, <3>3 DEF Confirmations
      <4>. QED BY <3>2, <4>1, Pairs
    <3>. QED BY <1>1, <1>3, <1>8, <3>2, <3>3
  <2>. QED BY <2>1
<1>11. IsFiniteSet(ConfirmationsTo(n)')
  BY <1>2, <1>10, OneMore
<1>12. /\ Cardinality(ConfirmationsTo(n)') >= Cardinality(ConfirmationsTo(n))
       /\ Cardinality(ConfirmationsTo(n)) \in Nat
       /\ Cardinality(ConfirmationsTo(n)') \in Nat
  BY <1>9, <1>11, Within
<1>. QED BY <1>2, <1>3, <1>4, <1>6, <1>7, <1>9, <1>11, <1>12 DEF e

\* A text or an announcement is no warning: users are not called SERVER.
LEMMA FanOutWarn ==
  ASSUME ChatInv, SeenType, WarnInv, server_up, server_up',
         "SERVER" \notin Names \cup {None},
         NEW c \in Conns, NEW i \in Slots, FanOut(c, i),
         Deliver(todo[c].to[i], todo[c].out, c)
  PROVE  WarnInv'
<1>. ChatTypeOK
  BY DEF ChatInv
<1>1. /\ wd_pc # "send" => Noticed = {}
      /\ \A d \in Conns : WorkOK(d)
      /\ \A n \in Names : Paid(n)
  BY DEF WarnInv
<1>2. /\ UNCHANGED <<username, g_clients, pc, wd_pc, wd_events, nreq>>
      /\ \A d \in Conns \ {c} : todo'[d] = todo[d]
      /\ todo'[c].out = todo[c].out /\ todo'[c].reply = todo[c].reply
      /\ todo'[c].to = [todo[c].to EXCEPT ![i] = None]
      /\ i \in Pending(c) /\ pc[c] \in {"send", "close"}
  BY DEF FanOut, session_vars, wd_vars, cm_vars, First, ChatTypeOK
<1>3. ASSUME NEW d \in Conns PROVE WorkOK(d)'
  <2>1. WorkOK(d) /\ Pending(d)' \subseteq Pending(d)
    BY <1>1, <1>2 DEF Pending, ChatTypeOK
  <2>2. todo'[d].out = todo[d].out /\ todo'[d].reply = todo[d].reply
    BY <1>2
  <2>. QED BY <1>2, <2>1, <2>2 DEF WorkOK, Says, Text, make_packet
<1>4. ASSUME NEW n \in Names PROVE ~ Warns(Event(todo[c].out, c), n)
  <2>1. CASE pc[c] = "send"
    <3>1. PICK m \in Names \cup {"ALL"} : todo[c].out = Says(c, m)
      BY <1>1, <1>2, <2>1 DEF WorkOK
    <3>2. username[c] # "SERVER"
      BY DEF ChatTypeOK
    <3>. QED BY <3>1, <3>2 DEF Warns, Event, Says, make_packet, SaysStatus
  <2>2. CASE pc[c] = "close"
    <3>1. todo[c].out.command = "DISCONNECTED"
      BY <1>1, <1>2, <2>2 DEF WorkOK, Goodbyes, make_packet
    <3>. QED BY <3>1 DEF Warns, Event
  <2>. QED BY <1>2, <2>1, <2>2
<1>5. ASSUME NEW n \in Names PROVE Paid(n)'
  <2>1. Paid(n) /\ IsFiniteSet(SessionsOf(n))
    BY <1>1 DEF Paid
  <2>2. ToWarn(n)' = ToWarn(n) /\ Cardinality(ToWarn(n)) \in Nat
    BY <1>2, <2>1, Countable DEF ToWarn
  <2>3. Confirming(n)' = Confirming(n) /\ Cardinality(Confirming(n)) \in Nat
    <3>1. \A d \in Conns : todo'[d].reply = todo[d].reply
      BY <1>2
    <3>. QED BY <1>2, <2>1, <3>1, Countable DEF Confirming, SessionsOf, SaysStatus
  <2>4. /\ Cardinality(ToWarn(n)') <= Cardinality(ToWarn(n)) + 0
        /\ Cardinality(Confirming(n)') >= Cardinality(Confirming(n)) + 0
        /\ 0 \in Int /\ 0 + 0 + 0 <= 0 + 0 + 0
    BY <2>2, <2>3
  <2>. QED BY <1>2, <1>4, <2>1, <2>4, SentPaid, StillPaid
<1>6. wd_pc' # "send" => Noticed' = {}
  BY <1>1, <1>2 DEF Noticed
<1>. QED BY <1>3, <1>5, <1>6 DEF WarnInv

\* The answer that confirms a change of status is counted when it is written.
LEMMA ReplyWarn ==
  ASSUME ChatInv, SeenType, WarnInv, server_up, server_up', "OK" \in Traced,
         NEW c \in Conns, Reply(c), Deliver(sockfd[c], todo[c].reply, c)
  PROVE  WarnInv'
<1>. DEFINE e == Event(todo[c].reply, c)
<1>. ChatTypeOK /\ LocalsOK
  BY DEF ChatInv
<1>1. /\ wd_pc # "send" => Noticed = {}
      /\ \A d \in Conns : WorkOK(d)
      /\ \A n \in Names : Paid(n)
  BY DEF WarnInv
<1>2. /\ UNCHANGED <<username, g_clients, wd_pc, wd_events, nreq>>
      /\ \A d \in Conns \ {c} : todo'[d] = todo[d] /\ pc'[d] = pc[d]
      /\ todo'[c] = Nothing
      /\ pc[c] \in {"send", "logout"} /\ pc'[c] \in {"recv", "remove"}
  BY DEF Reply, Goto, session_vars, wd_vars, cm_vars, ChatTypeOK
<1>3. ASSUME NEW d \in Conns PROVE WorkOK(d)'
  <2>1. CASE d = c
    BY <1>2, <2>1 DEF WorkOK, Nothing, Work, NoSocks, Pending
  <2>2. CASE d # c
    <3>1. pc'[d] = pc[d] /\ todo'[d] = todo[d] /\ WorkOK(d)
      BY <1>1, <1>2, <2>2
    <3>2. username'[d] = username[d] /\ nreq'[d] = nreq[d]
      BY <1>2
    <3>. QED BY <3>1, <3>2 DEF WorkOK, Pending, Says, Text, make_packet
  <2>. QED BY <2>1, <2>2
<1>4. /\ e.command = todo[c].reply.command /\ e.payload = todo[c].reply.payload
      /\ e.command \in Replies
  BY <1>1, <1>2 DEF Event, WorkOK
<1>5. \A n \in Names : ~ Warns(e, n)
  <2>. HIDE DEF e
  <2>. QED BY <1>4 DEF Warns, Replies
<1>6. c \in Owners(sockfd[c])
  <2>1. sockfd[c] \in Socks
    BY <1>2 DEF LocalsOK, Running, SessionPC
  <2>. QED BY <2>1, SocksAssumption DEF Owners
<1>7. ASSUME NEW n \in Names PROVE Paid(n)'
  <2>1. Paid(n) /\ IsFiniteSet(SessionsOf(n)) /\ SessionsOf(n)' = SessionsOf(n)
    BY <1>1, <1>2 DEF Paid, SessionsOf
  <2>2. ToWarn(n)' = ToWarn(n) /\ Cardinality(ToWarn(n)) \in Nat
    BY <1>2, <2>1, Countable DEF ToWarn
  <2>3. IsFiniteSet(Confirming(n)') /\ Cardinality(Confirming(n)') \in Nat
    <3>1. Confirming(n)' \subseteq SessionsOf(n)
      BY <2>1 DEF Confirming
    <3>. QED BY <2>1, <3>1, Within
  <2>4. \A d \in Confirming(n) : d # c => d \in Confirming(n)'
    BY <1>2 DEF Confirming, SessionsOf, SaysStatus
  <2>5. Cardinality(ToWarn(n)') <= Cardinality(ToWarn(n)) + 0
    BY <2>2
  <2>6. /\ ~ Warns(Event(todo[c].reply, c), n)
        /\ UNCHANGED <<username, g_clients>>
    BY <1>2, <1>5
  <2>7. CASE c \notin Confirming(n)
    <3>1. Confirming(n) \subseteq Confirming(n)'
      BY <2>4, <2>7
    <3>2. /\ Cardinality(Confirming(n)') >= Cardinality(Confirming(n))
          /\ Cardinality(Confirming(n)) \in Nat
      BY <2>3, <3>1, Within
    <3>3. /\ Cardinality(Confirming(n)') >= Cardinality(Confirming(n)) + 0
          /\ 0 \in Int /\ 0 + 0 + 0 <= 0 + 0 + 0
      BY <2>3, <3>2
    <3>. QED BY <2>1, <2>5, <2>6, <3>3, SentPaid, StillPaid
  <2>8. CASE c \in Confirming(n)
    <3>1. Confirming(n) \subseteq Confirming(n)' \cup {c}
      BY <2>4
    <3>2. /\ Cardinality(Confirming(n)) <= Cardinality(Confirming(n)') + 1
          /\ Cardinality(Confirming(n)) \in Nat
      BY <2>3, <3>1, OneMore
    <3>3. /\ c \in SessionsOf(n) /\ todo[c].reply.command = "OK"
          /\ SaysStatus(todo[c].reply) # {}
      BY <2>8 DEF Confirming
    <3>4. Grows(c, e)
      <4>1. todo[c].reply.command \in Traced
        BY <3>3
      <4>. HIDE DEF e
      <4>. QED BY <1>6, <4>1, DeliverSeen DEF e
    <3>5. e.command = "OK" /\ SaysStatus(e) # {}
      <4>1. e.command = "OK"
        BY <1>4, <3>3
      <4>2. todo[c].reply.payload = e.payload
        BY <1>4
      <4>. HIDE DEF e
      <4>. QED BY <3>3, <4>1, <4>2 DEF SaysStatus
    <3>. HIDE DEF e
    <3>6. PICK k : /\ k \notin DOMAIN seen[c]
                   /\ DOMAIN seen'[c] = DOMAIN seen[c] \cup {k}
                   /\ seen'[c][k] = e
      BY <3>4 DEF Grows
    <3>7. k \in Confirmations(c)' /\ k \notin Confirmations(c)
      BY <3>5, <3>6 DEF Confirmations, SaysStatus
    <3>8. <<c, k>> \in ConfirmationsTo(n)'
      BY <2>1, <3>3, <3>7 DEF ConfirmationsTo
    <3>9. <<c, k>> \notin ConfirmationsTo(n)
      <4>1. SUFFICES ASSUME <<c, k>> \in ConfirmationsTo(n) PROVE FALSE
        OBVIOUS
      <4>2. PICK d \in SessionsOf(n) : \E j \in Confirmations(d) : <<c, k>> = <<d, j>>
        BY <4>1, Pairs
      <4>. QED BY <3>7, <4>2
    <3>10. /\ IsFiniteSet(ConfirmationsTo(n)')
           /\ ConfirmationsTo(n) \subseteq ConfirmationsTo(n)'
      BY <2>1, <2>6, SentPaid
    <3>11. Cardinality(ConfirmationsTo(n)') >= Cardinality(ConfirmationsTo(n)) + 1
      <4>1. /\ Cardinality(ConfirmationsTo(n)) + 1 <= Cardinality(ConfirmationsTo(n)')
            /\ Cardinality(ConfirmationsTo(n)) \in Nat
            /\ Cardinality(ConfirmationsTo(n)') \in Nat
        BY <3>8, <3>9, <3>10, OneNew
      <4>. QED BY <4>1
    <3>12. /\ Cardinality(Confirming(n)') >= Cardinality(Confirming(n)) + (-1)
           /\ 0 \in Int /\ 1 \in Int /\ -1 \in Int /\ 0 + 0 + 0 <= 0 + 1 + (-1)
      BY <2>3, <3>2
    <3>. QED BY <2>1, <2>5, <2>6, <3>11, <3>12, SentPaid, StillPaid
  <2>. QED BY <2>7, <2>8
<1>8. wd_pc' # "send" => Noticed' = {}
  BY <1>1, <1>2 DEF Noticed
<1>. QED BY <1>3, <1>7, <1>8 DEF WarnInv

\* A warning sent is one less to send.
LEMMA WdSendWarn ==
  ASSUME ChatInv, SeenType, WarnInv, server_up, server_up',
         NEW i \in Slots, WdSend(i),
         Deliver(wd_events[i].sockfd, Notice(i), None)
  PROVE  WarnInv'
<1>. DEFINE e == Event(Notice(i), None)
<1>. ChatTypeOK
  BY DEF ChatInv
<1>1. /\ \A d \in Conns : WorkOK(d)
      /\ \A n \in Names : Paid(n)
  BY DEF WarnInv
<1>2. /\ UNCHANGED <<username, g_clients, pc, todo, nreq, wd_pc>>
      /\ wd_pc = "send" /\ wd_events[i] # None
      /\ wd_events' = [wd_events EXCEPT ![i] = None]
  BY DEF WdSend, session_vars, cm_vars, First, Noticed
<1>3. \A d \in Conns : WorkOK(d)'
  BY <1>1, <1>2 DEF WorkOK, Pending, Says, Text, make_packet
<1>4. e.target = wd_events[i].username
  BY DEF Event, Notice, make_packet
<1>5. ASSUME NEW n \in Names PROVE Paid(n)'
  <2>1. Paid(n) /\ IsFiniteSet(SessionsOf(n))
    BY <1>1 DEF Paid
  <2>2. Confirming(n)' = Confirming(n) /\ Cardinality(Confirming(n)) \in Nat
    BY <1>2, <2>1, Countable DEF Confirming, SessionsOf, SaysStatus
  <2>3. Cardinality(Confirming(n)') >= Cardinality(Confirming(n)) + 0
    BY <2>2
  <2>4. wd_events'[i] = None /\ \A j \in Slots \ {i} : wd_events'[j] = wd_events[j]
    BY <1>2 DEF ChatTypeOK
  <2>5. ToWarn(n)' = ToWarn(n) \ {i} /\ IsFiniteSet(ToWarn(n))
    BY <2>1, <2>4, Countable DEF ToWarn
  <2>6. CASE wd_events[i].username = n
    <3>1. i \in ToWarn(n) \ ToWarn(n)' /\ ToWarn(n)' \subseteq ToWarn(n)
      BY <1>2, <2>5, <2>6 DEF ToWarn
    <3>2. /\ Cardinality(ToWarn(n)') + 1 <= Cardinality(ToWarn(n))
          /\ Cardinality(ToWarn(n)) \in Nat /\ Cardinality(ToWarn(n)') \in Nat
      BY <2>5, <3>1, OneNew
    <3>3. /\ Cardinality(ToWarn(n)') <= Cardinality(ToWarn(n)) + (-1)
          /\ 0 \in Int /\ 1 \in Int /\ -1 \in Int /\ 1 + (-1) + 0 <= 0 + 0 + 0
      BY <3>2
    <3>. QED BY <1>2, <2>1, <2>3, <3>3, SentPaid, StillPaid
  <2>7. CASE wd_events[i].username # n
    <3>1. ~ Warns(Event(Notice(i), None), n)
      BY <1>4, <2>7 DEF Warns
    <3>2. /\ Cardinality(ToWarn(n)') <= Cardinality(ToWarn(n))
          /\ Cardinality(ToWarn(n)) \in Nat /\ Cardinality(ToWarn(n)') \in Nat
      BY <2>5, Within
    <3>3. /\ Cardinality(ToWarn(n)') <= Cardinality(ToWarn(n)) + 0
          /\ 0 \in Int /\ 0 + 0 + 0 <= 0 + 0 + 0
      BY <3>2
    <3>. QED BY <1>2, <2>1, <2>3, <3>1, <3>3, SentPaid, StillPaid
  <2>. QED BY <2>6, <2>7
<1>. QED BY <1>2, <1>3, <1>5 DEF WarnInv

\* Nobody has registered and nobody was warned.
LEMMA WarnInitInv == DeliveryInit => WarnStrong
<1>1. SUFFICES ASSUME DeliveryInit PROVE WarnStrong
  OBVIOUS
<1>2. ChatInv /\ SeenType
  BY <1>1, ChatInit, DeliveryInitInv DEF DeliveryInit, DeliveryStrong
<1>3. /\ wd_pc = "awake" /\ Noticed = {}
      /\ \A c \in Conns : WorkOK(c)
  BY <1>1 DEF DeliveryInit, Init, Noticed, NoSocks, WorkOK, Pending, Nothing, Work
<1>4. ASSUME NEW n \in Names PROVE Paid(n)
  <2>1. n # None
    BY NamesAssumption
  <2>2. SessionsOf(n) = {} /\ ToWarn(n) = {} /\ Awake(n) = {}
    BY <1>1, <2>1 DEF DeliveryInit, Init, SessionsOf, ToWarn, NoSocks, Awake,
       ActiveSlots, cm_init, Zeroed
  <2>3. Confirming(n) = {} /\ ConfirmationsTo(n) = {}
    BY <2>2 DEF Confirming, ConfirmationsTo
  <2>4. WarningsTo(n) = {}
    <3>1. \A d \in Conns : Warnings(d, n) = {}
      BY <1>1 DEF DeliveryInit, Warnings
    <3>. QED BY <3>1 DEF WarningsTo
  <2>. QED BY <2>2, <2>3, <2>4, FS_EmptySet DEF Paid
<1>. QED BY <1>2, <1>3, <1>4 DEF WarnStrong, WarnInv

\* The inductive step.
LEMMA WarnNextInv ==
  ASSUME "SERVER" \notin Names \cup {None}, "OK" \in Traced,
         WarnStrong, [DeliveryNext]_delivery_vars
  PROVE  WarnStrong'
<1>. ChatInv /\ SeenType /\ WarnInv /\ [Next]_vars
  BY DeliveryIsNext DEF WarnStrong
<1>1. ChatInv'
  BY ChatNext
<1>2. CASE UNCHANGED delivery_vars
  <2>1. SeenType'
    BY <1>2 DEF delivery_vars, SeenType
  <2>2. WarnInv'
    <3>1. UNCHANGED <<server_up, wd_pc, wd_events, pc, todo, username, nreq,
                      g_clients, seen>>
      BY <1>2 DEF delivery_vars, vars, session_vars, wd_vars, cm_vars
    <3>2. \A c \in Conns : WorkOK(c) => WorkOK(c)'
      BY <3>1 DEF WorkOK, Pending, Says, Text, make_packet
    <3>3. ASSUME NEW n \in Names, Paid(n) PROVE Paid(n)'
      <4>1. /\ \A d \in Conns : Warnings(d, n)' = Warnings(d, n)
            /\ \A c \in Conns : Confirmations(c)' = Confirmations(c)
        BY <3>1 DEF Warnings, Confirmations, SaysStatus
      <4>2. WarningsTo(n)' = WarningsTo(n) /\ SessionsOf(n)' = SessionsOf(n)
        BY <3>1, <4>1 DEF WarningsTo, SessionsOf
      <4>3. ConfirmationsTo(n)' = ConfirmationsTo(n)
        BY <4>1, <4>2 DEF ConfirmationsTo, SessionsOf
      <4>4. ToWarn(n)' = ToWarn(n) /\ Awake(n)' = Awake(n)
        BY <3>1 DEF ToWarn, Awake, ActiveSlots
      <4>5. Confirming(n)' = Confirming(n)
        BY <3>1, <4>2 DEF Confirming, SaysStatus
      <4>. QED BY <3>3, <4>2, <4>3, <4>4, <4>5 DEF Paid
    <3>. QED BY <3>1, <3>2, <3>3 DEF WarnInv, Noticed
  <2>. QED BY <1>1, <2>1, <2>2 DEF WarnStrong
<1>3. CASE QuietStep
  <2>1. SeenType'
    BY <1>3 DEF QuietStep, SeenType
  <2>2. WarnInv'
    BY <1>3, QuietWarn
  <2>. QED BY <1>1, <2>1, <2>2 DEF WarnStrong
<1>4. ASSUME NEW a, NEW s, NEW packet, Deliver(s, packet, a), server_up' => WarnInv'
      PROVE  WarnStrong'
  <2>1. SeenType'
    BY <1>4, DeliverSeen
  <2>. QED BY <1>1, <1>4, <2>1 DEF WarnStrong, WarnInv
<1>5. ASSUME NEW c \in Conns, NEW i \in Slots, server_up, FanOut(c, i),
             Deliver(todo[c].to[i], todo[c].out, c)
      PROVE  WarnStrong'
  BY <1>4, <1>5, FanOutWarn
<1>6. ASSUME NEW c \in Conns, server_up, Reply(c),
             Deliver(sockfd[c], todo[c].reply, c)
      PROVE  WarnStrong'
  BY <1>4, <1>6, ReplyWarn
<1>7. ASSUME NEW i \in Slots, server_up, WdSend(i),
             Deliver(wd_events[i].sockfd, Notice(i), None)
      PROVE  WarnStrong'
  BY <1>4, <1>7, WdSendWarn
<1>. QED BY <1>2, <1>3, <1>5, <1>6, <1>7 DEF DeliveryNext, QuietStep

\* With the warnings still to be sent left out, the balance is the property.
LEMMA WarnImplies == WarnStrong => WarnedOnce
<1>1. SUFFICES ASSUME WarnStrong, server_up, NEW n \in Names
               PROVE  Cardinality(WarningsTo(n))
                        <= Cardinality(SessionsOf(n)) + Cardinality(ConfirmationsTo(n))
                             + Cardinality({c \in SessionsOf(n) : pc[c] = "send"})
  BY DEF WarnedOnce
<1>2. Paid(n)
  BY <1>1 DEF WarnStrong, WarnInv
<1>3. IsFiniteSet({c \in SessionsOf(n) : pc[c] = "send"})
  BY <1>2, Within DEF Paid
<1>4. Confirming(n) \subseteq {c \in SessionsOf(n) : pc[c] = "send"}
  BY DEF Confirming
<1>5. /\ Cardinality(Confirming(n)) <= Cardinality({c \in SessionsOf(n) : pc[c] = "send"})
      /\ Cardinality({c \in SessionsOf(n) : pc[c] = "send"}) \in Nat
  BY <1>3, <1>4, Within
<1>6. /\ Cardinality(ToWarn(n)) \in Nat /\ Cardinality(Awake(n)) \in Nat
      /\ Cardinality(Confirming(n)) \in Nat
      /\ Cardinality(WarningsTo(n)) \in Nat /\ Cardinality(SessionsOf(n)) \in Nat
      /\ Cardinality(ConfirmationsTo(n)) \in Nat
  BY <1>2, Countable, FS_CardinalityType DEF Paid
<1>. DEFINE w == Cardinality(WarningsTo(n))
            e == Cardinality(ToWarn(n))
            a == Cardinality(Awake(n))
            s == Cardinality(SessionsOf(n))
            m == Cardinality(ConfirmationsTo(n))
            f == Cardinality(Confirming(n))
            g == Cardinality({c \in SessionsOf(n) : pc[c] = "send"})
<1>7. w + e + a <= s + m + f
  BY <1>2 DEF Paid
<1>. HIDE DEF w, e, a, s, m, f, g
<1>8. w <= s + m + g
  BY <1>5, <1>6, <1>7 DEF w, e, a, s, m, f, g
<1>. QED BY <1>8 DEF w, s, m, g

\* Rounds of the watchdog, however they interleave with commands, departures
\* and reused descriptors, send no warning that a registration or a change of
\* status has not made possible: a silent user is told once.  A user called
\* "SERVER" is left out, whose texts look like warnings.
THEOREM SilenceIsToldOnce ==
  "SERVER" \notin Names \cup {None} /\ "OK" \in Traced =>
    (DeliverySpec => []WarnedOnce)
<1>1. SUFFICES ASSUME "SERVER" \notin Names \cup {None}, "OK" \in Traced
               PROVE  DeliverySpec => []WarnedOnce
  OBVIOUS
<1>2. WarnStrong /\ [DeliveryNext]_delivery_vars => WarnStrong'
  BY <1>1, WarnNextInv
<1>. QED BY <1>2, WarnInitInv, WarnImplies, PTL DEF DeliverySpec
==============================================================================
