----------------------------- MODULE GatewayProofs -----------------------------
(***************************************************************************)
(* Proofs about Gateway, for any number of connections and names, any      *)
(* packet size and any number of requests and packets in flight.           *)
(*                                                                         *)
(* At most one connection is live, and it is the session's (LinkInv): that *)
(* is why closeTcp leaves nothing behind.  What tcpBuffer and the kernel   *)
(* hold of it is a row of packets, and tcpBuffer alone is one, perhaps     *)
(* unfinished (StreamInv): that is why what the loop takes out is a packet *)
(* that the host sent.  Where somebody is asked about, in the bytes or in  *)
(* the requests behind them, the queue of targets has that user in the     *)
(* same order (AnswersInv): that is why an answer gets its own target.     *)
(***************************************************************************)
EXTENDS Gateway, PacketBytesProofs

Live == {"up", "dropped"}

LinkInv ==
  /\ \A t \in Links : link[t] \in Live => tcp = t
  /\ \A t, l \in Links :
       link[t] = "connecting" /\ link[l] \in Live \cup {"connecting"} => t = l

StreamInv ==
  /\ Frames(tcpBuffer)
  /\ \A t \in Links :
       /\ link[t] \in Live => Frames(tcpBuffer \o inbox[t])
       /\ link[t] = "up" => Ends(tcpBuffer \o inbox[t], None, 0)
       /\ link[t] \in {"none", "connecting"} => inbox[t] = <<>>

-----------------------------------------------------------------------------
(* Types.                                                                  *)

\* The conjuncts of GatewayTypeOK about the session and the connections, and
\* those about bytes.
SessionTypes ==
  /\ ws \in {"open", "closing", "leaving", "closed"}
  /\ tcp \in Links \cup {None}
  /\ username \in Names \cup {None}
  /\ pendingInfoTargets \in Seq(Names)
  /\ link \in [Links -> {"none", "connecting", "up", "dropped", "destroyed", "gone"}]
  /\ registering \in [Links -> Names \cup {None}]
  /\ out \in [Links -> Seq(Outgoing)]
  /\ shown \subseteq Event
  /\ refused \in BOOLEAN

ByteTypes ==
  /\ tcpBuffer \in Seq(Byte(Packet))
  /\ tcp = None => tcpBuffer = <<>>
  /\ inbox \in [Links -> Seq(Byte(Packet))]

\* The two make up the type of the state.
LEMMA TypeParts == GatewayTypeOK <=> SessionTypes /\ ByteTypes
BY DEF GatewayTypeOK, SessionTypes, ByteTypes

\* A connection that is started was not in use.
LEMMA StartedUnused ==
  ASSUME NEW u, startTcpSession(u)
  PROVE  \E t \in Links : /\ link[t] = "none"
                          /\ Moves(t, "connecting")
                          /\ registering' = [registering EXCEPT ![t] = u]
<1>1. (CHOOSE l \in Unused : TRUE) \in Unused
  BY DEF startTcpSession
<1>. QED BY <1>1 DEF startTcpSession, Unused

\* What closeTcp does to the connections: the session's, if it is usable, is
\* destroyed and emptied.
LEMMA ClosedLinks ==
  ASSUME SessionTypes, closeTcp, NEW t \in Links
  PROVE  /\ Usable /\ t = tcp =>
              link'[t] = "destroyed" /\ out'[t] = <<>>
         /\ ~(Usable /\ t = tcp) => link'[t] = link[t] /\ out'[t] = out[t]
BY DEF closeTcp, Moves, SessionTypes

\* Every handler leaves the session well formed.
LEMMA SessionTypeStep ==
  ASSUME SessionTypes, [GatewayNext]_gw_vars
  PROVE  SessionTypes'
<1>. USE DEF SessionTypes
<1>0. /\ <<>> \in Seq(Outgoing) /\ <<>> \in Seq(Names)
      /\ \A c \in {"REGISTER", "OTHER"} :
           [command |-> c, about |-> None] \in Outgoing
      /\ \A n \in Names : [command |-> "INFO", about |-> n] \in Outgoing
  BY DEF Outgoing
<1>1. ASSUME NEW c, NEW n, [command |-> c, about |-> n] \in Outgoing,
             Usable, Forward(c, n)
      PROVE  out' \in [Links -> Seq(Outgoing)]
  <2>. DEFINE r == [command |-> c, about |-> n]
  <2>1. out' = IF link[tcp] = "up" THEN [out EXCEPT ![tcp] = Append(@, r)] ELSE out
    BY <1>1 DEF Forward, sendPacket
  <2>2. tcp \in Links
    BY <1>1 DEF Usable
  <2>3. Append(out[tcp], r) \in Seq(Outgoing)
    BY <1>1, <2>2
  <2>. HIDE DEF r
  <2>. QED BY <2>1, <2>2, <2>3
<1>2. ASSUME NEW u \in Names, Register(u) PROVE SessionTypes'
  <2>1. CASE startTcpSession(u)
    <3>1. UNCHANGED <<ws, tcp, username, pendingInfoTargets, out, shown, refused>>
      BY <1>2, <2>1 DEF Register, startTcpSession, host_vars
    <3>2. PICK t \in Links : /\ Moves(t, "connecting")
                             /\ registering' = [registering EXCEPT ![t] = u]
      BY <2>1, StartedUnused
    <3>. QED BY <3>1, <3>2 DEF Moves
  <2>2. CASE Usable /\ username' = u /\ Forward("REGISTER", None)
               /\ UNCHANGED <<tcp, link, registering>>
    <3>1. out' \in [Links -> Seq(Outgoing)]
      BY <1>0, <1>1, <2>2
    <3>2. UNCHANGED <<ws, pendingInfoTargets, shown, refused>>
      BY <1>2, <2>2 DEF Register, Forward, sendPacket
    <3>. QED BY <2>2, <3>1, <3>2
  <2>. QED BY <1>2, <2>1, <2>2 DEF Register
<1>3. ASSUME NEW n \in Names, Info(n) PROVE SessionTypes'
  <2>1. pendingInfoTargets' \in Seq(Names)
    BY <1>3 DEF Info
  <2>2. out' \in [Links -> Seq(Outgoing)] /\ refused' = refused
    <3>1. CASE Usable /\ Forward("INFO", n)
      BY <1>0, <1>1, <3>1 DEF Forward, sendPacket
    <3>. QED BY <1>3, <3>1 DEF Info, host_vars
  <2>. QED BY <1>3, <2>1, <2>2 DEF Info
<1>4. ASSUME OtherRequest PROVE SessionTypes'
  <2>1. out' \in [Links -> Seq(Outgoing)] /\ refused' = refused
    BY <1>0, <1>1, <1>4 DEF OtherRequest, Forward, sendPacket
  <2>. QED BY <1>4, <2>1 DEF OtherRequest
<1>5. ASSUME closeTcp
      PROVE  /\ tcp' \in Links \cup {None} /\ pendingInfoTargets' \in Seq(Names)
             /\ link' \in [Links -> {"none", "connecting", "up", "dropped",
                                     "destroyed", "gone"}]
             /\ out' \in [Links -> Seq(Outgoing)]
             /\ refused' = refused
  BY <1>0, <1>5 DEF closeTcp, Moves
<1>6. ASSUME Logout \/ WsCloseEvent \/ WsErrorEvent PROVE SessionTypes'
  BY <1>5, <1>6 DEF Logout, WsCloseEvent, WsErrorEvent
<1>7. ASSUME BrowserCloses PROVE SessionTypes'
  BY <1>7 DEF BrowserCloses, host_vars
<1>8. ASSUME NEW t \in Links, Connected(t) PROVE SessionTypes'
  <2>1. out' \in [Links -> Seq(Outgoing)]
    <3>1. <<[command |-> "REGISTER", about |-> None]>> \in Seq(Outgoing)
      BY <1>0
    <3>. QED BY <1>8, <3>1 DEF Connected
  <2>. QED BY <1>8, <2>1 DEF Connected, Moves
<1>9. ASSUME NEW t \in Links, ConnectFails(t) \/ TcpCloseEvent(t) PROVE SessionTypes'
  BY <1>9 DEF ConnectFails, TcpCloseEvent, Moves, host_vars
<1>10. ASSUME NEW t \in Links, DataEvent(t) PROVE SessionTypes'
  BY <1>10 DEF DataEvent
<1>11. ASSUME TakePacket PROVE SessionTypes'
  <2>1. pendingInfoTargets' \in Seq(Names) /\ shown' \subseteq Event
    BY <1>11 DEF TakePacket, toClientEvent, shift
  <2>. QED BY <1>11, <2>1 DEF TakePacket, host_vars
<1>12. ASSUME NEW t \in Links, HostAnswers(t) PROVE SessionTypes'
  <2>1. out' \in [Links -> Seq(Outgoing)] /\ refused' \in BOOLEAN
    <3>1. out[t] \in Seq(Outgoing) /\ out[t] # <<>>
      BY <1>12 DEF HostAnswers
    <3>2. Tail(out[t]) \in Seq(Outgoing)
      BY <3>1
    <3>3. out' = [out EXCEPT ![t] = Tail(@)]
      BY <1>12 DEF HostAnswers
    <3>4. refused' \in BOOLEAN
      BY <1>12 DEF HostAnswers
    <3>. QED BY <3>2, <3>3, <3>4
  <2>. QED BY <1>12, <2>1 DEF HostAnswers
<1>13. ASSUME NEW t \in Links, HostSends(t) PROVE SessionTypes'
  BY <1>13 DEF HostSends
<1>14. ASSUME NEW t \in Links, HostDrops(t) PROVE SessionTypes'
  BY <1>0, <1>14 DEF HostDrops, Moves
<1>15. CASE UNCHANGED gw_vars
  BY <1>15 DEF gw_vars, host_vars
<1>. QED
  BY <1>2, <1>3, <1>4, <1>6, <1>7, <1>8, <1>9, <1>10, <1>11, <1>12, <1>13, <1>14, <1>15
     DEF GatewayNext, FromBrowser, FromHost

-----------------------------------------------------------------------------
(* Connections and their streams.                                          *)

\* At most one connection is live or being made, and a live one is the session's.
LEMMA LinkStep ==
  ASSUME SessionTypes, LinkInv, [GatewayNext]_gw_vars
  PROVE  LinkInv'
<1>. USE DEF LinkInv, Live
<1>1. ASSUME NEW u \in Names, Register(u) PROVE LinkInv'
  <2>1. CASE startTcpSession(u) /\ ~Usable
    <3>1. PICK t \in Links : link[t] = "none" /\ Moves(t, "connecting")
      BY <2>1, StartedUnused
    <3>2. \A l \in Links : link[l] \notin {"up", "dropped", "connecting"}
      BY <1>1, <2>1, GatewayAssumption DEF Register, Usable, Destroyed
    <3>. QED BY <3>1, <3>2 DEF Moves, SessionTypes
  <2>2. CASE UNCHANGED <<tcp, link, registering>>
    BY <2>2
  <2>. QED BY <1>1, <2>1, <2>2 DEF Register
<1>2. ASSUME closeTcp PROVE LinkInv'
  <2>1. \A t \in Links : link'[t] = link[t] \/ link'[t] = "destroyed"
    BY <1>2, ClosedLinks
  <2>2. \A t \in Links : link'[t] \notin Live
    BY <1>2, <2>1, ClosedLinks, GatewayAssumption DEF Usable, Destroyed, SessionTypes
  <2>. QED BY <2>1, <2>2
<1>3. ASSUME Logout \/ WsCloseEvent \/ WsErrorEvent PROVE LinkInv'
  BY <1>2, <1>3 DEF Logout, WsCloseEvent, WsErrorEvent
<1>4. ASSUME \/ OtherRequest \/ BrowserCloses \/ TakePacket
             \/ \E n \in Names : Info(n)
             \/ \E t \in Links : DataEvent(t) \/ HostAnswers(t) \/ HostSends(t)
      PROVE  LinkInv'
  <2>1. UNCHANGED <<tcp, link>>
    BY <1>4 DEF OtherRequest, BrowserCloses, TakePacket, Info, DataEvent, HostAnswers,
       HostSends
  <2>. QED BY <2>1
<1>5. ASSUME NEW t \in Links, Connected(t) PROVE LinkInv'
  BY <1>5 DEF Connected, Moves, SessionTypes
<1>6. ASSUME NEW t \in Links, ConnectFails(t) \/ TcpCloseEvent(t) \/ HostDrops(t)
      PROVE  LinkInv'
  BY <1>6 DEF ConnectFails, TcpCloseEvent, HostDrops, Moves, SessionTypes
<1>7. CASE UNCHANGED gw_vars
  BY <1>7 DEF gw_vars
<1>. QED
  BY <1>1, <1>3, <1>4, <1>5, <1>6, <1>7 DEF GatewayNext, FromBrowser, FromHost

\* Steps that touch no bytes of a live connection.
LEMMA StreamsKeep ==
  ASSUME ByteTypes, StreamInv, UNCHANGED <<tcpBuffer, inbox>>, tcp' # None \/ tcp' = tcp,
         \A t \in Links : /\ link'[t] \in Live => link[t] \in Live
                          /\ link'[t] = "up" => link[t] = "up"
                          /\ link'[t] \in {"none", "connecting"}
                               => link[t] \in {"none", "connecting"}
  PROVE  ByteTypes' /\ StreamInv'
BY DEF ByteTypes, StreamInv

\* The first packet in the buffer is one that the host sent; the rest of the
\* buffer, and of the stream, is a row of packets.
LEMMA FrontIsPacket ==
  ASSUME ByteTypes, StreamInv, HoldsPacket
  PROVE  /\ parsePacket(SubSeq(tcpBuffer, 1, PACKET_SIZE)) \in Packet
         /\ Rest(tcpBuffer) \in Seq(Byte(Packet)) /\ Frames(Rest(tcpBuffer))
         /\ \A t \in Links :
              /\ link[t] \in Live => Frames(Rest(tcpBuffer) \o inbox[t])
              /\ link[t] = "up" => Ends(Rest(tcpBuffer) \o inbox[t], None, 0)
<1>1. PICK b \in Seq(Byte(Packet)) : b = tcpBuffer
  BY DEF ByteTypes
<1>2. PACKET_SIZE \in 1 .. Len(b)
  BY <1>1, PacketAssumption, LenProperties DEF HoldsPacket
<1>. DEFINE p == SubSeq(b, 1, PACKET_SIZE)
            q == SubSeq(b, PACKET_SIZE + 1, Len(b))
<1>3. /\ p \in Seq(Byte(Packet)) /\ q \in Seq(Byte(Packet))
      /\ Len(p) = PACKET_SIZE /\ p \o q = b
  BY <1>2, CutInTwo
<1>4. Rest(tcpBuffer) = q /\ SubSeq(tcpBuffer, 1, PACKET_SIZE) = p
  BY <1>1 DEF Rest
<1>. HIDE DEF p, q
<1>5. <<>> \o q = q
  BY ConcatEmptySeq
<1>6. Frames(p \o q)
  BY <1>1, <1>3 DEF StreamInv
<1>7. PICK kind \in Packet : p = Bytes(kind)
  BY <1>3, <1>6, ReadIsWhole
<1>8. Frames(q)
  BY <1>3, <1>5, <1>6, ReadIsWhole
<1>9. parsePacket(p) \in Packet
  <2>1. p[1] = <<kind, 1>>
    BY <1>7, BytesType, PacketAssumption
  <2>. QED BY <1>7, <2>1 DEF parsePacket
<1>10. ASSUME NEW t \in Links, link[t] \in Live
       PROVE  /\ Frames(q \o inbox[t])
              /\ link[t] = "up" => Ends(q \o inbox[t], None, 0)
  <2>1. PICK e \in Seq(Byte(Packet)) : e = inbox[t]
    BY DEF ByteTypes
  <2>2. PICK r \in Seq(Byte(Packet)) : r = q \o e
    BY <1>3, <2>1, ConcatProperties
  <2>3. b \o e = p \o r
    <3>1. (p \o q) \o e = p \o (q \o e)
      <4>1. p \in Seq(Byte(Packet)) /\ q \in Seq(Byte(Packet))
        BY <1>3
      <4>. QED BY <4>1, Associative
    <3>. QED BY <1>3, <2>2, <3>1
  <2>4. Frames(p \o r) /\ (link[t] = "up" => Ends(p \o r, None, 0))
    BY <1>1, <1>10, <2>1, <2>3 DEF StreamInv
  <2>5. <<>> \o r = r
    BY ConcatEmptySeq
  <2>6. /\ Frames(<<>> \o r)
        /\ \A k, i : i \in 0 .. PACKET_SIZE - 1 /\ Ends(p \o r, k, i)
                       => Ends(<<>> \o r, k, i)
    BY <1>3, <2>4, ReadIsWhole
  <2>7. 0 \in 0 .. PACKET_SIZE - 1
    BY PacketAssumption
  <2>. QED BY <2>1, <2>2, <2>4, <2>5, <2>6, <2>7
<1>. QED BY <1>1, <1>3, <1>4, <1>8, <1>9, <1>10 DEF Live

\* What is read moves from the kernel to the buffer.
LEMMA DataStep ==
  ASSUME SessionTypes, ByteTypes, LinkInv, StreamInv, NEW t \in Links, DataEvent(t)
  PROVE  ByteTypes' /\ StreamInv'
<1>1. PICK n \in 1 .. Len(inbox[t]) :
        /\ inbox' = [inbox EXCEPT ![t] = SubSeq(@, n + 1, Len(@))]
        /\ tcpBuffer' = tcpBuffer \o SubSeq(inbox[t], 1, n)
  BY DEF DataEvent
<1>2. link[t] \in Live /\ tcp = t /\ UNCHANGED <<tcp, link>>
  BY DEF DataEvent, LinkInv, Live
<1>3. PICK a \in Seq(Byte(Packet)), b \in Seq(Byte(Packet)) :
        a = tcpBuffer /\ b = inbox[t]
  BY DEF ByteTypes
<1>. DEFINE p == SubSeq(b, 1, n)
            q == SubSeq(b, n + 1, Len(b))
<1>4. p \in Seq(Byte(Packet)) /\ q \in Seq(Byte(Packet)) /\ p \o q = b
  BY <1>1, <1>3, CutInTwo
<1>5. inbox' = [inbox EXCEPT ![t] = q] /\ tcpBuffer' = a \o p
  BY <1>1, <1>3
<1>. HIDE DEF p, q
<1>6. PICK r \in Seq(Byte(Packet)) : r = a \o p
  BY <1>4, ConcatProperties
<1>7. r \o q = a \o b
  <2>1. (a \o p) \o q = a \o (p \o q)
    <3>1. p \in Seq(Byte(Packet)) /\ q \in Seq(Byte(Packet))
      BY <1>4
    <3>. QED BY <3>1, Associative
  <2>. QED BY <1>4, <1>6, <2>1
<1>8. Frames(r \o q) /\ (link[t] = "up" => Ends(r \o q, None, 0))
  BY <1>2, <1>3, <1>7 DEF StreamInv
<1>9. Frames(r)
  <2>1. Frames(r \o <<>>) /\ r \o <<>> = r
    BY <1>4, <1>8, FrontIsFramed, ConcatEmptySeq
  <2>. QED BY <2>1
<1>10. inbox' \in [Links -> Seq(Byte(Packet))] /\ inbox'[t] = q
  BY <1>4, <1>5 DEF ByteTypes
<1>11. \A l \in Links : link[l] \in Live => l = t
  BY <1>2 DEF LinkInv
<1>12. \A l \in Links : link[l] \in {"none", "connecting"} => inbox'[l] = inbox[l]
  BY <1>2, <1>5 DEF Live, ByteTypes
<1>13. tcp # None
  BY <1>2, GatewayAssumption
<1>. QED
  BY <1>2, <1>5, <1>6, <1>8, <1>9, <1>10, <1>11, <1>12, <1>13 DEF StreamInv, ByteTypes, Live

\* The host's packets arrive whole, as far as the end of the connection lets them.
LEMMA ArrivesStep ==
  ASSUME SessionTypes, ByteTypes, LinkInv, StreamInv, NEW t \in Links, NEW p \in Packet,
         Arrives(t, p), link[t] = "up", UNCHANGED <<tcp, tcpBuffer, link>>
  PROVE  ByteTypes' /\ StreamInv'
<1>1. PICK a \in Seq(Byte(Packet)), b \in Seq(Byte(Packet)) :
        a = tcpBuffer /\ b = inbox[t]
  BY DEF ByteTypes
<1>2. Frames(a \o b) /\ Ends(a \o b, None, 0)
  BY <1>1 DEF StreamInv, Live
<1>. DEFINE r == b \o Bytes(p)
<1>3. r \in Seq(Byte(Packet)) /\ Frames(a \o r) /\ Ends(a \o r, None, 0)
  BY <1>2, PacketKeepsFrames
<1>4. inbox' = [inbox EXCEPT ![t] = r]
  BY <1>1 DEF Arrives
<1>. HIDE DEF r
<1>5. inbox' \in [Links -> Seq(Byte(Packet))] /\ inbox'[t] = r
  BY <1>3, <1>4 DEF ByteTypes
<1>6. \A l \in Links : l # t => inbox'[l] = inbox[l]
  BY <1>4 DEF ByteTypes
<1>. QED BY <1>1, <1>3, <1>5, <1>6 DEF StreamInv, ByteTypes

\* The host's end cuts the stream anywhere.
LEMMA DropsStep ==
  ASSUME SessionTypes, ByteTypes, LinkInv, StreamInv, NEW t \in Links, HostDrops(t)
  PROVE  ByteTypes' /\ StreamInv'
<1>1. PICK n \in 0 .. Len(inbox[t]) : inbox' = [inbox EXCEPT ![t] = SubSeq(@, 1, n)]
  BY DEF HostDrops
<1>2. /\ link[t] = "up" /\ link' = [link EXCEPT ![t] = "dropped"]
      /\ UNCHANGED <<tcp, tcpBuffer>>
  BY DEF HostDrops, Moves
<1>3. PICK a \in Seq(Byte(Packet)), b \in Seq(Byte(Packet)) :
        a = tcpBuffer /\ b = inbox[t]
  BY DEF ByteTypes
<1>4. Frames(a \o b)
  BY <1>2, <1>3 DEF StreamInv, Live
<1>5. PICK r \in Seq(Byte(Packet)) : r = SubSeq(b, 1, n) /\ Frames(a \o r)
  <2>1. CASE n = 0
    <3>1. SubSeq(b, 1, 0) = <<>> /\ <<>> \in Seq(Byte(Packet))
      OBVIOUS
    <3>. QED BY <1>4, <2>1, <3>1, FrontIsFramed
  <2>2. CASE n # 0
    <3>1. n \in 1 .. Len(b)
      BY <1>1, <1>3, <2>2
    <3>. DEFINE p == SubSeq(b, 1, n)
                q == SubSeq(b, n + 1, Len(b))
    <3>2. p \in Seq(Byte(Packet)) /\ q \in Seq(Byte(Packet)) /\ p \o q = b
      BY <3>1, CutInTwo
    <3>. HIDE DEF p, q
    <3>3. PICK front \in Seq(Byte(Packet)) : front = a \o p
      BY <3>2, ConcatProperties
    <3>4. front \o q = a \o b
      <4>1. (a \o p) \o q = a \o (p \o q)
        <5>1. p \in Seq(Byte(Packet)) /\ q \in Seq(Byte(Packet))
          BY <3>2
        <5>. QED BY <5>1, Associative
      <4>. QED BY <3>2, <3>3, <4>1
    <3>5. Frames(front \o <<>>) /\ front \o <<>> = front
      BY <1>4, <3>2, <3>4, FrontIsFramed, ConcatEmptySeq
    <3>. QED BY <3>2, <3>3, <3>5 DEF p
  <2>. QED BY <2>1, <2>2
<1>6. inbox' = [inbox EXCEPT ![t] = r]
  BY <1>1, <1>3, <1>5
<1>7. inbox' \in [Links -> Seq(Byte(Packet))] /\ inbox'[t] = r
  BY <1>6 DEF ByteTypes
<1>8. \A l \in Links : l # t => inbox'[l] = inbox[l] /\ link'[l] = link[l]
  BY <1>2, <1>6 DEF ByteTypes, SessionTypes
<1>9. link'[t] = "dropped"
  BY <1>2 DEF SessionTypes
<1>. QED BY <1>2, <1>3, <1>5, <1>7, <1>8, <1>9 DEF StreamInv, ByteTypes, Live

\* closeTcp empties what it closes, and nothing is live after it.
LEMMA CloseStep ==
  ASSUME SessionTypes, ByteTypes, LinkInv, StreamInv, closeTcp
  PROVE  ByteTypes' /\ StreamInv'
<1>1. tcpBuffer' = <<>> /\ tcp' = None
  BY DEF closeTcp
<1>2. <<>> \in Seq(Byte(Packet)) /\ <<>> \o <<>> = <<>>
  OBVIOUS
<1>3. Frames(<<>>)
  BY <1>2, EmptyStream
<1>4. inbox' \in [Links -> Seq(Byte(Packet))]
  BY <1>2 DEF closeTcp, ByteTypes
<1>5. ASSUME NEW t \in Links
      PROVE  /\ link'[t] \notin Live
             /\ link'[t] \in {"none", "connecting"} => inbox'[t] = <<>>
  <2>1. CASE Usable /\ t = tcp
    <3>1. link'[t] = "destroyed"
      BY <2>1, ClosedLinks
    <3>. QED BY <3>1 DEF Live
  <2>2. CASE ~(Usable /\ t = tcp)
    <3>1. link'[t] = link[t]
      BY <2>2, ClosedLinks
    <3>2. link[t] \notin Live
      BY <2>2, GatewayAssumption DEF LinkInv, Usable, Destroyed, Live
    <3>3. inbox'[t] = inbox[t] \/ inbox'[t] = <<>>
      BY <1>2 DEF closeTcp, ByteTypes
    <3>. QED BY <3>1, <3>2, <3>3 DEF StreamInv
  <2>. QED BY <2>1, <2>2
<1>. QED BY <1>1, <1>2, <1>3, <1>4, <1>5 DEF ByteTypes, StreamInv, Live

\* The buffer, the bytes on their way, and what has been made of them.
LEMMA StreamStep ==
  ASSUME SessionTypes, ByteTypes, LinkInv, StreamInv, [GatewayNext]_gw_vars
  PROVE  ByteTypes' /\ StreamInv'
<1>1. ASSUME NEW u \in Names, Register(u) PROVE ByteTypes' /\ StreamInv'
  <2>1. UNCHANGED <<tcpBuffer, inbox, tcp>>
    BY <1>1 DEF Register, startTcpSession, host_vars, Forward, sendPacket
  <2>2. \A t \in Links : link'[t] = link[t]
                         \/ (link[t] = "none" /\ link'[t] = "connecting")
    <3>1. CASE startTcpSession(u)
      <4>1. PICK t \in Links : link[t] = "none" /\ Moves(t, "connecting")
        BY <3>1, StartedUnused
      <4>. QED BY <4>1 DEF Moves, SessionTypes
    <3>2. CASE link' = link
      BY <3>2
    <3>. QED BY <1>1, <3>1, <3>2 DEF Register
  <2>. QED BY <2>1, <2>2, StreamsKeep DEF Live
<1>2. ASSUME Logout \/ WsCloseEvent \/ WsErrorEvent PROVE ByteTypes' /\ StreamInv'
  BY <1>2, CloseStep DEF Logout, WsCloseEvent, WsErrorEvent
<1>3. ASSUME OtherRequest \/ BrowserCloses \/ \E n \in Names : Info(n)
      PROVE  ByteTypes' /\ StreamInv'
  <2>1. UNCHANGED <<tcp, tcpBuffer, link, inbox>>
    BY <1>3 DEF OtherRequest, BrowserCloses, Info, Forward, sendPacket, host_vars
  <2>. QED BY <2>1, StreamsKeep
<1>4. ASSUME NEW t \in Links, Connected(t) PROVE ByteTypes' /\ StreamInv'
  <2>1. /\ tcpBuffer' = <<>> /\ inbox' = inbox /\ tcp' = t
        /\ link' = [link EXCEPT ![t] = "up"]
    BY <1>4 DEF Connected, Moves
  <2>2. inbox[t] = <<>> /\ \A l \in Links : link'[l] \in Live => l = t
    BY <1>4, <2>1 DEF Connected, StreamInv, LinkInv, SessionTypes, Live
  <2>3. \A l \in Links : link'[l] \in {"none", "connecting"} => link'[l] = link[l]
    BY <2>1 DEF SessionTypes
  <2>4. /\ <<>> \in Seq(Byte(Packet)) /\ <<>> \o <<>> = <<>>
        /\ Frames(<<>> \o <<>>) /\ Ends(<<>> \o <<>>, None, 0)
    BY EmptyStream
  <2>5. t # None
    BY GatewayAssumption
  <2>6. ByteTypes'
    BY <2>1, <2>4, <2>5 DEF ByteTypes
  <2>7. Frames(tcpBuffer')
    BY <2>1, <2>4
  <2>8. ASSUME NEW l \in Links, link'[l] \in Live
        PROVE  Frames(tcpBuffer' \o inbox'[l]) /\ Ends(tcpBuffer' \o inbox'[l], None, 0)
    <3>1. tcpBuffer' = <<>> /\ inbox'[l] = <<>>
      BY <2>1, <2>2, <2>8
    <3>. QED BY <3>1, <2>4
  <2>9. ASSUME NEW l \in Links, link'[l] \in {"none", "connecting"}
        PROVE  inbox'[l] = <<>>
    BY <2>1, <2>3, <2>9 DEF StreamInv
  <2>. QED BY <2>6, <2>7, <2>8, <2>9 DEF StreamInv, Live
<1>5. ASSUME NEW t \in Links, ConnectFails(t) \/ TcpCloseEvent(t)
      PROVE  ByteTypes' /\ StreamInv'
  <2>1. UNCHANGED <<tcp, tcpBuffer, inbox>> /\ link' = [link EXCEPT ![t] = "gone"]
    BY <1>5 DEF ConnectFails, TcpCloseEvent, Moves, host_vars
  <2>2. \A l \in Links : link'[l] = link[l] \/ link'[l] = "gone"
    BY <2>1 DEF SessionTypes
  <2>. QED BY <2>1, <2>2, StreamsKeep DEF Live
<1>6. ASSUME TakePacket PROVE ByteTypes' /\ StreamInv'
  <2>1. tcpBuffer' = Rest(tcpBuffer) /\ UNCHANGED <<tcp, link, inbox>> /\ HoldsPacket
    BY <1>6 DEF TakePacket, host_vars
  <2>2. tcp # None
    BY <2>1, PacketAssumption, EmptySeq DEF ByteTypes, HoldsPacket
  <2>. QED BY <2>1, <2>2, FrontIsPacket DEF ByteTypes, StreamInv
<1>7. ASSUME NEW t \in Links, HostAnswers(t) PROVE ByteTypes' /\ StreamInv'
  <2>1. PICK p \in Replies(Head(out[t])) : Arrives(t, p)
    BY <1>7 DEF HostAnswers
  <2>2. Head(out[t]) \in Outgoing
    <3>1. out[t] \in Seq(Outgoing) /\ out[t] # <<>>
      BY <1>7 DEF HostAnswers, SessionTypes
    <3>. QED BY <3>1
  <2>3. p \in Packet
    <3>1. Head(out[t]).command = "INFO" => Head(out[t]).about \in Names
      BY <2>2 DEF Outgoing
    <3>. QED BY <2>1, <3>1 DEF Replies, Packet
  <2>4. link[t] = "up" /\ UNCHANGED <<tcp, tcpBuffer, link>>
    BY <1>7 DEF HostAnswers
  <2>. QED BY <2>1, <2>3, <2>4, ArrivesStep
<1>8. ASSUME NEW t \in Links, HostSends(t) PROVE ByteTypes' /\ StreamInv'
  <2>1. [command |-> "OTHER", about |-> None] \in Packet
    BY DEF Packet
  <2>. QED BY <1>8, <2>1, ArrivesStep DEF HostSends
<1>9. CASE UNCHANGED gw_vars
  BY <1>9, StreamsKeep DEF gw_vars, host_vars
<1>. QED
  BY <1>1, <1>2, <1>3, <1>4, <1>5, <1>6, <1>7, <1>8, <1>9, DataStep, DropsStep
     DEF GatewayNext, FromBrowser, FromHost

\* What the loop makes of a packet, it makes of one that the host sent.
LEMMA ShownStep ==
  ASSUME ByteTypes, StreamInv, FramesWhole, [GatewayNext]_gw_vars
  PROVE  FramesWhole'
<1>1. ASSUME TakePacket PROVE FramesWhole'
  <2>1. PICK packet \in Packet :
          packet = parsePacket(SubSeq(tcpBuffer, 1, PACKET_SIZE))
    BY <1>1, FrontIsPacket DEF TakePacket
  <2>2. packet.command # "garbled"
    BY <2>1 DEF Packet
  <2>3. toClientEvent(packet)
    BY <1>1, <2>1 DEF TakePacket
  <2>. QED BY <2>2, <2>3 DEF toClientEvent, FramesWhole
<1>2. CASE shown' = shown
  BY <1>2 DEF FramesWhole
<1>. QED
  BY <1>1, <1>2 DEF GatewayNext, FromBrowser, FromHost, gw_vars, Register, Info,
     OtherRequest, Logout, BrowserCloses, WsCloseEvent, WsErrorEvent, Connected,
     ConnectFails, DataEvent, TcpCloseEvent, HostAnswers, HostSends, HostDrops

-----------------------------------------------------------------------------
(* Questions and answers.                                                  *)

\* Who is asked about at each place of a connection: in the bytes read and
\* unread, by the USER_INFO that begins there; behind them, by the INFO that the
\* host has not taken.
Marks(bytes, queue) ==
  [k \in 1 .. Len(bytes) + Len(queue) |->
     IF k <= Len(bytes)
       THEN IF bytes[k][2] = 1 /\ bytes[k][1].command = "USER_INFO"
              THEN bytes[k][1].about ELSE None
       ELSE IF queue[k - Len(bytes)].command = "INFO"
              THEN queue[k - Len(bytes)].about ELSE None]

\* Each target has its place among the n marked ones, in the same order, and no
\* mark is left over.  When the connection has been lost, the places of the last
\* targets lie beyond what there is of it.
Matches(mark, n, targets, all) ==
  \E place \in [1 .. Len(targets) -> Nat \ {0}] :
    /\ \A i, j \in 1 .. Len(targets) : i < j => place[i] < place[j]
    /\ \A k \in 1 .. n : mark[k] # None => \E i \in 1 .. Len(targets) : place[i] = k
    /\ \A i \in 1 .. Len(targets) : place[i] <= n => mark[place[i]] = targets[i]
    /\ all => \A i \in 1 .. Len(targets) : place[i] <= n

\* Places in front that hold no mark may go.
LEMMA SkipKeepsMatch ==
  ASSUME NEW mark, NEW new, NEW all, NEW n \in Nat, NEW c \in 0 .. n,
         NEW targets \in Seq(Names),
         Matches(mark, n, targets, all), \A k \in 1 .. c : mark[k] = None,
         \A k \in 1 .. n - c : new[k] = mark[k + c]
  PROVE  Matches(new, n - c, targets, all)
<1>. DEFINE I == 1 .. Len(targets)
<1>1. PICK place \in [I -> Nat \ {0}] :
        /\ \A i, j \in I : i < j => place[i] < place[j]
        /\ \A k \in 1 .. n : mark[k] # None => \E i \in I : place[i] = k
        /\ \A i \in I : place[i] <= n => mark[place[i]] = targets[i]
        /\ all => \A i \in I : place[i] <= n
  BY DEF Matches
<1>2. \A i \in I : place[i] > c
  <2>1. \A i \in I : targets[i] \in Names /\ targets[i] # None
    BY GatewayAssumption
  <2>. QED BY <1>1, <2>1
<1>3. PICK moved \in [I -> Nat \ {0}] : \A i \in I : moved[i] = place[i] - c
  <2>1. [i \in I |-> place[i] - c] \in [I -> Nat \ {0}]
    BY <1>1, <1>2
  <2>. QED BY <2>1
<1>4. \A k \in 1 .. n - c : new[k] # None => \E i \in I : moved[i] = k
  <2>1. ASSUME NEW k \in 1 .. n - c, new[k] # None PROVE \E i \in I : moved[i] = k
    <3>1. k + c \in 1 .. n /\ mark[k + c] # None
      BY <2>1
    <3>2. PICK i \in I : place[i] = k + c
      BY <1>1, <3>1
    <3>. QED BY <1>3, <3>2
  <2>. QED BY <2>1
<1>5. ASSUME NEW i \in I, moved[i] <= n - c PROVE new[moved[i]] = targets[i]
  <2>1. place[i] \in Int /\ place[i] > c /\ moved[i] = place[i] - c
    BY <1>1, <1>2, <1>3
  <2>. DEFINE x == place[i]
  <2>2. x <= n /\ x - c \in 1 .. n - c /\ (x - c) + c = x
    <3>1. x \in Int /\ x > c /\ x - c <= n - c /\ n \in Int /\ c \in Int
      BY <1>5, <2>1
    <3>. HIDE DEF x
    <3>. QED BY <3>1
  <2>3. mark[x] = targets[i]
    BY <1>1, <2>2
  <2>4. moved[i] = x - c
    BY <2>1
  <2>. HIDE DEF x
  <2>. QED BY <2>2, <2>3, <2>4
<1>6. ASSUME NEW i \in I, NEW j \in I, i < j PROVE moved[i] < moved[j]
  <2>1. place[i] \in Int /\ place[j] \in Int /\ place[i] < place[j]
    BY <1>1, <1>6
  <2>. QED BY <1>3, <2>1
<1>7. ASSUME all, NEW i \in I PROVE moved[i] <= n - c
  <2>1. place[i] \in Int /\ place[i] <= n
    BY <1>1, <1>7
  <2>. QED BY <1>3, <2>1
<1>. QED BY <1>3, <1>4, <1>5, <1>6, <1>7 DEF Matches

\* A mark in front is the first target's.
LEMMA FirstIsMatched ==
  ASSUME NEW mark, NEW new, NEW all, NEW n \in Nat \ {0}, NEW targets \in Seq(Names),
         Matches(mark, n, targets, all), mark[1] # None,
         \A k \in 1 .. n - 1 : new[k] = mark[k + 1]
  PROVE  /\ targets # <<>> /\ Head(targets) = mark[1]
         /\ Matches(new, n - 1, Tail(targets), all)
<1>. DEFINE I == 1 .. Len(targets)
<1>1. PICK place \in [I -> Nat \ {0}] :
        /\ \A i, j \in I : i < j => place[i] < place[j]
        /\ \A k \in 1 .. n : mark[k] # None => \E i \in I : place[i] = k
        /\ \A i \in I : place[i] <= n => mark[place[i]] = targets[i]
        /\ all => \A i \in I : place[i] <= n
  BY DEF Matches
<1>2. 1 \in I /\ place[1] = 1
  <2>1. PICK i \in I : place[i] = 1
    <3>1. 1 \in 1 .. n
      OBVIOUS
    <3>. QED BY <1>1, <3>1
  <2>2. 1 \in I /\ i \in Int /\ i >= 1
    BY <2>1
  <2>3. place[1] \in Int /\ place[1] > 0
    BY <1>1, <2>2
  <2>4. 1 < i => place[1] < place[i]
    BY <1>1, <2>2
  <2>5. i = 1
    BY <2>1, <2>2, <2>3, <2>4
  <2>. QED BY <2>1, <2>2, <2>5
<1>3. targets # <<>> /\ Head(targets) = targets[1]
  BY <1>2
<1>4. PICK r \in Seq(Names) :
        r = Tail(targets) /\ Len(r) = Len(targets) - 1
        /\ \A i \in 1 .. Len(r) : r[i] = targets[i + 1]
  BY <1>3, HeadTailProperties
<1>. DEFINE J == 1 .. Len(r)
<1>5. \A i \in J : i + 1 \in I /\ place[i + 1] > 1
  BY <1>1, <1>2, <1>4
<1>6. PICK moved \in [J -> Nat \ {0}] : \A i \in J : moved[i] = place[i + 1] - 1
  <2>1. [i \in J |-> place[i + 1] - 1] \in [J -> Nat \ {0}]
    BY <1>1, <1>5
  <2>. QED BY <2>1
<1>7. \A k \in 1 .. n - 1 : new[k] # None => \E i \in J : moved[i] = k
  <2>1. ASSUME NEW k \in 1 .. n - 1, new[k] # None PROVE \E i \in J : moved[i] = k
    <3>1. k + 1 \in 1 .. n /\ mark[k + 1] # None
      BY <2>1
    <3>2. PICK i \in I : place[i] = k + 1
      BY <1>1, <3>1
    <3>3. i # 1
      BY <1>2, <3>2
    <3>4. PICK j \in J : j + 1 = i
      <4>1. i - 1 \in J /\ (i - 1) + 1 = i
        BY <1>4, <3>3
      <4>. QED BY <4>1
    <3>5. moved[j] = k
      BY <1>6, <3>2, <3>4
    <3>. QED BY <3>5
  <2>. QED BY <2>1
<1>8. ASSUME NEW i \in J, moved[i] <= n - 1 PROVE new[moved[i]] = r[i]
  <2>1. place[i + 1] \in Int /\ place[i + 1] > 1 /\ moved[i] = place[i + 1] - 1
    BY <1>1, <1>5, <1>6
  <2>2. place[i + 1] <= n /\ moved[i] \in 1 .. n - 1 /\ moved[i] + 1 = place[i + 1]
    BY <1>8, <2>1
  <2>3. mark[place[i + 1]] = targets[i + 1]
    BY <1>1, <1>5, <2>2
  <2>. QED BY <1>4, <2>2, <2>3
<1>9. ASSUME NEW i \in J, NEW j \in J, i < j PROVE moved[i] < moved[j]
  <2>1. i + 1 \in I /\ j + 1 \in I /\ i + 1 < j + 1
    BY <1>5, <1>9
  <2>2. place[i + 1] \in Int /\ place[j + 1] \in Int /\ place[i + 1] < place[j + 1]
    BY <1>1, <2>1
  <2>. QED BY <1>6, <2>2
<1>12. ASSUME all, NEW i \in J PROVE moved[i] <= n - 1
  <2>1. place[i + 1] \in Int /\ place[i + 1] <= n
    BY <1>1, <1>5, <1>12
  <2>. QED BY <1>6, <2>1
<1>10. Matches(new, n - 1, r, all)
  BY <1>6, <1>7, <1>8, <1>9, <1>12 DEF Matches
<1>11. targets[1] = mark[1]
  BY <1>1, <1>2
<1>. QED BY <1>3, <1>4, <1>10, <1>11

\* Places without a mark may come in between.
LEMMA InsertKeepsMatch ==
  ASSUME NEW mark, NEW new, NEW all, NEW n \in Nat, NEW c \in 0 .. n, NEW d \in Nat,
         NEW targets \in Seq(Names),
         Matches(mark, n, targets, all),
         \A k \in 1 .. c : new[k] = mark[k],
         \A k \in c + 1 .. c + d : new[k] = None,
         \A k \in c + 1 .. n : new[k + d] = mark[k]
  PROVE  Matches(new, n + d, targets, all)
<1>. DEFINE I == 1 .. Len(targets)
<1>1. PICK place \in [I -> Nat \ {0}] :
        /\ \A i, j \in I : i < j => place[i] < place[j]
        /\ \A k \in 1 .. n : mark[k] # None => \E i \in I : place[i] = k
        /\ \A i \in I : place[i] <= n => mark[place[i]] = targets[i]
        /\ all => \A i \in I : place[i] <= n
  BY DEF Matches
<1>2. PICK moved \in [I -> Nat \ {0}] :
        \A i \in I : moved[i] = IF place[i] <= c THEN place[i] ELSE place[i] + d
  <2>1. [i \in I |-> IF place[i] <= c THEN place[i] ELSE place[i] + d]
          \in [I -> Nat \ {0}]
    BY <1>1
  <2>. QED BY <2>1
<1>3. ASSUME NEW k \in 1 .. n + d, new[k] # None PROVE \E i \in I : moved[i] = k
  <2>1. CASE k <= c
    BY <1>1, <1>2, <1>3, <2>1
  <2>2. CASE k > c
    <3>1. k - d \in c + 1 .. n /\ (k - d) + d = k
      BY <1>3, <2>2
    <3>2. mark[k - d] # None /\ k - d \in 1 .. n
      BY <1>3, <3>1
    <3>3. PICK i \in I : place[i] = k - d
      BY <1>1, <3>2
    <3>. QED BY <1>2, <3>1, <3>3
  <2>. QED BY <2>1, <2>2
<1>4. ASSUME NEW i \in I, moved[i] <= n + d PROVE new[moved[i]] = targets[i]
  <2>1. place[i] \in Nat /\ place[i] # 0
    BY <1>1
  <2>2. place[i] <= n
    BY <1>2, <1>4, <2>1
  <2>3. mark[place[i]] = targets[i]
    BY <1>1, <2>2
  <2>4. CASE place[i] <= c
    BY <1>2, <2>1, <2>3, <2>4
  <2>5. CASE ~(place[i] <= c)
    <3>1. place[i] \in c + 1 .. n /\ moved[i] = place[i] + d
      BY <1>2, <2>1, <2>2, <2>5
    <3>. QED BY <2>3, <3>1
  <2>. QED BY <2>4, <2>5
<1>5. ASSUME NEW i \in I, NEW j \in I, i < j PROVE moved[i] < moved[j]
  <2>1. place[i] \in Int /\ place[j] \in Int /\ place[i] < place[j]
    BY <1>1, <1>5
  <2>. QED BY <1>2, <2>1
<1>6. all => \A i \in I : moved[i] <= n + d
  BY <1>1, <1>2
<1>. QED BY <1>2, <1>3, <1>4, <1>5, <1>6 DEF Matches

\* The end of a connection may be cut off.
LEMMA CutKeepsMatch ==
  ASSUME NEW mark, NEW new, NEW all, NEW n \in Nat, NEW c \in 0 .. n,
         NEW targets \in Seq(Names),
         Matches(mark, n, targets, all), \A k \in 1 .. c : new[k] = mark[k]
  PROVE  Matches(new, c, targets, FALSE)
<1>. DEFINE I == 1 .. Len(targets)
<1>1. PICK place \in [I -> Nat \ {0}] :
        /\ \A i, j \in I : i < j => place[i] < place[j]
        /\ \A k \in 1 .. n : mark[k] # None => \E i \in I : place[i] = k
        /\ \A i \in I : place[i] <= n => mark[place[i]] = targets[i]
  BY DEF Matches
<1>2. ASSUME NEW i \in I, place[i] <= c PROVE new[place[i]] = targets[i]
  <2>1. place[i] \in 1 .. c /\ place[i] <= n
    BY <1>1, <1>2
  <2>. QED BY <1>1, <2>1
<1>3. \A k \in 1 .. c : new[k] # None => \E i \in I : place[i] = k
  BY <1>1
<1>. QED BY <1>1, <1>2, <1>3 DEF Matches

\* A new question behind all others.
LEMMA AskKeepsMatch ==
  ASSUME NEW mark, NEW new, NEW n \in Nat, NEW targets \in Seq(Names), NEW x \in Names,
         Matches(mark, n, targets, TRUE),
         \A k \in 1 .. n : new[k] = mark[k], new[n + 1] = x
  PROVE  Matches(new, n + 1, Append(targets, x), TRUE)
<1>. DEFINE I == 1 .. Len(targets)
<1>1. PICK place \in [I -> Nat \ {0}] :
        /\ \A i, j \in I : i < j => place[i] < place[j]
        /\ \A k \in 1 .. n : mark[k] # None => \E i \in I : place[i] = k
        /\ \A i \in I : place[i] <= n /\ mark[place[i]] = targets[i]
  BY DEF Matches
<1>2. PICK r \in Seq(Names) :
        /\ r = Append(targets, x) /\ Len(r) = Len(targets) + 1
        /\ r[Len(targets) + 1] = x /\ \A i \in I : r[i] = targets[i]
  <2>1. PICK r \in Seq(Names) : r = Append(targets, x)
    <3>1. Append(targets, x) \in Seq(Names)
      OBVIOUS
    <3>. QED BY <3>1, Zenon
  <2>2. Len(r) = Len(targets) + 1 /\ r[Len(targets) + 1] = x
    BY <2>1
  <2>3. \A i \in I : r[i] = targets[i]
    BY <2>1
  <2>. QED BY <2>1, <2>2, <2>3
<1>. DEFINE J == 1 .. Len(r)
<1>3. PICK moved \in [J -> Nat \ {0}] :
        \A i \in J : moved[i] = IF i = Len(r) THEN n + 1 ELSE place[i]
  <2>1. [i \in J |-> IF i = Len(r) THEN n + 1 ELSE place[i]] \in [J -> Nat \ {0}]
    BY <1>1, <1>2
  <2>. QED BY <2>1
<1>4. \A i \in J : i = Len(r) \/ (i \in I /\ i < Len(r))
  BY <1>2
<1>5. ASSUME NEW i \in J, NEW j \in J, i < j PROVE moved[i] < moved[j]
  <2>1. i \in I /\ i # Len(r) /\ moved[i] = place[i] /\ place[i] <= n
    BY <1>1, <1>2, <1>3, <1>4, <1>5
  <2>2. CASE j = Len(r)
    BY <1>1, <1>3, <2>1, <2>2
  <2>3. CASE j # Len(r)
    <3>1. j \in I /\ moved[j] = place[j]
      BY <1>3, <1>4, <2>3
    <3>. QED BY <1>1, <1>5, <2>1, <3>1
  <2>. QED BY <2>2, <2>3
<1>6. \A k \in 1 .. n + 1 : new[k] # None => \E i \in J : moved[i] = k
  <2>1. ASSUME NEW k \in 1 .. n, new[k] # None PROVE \E i \in J : moved[i] = k
    <3>1. PICK i \in I : place[i] = k
      BY <1>1, <2>1
    <3>2. i \in J /\ i # Len(r)
      BY <1>2
    <3>. QED BY <1>3, <3>1, <3>2
  <2>2. Len(r) \in J /\ moved[Len(r)] = n + 1
    BY <1>2, <1>3
  <2>. QED BY <2>1, <2>2
<1>7. ASSUME NEW i \in J PROVE moved[i] <= n + 1 /\ new[moved[i]] = r[i]
  <2>1. CASE i = Len(r)
    BY <1>2, <1>3, <2>1
  <2>2. CASE i # Len(r)
    <3>1. i \in I /\ moved[i] = place[i]
      BY <1>3, <1>4, <2>2
    <3>2. place[i] \in 1 .. n /\ mark[place[i]] = targets[i]
      BY <1>1, <3>1
    <3>. QED BY <1>2, <3>1, <3>2
  <2>. QED BY <2>1, <2>2
<1>8. Matches(new, n + 1, r, TRUE)
  BY <1>3, <1>5, <1>6, <1>7 DEF Matches
<1>. QED BY <1>2, <1>8

\* A target that is queued in vain.
LEMMA VainKeepsMatch ==
  ASSUME NEW mark, NEW n \in Nat, NEW targets \in Seq(Names), NEW x \in Names,
         Matches(mark, n, targets, FALSE)
  PROVE  Matches(mark, n, Append(targets, x), FALSE)
<1>. DEFINE I == 1 .. Len(targets)
<1>1. PICK place \in [I -> Nat \ {0}] :
        /\ \A i, j \in I : i < j => place[i] < place[j]
        /\ \A k \in 1 .. n : mark[k] # None => \E i \in I : place[i] = k
        /\ \A i \in I : place[i] <= n => mark[place[i]] = targets[i]
  BY DEF Matches
<1>2. PICK r \in Seq(Names) :
        /\ r = Append(targets, x) /\ Len(r) = Len(targets) + 1
        /\ \A i \in I : r[i] = targets[i]
  <2>1. PICK r \in Seq(Names) : r = Append(targets, x)
    <3>1. Append(targets, x) \in Seq(Names)
      OBVIOUS
    <3>. QED BY <3>1, Zenon
  <2>2. Len(r) = Len(targets) + 1 /\ r[Len(targets) + 1] = x
    BY <2>1
  <2>3. \A i \in I : r[i] = targets[i]
    BY <2>1
  <2>. QED BY <2>1, <2>2, <2>3
<1>. DEFINE J == 1 .. Len(r)
<1>3. PICK beyond \in Nat \ {0} : beyond > n /\ \A i \in I : place[i] < beyond
  <2>1. CASE Len(targets) = 0
    <3>1. n + 1 \in Nat \ {0} /\ n + 1 > n /\ I = {}
      BY <2>1
    <3>. QED BY <3>1
  <2>2. CASE Len(targets) # 0
    <3>. DEFINE last == Len(targets)
    <3>1. last \in I /\ \A i \in I : i = last \/ i < last
      BY <2>2
    <3>2. place[last] \in Nat /\ \A i \in I : place[i] \in Nat /\ place[i] <= place[last]
      BY <1>1, <3>1
    <3>3. /\ n + place[last] + 1 \in Nat \ {0} /\ n + place[last] + 1 > n
          /\ \A i \in I : place[i] < n + place[last] + 1
      BY <3>2
    <3>. QED BY <3>3
  <2>. QED BY <2>1, <2>2
<1>4. PICK moved \in [J -> Nat \ {0}] :
        \A i \in J : moved[i] = IF i = Len(r) THEN beyond ELSE place[i]
  <2>1. [i \in J |-> IF i = Len(r) THEN beyond ELSE place[i]] \in [J -> Nat \ {0}]
    BY <1>1, <1>2
  <2>. QED BY <2>1
<1>5. \A i \in J : i = Len(r) \/ (i \in I /\ i < Len(r))
  BY <1>2
<1>6. ASSUME NEW i \in J, NEW j \in J, i < j PROVE moved[i] < moved[j]
  <2>1. i \in I /\ i # Len(r) /\ moved[i] = place[i]
    BY <1>2, <1>4, <1>5, <1>6
  <2>2. CASE j = Len(r)
    BY <1>3, <1>4, <2>1, <2>2
  <2>3. CASE j # Len(r)
    <3>1. j \in I /\ moved[j] = place[j]
      BY <1>4, <1>5, <2>3
    <3>. QED BY <1>1, <1>6, <2>1, <3>1
  <2>. QED BY <2>2, <2>3
<1>7. \A k \in 1 .. n : mark[k] # None => \E i \in J : moved[i] = k
  <2>1. ASSUME NEW k \in 1 .. n, mark[k] # None PROVE \E i \in J : moved[i] = k
    <3>1. PICK i \in I : place[i] = k
      BY <1>1, <2>1
    <3>2. i \in J /\ i # Len(r)
      BY <1>2
    <3>. QED BY <1>4, <3>1, <3>2
  <2>. QED BY <2>1
<1>8. ASSUME NEW i \in J, moved[i] <= n PROVE mark[moved[i]] = r[i]
  <2>1. i # Len(r)
    BY <1>3, <1>4, <1>8
  <2>2. i \in I /\ moved[i] = place[i]
    BY <1>4, <1>5, <2>1
  <2>3. mark[place[i]] = targets[i]
    BY <1>1, <1>8, <2>2
  <2>4. r[i] = targets[i]
    BY <1>2, <2>2
  <2>. QED BY <2>2, <2>3, <2>4
<1>9. Matches(mark, n, r, FALSE)
  BY <1>4, <1>6, <1>7, <1>8 DEF Matches
<1>. QED BY <1>2, <1>9

\* What the buffer and the kernel hold of a connection.
Stream(t) == tcpBuffer \o inbox[t]

\* Without the bytes of its first packet, a stream has the marks that follow them.
LEMMA RestMarks ==
  ASSUME NEW st \in Seq(Byte(Packet)), NEW rest \in Seq(Byte(Packet)),
         NEW queue \in Seq(Outgoing), NEW p \in Packet,
         Len(st) = Len(rest) + PACKET_SIZE,
         \A k \in 1 .. PACKET_SIZE : st[k] = <<p, k>>,
         \A k \in 1 .. Len(rest) : rest[k] = st[k + PACKET_SIZE]
  PROVE  /\ Marks(st, queue)[1] = IF p.command = "USER_INFO" THEN p.about ELSE None
         /\ \A k \in 2 .. PACKET_SIZE : Marks(st, queue)[k] = None
         /\ \A k \in 1 .. Len(rest) + Len(queue) :
              Marks(rest, queue)[k] = Marks(st, queue)[k + PACKET_SIZE]
<1>. DEFINE P == PACKET_SIZE
<1>0. /\ P \in Nat /\ P >= 1 /\ Len(st) \in Nat /\ Len(rest) \in Nat /\ Len(queue) \in Nat
      /\ Len(st) >= P
  BY PacketAssumption
<1>1. ASSUME NEW k \in 1 .. P
      PROVE  Marks(st, queue)[k] =
               IF k = 1 /\ p.command = "USER_INFO" THEN p.about ELSE None
  <2>1. k \in 1 .. Len(st) + Len(queue) /\ k <= Len(st)
    BY <1>0
  <2>2. st[k][1] = p /\ st[k][2] = k
    <3>1. st[k] = <<p, k>>
      OBVIOUS
    <3>. QED BY <3>1
  <2>. QED BY <2>1, <2>2 DEF Marks
<1>2. ASSUME NEW k \in 1 .. Len(rest) + Len(queue)
      PROVE  Marks(rest, queue)[k] = Marks(st, queue)[k + P]
  <2>1. k + P \in 1 .. Len(st) + Len(queue)
    BY <1>0
  <2>2. CASE k <= Len(rest)
    <3>1. rest[k] = st[k + P] /\ k + P <= Len(st)
      BY <1>0, <2>2
    <3>. QED BY <2>1, <2>2, <3>1 DEF Marks
  <2>3. CASE ~(k <= Len(rest))
    <3>1. ~(k + P <= Len(st)) /\ (k + P) - Len(st) = k - Len(rest)
      BY <1>0, <2>3
    <3>. QED BY <2>1, <2>3, <3>1 DEF Marks
  <2>. QED BY <2>2, <2>3
<1>3. 1 \in 1 .. P
  BY <1>0
<1>. QED BY <1>1, <1>2, <1>3

\* A stream that begins with the bytes of another has its marks; the packet
\* behind them is marked at its first byte only.
LEMMA MoreMarks ==
  ASSUME NEW st \in Seq(Byte(Packet)), NEW more \in Seq(Byte(Packet)),
         NEW queue \in Seq(Outgoing), NEW new \in Seq(Outgoing), NEW p \in Packet,
         Len(more) = Len(st) + PACKET_SIZE,
         \A k \in 1 .. Len(st) : more[k] = st[k],
         \A k \in 1 .. PACKET_SIZE : more[Len(st) + k] = <<p, k>>
  PROVE  /\ \A k \in 1 .. Len(st) : Marks(more, new)[k] = Marks(st, queue)[k]
         /\ Marks(more, new)[Len(st) + 1] =
              IF p.command = "USER_INFO" THEN p.about ELSE None
         /\ \A k \in Len(st) + 2 .. Len(st) + PACKET_SIZE : Marks(more, new)[k] = None
         /\ \A k \in 1 .. Len(new) :
              Marks(more, new)[Len(st) + PACKET_SIZE + k] =
                IF new[k].command = "INFO" THEN new[k].about ELSE None
<1>. DEFINE P == PACKET_SIZE
            L == Len(st)
<1>0. P \in Nat /\ P >= 1 /\ L \in Nat /\ Len(queue) \in Nat /\ Len(new) \in Nat
  BY PacketAssumption
<1>1. ASSUME NEW k \in 1 .. L PROVE Marks(more, new)[k] = Marks(st, queue)[k]
  <2>1. /\ k \in 1 .. L + Len(queue) /\ k \in 1 .. Len(more) + Len(new)
        /\ k <= L /\ k <= Len(more) /\ more[k] = st[k]
    BY <1>0
  <2>. QED BY <2>1 DEF Marks
<1>2. ASSUME NEW k \in 1 .. P
      PROVE  Marks(more, new)[L + k] =
               IF k = 1 /\ p.command = "USER_INFO" THEN p.about ELSE None
  <2>1. L + k \in 1 .. Len(more) + Len(new) /\ L + k <= Len(more)
    BY <1>0
  <2>2. more[L + k][1] = p /\ more[L + k][2] = k
    <3>1. more[L + k] = <<p, k>>
      OBVIOUS
    <3>. QED BY <3>1
  <2>. QED BY <2>1, <2>2 DEF Marks
<1>3. ASSUME NEW k \in L + 2 .. L + P PROVE Marks(more, new)[k] = None
  <2>1. k - L \in 1 .. P /\ L + (k - L) = k /\ k - L # 1
    BY <1>0
  <2>. QED BY <1>2, <2>1
<1>4. ASSUME NEW k \in 1 .. Len(new)
      PROVE  Marks(more, new)[L + P + k] =
               IF new[k].command = "INFO" THEN new[k].about ELSE None
  <2>1. /\ L + P + k \in 1 .. Len(more) + Len(new) /\ ~(L + P + k <= Len(more))
        /\ (L + P + k) - Len(more) = k
    BY <1>0
  <2>. QED BY <2>1 DEF Marks
<1>5. 1 \in 1 .. P
  BY <1>0
<1>. QED BY <1>1, <1>2, <1>3, <1>4, <1>5

\* What is asked last is marked last.
LEMMA AskedMarks ==
  ASSUME NEW st \in Seq(Byte(Packet)), NEW queue \in Seq(Outgoing), NEW r \in Outgoing
  PROVE  /\ Append(queue, r) \in Seq(Outgoing) /\ Len(Append(queue, r)) = Len(queue) + 1
         /\ \A k \in 1 .. Len(st) + Len(queue) :
              Marks(st, Append(queue, r))[k] = Marks(st, queue)[k]
         /\ Marks(st, Append(queue, r))[Len(st) + Len(queue) + 1] =
              IF r.command = "INFO" THEN r.about ELSE None
<1>1. PICK new \in Seq(Outgoing) :
        /\ new = Append(queue, r) /\ Len(new) = Len(queue) + 1
        /\ new[Len(queue) + 1] = r /\ \A i \in 1 .. Len(queue) : new[i] = queue[i]
  <2>1. PICK new \in Seq(Outgoing) : new = Append(queue, r)
    BY AppendProperties
  <2>. QED BY <2>1, AppendProperties
<1>. DEFINE L == Len(st)
            Q == Len(queue)
<1>0. L \in Nat /\ Q \in Nat /\ Len(new) = Q + 1
  BY <1>1
<1>2. ASSUME NEW k \in 1 .. L + Q PROVE Marks(st, new)[k] = Marks(st, queue)[k]
  <2>1. k \in 1 .. L + Len(new) /\ k \in 1 .. L + Len(queue)
    BY <1>0
  <2>2. CASE k <= L
    BY <2>1, <2>2 DEF Marks
  <2>3. CASE ~(k <= L)
    <3>1. k - L \in 1 .. Q
      BY <1>0, <2>3
    <3>2. new[k - L] = queue[k - L]
      BY <1>1, <3>1
    <3>. QED BY <2>1, <2>3, <3>2 DEF Marks
  <2>. QED BY <2>2, <2>3
<1>3. Marks(st, new)[L + Q + 1] = IF r.command = "INFO" THEN r.about ELSE None
  <2>1. /\ L + Q + 1 \in 1 .. L + Len(new) /\ ~(L + Q + 1 <= L)
        /\ (L + Q + 1) - L = Q + 1
    BY <1>0
  <2>2. new[(L + Q + 1) - L] = r
    BY <1>1, <2>1
  <2>. QED BY <2>1, <2>2 DEF Marks
<1>. QED BY <1>1, <1>2, <1>3

\* Marks depend on the bytes that there are.
LEMMA CutMarks ==
  ASSUME NEW st \in Seq(Byte(Packet)), NEW queue \in Seq(Outgoing),
         NEW cut \in Seq(Byte(Packet)), NEW new, Len(cut) <= Len(st),
         Len(new) = 0,
         \A k \in 1 .. Len(cut) : cut[k] = st[k]
  PROVE  \A k \in 1 .. Len(cut) : Marks(cut, new)[k] = Marks(st, queue)[k]
<1>1. ASSUME NEW k \in 1 .. Len(cut) PROVE Marks(cut, new)[k] = Marks(st, queue)[k]
  <2>1. /\ k \in 1 .. Len(cut) + Len(new) /\ k \in 1 .. Len(st) + Len(queue)
        /\ k <= Len(cut) /\ k <= Len(st) /\ cut[k] = st[k]
    OBVIOUS
  <2>. QED BY <2>1 DEF Marks
<1>. QED BY <1>1

\* The bytes of a live connection are bytes of packets.
LEMMA StreamType ==
  ASSUME ByteTypes, NEW t \in Links
  PROVE  /\ Stream(t) \in Seq(Byte(Packet))
         /\ Len(Stream(t)) = Len(tcpBuffer) + Len(inbox[t])
         /\ \A k \in 1 .. Len(tcpBuffer) : Stream(t)[k] = tcpBuffer[k]
         /\ \A k \in 1 .. Len(inbox[t]) : Stream(t)[Len(tcpBuffer) + k] = inbox[t][k]
<1>1. PICK a \in Seq(Byte(Packet)), b \in Seq(Byte(Packet)) :
        a = tcpBuffer /\ b = inbox[t]
  BY DEF ByteTypes
<1>2. /\ a \o b \in Seq(Byte(Packet)) /\ Len(a \o b) = Len(a) + Len(b)
      /\ \A k \in 1 .. Len(a) + Len(b) :
           (a \o b)[k] = IF k <= Len(a) THEN a[k] ELSE b[k - Len(a)]
  BY ConcatProperties
<1>3. Len(a) \in Nat /\ Len(b) \in Nat
  BY LenProperties
<1>. DEFINE c == a \o b
<1>4. c = Stream(t)
  BY <1>1 DEF Stream
<1>. HIDE DEF c
<1>5. /\ c \in Seq(Byte(Packet)) /\ Len(c) = Len(a) + Len(b)
      /\ \A k \in 1 .. Len(a) + Len(b) : c[k] = IF k <= Len(a) THEN a[k] ELSE b[k - Len(a)]
  BY <1>2 DEF c
<1>6. ASSUME NEW k \in 1 .. Len(a) PROVE c[k] = a[k]
  BY <1>3, <1>5
<1>7. ASSUME NEW k \in 1 .. Len(b) PROVE c[Len(a) + k] = b[k]
  <2>1. /\ Len(a) + k \in 1 .. Len(a) + Len(b) /\ ~(Len(a) + k <= Len(a))
        /\ (Len(a) + k) - Len(a) = k
    BY <1>3
  <2>. QED BY <1>5, <2>1
<1>. QED BY <1>1, <1>4, <1>5, <1>6, <1>7

\* What a turn of the loop takes off a stream.
LEMMA RestOfStream ==
  ASSUME ByteTypes, StreamInv, HoldsPacket, NEW t \in Links, TakePacket
  PROVE  \E p \in Packet :
           /\ parsePacket(SubSeq(tcpBuffer, 1, PACKET_SIZE)) = p
           /\ Len(Stream(t)) = Len(Stream(t)') + PACKET_SIZE
           /\ \A k \in 1 .. PACKET_SIZE : Stream(t)[k] = <<p, k>>
           /\ \A k \in 1 .. Len(Stream(t)') : Stream(t)'[k] = Stream(t)[k + PACKET_SIZE]
<1>1. PICK b \in Seq(Byte(Packet)) : b = tcpBuffer
  BY DEF ByteTypes
<1>2. PACKET_SIZE \in 1 .. Len(b) /\ Len(b) \in Nat
  BY <1>1, PacketAssumption, LenProperties DEF HoldsPacket
<1>. DEFINE p == SubSeq(b, 1, PACKET_SIZE)
            q == SubSeq(b, PACKET_SIZE + 1, Len(b))
<1>3. /\ p \in Seq(Byte(Packet)) /\ q \in Seq(Byte(Packet))
      /\ Len(p) = PACKET_SIZE /\ p \o q = b
  BY <1>2, CutInTwo
<1>4. tcpBuffer' = q /\ SubSeq(tcpBuffer, 1, PACKET_SIZE) = p /\ inbox' = inbox
  BY <1>1 DEF TakePacket, Rest, host_vars
<1>5. Len(q) = Len(b) - PACKET_SIZE /\ \A k \in 1 .. Len(q) : q[k] = b[k + PACKET_SIZE]
  <2>1. /\ Len(q) = Len(b) - PACKET_SIZE
        /\ \A k \in 1 .. Len(b) - PACKET_SIZE : q[k] = b[(PACKET_SIZE + 1) + k - 1]
    BY <1>2, SubSeqProperties, PacketAssumption
  <2>. HIDE DEF q
  <2>2. \A k \in 1 .. Len(b) - PACKET_SIZE : (PACKET_SIZE + 1) + k - 1 = k + PACKET_SIZE
    BY PacketAssumption
  <2>. QED BY <2>1, <2>2
<1>6. \A k \in 1 .. PACKET_SIZE : p[k] = b[k]
  BY <1>2, PacketAssumption
<1>. HIDE DEF p, q
<1>7. Frames(p \o q)
  BY <1>1, <1>3 DEF StreamInv
<1>8. PICK kind \in Packet : p = Bytes(kind)
  BY <1>3, <1>7, ReadIsWhole
<1>9. \A k \in 1 .. PACKET_SIZE : b[k] = <<kind, k>>
  BY <1>6, <1>8, BytesType
<1>10. parsePacket(p) = kind
  <2>1. p[1] = <<kind, 1>>
    BY <1>8, BytesType, PacketAssumption
  <2>. QED BY <1>8, <2>1 DEF parsePacket
<1>11. PICK e \in Seq(Byte(Packet)) : e = inbox[t] /\ Len(e) \in Nat
  BY LenProperties DEF ByteTypes
<1>12. ByteTypes'
  <2>1. tcp' = None => tcpBuffer' = <<>>
    <3>1. tcp # None
      BY PacketAssumption, EmptySeq DEF ByteTypes, HoldsPacket
    <3>. QED BY <3>1 DEF TakePacket
  <2>. QED BY <1>3, <1>4, <2>1 DEF ByteTypes
<1>. DEFINE st == Stream(t)
            r  == Stream(t)'
<1>13. /\ st \in Seq(Byte(Packet)) /\ Len(st) = Len(b) + Len(e)
       /\ \A k \in 1 .. Len(b) : st[k] = b[k]
       /\ \A k \in 1 .. Len(e) : st[Len(b) + k] = e[k]
  BY <1>1, <1>11, StreamType
<1>14. /\ r \in Seq(Byte(Packet)) /\ Len(r) = Len(q) + Len(e)
       /\ \A k \in 1 .. Len(q) : r[k] = q[k]
       /\ \A k \in 1 .. Len(e) : r[Len(q) + k] = e[k]
  <2>1. /\ Stream(t)' \in Seq(Byte(Packet))
        /\ Len(Stream(t)') = Len(tcpBuffer') + Len(inbox'[t])
        /\ \A k \in 1 .. Len(tcpBuffer') : Stream(t)'[k] = tcpBuffer'[k]
        /\ \A k \in 1 .. Len(inbox'[t]) : Stream(t)'[Len(tcpBuffer') + k] = inbox'[t][k]
    <3>1. \A x, y : /\ x \in Seq(Byte(Packet)) /\ y \in Seq(Byte(Packet))
            => /\ x \o y \in Seq(Byte(Packet)) /\ Len(x \o y) = Len(x) + Len(y)
               /\ \A k \in 1 .. Len(x) : (x \o y)[k] = x[k]
               /\ \A k \in 1 .. Len(y) : (x \o y)[Len(x) + k] = y[k]
      BY ConcatProperties
    <3>. QED BY <1>12, <3>1 DEF Stream, ByteTypes
  <2>. QED BY <1>4, <1>11, <2>1
<1>. HIDE DEF st, r
<1>15. Len(st) = Len(r) + PACKET_SIZE
  BY <1>2, <1>5, <1>11, <1>13, <1>14
<1>16. ASSUME NEW k \in 1 .. PACKET_SIZE PROVE st[k] = <<kind, k>>
  <2>1. k \in 1 .. Len(b)
    BY <1>2
  <2>. QED BY <1>9, <1>13, <2>1
<1>17. ASSUME NEW k \in 1 .. Len(r) PROVE r[k] = st[k + PACKET_SIZE]
  <2>1. CASE k <= Len(q)
    <3>1. k \in 1 .. Len(q) /\ k + PACKET_SIZE \in 1 .. Len(b)
      BY <1>2, <1>5, <2>1, PacketAssumption
    <3>. QED BY <1>5, <1>13, <1>14, <3>1
  <2>2. CASE ~(k <= Len(q))
    <3>1. PICK j \in 1 .. Len(e) : k = Len(q) + j
      <4>1. /\ k - Len(q) \in 1 .. Len(e) /\ k = Len(q) + (k - Len(q))
        BY <1>2, <1>5, <1>11, <1>14, <2>2, PacketAssumption
      <4>. QED BY <4>1
    <3>2. k + PACKET_SIZE = Len(b) + j
      BY <1>2, <1>5, <3>1, PacketAssumption
    <3>. QED BY <1>13, <1>14, <3>1, <3>2
  <2>. QED BY <2>1, <2>2
<1>. QED BY <1>4, <1>10, <1>15, <1>16, <1>17 DEF st, r

\* What the host writes comes behind a stream.
LEMMA MoreOfStream ==
  ASSUME ByteTypes, NEW t \in Links, NEW p \in Packet, Arrives(t, p),
         tcpBuffer' = tcpBuffer
  PROVE  /\ Stream(t)' \in Seq(Byte(Packet))
         /\ Len(Stream(t)') = Len(Stream(t)) + PACKET_SIZE
         /\ \A k \in 1 .. Len(Stream(t)) : Stream(t)'[k] = Stream(t)[k]
         /\ \A k \in 1 .. PACKET_SIZE : Stream(t)'[Len(Stream(t)) + k] = <<p, k>>
<1>1. PICK a \in Seq(Byte(Packet)), b \in Seq(Byte(Packet)) :
        a = tcpBuffer /\ b = inbox[t]
  BY DEF ByteTypes
<1>2. PICK c \in Seq(Byte(Packet)) :
        /\ c = Bytes(p) /\ Len(c) = PACKET_SIZE
        /\ \A k \in 1 .. PACKET_SIZE : c[k] = <<p, k>>
  BY BytesType
<1>3. inbox'[t] = b \o c
  BY <1>1, <1>2 DEF Arrives, ByteTypes
<1>4. PICK st \in Seq(Byte(Packet)) : st = Stream(t)
  BY StreamType
<1>5. Stream(t)' = st \o c
  <2>1. (a \o b) \o c = a \o (b \o c)
    <3>1. c \in Seq(Byte(Packet))
      OBVIOUS
    <3>. QED BY <3>1, Associative
  <2>2. Stream(t)' = a \o (b \o c)
    BY <1>1, <1>3 DEF Stream
  <2>. QED BY <1>1, <1>4, <2>1, <2>2 DEF Stream
<1>6. PICK new \in Seq(Byte(Packet)) :
        /\ new = st \o c /\ Len(new) = Len(st) + Len(c)
        /\ \A k \in 1 .. Len(st) + Len(c) :
             new[k] = IF k <= Len(st) THEN st[k] ELSE c[k - Len(st)]
  <2>1. PICK new \in Seq(Byte(Packet)) : new = st \o c
    BY ConcatProperties
  <2>. QED BY <2>1, ConcatProperties
<1>7. Len(st) \in Nat /\ PACKET_SIZE \in Nat
  BY PacketAssumption, LenProperties
<1>8. ASSUME NEW k \in 1 .. Len(st) PROVE new[k] = st[k]
  BY <1>2, <1>6, <1>7
<1>9. ASSUME NEW k \in 1 .. PACKET_SIZE PROVE new[Len(st) + k] = <<p, k>>
  <2>1. /\ Len(st) + k \in 1 .. Len(st) + Len(c) /\ ~(Len(st) + k <= Len(st))
        /\ (Len(st) + k) - Len(st) = k
    BY <1>2, <1>7
  <2>. QED BY <1>2, <1>6, <2>1
<1>. QED BY <1>2, <1>4, <1>5, <1>6, <1>8, <1>9

\* What a data event takes in, it takes from the front of what is unread.
LEMMA SameStream ==
  ASSUME ByteTypes, NEW t \in Links, DataEvent(t)
  PROVE  Stream(t)' = Stream(t)
<1>1. PICK n \in 1 .. Len(inbox[t]) :
        /\ inbox' = [inbox EXCEPT ![t] = SubSeq(@, n + 1, Len(@))]
        /\ tcpBuffer' = tcpBuffer \o SubSeq(inbox[t], 1, n)
  BY DEF DataEvent
<1>2. PICK a \in Seq(Byte(Packet)), b \in Seq(Byte(Packet)) :
        a = tcpBuffer /\ b = inbox[t]
  BY DEF ByteTypes
<1>. DEFINE p == SubSeq(b, 1, n)
            q == SubSeq(b, n + 1, Len(b))
<1>3. p \in Seq(Byte(Packet)) /\ q \in Seq(Byte(Packet)) /\ p \o q = b
  BY <1>1, <1>2, CutInTwo
<1>4. inbox'[t] = q /\ tcpBuffer' = a \o p
  BY <1>1, <1>2 DEF ByteTypes
<1>. HIDE DEF p, q
<1>5. (a \o p) \o q = a \o (p \o q)
  <2>1. p \in Seq(Byte(Packet)) /\ q \in Seq(Byte(Packet))
    BY <1>3
  <2>. QED BY <2>1, Associative
<1>. QED BY <1>2, <1>3, <1>4, <1>5 DEF Stream

\* What is left of a stream that the host's end cuts.
LEMMA CutStream ==
  ASSUME ByteTypes, ByteTypes', NEW t \in Links, HostDrops(t)
  PROVE  /\ Stream(t)' \in Seq(Byte(Packet)) /\ Len(Stream(t)') <= Len(Stream(t))
         /\ \A k \in 1 .. Len(Stream(t)') : Stream(t)'[k] = Stream(t)[k]
<1>1. PICK n \in 0 .. Len(inbox[t]) : inbox' = [inbox EXCEPT ![t] = SubSeq(@, 1, n)]
  BY DEF HostDrops
<1>2. PICK a \in Seq(Byte(Packet)), b \in Seq(Byte(Packet)) :
        a = tcpBuffer /\ b = inbox[t] /\ Len(a) \in Nat /\ Len(b) \in Nat
  BY LenProperties DEF ByteTypes
<1>3. PICK e \in Seq(Byte(Packet)) :
        e = inbox'[t] /\ Len(e) = n /\ \A k \in 1 .. n : e[k] = b[k]
  <2>1. inbox'[t] = SubSeq(b, 1, n) /\ n \in 0 .. Len(b)
    BY <1>1, <1>2 DEF ByteTypes
  <2>2. SubSeq(b, 1, n) \in Seq(Byte(Packet))
    BY <2>1
  <2>3. Len(SubSeq(b, 1, n)) = n /\ \A k \in 1 .. n : SubSeq(b, 1, n)[k] = b[k]
    BY <2>1
  <2>. QED BY <2>1, <2>2, <2>3
<1>. DEFINE st == a \o b
            new == a \o e
<1>4. st = Stream(t) /\ new = Stream(t)'
  BY <1>2, <1>3 DEF Stream, HostDrops
<1>5. /\ st \in Seq(Byte(Packet)) /\ Len(st) = Len(a) + Len(b)
      /\ \A k \in 1 .. Len(a) + Len(b) : st[k] = IF k <= Len(a) THEN a[k] ELSE b[k - Len(a)]
  BY ConcatProperties
<1>6. /\ new \in Seq(Byte(Packet)) /\ Len(new) = Len(a) + Len(e)
      /\ \A k \in 1 .. Len(a) + Len(e) : new[k] = IF k <= Len(a) THEN a[k] ELSE e[k - Len(a)]
  BY ConcatProperties
<1>. HIDE DEF st, new
<1>7. ASSUME NEW k \in 1 .. Len(new) PROVE new[k] = st[k]
  <2>1. k \in 1 .. Len(a) + Len(e) /\ k \in 1 .. Len(a) + Len(b)
    BY <1>1, <1>2, <1>3, <1>6
  <2>2. CASE k <= Len(a)
    BY <1>5, <1>6, <2>1, <2>2
  <2>3. CASE ~(k <= Len(a))
    <3>1. k - Len(a) \in 1 .. n
      BY <1>2, <1>3, <2>1, <2>3
    <3>. QED BY <1>3, <1>5, <1>6, <2>1, <2>3, <3>1
  <2>. QED BY <2>2, <2>3
<1>8. Len(new) <= Len(st)
  BY <1>1, <1>2, <1>3, <1>5, <1>6
<1>. QED BY <1>4, <1>6, <1>7, <1>8

\* The session's connection was made; the loop runs on bytes of a live one; and
\* as long as the page listens, a user who has asked or may ask has a connection,
\* if only one whose close event is yet to run: no target is older than the
\* connection.
ConnInv ==
  /\ tcp # None => link[tcp] \notin {"none", "connecting"}
  /\ HoldsPacket => \E t \in Links : link[t] \in Live
  /\ ws = "open" /\ (username # None \/ pendingInfoTargets # <<>>)
       => \E t \in Links : link[t] \in Live \cup {"destroyed"}

\* The targets that wait are those of the questions still on their way, of the
\* answers unread and of the answers in the buffer, in this order.
AnswersInv ==
  ws = "open" /\ ~refused =>
    \A t \in Links : link[t] \in Live =>
      Matches(Marks(Stream(t), out[t]), Len(Stream(t)) + Len(out[t]),
              pendingInfoTargets, link[t] = "up")

\* A closed connection leaves nothing live and nothing in the buffer.
LEMMA NothingLive ==
  ASSUME LinkInv', closeTcp
  PROVE  /\ ~HoldsPacket'
         /\ \A t \in Links : link'[t] \notin Live
<1>1. tcp' = None /\ tcpBuffer' = <<>>
  BY DEF closeTcp
<1>2. ~HoldsPacket'
  BY <1>1, EmptySeq, PacketAssumption DEF HoldsPacket
<1>. QED BY <1>1, <1>2, GatewayAssumption DEF LinkInv, Live

\* Every handler keeps ConnInv.
LEMMA ConnStep ==
  ASSUME SessionTypes, LinkInv, LinkInv', ConnInv, [GatewayNext]_gw_vars
  PROVE  ConnInv'
<1>. USE DEF ConnInv
<1>1. ASSUME NEW u \in Names, Register(u), ~HoldsPacket PROVE ConnInv'
  <2>0. ~HoldsPacket' /\ UNCHANGED <<ws, tcp, pendingInfoTargets>>
    BY <1>1 DEF Register, startTcpSession, HoldsPacket
  <2>1. CASE startTcpSession(u)
    <3>1. UNCHANGED username
      BY <2>1 DEF startTcpSession
    <3>2. PICK t \in Links : link[t] = "none" /\ Moves(t, "connecting")
      BY <2>1, StartedUnused
    <3>3. \A l \in Links : l # t => link'[l] = link[l]
      BY <3>2 DEF Moves, SessionTypes
    <3>4. tcp # None => tcp \in Links /\ tcp # t
      BY <3>2 DEF SessionTypes
    <3>5. \A l \in Links : link[l] \in Live \cup {"destroyed"} => l # t
      BY <3>2 DEF Live
    <3>. QED BY <2>0, <3>1, <3>3, <3>4, <3>5
  <2>2. CASE Usable /\ link' = link
    <3>1. tcp \in Links /\ link[tcp] \in Live
      BY <2>2 DEF Usable, Destroyed, SessionTypes, Live
    <3>. QED BY <2>0, <2>2, <3>1
  <2>. QED BY <1>1, <2>1, <2>2 DEF Register
<1>2. ASSUME Logout \/ WsCloseEvent \/ WsErrorEvent PROVE ConnInv'
  <2>0. closeTcp
    BY <1>2 DEF Logout, WsCloseEvent, WsErrorEvent
  <2>1. ~HoldsPacket' /\ tcp' = None
    BY <2>0, NothingLive DEF closeTcp
  <2>2. CASE ws' # "open"
    BY <2>1, <2>2
  <2>3. CASE ws' = "open"
    <3>1. Logout /\ ws = "open" /\ username # None
      BY <1>2, <2>3 DEF Logout, WsCloseEvent, WsErrorEvent
    <3>2. PICK t \in Links : link[t] \in Live \cup {"destroyed"}
      BY <3>1
    <3>3. link'[t] = "destroyed"
      <4>1. CASE Usable /\ t = tcp
        BY <2>0, <4>1, ClosedLinks
      <4>2. CASE ~(Usable /\ t = tcp)
        <5>1. link'[t] = link[t]
          BY <2>0, <4>2, ClosedLinks
        <5>2. link'[t] \notin Live
          BY <2>0, NothingLive
        <5>. QED BY <3>2, <5>1, <5>2
      <4>. QED BY <4>1, <4>2
    <3>. QED BY <2>1, <3>3
  <2>. QED BY <2>2, <2>3
<1>3. ASSUME OtherRequest \/ \E n \in Names : Info(n), ~HoldsPacket PROVE ConnInv'
  <2>1. UNCHANGED <<ws, tcp, tcpBuffer, username, link>> /\ username # None
    BY <1>3 DEF Info, OtherRequest
  <2>. QED BY <1>3, <2>1 DEF HoldsPacket
<1>4. ASSUME BrowserCloses \/ \E t \in Links : HostAnswers(t) \/ HostSends(t)
      PROVE  ConnInv'
  <2>1. /\ UNCHANGED <<tcp, tcpBuffer, username, link, pendingInfoTargets>>
        /\ ws' = "open" => ws = "open"
    BY <1>4 DEF BrowserCloses, HostAnswers, HostSends
  <2>. QED BY <2>1 DEF HoldsPacket
<1>5. ASSUME NEW t \in Links, Connected(t) PROVE ConnInv'
  <2>1. link' = [link EXCEPT ![t] = "up"] /\ tcp' = t /\ tcpBuffer' = <<>>
    BY <1>5 DEF Connected, Moves
  <2>2. ~HoldsPacket'
    BY <2>1, EmptySeq, PacketAssumption DEF HoldsPacket
  <2>3. link'[t] = "up"
    BY <2>1 DEF SessionTypes
  <2>. QED BY <2>1, <2>2, <2>3 DEF Live
<1>6. ASSUME NEW t \in Links, ConnectFails(t), ~HoldsPacket PROVE ConnInv'
  <2>1. /\ link[t] = "connecting" /\ link' = [link EXCEPT ![t] = "gone"]
        /\ UNCHANGED <<ws, tcp, tcpBuffer, username, pendingInfoTargets>>
    BY <1>6 DEF ConnectFails, Moves
  <2>2. \A l \in Links : l # t => link'[l] = link[l]
    BY <2>1 DEF SessionTypes
  <2>3. tcp # None => tcp \in Links /\ tcp # t
    BY <2>1 DEF SessionTypes
  <2>. QED BY <1>6, <2>1, <2>2, <2>3 DEF HoldsPacket, Live
<1>7. ASSUME NEW t \in Links, TcpCloseEvent(t), ~HoldsPacket PROVE ConnInv'
  <2>1. /\ link' = [link EXCEPT ![t] = "gone"] /\ ws' # "open"
        /\ UNCHANGED <<tcp, tcpBuffer>>
    BY <1>7 DEF TcpCloseEvent, Moves
  <2>2. tcp # None => tcp \in Links /\ link'[tcp] \in {link[tcp], "gone"}
    BY <2>1 DEF SessionTypes
  <2>. QED BY <1>7, <2>1, <2>2 DEF HoldsPacket
<1>8. ASSUME NEW t \in Links, HostDrops(t), ~HoldsPacket PROVE ConnInv'
  <2>1. /\ link' = [link EXCEPT ![t] = "dropped"]
        /\ UNCHANGED <<ws, tcp, tcpBuffer, username, pendingInfoTargets>>
    BY <1>8 DEF HostDrops, Moves
  <2>2. link'[t] = "dropped"
    BY <2>1 DEF SessionTypes
  <2>3. tcp # None => tcp \in Links /\ link'[tcp] \in {link[tcp], "dropped"}
    BY <2>1 DEF SessionTypes
  <2>. QED BY <1>8, <2>1, <2>2, <2>3 DEF HoldsPacket, Live
<1>9. ASSUME NEW t \in Links, DataEvent(t) PROVE ConnInv'
  <2>1. link[t] \in Live /\ UNCHANGED <<ws, tcp, username, pendingInfoTargets, link>>
    BY <1>9 DEF DataEvent, Live
  <2>. QED BY <2>1
<1>10. ASSUME TakePacket PROVE ConnInv'
  <2>1. HoldsPacket /\ UNCHANGED <<ws, tcp, username, link>>
    BY <1>10 DEF TakePacket
  <2>. QED BY <2>1
<1>11. CASE UNCHANGED gw_vars
  BY <1>11 DEF gw_vars, HoldsPacket
<1>12. TakePacket \/ (~HoldsPacket /\ (FromBrowser \/ FromHost)) \/ UNCHANGED gw_vars
  BY DEF GatewayNext
<1>13. ASSUME ~HoldsPacket, FromBrowser PROVE ConnInv'
  BY <1>1, <1>2, <1>3, <1>4, <1>13 DEF FromBrowser
<1>14. ASSUME ~HoldsPacket, FromHost PROVE ConnInv'
  BY <1>4, <1>5, <1>6, <1>7, <1>8, <1>9, <1>14 DEF FromHost
<1>. QED BY <1>10, <1>11, <1>12, <1>13, <1>14

\* The match of one live connection.
Matched(t) ==
  Matches(Marks(Stream(t), out[t]), Len(Stream(t)) + Len(out[t]),
          pendingInfoTargets, link[t] = "up")

\* Steps that touch nothing of what is asked and answered.
LEMMA AnswersKeep ==
  ASSUME AnswersInv, ws' = "open" => ws = "open", ~refused' => ~refused,
         UNCHANGED <<tcpBuffer, inbox, pendingInfoTargets>>,
         \A t \in Links : link'[t] \in Live => link'[t] = link[t] /\ out'[t] = out[t]
  PROVE  AnswersInv'
<1>1. ASSUME ws' = "open", ~refused', NEW t \in Links, link'[t] \in Live
      PROVE  Matched(t)'
  <2>1. Matched(t)
    BY <1>1 DEF AnswersInv, Matched
  <2>2. Stream(t)' = Stream(t) /\ out'[t] = out[t] /\ link'[t] = link[t]
    BY <1>1 DEF Stream
  <2>. QED BY <2>1, <2>2 DEF Matched
<1>. QED BY <1>1 DEF AnswersInv, Matched

\* A request that asks about nobody, behind all others.
LEMMA OtherAsked ==
  ASSUME SessionTypes, ByteTypes, AnswersInv, NEW r \in Outgoing, r.command # "INFO",
         sendPacket(r), UNCHANGED <<ws, tcpBuffer, pendingInfoTargets, link>>
  PROVE  AnswersInv'
<1>1. UNCHANGED <<inbox, refused>>
  BY DEF sendPacket
<1>2. ASSUME ws' = "open", ~refused', NEW t \in Links, link'[t] \in Live
      PROVE  Matched(t)'
  <2>1. Matched(t) /\ Stream(t)' = Stream(t) /\ pendingInfoTargets' = pendingInfoTargets
    BY <1>1, <1>2 DEF AnswersInv, Matched, Stream
  <2>2. CASE out'[t] = out[t]
    BY <2>1, <2>2 DEF Matched
  <2>3. CASE out'[t] # out[t]
    <3>1. out'[t] = Append(out[t], r)
      BY <2>3 DEF sendPacket, SessionTypes
    <3>2. PICK st \in Seq(Byte(Packet)), queue \in Seq(Outgoing), p \in Seq(Names) :
            st = Stream(t) /\ queue = out[t] /\ p = pendingInfoTargets
      BY StreamType DEF SessionTypes
    <3>. DEFINE n == Len(st) + Len(queue)
                mark == Marks(st, queue)
                new == Marks(st, Append(queue, r))
                up == link[t] = "up"
    <3>3. /\ Len(Append(queue, r)) = Len(queue) + 1
          /\ \A k \in 1 .. n : new[k] = mark[k]
          /\ new[n + 1] = None
      BY AskedMarks
    <3>4. Matches(mark, n, p, up)
      BY <2>1, <3>2 DEF Matched
    <3>5. n \in Nat
      BY LenProperties
    <3>. HIDE DEF mark, new, n, up
    <3>6. Matches(new, n + 1, p, up)
      <4>1. /\ \A k \in 1 .. n : new[k] = mark[k]
            /\ \A k \in n + 1 .. n + 1 : new[k] = None
            /\ \A k \in n + 1 .. n : new[k + 1] = mark[k]
        BY <3>3, <3>5
      <4>2. n \in 0 .. n /\ 1 \in Nat
        BY <3>5
      <4>. QED BY <3>4, <3>5, <4>1, <4>2, InsertKeepsMatch
    <3>7. Len(st) + Len(Append(queue, r)) = n + 1
      BY <3>3 DEF n
    <3>. QED BY <2>1, <3>1, <3>2, <3>6, <3>7 DEF Matched, new, up
  <2>. QED BY <2>2, <2>3
<1>. QED BY <1>2 DEF AnswersInv, Matched

\* A question, behind all others, and its target, behind all others.
LEMMA InfoAsked ==
  ASSUME SessionTypes, ByteTypes, LinkInv, AnswersInv, NEW x \in Names, Info(x)
  PROVE  AnswersInv'
<1>1. /\ UNCHANGED <<ws, tcpBuffer, inbox, link, refused>>
      /\ pendingInfoTargets' = Append(pendingInfoTargets, x)
  BY DEF Info, Forward, sendPacket, host_vars
<1>2. ASSUME ws' = "open", ~refused', NEW t \in Links, link'[t] \in Live
      PROVE  Matched(t)'
  <2>. DEFINE r == [command |-> "INFO", about |-> x]
  <2>1. Matched(t) /\ Stream(t)' = Stream(t) /\ link'[t] = link[t]
    BY <1>1, <1>2 DEF AnswersInv, Matched, Stream
  <2>2. tcp = t /\ Usable
    BY <1>1, <1>2, GatewayAssumption DEF LinkInv, Usable, Destroyed, Live
  <2>3. sendPacket(r) /\ r \in Outgoing /\ r.command = "INFO" /\ r.about = x
    BY <2>2 DEF Info, Forward, Outgoing
  <2>. HIDE DEF r
  <2>4. PICK st \in Seq(Byte(Packet)), queue \in Seq(Outgoing), p \in Seq(Names) :
          st = Stream(t) /\ queue = out[t] /\ p = pendingInfoTargets
    BY StreamType DEF SessionTypes
  <2>. DEFINE n == Len(st) + Len(queue)
              mark == Marks(st, queue)
              new == Marks(st, Append(queue, r))
  <2>5. n \in Nat
    BY LenProperties
  <2>6. CASE link[t] = "up"
    <3>1. out'[t] = Append(out[t], r)
      BY <2>2, <2>3, <2>6 DEF sendPacket, SessionTypes
    <3>2. /\ Len(Append(queue, r)) = Len(queue) + 1
          /\ \A k \in 1 .. n : new[k] = mark[k]
          /\ new[n + 1] = x
      BY <2>3, AskedMarks
    <3>3. Matches(mark, n, p, TRUE)
      BY <2>1, <2>4, <2>6 DEF Matched
    <3>4. Len(st) + Len(Append(queue, r)) = n + 1
      BY <3>2
    <3>. HIDE DEF mark, new, n
    <3>5. Matches(new, n + 1, Append(p, x), TRUE)
      BY <2>5, <3>2, <3>3, AskKeepsMatch
    <3>6. Matches(Marks(Stream(t)', out'[t]), Len(Stream(t)') + Len(out'[t]),
                  pendingInfoTargets', TRUE)
      BY <1>1, <2>1, <2>4, <3>1, <3>4, <3>5 DEF new
    <3>7. (link'[t] = "up") = TRUE
      BY <2>1, <2>6
    <3>. QED BY <3>6, <3>7 DEF Matched
  <2>7. CASE link[t] # "up"
    <3>1. out' = out
      BY <2>2, <2>3, <2>7 DEF sendPacket
    <3>2. (link[t] = "up") = FALSE
      BY <2>7
    <3>3. Matches(mark, n, p, FALSE)
      BY <2>1, <2>4, <3>2 DEF Matched
    <3>. HIDE DEF mark, new, n
    <3>4. Matches(mark, n, Append(p, x), FALSE)
      BY <2>5, <3>3, VainKeepsMatch
    <3>5. Matches(Marks(Stream(t)', out'[t]), Len(Stream(t)') + Len(out'[t]),
                  pendingInfoTargets', FALSE)
      BY <1>1, <2>1, <2>4, <3>1, <3>4 DEF mark, n
    <3>. QED BY <2>1, <3>2, <3>5 DEF Matched
  <2>. QED BY <2>6, <2>7
<1>. QED BY <1>2 DEF AnswersInv, Matched

\* The first request of a connection asks about nobody, and no target waits.
LEMMA ConnectedMatches ==
  ASSUME SessionTypes, LinkInv, LinkInv', ByteTypes, StreamInv, ConnInv,
         NEW t \in Links, Connected(t)
  PROVE  AnswersInv'
<1>1. /\ link[t] = "connecting" /\ link' = [link EXCEPT ![t] = "up"] /\ tcp' = t
      /\ tcpBuffer' = <<>> /\ inbox' = inbox
      /\ out' = [out EXCEPT ![t] = <<[command |-> "REGISTER", about |-> None]>>]
      /\ UNCHANGED <<ws, pendingInfoTargets>>
      /\ \A l \in Links : link[l] # "destroyed"
  BY DEF Connected, Moves
<1>2. inbox[t] = <<>>
  BY <1>1 DEF StreamInv
<1>3. \A l \in Links : link[l] \notin Live
  BY <1>1 DEF LinkInv, Live
<1>4. ws' = "open" => pendingInfoTargets' = <<>>
  BY <1>1, <1>3 DEF ConnInv
<1>5. ASSUME ws' = "open", NEW l \in Links, link'[l] \in Live PROVE Matched(l)'
  <2>1. l = t
    BY <1>1, <1>5 DEF LinkInv
  <2>. DEFINE queue == <<[command |-> "REGISTER", about |-> None]>>
  <2>2. Stream(t)' = <<>> /\ out'[t] = queue /\ pendingInfoTargets' = <<>>
    <3>1. <<>> \o <<>> = <<>>
      OBVIOUS
    <3>. QED BY <1>1, <1>2, <1>4, <1>5, <3>1 DEF Stream, SessionTypes
  <2>3. /\ Len(<<>>) = 0 /\ Len(queue) = 1 /\ queue[1].command = "REGISTER"
        /\ queue[1 - 0] = queue[1]
    OBVIOUS
  <2>. HIDE DEF queue
  <2>4. \A k \in 1 .. 0 + 1 : Marks(<<>>, queue)[k] = None
    <3>1. ASSUME NEW k \in 1 .. 1 PROVE Marks(<<>>, queue)[k] = None
      <4>1. k = 1 /\ ~(k <= 0)
        OBVIOUS
      <4>. QED BY <2>3, <4>1 DEF Marks
    <3>. QED BY <3>1
  <2>5. Matches(Marks(<<>>, queue), 0 + 1, <<>>, TRUE)
    <3>. DEFINE place == [i \in 1 .. 0 |-> 1]
    <3>1. place \in [1 .. 0 -> Nat \ {0}] /\ 1 .. 0 = {}
      OBVIOUS
    <3>. HIDE DEF place
    <3>. QED BY <2>3, <2>4, <3>1 DEF Matches
  <2>6. (link'[t] = "up") = TRUE
    BY <1>1 DEF SessionTypes
  <2>. QED BY <2>1, <2>2, <2>3, <2>5, <2>6 DEF Matched
<1>. QED BY <1>5 DEF AnswersInv, Matched

\* There is one live connection.
LEMMA OneLive ==
  ASSUME LinkInv, NEW t \in Links, link[t] \in Live, NEW l \in Links, link[l] \in Live
  PROVE  l = t
BY DEF LinkInv

\* A turn of the loop takes the first packet off the stream and, if it answers a
\* question, the first target off the queue: the right one.
LEMMA TakeMatches ==
  ASSUME SessionTypes, ByteTypes, StreamInv, LinkInv, ConnInv, AnswersInv,
         LabelledUnlessRefused, TakePacket
  PROVE  AnswersInv' /\ LabelledUnlessRefused'
<1>1. /\ UNCHANGED <<ws, link, inbox, out, refused>> /\ HoldsPacket
      /\ toClientEvent(parsePacket(SubSeq(tcpBuffer, 1, PACKET_SIZE)))
  BY DEF TakePacket, host_vars
<1>2. PICK t \in Links : link[t] \in Live
  BY <1>1 DEF ConnInv
<1>3. PICK p \in Packet :
        /\ parsePacket(SubSeq(tcpBuffer, 1, PACKET_SIZE)) = p
        /\ Len(Stream(t)) = Len(Stream(t)') + PACKET_SIZE
        /\ \A k \in 1 .. PACKET_SIZE : Stream(t)[k] = <<p, k>>
        /\ \A k \in 1 .. Len(Stream(t)') : Stream(t)'[k] = Stream(t)[k + PACKET_SIZE]
  BY <1>1, RestOfStream
<1>4. toClientEvent(p)
  BY <1>1, <1>3
<1>5. CASE ws # "open" \/ refused
  <2>1. ws # "open" => shown' = shown
    BY <1>4 DEF toClientEvent
  <2>. QED BY <1>1, <1>5, <2>1 DEF AnswersInv, LabelledUnlessRefused
<1>6. CASE ws = "open" /\ ~refused
  <2>1. PICK st \in Seq(Byte(Packet)), queue \in Seq(Outgoing), targets \in Seq(Names) :
          st = Stream(t) /\ queue = out[t] /\ targets = pendingInfoTargets
    BY StreamType DEF SessionTypes
  <2>2. PICK rest \in Seq(Byte(Packet)) : rest = Stream(t)'
    <3>1. Rest(tcpBuffer) \in Seq(Byte(Packet))
      BY <1>1, FrontIsPacket
    <3>2. inbox[t] \in Seq(Byte(Packet))
      BY DEF ByteTypes
    <3>3. Rest(tcpBuffer) \o inbox[t] \in Seq(Byte(Packet))
      BY <3>1, <3>2, ConcatProperties
    <3>. QED BY <1>1, <3>3 DEF Stream, TakePacket
  <2>. DEFINE P == PACKET_SIZE
              n == Len(st) + Len(queue)
              left == Len(rest) + Len(queue)
              mark == Marks(st, queue)
              new == Marks(rest, queue)
              up == link[t] = "up"
  <2>3. n = left + P /\ n \in Nat /\ left \in Nat /\ P \in Nat /\ P >= 1
    <3>1. Len(st) \in Nat /\ Len(rest) \in Nat /\ Len(queue) \in Nat
      BY LenProperties
    <3>2. Len(st) = Len(rest) + P
      BY <1>3, <2>1, <2>2
    <3>. QED BY <3>1, <3>2, PacketAssumption
  <2>4. /\ mark[1] = IF p.command = "USER_INFO" THEN p.about ELSE None
        /\ \A k \in 2 .. P : mark[k] = None
        /\ \A k \in 1 .. left : new[k] = mark[k + P]
    <3>1. /\ Len(st) = Len(rest) + P
          /\ \A k \in 1 .. P : st[k] = <<p, k>>
          /\ \A k \in 1 .. Len(rest) : rest[k] = st[k + P]
      BY <1>3, <2>1, <2>2
    <3>. QED BY <3>1, RestMarks
  <2>5. Matches(mark, n, targets, up)
    BY <1>2, <1>6, <2>1 DEF AnswersInv
  <2>6. \A l \in Links : link[l] \in Live => l = t
    BY <1>2, OneLive
  <2>7. ASSUME NEW after, pendingInfoTargets' = after, Matches(new, left, after, up)
        PROVE  AnswersInv'
    <3>1. Matched(t)'
      BY <1>1, <2>1, <2>2, <2>7 DEF Matched
    <3>. QED BY <1>1, <2>6, <3>1 DEF AnswersInv, Matched
  <2>. HIDE DEF mark, new, n, left, up
  <2>8. CASE p.command # "USER_INFO"
    <3>1. pendingInfoTargets' = targets
      BY <1>4, <2>1, <2>8 DEF toClientEvent
    <3>2. Matches(new, left, targets, up)
      <4>1. \A k \in 1 .. P : mark[k] = None
        <5>1. \A k \in 1 .. P : k = 1 \/ k \in 2 .. P
          OBVIOUS
        <5>. QED BY <2>4, <2>8, <5>1
      <4>2. n - P = left /\ P \in 0 .. n
        BY <2>3
      <4>3. \A k \in 1 .. n - P : new[k] = mark[k + P]
        BY <2>4, <4>2
      <4>4. Matches(new, n - P, targets, up)
        BY <2>3, <2>5, <4>1, <4>2, <4>3, SkipKeepsMatch
      <4>. QED BY <4>2, <4>4
    <3>3. shown' \subseteq shown
      <4>1. p.about = None /\ p.command \in {"OTHER", "ERROR"}
        BY <2>8 DEF Packet
      <4>2. [type |-> p.command, about |-> p.about, user |-> None] \notin Event
        <5>. DEFINE e == [type |-> p.command, about |-> p.about, user |-> None]
        <5>1. e.type = p.command /\ \A x \in Event : x.type \in {"garbled", "USER_INFO"}
          BY DEF Event
        <5>. QED BY <4>1, <5>1
      <4>. QED BY <1>4, <2>8, <4>2 DEF toClientEvent
    <3>. QED BY <1>1, <2>7, <3>1, <3>2, <3>3 DEF LabelledUnlessRefused
  <2>9. CASE p.command = "USER_INFO"
    <3>1. p.about \in Names /\ p.about # None
      BY <2>9, GatewayAssumption DEF Packet
    <3>. DEFINE skipped == [k \in 1 .. n - 1 |-> mark[k + 1]]
    <3>2. /\ targets # <<>> /\ Head(targets) = p.about
          /\ Matches(skipped, n - 1, Tail(targets), up)
      <4>1. mark[1] = p.about /\ mark[1] # None
        BY <2>4, <2>9, <3>1
      <4>2. \A k \in 1 .. n - 1 : skipped[k] = mark[k + 1]
        OBVIOUS
      <4>3. n \in Nat \ {0}
        BY <2>3
      <4>. HIDE DEF skipped
      <4>4. /\ targets # <<>> /\ Head(targets) = mark[1]
            /\ Matches(skipped, n - 1, Tail(targets), up)
        BY <2>5, <4>1, <4>2, <4>3, FirstIsMatched
      <4>. QED BY <4>1, <4>4
    <3>3. Tail(targets) \in Seq(Names)
      BY <3>2
    <3>4. Matches(new, left, Tail(targets), up)
      <4>1. \A k \in 1 .. P - 1 : skipped[k] = None
        <5>1. \A k \in 1 .. P - 1 : k + 1 \in 2 .. P /\ k \in 1 .. n - 1
          BY <2>3
        <5>. QED BY <2>4, <5>1
      <4>2. (n - 1) - (P - 1) = left /\ P - 1 \in 0 .. n - 1 /\ n - 1 \in Nat
        BY <2>3
      <4>3. \A k \in 1 .. left : new[k] = skipped[k + (P - 1)]
        <5>1. \A k \in 1 .. left : /\ k + (P - 1) \in 1 .. n - 1
                                   /\ (k + (P - 1)) + 1 = k + P
          BY <2>3
        <5>2. \A k \in 1 .. left : skipped[k + (P - 1)] = mark[(k + (P - 1)) + 1]
          BY <5>1
        <5>. HIDE DEF skipped
        <5>. QED BY <2>4, <5>1, <5>2
      <4>. HIDE DEF skipped
      <4>4. \A k \in 1 .. (n - 1) - (P - 1) : new[k] = skipped[k + (P - 1)]
        BY <4>2, <4>3
      <4>5. Matches(new, (n - 1) - (P - 1), Tail(targets), up)
        BY <3>2, <3>3, <4>1, <4>2, <4>4, SkipKeepsMatch
      <4>. QED BY <4>2, <4>5
    <3>5. /\ pendingInfoTargets' = Tail(targets)
          /\ shown' \subseteq shown \cup {[type |-> "USER_INFO", about |-> p.about,
                                           user |-> p.about]}
      BY <1>4, <2>1, <2>9, <3>2 DEF toClientEvent, shift
    <3>6. \A e \in shown' : e \in shown \/ (e.user = p.about /\ e.about = p.about)
      BY <3>5
    <3>7. LabelledUnlessRefused'
      BY <1>6, <3>6 DEF LabelledUnlessRefused
    <3>. QED BY <2>7, <3>4, <3>5, <3>7
  <2>. QED BY <2>8, <2>9
<1>. QED BY <1>5, <1>6

\* An answer takes the place of its question.
LEMMA AnswerMatches ==
  ASSUME SessionTypes, ByteTypes, LinkInv, AnswersInv, NEW t \in Links, HostAnswers(t)
  PROVE  AnswersInv'
<1>1. PICK p \in Replies(Head(out[t])) :
        /\ Arrives(t, p)
        /\ out' = [out EXCEPT ![t] = Tail(@)]
        /\ refused' = (refused \/ (Head(out[t]).command = "INFO" /\ p.command = "ERROR"))
  BY DEF HostAnswers
<1>2. /\ link[t] = "up" /\ out[t] # <<>>
      /\ UNCHANGED <<ws, link, tcpBuffer, pendingInfoTargets>>
  BY DEF HostAnswers
<1>3. PICK st \in Seq(Byte(Packet)), queue \in Seq(Outgoing), targets \in Seq(Names) :
        st = Stream(t) /\ queue = out[t] /\ targets = pendingInfoTargets
  BY StreamType DEF SessionTypes
<1>4. PICK tail \in Seq(Outgoing) :
        /\ tail = Tail(queue) /\ Len(queue) = Len(tail) + 1
        /\ Head(queue) = queue[1] /\ \A k \in 1 .. Len(tail) : tail[k] = queue[k + 1]
  <2>1. queue # <<>>
    BY <1>2, <1>3
  <2>2. PICK tail \in Seq(Outgoing) :
          tail = Tail(queue) /\ Len(tail) = Len(queue) - 1
          /\ \A k \in 1 .. Len(tail) : tail[k] = queue[k + 1]
    BY <2>1, HeadTailProperties
  <2>3. Len(queue) = Len(tail) + 1 /\ Head(queue) = queue[1]
    BY <2>1, <2>2
  <2>. QED BY <2>2, <2>3
<1>5. queue[1] \in Outgoing
  <2>1. 1 \in 1 .. Len(queue)
    BY <1>4
  <2>. QED BY <2>1
<1>6. p \in Packet
  <2>1. p \in Replies(queue[1])
    BY <1>1, <1>3, <1>4
  <2>2. queue[1].command = "INFO" => queue[1].about \in Names
    BY <1>5 DEF Outgoing
  <2>. QED BY <2>1, <2>2 DEF Replies, Packet
<1>7. ASSUME ws' = "open", ~refused' PROVE Matched(t)'
  <2>. DEFINE P == PACKET_SIZE
              L == Len(st)
              n == L + Len(queue)
              more == Stream(t)'
              mark == Marks(st, queue)
              new == Marks(more, tail)
  <2>1. /\ more \in Seq(Byte(Packet)) /\ Len(more) = L + P
        /\ \A k \in 1 .. L : more[k] = st[k]
        /\ \A k \in 1 .. P : more[L + k] = <<p, k>>
    BY <1>1, <1>2, <1>3, <1>6, MoreOfStream
  <2>. HIDE DEF more
  <2>2. /\ \A k \in 1 .. L : new[k] = mark[k]
        /\ new[L + 1] = IF p.command = "USER_INFO" THEN p.about ELSE None
        /\ \A k \in L + 2 .. L + P : new[k] = None
        /\ \A k \in 1 .. Len(tail) :
             new[L + P + k] = IF tail[k].command = "INFO" THEN tail[k].about ELSE None
    <3>1. /\ st \in Seq(Byte(Packet)) /\ more \in Seq(Byte(Packet))
          /\ queue \in Seq(Outgoing) /\ tail \in Seq(Outgoing) /\ p \in Packet
      BY <1>4, <1>6, <2>1
    <3>2. /\ Len(more) = Len(st) + PACKET_SIZE
          /\ \A k \in 1 .. Len(st) : more[k] = st[k]
          /\ \A k \in 1 .. PACKET_SIZE : more[Len(st) + k] = <<p, k>>
      BY <2>1
    <3>. HIDE DEF n
    <3>. QED BY <3>1, <3>2, MoreMarks, ZenonT(30)
  <2>3. /\ P \in Nat /\ P >= 1 /\ L \in Nat /\ Len(tail) \in Nat /\ n \in Nat
        /\ n = L + 1 + Len(tail)
    BY <1>4, PacketAssumption, LenProperties
  <2>4. \A k \in 1 .. Len(queue) :
          mark[L + k] = IF queue[k].command = "INFO" THEN queue[k].about ELSE None
    <3>1. ASSUME NEW k \in 1 .. Len(queue)
          PROVE  mark[L + k] = IF queue[k].command = "INFO" THEN queue[k].about ELSE None
      <4>1. L + k \in 1 .. L + Len(queue) /\ ~(L + k <= L) /\ (L + k) - L = k
        BY <2>3
      <4>. QED BY <4>1 DEF Marks
    <3>. QED BY <3>1
  <2>5. Matches(mark, n, targets, TRUE)
    <3>1. (link[t] = "up") = TRUE /\ link[t] \in Live
      BY <1>2 DEF Live
    <3>2. ws = "open" /\ ~refused
      BY <1>1, <1>2, <1>7
    <3>. QED BY <1>3, <3>1, <3>2 DEF AnswersInv
  <2>6. new[L + 1] = mark[L + 1]
    <3>1. 1 \in 1 .. Len(queue)
      BY <1>4, <2>3
    <3>2. mark[L + 1] = IF queue[1].command = "INFO" THEN queue[1].about ELSE None
      BY <2>4, <3>1
    <3>3. p \in Replies(queue[1]) /\ ~(queue[1].command = "INFO" /\ p.command = "ERROR")
      BY <1>1, <1>3, <1>4, <1>7
    <3>. QED BY <2>2, <3>2, <3>3 DEF Replies
  <2>7. \A k \in 1 .. L + 1 : new[k] = mark[k]
    <3>1. \A k \in 1 .. L + 1 : k \in 1 .. L \/ k = L + 1
      BY <2>3
    <3>. QED BY <2>2, <2>6, <3>1
  <2>8. \A k \in (L + 1) + 1 .. (L + 1) + (P - 1) : new[k] = None
    <3>1. (L + 1) + 1 = L + 2 /\ (L + 1) + (P - 1) = L + P
      BY <2>3
    <3>. QED BY <2>2, <3>1
  <2>9. ASSUME NEW k \in (L + 1) + 1 .. n PROVE new[k + (P - 1)] = mark[k]
    <3>1. PICK j \in 1 .. Len(tail) :
            k = L + (j + 1) /\ k + (P - 1) = L + P + j /\ j + 1 \in 1 .. Len(queue)
      <4>1. /\ k - L - 1 \in 1 .. Len(tail) /\ k = L + ((k - L - 1) + 1)
            /\ k + (P - 1) = L + P + (k - L - 1)
            /\ (k - L - 1) + 1 \in 1 .. Len(queue)
        BY <1>4, <2>3
      <4>. QED BY <4>1
    <3>2. tail[j] = queue[j + 1]
      BY <1>4
    <3>3. mark[L + (j + 1)] =
            IF queue[j + 1].command = "INFO" THEN queue[j + 1].about ELSE None
      BY <2>4, <3>1
    <3>4. new[L + P + j] = IF tail[j].command = "INFO" THEN tail[j].about ELSE None
      BY <2>2
    <3>. QED BY <3>1, <3>2, <3>3, <3>4
  <2>10. L + 1 \in 0 .. n /\ P - 1 \in Nat
    BY <2>3
  <2>11. Len(more) + Len(tail) = n + (P - 1)
    <3>1. Len(more) = L + P
      BY <2>1
    <3>. HIDE DEF n, L, P
    <3>2. n + (P - 1) = (L + P) + Len(tail)
      BY <2>3
    <3>. QED BY <3>1, <3>2
  <2>. HIDE DEF new, mark, n, L
  <2>12. Matches(new, n + (P - 1), targets, TRUE)
    <3>. DEFINE c == L + 1
                d == P - 1
    <3>1. /\ c \in 0 .. n /\ d \in Nat /\ n \in Nat
          /\ \A k \in 1 .. c : new[k] = mark[k]
          /\ \A k \in c + 1 .. c + d : new[k] = None
          /\ \A k \in c + 1 .. n : new[k + d] = mark[k]
      BY <2>3, <2>7, <2>8, <2>9, <2>10
    <3>. HIDE DEF c, d
    <3>2. Matches(new, n + d, targets, TRUE)
      BY <2>5, <3>1, InsertKeepsMatch
    <3>. QED BY <3>2 DEF d
  <2>13. out'[t] = tail
    BY <1>1, <1>3, <1>4 DEF SessionTypes
  <2>14. (link'[t] = "up") = TRUE /\ pendingInfoTargets' = targets
    BY <1>2, <1>3
  <2>15. Matches(Marks(Stream(t)', out'[t]), Len(Stream(t)') + Len(out'[t]), targets, TRUE)
    BY <2>11, <2>12, <2>13 DEF new, more
  <2>. QED BY <2>14, <2>15 DEF Matched
<1>8. \A l \in Links : link'[l] \in Live => l = t
  BY <1>2, OneLive DEF Live
<1>. QED BY <1>7, <1>8 DEF AnswersInv, Matched

\* A packet that nobody asked for is marked nowhere.
LEMMA SendMatches ==
  ASSUME SessionTypes, ByteTypes, LinkInv, AnswersInv, NEW t \in Links, HostSends(t)
  PROVE  AnswersInv'
<1>. DEFINE p == [command |-> "OTHER", about |-> None]
<1>1. /\ link[t] = "up" /\ Arrives(t, p)
      /\ UNCHANGED <<ws, link, tcpBuffer, pendingInfoTargets, out, refused>>
  BY DEF HostSends
<1>2. p \in Packet /\ p.command # "USER_INFO"
  BY DEF Packet
<1>. HIDE DEF p
<1>3. PICK st \in Seq(Byte(Packet)), queue \in Seq(Outgoing), targets \in Seq(Names) :
        st = Stream(t) /\ queue = out[t] /\ targets = pendingInfoTargets
  BY StreamType DEF SessionTypes
<1>4. ASSUME ws' = "open", ~refused' PROVE Matched(t)'
  <2>. DEFINE P == PACKET_SIZE
              L == Len(st)
              n == L + Len(queue)
              more == Stream(t)'
              mark == Marks(st, queue)
              new == Marks(more, queue)
  <2>1. /\ more \in Seq(Byte(Packet)) /\ Len(more) = L + P
        /\ \A k \in 1 .. L : more[k] = st[k]
        /\ \A k \in 1 .. P : more[L + k] = <<p, k>>
    BY <1>1, <1>2, <1>3, MoreOfStream
  <2>. HIDE DEF more
  <2>2. /\ \A k \in 1 .. L : new[k] = mark[k]
        /\ new[L + 1] = IF p.command = "USER_INFO" THEN p.about ELSE None
        /\ \A k \in L + 2 .. L + P : new[k] = None
        /\ \A k \in 1 .. Len(queue) :
             new[L + P + k] = IF queue[k].command = "INFO" THEN queue[k].about ELSE None
    BY <1>2, <2>1, MoreMarks
  <2>3. /\ P \in Nat /\ P >= 1 /\ L \in Nat /\ Len(queue) \in Nat /\ n \in Nat
    BY PacketAssumption, LenProperties
  <2>4. \A k \in 1 .. Len(queue) :
          mark[L + k] = IF queue[k].command = "INFO" THEN queue[k].about ELSE None
    <3>1. ASSUME NEW k \in 1 .. Len(queue)
          PROVE  mark[L + k] = IF queue[k].command = "INFO" THEN queue[k].about ELSE None
      <4>1. L + k \in 1 .. L + Len(queue) /\ ~(L + k <= L) /\ (L + k) - L = k
        BY <2>3
      <4>. QED BY <4>1 DEF Marks
    <3>. QED BY <3>1
  <2>5. Matches(mark, n, targets, TRUE)
    <3>1. (link[t] = "up") = TRUE /\ link[t] \in Live
      BY <1>1 DEF Live
    <3>2. ws = "open" /\ ~refused
      BY <1>1, <1>4
    <3>. QED BY <1>3, <3>1, <3>2 DEF AnswersInv
  <2>6. \A k \in L + 1 .. L + P : new[k] = None
    <3>1. \A k \in L + 1 .. L + P : k = L + 1 \/ k \in L + 2 .. L + P
      BY <2>3
    <3>. QED BY <1>2, <2>2, <3>1
  <2>7. ASSUME NEW k \in L + 1 .. n PROVE new[k + P] = mark[k]
    <3>1. PICK j \in 1 .. Len(queue) : k = L + j /\ k + P = L + P + j
      <4>1. k - L \in 1 .. Len(queue) /\ k = L + (k - L) /\ k + P = L + P + (k - L)
        BY <2>3
      <4>. QED BY <4>1
    <3>. QED BY <2>2, <2>4, <3>1
  <2>8. L \in 0 .. n /\ Len(more) + Len(queue) = n + P
    BY <2>1, <2>3
  <2>. HIDE DEF new, mark, n, L
  <2>9. Matches(new, n + P, targets, TRUE)
    BY <2>2, <2>3, <2>5, <2>6, <2>7, <2>8, InsertKeepsMatch
  <2>10. (link'[t] = "up") = TRUE /\ pendingInfoTargets' = targets /\ out'[t] = queue
    BY <1>1, <1>3
  <2>. QED BY <2>8, <2>9, <2>10 DEF Matched, new, more
<1>5. \A l \in Links : link'[l] \in Live => l = t
  BY <1>1, OneLive DEF Live
<1>. QED BY <1>4, <1>5 DEF AnswersInv, Matched

\* What the host's end cuts off takes marks along, and leaves the others.
LEMMA DropMatches ==
  ASSUME SessionTypes, ByteTypes, ByteTypes', LinkInv, AnswersInv, NEW t \in Links,
         HostDrops(t)
  PROVE  AnswersInv'
<1>1. /\ link[t] = "up" /\ link' = [link EXCEPT ![t] = "dropped"]
      /\ out' = [out EXCEPT ![t] = <<>>]
      /\ UNCHANGED <<ws, pendingInfoTargets, refused>>
  BY DEF HostDrops, Moves
<1>2. PICK st \in Seq(Byte(Packet)), queue \in Seq(Outgoing), targets \in Seq(Names) :
        st = Stream(t) /\ queue = out[t] /\ targets = pendingInfoTargets
  BY StreamType DEF SessionTypes
<1>3. PICK cut \in Seq(Byte(Packet)) :
        /\ cut = Stream(t)' /\ Len(cut) <= Len(st)
        /\ \A k \in 1 .. Len(cut) : cut[k] = st[k]
  BY <1>2, CutStream
<1>4. ASSUME ws' = "open", ~refused' PROVE Matched(t)'
  <2>. DEFINE n == Len(st) + Len(queue)
  <2>1. Matches(Marks(st, queue), n, targets, link[t] = "up")
    BY <1>1, <1>2, <1>4 DEF AnswersInv, Live
  <2>2. n \in Nat /\ Len(cut) \in 0 .. n /\ Len(<<>>) = 0 /\ Len(cut) + 0 = Len(cut)
    BY <1>3, LenProperties
  <2>3. \A k \in 1 .. Len(cut) : Marks(cut, <<>>)[k] = Marks(st, queue)[k]
    BY <1>3, <2>2, CutMarks
  <2>. HIDE DEF n
  <2>4. Matches(Marks(cut, <<>>), Len(cut), targets, FALSE)
    BY <2>1, <2>2, <2>3, CutKeepsMatch
  <2>5. (link'[t] = "up") = FALSE /\ out'[t] = <<>> /\ pendingInfoTargets' = targets
    BY <1>1, <1>2 DEF SessionTypes
  <2>. QED BY <1>3, <2>2, <2>4, <2>5 DEF Matched
<1>5. \A l \in Links : link'[l] \in Live => l = t
  BY <1>1, OneLive DEF Live, SessionTypes
<1>. QED BY <1>4, <1>5 DEF AnswersInv, Matched

\* Every step keeps the queue of targets that of the questions, and gives every
\* answer the right one.
LEMMA AnswersStep ==
  ASSUME SessionTypes, ByteTypes, StreamInv, LinkInv, ConnInv, AnswersInv,
         LabelledUnlessRefused, ByteTypes', LinkInv', [GatewayNext]_gw_vars
  PROVE  AnswersInv' /\ LabelledUnlessRefused'
<1>1. ASSUME NEW u \in Names, Register(u) PROVE AnswersInv'
  <2>0. UNCHANGED <<ws, tcpBuffer, pendingInfoTargets>>
    BY <1>1 DEF Register
  <2>1. CASE startTcpSession(u)
    <3>1. UNCHANGED <<out, inbox, refused>>
      BY <2>1 DEF startTcpSession, host_vars
    <3>2. PICK t \in Links : link[t] = "none" /\ Moves(t, "connecting")
      BY <2>1, StartedUnused
    <3>3. \A l \in Links : link'[l] \in Live => link'[l] = link[l]
      BY <3>2 DEF Moves, SessionTypes, Live
    <3>. QED BY <2>0, <3>1, <3>3, AnswersKeep
  <2>2. CASE Forward("REGISTER", None) /\ link' = link
    <3>1. [command |-> "REGISTER", about |-> None] \in Outgoing
      BY DEF Outgoing
    <3>. QED BY <2>0, <2>2, <3>1, OtherAsked DEF Forward
  <2>. QED BY <1>1, <2>1, <2>2 DEF Register
<1>2. ASSUME OtherRequest PROVE AnswersInv'
  <2>1. [command |-> "OTHER", about |-> None] \in Outgoing
    BY DEF Outgoing
  <2>. QED BY <1>2, <2>1, OtherAsked DEF OtherRequest, Forward
<1>3. ASSUME Logout \/ WsCloseEvent \/ WsErrorEvent PROVE AnswersInv'
  <2>1. closeTcp
    BY <1>3 DEF Logout, WsCloseEvent, WsErrorEvent
  <2>. QED BY <2>1, NothingLive DEF AnswersInv
<1>4. ASSUME BrowserCloses \/ \E t \in Links : TcpCloseEvent(t) PROVE AnswersInv'
  <2>1. ws' # "open"
    BY <1>4 DEF BrowserCloses, TcpCloseEvent
  <2>. QED BY <2>1 DEF AnswersInv
<1>5. ASSUME NEW t \in Links, ConnectFails(t) PROVE AnswersInv'
  <2>1. /\ link' = [link EXCEPT ![t] = "gone"]
        /\ UNCHANGED <<ws, tcpBuffer, pendingInfoTargets, out, inbox, refused>>
    BY <1>5 DEF ConnectFails, Moves, host_vars
  <2>2. \A l \in Links : link'[l] \in Live => link'[l] = link[l]
    BY <2>1 DEF SessionTypes, Live
  <2>. QED BY <2>1, <2>2, AnswersKeep
<1>6. ASSUME NEW t \in Links, DataEvent(t) PROVE AnswersInv'
  <2>1. /\ link[t] \in Live /\ UNCHANGED <<ws, pendingInfoTargets, link, out, refused>>
        /\ Stream(t)' = Stream(t)
    BY <1>6, SameStream DEF DataEvent, Live
  <2>2. ASSUME ws' = "open", ~refused' PROVE Matched(t)'
    <3>1. Matched(t)
      BY <2>1, <2>2 DEF AnswersInv, Matched
    <3>. QED BY <2>1, <3>1 DEF Matched
  <2>3. \A l \in Links : link'[l] \in Live => l = t
    BY <2>1, OneLive
  <2>. QED BY <2>2, <2>3 DEF AnswersInv, Matched
<1>7. CASE UNCHANGED gw_vars
  <2>1. AnswersInv'
    BY <1>7, AnswersKeep DEF gw_vars, host_vars
  <2>. QED BY <1>7, <2>1 DEF gw_vars, host_vars, LabelledUnlessRefused
<1>8. ASSUME FromBrowser PROVE AnswersInv' /\ LabelledUnlessRefused'
  <2>1. UNCHANGED shown /\ refused' = refused
    BY <1>8 DEF FromBrowser, Register, startTcpSession, Info, OtherRequest, Logout,
       BrowserCloses, WsCloseEvent, WsErrorEvent, Forward, sendPacket, closeTcp, host_vars
  <2>2. AnswersInv'
    BY <1>1, <1>2, <1>3, <1>4, <1>8, InfoAsked DEF FromBrowser
  <2>. QED BY <2>1, <2>2 DEF LabelledUnlessRefused
<1>9. ASSUME FromHost PROVE AnswersInv' /\ LabelledUnlessRefused'
  <2>1. UNCHANGED shown
    BY <1>9 DEF FromHost, Connected, ConnectFails, DataEvent, TcpCloseEvent,
       HostAnswers, HostSends, HostDrops
  <2>0. refused' = refused \/ \E t \in Links : HostAnswers(t)
    BY <1>9 DEF FromHost, Connected, ConnectFails, DataEvent, TcpCloseEvent,
       HostSends, HostDrops, host_vars
  <2>3. ASSUME NEW t \in Links, HostAnswers(t), refused PROVE refused'
    BY <2>3, Zenon DEF HostAnswers
  <2>2. AnswersInv'
    BY <1>4, <1>5, <1>6, <1>9, ConnectedMatches, AnswerMatches, SendMatches,
       DropMatches DEF FromHost
  <2>. QED BY <2>0, <2>1, <2>2, <2>3 DEF LabelledUnlessRefused
<1>. QED BY <1>7, <1>8, <1>9, TakeMatches DEF GatewayNext

-----------------------------------------------------------------------------
(* Theorems.                                                               *)

GatewayInv ==
  /\ GatewayTypeOK /\ FramesWhole /\ LabelledUnlessRefused
  /\ LinkInv /\ StreamInv /\ ConnInv /\ AnswersInv

\* The invariant holds when the WebSocket opens.
LEMMA GatewayInitInv ==
  ASSUME GatewayInit
  PROVE  GatewayInv
<1>1. /\ <<>> \in Seq(Byte(Packet)) /\ <<>> \in Seq(Names) /\ <<>> \in Seq(Outgoing)
      /\ <<>> \o <<>> = <<>> /\ Frames(<<>> \o <<>>)
  BY EmptyStream
<1>2. SessionTypes /\ ByteTypes
  BY <1>1 DEF GatewayInit, SessionTypes, ByteTypes
<1>3. LinkInv /\ StreamInv /\ FramesWhole
  BY <1>1 DEF GatewayInit, LinkInv, StreamInv, FramesWhole, Live
<1>4. ConnInv /\ AnswersInv /\ LabelledUnlessRefused
  <2>1. ~HoldsPacket
    BY EmptySeq, PacketAssumption DEF GatewayInit, HoldsPacket
  <2>. QED
    BY <2>1 DEF GatewayInit, ConnInv, AnswersInv, LabelledUnlessRefused, Live
<1>. QED BY <1>2, <1>3, <1>4, TypeParts DEF GatewayInv

\* Every step keeps it.
LEMMA GatewayStep ==
  ASSUME GatewayInv, [GatewayNext]_gw_vars
  PROVE  GatewayInv'
<1>1. SessionTypes /\ ByteTypes
  BY TypeParts DEF GatewayInv
<1>2. SessionTypes' /\ LinkInv' /\ ByteTypes' /\ StreamInv' /\ FramesWhole'
  BY <1>1, SessionTypeStep, LinkStep, StreamStep, ShownStep DEF GatewayInv
<1>3. ConnInv' /\ AnswersInv' /\ LabelledUnlessRefused'
  BY <1>1, <1>2, ConnStep, AnswersStep DEF GatewayInv
<1>. QED BY <1>2, <1>3 DEF GatewayInv, GatewayTypeOK, SessionTypes, ByteTypes

\* The invariant holds always.
THEOREM GatewayInvariant == GatewaySpec => []GatewayInv
BY GatewayInitInv, GatewayStep, PTL DEF GatewaySpec

\* The session is well formed, and keeps nothing of a connection it has closed.
THEOREM GatewayTypeCorrect == GatewaySpec => []GatewayTypeOK
<1>1. GatewayInv => GatewayTypeOK
  BY DEF GatewayInv
<1>. QED BY <1>1, GatewayInvariant, PTL

\* However TCP cuts the stream, what the browser is shown was made of whole
\* packets (server.js:192-201).
THEOREM FramesStayWhole == GatewaySpec => []FramesWhole
<1>1. GatewayInv => FramesWhole
  BY DEF GatewayInv
<1>. QED BY <1>1, GatewayInvariant, PTL

\* As long as no INFO has been refused, every user_info carries the user it was
\* asked about (server.js:141, 314), however requests, answers, unasked packets
\* and lost connections interleave.
THEOREM AnswersLabelled == GatewaySpec => []LabelledUnlessRefused
<1>1. GatewayInv => LabelledUnlessRefused
  BY DEF GatewayInv
<1>. QED BY <1>1, GatewayInvariant, PTL

\* What moves a connection behind a closed WebSocket: none is begun there.
LEMMA NothingBegun ==
  ASSUME GatewayTypeOK, GatewayNext, ws = "closed", NEW t \in Links,
         link'[t] \in {"connecting", "up", "dropped"}
  PROVE  link[t] \in {"connecting", "up", "dropped"}
<1>1. link \in [Links -> {"none", "connecting", "up", "dropped", "destroyed", "gone"}]
  BY DEF GatewayTypeOK
<1>2. CASE UNCHANGED link
  BY <1>2
<1>3. ASSUME NEW l \in Links, NEW state, Moves(l, state),
             link[l] \in {"connecting", "up", "dropped"} \/ state \in {"destroyed", "gone"}
      PROVE  link[t] \in {"connecting", "up", "dropped"}
  BY <1>1, <1>3 DEF Moves
<1>4. ASSUME FromHost PROVE link[t] \in {"connecting", "up", "dropped"}
  <2>1. PICK l \in Links : \/ Connected(l) \/ ConnectFails(l)
                           \/ DataEvent(l) \/ TcpCloseEvent(l)
                           \/ HostAnswers(l) \/ HostSends(l) \/ HostDrops(l)
    BY <1>4 DEF FromHost
  <2>2. CASE Connected(l) \/ ConnectFails(l) \/ TcpCloseEvent(l) \/ HostDrops(l)
    BY <1>3, <2>2 DEF Connected, ConnectFails, TcpCloseEvent, HostDrops
  <2>3. CASE DataEvent(l) \/ HostAnswers(l) \/ HostSends(l)
    BY <1>2, <2>3 DEF DataEvent, HostAnswers, HostSends
  <2>. QED BY <2>1, <2>2, <2>3
<1>5. ~ FromBrowser
  BY DEF FromBrowser, Register, Info, OtherRequest, Logout, BrowserCloses, WsCloseEvent,
         WsErrorEvent, Hears
<1>6. TakePacket => UNCHANGED link
  BY DEF TakePacket
<1>. QED BY <1>2, <1>4, <1>5, <1>6 DEF GatewayNext

\* For any number of registers, failures and losses: no connection exists behind
\* a closed WebSocket but one that was still being made when it closed
\* (server.js:219-232, 259, 365-368).
THEOREM OnlyAwaitedRemain == GatewaySpec => OnlyAwaitedOutlives
<1>1. ASSUME GatewayInv, [GatewayNext]_gw_vars, ws' = "closed", NEW t \in Links,
             link'[t] \in {"connecting", "up", "dropped"}
      PROVE  \/ link[t] = "connecting"
             \/ ws = "closed" /\ link[t] \in {"up", "dropped"}
  <2>1. CASE ws = "closed"
    BY <1>1, <2>1, NothingBegun DEF GatewayInv, gw_vars
  <2>2. CASE ws # "closed"
    <3>1. WsCloseEvent
      BY <1>1, <2>2 DEF GatewayNext, FromBrowser, FromHost, gw_vars, Register, Info,
         OtherRequest, Logout, BrowserCloses, WsCloseEvent, WsErrorEvent, Connected,
         ConnectFails, DataEvent, TcpCloseEvent, HostAnswers, HostSends, HostDrops,
         TakePacket
    <3>2. tcp' = None /\ LinkInv'
      BY <1>1, <3>1, GatewayStep DEF WsCloseEvent, closeTcp, GatewayInv
    <3>3. link'[t] = "connecting"
      BY <1>1, <3>2, GatewayAssumption DEF LinkInv, Live
    <3>4. link[t] = link'[t] \/ link'[t] = "destroyed"
      BY <1>1, <3>1 DEF WsCloseEvent, closeTcp, Moves, GatewayInv, GatewayTypeOK
    <3>. QED BY <3>3, <3>4
  <2>. QED BY <2>1, <2>2
<1>. DEFINE A ==
       \A t \in Links :
         ws' = "closed" /\ link'[t] \in {"connecting", "up", "dropped"} =>
           \/ link[t] = "connecting"
           \/ ws = "closed" /\ link[t] \in {"up", "dropped"}
<1>2. ASSUME GatewayInv, [GatewayNext]_gw_vars PROVE [A]_gw_vars
  BY <1>1, <1>2
<1>. QED BY <1>2, GatewayInvariant, PTL DEF GatewaySpec, OnlyAwaitedOutlives
==============================================================================
