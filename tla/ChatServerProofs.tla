---------------------------- MODULE ChatServerProofs ----------------------------
(***************************************************************************)
(* Proofs about ChatServer, for any number of connections, descriptors,    *)
(* slots, names and addresses, any set of requests and any bounds.         *)
(***************************************************************************)
EXTENDS ChatServer, DirectoryProofs

\* Where a session may be while its connection has a descriptor.
Running == SessionPC \ {"new", "done"}

\* The locals of a session at each point of its code.
LocalsOK ==
  \A c \in Conns :
    /\ pc[c] \in Running => sockfd[c] \in Socks /\ ip[c] \in IPs
    /\ pc[c] \in {"new", "done"} => sockfd[c] = None
    /\ pc[c] = "new" => username[c] = None
    /\ pc[c] \in {"dispatch", "logout", "remove"} => username[c] \in Names
    /\ pc[c] = "dispatch" => req[c] \in Request

ChatInv == ChatTypeOK /\ CMInv /\ LocalsOK /\ SlotsMatchSessions

-----------------------------------------------------------------------------
(* The packets still to be sent.                                           *)

TodoOK(w) ==
  /\ DOMAIN w = {"to", "out", "reply"}
  /\ w.to \in [Slots -> Socks \cup {None}]

\* Whatever array of sockets it is given, Work makes a well-formed record.
LEMMA WorkType ==
  ASSUME NEW to \in [Slots -> Socks \cup {None}], NEW out, NEW reply
  PROVE  TodoOK(Work(to, out, reply)) 
BY DEF TodoOK, Work

\* An answer goes to nobody else.
LEMMA AnswerType ==
  ASSUME NEW reply
  PROVE  TodoOK(Answer(reply)) /\ TodoOK(Nothing)
BY DEF TodoOK, Answer, Nothing, Work, NoSocks

\* The sockets copied out of the table are descriptors.
LEMMA SocketsType ==
  ASSUME CMTypeOK, NEW s, NEW n
  PROVE  /\ cm_get_sockets_except(s) \in [Slots -> Socks \cup {None}]
         /\ cm_get_socket_by_username(n) \in [Slots -> Socks \cup {None}]
<1>1. \A i \in ActiveSlots : g_clients[i].sockfd \in Socks
  BY ActiveIsClient DEF ActiveSlots, Client
<1>. QED
  BY <1>1 DEF cm_get_sockets_except, cm_get_socket_by_username, First, NamedSlots

\* The four shapes of a change to todo.
LEMMA TodoStep ==
  ASSUME \A c \in Conns : TodoOK(todo[c]), DOMAIN todo = Conns, NEW c \in Conns,
         \/ UNCHANGED todo
         \/ \E w : TodoOK(w) /\ todo' = [todo EXCEPT ![c] = w]
         \/ \E i \in Slots : todo' = [todo EXCEPT ![c].to[i] = None]
         \/ \E to \in [Slots -> Socks \cup {None}] : todo' = [todo EXCEPT ![c].to = to]
         \/ \E p : todo' = [todo EXCEPT ![c].out = p]
  PROVE  DOMAIN todo' = Conns /\ \A d \in Conns : TodoOK(todo'[d])
<1>1. CASE UNCHANGED todo
  BY <1>1
<1>2. CASE \E w : TodoOK(w) /\ todo' = [todo EXCEPT ![c] = w]
  BY <1>2
<1>3. CASE \E i \in Slots : todo' = [todo EXCEPT ![c].to[i] = None]
  BY <1>3 DEF TodoOK
<1>4. CASE \E to \in [Slots -> Socks \cup {None}] : todo' = [todo EXCEPT ![c].to = to]
  BY <1>4 DEF TodoOK
<1>5. CASE \E p : todo' = [todo EXCEPT ![c].out = p]
  BY <1>5 DEF TodoOK
<1>. QED BY <1>1, <1>2, <1>3, <1>4, <1>5

-----------------------------------------------------------------------------
(* The table: every step of the server is a step of the table, or leaves   *)
(* it alone.                                                               *)

\* A name in a request is a name.
LEMMA RequestArg ==
  ASSUME NEW r \in Request
  PROVE  /\ r.command = "REGISTER" /\ r.arg # None => r.arg \in Names
         /\ r.command = "STATUS" => r = [command |-> "STATUS", arg |-> r.arg]
         /\ r.command = "STATUS" /\ r.arg # None => r.arg \in Status
BY DEF Request

\* A session that is not registered has no slot: its descriptor is its own,
\* and slots hold descriptors of registered sessions only.
LEMMA UnregisteredHasNoSlot ==
  ASSUME SlotsMatchSessions, LocalsOK, NEW c \in Conns,
         pc[c] = "recv", ~ Registered(c)
  PROVE  SockSlots(sockfd[c]) = {}
<1>1. SUFFICES ASSUME NEW i \in ActiveSlots, g_clients[i].sockfd = sockfd[c]
               PROVE FALSE
  BY DEF SockSlots
<1>2. PICK d \in Conns : Member(d) /\ Listed(d, i)
  BY DEF SlotsMatchSessions
<1>3. sockfd[d] = sockfd[c] /\ sockfd[c] # None
  BY <1>1, <1>2, SocksAssumption DEF Listed, LocalsOK, Running, SessionPC
<1>. QED BY <1>2, <1>3 DEF SlotsMatchSessions, Member

\* A session adds itself within the contract of the table.
LEMMA RegisterAdds ==
  ASSUME ChatInv, NEW c \in Conns, NEW r \in Requests, Register(c, r)
  PROVE  /\ r.arg \in Names /\ ip[c] \in IPs /\ sockfd[c] \in Socks
         /\ CMAdd(r.arg, ip[c], sockfd[c])
<1>1. r \in Request /\ r.command = "REGISTER" /\ r.arg # None
  BY ServerAssumption DEF Register
<1>2. r.arg \in Names
  BY <1>1, RequestArg
<1>3. pc[c] = "recv" /\ ~ Registered(c)
  BY DEF Register, Receive
<1>4. ip[c] \in IPs /\ sockfd[c] \in Socks
  BY <1>3 DEF ChatInv, LocalsOK, Running, SessionPC
<1>5. SockSlots(sockfd[c]) = {}
  BY <1>3, UnregisteredHasNoSlot DEF ChatInv
<1>. QED BY <1>2, <1>4, <1>5 DEF Register, CMAdd

\* A STATUS whose text is no status, or whose user is gone, changes nothing.
LEMMA SetStatusSets ==
  ASSUME ChatInv, NEW c \in Conns, SetStatus(c)
  PROVE  /\ username[c] \in Names
         /\ \/ /\ req[c] = [command |-> "STATUS", arg |-> req[c].arg]
               /\ req[c].arg \in Status
               /\ cm_set_status(username[c], req[c].arg)
            \/ UNCHANGED cm_vars
<1>1. pc[c] = "dispatch" /\ req[c].command = "STATUS"
  BY DEF SetStatus, Dispatch
<1>2. username[c] \in Names /\ req[c] \in Request
  BY <1>1 DEF ChatInv, LocalsOK
<1>3. cm_set_status(username[c], req[c].arg)
  BY DEF SetStatus
<1>4. CASE req[c].arg \in Status
  BY <1>1, <1>2, <1>3, <1>4, RequestArg
<1>5. CASE req[c].arg \notin Status
  <2>1. g_clients' = g_clients
    BY <1>3, <1>5 DEF cm_set_status, ChatInv, CMInv, CMTypeOK
  <2>. QED BY <1>2, <1>3, <2>1 DEF cm_set_status, cm_vars
<1>. QED BY <1>4, <1>5

\* The steps that read the table at most.
LEMMA OthersLeaveTable ==
  ASSUME NEW c \in Conns,
         \/ \E addr \in IPs : Accept(c, addr)
         \/ AcceptFails(c)
         \/ \E r \in Requests : RejectUnregistered(c, r) \/ RegisterFails(c, r)
         \/ Broadcast(c) \/ Direct(c) \/ List(c) \/ Info(c) \/ Logout(c)
         \/ Unsupported(c)
         \/ RecvFails(c) \/ broadcast_disconnected(c) \/ Close(c)
         \/ ClientClose(c)
         \/ Reply(c) \/ \E i \in Slots : FanOut(c, i)
  PROVE  UNCHANGED cm_vars
BY DEF Accept, AcceptFails, RejectUnregistered, RegisterFails, Broadcast,
       Direct, List, Info, Logout, Unsupported, RecvFails,
       broadcast_disconnected, Close, ClientClose, Reply, FanOut

\* KeepsTableContract, one step at a time.
LEMMA TableStep ==
  ASSUME ChatInv, [Next]_vars
  PROVE  [CMNext]_cm_vars
<1>1. ASSUME NEW c \in Conns, NEW r \in Requests, Register(c, r) PROVE CMNext
  BY <1>1, RegisterAdds DEF CMNext
<1>2. ASSUME NEW c \in Conns, NEW r \in Requests, ReceiveCommand(c, r) PROVE CMNext
  <2>1. username[c] \in Names /\ cm_update_activity(username[c])
    BY <1>2 DEF ReceiveCommand, Registered, ChatInv, ChatTypeOK
  <2>. QED BY <2>1 DEF CMNext
<1>3. ASSUME NEW c \in Conns, SetStatus(c) PROVE CMNext \/ UNCHANGED cm_vars
  BY <1>3, SetStatusSets DEF CMNext
<1>4. ASSUME NEW c \in Conns, Remove(c) PROVE CMNext
  <2>1. sockfd[c] \in Socks /\ cm_remove_by_sockfd(sockfd[c])
    BY <1>4 DEF Remove, ChatInv, LocalsOK, Running, SessionPC
  <2>. QED BY <2>1 DEF CMNext
<1>5. CASE WdMark
  BY <1>5 DEF WdMark, CMNext, ChatInv, ChatTypeOK
<1>6. CASE ClockTicks
  BY <1>6 DEF ClockTicks, CMNext
<1>7. CASE WdReadClock \/ WdSleep \/ \E i \in Slots : WdSend(i)
  BY <1>7 DEF WdReadClock, WdSleep, WdSend
<1>8. CASE UNCHANGED vars
  BY <1>8 DEF vars
<1>. QED
  BY <1>1, <1>2, <1>3, <1>4, <1>5, <1>6, <1>7, <1>8, OthersLeaveTable
     DEF Next, Quiet, Sends, SessionQuiet, Incoming

-----------------------------------------------------------------------------
(* Type correctness.                                                       *)

\* A send changes how the peer stands, or ends the process.
LEMMA SendType ==
  ASSUME ChatTypeOK, NEW s, send_packet(s)
  PROVE  /\ server_up' \in BOOLEAN
         /\ peer' \in [Conns -> {"open", "closed", "reset", "broken"}]
BY DEF send_packet, Owners, ChatTypeOK

\* ChatTypeOK, with the conjunct on todo in the words of TodoStep.
LEMMA ChatTypeTodo ==
  ChatTypeOK => DOMAIN todo = Conns /\ \A c \in Conns : TodoOK(todo[c])
BY DEF ChatTypeOK, TodoOK

\* A session that receives a request.
LEMMA ReceiveType ==
  ASSUME ChatInv, CMTypeOK', NEW c \in Conns, NEW r \in Requests,
         \/ RejectUnregistered(c, r) \/ RegisterFails(c, r)
         \/ Register(c, r) \/ ReceiveCommand(c, r)
  PROVE  ChatTypeOK'
<1>1. ChatTypeOK /\ r \in Request
  BY ServerAssumption DEF ChatInv
<1>2. clock' = clock
  BY DEF RejectUnregistered, RegisterFails, Register, ReceiveCommand, cm_vars,
         cm_add_client, cm_update_activity
<1>3. /\ nreq' \in [Conns -> 0 .. MAX_REQS]
      /\ UNCHANGED <<server_up, sockfd, ip, peer, wd_vars>>
  <2>1. Receive(c, r)
    BY DEF RejectUnregistered, RegisterFails, Register, ReceiveCommand
  <2>. QED BY <1>1, <2>1, ServerAssumption DEF Receive, ChatTypeOK
<1>4. username' \in [Conns -> Names \cup {None}]
  <2>1. CASE Register(c, r)
    <3>1. Stored[r.arg] \in Names
      BY <2>1, RegisterAdds, NamesAssumption
    <3>. QED BY <1>1, <2>1, <3>1 DEF Register, ChatTypeOK
  <2>2. CASE ~ Register(c, r)
    BY <1>1, <2>2 DEF RejectUnregistered, RegisterFails, ReceiveCommand, ChatTypeOK
  <2>. QED BY <2>1, <2>2
<1>5. req' \in [Conns -> Request \cup {None}] /\ pc' \in [Conns -> SessionPC]
  <2>1. /\ UNCHANGED req \/ req' = [req EXCEPT ![c] = r]
        /\ \E l \in {"send", "dispatch"} : pc' = [pc EXCEPT ![c] = l]
    BY DEF RejectUnregistered, RegisterFails, Register, ReceiveCommand, Goto
  <2>2. req' \in [Conns -> Request \cup {None}]
    BY <1>1, <2>1 DEF ChatTypeOK
  <2>. QED BY <1>1, <2>1, <2>2 DEF ChatTypeOK, SessionPC
<1>6. DOMAIN todo' = Conns /\ \A d \in Conns : TodoOK(todo'[d])
  <2>1. UNCHANGED todo \/ \E p : todo' = [todo EXCEPT ![c] = Answer(p)]
    BY DEF RejectUnregistered, RegisterFails, Register, ReceiveCommand
  <2>. QED BY <1>1, <2>1, ChatTypeTodo, AnswerType, TodoStep
<1>. QED BY <1>1, <1>2, <1>3, <1>4, <1>5, <1>6 DEF ChatTypeOK, TodoOK, wd_vars

\* A session that handles a command.
LEMMA DispatchType ==
  ASSUME ChatInv, CMTypeOK', clock' = clock, NEW c \in Conns, NEW commands,
         NEW l \in {"send", "logout"}, NEW work, TodoOK(work),
         Dispatch(c, commands, l, work)
  PROVE  ChatTypeOK'
<1>1. ChatTypeOK
  BY DEF ChatInv
<1>2. UNCHANGED <<server_up, sockfd, ip, username, nreq, peer, wd_vars>>
  BY DEF Dispatch, session_vars
<1>3. req' \in [Conns -> Request \cup {None}] /\ pc' \in [Conns -> SessionPC]
  BY <1>1 DEF Dispatch, Goto, SessionPC, ChatTypeOK
<1>4. DOMAIN todo' = Conns /\ \A d \in Conns : TodoOK(todo'[d])
  BY <1>1, ChatTypeTodo, TodoStep DEF Dispatch
<1>. QED BY <1>1, <1>2, <1>3, <1>4 DEF ChatTypeOK, TodoOK, wd_vars

\* Every command ends in a well-formed Work.
LEMMA CommandType ==
  ASSUME ChatInv, CMTypeOK', NEW c \in Conns,
         \/ Broadcast(c) \/ Direct(c) \/ List(c) \/ Info(c) \/ SetStatus(c)
         \/ Logout(c) \/ Unsupported(c)
  PROVE  ChatTypeOK'
<1>1. CMTypeOK
  BY DEF ChatInv, CMInv
<1>2. clock' = clock
  BY DEF Broadcast, Direct, List, Info, SetStatus, Logout, Unsupported,
         cm_vars, cm_set_status
<1>3. CASE Broadcast(c)
  BY <1>1, <1>2, <1>3, SocketsType, WorkType, DispatchType DEF Broadcast
<1>4. CASE Direct(c)
  <2>. DEFINE n == req[c].arg
              work == IF NamedSlots(n) = {}
                        THEN Answer(send_error(username[c], <<"Destinatario no conectado">>))
                        ELSE Work(cm_get_socket_by_username(n),
                                  make_packet("MSG", username[c], n, Text(c)),
                                  send_ok(username[c], <<"Mensaje directo enviado">>))
  <2>1. TodoOK(work)
    BY <1>1, SocketsType, WorkType, AnswerType
  <2>2. Dispatch(c, {"DIRECT"}, "send", work)
    BY <1>4 DEF Direct
  <2>. HIDE DEF work
  <2>. QED BY <1>2, <2>1, <2>2, DispatchType
<1>5. CASE List(c) \/ Info(c) \/ SetStatus(c) \/ Logout(c) \/ Unsupported(c)
  <2>1. \E commands, reply : \E l \in {"send", "logout"} :
          Dispatch(c, commands, l, Answer(reply))
    BY <1>5 DEF List, Info, SetStatus, Logout, Unsupported
  <2>. QED BY <1>2, <2>1, AnswerType, DispatchType
<1>. QED BY <1>3, <1>4, <1>5

\* A session that sends.
LEMMA SendingType ==
  ASSUME ChatInv, NEW c \in Conns,
         Reply(c) \/ \E i \in Slots : FanOut(c, i)
  PROVE  ChatTypeOK'
<1>1. ChatTypeOK
  BY DEF ChatInv
<1>2. UNCHANGED <<cm_vars, sockfd, ip, username, req, nreq, wd_vars>>
  BY DEF Reply, FanOut, session_vars
<1>3. /\ server_up' \in BOOLEAN
      /\ peer' \in [Conns -> {"open", "closed", "reset", "broken"}]
  BY <1>1, SendType DEF Reply, FanOut
<1>4. pc' \in [Conns -> SessionPC]
  BY <1>1 DEF Reply, FanOut, Goto, SessionPC, ChatTypeOK
<1>5. DOMAIN todo' = Conns /\ \A d \in Conns : TodoOK(todo'[d])
  BY <1>1, ChatTypeTodo, AnswerType, TodoStep DEF Reply, FanOut
<1>. QED BY <1>1, <1>2, <1>3, <1>4, <1>5 DEF ChatTypeOK, TodoOK, wd_vars, cm_vars, CMTypeOK, CountExact

\* A session that starts or leaves.
LEMMA LeavingType ==
  ASSUME ChatInv, CMTypeOK', NEW c \in Conns,
         \/ \E addr \in IPs : Accept(c, addr)
         \/ AcceptFails(c) \/ RecvFails(c) \/ Remove(c)
         \/ broadcast_disconnected(c) \/ Close(c) \/ ClientClose(c)
  PROVE  ChatTypeOK'
<1>1. ChatTypeOK /\ CMTypeOK
  BY DEF ChatInv, CMInv
<1>2. UNCHANGED <<server_up, username, req, nreq, wd_vars, clock>>
  BY DEF Accept, AcceptFails, RecvFails, Remove, broadcast_disconnected, Close,
         ClientClose, session_vars, cm_vars, cm_remove_by_sockfd, Erase
<1>3. /\ sockfd' \in [Conns -> Socks \cup {None}]
      /\ ip' \in [Conns -> IPs \cup {None}]
  BY <1>1 DEF Accept, AcceptFails, RecvFails, Remove, broadcast_disconnected,
              Close, ClientClose, session_vars, ChatTypeOK
<1>4. /\ pc' \in [Conns -> SessionPC]
      /\ peer' \in [Conns -> {"open", "closed", "reset", "broken"}]
  BY <1>1 DEF Accept, AcceptFails, RecvFails, Remove, broadcast_disconnected,
              Close, ClientClose, Goto, SessionPC, ChatTypeOK
<1>5. DOMAIN todo' = Conns /\ \A d \in Conns : TodoOK(todo'[d])
  <2>1. \/ UNCHANGED todo
        \/ todo' = [todo EXCEPT ![c] = Nothing]
        \/ \E to \in [Slots -> Socks \cup {None}] : todo' = [todo EXCEPT ![c].to = to]
        \/ \E p : todo' = [todo EXCEPT ![c].out = p]
    BY <1>1, SocketsType DEF Accept, AcceptFails, RecvFails, Remove,
              broadcast_disconnected, Close, ClientClose
  <2>. QED BY <1>1, <2>1, ChatTypeTodo, AnswerType, TodoStep
<1>. QED BY <1>1, <1>2, <1>3, <1>4, <1>5 DEF ChatTypeOK, TodoOK, wd_vars

\* The watchdog and the clock.
LEMMA WatchdogType ==
  ASSUME ChatInv, CMTypeOK',
         \/ WdReadClock \/ WdMark \/ WdSleep \/ ClockTicks
         \/ \E i \in Slots : WdSend(i)
  PROVE  ChatTypeOK'
<1>1. ChatTypeOK /\ CMTypeOK
  BY DEF ChatInv, CMInv
<1>2. UNCHANGED <<pc, sockfd, ip, username, req, todo, nreq>>
  BY DEF WdReadClock, WdMark, WdSleep, ClockTicks, WdSend, session_vars
<1>3. /\ server_up' \in BOOLEAN
      /\ peer' \in [Conns -> {"open", "closed", "reset", "broken"}]
  BY <1>1, SendType DEF WdReadClock, WdMark, WdSleep, ClockTicks, WdSend, ChatTypeOK
<1>4. wd_pc' \in {"awake", "mark", "send"} /\ wd_now' \in 0 .. clock'
  BY <1>1 DEF WdReadClock, WdMark, WdSleep, ClockTicks, Tick, WdSend, wd_vars,
              cm_vars, cm_mark_inactive_clients, ChatTypeOK, CMTypeOK
<1>5. wd_events' \in [Slots -> [sockfd : Socks, username : Names] \cup {None}]
  <2>1. \A i \in ActiveSlots :
          g_clients[i].sockfd \in Socks /\ g_clients[i].username \in Names
    BY <1>1, ActiveIsClient DEF ActiveSlots, Client
  <2>2. InactiveEvents(wd_now) \in [Slots -> [sockfd : Socks, username : Names] \cup {None}]
    BY <2>1 DEF InactiveEvents, IdleSlots
  <2>. QED
    BY <1>1, <2>2 DEF WdReadClock, WdMark, WdSleep, ClockTicks, WdSend, wd_vars, ChatTypeOK
<1>. QED BY <1>1, <1>2, <1>3, <1>4, <1>5 DEF ChatTypeOK

\* Every step keeps the types.
LEMMA TypeStep ==
  ASSUME ChatInv, [Next]_vars
  PROVE  ChatTypeOK'
<1>1. CMTypeOK'
  BY TableStep, NextType DEF ChatInv, CMInv
<1>2. CASE UNCHANGED vars
  BY <1>1, <1>2 DEF vars, cm_vars, session_vars, wd_vars, ChatInv, ChatTypeOK
<1>. QED
  BY <1>1, <1>2, ReceiveType, CommandType, SendingType, LeavingType, WatchdogType
     DEF Next, Quiet, Sends, SessionQuiet, Incoming

-----------------------------------------------------------------------------
(* The locals of the sessions.                                             *)

\* Session d is not touched.
Untouched(d) ==
  /\ pc'[d] = pc[d] /\ req'[d] = req[d]
  /\ sockfd'[d] = sockfd[d] /\ ip'[d] = ip[d] /\ username'[d] = username[d]

\* A step of one session is judged by that session's locals alone.
LEMMA OneSession ==
  ASSUME LocalsOK, NEW c \in Conns, \A d \in Conns \ {c} : Untouched(d),
         /\ pc'[c] \in Running => sockfd'[c] \in Socks /\ ip'[c] \in IPs
         /\ pc'[c] \in {"new", "done"} => sockfd'[c] = None
         /\ pc'[c] = "new" => username'[c] = None
         /\ pc'[c] \in {"dispatch", "logout", "remove"} => username'[c] \in Names
         /\ pc'[c] = "dispatch" => req'[c] \in Request
  PROVE  LocalsOK'
BY DEF LocalsOK, Untouched

\* No step touches the locals of two sessions.
LEMMA LocalsStep ==
  ASSUME ChatInv, [Next]_vars
  PROVE  LocalsOK'
<1>. ChatTypeOK /\ LocalsOK
  BY DEF ChatInv
<1>. USE DEF Running, SessionPC
<1>1. ASSUME NEW c \in Conns,
             \/ \E addr \in IPs : Accept(c, addr)
             \/ AcceptFails(c) \/ Close(c)
      PROVE  LocalsOK'
  <2>1. \A d \in Conns \ {c} : Untouched(d)
    BY <1>1 DEF Accept, AcceptFails, Close, Goto, session_vars, Untouched, ChatTypeOK
  <2>2. CASE \E addr \in IPs : Accept(c, addr)
    <3>1. pc'[c] = "recv" /\ sockfd'[c] \in Socks /\ ip'[c] \in IPs
      BY <2>2 DEF Accept, First, Goto, ChatTypeOK
    <3>. QED BY <2>1, <3>1, OneSession
  <2>3. CASE AcceptFails(c) \/ Close(c)
    <3>1. pc'[c] = "done" /\ sockfd'[c] = None
      BY <2>3 DEF AcceptFails, Close, Goto, session_vars, ChatTypeOK, LocalsOK
    <3>. QED BY <2>1, <3>1, OneSession
  <2>. QED BY <1>1, <2>2, <2>3
<1>2. ASSUME NEW c \in Conns, NEW r \in Requests,
             \/ RejectUnregistered(c, r) \/ RegisterFails(c, r) \/ Register(c, r)
      PROVE  LocalsOK'
  <2>1. \A d \in Conns \ {c} : Untouched(d)
    BY <1>2 DEF RejectUnregistered, RegisterFails, Register, Receive, Goto,
                Untouched, ChatTypeOK
  <2>2. pc[c] = "recv" /\ pc'[c] = "send" /\ UNCHANGED <<sockfd, ip>>
    BY <1>2 DEF RejectUnregistered, RegisterFails, Register, Receive, Goto, ChatTypeOK
  <2>. QED BY <2>1, <2>2, OneSession DEF LocalsOK
<1>3. ASSUME NEW c \in Conns, NEW r \in Requests, ReceiveCommand(c, r)
      PROVE  LocalsOK'
  <2>1. \A d \in Conns \ {c} : Untouched(d)
    BY <1>3 DEF ReceiveCommand, Receive, Goto, Untouched, ChatTypeOK
  <2>2. /\ pc[c] = "recv" /\ pc'[c] = "dispatch" /\ req'[c] = r
        /\ username[c] \in Names /\ UNCHANGED <<sockfd, ip, username>>
    BY <1>3 DEF ReceiveCommand, Receive, Registered, Goto, ChatTypeOK
  <2>3. r \in Request
    BY ServerAssumption
  <2>. QED BY <2>1, <2>2, <2>3, OneSession DEF LocalsOK
<1>4. ASSUME NEW c \in Conns,
             \/ Broadcast(c) \/ Direct(c) \/ List(c) \/ Info(c) \/ SetStatus(c)
             \/ Logout(c) \/ Unsupported(c)
      PROVE  LocalsOK'
  <2>1. \E commands, work : \E l \in {"send", "logout"} : Dispatch(c, commands, l, work)
    BY <1>4 DEF Broadcast, Direct, List, Info, SetStatus, Logout, Unsupported
  <2>2. \A d \in Conns \ {c} : Untouched(d)
    BY <2>1 DEF Dispatch, session_vars, Goto, Untouched, ChatTypeOK
  <2>3. /\ pc[c] = "dispatch" /\ pc'[c] \in {"send", "logout"}
        /\ UNCHANGED <<sockfd, ip, username>>
    BY <2>1 DEF Dispatch, session_vars, Goto, ChatTypeOK
  <2>. QED BY <2>2, <2>3, OneSession DEF LocalsOK
<1>5. ASSUME NEW c \in Conns,
             \/ RecvFails(c) \/ Remove(c) \/ broadcast_disconnected(c)
             \/ ClientClose(c) \/ Reply(c) \/ \E i \in Slots : FanOut(c, i)
      PROVE  LocalsOK'
  <2>1. \A d \in Conns \ {c} : Untouched(d)
    BY <1>5 DEF RecvFails, Remove, broadcast_disconnected, ClientClose, Reply,
                FanOut, session_vars, Goto, Untouched, ChatTypeOK
  <2>2. UNCHANGED <<sockfd, ip, username, req>>
    BY <1>5 DEF RecvFails, Remove, broadcast_disconnected, ClientClose, Reply,
                FanOut, session_vars
  <2>3. \/ pc'[c] = pc[c]
        \/ pc[c] \in Running /\ pc'[c] \in {"close", "announce", "recv"}
        \/ pc[c] = "recv" /\ Registered(c) /\ pc'[c] = "remove"
        \/ pc[c] = "logout" /\ pc'[c] = "remove"
    BY <1>5 DEF RecvFails, Remove, broadcast_disconnected, ClientClose, Reply,
                FanOut, Goto, ChatTypeOK
  <2>4. username[c] \in Names \cup {None}
    BY DEF ChatTypeOK
  <2>. QED BY <2>1, <2>2, <2>3, <2>4, OneSession DEF LocalsOK, Registered
<1>6. CASE \/ WdReadClock \/ WdMark \/ WdSleep \/ ClockTicks
           \/ \E i \in Slots : WdSend(i)
           \/ UNCHANGED vars
  BY <1>6 DEF WdReadClock, WdMark, WdSleep, ClockTicks, WdSend, vars,
              session_vars, LocalsOK
<1>. QED
  BY <1>1, <1>2, <1>3, <1>4, <1>5, <1>6
     DEF Next, Quiet, Sends, SessionQuiet, Incoming

-----------------------------------------------------------------------------
(* Slots and sessions.                                                     *)

\* No slot changes hands.
KeepsWho ==
  \A i \in Slots :
    /\ g_clients'[i].active = g_clients[i].active
    /\ g_clients'[i].username = g_clients[i].username
    /\ g_clients'[i].ip = g_clients[i].ip
    /\ g_clients'[i].sockfd = g_clients[i].sockfd

\* Statuses, stamps and marks keep every slot with its owner.
LEMMA TableKeepsWho ==
  ASSUME CMTypeOK,
         \/ \E n \in Names, st \in Status : cm_set_status(n, st)
         \/ \E n \in Names : cm_update_activity(n)
         \/ \E now : cm_mark_inactive_clients(now)
         \/ Tick \/ UNCHANGED cm_vars
  PROVE  KeepsWho
<1>1. ASSUME NEW n \in Names, NEW st \in Status, cm_set_status(n, st) PROVE KeepsWho
  <2>1. ASSUME NEW i \in Slots
        PROVE  \/ g_clients'[i] = g_clients[i]
               \/ /\ g_clients'[i] = [g_clients[i] EXCEPT !.status = st, !.last_activity = clock]
                  /\ g_clients[i] \in Client
    BY <1>1, ActiveIsClient DEF cm_set_status, First, NamedSlots, ActiveSlots
  <2>. QED BY <2>1 DEF KeepsWho, Client
<1>2. ASSUME NEW n \in Names, cm_update_activity(n) PROVE KeepsWho
  <2>1. ASSUME NEW i \in Slots
        PROVE  \/ g_clients'[i] = g_clients[i]
               \/ /\ g_clients'[i] = [g_clients[i] EXCEPT !.last_activity = clock]
                  /\ g_clients[i] \in Client
    BY <1>2, ActiveIsClient DEF cm_update_activity, First, NamedSlots, ActiveSlots
  <2>. QED BY <2>1 DEF KeepsWho, Client
<1>3. ASSUME NEW now, cm_mark_inactive_clients(now) PROVE KeepsWho
  <2>1. ASSUME NEW i \in Slots
        PROVE  \/ g_clients'[i] = g_clients[i]
               \/ /\ g_clients'[i] = [g_clients[i] EXCEPT !.status = "INACTIVE"]
                  /\ g_clients[i] \in Client
    BY <1>3, ActiveIsClient DEF cm_mark_inactive_clients, IdleSlots, ActiveSlots
  <2>. QED BY <2>1 DEF KeepsWho, Client
<1>4. CASE Tick \/ UNCHANGED cm_vars
  BY <1>4 DEF Tick, cm_vars, KeepsWho
<1>. QED BY <1>1, <1>2, <1>3, <1>4

\* A session that was in the table and stays there, or was not and is not.
SameMember(c) ==
  /\ Member(c)' <=> Member(c)
  /\ Member(c) => /\ sockfd'[c] = sockfd[c] /\ ip'[c] = ip[c]
                  /\ username'[c] = username[c]

DistinctSocks ==
  \A c, d \in Conns : sockfd[c] = sockfd[d] /\ sockfd[c] # None => c = d

\* Neither the slots nor the membership change: the match stands.
LEMMA MatchKept ==
  ASSUME SlotsMatchSessions, KeepsWho, \A c \in Conns : SameMember(c), DistinctSocks'
  PROVE  SlotsMatchSessions'
<1>1. \A c \in Conns : Member(c)' => \E i \in Slots : Listed(c, i)'
  BY DEF SlotsMatchSessions, KeepsWho, SameMember, Listed
<1>2. \A i \in ActiveSlots' : \E c \in Conns : Member(c)' /\ Listed(c, i)'
  BY DEF SlotsMatchSessions, KeepsWho, SameMember, Listed, ActiveSlots
<1>. QED BY <1>1, <1>2 DEF SlotsMatchSessions, DistinctSocks

\* A registration fills one slot with the data of its session.
LEMMA RegisterMatch ==
  ASSUME ChatInv, NEW c \in Conns, NEW r \in Requests, Register(c, r)
  PROVE  SlotsMatchSessions'
<1>. ChatTypeOK /\ CMTypeOK /\ CountExact /\ SlotsMatchSessions
  BY DEF ChatInv, CMInv
<1>. DEFINE n == r.arg
<1>1. n \in Names /\ ip[c] \in IPs /\ sockfd[c] \in Socks /\ Stored[n] \in Names
  BY RegisterAdds, NamesAssumption
<1>2. PICK k \in Slots : OneNewClient(n, ip[c], sockfd[c], k)
  BY <1>1, AddShape DEF Register
<1>3. /\ g_clients'[k] = NewClient(n, ip[c], sockfd[c])
      /\ \A i \in Slots \ {k} : g_clients'[i] = g_clients[i]
  BY <1>1, <1>2, NewIsActive
<1>4. /\ pc[c] = "recv" /\ ~ Registered(c) /\ pc'[c] = "send"
      /\ username'[c] = Stored[n] /\ UNCHANGED <<sockfd, ip>>
      /\ \A d \in Conns \ {c} : pc'[d] = pc[d] /\ username'[d] = username[d]
  BY DEF Register, Receive, Goto, ChatTypeOK
<1>5. Member(c)' /\ Listed(c, k)'
  BY <1>1, <1>3, <1>4, NamesAssumption DEF Member, Registered, Listed, NewClient
<1>6. ASSUME NEW d \in Conns \ {c}, Member(d)' PROVE \E i \in Slots : Listed(d, i)'
  <2>1. Member(d)
    BY <1>4, <1>6 DEF Member, Registered
  <2>2. PICK i \in Slots : Listed(d, i)
    BY <2>1 DEF SlotsMatchSessions
  <2>3. i # k
    BY <1>2, <2>2 DEF Listed, OneNewClient
  <2>. QED BY <1>3, <1>4, <2>2, <2>3 DEF Listed
<1>7. ASSUME NEW i \in ActiveSlots' \ {k}
      PROVE  \E d \in Conns : Member(d)' /\ Listed(d, i)'
  <2>1. i \in ActiveSlots /\ g_clients'[i] = g_clients[i]
    BY <1>3 DEF ActiveSlots
  <2>2. PICK d \in Conns : Member(d) /\ Listed(d, i)
    BY <2>1 DEF SlotsMatchSessions
  <2>3. d # c
    BY <1>4, <2>2 DEF Member
  <2>. QED BY <1>4, <2>1, <2>2, <2>3 DEF Member, Registered, Listed
<1>8. DistinctSocks'
  BY <1>4 DEF SlotsMatchSessions, DistinctSocks
<1>. QED BY <1>5, <1>6, <1>7, <1>8 DEF SlotsMatchSessions, DistinctSocks

\* A removal clears the slot of its session, and no other's.
LEMMA RemoveMatch ==
  ASSUME ChatInv, NEW c \in Conns, Remove(c)
  PROVE  SlotsMatchSessions'
<1>. ChatTypeOK /\ CMTypeOK /\ UniqueSocks /\ SlotsMatchSessions /\ LocalsOK
  BY DEF ChatInv, CMInv
<1>1. /\ pc[c] = "remove" /\ pc'[c] \in {"close", "announce"}
      /\ UNCHANGED <<sockfd, ip, username>>
      /\ \A d \in Conns \ {c} : pc'[d] = pc[d]
  BY DEF Remove, session_vars, Goto, ChatTypeOK
<1>2. sockfd[c] \in Socks /\ sockfd[c] # None
  BY <1>1, SocksAssumption DEF LocalsOK, Running, SessionPC
<1>3. ~ Member(c)'
  BY <1>1 DEF Member
<1>4. \A d \in Conns \ {c} : Member(d)' <=> Member(d)
  BY <1>1 DEF Member, Registered
<1>5. \A i \in Slots : i \in SockSlots(sockfd[c]) <=> First(i, SockSlots(sockfd[c]))
  <2>1. \A i, j \in SockSlots(sockfd[c]) : i = j
    BY DEF SockSlots, UniqueSocks
  <2>2. SockSlots(sockfd[c]) \subseteq Nat
    BY BoundsAssumption DEF SockSlots, ActiveSlots, Slots
  <2>. QED BY <2>1, <2>2 DEF First
<1>6. ASSUME NEW i \in Slots
      PROVE  g_clients'[i] = IF i \in SockSlots(sockfd[c]) THEN Zeroed ELSE g_clients[i]
  BY <1>5 DEF Remove, cm_remove_by_sockfd, Erase
<1>7. ASSUME NEW d \in Conns, Member(d)' PROVE \E i \in Slots : Listed(d, i)'
  <2>1. d # c /\ Member(d)
    BY <1>3, <1>4, <1>7
  <2>2. PICK i \in Slots : Listed(d, i)
    BY <2>1 DEF SlotsMatchSessions
  <2>3. i \notin SockSlots(sockfd[c])
    BY <1>2, <2>1, <2>2 DEF SlotsMatchSessions, SockSlots, Listed
  <2>. QED BY <1>1, <1>6, <2>2, <2>3 DEF Listed
<1>8. ASSUME NEW i \in ActiveSlots'
      PROVE  \E d \in Conns : Member(d)' /\ Listed(d, i)'
  <2>1. i \in Slots /\ i \notin SockSlots(sockfd[c]) /\ g_clients'[i] = g_clients[i]
    BY <1>6 DEF ActiveSlots, Zeroed
  <2>2. PICK d \in Conns : Member(d) /\ Listed(d, i)
    BY <2>1 DEF SlotsMatchSessions, ActiveSlots
  <2>3. d # c
    BY <2>1, <2>2 DEF Listed, SockSlots, ActiveSlots
  <2>. QED BY <1>1, <1>4, <2>1, <2>2, <2>3 DEF Listed
<1>9. DistinctSocks'
  BY <1>1 DEF SlotsMatchSessions, DistinctSocks
<1>. QED BY <1>7, <1>8, <1>9 DEF SlotsMatchSessions, DistinctSocks

\* A session whose descriptor, name and address stay, and that does not pass
\* from the table or into it.
LEMMA SameLocals ==
  ASSUME NEW c \in Conns,
         UNCHANGED <<sockfd[c], ip[c], username[c]>>,
         \/ pc'[c] = pc[c]
         \/ ~ Registered(c)
         \/ /\ pc[c] \in {"recv", "dispatch", "send", "logout", "remove"}
            /\ pc'[c] \in {"recv", "dispatch", "send", "logout", "remove"}
         \/ /\ pc[c] \notin {"recv", "dispatch", "send", "logout", "remove"}
            /\ pc'[c] \notin {"recv", "dispatch", "send", "logout", "remove"}
  PROVE  SameMember(c)
BY DEF SameMember, Member, Registered

\* accept gives a session a descriptor that no other has, and close takes
\* away one that no slot holds.
LEMMA AcceptCloseMatch ==
  ASSUME ChatInv, NEW c \in Conns, (\E addr \in IPs : Accept(c, addr)) \/ Close(c)
  PROVE  (\A d \in Conns : SameMember(d)) /\ DistinctSocks'
<1>. ChatTypeOK /\ SlotsMatchSessions /\ LocalsOK
  BY DEF ChatInv
<1>1. \A d \in Conns \ {c} : SameMember(d) /\ sockfd'[d] = sockfd[d]
  BY DEF Accept, Close, Goto, SameMember, Member, Registered, ChatTypeOK
<1>2. CASE \E addr \in IPs : Accept(c, addr)
  <2>1. /\ pc[c] = "new" /\ username'[c] = username[c]
        /\ sockfd'[c] \in Socks \ OpenSocks
    BY <1>2 DEF Accept, First, ChatTypeOK
  <2>2. SameMember(c)
    BY <2>1 DEF SameMember, Member, Registered, LocalsOK
  <2>3. \A d \in Conns : sockfd'[c] # sockfd[d]
    BY <2>1, SocksAssumption DEF OpenSocks
  <2>. QED BY <1>1, <2>2, <2>3 DEF SlotsMatchSessions, DistinctSocks
<1>3. CASE Close(c)
  <2>1. pc[c] = "close" /\ pc'[c] = "done" /\ sockfd'[c] = None
    BY <1>3 DEF Close, Goto, ChatTypeOK
  <2>2. SameMember(c)
    BY <2>1 DEF SameMember, Member
  <2>. QED BY <1>1, <2>1, <2>2 DEF SlotsMatchSessions, DistinctSocks
<1>. QED BY <1>2, <1>3

\* Every step keeps the table and the sessions in agreement.
LEMMA MatchStep ==
  ASSUME ChatInv, [Next]_vars
  PROVE  SlotsMatchSessions'
<1>. ChatTypeOK /\ CMTypeOK /\ SlotsMatchSessions /\ LocalsOK
  BY DEF ChatInv, CMInv
<1>1. ASSUME UNCHANGED <<sockfd, ip, username>>, KeepsWho, NEW c \in Conns,
             \A d \in Conns \ {c} : pc'[d] = pc[d], SameMember(c)
      PROVE  SlotsMatchSessions'
  <2>1. \A d \in Conns : SameMember(d)
    BY <1>1, SameLocals
  <2>2. DistinctSocks'
    BY <1>1 DEF SlotsMatchSessions, DistinctSocks
  <2>. QED BY <1>1, <2>1, <2>2, MatchKept
<1>2. ASSUME NEW c \in Conns, (\E addr \in IPs : Accept(c, addr)) \/ Close(c)
      PROVE  SlotsMatchSessions'
  <2>1. KeepsWho
    BY <1>2, OthersLeaveTable, TableKeepsWho
  <2>. QED BY <1>2, <2>1, AcceptCloseMatch, MatchKept
<1>3. ASSUME NEW c \in Conns, NEW r \in Requests,
             \/ RejectUnregistered(c, r) \/ RegisterFails(c, r) \/ ReceiveCommand(c, r)
      PROVE  SlotsMatchSessions'
  <2>1. KeepsWho
    <3>1. CASE RejectUnregistered(c, r) \/ RegisterFails(c, r)
      BY <3>1, OthersLeaveTable, TableKeepsWho
    <3>2. CASE ReceiveCommand(c, r)
      <4>1. username[c] \in Names /\ cm_update_activity(username[c])
        BY <3>2 DEF ReceiveCommand, Registered, ChatTypeOK
      <4>. QED BY <4>1, TableKeepsWho
    <3>. QED BY <1>3, <3>1, <3>2
  <2>2. /\ UNCHANGED <<sockfd, ip, username>>
        /\ \A d \in Conns \ {c} : pc'[d] = pc[d]
        /\ pc[c] = "recv" /\ pc'[c] \in {"send", "dispatch"}
    BY <1>3 DEF RejectUnregistered, RegisterFails, ReceiveCommand, Receive,
                Goto, ChatTypeOK
  <2>. QED BY <1>1, <2>1, <2>2, SameLocals
<1>4. ASSUME NEW c \in Conns,
             \/ Broadcast(c) \/ Direct(c) \/ List(c) \/ Info(c) \/ SetStatus(c)
             \/ Logout(c) \/ Unsupported(c)
      PROVE  SlotsMatchSessions'
  <2>1. KeepsWho
    BY <1>4, OthersLeaveTable, SetStatusSets, TableKeepsWho
  <2>2. \E commands, work : \E l \in {"send", "logout"} : Dispatch(c, commands, l, work)
    BY <1>4 DEF Broadcast, Direct, List, Info, SetStatus, Logout, Unsupported
  <2>3. /\ UNCHANGED <<sockfd, ip, username>>
        /\ \A d \in Conns \ {c} : pc'[d] = pc[d]
        /\ pc[c] = "dispatch" /\ pc'[c] \in {"send", "logout"}
    BY <2>2 DEF Dispatch, session_vars, Goto, ChatTypeOK
  <2>. QED BY <1>1, <2>1, <2>3, SameLocals
<1>5. ASSUME NEW c \in Conns,
             \/ AcceptFails(c) \/ RecvFails(c) \/ broadcast_disconnected(c)
             \/ ClientClose(c) \/ Reply(c) \/ \E i \in Slots : FanOut(c, i)
      PROVE  SlotsMatchSessions'
  <2>1. KeepsWho
    BY <1>5, OthersLeaveTable, TableKeepsWho
  <2>2. /\ UNCHANGED <<sockfd, ip, username>>
        /\ \A d \in Conns \ {c} : pc'[d] = pc[d]
    BY <1>5 DEF AcceptFails, RecvFails, broadcast_disconnected, ClientClose,
                Reply, FanOut, session_vars, Goto, ChatTypeOK
  <2>3. \/ pc'[c] = pc[c]
        \/ pc[c] = "new" /\ pc'[c] = "done"
        \/ pc[c] = "announce" /\ pc'[c] = "close"
        \/ pc[c] = "recv" /\ pc'[c] = "remove"
        \/ pc[c] = "recv" /\ ~ Registered(c)
        \/ pc[c] \in {"send", "logout"} /\ pc'[c] \in {"recv", "remove"}
    BY <1>5 DEF AcceptFails, RecvFails, broadcast_disconnected, ClientClose,
                Reply, FanOut, Goto, ChatTypeOK
  <2>. QED BY <1>1, <2>1, <2>2, <2>3, SameLocals
<1>6. CASE \/ WdReadClock \/ WdMark \/ WdSleep \/ ClockTicks
           \/ \E i \in Slots : WdSend(i)
           \/ UNCHANGED vars
  <2>1. KeepsWho
    BY <1>6, TableKeepsWho DEF WdReadClock, WdMark, WdSleep, ClockTicks, WdSend, vars
  <2>2. UNCHANGED <<pc, sockfd, ip, username>>
    BY <1>6 DEF WdReadClock, WdMark, WdSleep, ClockTicks, WdSend, vars, session_vars
  <2>3. \A c \in Conns : SameMember(c)
    BY <2>2, SameLocals
  <2>4. DistinctSocks'
    BY <2>2 DEF SlotsMatchSessions, DistinctSocks
  <2>. QED BY <2>1, <2>3, <2>4, MatchKept
<1>. QED
  BY <1>2, <1>3, <1>4, <1>5, <1>6, RegisterMatch, RemoveMatch
     DEF Next, Quiet, Sends, SessionQuiet, Incoming

-----------------------------------------------------------------------------
(* The theorems.                                                           *)

\* Nobody is connected yet.
LEMMA ChatInit == Init => ChatInv
<1>1. SUFFICES ASSUME Init PROVE ChatInv
  OBVIOUS
<1>2. CMInv
  BY <1>1, InitInv DEF Init
<1>3. ChatTypeOK
  BY <1>1, <1>2, AnswerType, ServerAssumption
     DEF Init, cm_init, ChatTypeOK, CMInv, SessionPC, TodoOK, NoSocks
<1>4. LocalsOK
  BY <1>1 DEF Init, LocalsOK, Running
<1>5. SlotsMatchSessions
  BY <1>1 DEF Init, cm_init, SlotsMatchSessions, Member, Registered, ActiveSlots, Zeroed
<1>. QED BY <1>2, <1>3, <1>4, <1>5 DEF ChatInv

\* The inductive step.
LEMMA ChatNext == ChatInv /\ [Next]_vars => ChatInv'
<1>1. SUFFICES ASSUME ChatInv, [Next]_vars PROVE ChatInv'
  OBVIOUS
<1>2. CMInv'
  BY <1>1, TableStep, NextInv DEF ChatInv
<1>. QED BY <1>1, <1>2, TypeStep, LocalsStep, MatchStep DEF ChatInv

\* The inductive invariant holds in every state of the server.
THEOREM ChatInvariant == Spec => []ChatInv
BY ChatInit, ChatNext, PTL DEF Spec

\* The threads' locals, their pending packets and the watchdog's events stay
\* well formed, whatever clients request and whenever they vanish.
THEOREM ChatTypeCorrect == Spec => []ChatTypeOK
BY ChatInvariant, PTL DEF ChatInv

\* At every moment the table lists exactly the registered sessions that have
\* not left, each with its own descriptor, although registering, leaving,
\* closing and the reuse of descriptors interleave in any way.
THEOREM TableIsSessions == Spec => []SlotsMatchSessions
BY ChatInvariant, PTL DEF ChatInv

\* The threads of session.c use the table only by its operations, and never
\* add a descriptor that a slot still holds.
THEOREM ServerKeepsContract == Spec => KeepsTableContract
<1>1. Init => cm_init
  BY DEF Init
<1>2. ChatInv /\ [Next]_vars => [CMNext]_cm_vars
  BY TableStep
<1>. QED BY <1>1, <1>2, ChatInvariant, PTL DEF Spec, KeepsTableContract, CMSpec

\* What client_manager.c guarantees on its own, the running server therefore
\* guarantees: counter, addresses and descriptors stay right.
THEOREM ServerTableSound == Spec => [](CountExact /\ UniqueIps /\ UniqueSocks)
BY ChatInvariant, PTL DEF ChatInv, CMInv

\* While names fit, no two users connected to the server share a name.
THEOREM ServerUniqueNames == NamesFit => (Spec => []UniqueUsernames)
BY ServerKeepsContract, OneClientPerName, PTL DEF KeepsTableContract

\* The server as a whole implements the directory.
THEOREM ServerImplementsDirectory == NamesFit => (Spec => Refines)
BY ServerKeepsContract, TableImplementsDirectory, PTL DEF KeepsTableContract

-----------------------------------------------------------------------------
(* Statuses.                                                               *)

\* Only a STATUS command and a round of the watchdog touch a status; the
\* command finds the slot by name, so names must be unique for it to be the
\* sender's own.
LEMMA StatusStep ==
  ASSUME ChatInv, UniqueUsernames, [Next]_vars, NEW i \in Slots,
         g_clients[i].active, g_clients'[i].active,
         g_clients[i].status # g_clients'[i].status
  PROVE  \/ wd_pc = "mark" /\ g_clients'[i].status = "INACTIVE"
         \/ \E c \in Conns : /\ g_clients[i].sockfd = sockfd[c]
                             /\ pc[c] = "dispatch"
                             /\ req[c] = [command |-> "STATUS",
                                          arg |-> g_clients'[i].status]
<1>. ChatTypeOK /\ CMTypeOK /\ CountExact /\ SlotsMatchSessions
  BY DEF ChatInv, CMInv
<1>1. g_clients[i] \in Client /\ i \in ActiveSlots
  BY ActiveIsClient DEF ActiveSlots
<1>2. ASSUME NEW c \in Conns, NEW r \in Requests, Register(c, r) PROVE FALSE
  <2>1. \A j \in Slots : First(j, FreeSlots) => ~ g_clients[j].active
    BY DEF First, FreeSlots
  <2>. QED BY <1>2, <2>1 DEF Register, cm_add_client
<1>3. ASSUME NEW c \in Conns, NEW r \in Requests, ReceiveCommand(c, r) PROVE FALSE
  BY <1>1, <1>3 DEF ReceiveCommand, cm_update_activity, Client
<1>4. ASSUME NEW c \in Conns, SetStatus(c)
      PROVE  /\ g_clients[i].sockfd = sockfd[c]
             /\ pc[c] = "dispatch"
             /\ req[c] = [command |-> "STATUS", arg |-> g_clients'[i].status]
  <2>1. pc[c] = "dispatch"
    BY <1>4 DEF SetStatus, Dispatch
  <2>2. /\ req[c] = [command |-> "STATUS", arg |-> req[c].arg]
        /\ cm_set_status(username[c], req[c].arg)
    BY <1>4, SetStatusSets DEF cm_vars
  <2>3. /\ First(i, NamedSlots(username[c]))
        /\ g_clients'[i] = [g_clients[i] EXCEPT !.status = req[c].arg,
                                                !.last_activity = clock]
    BY <2>2 DEF cm_set_status
  <2>4. g_clients'[i].status = req[c].arg
    BY <1>1, <2>3 DEF Client
  <2>5. username[c] \in Names
    BY <1>4, SetStatusSets
  <2>6. Member(c)
    BY <2>1, <2>5, NamesAssumption DEF Member, Registered
  <2>7. PICK j \in Slots : Listed(c, j)
    BY <2>6 DEF SlotsMatchSessions
  <2>8. j = i
    BY <1>1, <2>3, <2>7 DEF First, NamedSlots, Listed, ActiveSlots, UniqueUsernames
  <2>. QED BY <2>1, <2>2, <2>4, <2>7, <2>8 DEF Listed
<1>5. ASSUME NEW c \in Conns, Remove(c) PROVE FALSE
  BY <1>5 DEF Remove, cm_remove_by_sockfd, Erase, Zeroed
<1>6. ASSUME WdMark
      PROVE  wd_pc = "mark" /\ g_clients'[i].status = "INACTIVE"
  BY <1>1, <1>6 DEF WdMark, cm_mark_inactive_clients, Client
<1>7. CASE \/ ClockTicks \/ WdReadClock \/ WdSleep \/ UNCHANGED vars
           \/ \E j \in Slots : WdSend(j)
  BY <1>7 DEF ClockTicks, Tick, WdReadClock, WdSleep, WdSend, vars, cm_vars
<1>8. CASE UNCHANGED cm_vars
  BY <1>8 DEF cm_vars
<1>. QED
  BY <1>2, <1>3, <1>4, <1>5, <1>6, <1>7, <1>8, OthersLeaveTable
     DEF Next, Quiet, Sends, SessionQuiet, Incoming

\* However sessions, registrations and the watchdog interleave, nobody's
\* command changes another user's status, as long as names fit in the table.
THEOREM StatusIsOwn == NamesFit => (Spec => StatusOnlyByOwner)
<1>1. SUFFICES ASSUME NamesFit PROVE Spec => StatusOnlyByOwner
  OBVIOUS
<1>2. ChatInv /\ UniqueUsernames /\ [Next]_vars =>
        [\A i \in Slots :
           (/\ g_clients[i].active /\ g_clients[i]'.active
            /\ g_clients[i].status # g_clients[i]'.status)
           => \/ wd_pc = "mark" /\ g_clients[i]'.status = "INACTIVE"
              \/ \E c \in Conns : /\ g_clients[i].sockfd = sockfd[c]
                                  /\ pc[c] = "dispatch"
                                  /\ req[c] = [command |-> "STATUS",
                                               arg |-> g_clients[i]'.status]]_vars
  BY StatusStep
<1>3. Spec => []UniqueUsernames
  BY <1>1, ServerUniqueNames
<1>. QED BY <1>2, <1>3, ChatInvariant, PTL DEF Spec, StatusOnlyByOwner
==============================================================================
