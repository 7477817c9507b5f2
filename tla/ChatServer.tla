------------------------------ MODULE ChatServer ------------------------------
(***************************************************************************)
(* The running server: the accept loop of server/server.c, one session     *)
(* thread per connection and the inactivity watchdog of server/session.c,  *)
(* around the shared table of ClientManager.                               *)
(*                                                                         *)
(* An action runs from one point where another thread can interfere to the *)
(* next: a receive, one critical section of the client manager, one        *)
(* send_packet, a close.  A session looks sockets up under the mutex and   *)
(* writes to them after releasing it, so its copy (todo[c].to) may be      *)
(* stale when it is used.  accept returns the lowest free descriptor, as   *)
(* POSIX requires: a descriptor closed by one session is soon another's.   *)
(*                                                                         *)
(* Abstracted: packets are whole (send_all and recv_all loop to the last   *)
(* byte), a chat text is the pair <<connection, request number>>, a reply  *)
(* text is a tuple of its parts, and a send to an open peer never blocks.  *)
(***************************************************************************)
EXTENDS ClientManager, FiniteSetsExt

CONSTANTS
  Conns,        \* TCP connections, each used once
  Requests,     \* the requests that clients make in this instance
  Width,        \* bytes of a username
  PAYLOAD_SIZE, \* sizeof(list_payload) (957 in the code)
  MAX_REQS      \* bound of the model: requests per connection

Command == {"REGISTER", "BROADCAST", "DIRECT", "LIST", "INFO", "STATUS",
            "LOGOUT", "OTHER"}

\* The fields of a packet that the server reads: the sender of a REGISTER,
\* the target of a DIRECT or an INFO, the payload of a STATUS (None: a text
\* that is not a status).
Request ==
  [command : {"BROADCAST", "LIST", "LOGOUT", "OTHER"}, arg : {None}]
    \cup [command : {"REGISTER", "DIRECT", "INFO"}, arg : Names \cup {None}]
    \cup [command : {"STATUS"}, arg : Status \cup {None}]

ASSUME ServerAssumption ==
  /\ None \notin Conns
  /\ Requests \subseteq Request
  /\ Width \in [Names -> 1 .. 31]
  /\ PAYLOAD_SIZE \in Nat
  /\ MAX_REQS \in Nat

VARIABLES
  server_up,   \* the process is alive
  pc,          \* where each session thread is
  sockfd, ip, username,   \* its locals; username is None until registered
  req,         \* the request being handled
  todo,        \* the packets still to be sent, see Work
  nreq,        \* how many requests the connection has made
  peer,        \* the other end: open, closed, reset or broken
  wd_pc, wd_now, wd_events    \* the watchdog thread

session_vars == <<sockfd, ip, username>>
wd_vars == <<wd_pc, wd_now, wd_events>>
vars == <<cm_vars, server_up, pc, session_vars, req, todo, nreq, peer, wd_vars>>

-----------------------------------------------------------------------------
(* Packets: make_packet, send_ok, send_error.                              *)

make_packet(command, sender, target, payload) ==
  [command |-> command, sender |-> sender, target |-> target,
   payload |-> payload]

send_ok(n, text)    == make_packet("OK", "SERVER", n, text)
send_error(n, text) == make_packet("ERROR", "SERVER", n, text)

NoSocks == [i \in Slots |-> None]

\* A session's sends: packet out to every socket of the array to, then the
\* reply to its own client.
Work(to, out, reply) == [to |-> to, out |-> out, reply |-> reply]
Nothing == Work(NoSocks, None, None)
Answer(reply) == Work(NoSocks, None, reply)

Pending(c) == {i \in Slots : todo[c].to[i] # None}

Registered(c) == username[c] # None
OpenSocks == {sockfd[c] : c \in Conns} \ {None}
Owners(s) == {c \in Conns : sockfd[c] = s /\ s # None}

SessionPC == {"new", "recv", "dispatch", "send", "logout", "remove",
              "announce", "close", "done"}

ChatTypeOK ==
  /\ CMTypeOK
  /\ server_up \in BOOLEAN
  /\ pc \in [Conns -> SessionPC]
  /\ sockfd \in [Conns -> Socks \cup {None}]
  /\ ip \in [Conns -> IPs \cup {None}]
  /\ username \in [Conns -> Names \cup {None}]
  /\ req \in [Conns -> Request \cup {None}]
  /\ DOMAIN todo = Conns
  /\ \A c \in Conns : /\ DOMAIN todo[c] = {"to", "out", "reply"}
                      /\ todo[c].to \in [Slots -> Socks \cup {None}]
  /\ nreq \in [Conns -> 0 .. MAX_REQS]
  /\ peer \in [Conns -> {"open", "closed", "reset", "broken"}]
  /\ wd_pc \in {"awake", "mark", "send"}
  /\ wd_now \in 0 .. clock
  /\ wd_events \in [Slots -> [sockfd : Socks, username : Names] \cup {None}]

Init ==
  /\ cm_init
  /\ server_up = TRUE
  /\ pc = [c \in Conns |-> "new"]
  /\ sockfd = [c \in Conns |-> None]
  /\ ip = [c \in Conns |-> None]
  /\ username = [c \in Conns |-> None]
  /\ req = [c \in Conns |-> None]
  /\ todo = [c \in Conns |-> Nothing]
  /\ nreq = [c \in Conns |-> 0]
  /\ peer = [c \in Conns |-> "open"]
  /\ wd_pc = "awake" /\ wd_now = 0 /\ wd_events = NoSocks

-----------------------------------------------------------------------------
(* send_packet(s, ...), whose result the server never looks at.            *)
(*   no owner  EBADF                                                       *)
(*   open      the bytes are on their way                                  *)
(*   closed    the bytes are accepted; the peer may answer with a reset    *)
(*   reset     ECONNRESET, once; from then on the connection is broken     *)
(*   broken    SIGPIPE: send has no MSG_NOSIGNAL and nothing handles or    *)
(*             ignores the signal, which ends the process                  *)

send_packet(s) ==
  \/ Owners(s) = {} /\ UNCHANGED <<peer, server_up>>
  \/ \E d \in Owners(s) :
       \/ peer[d] = "open" /\ UNCHANGED <<peer, server_up>>
       \/ /\ peer[d] = "closed"
          /\ \E p \in {"closed", "broken"} : peer' = [peer EXCEPT ![d] = p]
          /\ UNCHANGED server_up
       \/ /\ peer[d] = "reset"
          /\ peer' = [peer EXCEPT ![d] = "broken"]
          /\ UNCHANGED server_up
       \/ /\ peer[d] = "broken"
          /\ server_up' = FALSE
          /\ UNCHANGED peer

Goto(c, l) == pc' = [pc EXCEPT ![c] = l]

-----------------------------------------------------------------------------
(* server.c, the accept loop.                                              *)

Accept(c, addr) ==
  /\ pc[c] = "new"
  /\ \E s \in Socks : /\ First(s, Socks \ OpenSocks)
                      /\ sockfd' = [sockfd EXCEPT ![c] = s]
  /\ ip' = [ip EXCEPT ![c] = addr]
  /\ Goto(c, "recv")
  /\ UNCHANGED <<cm_vars, server_up, username, req, todo, nreq, peer, wd_vars>>

\* malloc or pthread_create fails: the connection is closed at once.
AcceptFails(c) ==
  /\ pc[c] = "new"
  /\ Socks \ OpenSocks # {}
  /\ Goto(c, "done")
  /\ UNCHANGED <<cm_vars, server_up, session_vars, req, todo, nreq, peer, wd_vars>>

-----------------------------------------------------------------------------
(* client_session_thread: receiving.  A peer that is gone may have left    *)
(* requests in the socket's buffer.                                        *)

Receive(c, r) ==
  /\ pc[c] = "recv"
  /\ r \in Requests
  /\ nreq[c] < MAX_REQS
  /\ nreq' = [nreq EXCEPT ![c] = @ + 1]
  /\ UNCHANGED <<server_up, sockfd, ip, peer, wd_vars>>

RejectUnregistered(c, r) ==
  /\ Receive(c, r)
  /\ ~Registered(c)
  /\ r.command # "REGISTER"
  /\ todo' = [todo EXCEPT ![c] =
                Answer(send_error(None, <<"Primero debes registrarte">>))]
  /\ Goto(c, "send")
  /\ UNCHANGED <<cm_vars, username, req>>

RegisterError(n, a) ==
  CASE n = None            -> "Username vacio"
    [] AddResult(n, a) = -1 -> "Usuario ya existe"
    [] AddResult(n, a) = -2 -> "IP ya conectada"
    [] AddResult(n, a) = -3 -> "Servidor lleno"

RegisterFails(c, r) ==
  /\ Receive(c, r)
  /\ ~Registered(c)
  /\ r.command = "REGISTER"
  /\ r.arg = None \/ AddResult(r.arg, ip[c]) # 0
  /\ todo' = [todo EXCEPT ![c] =
                Answer(send_error(r.arg, <<RegisterError(r.arg, ip[c])>>))]
  /\ Goto(c, "send")
  /\ UNCHANGED <<cm_vars, username, req>>

Register(c, r) ==
  /\ Receive(c, r)
  /\ ~Registered(c)
  /\ r.command = "REGISTER"
  /\ r.arg # None
  /\ cm_add_client(r.arg, ip[c], sockfd[c])
  /\ username' = [username EXCEPT ![c] = Stored[r.arg]]
  /\ todo' = [todo EXCEPT ![c] =
                Answer(send_ok(Stored[r.arg], <<"Bienvenido", Stored[r.arg]>>))]
  /\ Goto(c, "send")
  /\ UNCHANGED req

ReceiveCommand(c, r) ==
  /\ Receive(c, r)
  /\ Registered(c)
  /\ cm_update_activity(username[c])
  /\ req' = [req EXCEPT ![c] = r]
  /\ Goto(c, "dispatch")
  /\ UNCHANGED <<username, todo>>

-----------------------------------------------------------------------------
(* The commands of a registered session.                                   *)

Dispatch(c, commands, l, work) ==
  /\ pc[c] = "dispatch"
  /\ req[c].command \in commands
  /\ todo' = [todo EXCEPT ![c] = work]
  /\ req' = [req EXCEPT ![c] = None]
  /\ Goto(c, l)
  /\ UNCHANGED <<server_up, session_vars, nreq, peer, wd_vars>>

\* The n-th text that connection c sends.
Text(c) == <<c, nreq[c]>>

Broadcast(c) ==
  /\ Dispatch(c, {"BROADCAST"}, "send",
       Work(cm_get_sockets_except(sockfd[c]),
            make_packet("MSG", username[c], "ALL", Text(c)),
            send_ok(username[c], <<"Broadcast enviado">>)))
  /\ UNCHANGED cm_vars

Direct(c) ==
  LET n == req[c].arg
  IN /\ Dispatch(c, {"DIRECT"}, "send",
          IF NamedSlots(n) = {}
            THEN Answer(send_error(username[c], <<"Destinatario no conectado">>))
            ELSE Work(cm_get_socket_by_username(n),
                      make_packet("MSG", username[c], n, Text(c)),
                      send_ok(username[c], <<"Mensaje directo enviado">>)))
     /\ UNCHANGED cm_vars

StatusWidth == [ACTIVE |-> 6, BUSY |-> 4, INACTIVE |-> 8]

\* The length of "user,status;" for every active slot.
ListLength ==
  MapThenSumSet(LAMBDA i : Width[g_clients[i].username]
                             + StatusWidth[g_clients[i].status] + 2,
                ActiveSlots)

UserList == {<<g_clients[i].username, g_clients[i].status>> : i \in ActiveSlots}

List(c) ==
  /\ Dispatch(c, {"LIST"}, "send",
       Answer(IF ListLength >= PAYLOAD_SIZE
                THEN send_error(username[c], <<"No se pudo construir lista">>)
                ELSE make_packet("USER_LIST", "SERVER", username[c], UserList)))
  /\ UNCHANGED cm_vars

Info(c) ==
  LET n == req[c].arg
      i == CHOOSE j \in Slots : First(j, NamedSlots(n))
  IN /\ Dispatch(c, {"INFO"}, "send",
          Answer(IF NamedSlots(n) = {}
                   THEN send_error(username[c], <<"Usuario no conectado">>)
                   ELSE make_packet("USER_INFO", "SERVER", username[c],
                                    <<g_clients[i].ip, g_clients[i].status>>)))
     /\ UNCHANGED cm_vars

SetStatus(c) ==
  LET st == req[c].arg
  IN /\ Dispatch(c, {"STATUS"}, "send",
          Answer(IF st \in Status /\ NamedSlots(username[c]) # {}
                   THEN send_ok(username[c], <<st>>)
                   ELSE send_error(username[c], <<"Status invalido">>)))
     /\ cm_set_status(username[c], st)

Logout(c) ==
  /\ Dispatch(c, {"LOGOUT"}, "logout",
       Answer(send_ok(username[c], <<"Logout exitoso">>)))
  /\ UNCHANGED cm_vars

Unsupported(c) ==
  /\ Dispatch(c, {"REGISTER", "OTHER"}, "send",
       Answer(send_error(username[c], <<"Comando no soportado">>)))
  /\ UNCHANGED cm_vars

-----------------------------------------------------------------------------
(* Sending what a command, or the announcement of a departure, left to do. *)

\* One iteration of a fan-out loop.
FanOut(c, i) ==
  /\ pc[c] \in {"send", "close"}
  /\ First(i, Pending(c))
  /\ send_packet(todo[c].to[i])
  /\ todo' = [todo EXCEPT ![c].to[i] = None]
  /\ UNCHANGED <<cm_vars, pc, session_vars, req, nreq, wd_vars>>

\* Slip: a session that was logged out skips its clean-up.
ReplyThenClose(c) ==
  /\ pc[c] \in {"send", "logout"}
  /\ Pending(c) = {}
  /\ send_packet(sockfd[c])
  /\ todo' = [todo EXCEPT ![c] = Nothing]
  /\ Goto(c, IF pc[c] = "logout" THEN "close" ELSE "recv")
  /\ UNCHANGED <<cm_vars, session_vars, req, nreq, wd_vars>>

Reply(c) ==
  /\ pc[c] \in {"send", "logout"}
  /\ Pending(c) = {}
  /\ send_packet(sockfd[c])
  /\ todo' = [todo EXCEPT ![c] = Nothing]
  /\ Goto(c, IF pc[c] = "logout" THEN "remove" ELSE "recv")
  /\ UNCHANGED <<cm_vars, session_vars, req, nreq, wd_vars>>

-----------------------------------------------------------------------------
(* Leaving: recv fails or LOGOUT was answered; then remove, announce, and  *)
(* only then close.                                                        *)

\* Slips: a lost client skips the clean-up; one that never registered is
\* waited for again.
LostSkipsCleanup(c) ==
  /\ pc[c] = "recv"
  /\ peer[c] # "open"
  /\ peer' = [peer EXCEPT ![c] = IF @ = "reset" THEN "broken" ELSE @]
  /\ Goto(c, "close")
  /\ UNCHANGED <<cm_vars, server_up, session_vars, req, todo, nreq, wd_vars>>

LostIsAwaited(c) ==
  /\ pc[c] = "recv"
  /\ peer[c] # "open"
  /\ peer' = [peer EXCEPT ![c] = IF @ = "reset" THEN "broken" ELSE @]
  /\ Goto(c, IF Registered(c) THEN "remove" ELSE "recv")
  /\ UNCHANGED <<cm_vars, server_up, session_vars, req, todo, nreq, wd_vars>>

RecvFails(c) ==
  /\ pc[c] = "recv"
  /\ peer[c] # "open"
  /\ peer' = [peer EXCEPT ![c] = IF @ = "reset" THEN "broken" ELSE @]
  /\ Goto(c, IF Registered(c) THEN "remove" ELSE "close")
  /\ UNCHANGED <<cm_vars, server_up, session_vars, req, todo, nreq, wd_vars>>

\* The slot's username, which the announcement will carry, is kept in todo.
Remove(c) ==
  /\ pc[c] = "remove"
  /\ cm_remove_by_sockfd(sockfd[c])
  /\ \/ /\ SockSlots(sockfd[c]) = {}
        /\ Goto(c, "close")
        /\ UNCHANGED todo
     \/ \E i \in Slots :
          /\ First(i, SockSlots(sockfd[c]))
          /\ Goto(c, "announce")
          /\ todo' = [todo EXCEPT ![c].out =
                        make_packet("DISCONNECTED", "SERVER", "ALL",
                                    <<g_clients[i].username>>)]
  /\ UNCHANGED <<server_up, session_vars, req, nreq, peer, wd_vars>>

broadcast_disconnected(c) ==
  /\ pc[c] = "announce"
  /\ todo' = [todo EXCEPT ![c].to = cm_get_sockets_except(sockfd[c])]
  /\ Goto(c, "close")
  /\ UNCHANGED <<cm_vars, server_up, session_vars, req, nreq, peer, wd_vars>>

Close(c) ==
  /\ pc[c] = "close"
  /\ Pending(c) = {}
  /\ sockfd' = [sockfd EXCEPT ![c] = None]
  /\ todo' = [todo EXCEPT ![c] = Nothing]
  /\ Goto(c, "done")
  /\ UNCHANGED <<cm_vars, server_up, ip, username, req, nreq, peer, wd_vars>>

-----------------------------------------------------------------------------
(* inactivity_watchdog_thread.  sleep(2) may last any time.                *)

\* Slip: the clock is read once, before the loop.
ClockReadOnce ==
  /\ wd_pc = "awake"
  /\ wd_pc' = "mark"
  /\ UNCHANGED <<cm_vars, server_up, pc, session_vars, req, todo, nreq, peer, wd_now, wd_events>>

WdReadClock ==
  /\ wd_pc = "awake"
  /\ wd_now' = clock
  /\ wd_pc' = "mark"
  /\ UNCHANGED <<cm_vars, server_up, pc, session_vars, req, todo, nreq, peer, wd_events>>

WdMark ==
  /\ wd_pc = "mark"
  /\ cm_mark_inactive_clients(wd_now)
  /\ wd_events' = InactiveEvents(wd_now)
  /\ wd_now' = 0
  /\ wd_pc' = "send"
  /\ UNCHANGED <<server_up, pc, session_vars, req, todo, nreq, peer>>

Noticed == {i \in Slots : wd_events[i] # None}

Notice(i) ==
  make_packet("MSG", "SERVER", wd_events[i].username,
              <<"Tu status cambio a INACTIVE">>)

WdSend(i) ==
  /\ wd_pc = "send"
  /\ First(i, Noticed)
  /\ send_packet(wd_events[i].sockfd)
  /\ wd_events' = [wd_events EXCEPT ![i] = None]
  /\ UNCHANGED <<cm_vars, pc, session_vars, req, todo, nreq, wd_pc, wd_now>>

WdSleep ==
  /\ wd_pc = "send"
  /\ Noticed = {}
  /\ wd_pc' = "awake"
  /\ UNCHANGED <<cm_vars, server_up, pc, session_vars, req, todo, nreq, peer, wd_now, wd_events>>

-----------------------------------------------------------------------------
(* The environment.                                                        *)

\* The client closes its end or its host vanishes: an orderly close, or a
\* reset (unread data, a crash).
ClientClose(c) ==
  /\ pc[c] \notin {"new", "done"}
  /\ peer[c] = "open"
  /\ \E p \in {"closed", "reset"} : peer' = [peer EXCEPT ![c] = p]
  /\ UNCHANGED <<cm_vars, server_up, pc, session_vars, req, todo, nreq, wd_vars>>

ClockTicks ==
  /\ Tick
  /\ UNCHANGED <<server_up, pc, session_vars, req, todo, nreq, peer, wd_vars>>

-----------------------------------------------------------------------------
\* Steps of session c that write nothing to a socket.
SessionQuiet(c) ==
  \/ Broadcast(c) \/ Direct(c) \/ List(c) \/ Info(c) \/ SetStatus(c)
  \/ Logout(c) \/ Unsupported(c)
  \/ RecvFails(c) \/ Remove(c) \/ broadcast_disconnected(c) \/ Close(c)

\* Steps of c that depend on what its client or the network does.
Incoming(c) ==
  \/ \E addr \in IPs : Accept(c, addr)
  \/ AcceptFails(c)
  \/ \E r \in Requests :
       \/ RejectUnregistered(c, r) \/ RegisterFails(c, r) \/ Register(c, r)
       \/ ReceiveCommand(c, r)
  \/ ClientClose(c)

Quiet ==
  \/ \E c \in Conns : SessionQuiet(c) \/ Incoming(c)
  \/ WdReadClock \/ WdMark \/ WdSleep
  \/ ClockTicks

Sends ==
  \/ \E c \in Conns : Reply(c) \/ \E i \in Slots : FanOut(c, i)
  \/ \E i \in Slots : WdSend(i)

Next == server_up /\ (Quiet \/ Sends)

Spec == Init /\ [][Next]_vars

\* The scheduler runs every thread, the kernel reports the end of a
\* connection, and a send returns.  Clients owe nothing and the clock may stop.
SessionRuns(c) ==
  server_up /\ (SessionQuiet(c) \/ Reply(c) \/ \E i \in Slots : FanOut(c, i))

WatchdogRuns ==
  server_up /\ (WdReadClock \/ WdMark \/ WdSleep \/ \E i \in Slots : WdSend(i))

FairSpec ==
  /\ Spec
  /\ \A c \in Conns : WF_vars(SessionRuns(c))
  /\ WF_vars(WatchdogRuns)

-----------------------------------------------------------------------------
(* Properties.                                                             *)

\* Session c is entered in slot i.
Listed(c, i) ==
  /\ g_clients[i].active
  /\ g_clients[i].sockfd = sockfd[c]
  /\ g_clients[i].username = username[c]
  /\ g_clients[i].ip = ip[c]

Member(c) == Registered(c) /\ pc[c] \in {"recv", "dispatch", "send", "logout", "remove"}

\* The table and the threads agree: each registered session that has not
\* been removed has a slot with its descriptor, name and address; each slot
\* in use belongs to such a session, so no departed user lingers and no slot
\* holds a descriptor that is closed or now another connection's.
SlotsMatchSessions ==
  /\ \A c \in Conns : Member(c) => \E i \in Slots : Listed(c, i)
  /\ \A i \in ActiveSlots : \E c \in Conns : Member(c) /\ Listed(c, i)
  /\ \A c, d \in Conns : sockfd[c] = sockfd[d] /\ sockfd[c] # None => c = d

\* A user's status changes only by that user's own STATUS command or, to
\* INACTIVE, by the watchdog: never by the command of another session.
StatusOnlyByOwner ==
  [][\A i \in Slots :
       (/\ g_clients[i].active /\ g_clients[i]'.active
        /\ g_clients[i].status # g_clients[i]'.status)
       => \/ wd_pc = "mark" /\ g_clients[i]'.status = "INACTIVE"
          \/ \E c \in Conns : /\ g_clients[i].sockfd = sockfd[c]
                              /\ pc[c] = "dispatch"
                              /\ req[c] = [command |-> "STATUS",
                                           arg |-> g_clients[i]'.status]]_vars

\* The server keeps to the contract under which ClientManager is checked on
\* its own: its threads drive the table by the operations of CMNext only, and
\* a session never adds a descriptor that some slot still holds.
KeepsTableContract == CMSpec

\* net_utils.h: a send returns; losing a client never ends the process.
ServerStaysUp == server_up

\* A connection whose client is gone is removed from the table and closed,
\* unless the process ended.
DepartedLeaves ==
  \A c \in Conns : (peer[c] # "open") ~> (pc[c] = "done" \/ ~server_up)

\* A silent user does not stay ACTIVE or BUSY for ever: the watchdog marks it,
\* unless it speaks, leaves, or the process ends.
IdleNoticed ==
  \A i \in Slots : (i \in IdleSlots(clock)) ~> (i \notin IdleSlots(clock) \/ ~server_up)
==============================================================================
