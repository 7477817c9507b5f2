------------------------------- MODULE CliClient -------------------------------
(***************************************************************************)
(* The command-line clients of client/client.c and client/receiver.c, and  *)
(* the bytes between them and the server: common/net_utils.c over socket   *)
(* buffers that fill.                                                      *)
(*                                                                         *)
(* A client has a main thread, which reads lines and sends, and a receiver *)
(* thread, which prints.  The server has one session thread per client,    *)
(* which writes to the other clients' connections as well as to its own.   *)
(* Every send waits for room in a buffer, so threads of both sides wait    *)
(* for each other; a packet is the PACKET_SIZE bytes <<its kind, k>>.      *)
(*                                                                         *)
(* An action is one send or recv of some bytes, one critical section, or   *)
(* one other call.  The table of clients is the set of registered          *)
(* connections (ClientManager has it in full, ChatServer what descriptors  *)
(* become).  BROADCAST stands for every command: it writes to the others   *)
(* and is answered.  A line that is no command, or /help, changes nothing. *)
(* What lines are made of is left out.                                     *)
(***************************************************************************)
EXTENDS PacketBytes

CONSTANTS
  Conns, None,
  BUFFER,        \* bytes that the kernel holds between the two ends
  Lines          \* bound of the model: the commands that each user may type

Command == {"REGISTER", "BROADCAST", "LOGOUT"}

ASSUME CliAssumption ==
  /\ None \notin Conns
  /\ BUFFER \in Nat \ {0}
  /\ Lines \in [Conns -> Seq(Command \ {"REGISTER"})]

VARIABLES
  main, cmd, written,  \* the main thread; what it sends, and how much of it
  typed,               \* lines typed so far
  rx, pkt,             \* the receiver thread; what it has read of a packet
  fd, shut,            \* the client's descriptor is open; is shut down
  up, down,            \* bytes on their way to the server, to the client
  cend, srv,           \* an end as the other finds it: open; closed, or just
                       \* reset; broken (see ChatServer!send_packet)
  server_up,
  members,             \* the connections entered in the table
  session, req,        \* the session threads; what each has read of a packet
  to, at, sent,        \* whom it has still to write to, whom it is writing
                       \* to, and how much of the packet is written
  mixed                \* history: connections that two threads wrote at once

main_vars == <<main, cmd, written, typed>>
rx_vars == <<rx, pkt>>
fd_vars == <<fd, shut>>
server_vars == <<server_up, members, session, req, to, at, sent, mixed>>
cli_vars == <<main_vars, rx_vars, fd_vars, up, down, cend, srv, server_vars>>

CliTypeOK ==
  /\ main \in [Conns -> {"send", "start", "fgets", "shutdown", "join", "exited",
                         "killed"}]
  /\ cmd \in [Conns -> Command \cup {None}]
  /\ written \in [Conns -> 0 .. PACKET_SIZE - 1]
  /\ typed \in [Conns -> Nat] /\ \A c \in Conns : typed[c] <= Len(Lines[c])
  /\ rx \in [Conns -> {"none", "recv", "print", "ended"}]
  /\ fd \in [Conns -> BOOLEAN] /\ shut \in [Conns -> BOOLEAN]
  /\ up \in [Conns -> Seq(Byte(Command))] /\ down \in [Conns -> Seq(Byte(Conns))]
  /\ pkt \in [Conns -> Seq(Byte(Conns))] /\ req \in [Conns -> Seq(Byte(Command))]
  /\ \A c \in Conns : /\ Len(up[c]) <= BUFFER /\ Len(down[c]) <= BUFFER
                      /\ Len(pkt[c]) <= PACKET_SIZE /\ Len(req[c]) <= PACKET_SIZE
  /\ cend \in [Conns -> {"open", "closed", "broken"}]
  /\ srv \in [Conns -> {"open", "closed", "broken"}]
  /\ server_up \in BOOLEAN
  /\ members \subseteq Conns /\ mixed \subseteq Conns
  /\ session \in [Conns -> {"accept", "recv", "send", "logout", "remove",
                            "close", "done"}]
  /\ to \in [Conns -> SUBSET Conns]
  /\ at \in [Conns -> Conns \cup {None}]
  /\ sent \in [Conns -> 0 .. PACKET_SIZE - 1]

\* Every client has connected and is about to register.
CliInit ==
  /\ main = [c \in Conns |-> "send"] /\ cmd = [c \in Conns |-> "REGISTER"]
  /\ written = [c \in Conns |-> 0] /\ typed = [c \in Conns |-> 0]
  /\ rx = [c \in Conns |-> "none"] /\ pkt = [c \in Conns |-> <<>>]
  /\ fd = [c \in Conns |-> TRUE] /\ shut = [c \in Conns |-> FALSE]
  /\ up = [c \in Conns |-> <<>>] /\ down = [c \in Conns |-> <<>>]
  /\ cend = [c \in Conns |-> "open"] /\ srv = [c \in Conns |-> "open"]
  /\ server_up = TRUE /\ members = {} /\ mixed = {}
  /\ session = [c \in Conns |-> "accept"] /\ req = [c \in Conns |-> <<>>]
  /\ to = [c \in Conns |-> {}] /\ at = [c \in Conns |-> None]
  /\ sent = [c \in Conns |-> 0]

-----------------------------------------------------------------------------
(* send_all and recv_all: what one call may move.                          *)

\* The bytes i + 1 .. i + n of a packet, put behind those in the buffer.
Put(buffer, kind, i, n) == buffer \o SubSeq(Bytes(kind), i + 1, i + n)

\* How many bytes one send may take of a packet of which i are sent.
Takes(buffer, i) == {n \in 1 .. PACKET_SIZE - i : Len(buffer) + n <= BUFFER}

\* How many bytes one recv may add to a packet.
Gives(buffer, packet) ==
  {n \in 1 .. PACKET_SIZE - Len(packet) : n <= Len(buffer)}

\* Slips: a send that took some of the bytes is taken for the whole; the loop
\* stops only after the end.
Once(i, n) == 0
OneMore(i, n) == IF i + n > PACKET_SIZE THEN 0 ELSE i + n

\* The loop goes on until the packet is sent.
Progress(i, n) == IF i + n = PACKET_SIZE THEN 0 ELSE i + n

-----------------------------------------------------------------------------
(* client.c: the main thread.                                              *)

Main(c, l) == main' = [main EXCEPT ![c] = l]

\* After send_packet, whose result matters for the REGISTER only.
AfterSend(c) ==
  /\ Main(c, CASE cmd[c] = "REGISTER" -> "start"
               [] cmd[c] = "LOGOUT"   -> "shutdown"
               [] OTHER               -> "fgets")
  /\ cmd' = [cmd EXCEPT ![c] = None]

\* The process ends, its connection is closed, and what was unread is lost.
Exits(c, l) ==
  /\ Main(c, l)
  /\ cmd' = [cmd EXCEPT ![c] = None]
  /\ fd' = [fd EXCEPT ![c] = FALSE]
  /\ cend' = [cend EXCEPT ![c] = IF @ = "open" THEN "closed" ELSE @]
  /\ rx' = [rx EXCEPT ![c] = "ended"]
  /\ pkt' = [pkt EXCEPT ![c] = <<>>]
  /\ down' = [down EXCEPT ![c] = <<>>]

MainSends(c) ==
  /\ main[c] = "send" /\ srv[c] = "open"
  /\ \E n \in Takes(up[c], written[c]) :
       /\ up' = [up EXCEPT ![c] = Put(@, cmd[c], written[c], n)]
       /\ written' = [written EXCEPT ![c] = Progress(@, n)]
       /\ IF Progress(written[c], n) = 0 THEN AfterSend(c) ELSE UNCHANGED <<main, cmd>>
  /\ UNCHANGED <<typed, rx_vars, fd_vars, down, cend, srv, server_vars>>

\* The server closed its end: the bytes go in vain, or the call reports the
\* reset; only a REGISTER that fails is noticed.
MainSendsInVain(c) ==
  /\ main[c] = "send" /\ srv[c] = "closed"
  /\ \E p \in {"closed", "broken"} : srv' = [srv EXCEPT ![c] = p]
  /\ written' = [written EXCEPT ![c] = 0]
  /\ \/ AfterSend(c) /\ UNCHANGED <<fd, cend, rx_vars, down>>
     \/ cmd[c] = "REGISTER" /\ Exits(c, "exited")
  /\ UNCHANGED <<typed, shut, up, server_vars>>

\* send without MSG_NOSIGNAL on a broken connection: SIGPIPE ends the client.
MainKilled(c) ==
  /\ main[c] = "send" /\ srv[c] = "broken"
  /\ Exits(c, "killed")
  /\ UNCHANGED <<written, typed, shut, up, srv, server_vars>>

\* pthread_create of the receiver.
StartReceiver(c) ==
  /\ main[c] = "start"
  /\ \/ /\ Main(c, "fgets")
        /\ rx' = [rx EXCEPT ![c] = "recv"]
        /\ UNCHANGED <<cmd, fd, cend, pkt, down>>
     \/ Exits(c, "exited")
  /\ UNCHANGED <<written, typed, shut, up, srv, server_vars>>

\* The next command; after LOGOUT, which is /exit, no line is read.
UserTypes(c) ==
  /\ main[c] = "fgets" /\ typed[c] < Len(Lines[c])
  /\ LET line == Lines[c][typed[c] + 1]
     IN  /\ cmd' = [cmd EXCEPT ![c] = line]
         /\ typed' = [typed EXCEPT ![c] = IF line = "LOGOUT" THEN 0 ELSE @ + 1]
  /\ Main(c, "send")
  /\ UNCHANGED <<written, rx_vars, fd_vars, up, down, cend, srv, server_vars>>

EndOfInput(c) ==
  /\ main[c] = "fgets"
  /\ Main(c, "shutdown")
  /\ typed' = [typed EXCEPT ![c] = 0]
  /\ UNCHANGED <<cmd, written, rx_vars, fd_vars, up, down, cend, srv,
                 server_vars>>

\* Slip: the descriptor is closed, and nothing wakes the receiver.
CloseOnly(c) ==
  /\ main[c] = "shutdown"
  /\ Main(c, "join")
  /\ fd' = [fd EXCEPT ![c] = FALSE]
  /\ UNCHANGED <<cmd, written, typed, rx_vars, shut, up, down, cend, srv,
                 server_vars>>

\* shutdown(SHUT_RDWR), which ends the stream to the server and wakes the
\* receiver, and close.
Shutdown(c) ==
  /\ main[c] = "shutdown"
  /\ Main(c, "join")
  /\ shut' = [shut EXCEPT ![c] = TRUE]
  /\ fd' = [fd EXCEPT ![c] = FALSE]
  /\ cend' = [cend EXCEPT ![c] = IF @ = "open" THEN "closed" ELSE @]
  /\ UNCHANGED <<cmd, written, typed, rx_vars, up, down, srv, server_vars>>

Join(c) ==
  /\ main[c] = "join" /\ rx[c] = "ended"
  /\ Exits(c, "exited")
  /\ UNCHANGED <<written, typed, shut, up, srv, server_vars>>

-----------------------------------------------------------------------------
(* receiver.c.                                                             *)

\* Slip: one thread for both, which reads while it waits for a line.
RxBetweenLines(c) ==
  /\ rx[c] = "recv" /\ main[c] # "send"
  /\ \E n \in Gives(down[c], pkt[c]) :
       /\ pkt' = [pkt EXCEPT ![c] = @ \o SubSeq(down[c], 1, n)]
       /\ down' = [down EXCEPT ![c] = SubSeq(@, n + 1, Len(@))]
  /\ rx' = [rx EXCEPT ![c] = IF Len(pkt'[c]) = PACKET_SIZE THEN "print"
                             ELSE IF fd[c] THEN @ ELSE "ended"]
  /\ UNCHANGED <<main_vars, fd_vars, up, cend, srv, server_vars>>

\* A recv under way delivers what there is; the next one needs the descriptor.
RxReceives(c) ==
  /\ rx[c] = "recv"
  /\ \E n \in Gives(down[c], pkt[c]) :
       /\ pkt' = [pkt EXCEPT ![c] = @ \o SubSeq(down[c], 1, n)]
       /\ down' = [down EXCEPT ![c] = SubSeq(@, n + 1, Len(@))]
  /\ rx' = [rx EXCEPT ![c] = IF Len(pkt'[c]) = PACKET_SIZE THEN "print"
                             ELSE IF fd[c] THEN @ ELSE "ended"]
  /\ UNCHANGED <<main_vars, fd_vars, up, cend, srv, server_vars>>

RxPrints(c) ==
  /\ rx[c] = "print"
  /\ pkt' = [pkt EXCEPT ![c] = <<>>]
  /\ rx' = [rx EXCEPT ![c] = IF fd[c] THEN "recv" ELSE "ended"]
  /\ UNCHANGED <<main_vars, fd_vars, up, down, cend, srv, server_vars>>

\* The end of the stream: shut down by the main thread, or closed by the
\* server once no thread of it is still in a send.
RxEnds(c) ==
  /\ rx[c] = "recv" /\ down[c] = <<>>
  /\ shut[c] \/ (srv[c] # "open" /\ \A s \in Conns : at[s] # c)
  /\ rx' = [rx EXCEPT ![c] = "ended"]
  /\ pkt' = [pkt EXCEPT ![c] = <<>>]
  /\ UNCHANGED <<main_vars, fd_vars, up, down, cend, srv, server_vars>>

-----------------------------------------------------------------------------
(* server.c and session.c.                                                 *)

At(s, l) == session' = [session EXCEPT ![s] = l]

\* malloc or pthread_create may fail, and the connection is closed at once.
Accept(s) ==
  /\ session[s] = "accept"
  /\ \/ At(s, "recv") /\ UNCHANGED srv
     \/ At(s, "done") /\ srv' = [srv EXCEPT ![s] = "closed"]
  /\ UNCHANGED <<main_vars, rx_vars, fd_vars, up, down, cend, server_up,
                 members, req, to, at, sent, mixed>>

SessionReceives(s) ==
  /\ session[s] = "recv"
  /\ \E n \in Gives(up[s], req[s]) :
       /\ req' = [req EXCEPT ![s] = @ \o SubSeq(up[s], 1, n)]
       /\ up' = [up EXCEPT ![s] = SubSeq(@, n + 1, Len(@))]
  /\ UNCHANGED <<main_vars, rx_vars, fd_vars, down, cend, srv, server_up,
                 members, session, to, at, sent, mixed>>

RecvFails(s) ==
  /\ session[s] = "recv" /\ up[s] = <<>> /\ Len(req[s]) < PACKET_SIZE
  /\ cend[s] # "open"
  /\ \E p \in {cend[s], "broken"} : cend' = [cend EXCEPT ![s] = p]
  /\ req' = [req EXCEPT ![s] = <<>>]
  /\ At(s, IF s \in members THEN "remove" ELSE "close")
  /\ UNCHANGED <<main_vars, rx_vars, fd_vars, up, down, srv, server_up,
                 members, to, at, sent, mixed>>

\* A whole packet.  A REGISTER may be refused (a duplicate, a full table); a
\* client that is not registered is told so, whatever else it asks.
Handle(s) ==
  /\ session[s] = "recv" /\ Len(req[s]) = PACKET_SIZE
  /\ LET kind == req[s][1][1]
         known == s \in members
     IN  /\ members' \in IF kind = "REGISTER" /\ ~known
                           THEN {members, members \cup {s}} ELSE {members}
         /\ to' = [to EXCEPT ![s] = IF kind = "BROADCAST" /\ known
                                      THEN members \ {s} ELSE {}]
         /\ At(s, IF kind = "LOGOUT" /\ known THEN "logout" ELSE "send")
  /\ req' = [req EXCEPT ![s] = <<>>]
  /\ UNCHANGED <<main_vars, rx_vars, fd_vars, up, down, cend, srv, server_up,
                 at, sent, mixed>>

\* Whom session s writes to next: the others, in any order, then its own client.
Targets(s) ==
  IF at[s] # None THEN {at[s]}
  ELSE IF to[s] # {} THEN to[s]
  ELSE IF session[s] \in {"send", "logout"} THEN {s} ELSE {}

Writes(s, d) == session[s] \in {"send", "logout", "close"} /\ d \in Targets(s)

\* send_packet to d has returned.
Written(s, d) ==
  /\ at' = [at EXCEPT ![s] = None]
  /\ sent' = [sent EXCEPT ![s] = 0]
  /\ to' = [to EXCEPT ![s] = @ \ {d}]
  /\ session' = [session EXCEPT ![s] =
                   IF d # s THEN @ ELSE IF @ = "logout" THEN "remove" ELSE "recv"]

\* A send under way outlives the close of the descriptor by another session.
SessionSends(s, d) ==
  /\ Writes(s, d)
  /\ cend[d] = "open" /\ (srv[d] = "open" \/ at[s] = d)
  /\ \E n \in Takes(down[d], sent[s]) :
       /\ down' = [down EXCEPT ![d] = Put(@, s, sent[s], n)]
       /\ IF Progress(sent[s], n) = 0
            THEN Written(s, d)
            ELSE /\ at' = [at EXCEPT ![s] = d]
                 /\ sent' = [sent EXCEPT ![s] = Progress(@, n)]
                 /\ UNCHANGED <<to, session>>
  /\ mixed' = IF \E o \in Conns \ {s} : at[o] = d THEN mixed \cup {d} ELSE mixed
  /\ UNCHANGED <<main_vars, rx_vars, fd_vars, up, cend, srv, server_up, members, req>>

\* To a closed descriptor (EBADF), or to a client that has gone.
SessionSendsInVain(s, d) ==
  /\ Writes(s, d)
  /\ \/ srv[d] # "open" /\ at[s] # d /\ UNCHANGED cend
     \/ srv[d] = "open" /\ cend[d] = "closed" /\
          \E p \in {"closed", "broken"} : cend' = [cend EXCEPT ![d] = p]
     \/ srv[d] # "open" /\ at[s] = d /\ cend[d] # "open" /\ UNCHANGED cend
  /\ Written(s, d)
  /\ UNCHANGED <<main_vars, rx_vars, fd_vars, up, down, srv, server_up, members,
                 req, mixed>>

\* SIGPIPE ends the server, and every connection.
ServerKilled(s, d) ==
  /\ Writes(s, d)
  /\ srv[d] = "open" /\ cend[d] = "broken"
  /\ server_up' = FALSE /\ members' = {}
  /\ session' = [c \in Conns |-> "done"] /\ req' = [c \in Conns |-> <<>>]
  /\ to' = [c \in Conns |-> {}] /\ at' = [c \in Conns |-> None]
  /\ sent' = [c \in Conns |-> 0]
  /\ srv' = [c \in Conns |-> IF srv[c] = "open" THEN "closed" ELSE srv[c]]
  /\ up' = [c \in Conns |-> <<>>]
  /\ UNCHANGED <<main_vars, rx_vars, fd_vars, down, cend, mixed>>

\* The session leaves the table and lists whom to announce that to.
Remove(s) ==
  /\ session[s] = "remove"
  /\ members' = members \ {s}
  /\ to' = [to EXCEPT ![s] = members \ {s}]
  /\ At(s, "close")
  /\ UNCHANGED <<main_vars, rx_vars, fd_vars, up, down, cend, srv, server_up,
                 req, at, sent, mixed>>

Close(s) ==
  /\ session[s] = "close" /\ Targets(s) = {}
  /\ srv' = [srv EXCEPT ![s] = "closed"]
  /\ up' = [up EXCEPT ![s] = <<>>]
  /\ At(s, "done")
  /\ UNCHANGED <<main_vars, rx_vars, fd_vars, down, cend, server_up,
                 members, req, to, at, sent, mixed>>

-----------------------------------------------------------------------------
MainRuns(c) ==
  \/ MainSends(c) \/ MainSendsInVain(c) \/ MainKilled(c)
  \/ StartReceiver(c) \/ Shutdown(c) \/ Join(c)

ReceiverRuns(c) == RxReceives(c) \/ RxPrints(c) \/ RxEnds(c)

SessionRuns(s) ==
  /\ server_up
  /\ \/ Accept(s) \/ SessionReceives(s) \/ RecvFails(s) \/ Handle(s)
     \/ Remove(s) \/ Close(s)
     \/ \E d \in Conns : \/ SessionSends(s, d) \/ SessionSendsInVain(s, d)
                         \/ ServerKilled(s, d)

CliNext ==
  \E c \in Conns : \/ MainRuns(c) \/ UserTypes(c) \/ EndOfInput(c)
                   \/ ReceiverRuns(c) \/ SessionRuns(c)

CliSpec == CliInit /\ [][CliNext]_cli_vars

\* The scheduler runs every thread that is not waiting, and a terminal takes
\* what a receiver prints.  Users owe nothing.
FairCli ==
  /\ CliSpec
  /\ \A c \in Conns : /\ WF_cli_vars(MainRuns(c))
                      /\ WF_cli_vars(ReceiverRuns(c))
                      /\ WF_cli_vars(SessionRuns(c))

-----------------------------------------------------------------------------
(* Properties.                                                             *)

Whole(packet) == \E kind \in Command \cup Conns : packet = Bytes(kind)

\* However the kernel splits sends and receives, a packet that was read is a
\* packet that was sent, except on a connection that two sessions have written
\* to at once: send_all takes no lock (net_utils.c:11-20, 29-38).
PacketsWhole ==
  \A c \in Conns :
    /\ Len(req[c]) = PACKET_SIZE => Whole(req[c])
    /\ Len(pkt[c]) = PACKET_SIZE /\ c \notin mixed => Whole(pkt[c])

\* Sessions wait for room in each other's connections, and never in a circle:
\* every command is carried through, every departure announced and closed,
\* because each client has a thread that does nothing but read (receiver.c).
NoGridlock ==
  \A s \in Conns :
    (session[s] \notin {"accept", "recv", "done"})
      ~> (session[s] \in {"recv", "done"})

Leaving(c) == main[c] \in {"shutdown", "join"} \/ (main[c] = "send" /\ cmd[c] = "LOGOUT")

\* Whoever types /exit, or ends the input without it, gets the prompt of the
\* shell back: the LOGOUT is not stuck in a full buffer, and the receiver does
\* end, whatever the server does (client.c:180-182).
ExitReturns == \A c \in Conns : Leaving(c) ~> (main[c] \in {"exited", "killed"})
==============================================================================
