------------------------------- MODULE WebClient -------------------------------
(***************************************************************************)
(* The page of client/web/src/App.jsx and the GatewayClient objects of     *)
(* lib/gatewayClient.js that it makes, one per login.                      *)
(*                                                                         *)
(* An action is one event handler: React renders between two events, so a  *)
(* handler of the form sees the latest state; but the handlers that        *)
(* wireGateway gives to a GatewayClient are closures over the render in    *)
(* which the user pressed Entrar, and keep its selfName (self[g]) and      *)
(* usernameInput (asked[g]) for ever.  A WebSocket delivers in order, and  *)
(* nothing but its close event once the page has closed it.                *)
(*                                                                         *)
(* Gateway and session thread are one actor per WebSocket, which takes its *)
(* requests in order (server.js, session.c, in modules of their own): it   *)
(* reads or changes the table under the mutex, and sends its answer later. *)
(* The watchdog marks a user and warns later too, and other users come and *)
(* go.  So the table, the answers and the warning can cross.               *)
(*                                                                         *)
(* Abstracted: the host's address and port are filled in, and what is in   *)
(* the input matters when it is submitted; notices, times, other users'    *)
(* statuses, the chat on display and the texts sent are left out; of a     *)
(* system text, the status words it contains are kept.                     *)
(***************************************************************************)
EXTENDS Naturals, Sequences, SequencesExt, FiniteSets

CONSTANTS
  Names, None,
  Clients,     \* GatewayClient objects, each with a WebSocket of its own
  Words,       \* the status words in the capitals of a name
  Chatter,     \* what is said in this instance, by the user and by others
  Picks,       \* the statuses that the user chooses in this instance
  Hosts, Home, \* addresses that users come from; the gateway's own
  MAX_FLIGHT   \* bound of the model: requests and events of a WebSocket

Status == {"ACTIVE", "BUSY", "INACTIVE"}
StatusWords == {{}, {"ACTIVE"}, {"ACTIVE", "INACTIVE"}}

Request == [command : {"register", "info"}, arg : Names]
             \cup [command : {"list", "chat", "logout"}, arg : {None}]
             \cup [command : {"status"}, arg : Status]
Ask(command, arg) == [command |-> command, arg |-> arg]

Event == [type : {"connected"}, username : Names]
  \cup [type : {"error"}, ip_taken : BOOLEAN]
  \cup [type : {"user_list"}, users : SUBSET Names]
  \cup [type : {"user_info"}, username : Names, ip : Hosts, status : Status]
  \cup [type : {"status_changed"}, status : Status]
  \cup [type : {"message"}, scope : {"system"}, words : StatusWords]
  \cup [type : {"message"}, scope : {"broadcast", "direct"}, from : Names, target : Names \cup {None}]

ASSUME WebAssumption ==
  /\ None \notin Names \cup Clients \cup Hosts \cup Event
  /\ Home \in Hosts
  /\ IsFiniteSet(Names)
  /\ Words \in [Names -> StatusWords]
  /\ Chatter \subseteq {"chat", "broadcast", "direct", "leave", "idle"}
  /\ Picks \subseteq Status
  /\ MAX_FLIGHT \in Nat

VARIABLES
  username, connected, connectionState, status,
  users,         \* the listed users, each with the address shown
  gatewayRef,
  filed,         \* history: where another user's last message was shown
  sock,          \* none, connecting, open, closing, closed: ws.readyState
  self, asked,   \* what the closures of a client have captured
  out, events,   \* requests on their way to the server, events on their way back
  link,          \* up until the gateway has closed or the network failed
  account,       \* the name that the server has for a WebSocket
  srv_status,    \* and its status
  where,         \* the address that the server has for a user
  answer,        \* what the session thread has still to send
  warning,       \* whom the watchdog has marked INACTIVE and has still to warn
  refused,       \* the targets that the gateway still holds of refused INFOs
  rejected,      \* history: the REGISTER was refused, not for its address
  late,          \* history: the status told last was the server's no longer
  moved          \* history: who came or went since the server was last asked

shown_vars  == <<connected, connectionState>>
page_vars   == <<username, shown_vars, status, users, gatewayRef, filed>>
client_vars == <<sock, self, asked>>
table_vars  == <<account, srv_status, where, moved>>
server_vars == <<link, table_vars, answer, warning, refused, rejected, late>>
web_vars == <<page_vars, client_vars, out, events, server_vars>>

\* Every variable is of its kind, and the form is shown exactly while the
\* pill says something else than online: App.jsx keeps the two apart.
WebTypeOK ==
  /\ username \in Names \cup {None}
  /\ connectionState \in {"offline", "connecting", "online"}
  /\ connected = (connectionState = "online")
  /\ status \in Status
  /\ users \in UNION {[U -> Hosts \cup {None}] : U \in SUBSET Names}
  /\ gatewayRef \in Clients \cup {None}
  /\ filed \in Names \cup {None, "general", "nowhere"}
  /\ sock \in [Clients -> {"none", "connecting", "open", "closing", "closed"}]
  /\ self \in [Clients -> Names \cup {None}] /\ asked \in [Clients -> Names \cup {None}]
  /\ out \in [Clients -> Seq(Request)] /\ events \in [Clients -> Seq(Event)]
  /\ link \in [Clients -> {"up", "down"}]
  /\ account \in [Clients -> Names \cup {None}]
  /\ srv_status \in [Clients -> Status]
  /\ where \in [Names -> Hosts \cup {None}]
  /\ answer \in [Clients -> Event \cup {None}]
  /\ warning \in Clients \cup {None}
  /\ refused \in [Clients -> Seq(Names)]
  /\ rejected \in [Clients -> BOOLEAN] /\ late \in [Clients -> BOOLEAN]
  /\ moved \in [Clients -> SUBSET Names]

WebInit ==
  /\ username = None
  /\ connected = FALSE /\ connectionState = "offline" /\ status = "ACTIVE"
  /\ users = [n \in {} |-> None] /\ gatewayRef = None /\ filed = None
  /\ sock = [g \in Clients |-> "none"]
  /\ self = [g \in Clients |-> None] /\ asked = [g \in Clients |-> None]
  /\ out = [g \in Clients |-> <<>>] /\ events = [g \in Clients |-> <<>>]
  /\ link = [g \in Clients |-> "up"]
  /\ account = [g \in Clients |-> None]
  /\ srv_status = [g \in Clients |-> "ACTIVE"]
  /\ where = [n \in Names |-> None]
  /\ answer = [g \in Clients |-> None] /\ warning = None
  /\ refused = [g \in Clients |-> <<>>]
  /\ rejected = [g \in Clients |-> FALSE] /\ late = [g \in Clients |-> FALSE]
  /\ moved = [g \in Clients |-> {}]

selfName(usernameInput) == IF username # None THEN username ELSE usernameInput

\* Slip: the page is online until it is told otherwise by another handler.
PillOnly(state) ==
  connectionState' = state /\ connected' = (connected \/ state = "online")

Pill(state) == connectionState' = state /\ connected' = (state = "online")

-----------------------------------------------------------------------------
(* GatewayClient.                                                          *)

\* sock after close(), which does nothing to a socket that is closing.
Closed(g) == IF g # None /\ sock[g] \in {"connecting", "open"}
               THEN [sock EXCEPT ![g] = "closing"] ELSE sock

\* send(), which throws unless the socket is open.  What is sent when the
\* other end is gone is lost.
Sent(g, requests) ==
  IF sock[g] = "open" /\ link[g] = "up"
    THEN [out EXCEPT ![g] = @ \o requests] ELSE out

\* The events of the sockets that are no longer open are dropped.
Heard(sent) == [g \in Clients |-> IF sock'[g] = "open" THEN sent[g] ELSE <<>>]

Roomy(g) == Len(out[g]) + Len(events[g]) < MAX_FLIGHT

Unmade == {g \in Clients : sock[g] = "none"}

-----------------------------------------------------------------------------
(* The user.                                                               *)

\* The button Entrar is disabled while connecting.
handleConnect(g, usernameInput) ==
  /\ ~connected /\ connectionState # "connecting"
  /\ Unmade # {} /\ g = CHOOSE h \in Unmade : TRUE
  /\ Pill("connecting")
  /\ sock' = [Closed(gatewayRef) EXCEPT ![g] = "connecting"]
  /\ events' = Heard(events)
  /\ gatewayRef' = g
  /\ self' = [self EXCEPT ![g] = selfName(usernameInput)]
  /\ asked' = [asked EXCEPT ![g] = usernameInput]
  /\ UNCHANGED <<username, status, users, filed, out, server_vars>>

\* The status is shown before it is sent, and stays if send throws.
handleStatusChange(s) ==
  /\ connected /\ Roomy(gatewayRef)
  /\ status' = s
  /\ out' = Sent(gatewayRef, <<Ask("status", s)>>)
  /\ UNCHANGED <<username, shown_vars, users, gatewayRef, filed, client_vars,
                 events, server_vars>>

UserSends(command) ==
  /\ connected /\ Roomy(gatewayRef)
  /\ out' = Sent(gatewayRef, <<Ask(command, None)>>)
  /\ UNCHANGED <<page_vars, client_vars, events, server_vars>>

refreshUsers == UserSends("list")
handleSend   == UserSends("chat")

\* What logging out leaves to do, the socket apart.
Leaves ==
  /\ connected
  /\ out' = Sent(gatewayRef, <<Ask("logout", None)>>)
  /\ events' = Heard(events)
  /\ gatewayRef' = None
  /\ Pill("offline")
  /\ username' = None
  /\ UNCHANGED <<status, users, filed, self, asked, server_vars>>

\* Slip: closing the socket is left to the gateway, which will close it.
LogoutOnly == UNCHANGED sock /\ Leaves

disconnect == sock' = Closed(gatewayRef) /\ Leaves

-----------------------------------------------------------------------------
(* The handlers that wireGateway gives to client g.                        *)

\* Slip: the register is left to the user.
OpenOnly(g) ==
  /\ sock[g] = "connecting"
  /\ sock' = [sock EXCEPT ![g] = "open"]
  /\ Pill("connecting")
  /\ UNCHANGED <<username, status, users, gatewayRef, filed, self, asked,
                 out, events, server_vars>>

OnOpen(g) ==
  /\ sock[g] = "connecting"
  /\ sock' = [sock EXCEPT ![g] = "open"]
  /\ Pill("connecting")
  /\ out' = [out EXCEPT ![g] = <<Ask("register", asked[g])>>]
  /\ UNCHANGED <<username, status, users, gatewayRef, filed, self, asked,
                 events, server_vars>>

\* The end of g and of its closures, which nothing will call again: the page
\* has closed it, it does not open, or the other end is gone; in that case what
\* has not been handled by now was lost.
Ends(g) ==
  /\ \/ sock[g] \in {"connecting", "closing"}
     \/ sock[g] = "open" /\ link[g] = "down"
  /\ sock' = [sock EXCEPT ![g] = "closed"]
  /\ events' = Heard(events)
  /\ self' = [self EXCEPT ![g] = None] /\ asked' = [asked EXCEPT ![g] = None]
  /\ UNCHANGED <<username, status, users, gatewayRef, filed, out, server_vars>>

\* Slip: a close is believed to be an old client's while the page is online.
CloseUnlessOnline(g) ==
  Ends(g) /\ IF connected THEN UNCHANGED shown_vars ELSE Pill("offline")

\* Whichever client ends, the page goes offline.
OnClose(g) == Ends(g) /\ Pill("offline")

\* Slip: INACTIVE contains ACTIVE.
ActiveFirst(words) ==
  IF "ACTIVE" \in words THEN "ACTIVE"
  ELSE IF "INACTIVE" \in words THEN "INACTIVE" ELSE status

StatusIn(words) ==
  IF "INACTIVE" \in words THEN "INACTIVE"
  ELSE IF "ACTIVE" \in words THEN "ACTIVE" ELSE status

\* Slip: an address once shown is kept.
FirstAddress(n, ip) ==
  [m \in DOMAIN users |-> IF m = n /\ users[m] = None THEN ip ELSE users[m]]

WithAddress(n, ip) ==
  [m \in DOMAIN users |-> IF m = n THEN ip ELSE users[m]]

\* The chat where a message is shown, by the client that believes to be me.
Chat(e, me) ==
  IF e.scope = "broadcast" THEN IF e.from = me THEN "nowhere" ELSE "general"
  ELSE IF e.from = me THEN e.target ELSE e.from

AskAbout(U) == [i \in 1 .. Cardinality(U) |-> Ask("info", SetToSeq(U)[i])]

Handle(g, e) ==
  \/ /\ e.type = "connected"
     /\ username' = e.username
     /\ status' = "ACTIVE"
     /\ Pill("online")
     /\ out' = Sent(g, <<Ask("list", None)>>)
     /\ UNCHANGED <<users, gatewayRef, filed, sock>>
  \/ /\ e.type = "error" /\ e.ip_taken
     /\ Pill("offline")
     /\ users' = [n \in {} |-> None]
     /\ sock' = Closed(gatewayRef)
     /\ gatewayRef' = None
     /\ UNCHANGED <<username, status, filed, out>>
  \/ /\ e.type = "error" /\ ~e.ip_taken
     /\ UNCHANGED <<username, shown_vars, status, users, gatewayRef, filed, out, sock>>
  \/ /\ e.type = "user_list"
     /\ users' = [n \in e.users |-> IF n \in DOMAIN users THEN users[n] ELSE None]
     /\ out' = Sent(g, AskAbout(e.users))
     /\ UNCHANGED <<username, shown_vars, status, gatewayRef, filed, sock>>
  \/ /\ e.type = "user_info"
     /\ users' = WithAddress(e.username, e.ip)
     /\ status' = IF e.username = self[g] THEN e.status ELSE status
     /\ UNCHANGED <<username, shown_vars, gatewayRef, filed, out, sock>>
  \/ /\ e.type = "status_changed"
     /\ status' = e.status
     /\ UNCHANGED <<username, shown_vars, users, gatewayRef, filed, out, sock>>
  \/ /\ e.type = "message" /\ e.scope = "system"
     /\ status' = StatusIn(e.words)
     /\ UNCHANGED <<username, shown_vars, users, gatewayRef, filed, out, sock>>
  \/ /\ e.type = "message" /\ e.scope # "system"
     /\ filed' = Chat(e, self[g])
     /\ UNCHANGED <<username, shown_vars, status, users, gatewayRef, out, sock>>

OnMessage(g) ==
  /\ sock[g] = "open" /\ events[g] # <<>>
  /\ Handle(g, Head(events[g]))
  /\ events' = Heard([events EXCEPT ![g] = Tail(@)])
  /\ UNCHANGED <<self, asked, server_vars>>

-----------------------------------------------------------------------------
(* The gateway and the session threads of the server.                      *)

\* Nothing reaches a page that has closed the socket.
Emits(g, e) ==
  events' = [events EXCEPT ![g] = IF sock[g] = "open" THEN Append(@, e) ELSE @]

\* The statuses that e tells the user of g to have: one, or none.
OwnStatus(g, e) ==
  IF e.type = "connected" THEN {"ACTIVE"}
  ELSE IF e.type = "status_changed" \/ (e.type = "user_info" /\ e.username = account[g])
  THEN {e.status} ELSE {}

\* e is sent to g, and says that its user's status is one of told.
Tells(g, e, told) ==
  /\ Emits(g, e)
  /\ late' = [late EXCEPT ![g] = IF told = {} THEN @ ELSE srv_status[g] \notin told]

Holds(g, e) == answer' = [answer EXCEPT ![g] = e]

\* n comes or goes, as those who have asked about it do not know yet.
Stirs(n) ==
  moved' = [g \in Clients |-> IF account'[g] = None THEN {} ELSE (moved[g] \cup {n}) \ {None}]

\* One address, one account.  Refusals need no reason here: the table may be
\* full, the host unreachable, or a user that has gone not yet forgotten.
AnswerRegister(g, n) ==
  \/ /\ where[n] = None /\ \A m \in Names : where[m] # Home
     /\ account' = [account EXCEPT ![g] = n]
     /\ srv_status' = [srv_status EXCEPT ![g] = "ACTIVE"]
     /\ where' = [where EXCEPT ![n] = Home]
     /\ Stirs(n)
     /\ Holds(g, [type |-> "connected", username |-> n])
     /\ UNCHANGED <<refused, rejected>>
  \/ \E ip_taken \in BOOLEAN :
       /\ Holds(g, [type |-> "error", ip_taken |-> ip_taken])
       /\ rejected' = [rejected EXCEPT ![g] = ~ip_taken]
       /\ UNCHANGED <<table_vars, refused>>

AnswerList(g) ==
  /\ Holds(g, [type |-> "user_list", users |-> {n \in Names : where[n] # None}])
  /\ moved' = [moved EXCEPT ![g] = {}]
  /\ UNCHANGED <<account, srv_status, where, refused, rejected>>

\* A refused INFO leaves its target in the gateway's queue, where it is the
\* label of a later answer.  The others are BUSY.
AnswerInfo(g, n) ==
  LET queue == Append(refused[g], n)
  IN  /\ \/ /\ where[n] # None
            /\ Holds(g, [type |-> "user_info", username |-> Head(queue), ip |-> where[n],
                         status |-> IF n = account[g] THEN srv_status[g] ELSE "BUSY"])
            /\ refused' = [refused EXCEPT ![g] = Tail(queue)]
            /\ moved' = [moved EXCEPT ![g] = @ \ {n}]
         \/ /\ where[n] = None /\ Len(refused[g]) < MAX_FLIGHT
            /\ Holds(g, [type |-> "error", ip_taken |-> FALSE])
            /\ refused' = [refused EXCEPT ![g] = queue]
            /\ UNCHANGED moved
      /\ UNCHANGED <<account, srv_status, where, rejected>>

AnswerStatus(g, s) ==
  /\ srv_status' = [srv_status EXCEPT ![g] = s]
  /\ Holds(g, [type |-> "status_changed", status |-> s])
  /\ UNCHANGED <<account, where, moved, refused, rejected>>

AnswerChat(g) ==
  /\ Holds(g, [type |-> "message", scope |-> "system", words |-> {}])
  /\ UNCHANGED <<table_vars, refused, rejected>>

\* The session thread takes the next request when it has sent its answer.
Answer(g) ==
  /\ link[g] = "up" /\ answer[g] = None /\ out[g] # <<>>
  /\ out' = [out EXCEPT ![g] = Tail(@)]
  /\ LET r == Head(out[g])
     IN \/ r.command = "register" /\ AnswerRegister(g, r.arg)
        \/ r.command = "list"     /\ AnswerList(g)
        \/ r.command = "info"     /\ AnswerInfo(g, r.arg)
        \/ r.command = "status"   /\ AnswerStatus(g, r.arg)
        \/ r.command = "chat"     /\ AnswerChat(g)
  /\ UNCHANGED <<page_vars, client_vars, events, link, warning, late>>

Reply(g) ==
  /\ answer[g] # None
  /\ Tells(g, answer[g], OwnStatus(g, answer[g]))
  /\ Holds(g, None)
  /\ UNCHANGED <<page_vars, client_vars, out, link, table_vars, warning, refused, rejected>>

\* The end of the connection of g: server and gateway forget its user.
Forgets(g) ==
  /\ link' = [link EXCEPT ![g] = "down"]
  /\ account' = [account EXCEPT ![g] = None]
  /\ srv_status' = [srv_status EXCEPT ![g] = "ACTIVE"]
  /\ where' = [n \in Names |-> IF n = account[g] THEN None ELSE where[n]]
  /\ Stirs(account[g])
  /\ Holds(g, None)
  /\ refused' = [refused EXCEPT ![g] = <<>>]
  /\ rejected' = [rejected EXCEPT ![g] = FALSE]
  /\ late' = [late EXCEPT ![g] = FALSE]
  /\ UNCHANGED <<page_vars, client_vars, events, warning>>

\* closeTcp, and the close event of the connection closes the WebSocket.
Logout(g) ==
  /\ link[g] = "up" /\ answer[g] = None
  /\ out[g] # <<>> /\ Head(out[g]).command = "logout"
  /\ out' = [out EXCEPT ![g] = Tail(@)]
  /\ Forgets(g)

\* The connection is lost, or the gateway has seen the page close it.
Cut(g) ==
  /\ link[g] = "up"
  /\ sock[g] \in {"open", "closing"} \/ account[g] # None \/ out[g] # <<>>
  /\ out' = [out EXCEPT ![g] = <<>>]
  /\ Forgets(g)

-----------------------------------------------------------------------------
(* The watchdog, and the other users.                                      *)

\* The watchdog marks all it finds idle, then warns them one by one.
Mark(g) ==
  /\ "idle" \in Chatter /\ warning = None
  /\ account[g] # None /\ srv_status[g] # "INACTIVE"
  /\ srv_status' = [srv_status EXCEPT ![g] = "INACTIVE"]
  /\ warning' = g
  /\ UNCHANGED <<page_vars, client_vars, out, events, link, account, where, moved,
                 answer, refused, rejected, late>>

\* The warning goes to a descriptor: if it has been closed since, to nobody,
\* or to whoever was given the same number.
Warn ==
  /\ warning # None
  /\ warning' = None
  /\ \/ \E g \in Clients :
          /\ link[g] = "up" /\ (g = warning \/ (link[warning] = "down" /\ sock[g] = "open"))
          /\ Tells(g, [type |-> "message", scope |-> "system", words |-> {"ACTIVE", "INACTIVE"}],
                   {"INACTIVE"})
     \/ link[warning] = "down" /\ UNCHANGED <<events, late>>
  /\ UNCHANGED <<page_vars, client_vars, out, link, table_vars, answer, refused, rejected>>

\* What g is told without asking: other users talk, and are announced as gone.
Others(g) ==
  /\ link[g] = "up" /\ account[g] # None /\ Roomy(g)
  /\ \/ \E n \in Names \ {account[g]}, scope \in {"broadcast", "direct"} \cap Chatter :
          Emits(g, [type |-> "message", scope |-> scope, from |-> n,
                    target |-> IF scope = "direct" THEN account[g] ELSE None])
     \/ \E n \in Names \ {account[g]} :
          /\ "leave" \in Chatter
          /\ Emits(g, [type |-> "message", scope |-> "system", words |-> Words[n]])
  /\ UNCHANGED <<page_vars, client_vars, out, server_vars>>

\* A user who is none of this page's registers, or leaves.
Comes(n) ==
  /\ where[n] = None
  /\ \E a \in Hosts : /\ \A m \in Names : where[m] # a
                      /\ where' = [where EXCEPT ![n] = a]
  /\ UNCHANGED <<page_vars, client_vars, out, events, link, account, srv_status, answer,
                 warning, refused, rejected, late>>
  /\ Stirs(n)

Goes(n) ==
  /\ where[n] # None /\ \A g \in Clients : account[g] # n
  /\ where' = [where EXCEPT ![n] = None]
  /\ UNCHANGED <<page_vars, client_vars, out, events, link, account, srv_status, answer,
                 warning, refused, rejected, late>>
  /\ Stirs(n)

-----------------------------------------------------------------------------
User ==
  \/ \E g \in Clients, n \in Names : handleConnect(g, n)
  \/ \E s \in Picks : handleStatusChange(s)
  \/ refreshUsers \/ disconnect
  \/ "chat" \in Chatter /\ handleSend

Browser(g) == OnOpen(g) \/ OnMessage(g) \/ OnClose(g)

WebNext ==
  \/ User
  \/ \E g \in Clients : \/ Browser(g) \/ Answer(g) \/ Reply(g) \/ Logout(g)
                        \/ Cut(g) \/ Mark(g) \/ Others(g)
  \/ Warn
  \/ \E n \in Names : Comes(n) \/ Goes(n)

WebSpec == WebInit /\ [][WebNext]_web_vars

\* The browser delivers what has arrived, gives up on a socket that does not
\* open or close, and the server answers.  The user owes nothing.
FairWeb ==
  /\ WebSpec
  /\ \A g \in Clients : /\ WF_web_vars(Browser(g))
                        /\ WF_web_vars(Answer(g) \/ Logout(g))
                        /\ WF_web_vars(Reply(g))

-----------------------------------------------------------------------------
(* What the page promises.                                                 *)

\* However the user logs out and in again, and however late the close of an
\* old client comes, only the page's current client can still open or
\* deliver anything (App.jsx:211, 239, 318).
OneLiveClient ==
  \A g \in Clients : sock[g] \in {"connecting", "open"} => g = gatewayRef

\* A page that says online has a current client whose register succeeded, has
\* not ended, and was for the name that the page shows.
OnlineIsReal ==
  connected => /\ gatewayRef # None
               /\ sock[gatewayRef] = "open"
               /\ username = asked[gatewayRef]

\* Nothing is on its way for the page's current client, either way.
Quiet(g) ==
  /\ sock[g] = "open" /\ link[g] = "up"
  /\ out[g] = <<>> /\ answer[g] = None /\ events[g] = <<>> /\ warning # g

NoNameSpellsAStatus == \A n \in Names : Words[n] = {}

\* The page, which shows a status before the server has it, and takes it from
\* confirmations, answers to INFO and words found in texts (App.jsx:135-139,
\* 184, 201, 288), ends with the one it was told last: wrong only if that was
\* out of date when sent.  It takes names that contain no status word, closures
\* made for the registered name, and no INFO refused before, whose target would
\* be the label of a later answer.
StatusSettles ==
  (/\ NoNameSpellsAStatus /\ connected /\ Quiet(gatewayRef)
   /\ self[gatewayRef] = username
   /\ refused[gatewayRef] = <<>> /\ ~ late[gatewayRef])
    => status = srv_status[gatewayRef]

\* A page to which nothing is on its way shows each listed user's address, or
\* that of somebody who came or went since the list was last asked for: what is
\* kept over lists, logouts and logins is asked for again (App.jsx:122, 160-176,
\* 187-197).  It takes that no INFO was refused before.
AddressesSettle ==
  (connected /\ Quiet(gatewayRef) /\ refused[gatewayRef] = <<>>)
    => \A n \in DOMAIN users \ moved[gatewayRef] : users[n] = where[n]

\* App.jsx:142: only the user's own broadcasts are kept out of the general
\* chat; what another user says to everybody is shown.
OthersAreShown == filed # "nowhere"

\* Whoever presses Entrar gets an answer: online, offline, or a refusal that
\* has reached the page's gateway (which the page only notes, App.jsx:215).
LoginSettles ==
  \A g \in Clients :
    (connectionState = "connecting" /\ gatewayRef = g)
      ~> (connectionState # "connecting" \/ gatewayRef # g \/ rejected[g])
=============================================================================
