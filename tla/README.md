# Verification of the CC3064 chat

TLA+ models of the chat system of this repository, TLC configurations that
check them on small instances, and theorems checked by TLAPS: every safety
property that the passing runs check is also proved, for every value of the
constants. Every definition is translated from the source; `PROJECT.json`
("map") says from which lines.

## 1. The system

A chat server in C (one thread per connection, one watchdog thread, one table
of clients under a mutex), a command-line client in C (two threads), and a web
client (React) that reaches the server through a WebSocket gateway (Node).
Everything speaks `ChatPacket`, a fixed record of 1024 bytes, over TCP.

| component | state it keeps | operations | interacts with |
|---|---|---|---|
| client table, `server/client_manager.c` | `g_clients`, `g_client_count`, one mutex | `cm_init`, `cm_add_client`, `cm_remove_client`, `cm_remove_by_sockfd`, `cm_set_status`, `cm_update_activity`, `cm_mark_inactive_clients`, the readers | called by every session thread and the watchdog |
| session threads, `server/session.c` | descriptor, address, username, registered or not | register, broadcast, direct, list, info, status, logout, the clean-up | the table; *every other session's socket* |
| watchdog, `server/session.c:221` | none between rounds | mark, warn, sleep 2 s | the table; the sockets of idle users |
| accept loop, `server/server.c` | the listening socket | accept, start a session | gives sessions their descriptors |
| packet transport, `common/net_utils.c` | none | `send_all`, `recv_all` and their packet forms | the kernel's socket buffers |
| gateway, `client/gateway/server.js` | per WebSocket: `tcp`, `username`, `tcpBuffer`, `pendingInfoTargets` | register (awaits a connection), the forwarded requests, data, close and error events of both sides | the browser, the server |
| web client, `client/web/src` | connection state, users and addresses, messages, own name and status, the current `GatewayClient`; per `GatewayClient` a WebSocket and closures | login, status, list, send, logout; open, message, close of each WebSocket | the gateway |
| command-line client, `client/client.c`, `receiver.c` | descriptor, one thread that sends, one that receives | parse a line, send; receive, print; leave | the server |

What is hard in it:

* **Copies outlive the mutex.** Sessions and the watchdog look descriptors,
  names and lists up under the mutex and send after releasing it. Descriptors
  are reused, so what they hold may belong to somebody else by then.
* **Leaving takes three steps** (remove from the table, announce, close), and
  users join, leave and take over descriptors between them.
* **Clients vanish** at any point of any command; a send to one that has gone
  may end the process.
* **The watchdog** writes the status that sessions write, with a reading of
  the clock taken before the mutex.
* **Hand-kept redundancy:** a counter beside the slots, a 32-byte copy beside
  the name that was compared.
* **Everybody waits for room.** A send blocks while a buffer is full; sessions
  write to each other's clients, clients to sessions that are writing; and two
  threads may be inside a send to one descriptor.
* **Old logins live on.** The page makes a new `GatewayClient` per login; the
  old ones still close, late, and every handler is a closure over the render of
  its own login.
* **The gateway awaits** a connection while its WebSocket may close; it cuts a
  byte stream into packets; it matches answers to questions by their order.

What makes each part correct:

* table: the counter is exact; names, addresses and descriptors are unique; it
  implements a plain set of users; nobody is marked INACTIVE early;
* server: table and threads agree on who is connected at every moment; threads
  use the table within its contract; a status is changed by its owner or the
  watchdog only; who leaves is cleaned up; who is idle is noticed;
* delivery: broadcasts and departures reach everybody they are owed to, and
  nobody twice; a private message reaches its addressee only; one warning per
  silence;
* gateway: packets survive any cutting of the stream; each answer is labelled
  with its question; a connection that was made is not left open behind a closed
  WebSocket (one still being made is, section 4); a lost connection closes it;
* command-line client and transport: packets stay whole however they are cut;
  nobody waits in a circle; whoever leaves gets out;
* web client: only the current login is live; online means registered; the status
  and the addresses shown come to be the server's, as far as they were not out of
  date when sent; a login that is not refused is answered (section 4 has what the
  page does wrong).

`PROJECT.json` ("hazards") lists the places where each of these can go wrong,
with the properties that would catch it.

## 2. The modules

| module | models | extends |
|---|---|---|
| `Directory` | what the table promises: a bounded set of users with unique names and addresses | |
| `ClientManager` | `client_manager.c` | |
| `ChatServer` | `server.c`, `session.c`, what `net_utils.c` does to a connection | `ClientManager` |
| `ChatDelivery` | what clients are sent: two history variables | `ChatServer` |
| `PacketBytes` | `ChatPacket` on a stream: a packet is `PACKET_SIZE` bytes `<<packet, k>>` | |
| `Gateway` | one browser session of `server.js` | `PacketBytes` |
| `CliClient` | `client.c`, `receiver.c`, the loops of `net_utils.c`, and of the server what they wait for | `PacketBytes` |
| `WebClient` | `App.jsx`, `gatewayClient.js` | |
| `MCClientManager`, `MCChatServer`, `MCChatDelivery`, `MCGateway`, `MCCliClient`, `MCWebClient` | instances for TLC | the above |

| theorems in | about | extends |
|---|---|---|
| `ClientManagerProofs` | the table | `ClientManager` |
| `DirectoryProofs` | the table implements `Directory` | `ClientManagerProofs` |
| `ChatServerProofs` | table and threads | `ChatServer`, `DirectoryProofs` |
| `ChatDeliveryProofs` | what clients are sent | `ChatDelivery`, `ChatServerProofs` |
| `PacketBytesProofs` | streams of packets: lemmas for the next two | `PacketBytes` |
| `CliClientProofs` | the transport under two threads | `CliClient`, `PacketBytesProofs` |
| `GatewayProofs` | the gateway | `Gateway`, `PacketBytesProofs` |
| `WebClientProofs` | the web client | `WebClient` |

Operators called *slip* in the modules are deliberate faults: each takes the
place of a correct definition to show that some property notices. No
specification uses them.

### ClientManager

`g_clients` is a function from slots to records, `Zeroed` where `memset` left
zeroes; `g_client_count` and `clock` (`time(NULL)`) complete the state. Each
`cm_*` function holds the mutex throughout, so each is one action; the values
a function returns without touching the table are operators evaluated in the
same step (`AddResult`, `IdleSlots`, `cm_get_sockets_except`...). Loops that
stop at the first match are `First(i, S)`. Names are model values;
`Stored[n]` is what `strncpy` keeps of `n` in 32 bytes, so two names that
agree on 31 bytes have the same `Stored` value. `CMNext` lets any caller do
anything, except to add a descriptor that some slot still holds: that is the
sessions' part of the contract, and `ChatServer!KeepsTableContract` checks
that they keep it.

### ChatServer

`pc[c]` is where the thread of connection `c` is; a step goes from one point
where others can interfere to the next: a receive, one critical section, one
`send_packet`, a close. `todo[c]` holds what the thread copied out of the table
and still has to send. `accept` gives the lowest descriptor that is free, as
POSIX has it. `peer[c]` is the other end: `open`; `closed` (its end was closed:
the next send may draw a reset), `reset` (the next call reports it), `broken`
(a send raises SIGPIPE, which nothing in the repository handles, and the
process ends). The watchdog is `wd_pc`, `wd_now` (the clock as read before the
mutex) and `wd_events` (its copy of whom to warn).

| code | actions |
|---|---|
| `server.c:86-121` | `Accept`, `AcceptFails` |
| `session.c:111-124` | `RecvFails`, `RejectUnregistered`, `RegisterFails`, `Register` |
| `session.c:126-201` | `ReceiveCommand`, then `Broadcast`, `Direct`, `List`, `Info`, `SetStatus`, `Logout`, `Unsupported` |
| the send loops, `send_ok`, `send_error` | `FanOut`, `Reply` |
| `session.c:205-214` | `Remove`, `broadcast_disconnected`, `FanOut`, `Close` |
| `session.c:224-235` | `WdReadClock`, `WdMark`, `WdSend`, `WdSleep` |
| clients and time | `ClientClose`, `ClockTicks` |

### ChatDelivery

Adds `seen[d]`, the packets written to connection `d` with the session that
wrote them, and `owed[c]`, who was registered when `c` began its broadcast or
its departure. They record and never guard.

### Gateway

One session record and the TCP connections it opens. Node runs one callback
at a time, so an action is one callback with its microtasks; the `await` of
`startTcpSession` splits a register into `Register` and `Connected` or
`ConnectFails`. `inbox[t]` is a sequence of bytes `<<packet, k>>`: `DataEvent`
takes any number of them, so packets arrive cut anywhere, and `parsePacket`
yields `Garbled` when the bytes are not those of one packet. The callback of a data
event is a loop over the buffer; each of its turns is an action, `TakePacket`, and
while `HoldsPacket`, the loop's condition, is true no other action is enabled, so
that nothing comes between two turns, nor between the first one and the arrival. The chat server is
reduced to answering in order (`HostAnswers`), speaking unasked (`HostSends`)
and vanishing (`HostDrops`). `shown` and `refused` are histories.

| code | actions |
|---|---|
| `server.js:244-278` | `Register`, `Connected`, `ConnectFails` |
| `server.js:285-345` | `Info`, `OtherRequest`, `Logout` |
| `server.js:192-201` | `DataEvent`, then `TakePacket` as often as the loop turns |
| `server.js:203-208` | `TcpCloseEvent` |
| `server.js:361-373` | `WsCloseEvent`, `WsErrorEvent` |

Two facts of the event loop are used: a socket destroyed by a callback has its
close event before the loop polls again, hence before a connection started
later completes; and the continuation of an `await` runs before the next event.

### CliClient

Two directions of bytes per connection, each with room for `BUFFER`; a packet is
the bytes `<<kind, k>>`, its kind being a command on the way up and the session
that wrote it on the way down. `written`/`sent` and `pkt`/`req` are the locals
`total` of the `send_all` and `recv_all` under way; `Takes` and `Gives` are what one
call may move. `cend` and `srv` are an end as the other one finds it: `closed`
stands for an orderly close and for a reset, and may turn into `broken`, after
which a send raises SIGPIPE (`MainKilled`, `ServerKilled`). The client table is
the set `members`, since `ChatServer` has it in full, with the reuse of
descriptors that this module leaves out. `mixed` records that two threads were
inside a send to one connection.

| code | actions |
|---|---|
| `client.c:94-116` | `CliInit`, `MainSends`, `MainSendsInVain`, `StartReceiver` |
| `client.c:121-184` | `UserTypes`, `EndOfInput`, `MainSends`, `Shutdown`, `Join` |
| `receiver.c:15-43` | `RxReceives`, `RxPrints`, `RxEnds` |
| `server.c:98-118` | `Accept` |
| `session.c:108-202` | `SessionReceives`, `Handle`, `SessionSends`, `SessionSendsInVain` |
| `session.c:112`, `204-215` | `RecvFails`, `Remove`, `Close` |

### WebClient

The state of `App` and, for each `GatewayClient` ever made, its WebSocket and
what its closures captured. React renders between two events, so a handler of
the form reads the latest state, but the handlers of `wireGateway` keep the
`selfName` (`self[g]`) and the `usernameInput` (`asked[g]`) of the render in which
the user pressed Entrar. A client has one session thread at the other end, and a
request is answered in two steps, as in `session.c`: `Answer` reads or changes the
table, under the mutex, and leaves in `answer[g]` what `Reply` sends later. The
watchdog likewise marks (`Mark`) and warns afterwards (`Warn`), to the descriptor it
copied, which may be closed or somebody else's by then. So what one thread read
or set may reach the page after what another did later.

`where` is the table's address of each name. The page's own user registers from
the gateway's host (`Home`); other users come and go from any (`Comes`, `Goes`), and
an address has one user at a time. `users` gives for each listed user the address
shown beside it. `refused[g]` is the queue that a refused INFO leaves behind in
the gateway (section 4). `filed`, `rejected`, `late` and `moved` are histories: where
a message was shown, who was refused, whether the status told last was the
server's no longer when it was sent, and who came or went since the server was
last asked about it. The end of a connection clears what only that connection used.

| code | actions |
|---|---|
| `App.jsx:224-326` | `handleConnect`, `handleSend`, `handleStatusChange`, `refreshUsers`, `disconnect` |
| `App.jsx:96-221`, `gatewayClient.js:24-60` | `OnOpen`, `OnMessage` (`Handle`), `OnClose` |
| `session.c:57-193` and the gateway's translation | `Answer`, `Reply`, `Others` |
| `server.js:219-232`, `365-373`, `session.c:204-214` | `Logout`, `Cut` |
| `client_manager.c:241-268`, `session.c:226-232` | `Mark`, `Warn` |
| `client_manager.c:25-68`, `86-103` for other users | `Comes`, `Goes` |

The watchdog marks all idle users in one critical section and then warns them
one by one; here it marks one, warns it, and marks the next, which for the page of
any one user is the same: marked, and warned some time later.

## 3. What is checked

| run | shows | distinct states, time |
|---|---|---|
| `table` | the table under every operation, any clock reading: type, counter, uniqueness, refinement of `Directory`, nobody INACTIVE early | 9 s |
| `table_long_names` | *violated*: a 32-byte name registers twice | 1 s |
| `server` | any two requests each, clients vanishing anywhere, the watchdog and time running: table and threads agree, status changed by its owner only, contract kept | 1 260 000, 150 s |
| `silence` | under fairness: the idle are noticed, and warned once; the departed cleaned up | 176 000, 42 s |
| `server_sigpipe` | *violated*: two writes to a vanished client end the server | 1 s |
| `delivery` | three users: each is told everything owed to it, and nobody anything twice | 72 s |
| `delivery_direct` | *violated*: a private message written to the heir of a descriptor | 35 s |
| `gateway` | any cutting of the stream, both sides vanishing: whole packets, matched answers, nothing left open but what was still being made; under fairness, a lost connection closes the WebSocket | 636 000, 46 s |
| `gateway_labels` | *violated*: after a refused INFO every answer carries the wrong name | 1 s |
| `cli` | packets cut anywhere, clients, sessions and server vanishing: packets whole unless two threads write at once; under fairness, no circle of waiting threads, and leaving ends | 344 000, 190 s |
| `web` | two logins, connections lost, refused and closed late, another user moving between hosts, answers and warnings sent late: one live client, online means registered, status and addresses settle; under fairness, a login is answered | 752 000, 140 s |
| `web_echo` | *violated*: after a lost connection and a login under another name, another user's broadcasts are not shown | 1 s |

Bounds, and why they are enough for what the runs ask:

* `table`: two slots for three names, addresses and descriptors, so the table
  fills, refuses, frees and refills, and every uniqueness test meets a clash;
  timeout 1 and clock up to 2, so a user can be idle, and a reading of the
  clock older than the last activity.
* `server`: two connections, two requests each out of every command with an
  argument that succeeds and one that does not; `PAYLOAD_SIZE` 26 is exactly
  the length of the list of two ACTIVE users, so that `LIST` meets its limit.
  Timeout 0 and a clock up to 1, so that the watchdog marks users who are
  changing status or leaving. `LaterBusy` keeps it within reach: at time 0, when
  nobody can be idle, the watchdog sleeps, and once time has passed the only
  command is STATUS (registering, vanishing and the rest of earlier commands go
  on). A watchdog with an old reading of the clock is left to `table`.
* `silence`: one descriptor used by two connections in turn, so the second
  inherits the descriptor a late warning was meant for; the clock reaches 2, so
  a user can be idle, speak, and be idle again.
* `delivery`: three connections; `FewDepartures` keeps the watchdog out, lets
  one client close in an orderly way and one user talk. That is a join, a
  broadcast and a departure in any order and interleaving; two departures at a
  time are not explored.
* `delivery_direct`: three connections over two descriptors: sender, addressee
  and heir.
* `gateway`: two names, two connections, packets of two bytes (every cut inside
  a packet is alike), two requests or packets in flight (`MAX_FLIGHT`): two
  questions waiting, a failed connection followed by another.
* `cli`: packets of two bytes and buffers of one, so every send waits in the
  middle of a packet and any two sends can overlap; larger pieces are several
  of one byte. One user talks and types /exit, the other comes and goes: a
  broadcast and an announcement then wait for each other's clients.
* `web`: two names and two logins are an old and a new client with the same or
  another name, and a user who takes the former name; the first login is under
  one of the two names only, since they are interchangeable before it
  (`FirstName`). The user picks BUSY, which the watchdog changes back. Two hosts,
  the gateway's and another one: a name that the page used is later used from
  elsewhere, and the other way round. `MAX_FLIGHT` 1: the user and the others say
  something when nothing else is on its way; what the page asks by itself, what
  answers it, the warning and the moves of others cross all the same.
  `MovesApart` keeps two things that share no state out of each other's way: other
  users come and go while every status is ACTIVE, and the watchdog marks when
  nobody has come or gone unseen and no INFO was refused; and they come and go
  until the second login is made, which then lives with what the page kept. Both
  constraints only take away choices of users and watchdog, of whom no fairness is
  assumed, so `LoginSettles` is not the easier for them. The theorems have no such
  bounds.
* `web_echo`: two logins, and broadcasts of the other user.

`MAX_TIME`, `MAX_REQS`, `MAX_FLIGHT`, `Lines` and the sets of requests, `Chatter`
and `Picks` bound the models and stand for nothing in the code. Systems may stop (clients have said all they may, the WebSocket is
closed, the process has ended), so the configurations do not check deadlock.
Symmetry is used only in runs without liveness properties; `server` uses it with
action properties, which are checked step by step and treat the permuted values
alike.

**Fairness** (`FairSpec`, `FairDelivery`): weak fairness of each session thread
and of the watchdog. The code justifies it as far as the threads are detached
POSIX threads that hold the mutex only for bounded loops, the kernel reports
the end of a connection to `recv`, and `sleep(2)` returns. It assumes that a
`send` returns: a client that stops reading for ever would block its sender
there; `CliClient` models the waiting and shows that a client with a thread
that only reads cannot cause it. Nothing is assumed of clients or of time.

`FairCli`: weak fairness of each thread of client and server that is not waiting.
It includes that a terminal takes what a receiver prints: a user who stops the
terminal stops the receiver, and in the end whoever writes to that client. Users
need not type anything.

`FairGateway`: Node's event loop runs the callbacks of a connection that has data
or has ended, and a callback runs to its end (`TakePacket`). Neither the browser nor the host owes anything. `LossReachesPage` is
what lets `WebClient` end a socket whose link is down (`Ends`).

`FairWeb`: the browser delivers what has arrived, and gives up on sockets that do
not open or close; a session thread takes what reached it, and sends what it
holds. The user, the watchdog and other users owe nothing. `LoginSettles` says
that a page does not stay connecting unless its register was refused for another
reason than a duplicate address, where the code does leave it so (`App.jsx:215`);
an older client's late close counts as an end, whatever the page then shows.

## 4. What the violated runs mean

* `table_long_names`: `cm_add_client` compares the presented name
  (`client_manager.c:39`) with what `strncpy` kept (`:55`). A sender field
  filled to its 32 bytes never equals its own stored form.
* `server_sigpipe`: `send` without `MSG_NOSIGNAL` (`net_utils.c:15`).
* `delivery_direct`: descriptor found at `session.c:144`, used at `:153`.
* `web_echo`: the handlers compare the sender with the `selfName` captured at
  login (`App.jsx:143`), which prefers the old `username` over the input
  (`App.jsx:62`). Salir clears the old one (`App.jsx:323`), a lost connection does
  not (`App.jsx:104-108`). Whoever then logs in as bob, having been alice, no
  longer sees what the new alice says to everybody.
* `gateway_labels`: an ERROR does not take its target off
  `pendingInfoTargets` (`server.js:111`, `:141`). The web client asks an INFO
  about every user of each list, so a user who leaves in between is enough.

Seen in the models and not run, since no document promises otherwise or another
run speaks of the same code:

* A user who registers again before the old session's announcement is announced
  as gone while connected (`session.c:207-209`); a list sent after a departure was
  announced still has the user (`:163-168`).
* A WebSocket that closes while its connection is awaited leaves a registered
  user that nobody will log out (`server.js:261-276`). This is the one exception
  of `OnlyAwaitedOutlives`: a connection that was still being made when the
  WebSocket closed comes up afterwards and stays, since the only thing that would
  close it, `closeTcp`, has run. Nothing else is left behind, and a closed
  WebSocket begins nothing new.
* A badge that stays wrong. There are three moments at which a status is read or
  set (`session.c:176`, `187`, `226`) and three at which it is sent (`181`, `191`,
  `231`), by two threads that hold no lock when they send. An INFO about oneself is
  read, the watchdog marks and warns, and the older answer comes last; or a STATUS
  is confirmed between mark and warning, and the table says BUSY and the page
  INACTIVE. Nothing corrects the page until it asks again. This is the exception
  `late` of `StatusSettles`, which says that nothing else makes a badge wrong but the
  exceptions it names; one of them is the next.
* `App.jsx:135` looks for status words in every text of the system, and the notice
  of a departure (`server.js:147-153`) contains a name: when a user called inactive
  leaves, every badge says INACTIVE (`NoNameSpellsAStatus`).
* The close handler (`App.jsx:104-108`) does not ask which client has closed. After
  Salir and Entrar the old client's close event may come when the new one is open,
  which is then hidden behind the form; the next login closes it (`App.jsx:239`), so
  that none stays for ever (`OneLiveClient`). `OnlineIsReal` has no converse.

## 5. What is proved

Every safety property that a passing run checks is proved of the specification,
without its fairness and for every value of the constants that satisfies the
assumptions named in the modules. Those assumptions only say that `None` is none
of the values, that bounds are numbers, and:

* `NamesAssumption`: truncating a name twice is truncating it once;
* `ServerAssumption`: a name has 1 to 31 characters;
* `PacketAssumption`, `CliAssumption`: packets and buffers are not empty;
* `WebAssumption`: the names are a finite set, since the page asks about each
  user of a list.

Some theorems have hypotheses on the values, each because the code needs it:

* `NamesFit`, every name fits in the 31 bytes kept of it: `table_long_names` is
  what happens without it;
* no user is called `ALL`: a private message to that user has the target of a
  broadcast;
* no user is called `SERVER`: that user's texts look like the server's notices;
* `Traced` has the kinds of packets the theorem counts: `Traced` is the model's
  choice of what the history records.

### The table

| theorem | states |
|---|---|
| `CMTypeCorrect` | `CMSpec => []CMTypeOK` |
| `CountNeverDrifts` | `CMSpec => []CountExact` |
| `OneClientPerIp` | `CMSpec => []UniqueIps` |
| `OneSlotPerSocket` | `CMSpec => []UniqueSocks` |
| `OneClientPerName` | `NamesFit => (CMSpec => []UniqueUsernames)` |
| `NobodyInactiveTooSoon` | `CMSpec => InactiveOnlyIfIdle` |
| `TableImplementsDirectory` | `NamesFit => (CMSpec => Refines)` |

`CMInv`, the conjunction of type, counter and uniqueness of addresses and
descriptors, is inductive (`InitInv`, `NextInv`, `CMInvariant`). The counter cannot
be proved alone: that the insertion loop finds a free slot when the count allows
one needs `CountExact` before the step, and what follows about cardinalities
needs every slot to be either a client or zeroed. Steps are reduced to two
shapes: *one new client in a free slot* (`AddShape`), for which the duplicate
test and the contract give uniqueness; and *every slot keeps its name, address
and descriptor or is cleared* (`OtherShape`, `NextShape`), which cannot break it.
`FirstExists` and `FirstUnique` say that a loop stops at one slot.
`NobodyInactiveTooSoon` adds that a reading of the clock is never ahead of the
clock. For `TableImplementsDirectory` each operation is mapped to an operation of
`Directory` on the set of users in the slots, or to a stutter; the size of that
set is the number of slots in use because names are unique.

### The server

| theorem | states |
|---|---|
| `ChatTypeCorrect` | `Spec => []ChatTypeOK` |
| `TableIsSessions` | `Spec => []SlotsMatchSessions` |
| `ServerKeepsContract` | `Spec => KeepsTableContract`, that is, `Spec => CMSpec` |
| `ServerTableSound` | `Spec => [](CountExact /\ UniqueIps /\ UniqueSocks)` |
| `ServerUniqueNames` | `NamesFit => (Spec => []UniqueUsernames)` |
| `ServerImplementsDirectory` | `NamesFit => (Spec => Refines)` |
| `StatusIsOwn` | `NamesFit => (Spec => StatusOnlyByOwner)` |

`ChatInv` is the types, `CMInv`, `LocalsOK` (what each session's locals are at each
`pc`) and `SlotsMatchSessions`. None of the last three is inductive alone. That a
session adds itself only while no slot has its descriptor
(`UnregisteredHasNoSlot`) follows from `SlotsMatchSessions`: such a slot would
belong to another registered session with the same descriptor. That a slot is
cleared for one session only follows from `UniqueSocks`. With the contract kept,
whatever is proved of `CMSpec` holds in the server, threads and all:
`ServerUniqueNames` and `ServerImplementsDirectory` are that composition.

### Delivery

| theorem | states |
|---|---|
| `BroadcastExactlyOnce` | no user is called `ALL`, and `Traced` has `MSG` and `DISCONNECTED` `=> (DeliverySpec => []EveryoneToldOnce)` |
| `SilenceIsToldOnce` | no user is called `SERVER`, and `Traced` has `OK` `=> (DeliverySpec => []WarnedOnce)` |

Both say nothing once the server has ended, and so do their invariants.
`DeliveryInv` describes a session in the middle of a fan-out: what it has to send
at each `pc` (`WorkOK`), which of its texts anybody may have seen (`HistoryOK`: the
number in a text makes each broadcast its own), that those it owes a packet are
registered (`OwedOK`), and that no descriptor still to be written to belongs to a
client that has the packet, while every client owed the packet either has it or
owns a descriptor still to be written to (`SpreadOK`). A new connection, which may
inherit a descriptor in the middle of the loop, has seen nothing (`FreshOK`).

`WarnInv` is a balance for each user (`Paid`): warnings sent, warnings still to be
sent and slots that a round may still mark are together no more than the
registrations, the changes of status confirmed and those still to be confirmed.
A round of the watchdog moves entries of the left side about (`MarkPaid`,
`WdSendWarn`), an answer moves one of the right side (`ReplyWarn`); only a
registration and a STATUS add to the left, and they add as much to the right.

### The command-line client and the transport

| theorem | states |
|---|---|
| `CliTypeCorrect` | `CliSpec => []CliTypeOK` |
| `PacketsReadWhole` | `CliSpec => []PacketsWhole` |

What a reader has read of a packet, followed by what the kernel still holds, is
one stream. The invariant says that a stream is a row of packets, the last one
possibly cut (`Frames`), and that it ends where the writer's loop believes to be
(`Ends`); a `send` extends it, a `recv` leaves it alone, and a packet read falls off
its front. In the direction of the client this holds until two sessions are
inside a send to one connection (`mixed`), as the property says.
`PacketBytesProofs` has what both this proof and the next need of streams.

### The gateway

| theorem | states |
|---|---|
| `GatewayTypeCorrect` | `GatewaySpec => []GatewayTypeOK` |
| `FramesStayWhole` | `GatewaySpec => []FramesWhole` |
| `AnswersLabelled` | `GatewaySpec => []LabelledUnlessRefused` |
| `OnlyAwaitedRemain` | `GatewaySpec => OnlyAwaitedOutlives` |

`GatewayInv` has four parts. `LinkInv`: a live connection is the one in `tcp`, and
at most one is connecting, with none live meanwhile. `StreamInv`: `tcpBuffer`
followed by `inbox` is a row of packets. `ConnInv`: the connection in `tcp` was
established, a packet waits in `tcpBuffer` only while a connection is live, and while
the WebSocket is open a username or a waiting target means a connection that is live
or whose `close` event is still due. `AnswersInv`:
while no INFO has been refused, `pendingInfoTargets` is the sequence of the
questions that are unanswered in `out`, followed back through the answers in
`inbox` and in `tcpBuffer`. The answers are found by their marks, the first byte of
each packet, so that it does not matter where the stream is cut.

### The web client

| theorem | states |
|---|---|
| `WebTypeCorrect` | `WebSpec => []WebTypeOK` |
| `OnlyCurrentLives` | `WebSpec => []OneLiveClient` |
| `OnlineMeansRegistered` | `WebSpec => []OnlineIsReal` |
| `StatusComesTrue` | `WebSpec => []StatusSettles` |
| `AddressesComeTrue` | `WebSpec => []AddressesSettle` |

`WebInv` (`WebInitInv`, `WebNextInv`) adds to the first three properties what they
rest on: events wait for open sockets only (`Deaf`), so that a client closed by
the page is silent; a client that has not opened has asked for nothing
(`Unheard`); what an open client asks and is told about registering is about the
name that was typed (`Faithful`), so that a confirmation names the right user
however late it is. A step is reduced to what it adds to the queues: nothing
(`NoNewEvents`), or one event to one client (`OnlyNewEvent`).

The last two are about what is shown when nothing is on its way, and need a
statement about everything that may be. `Upshot(s, q, F, v)`: what shows `s` will
show `v` once the events `q` are handled, of which those in the domain of `F`
replace it. `SettleInv` says of every open client (`Settled`):

* `Tracks`: the upshot for the status is the server's, or a STATUS is still to be
  taken, or an answer or a warning that says one still to be sent, or what was said
  last was out of date (`late`);
* `Located`: for each listed user the upshot for its address is where it is, or
  an INFO about it is still to be taken, or it has moved since; an answer held by
  the session thread has the right address; or a list is due that makes the page
  ask about everybody;
* `Registered`: what ties both to the right user.

Handling an event changes what is shown and not the upshot (`UpshotTail`), which is
why late answers do no harm in themselves; sending one must prove its worth
(`UpshotAppend`, `EmitSettled`); taking a request must leave an answer that stands in
for it (`AnswerSettled`); and whoever is not concerned by a step only sees others
come and go (`Bystander`). Without `late` the property is false (section 4).

### Only model-checked

Out of the prover's reach: liveness under fairness (`IdleNoticed`, `DepartedLeaves`,
`NoGridlock`, `ExitReturns`, `LossReachesPage`, `LoginSettles`), `ENABLED`, and what a
definition by recursion computes for every input (`ListLength`, a sum over the
slots, appears in theorems only through the test it feeds, whose both outcomes
are covered). The properties of the runs that expect a violation are false.

## 6. What is not modelled

* Text: formatting, truncation of payloads, parsing of lists, JSON. A name's
  truncation is modelled where it matters (`Stored`).
* Partial sends and full buffers in `ChatServer`: packets are whole there.
  `CliClient` has them, without names, statuses and the reuse of descriptors.
* `command_parser.c`: a function from text to a command, with no state; what it
  says depends on characters only. A line longer than the buffer of `fgets` is
  read in pieces that are parsed one by one (`client.c:121`): not modelled.
* Of the web client: the list of messages, the chat on display, the filter of a
  broadcast repeated within 700 ms (`App.jsx:273`), notices and forms. They hold
  texts and depend on time of day; the rules by which a message is filed or
  dropped are in the model (`Chat`, `filed`). Components, styling, build files and
  bundles: no protocol state.
* A frontend that registers again while the gateway is still connecting
  (`server.js:244`): two connections then append to one buffer. The web client
  does not, and `Register` waits.
* Validation of arguments and set-up of the listening socket: pure I/O.
* Several gateway sessions: they share nothing but the chat server.
* `Protocolo.pdf` is not the reference: where it and the code differ (it has
  the server echo a broadcast to its sender, `session.c:136` leaves the sender
  out) the code is modelled.

## 7. Plan

Done, in this order: `Directory`, `ClientManager` and its proofs (the state
everything else shares); `ChatServer` (the interleavings around it);
`ChatDelivery` (what users observe); `Gateway`; `WebClient` and its proofs;
`CliClient` (the transport and the command-line client); the refinement of
`Directory`; the proofs of the server, delivery, the transport and the gateway.

Models that could be added: the chat on display in `WebClient`, and a frontend
that does not wait before registering again.

Next, statements that are not properties of a run yet, to be checked first:

1. `CliClient`: when `mixed` can happen at all, so that `PacketsWhole` can be stated
   without it for connections to which one session writes.
2. `ChatDelivery`: what holds of private messages in spite of `delivery_direct`:
   an addressee whose session stays registered gets each one once.
3. `Gateway` and `WebClient`: that what `WebClient` assumes of gateway and server (one
   answer per request, in order, labelled unless refused) is what `Gateway`
   provides, as a refinement.
