---------------------------- MODULE WebClientProofs ----------------------------
(***************************************************************************)
(* Proofs about WebClient, for any number of logins, any finite set of     *)
(* names and any bound on what is on its way.                              *)
(***************************************************************************)
EXTENDS WebClient, FiniteSetTheorems, SequenceTheorems, TLAPS

\* Events wait for an open socket only.
Deaf == \A g \in Clients : sock[g] # "open" => events[g] = <<>>

Kind(e, type) == e # None /\ e.type = type

\* A client that has not opened has asked for nothing.
Unheard(g) ==
  sock[g] \in {"none", "connecting"} =>
    out[g] = <<>> /\ answer[g] = None /\ account[g] = None

\* What an open client asks and is told about registering is about the name
\* that was typed.
Faithful(g) ==
  /\ sock[g] \in {"connecting", "open"} => asked[g] \in Names
  /\ sock[g] = "open" =>
       /\ \A i \in 1 .. Len(out[g]) :
            out[g][i].command = "register" => out[g][i].arg = asked[g]
       /\ \A i \in 1 .. Len(events[g]) :
            events[g][i].type = "connected" => events[g][i].username = asked[g]
       /\ Kind(answer[g], "connected") => answer[g].username = asked[g]

ServerTypes ==
  /\ link \in [Clients -> {"up", "down"}]
  /\ account \in [Clients -> Names \cup {None}]
  /\ srv_status \in [Clients -> Status]
  /\ where \in [Names -> Hosts \cup {None}]
  /\ answer \in [Clients -> Event \cup {None}]
  /\ warning \in Clients \cup {None}
  /\ refused \in [Clients -> Seq(Names)]
  /\ rejected \in [Clients -> BOOLEAN] /\ late \in [Clients -> BOOLEAN]
  /\ moved \in [Clients -> SUBSET Names]

WebInv ==
  /\ WebTypeOK /\ Deaf
  /\ \A g \in Clients : Unheard(g) /\ Faithful(g)
  /\ OneLiveClient /\ OnlineIsReal

-----------------------------------------------------------------------------
(* Sequences of events and requests.                                       *)

\* What Append does to a sequence, index by index.
LEMMA AppendOne ==
  ASSUME NEW S, NEW s \in Seq(S), NEW e \in S
  PROVE  /\ Append(s, e) \in Seq(S)
         /\ Len(Append(s, e)) = Len(s) + 1
         /\ \A i \in 1 .. Len(s) + 1 :
              Append(s, e)[i] = IF i = Len(s) + 1 THEN e ELSE s[i]
BY AppendProperties

\* What taking the head of a sequence leaves.
LEMMA TailOf ==
  ASSUME NEW S, NEW s \in Seq(S), s # <<>>
  PROVE  /\ Head(s) \in S /\ Tail(s) \in Seq(S)
         /\ Len(s) \in Nat \ {0} /\ Len(Tail(s)) = Len(s) - 1
         /\ Head(s) = s[1]
         /\ \A i \in 1 .. Len(s) - 1 : Tail(s)[i] = s[i + 1]
BY HeadTailProperties

\* What an event carries.
LEMMA EventFields ==
  ASSUME NEW e \in Event
  PROVE  /\ e.type = "connected" => e.username \in Names
         /\ e.type = "error" => e.ip_taken \in BOOLEAN
         /\ e.type = "user_list" => e.users \in SUBSET Names
         /\ e.type = "user_info" => /\ e.username \in Names /\ e.ip \in Hosts
                                    /\ e.status \in Status
         /\ e.type = "status_changed" => e.status \in Status
         /\ e.type = "message" /\ e.scope # "system" =>
              e.from \in Names /\ e.target \in Names \cup {None}
BY DEF Event

\* What a request carries.
LEMMA RequestFields ==
  ASSUME NEW r \in Request
  PROVE  /\ r.command \in {"register", "info"} => r.arg \in Names
         /\ r.command = "status" => r.arg \in Status
BY DEF Request

\* An INFO is asked about each user of a list.
LEMMA AskAboutRequests ==
  ASSUME NEW U \in SUBSET Names
  PROVE  /\ AskAbout(U) \in Seq(Request)
         /\ \A i \in 1 .. Len(AskAbout(U)) : AskAbout(U)[i].command = "info"
         /\ \A m \in U : \E i \in 1 .. Len(AskAbout(U)) : AskAbout(U)[i] = Ask("info", m)
<1>. DEFINE n == Cardinality(U)
<1>1. IsFiniteSet(U)
  BY WebAssumption, FS_Subset
<1>2. n \in Nat /\ \E f : f \in Bijection(1 .. n, U)
  BY <1>1, FS_CardinalityType, FS_NatBijection, FS_CountingElements DEF ExistsBijection
<1>3. \E f \in [1 .. n -> U] : IsInjective(f)
  BY <1>2 DEF Bijection, Injection, IsInjective
<1>4. SetToSeq(U) \in [1 .. n -> U] /\ IsInjective(SetToSeq(U))
  BY <1>3 DEF SetToSeq
<1>5. \A i \in 1 .. n : Ask("info", SetToSeq(U)[i]) \in Request
  BY <1>4 DEF Ask, Request
<1>6. AskAbout(U) \in [1 .. n -> Request]
  BY <1>5 DEF AskAbout
<1>7. AskAbout(U) \in Seq(Request) /\ Len(AskAbout(U)) = n
  BY <1>2, <1>6, IsASeq
<1>8. \A m \in U : \E i \in 1 .. n : SetToSeq(U)[i] = m
  <2>1. Cardinality(1 .. n) = n
    BY <1>2, FS_Interval
  <2>2. SetToSeq(U) \in Injection(1 .. n, U)
    BY <1>4 DEF Injection, IsInjective
  <2>3. SetToSeq(U) \in Surjection(1 .. n, U)
    BY <1>1, <2>1, <2>2, FS_Injection
  <2>. QED BY <2>3 DEF Surjection
<1>. QED BY <1>7, <1>8 DEF AskAbout, Ask

-----------------------------------------------------------------------------
(* What a step does to what is on its way.                                 *)

\* Nothing new is on its way to the pages.
NoNewEvents ==
  \A h \in Clients : \A i \in 1 .. Len(events'[h]) :
    \E j \in 1 .. Len(events[h]) : events'[h][i] = events[h][j]

\* Nothing but e is new on its way to the pages, and it goes to client g.
OnlyNewEvent(g, e) ==
  \A h \in Clients : \A i \in 1 .. Len(events'[h]) :
    \/ \E j \in 1 .. Len(events[h]) : events'[h][i] = events[h][j]
    \/ h = g /\ sock[g] = "open" /\ events'[h][i] = e

NoNewRegisters ==
  \A h \in Clients : \A i \in 1 .. Len(out'[h]) :
    out'[h][i].command = "register" =>
      \E j \in 1 .. Len(out[h]) : out'[h][i] = out[h][j]

\* send() of requests that are no REGISTER.
LEMMA SentShape ==
  ASSUME WebTypeOK, NEW g \in Clients, NEW requests \in Seq(Request),
         \A i \in 1 .. Len(requests) : requests[i].command # "register",
         out' = Sent(g, requests)
  PROVE  /\ out' \in [Clients -> Seq(Request)] /\ NoNewRegisters
         /\ \A h \in Clients : sock[h] # "open" => out'[h] = out[h]
<1>1. out \in [Clients -> Seq(Request)]
  BY DEF WebTypeOK
<1>. DEFINE joint == out[g] \o requests
<1>2. /\ joint \in Seq(Request) /\ Len(joint) = Len(out[g]) + Len(requests)
      /\ \A i \in 1 .. Len(joint) :
           joint[i] = IF i <= Len(out[g]) THEN out[g][i] ELSE requests[i - Len(out[g])]
  BY <1>1, ConcatProperties
<1>3. Len(out[g]) \in Nat /\ Len(requests) \in Nat
  BY <1>1, LenProperties
<1>. HIDE DEF joint
<1>4. out' = out \/ out' = [out EXCEPT ![g] = joint]
  BY DEF Sent, joint
<1>5. out' \in [Clients -> Seq(Request)]
  BY <1>1, <1>2, <1>4
<1>6. ASSUME NEW h \in Clients, NEW i \in 1 .. Len(out'[h]),
             out'[h][i].command = "register"
      PROVE  \E j \in 1 .. Len(out[h]) : out'[h][i] = out[h][j]
  <2>1. CASE out' = out \/ h # g
    BY <1>1, <1>4, <1>6, <2>1
  <2>2. CASE out' = [out EXCEPT ![g] = joint] /\ h = g
    <3>1. out'[h] = joint
      BY <1>1, <2>2
    <3>2. i \in 1 .. Len(joint) /\ joint[i].command = "register"
      BY <1>6, <3>1
    <3>3. i <= Len(out[g])
      <4>1. SUFFICES ASSUME ~ (i <= Len(out[g])) PROVE FALSE
        OBVIOUS
      <4>2. i - Len(out[g]) \in 1 .. Len(requests)
        BY <1>2, <1>3, <3>2, <4>1
      <4>. QED BY <1>2, <3>2, <4>1, <4>2
    <3>. QED BY <1>2, <1>3, <2>2, <3>1, <3>2, <3>3
  <2>. QED BY <1>4, <2>1, <2>2
<1>7. \A h \in Clients : sock[h] # "open" => out'[h] = out[h]
  BY <1>1, <1>4 DEF Sent
<1>. QED BY <1>5, <1>6, <1>7 DEF NoNewRegisters

\* A single request.
LEMMA SentOne ==
  ASSUME WebTypeOK, NEW g \in Clients, NEW r \in Request, r.command # "register",
         out' = Sent(g, <<r>>)
  PROVE  /\ out' \in [Clients -> Seq(Request)] /\ NoNewRegisters
         /\ \A h \in Clients : sock[h] # "open" => out'[h] = out[h]
<1>1. <<r>> \in Seq(Request) /\ Len(<<r>>) = 1 /\ <<r>>[1] = r
  OBVIOUS
<1>2. \A i \in 1 .. Len(<<r>>) : <<r>>[i].command # "register"
  BY <1>1
<1>. QED BY <1>1, <1>2, SentShape

\* Events that only open sockets keep.
LEMMA HeardShape ==
  ASSUME NEW sent \in [Clients -> Seq(Event)], events' = Heard(sent),
         \A h \in Clients : \A i \in 1 .. Len(sent[h]) :
           \E j \in 1 .. Len(events[h]) : sent[h][i] = events[h][j]
  PROVE  events' \in [Clients -> Seq(Event)] /\ Deaf' /\ NoNewEvents
<1>1. events' \in [Clients -> Seq(Event)]
  BY DEF Heard
<1>2. Deaf'
  BY DEF Heard, Deaf
<1>3. NoNewEvents
  BY DEF Heard, NoNewEvents
<1>. QED BY <1>1, <1>2, <1>3

\* Closing sockets only takes events away.
LEMMA HeardSame ==
  ASSUME WebTypeOK, events' = Heard(events)
  PROVE  events' \in [Clients -> Seq(Event)] /\ Deaf' /\ NoNewEvents
BY HeardShape DEF WebTypeOK

\* Taking the first event of a client leaves nothing new.
LEMMA HeardTail ==
  ASSUME WebTypeOK, NEW g \in Clients, events[g] # <<>>,
         events' = Heard([events EXCEPT ![g] = Tail(@)])
  PROVE  events' \in [Clients -> Seq(Event)] /\ Deaf' /\ NoNewEvents
<1>. DEFINE sent == [events EXCEPT ![g] = Tail(@)]
<1>1. events \in [Clients -> Seq(Event)]
  BY DEF WebTypeOK
<1>2. /\ Tail(events[g]) \in Seq(Event) /\ Len(events[g]) \in Nat \ {0}
      /\ Len(Tail(events[g])) = Len(events[g]) - 1
      /\ \A i \in 1 .. Len(events[g]) - 1 : Tail(events[g])[i] = events[g][i + 1]
  BY <1>1, TailOf
<1>3. sent \in [Clients -> Seq(Event)]
  BY <1>1, <1>2
<1>4. ASSUME NEW h \in Clients, NEW i \in 1 .. Len(sent[h])
      PROVE  \E j \in 1 .. Len(events[h]) : sent[h][i] = events[h][j]
  <2>1. CASE h = g
    BY <1>1, <1>2, <1>4, <2>1
  <2>2. CASE h # g
    BY <1>1, <1>4, <2>2
  <2>. QED BY <2>1, <2>2
<1>. HIDE DEF sent
<1>5. events' = Heard(sent)
  BY DEF sent
<1>. QED BY <1>3, <1>4, <1>5, HeardShape

\* Sending one event to a client adds that event, if its socket is open.
LEMMA EmitsShape ==
  ASSUME WebTypeOK, NEW g \in Clients, NEW e \in Event, Emits(g, e)
  PROVE  /\ events' \in [Clients -> Seq(Event)]
         /\ OnlyNewEvent(g, e)
         /\ \A h \in Clients : sock[h] # "open" => events'[h] = events[h]
<1>1. events \in [Clients -> Seq(Event)]
  BY DEF WebTypeOK
<1>. DEFINE more == Append(events[g], e)
<1>2. /\ more \in Seq(Event) /\ Len(more) = Len(events[g]) + 1
      /\ \A i \in 1 .. Len(events[g]) + 1 :
           more[i] = IF i = Len(events[g]) + 1 THEN e ELSE events[g][i]
  BY <1>1, AppendOne
<1>3. Len(events[g]) \in Nat
  BY <1>1, LenProperties
<1>. HIDE DEF more
<1>4. events' = IF sock[g] = "open" THEN [events EXCEPT ![g] = more] ELSE events
  BY <1>1 DEF Emits, more
<1>5. events' \in [Clients -> Seq(Event)]
  BY <1>1, <1>2, <1>4
<1>6. OnlyNewEvent(g, e)
  BY <1>1, <1>2, <1>3, <1>4 DEF OnlyNewEvent
<1>7. \A h \in Clients : sock[h] # "open" => events'[h] = events[h]
  BY <1>1, <1>4
<1>. QED BY <1>5, <1>6, <1>7

-----------------------------------------------------------------------------
(* What is kept when nothing new is on its way.                            *)

\* No socket comes alive, and the live ones keep what their closures captured.
NoNewLive ==
  \A h \in Clients :
    /\ sock'[h] \in {"connecting", "open"} =>
         sock[h] \in {"connecting", "open"} /\ asked'[h] = asked[h]
    /\ sock'[h] = "open" => sock[h] = "open"

\* Faithful survives a step that sends no REGISTER and no new confirmation.
LEMMA FaithfulKept ==
  ASSUME \A g \in Clients : Faithful(g), NoNewLive, NoNewEvents, NoNewRegisters,
         UNCHANGED answer
  PROVE  \A g \in Clients : Faithful(g)'
<1>. SUFFICES ASSUME NEW g \in Clients PROVE Faithful(g)'
  OBVIOUS
<1>1. sock'[g] \in {"connecting", "open"} => asked'[g] \in Names
  BY DEF NoNewLive, Faithful
<1>2. ASSUME sock'[g] = "open", NEW i \in 1 .. Len(out'[g]),
             out'[g][i].command = "register"
      PROVE  out'[g][i].arg = asked'[g]
  BY <1>2 DEF NoNewLive, NoNewRegisters, Faithful
<1>3. ASSUME sock'[g] = "open", NEW i \in 1 .. Len(events'[g]),
             events'[g][i].type = "connected"
      PROVE  events'[g][i].username = asked'[g]
  BY <1>3 DEF NoNewLive, NoNewEvents, Faithful
<1>4. sock'[g] = "open" /\ Kind(answer'[g], "connected") => answer'[g].username = asked'[g]
  BY DEF NoNewLive, Faithful
<1>. QED BY <1>1, <1>2, <1>3, <1>4 DEF Faithful

\* Unheard survives a step of the page that asks nothing for a closed client.
LEMMA UnheardKept ==
  ASSUME \A g \in Clients : Unheard(g), UNCHANGED server_vars,
         \A h \in Clients : sock'[h] \in {"none", "connecting"} =>
           sock[h] \in {"none", "connecting"} /\ out'[h] = out[h]
  PROVE  \A g \in Clients : Unheard(g)'
BY DEF Unheard, server_vars, table_vars

\* A step that leaves the events alone brings none.
LEMMA OldEvents ==
  ASSUME UNCHANGED events
  PROVE  NoNewEvents
BY DEF NoNewEvents

\* A step that leaves the requests alone brings no REGISTER.
LEMMA OldRequests ==
  ASSUME UNCHANGED out
  PROVE  NoNewRegisters
BY DEF NoNewRegisters

\* A step that leaves sockets and events alone keeps Deaf.
LEMMA OldDeaf ==
  ASSUME Deaf, UNCHANGED <<sock, events>>
  PROVE  Deaf'
BY DEF Deaf

\* After close() on the current client nothing but the client being made lives.
LEMMA ClosedCurrent ==
  ASSUME WebTypeOK, OneLiveClient
  PROVE  /\ Closed(gatewayRef) \in [Clients -> {"none", "connecting", "open", "closing", "closed"}]
         /\ \A h \in Clients : /\ Closed(gatewayRef)[h] \notin {"connecting", "open"}
                               /\ Closed(gatewayRef)[h] = "none" => sock[h] = "none"
BY WebAssumption DEF Closed, WebTypeOK, OneLiveClient

-----------------------------------------------------------------------------
(* The user's steps.                                                       *)

\* Pressing Entrar (handleConnect).
LEMMA ConnectInv ==
  ASSUME WebInv, NEW g \in Clients, NEW n \in Names, handleConnect(g, n)
  PROVE  WebInv'
<1>. USE DEF WebInv
<1>1. /\ events' \in [Clients -> Seq(Event)] /\ Deaf' /\ NoNewEvents
  BY HeardSame DEF handleConnect
<1>2. /\ sock' \in [Clients -> {"none", "connecting", "open", "closing", "closed"}]
      /\ sock'[g] = "connecting"
      /\ \A h \in Clients \ {g} : /\ sock'[h] \notin {"connecting", "open"}
                                  /\ sock'[h] = "none" => sock[h] = "none"
      /\ sock[g] = "none"
  <2>1. g \in Unmade
    BY DEF handleConnect
  <2>. QED BY <2>1, ClosedCurrent DEF handleConnect, Unmade
<1>3. WebTypeOK'
  BY <1>1, <1>2 DEF handleConnect, WebTypeOK, Pill, selfName, server_vars, table_vars
<1>4. ASSUME NEW h \in Clients PROVE Faithful(h)'
  BY <1>2 DEF handleConnect, Faithful, WebTypeOK
<1>5. OneLiveClient' /\ OnlineIsReal'
  BY <1>2 DEF handleConnect, OneLiveClient, OnlineIsReal, Pill
<1>6. \A h \in Clients : Unheard(h)'
  BY <1>2, UnheardKept DEF handleConnect
<1>. QED BY <1>1, <1>3, <1>4, <1>5, <1>6

\* A request of the user: only out changes, and the status on display.
LEMMA AskInv ==
  ASSUME WebInv, NEW r \in Request, r.command # "register",
         gatewayRef \in Clients, status' \in Status,
         out' = Sent(gatewayRef, <<r>>),
         UNCHANGED <<username, shown_vars, users, gatewayRef, filed, client_vars,
                     events, server_vars>>
  PROVE  WebInv'
<1>. USE DEF WebInv, shown_vars, client_vars, server_vars, table_vars
<1>1. /\ out' \in [Clients -> Seq(Request)] /\ NoNewRegisters
      /\ \A h \in Clients : sock[h] # "open" => out'[h] = out[h]
  BY SentOne
<1>2. WebTypeOK'
  BY <1>1 DEF WebTypeOK
<1>3. NoNewLive /\ NoNewEvents
  BY OldEvents DEF NoNewLive
<1>4. \A h \in Clients : Faithful(h)'
  BY <1>1, <1>3, FaithfulKept
<1>5. OneLiveClient' /\ OnlineIsReal'
  BY DEF OneLiveClient, OnlineIsReal
<1>6. Deaf' /\ \A h \in Clients : Unheard(h)'
  BY <1>1, OldDeaf, UnheardKept
<1>. QED BY <1>2, <1>4, <1>5, <1>6

\* Pressing Salir (disconnect).
LEMMA DisconnectInv ==
  ASSUME WebInv, disconnect
  PROVE  WebInv'
<1>. USE DEF WebInv
<1>1. /\ events' \in [Clients -> Seq(Event)] /\ Deaf' /\ NoNewEvents
  BY HeardSame DEF disconnect, Leaves
<1>2. gatewayRef \in Clients
  BY DEF disconnect, Leaves, OnlineIsReal, WebTypeOK
<1>3. Ask("logout", None) \in Request
  BY DEF Ask, Request
<1>4. /\ out' \in [Clients -> Seq(Request)] /\ NoNewRegisters
      /\ \A h \in Clients : sock[h] # "open" => out'[h] = out[h]
  BY <1>2, <1>3, SentOne DEF disconnect, Leaves, Ask
<1>5. /\ sock' \in [Clients -> {"none", "connecting", "open", "closing", "closed"}]
      /\ \A h \in Clients : /\ sock'[h] \notin {"connecting", "open"}
                            /\ sock'[h] = "none" => sock[h] = "none"
  BY ClosedCurrent DEF disconnect, Leaves
<1>6. WebTypeOK'
  BY <1>1, <1>4, <1>5 DEF disconnect, Leaves, WebTypeOK, Pill, server_vars, table_vars
<1>7. \A h \in Clients : Faithful(h)'
  BY <1>5 DEF Faithful
<1>8. OneLiveClient' /\ OnlineIsReal'
  BY <1>5 DEF disconnect, Leaves, OneLiveClient, OnlineIsReal, Pill
<1>9. \A h \in Clients : Unheard(h)'
  BY <1>4, <1>5, UnheardKept DEF disconnect, Leaves
<1>. QED BY <1>1, <1>6, <1>7, <1>8, <1>9

\* Every step of the user.
LEMMA UserInv ==
  ASSUME WebInv, User
  PROVE  WebInv'
<1>1. ASSUME NEW g \in Clients, NEW n \in Names, handleConnect(g, n) PROVE WebInv'
  BY <1>1, ConnectInv
<1>2. ASSUME connected PROVE gatewayRef \in Clients
  BY <1>2 DEF WebInv, OnlineIsReal, WebTypeOK
<1>3. ASSUME NEW s \in Picks, handleStatusChange(s) PROVE WebInv'
  <2>1. s \in Status
    BY WebAssumption
  <2>2. Ask("status", s) \in Request /\ Ask("status", s).command # "register"
    BY <2>1 DEF Ask, Request
  <2>. QED BY <1>2, <1>3, <2>1, <2>2, AskInv DEF handleStatusChange
<1>4. ASSUME NEW command \in {"list", "chat"}, UserSends(command) PROVE WebInv'
  <2>1. Ask(command, None) \in Request /\ Ask(command, None).command # "register"
    BY DEF Ask, Request
  <2>2. status' \in Status
    BY <1>4 DEF UserSends, page_vars, WebInv, WebTypeOK
  <2>. QED BY <1>2, <1>4, <2>1, <2>2, AskInv DEF UserSends, page_vars
<1>5. ASSUME disconnect PROVE WebInv'
  BY <1>5, DisconnectInv
<1>. QED BY <1>1, <1>3, <1>4, <1>5 DEF User, refreshUsers, handleSend

-----------------------------------------------------------------------------
(* The steps of a client's handlers.                                       *)

\* The open event, which registers.
LEMMA OpenInv ==
  ASSUME WebInv, NEW g \in Clients, OnOpen(g)
  PROVE  WebInv'
<1>. USE DEF WebInv
<1>1. /\ asked[g] \in Names /\ sock[g] = "connecting" /\ events[g] = <<>>
      /\ answer[g] = None
  BY DEF OnOpen, Faithful, Deaf, Unheard
<1>2. g = gatewayRef
  BY <1>1 DEF OneLiveClient
<1>. DEFINE r == Ask("register", asked[g])
<1>3. r \in Request /\ r.command = "register" /\ r.arg = asked[g]
  BY <1>1 DEF Ask, Request
<1>4. <<r>> \in Seq(Request) /\ Len(<<r>>) = 1 /\ <<r>>[1] = r
  BY <1>3
<1>. HIDE DEF r
<1>5. /\ sock' = [sock EXCEPT ![g] = "open"]
      /\ out' = [out EXCEPT ![g] = <<r>>]
      /\ Pill("connecting")
      /\ UNCHANGED <<username, status, users, gatewayRef, filed, self, asked,
                     events, server_vars>>
  BY DEF OnOpen, r
<1>6. WebTypeOK'
  BY <1>4, <1>5 DEF WebTypeOK, Pill, server_vars, table_vars
<1>7. ASSUME NEW h \in Clients PROVE Faithful(h)'
  <2>1. CASE h = g
    <3>1. /\ out'[g] = <<r>> /\ events'[g] = <<>> /\ asked'[g] = asked[g]
          /\ ~ Kind(answer'[g], "connected")
      BY <1>1, <1>5 DEF WebTypeOK, Kind, server_vars
    <3>2. Len(events'[g]) = 0
      BY <3>1
    <3>. QED BY <1>1, <1>3, <1>4, <2>1, <3>1, <3>2 DEF Faithful
  <2>2. CASE h # g
    BY <1>5, <2>2 DEF Faithful, WebTypeOK, server_vars
  <2>. QED BY <2>1, <2>2
<1>8. OneLiveClient' /\ OnlineIsReal'
  BY <1>2, <1>5 DEF OneLiveClient, OnlineIsReal, Pill, WebTypeOK
<1>9. Deaf'
  BY <1>5 DEF server_vars, Deaf, WebTypeOK
<1>10. \A h \in Clients : Unheard(h)'
  BY <1>5, UnheardKept DEF WebTypeOK
<1>. QED BY <1>6, <1>7, <1>8, <1>9, <1>10

\* The close event.
LEMMA CloseInv ==
  ASSUME WebInv, NEW g \in Clients, OnClose(g)
  PROVE  WebInv'
<1>. USE DEF WebInv
<1>1. /\ sock' = [sock EXCEPT ![g] = "closed"]
      /\ self' = [self EXCEPT ![g] = None] /\ asked' = [asked EXCEPT ![g] = None]
      /\ Pill("offline")
      /\ UNCHANGED <<username, status, users, gatewayRef, filed, out, server_vars>>
  BY DEF OnClose, Ends
<1>2. /\ events' \in [Clients -> Seq(Event)] /\ Deaf' /\ NoNewEvents
  BY HeardSame DEF OnClose, Ends
<1>3. WebTypeOK'
  BY <1>1, <1>2 DEF WebTypeOK, Pill, server_vars, table_vars
<1>4. NoNewLive
  BY <1>1 DEF NoNewLive, WebTypeOK
<1>5. \A h \in Clients : Faithful(h)'
  BY <1>1, <1>2, <1>4, FaithfulKept, OldRequests DEF server_vars
<1>6. OneLiveClient' /\ OnlineIsReal'
  BY <1>1 DEF OneLiveClient, OnlineIsReal, Pill, WebTypeOK
<1>7. \A h \in Clients : Unheard(h)'
  BY <1>1, UnheardKept DEF WebTypeOK
<1>. QED BY <1>2, <1>3, <1>5, <1>6, <1>7

\* The status found in a text is a status.
LEMMA StatusInType ==
  ASSUME status \in Status, NEW words
  PROVE  StatusIn(words) \in Status
BY DEF StatusIn, Status

\* What a message handler changes besides the events it takes.
LEMMA HandleInv ==
  ASSUME WebInv, NEW g \in Clients, sock[g] = "open", NEW e \in Event,
         Handle(g, e),
         e.type = "connected" => e.username = asked[g],
         events' \in [Clients -> Seq(Event)], Deaf', NoNewEvents,
         UNCHANGED <<self, asked, server_vars>>
  PROVE  WebInv'
<1>. USE DEF WebInv
<1>1. g = gatewayRef
  BY DEF OneLiveClient
<1>2. Ask("list", None) \in Request /\ Ask("list", None).command # "register"
  BY DEF Ask, Request
<1>3. UNCHANGED answer
  BY DEF server_vars
<1>. HIDE DEF WebInv
<1>4. WebTypeOK /\ OneLiveClient /\ OnlineIsReal
      /\ \A h \in Clients : Unheard(h) /\ Faithful(h)
  BY DEF WebInv
<1>. USE DEF table_vars
<1>5. CASE /\ e.type = "connected"
           /\ username' = e.username /\ status' = "ACTIVE" /\ Pill("online")
           /\ out' = Sent(g, <<Ask("list", None)>>)
           /\ UNCHANGED <<users, gatewayRef, filed, sock>>
  <2>1. /\ out' \in [Clients -> Seq(Request)] /\ NoNewRegisters
        /\ \A h \in Clients : sock[h] # "open" => out'[h] = out[h]
    BY <1>2, <1>4, <1>5, SentOne
  <2>2. e.username \in Names
    BY <1>5, EventFields
  <2>3. WebTypeOK'
    BY <1>4, <1>5, <2>1, <2>2 DEF WebTypeOK, Pill, Status, server_vars
  <2>4. \A h \in Clients : Faithful(h)'
    BY <1>3, <1>4, <1>5, <2>1, FaithfulKept DEF NoNewLive
  <2>5. OneLiveClient' /\ OnlineIsReal'
    BY <1>1, <1>4, <1>5, WebAssumption DEF OneLiveClient, OnlineIsReal
  <2>6. \A h \in Clients : Unheard(h)'
    BY <1>4, <1>5, <2>1, UnheardKept
  <2>. QED BY <2>3, <2>4, <2>5, <2>6 DEF WebInv
<1>6. CASE /\ e.type = "error" /\ e.ip_taken /\ Pill("offline")
           /\ users' = [n \in {} |-> None]
           /\ sock' = Closed(gatewayRef) /\ gatewayRef' = None
           /\ UNCHANGED <<username, status, filed, out>>
  <2>1. /\ sock' \in [Clients -> {"none", "connecting", "open", "closing", "closed"}]
        /\ \A h \in Clients : sock'[h] \notin {"connecting", "open"}
    BY <1>4, <1>6, ClosedCurrent
  <2>2. users' \in [{} -> Hosts \cup {None}]
    BY <1>6
  <2>3. WebTypeOK'
    BY <1>4, <1>6, <2>1, <2>2 DEF WebTypeOK, Pill, server_vars
  <2>4. \A h \in Clients : Faithful(h)'
    BY <2>1 DEF Faithful
  <2>5. OneLiveClient' /\ OnlineIsReal'
    BY <1>6, <2>1 DEF OneLiveClient, OnlineIsReal, Pill
  <2>6. \A h \in Clients : Unheard(h)'
    BY <1>4, <1>6, <2>1, ClosedCurrent, UnheardKept
  <2>. QED BY <2>3, <2>4, <2>5, <2>6 DEF WebInv
<1>7. CASE /\ e.type = "user_list"
           /\ users' = [n \in e.users |-> IF n \in DOMAIN users THEN users[n] ELSE None]
           /\ out' = Sent(g, AskAbout(e.users))
           /\ UNCHANGED <<username, shown_vars, status, gatewayRef, filed, sock>>
  <2>1. e.users \in SUBSET Names
    BY <1>7, EventFields
  <2>2. /\ out' \in [Clients -> Seq(Request)] /\ NoNewRegisters
        /\ \A h \in Clients : sock[h] # "open" => out'[h] = out[h]
    <3>1. \A i \in 1 .. Len(AskAbout(e.users)) :
            AskAbout(e.users)[i].command # "register"
      BY <2>1, AskAboutRequests
    <3>. QED BY <1>4, <1>7, <2>1, <3>1, AskAboutRequests, SentShape
  <2>3. users' \in [e.users -> Hosts \cup {None}]
    BY <1>4, <1>7 DEF WebTypeOK
  <2>4. WebTypeOK'
    BY <1>4, <1>7, <2>1, <2>2, <2>3 DEF WebTypeOK, shown_vars, server_vars
  <2>5. \A h \in Clients : Faithful(h)'
    BY <1>3, <1>4, <1>7, <2>2, FaithfulKept DEF NoNewLive
  <2>6. OneLiveClient' /\ OnlineIsReal'
    BY <1>4, <1>7 DEF OneLiveClient, OnlineIsReal, shown_vars
  <2>7. \A h \in Clients : Unheard(h)'
    BY <1>4, <1>7, <2>2, UnheardKept
  <2>. QED BY <2>4, <2>5, <2>6, <2>7 DEF WebInv
<1>8. CASE /\ e.type = "user_info"
           /\ users' = WithAddress(e.username, e.ip)
           /\ status' = IF e.username = self[g] THEN e.status ELSE status
           /\ UNCHANGED <<username, shown_vars, gatewayRef, filed, out, sock>>
  <2>1. e.ip \in Hosts /\ e.status \in Status
    BY <1>8, EventFields
  <2>2. PICK U \in SUBSET Names : users \in [U -> Hosts \cup {None}]
    BY <1>4 DEF WebTypeOK
  <2>3. users' \in [U -> Hosts \cup {None}]
    BY <1>8, <2>1, <2>2 DEF WithAddress
  <2>4. WebTypeOK'
    BY <1>4, <1>8, <2>1, <2>3 DEF WebTypeOK, shown_vars, server_vars
  <2>5. \A h \in Clients : Faithful(h)'
    BY <1>3, <1>4, <1>8, OldRequests, FaithfulKept DEF NoNewLive
  <2>6. OneLiveClient' /\ OnlineIsReal'
    BY <1>4, <1>8 DEF OneLiveClient, OnlineIsReal, shown_vars
  <2>7. \A h \in Clients : Unheard(h)'
    BY <1>4, <1>8, UnheardKept
  <2>. QED BY <2>4, <2>5, <2>6, <2>7 DEF WebInv
<1>9. CASE /\ status' \in Status /\ filed' \in Names \cup {None, "general", "nowhere"}
           /\ UNCHANGED <<username, shown_vars, users, gatewayRef, out, sock>>
  <2>1. WebTypeOK'
    BY <1>4, <1>9 DEF WebTypeOK, shown_vars, server_vars
  <2>2. \A h \in Clients : Faithful(h)'
    BY <1>3, <1>4, <1>9, OldRequests, FaithfulKept DEF NoNewLive
  <2>3. OneLiveClient' /\ OnlineIsReal'
    BY <1>4, <1>9 DEF OneLiveClient, OnlineIsReal, shown_vars
  <2>4. \A h \in Clients : Unheard(h)'
    BY <1>4, <1>9, UnheardKept
  <2>. QED BY <2>1, <2>2, <2>3, <2>4 DEF WebInv
<1>10. filed \in Names \cup {None, "general", "nowhere"} /\ status \in Status
  BY <1>4 DEF WebTypeOK
<1>11. e.type = "status_changed" => e.status \in Status
  BY EventFields
<1>12. e.type = "message" /\ e.scope # "system" =>
         Chat(e, self[g]) \in Names \cup {None, "general", "nowhere"}
  BY EventFields DEF Chat
<1>13. StatusIn(e.words) \in Status
  BY <1>10, StatusInType
<1>. QED
  BY <1>5, <1>6, <1>7, <1>8, <1>9, <1>10, <1>11, <1>12, <1>13 DEF Handle

\* A message event.
LEMMA MessageInv ==
  ASSUME WebInv, NEW g \in Clients, OnMessage(g)
  PROVE  WebInv'
<1>1. events \in [Clients -> Seq(Event)]
  BY DEF WebInv, WebTypeOK
<1>2. /\ Head(events[g]) \in Event
      /\ Head(events[g]) = events[g][1] /\ 1 \in 1 .. Len(events[g])
  BY <1>1, TailOf DEF OnMessage
<1>3. /\ events' \in [Clients -> Seq(Event)] /\ Deaf' /\ NoNewEvents
  BY HeardTail DEF OnMessage, WebInv
<1>4. Head(events[g]).type = "connected" => Head(events[g]).username = asked[g]
  BY <1>2 DEF OnMessage, WebInv, Faithful
<1>. QED BY <1>2, <1>3, <1>4, HandleInv DEF OnMessage

-----------------------------------------------------------------------------
(* The steps of the gateway and the server.                                *)

\* No session thread has a confirmation to send but for the name asked.
FreshAnswers ==
  \A h \in Clients : sock[h] = "open" /\ Kind(answer'[h], "connected") =>
    answer'[h] = answer[h] \/ answer'[h].username = asked[h]

\* A step of gateway and server that takes requests and sends nothing.
LEMMA SilentInv ==
  ASSUME WebInv, UNCHANGED <<page_vars, client_vars, events>>,
         out' \in [Clients -> Seq(Request)], NoNewRegisters, ServerTypes',
         FreshAnswers, \A h \in Clients : Unheard(h)'
  PROVE  WebInv'
<1>. USE DEF page_vars, shown_vars, client_vars
<1>1. /\ WebTypeOK /\ Deaf /\ OneLiveClient /\ OnlineIsReal
      /\ \A h \in Clients : Faithful(h)
  BY DEF WebInv
<1>2. WebTypeOK'
  BY <1>1 DEF WebTypeOK, ServerTypes
<1>3. \A h \in Clients : Faithful(h)'
  BY <1>1 DEF Faithful, FreshAnswers, NoNewRegisters
<1>4. Deaf' /\ OneLiveClient' /\ OnlineIsReal'
  BY <1>1 DEF Deaf, OneLiveClient, OnlineIsReal
<1>. QED BY <1>2, <1>3, <1>4 DEF WebInv

\* A step of gateway and server that sends client g one event, e.
LEMMA EmitInv ==
  ASSUME WebInv, NEW g \in Clients, NEW e \in Event, Emits(g, e),
         sock[g] = "open" /\ e.type = "connected" => e.username = asked[g],
         UNCHANGED <<page_vars, client_vars, out, account>>,
         \A h \in Clients : answer'[h] \in {answer[h], None}, ServerTypes'
  PROVE  WebInv'
<1>. USE DEF page_vars, shown_vars, client_vars
<1>1. /\ WebTypeOK /\ Deaf /\ OneLiveClient /\ OnlineIsReal
      /\ \A h \in Clients : Unheard(h) /\ Faithful(h)
  BY DEF WebInv
<1>2. /\ events' \in [Clients -> Seq(Event)] /\ OnlyNewEvent(g, e)
      /\ \A h \in Clients : sock[h] # "open" => events'[h] = events[h]
  BY <1>1, EmitsShape
<1>3. WebTypeOK'
  BY <1>1, <1>2 DEF WebTypeOK, ServerTypes
<1>4. ASSUME NEW h \in Clients PROVE Faithful(h)'
  <2>1. ASSUME sock[h] = "open", NEW i \in 1 .. Len(events'[h]),
               events'[h][i].type = "connected"
        PROVE  events'[h][i].username = asked[h]
    BY <1>1, <1>2, <2>1 DEF OnlyNewEvent, Faithful
  <2>2. sock[h] = "open" /\ Kind(answer'[h], "connected") => answer'[h].username = asked[h]
    BY <1>1 DEF Kind, Faithful
  <2>. QED BY <1>1, <2>1, <2>2 DEF Faithful
<1>5. OneLiveClient' /\ OnlineIsReal' /\ Deaf'
  BY <1>1, <1>2 DEF OneLiveClient, OnlineIsReal, Deaf
<1>6. \A h \in Clients : Unheard(h)'
  BY <1>1 DEF Unheard
<1>. QED BY <1>3, <1>4, <1>5, <1>6 DEF WebInv

\* What a session thread takes to answer.
LEMMA AnswerTakes ==
  ASSUME WebInv, NEW g \in Clients, Answer(g)
  PROVE  /\ out[g] \in Seq(Request) /\ Head(out[g]) \in Request
         /\ 1 \in 1 .. Len(out[g]) /\ Head(out[g]) = out[g][1]
         /\ out' \in [Clients -> Seq(Request)] /\ NoNewRegisters
         /\ out'[g] = Tail(out[g]) /\ \A h \in Clients \ {g} : out'[h] = out[h]
         /\ sock[g] \notin {"none", "connecting"}
         /\ sock[g] = "open" /\ Head(out[g]).command = "register" =>
              Head(out[g]).arg = asked[g]
<1>1. /\ out \in [Clients -> Seq(Request)] /\ out[g] # <<>>
      /\ out' = [out EXCEPT ![g] = Tail(out[g])]
  BY DEF WebInv, WebTypeOK, Answer
<1>2. /\ Head(out[g]) \in Request /\ Tail(out[g]) \in Seq(Request)
      /\ Len(out[g]) \in Nat \ {0} /\ Len(Tail(out[g])) = Len(out[g]) - 1
      /\ Head(out[g]) = out[g][1]
      /\ \A i \in 1 .. Len(out[g]) - 1 : Tail(out[g])[i] = out[g][i + 1]
  BY <1>1, TailOf
<1>3. out' \in [Clients -> Seq(Request)]
  BY <1>1, <1>2
<1>4. NoNewRegisters
  <2>. SUFFICES ASSUME NEW h \in Clients, NEW i \in 1 .. Len(out'[h])
                PROVE  \E j \in 1 .. Len(out[h]) : out'[h][i] = out[h][j]
    BY DEF NoNewRegisters
  <2>1. CASE h = g
    BY <1>1, <1>2, <2>1
  <2>2. CASE h # g
    BY <1>1, <2>2
  <2>. QED BY <2>1, <2>2
<1>5. sock[g] \notin {"none", "connecting"}
  BY <1>1 DEF WebInv, Unheard
<1>6. sock[g] = "open" /\ Head(out[g]).command = "register" => Head(out[g]).arg = asked[g]
  BY <1>2 DEF WebInv, Faithful
<1>. QED BY <1>1, <1>2, <1>3, <1>4, <1>5, <1>6

\* What the session thread of g then has to send: an event, e.
LEMMA AnswerHolds ==
  ASSUME WebInv, NEW g \in Clients, Answer(g), NEW e \in Event, Holds(g, e),
         sock[g] = "open" /\ e.type = "connected" => e.username = asked[g],
         \A h \in Clients \ {g} : account'[h] = account[h],
         account' \in [Clients -> Names \cup {None}],
         srv_status' \in [Clients -> Status],
         where' \in [Names -> Hosts \cup {None}],
         refused' \in [Clients -> Seq(Names)],
         rejected' \in [Clients -> BOOLEAN],
         moved' \in [Clients -> SUBSET Names]
  PROVE  WebInv'
<1>1. /\ WebTypeOK /\ answer' = [answer EXCEPT ![g] = e] /\ answer'[g] = e
      /\ UNCHANGED <<page_vars, client_vars, events, link, warning, late>>
      /\ out' \in [Clients -> Seq(Request)] /\ NoNewRegisters
      /\ \A h \in Clients \ {g} : out'[h] = out[h] /\ answer'[h] = answer[h]
      /\ sock[g] \notin {"none", "connecting"}
  BY AnswerTakes DEF WebInv, WebTypeOK, Answer, Holds
<1>2. ServerTypes'
  BY <1>1 DEF WebTypeOK, ServerTypes
<1>3. FreshAnswers
  BY <1>1 DEF FreshAnswers, Kind
<1>4. \A h \in Clients : Unheard(h)'
  BY <1>1 DEF WebInv, Unheard, client_vars
<1>. QED BY <1>1, <1>2, <1>3, <1>4, SilentInv

\* The session thread takes a request.
LEMMA AnswerInv ==
  ASSUME WebInv, NEW g \in Clients, Answer(g)
  PROVE  WebInv'
<1>. DEFINE r == Head(out[g])
<1>1. /\ r \in Request
      /\ sock[g] = "open" /\ r.command = "register" => r.arg = asked[g]
  BY AnswerTakes
<1>2. /\ ServerTypes /\ account \in [Clients -> Names \cup {None}]
      /\ where \in [Names -> Hosts \cup {None}]
      /\ srv_status \in [Clients -> Status]
      /\ refused \in [Clients -> Seq(Names)] /\ refused[g] \in Seq(Names)
      /\ rejected \in [Clients -> BOOLEAN] /\ moved \in [Clients -> SUBSET Names]
  BY DEF WebInv, WebTypeOK, ServerTypes
<1>3. \/ r.command = "register" /\ AnswerRegister(g, r.arg)
      \/ r.command = "list"     /\ AnswerList(g)
      \/ r.command = "info"     /\ AnswerInfo(g, r.arg)
      \/ r.command = "status"   /\ AnswerStatus(g, r.arg)
      \/ r.command = "chat"     /\ AnswerChat(g)
  BY DEF Answer
<1>. HIDE DEF r
<1>4. CASE r.command = "register" /\ AnswerRegister(g, r.arg)
  <2>1. r.arg \in Names
    BY <1>1, <1>4, RequestFields
  <2>2. CASE /\ account' = [account EXCEPT ![g] = r.arg]
             /\ srv_status' = [srv_status EXCEPT ![g] = "ACTIVE"]
             /\ where' = [where EXCEPT ![r.arg] = Home]
             /\ Stirs(r.arg)
             /\ Holds(g, [type |-> "connected", username |-> r.arg])
             /\ UNCHANGED <<refused, rejected>>
    <3>1. [type |-> "connected", username |-> r.arg] \in Event
      BY <2>1 DEF Event
    <3>2. moved' \in [Clients -> SUBSET Names]
      BY <1>2, <2>1, <2>2 DEF Stirs
    <3>3. /\ account' \in [Clients -> Names \cup {None}]
          /\ where' \in [Names -> Hosts \cup {None}]
          /\ srv_status' \in [Clients -> Status]
      BY <1>2, <2>1, <2>2, WebAssumption DEF Status
    <3>. QED BY <1>1, <1>2, <1>4, <2>2, <3>1, <3>2, <3>3, AnswerHolds
  <2>3. ASSUME NEW ip_taken \in BOOLEAN,
               Holds(g, [type |-> "error", ip_taken |-> ip_taken]),
               rejected' = [rejected EXCEPT ![g] = ~ip_taken],
               UNCHANGED <<table_vars, refused>>
        PROVE  WebInv'
    <3>1. [type |-> "error", ip_taken |-> ip_taken] \in Event
      BY DEF Event
    <3>2. rejected' \in [Clients -> BOOLEAN]
      BY <1>2, <2>3
    <3>. QED BY <1>2, <2>3, <3>1, <3>2, AnswerHolds DEF table_vars
  <2>. QED BY <1>4, <2>2, <2>3 DEF AnswerRegister
<1>5. CASE r.command = "list" /\ AnswerList(g)
  <2>1. [type |-> "user_list", users |-> {n \in Names : where[n] # None}] \in Event
    BY DEF Event
  <2>2. moved' \in [Clients -> SUBSET Names]
    BY <1>2, <1>5 DEF AnswerList
  <2>. QED BY <1>2, <1>5, <2>1, <2>2, AnswerHolds DEF AnswerList
<1>6. CASE r.command = "info" /\ AnswerInfo(g, r.arg)
  <2>. DEFINE n == r.arg
              queue == Append(refused[g], n)
              e == [type |-> "user_info", username |-> Head(queue), ip |-> where[n],
                    status |-> IF n = account[g] THEN srv_status[g] ELSE "BUSY"]
  <2>1. n \in Names
    BY <1>1, <1>6, RequestFields
  <2>2. queue \in Seq(Names) /\ queue # <<>>
    BY <1>2, <2>1, AppendProperties
  <2>3. Head(queue) \in Names /\ Tail(queue) \in Seq(Names)
    BY <2>2, TailOf
  <2>4. UNCHANGED <<account, srv_status, where, rejected>>
    BY <1>6 DEF AnswerInfo
  <2>. HIDE DEF queue, n
  <2>5. CASE /\ where[n] # None /\ Holds(g, e) /\ refused' = [refused EXCEPT ![g] = Tail(queue)]
             /\ moved' = [moved EXCEPT ![g] = @ \ {n}]
    <3>1. where[n] \in Hosts
      BY <1>2, <2>1, <2>5
    <3>2. e \in Event
      BY <1>2, <2>1, <2>3, <3>1 DEF Event, Status
    <3>3. /\ refused' \in [Clients -> Seq(Names)] /\ moved' \in [Clients -> SUBSET Names]
          /\ e.type # "connected"
      BY <1>2, <2>3, <2>5
    <3>. HIDE DEF e
    <3>. QED BY <1>2, <2>4, <2>5, <3>2, <3>3, AnswerHolds
  <2>6. CASE /\ Holds(g, [type |-> "error", ip_taken |-> FALSE])
             /\ refused' = [refused EXCEPT ![g] = queue] /\ UNCHANGED moved
    <3>1. [type |-> "error", ip_taken |-> FALSE] \in Event
      BY DEF Event
    <3>2. refused' \in [Clients -> Seq(Names)]
      BY <1>2, <2>2, <2>6
    <3>. QED BY <1>2, <2>4, <2>6, <3>1, <3>2, AnswerHolds
  <2>. QED BY <1>6, <2>5, <2>6 DEF AnswerInfo, queue, n
<1>7. CASE r.command = "status" /\ AnswerStatus(g, r.arg)
  <2>1. r.arg \in Status
    BY <1>1, <1>7, RequestFields
  <2>2. [type |-> "status_changed", status |-> r.arg] \in Event
    BY <2>1 DEF Event
  <2>3. srv_status' \in [Clients -> Status]
    BY <1>2, <1>7, <2>1 DEF AnswerStatus
  <2>. QED BY <1>2, <1>7, <2>2, <2>3, AnswerHolds DEF AnswerStatus
<1>8. CASE r.command = "chat" /\ AnswerChat(g)
  <2>1. [type |-> "message", scope |-> "system", words |-> {}] \in Event
    BY DEF Event, StatusWords
  <2>. QED BY <1>2, <1>8, <2>1, AnswerHolds DEF AnswerChat, table_vars
<1>. QED BY <1>3, <1>4, <1>5, <1>6, <1>7, <1>8

\* The session thread sends its answer.
LEMMA ReplyInv ==
  ASSUME WebInv, NEW g \in Clients, Reply(g)
  PROVE  WebInv'
<1>1. WebTypeOK /\ answer[g] \in Event /\ answer[g] # None
  BY DEF WebInv, WebTypeOK, Reply
<1>2. sock[g] = "open" /\ answer[g].type = "connected" => answer[g].username = asked[g]
  BY <1>1 DEF WebInv, Faithful, Kind
<1>3. ServerTypes'
  <2>1. late' \in [Clients -> BOOLEAN]
    BY <1>1 DEF WebTypeOK, Reply, Tells
  <2>. QED BY <1>1, <2>1 DEF WebTypeOK, ServerTypes, Reply, Holds, table_vars
<1>4. \A h \in Clients : answer'[h] \in {answer[h], None}
  BY <1>1 DEF Reply, Holds, WebTypeOK
<1>. QED BY <1>1, <1>2, <1>3, <1>4, EmitInv DEF Reply, Tells, table_vars

\* The end of a connection: the server forgets its user.
LEMMA ForgetsInv ==
  ASSUME WebInv, NEW g \in Clients, Forgets(g),
         out' \in [Clients -> Seq(Request)], NoNewRegisters,
         \A h \in Clients : out[h] = <<>> => out'[h] = <<>>
  PROVE  WebInv'
<1>1. WebTypeOK /\ \A h \in Clients : Unheard(h)
  BY DEF WebInv
<1>2. /\ link' = [link EXCEPT ![g] = "down"] /\ account' = [account EXCEPT ![g] = None]
      /\ srv_status' = [srv_status EXCEPT ![g] = "ACTIVE"]
      /\ where' = [n \in Names |-> IF n = account[g] THEN None ELSE where[n]]
      /\ answer' = [answer EXCEPT ![g] = None] /\ late' = [late EXCEPT ![g] = FALSE]
      /\ refused' = [refused EXCEPT ![g] = <<>>]
      /\ rejected' = [rejected EXCEPT ![g] = FALSE]
      /\ Stirs(account[g])
      /\ UNCHANGED <<page_vars, client_vars, events, warning>>
  BY DEF Forgets, Holds
<1>3. moved' \in [Clients -> SUBSET Names]
  BY <1>1, <1>2 DEF Stirs, WebTypeOK
<1>4. ServerTypes'
  <2>1. refused' \in [Clients -> Seq(Names)]
    BY <1>1, <1>2 DEF WebTypeOK
  <2>2. rejected' \in [Clients -> BOOLEAN] /\ late' \in [Clients -> BOOLEAN]
    BY <1>1, <1>2 DEF WebTypeOK
  <2>3. /\ account' \in [Clients -> Names \cup {None}] /\ srv_status' \in [Clients -> Status]
        /\ link' \in [Clients -> {"up", "down"}] /\ where' \in [Names -> Hosts \cup {None}]
        /\ answer' \in [Clients -> Event \cup {None}] /\ warning' \in Clients \cup {None}
    BY <1>1, <1>2 DEF WebTypeOK, Status
  <2>. QED BY <1>3, <2>1, <2>2, <2>3 DEF ServerTypes
<1>5. FreshAnswers
  BY <1>1, <1>2 DEF FreshAnswers, Kind, WebTypeOK
<1>6. \A h \in Clients : Unheard(h)'
  BY <1>1, <1>2 DEF Unheard, client_vars, WebTypeOK
<1>. QED BY <1>2, <1>4, <1>5, <1>6, SilentInv

\* A LOGOUT.
LEMMA LogoutInv ==
  ASSUME WebInv, NEW g \in Clients, Logout(g)
  PROVE  WebInv'
<1>1. /\ out \in [Clients -> Seq(Request)] /\ out[g] # <<>>
      /\ out' = [out EXCEPT ![g] = Tail(out[g])]
  BY DEF WebInv, WebTypeOK, Logout
<1>2. /\ Tail(out[g]) \in Seq(Request)
      /\ Len(out[g]) \in Nat \ {0} /\ Len(Tail(out[g])) = Len(out[g]) - 1
      /\ \A i \in 1 .. Len(out[g]) - 1 : Tail(out[g])[i] = out[g][i + 1]
  BY <1>1, TailOf
<1>3. NoNewRegisters
  <2>. SUFFICES ASSUME NEW h \in Clients, NEW i \in 1 .. Len(out'[h])
                PROVE  \E j \in 1 .. Len(out[h]) : out'[h][i] = out[h][j]
    BY DEF NoNewRegisters
  <2>1. CASE h = g
    BY <1>1, <1>2, <2>1
  <2>2. CASE h # g
    BY <1>1, <2>2
  <2>. QED BY <2>1, <2>2
<1>. QED BY <1>1, <1>2, <1>3, ForgetsInv DEF Logout

\* A connection that is lost.
LEMMA CutInv ==
  ASSUME WebInv, NEW g \in Clients, Cut(g)
  PROVE  WebInv'
<1>1. out \in [Clients -> Seq(Request)] /\ out' = [out EXCEPT ![g] = <<>>]
  BY DEF WebInv, WebTypeOK, Cut
<1>2. <<>> \in Seq(Request) /\ Len(<<>>) = 0
  OBVIOUS
<1>3. NoNewRegisters
  BY <1>1, <1>2 DEF NoNewRegisters
<1>. QED BY <1>1, <1>2, <1>3, ForgetsInv DEF Cut

\* What nobody on the page has asked for: the watchdog and the other users.
LEMMA WorldInv ==
  ASSUME WebInv,
         \/ \E g \in Clients : Mark(g) \/ Others(g)
         \/ Warn
         \/ \E n \in Names : Comes(n) \/ Goes(n)
  PROVE  WebInv'
<1>1. /\ WebTypeOK /\ ServerTypes /\ out \in [Clients -> Seq(Request)]
      /\ \A h \in Clients : Unheard(h)
  BY DEF WebInv, WebTypeOK, ServerTypes
<1>2. ASSUME UNCHANGED <<page_vars, client_vars, out, events, account, answer>>, ServerTypes'
      PROVE  WebInv'
  <2>1. \A h \in Clients : Unheard(h)'
    BY <1>1, <1>2 DEF Unheard, client_vars
  <2>. QED BY <1>1, <1>2, <2>1, OldRequests, SilentInv DEF FreshAnswers
<1>3. ASSUME NEW g \in Clients, Mark(g) PROVE WebInv'
  <2>1. ServerTypes'
    BY <1>1, <1>3 DEF Mark, ServerTypes, Status
  <2>. QED BY <1>2, <1>3, <2>1 DEF Mark
<1>4. ASSUME Warn PROVE WebInv'
  <2>1. /\ warning' = None
        /\ UNCHANGED <<page_vars, client_vars, out, link, table_vars, answer, refused, rejected>>
    BY <1>4 DEF Warn
  <2>2. ASSUME NEW g \in Clients,
               Tells(g, [type |-> "message", scope |-> "system", words |-> {"ACTIVE", "INACTIVE"}],
                     {"INACTIVE"})
        PROVE  WebInv'
    <3>. DEFINE e == [type |-> "message", scope |-> "system", words |-> {"ACTIVE", "INACTIVE"}]
    <3>1. e \in Event /\ e.type = "message"
      BY DEF Event, StatusWords
    <3>2. Emits(g, e) /\ late' \in [Clients -> BOOLEAN]
      BY <1>1, <2>2 DEF Tells, ServerTypes
    <3>. HIDE DEF e
    <3>3. ServerTypes'
      BY <1>1, <2>1, <3>2 DEF ServerTypes, table_vars
    <3>. QED BY <1>1, <2>1, <3>1, <3>2, <3>3, EmitInv DEF table_vars
  <2>3. ASSUME UNCHANGED <<events, late>> PROVE WebInv'
    BY <1>1, <1>2, <2>1, <2>3 DEF ServerTypes, table_vars
  <2>. QED BY <1>4, <2>2, <2>3 DEF Warn
<1>5. ASSUME NEW g \in Clients, Others(g) PROVE WebInv'
  <2>1. /\ account[g] \in Names /\ ServerTypes'
        /\ UNCHANGED <<page_vars, client_vars, out, account, answer>>
    BY <1>1, <1>5 DEF Others, server_vars, table_vars, ServerTypes
  <2>2. ASSUME NEW e \in Event, e.type = "message", Emits(g, e) PROVE WebInv'
    BY <1>1, <2>1, <2>2, EmitInv
  <2>3. ASSUME NEW n \in Names, NEW scope \in {"broadcast", "direct"} \cap Chatter,
               Emits(g, [type |-> "message", scope |-> scope, from |-> n,
                         target |-> IF scope = "direct" THEN account[g] ELSE None])
        PROVE  WebInv'
    <3>1. [type |-> "message", scope |-> scope, from |-> n,
           target |-> IF scope = "direct" THEN account[g] ELSE None] \in Event
      BY <2>1 DEF Event
    <3>. QED BY <2>2, <2>3, <3>1
  <2>4. ASSUME NEW n \in Names,
               Emits(g, [type |-> "message", scope |-> "system", words |-> Words[n]])
        PROVE  WebInv'
    <3>1. [type |-> "message", scope |-> "system", words |-> Words[n]] \in Event
      BY WebAssumption DEF Event
    <3>. QED BY <2>2, <2>4, <3>1
  <2>. QED BY <1>5, <2>3, <2>4 DEF Others
<1>6. ASSUME NEW n \in Names, Comes(n) \/ Goes(n) PROVE WebInv'
  <2>1. /\ where' \in [Names -> Hosts \cup {None}] /\ Stirs(n)
        /\ UNCHANGED <<page_vars, client_vars, out, events, link, account, srv_status, answer,
                       warning, refused, rejected, late>>
    <3>1. where \in [Names -> Hosts \cup {None}]
      BY <1>1 DEF ServerTypes
    <3>2. CASE Comes(n)
      <4>1. PICK a \in Hosts : where' = [where EXCEPT ![n] = a]
        BY <3>2 DEF Comes
      <4>. QED BY <3>1, <3>2, <4>1 DEF Comes
    <3>3. CASE Goes(n)
      BY <3>1, <3>3 DEF Goes
    <3>. QED BY <1>6, <3>2, <3>3
  <2>2. moved' \in [Clients -> SUBSET Names]
    BY <1>1, <2>1 DEF Stirs, ServerTypes
  <2>3. ServerTypes'
    BY <1>1, <2>1, <2>2 DEF ServerTypes
  <2>. QED BY <1>2, <2>1, <2>3
<1>. QED BY <1>3, <1>4, <1>5, <1>6

-----------------------------------------------------------------------------
(* What the page shows, and what the server has.  The page shows a status  *)
(* before the server has it, and is told of everything late.  What counts  *)
(* is the upshot: what it will show once it has handled what waits for it. *)

\* Handling e changes the status on the page of the user me, to Said(e).
Telling(e, me) ==
  \/ e.type \in {"connected", "status_changed"}
  \/ e.type = "user_info" /\ e.username = me
  \/ e.type = "message" /\ e.scope = "system" /\ e.words # {}

Said(e) ==
  IF e.type = "connected" THEN "ACTIVE"
  ELSE IF e.type = "message" THEN (IF "INACTIVE" \in e.words THEN "INACTIVE" ELSE "ACTIVE")
  ELSE e.status

AnswersAbout(e, n) == Kind(e, "user_info") /\ e.username = n

\* What each event makes of the status of me, and of the address of n.
StatusBy(me) == [e \in {x \in Event : Telling(x, me)} |-> Said(e)]
AddressBy(n) == [e \in {x \in Event : AnswersAbout(x, n)} |-> e.ip]

\* What shows s will show v once the events q are handled, of which those in
\* the domain of F replace it.
Upshot(s, q, F, v) ==
  /\ (\A i \in 1 .. Len(q) : q[i] \notin DOMAIN F) => s = v
  /\ \A i \in 1 .. Len(q) :
       q[i] \in DOMAIN F /\ (\A j \in i + 1 .. Len(q) : q[j] \notin DOMAIN F)
         => F[q[i]] = v

Pending(q, R) == \E i \in 1 .. Len(q) : q[i] \in R
StatusRequests == {r \in Request : r.command = "status"}
ListRequests   == {r \in Request : r.command = "list"}
Awaits(g, type) ==
  Kind(answer[g], type) \/ \E i \in 1 .. Len(events[g]) : events[g][i].type = type

\* An open client has its account under the name it asked for, and has it while
\* it or its page believes so.  The texts it gets in answer say no status.
Registered(g) ==
  sock[g] = "open" =>
    /\ account[g] \in {None, asked[g]}
    /\ link[g] = "up" /\ (connected \/ Awaits(g, "connected")) => account[g] # None
    /\ Kind(answer[g], "message") => answer[g].scope = "system" /\ answer[g].words = {}

\* A registered client whose INFOs were all answered.
Live(g) == sock[g] = "open" /\ link[g] = "up" /\ account[g] # None /\ refused[g] = <<>>

\* Its page comes to show the status of the server, unless something is still
\* to be said about it, or what was said last was out of date.
Tracks(g) ==
  Live(g) /\ self[g] = account[g] =>
    \/ Pending(out[g], StatusRequests)
    \/ answer[g] # None /\ Telling(answer[g], self[g])
    \/ warning = g \/ late[g]
    \/ Upshot(status, events[g], StatusBy(self[g]), srv_status[g])

\* And it comes to show where n is, unless it is still to ask, or n has moved.
Placed(g, n) ==
  \/ n \notin DOMAIN users \/ n \in moved[g]
  \/ Pending(out[g], {Ask("info", n)})
  \/ IF AnswersAbout(answer[g], n) THEN answer[g].ip = where[n]
     ELSE Upshot(users[n], events[g], AddressBy(n), where[n])

ListDue(g) ==
  Pending(out[g], ListRequests) \/ Awaits(g, "user_list") \/ Awaits(g, "connected")

Located(g) == Live(g) => ListDue(g) \/ \A n \in Names : Placed(g, n)

Settled(g) == Registered(g) /\ (NoNameSpellsAStatus => Tracks(g)) /\ Located(g)

SettleInv == \A g \in Clients : Settled(g)

\* Handling the first event leaves the upshot as it is.
LEMMA UpshotTail ==
  ASSUME NEW q \in Seq(Event), q # <<>>, NEW s, NEW F, NEW v, Upshot(s, q, F, v),
         NEW t, t = IF Head(q) \in DOMAIN F THEN F[Head(q)] ELSE s
  PROVE  Upshot(t, Tail(q), F, v)
<1>1. /\ Len(q) \in Nat \ {0} /\ Len(Tail(q)) = Len(q) - 1 /\ Head(q) = q[1]
      /\ \A i \in 1 .. Len(q) - 1 : Tail(q)[i] = q[i + 1]
  BY TailOf
<1>2. ASSUME \A i \in 1 .. Len(Tail(q)) : Tail(q)[i] \notin DOMAIN F
      PROVE  t = v
  <2>1. ASSUME NEW j \in 2 .. Len(q) PROVE q[j] \notin DOMAIN F
    <3>1. j - 1 \in 1 .. Len(q) - 1 /\ (j - 1) + 1 = j
      BY <1>1
    <3>. QED BY <1>1, <1>2, <3>1
  <2>2. CASE q[1] \in DOMAIN F
    BY <1>1, <2>1, <2>2 DEF Upshot
  <2>3. CASE q[1] \notin DOMAIN F
    <3>1. \A i \in 1 .. Len(q) : q[i] \notin DOMAIN F
      BY <1>1, <2>1, <2>3
    <3>. QED BY <1>1, <2>3, <3>1 DEF Upshot
  <2>. QED BY <2>2, <2>3
<1>3. ASSUME NEW i \in 1 .. Len(Tail(q)), Tail(q)[i] \in DOMAIN F,
             \A j \in i + 1 .. Len(Tail(q)) : Tail(q)[j] \notin DOMAIN F
      PROVE  F[Tail(q)[i]] = v
  <2>1. i + 1 \in 1 .. Len(q) /\ Tail(q)[i] = q[i + 1]
    BY <1>1
  <2>2. ASSUME NEW j \in (i + 1) + 1 .. Len(q) PROVE q[j] \notin DOMAIN F
    <3>1. j - 1 \in 1 .. Len(q) - 1 /\ j - 1 \in i + 1 .. Len(Tail(q)) /\ (j - 1) + 1 = j
      BY <1>1
    <3>2. Tail(q)[j - 1] = q[(j - 1) + 1]
      BY <1>1, <3>1
    <3>. QED BY <1>3, <3>1, <3>2
  <2>. QED BY <1>3, <2>1, <2>2 DEF Upshot
<1>. QED BY <1>2, <1>3 DEF Upshot

\* What one more event makes of the upshot.
LEMMA UpshotAppend ==
  ASSUME NEW q \in Seq(Event), NEW e \in Event, NEW s, NEW F, NEW v,
         IF e \in DOMAIN F THEN F[e] = v ELSE Upshot(s, q, F, v)
  PROVE  Upshot(s, Append(q, e), F, v)
<1>1. /\ Len(q) \in Nat /\ Len(Append(q, e)) = Len(q) + 1
      /\ \A i \in 1 .. Len(q) + 1 : Append(q, e)[i] = IF i = Len(q) + 1 THEN e ELSE q[i]
  BY AppendOne, LenProperties
<1>2. Append(q, e)[Len(q) + 1] = e /\ \A i \in 1 .. Len(q) : Append(q, e)[i] = q[i]
  BY <1>1
<1>3. ASSUME \A i \in 1 .. Len(q) + 1 : Append(q, e)[i] \notin DOMAIN F
      PROVE  s = v
  <2>1. e \notin DOMAIN F
    BY <1>1, <1>2, <1>3
  <2>2. \A i \in 1 .. Len(q) : q[i] \notin DOMAIN F
    BY <1>1, <1>2, <1>3
  <2>. QED BY <2>1, <2>2 DEF Upshot
<1>4. ASSUME NEW i \in 1 .. Len(q) + 1, Append(q, e)[i] \in DOMAIN F,
             \A j \in i + 1 .. Len(q) + 1 : Append(q, e)[j] \notin DOMAIN F
      PROVE  F[Append(q, e)[i]] = v
  <2>1. CASE i = Len(q) + 1
    BY <1>2, <1>4, <2>1
  <2>2. CASE i # Len(q) + 1
    <3>1. i \in 1 .. Len(q) /\ Len(q) + 1 \in i + 1 .. Len(q) + 1
      BY <1>1, <2>2
    <3>2. e \notin DOMAIN F /\ Append(q, e)[i] = q[i]
      BY <1>2, <1>4, <3>1
    <3>3. ASSUME NEW j \in i + 1 .. Len(q) PROVE q[j] \notin DOMAIN F
      <4>1. j \in i + 1 .. Len(q) + 1 /\ j \in 1 .. Len(q)
        BY <1>1, <3>1
      <4>. QED BY <1>2, <1>4, <4>1
    <3>. QED BY <1>4, <3>1, <3>2, <3>3 DEF Upshot
  <2>. QED BY <2>1, <2>2
<1>. QED BY <1>1, <1>3, <1>4 DEF Upshot

\* send() takes no request away, and adds those it is given if the other end
\* is there.
LEMMA SentKeeps ==
  ASSUME WebTypeOK, NEW g \in Clients, NEW requests \in Seq(Request),
         out' = Sent(g, requests)
  PROVE  /\ \A h \in Clients, R \in SUBSET Request : Pending(out[h], R) => Pending(out'[h], R)
         /\ sock[g] = "open" /\ link[g] = "up" =>
              \A R \in SUBSET Request : Pending(requests, R) => Pending(out'[g], R)
<1>1. out \in [Clients -> Seq(Request)]
  BY DEF WebTypeOK
<1>. DEFINE joint == out[g] \o requests
<1>2. /\ Len(joint) = Len(out[g]) + Len(requests)
      /\ \A i \in 1 .. Len(joint) :
           joint[i] = IF i <= Len(out[g]) THEN out[g][i] ELSE requests[i - Len(out[g])]
  BY <1>1, ConcatProperties
<1>3. Len(out[g]) \in Nat /\ Len(requests) \in Nat
  BY <1>1, LenProperties
<1>. HIDE DEF joint
<1>4. /\ out' = out \/ out' = [out EXCEPT ![g] = joint]
      /\ sock[g] = "open" /\ link[g] = "up" => out' = [out EXCEPT ![g] = joint]
  BY DEF Sent, joint
<1>5. ASSUME NEW R \in SUBSET Request, Pending(out[g], R) PROVE Pending(joint, R)
  <2>1. PICK i \in 1 .. Len(out[g]) : out[g][i] \in R
    BY <1>5 DEF Pending
  <2>2. i \in 1 .. Len(joint) /\ i <= Len(out[g])
    BY <1>2, <1>3
  <2>. QED BY <1>2, <2>1, <2>2 DEF Pending
<1>6. ASSUME NEW R \in SUBSET Request, Pending(requests, R) PROVE Pending(joint, R)
  <2>1. PICK i \in 1 .. Len(requests) : requests[i] \in R
    BY <1>6 DEF Pending
  <2>2. /\ Len(out[g]) + i \in 1 .. Len(joint) /\ ~ (Len(out[g]) + i <= Len(out[g]))
        /\ (Len(out[g]) + i) - Len(out[g]) = i
    BY <1>2, <1>3
  <2>3. joint[Len(out[g]) + i] = requests[i]
    BY <1>2, <2>2
  <2>. QED BY <2>1, <2>2, <2>3 DEF Pending
<1>. QED BY <1>1, <1>4, <1>5, <1>6

\* Taking a request leaves the others.
LEMMA TailKeeps ==
  ASSUME NEW q \in Seq(Request), q # <<>>, NEW R, Head(q) \notin R, Pending(q, R)
  PROVE  Pending(Tail(q), R)
<1>1. /\ Len(q) \in Nat \ {0} /\ Len(Tail(q)) = Len(q) - 1 /\ Head(q) = q[1]
      /\ \A i \in 1 .. Len(q) - 1 : Tail(q)[i] = q[i + 1]
  BY TailOf
<1>2. PICK i \in 1 .. Len(q) : q[i] \in R
  BY DEF Pending
<1>3. i # 1 /\ i - 1 \in 1 .. Len(Tail(q)) /\ (i - 1) + 1 = i
  BY <1>1, <1>2
<1>4. Tail(q)[i - 1] = q[i]
  BY <1>1, <1>3
<1>. QED BY <1>2, <1>3, <1>4 DEF Pending

-----------------------------------------------------------------------------
(* What the page shows: the user, and the sockets.                         *)

\* Where no socket is open, nothing is shown.
LEMMA NobodyLive ==
  ASSUME \A h \in Clients : sock'[h] # "open"
  PROVE  SettleInv'
BY DEF SettleInv, Settled, Registered, Tracks, Located, Live

\* A request of the user, who may have changed the status on display.
LEMMA AskSettled ==
  ASSUME WebInv, SettleInv, NEW r \in Request, gatewayRef \in Clients,
         sock[gatewayRef] = "open", r.command = "status" \/ UNCHANGED status,
         out' = Sent(gatewayRef, <<r>>),
         UNCHANGED <<connected, users, client_vars, events, server_vars>>
  PROVE  SettleInv'
<1>. USE DEF client_vars, server_vars, table_vars
<1>1. WebTypeOK /\ OneLiveClient
  BY DEF WebInv
<1>2. <<r>> \in Seq(Request) /\ Len(<<r>>) = 1 /\ <<r>>[1] = r
  OBVIOUS
<1>3. r.command = "status" => Pending(<<r>>, StatusRequests)
  BY <1>2 DEF Pending, StatusRequests
<1>4. /\ \A h \in Clients, R \in SUBSET Request : Pending(out[h], R) => Pending(out'[h], R)
      /\ link[gatewayRef] = "up" /\ r.command = "status" =>
           Pending(out'[gatewayRef], StatusRequests)
  <2>1. StatusRequests \in SUBSET Request
    BY DEF StatusRequests
  <2>. QED BY <1>1, <1>2, <1>3, <2>1, SentKeeps
<1>. SUFFICES ASSUME NEW h \in Clients PROVE Settled(h)'
  BY DEF SettleInv
<1>5. Settled(h)
  BY DEF SettleInv
<1>6. Registered(h)'
  BY <1>5 DEF Settled, Registered, Awaits
<1>7. ASSUME NoNameSpellsAStatus PROVE Tracks(h)'
  <2>1. Tracks(h) /\ StatusRequests \in SUBSET Request
    BY <1>5, <1>7 DEF Settled, StatusRequests
  <2>2. sock[h] = "open" => h = gatewayRef
    BY <1>1 DEF OneLiveClient
  <2>3. CASE r.command = "status"
    BY <1>4, <2>2, <2>3 DEF Tracks, Live
  <2>4. CASE UNCHANGED status
    BY <1>4, <2>1, <2>4 DEF Tracks, Live
  <2>. QED BY <2>3, <2>4
<1>8. Located(h)'
  <2>. SUFFICES ASSUME Live(h) PROVE ListDue(h)' \/ \A n \in Names : Placed(h, n)'
    BY DEF Located, Live
  <2>1. CASE ListDue(h)
    BY <1>4, <2>1 DEF ListDue, Awaits, ListRequests
  <2>2. ASSUME NEW n \in Names, Placed(h, n) PROVE Placed(h, n)'
    <3>1. {Ask("info", n)} \in SUBSET Request
      BY DEF Ask, Request
    <3>. QED BY <1>4, <2>2, <3>1 DEF Placed
  <2>. QED BY <1>5, <2>1, <2>2 DEF Settled, Located
<1>. QED BY <1>6, <1>7, <1>8 DEF Settled, NoNameSpellsAStatus

\* Every step of the user.
LEMMA UserSettled ==
  ASSUME WebInv, SettleInv, User
  PROVE  SettleInv'
<1>1. ASSUME connected PROVE gatewayRef \in Clients /\ sock[gatewayRef] = "open"
  BY <1>1 DEF WebInv, OnlineIsReal, WebTypeOK
<1>2. ASSUME NEW s \in Picks, handleStatusChange(s) PROVE SettleInv'
  <2>1. Ask("status", s) \in Request /\ Ask("status", s).command = "status"
    BY WebAssumption DEF Ask, Request
  <2>. QED BY <1>1, <1>2, <2>1, AskSettled DEF handleStatusChange, shown_vars
<1>3. ASSUME NEW command \in {"list", "chat"}, UserSends(command) PROVE SettleInv'
  <2>1. Ask(command, None) \in Request
    BY DEF Ask, Request
  <2>. QED BY <1>1, <1>3, <2>1, AskSettled DEF UserSends, page_vars, shown_vars
<1>4. ASSUME NEW g \in Clients, NEW n \in Names, handleConnect(g, n) PROVE SettleInv'
  <2>1. \A h \in Clients : sock'[h] # "open"
    BY <1>4, ClosedCurrent DEF handleConnect, WebInv, WebTypeOK
  <2>. QED BY <2>1, NobodyLive
<1>5. ASSUME disconnect PROVE SettleInv'
  <2>1. \A h \in Clients : sock'[h] # "open"
    BY <1>5, ClosedCurrent DEF disconnect, WebInv
  <2>. QED BY <2>1, NobodyLive
<1>. QED
  BY <1>2, <1>3, <1>4, <1>5 DEF User, refreshUsers, handleSend

\* The open event: the client has no account yet.
LEMMA OpenSettled ==
  ASSUME WebInv, NEW g \in Clients, OnOpen(g)
  PROVE  SettleInv'
<1>1. /\ sock[g] = "connecting" /\ sock' = [sock EXCEPT ![g] = "open"]
      /\ ~ connected' /\ UNCHANGED <<events, account, answer>>
  BY DEF OnOpen, Pill, server_vars, table_vars
<1>2. /\ WebTypeOK /\ OneLiveClient /\ events[g] = <<>>
      /\ answer[g] = None /\ account[g] = None
  BY <1>1 DEF WebInv, Deaf, Unheard
<1>3. \A h \in Clients \ {g} : sock'[h] # "open"
  BY <1>1, <1>2 DEF OneLiveClient, WebTypeOK
<1>4. Len(events'[g]) = 0 /\ answer'[g] = None /\ account'[g] = None
  BY <1>1, <1>2
<1>. SUFFICES ASSUME NEW h \in Clients PROVE Settled(h)'
  BY DEF SettleInv
<1>. QED
  BY <1>1, <1>3, <1>4 DEF Settled, Registered, Awaits, Kind, Tracks, Located, Live

\* The close event.
LEMMA CloseSettled ==
  ASSUME WebInv, SettleInv, NEW g \in Clients, OnClose(g)
  PROVE  SettleInv'
<1>1. /\ sock' = [sock EXCEPT ![g] = "closed"]
      /\ self' = [self EXCEPT ![g] = None] /\ asked' = [asked EXCEPT ![g] = None]
      /\ ~ connected' /\ events' = Heard(events)
      /\ UNCHANGED <<status, users, out, server_vars>>
  BY DEF OnClose, Ends, Pill
<1>2. WebTypeOK
  BY DEF WebInv
<1>. SUFFICES ASSUME NEW h \in Clients, sock'[h] = "open" PROVE Settled(h)'
  BY DEF SettleInv, Settled, Registered, Tracks, Located, Live
<1>3. /\ h # g /\ sock[h] = "open" /\ self'[h] = self[h] /\ asked'[h] = asked[h]
      /\ events'[h] = events[h]
  BY <1>1, <1>2 DEF Heard, WebTypeOK
<1>4. Settled(h)
  BY DEF SettleInv
<1>. USE DEF server_vars, table_vars
<1>5. Registered(h)'
  BY <1>1, <1>3, <1>4 DEF Settled, Registered, Awaits
<1>6. NoNameSpellsAStatus => Tracks(h)'
  BY <1>1, <1>3, <1>4 DEF Settled, Tracks, Live
<1>7. Located(h)'
  BY <1>1, <1>3, <1>4 DEF Settled, Located, Live, ListDue, Awaits, Placed
<1>. QED BY <1>5, <1>6, <1>7 DEF Settled, NoNameSpellsAStatus

-----------------------------------------------------------------------------
(* What the page shows: the messages.                                      *)

\* What the handler of an event makes of the status, the requests and the pill.
LEMMA HandleShows ==
  ASSUME WebInv, NEW g \in Clients, g = gatewayRef, NEW e \in Event, Handle(g, e)
  PROVE  /\ connected' => connected \/ e.type = "connected"
         /\ sock' = sock \/ sock' = Closed(g)
         /\ \E requests \in Seq(Request) : out' = Sent(g, requests) \/ out' = out
         /\ status' = IF Telling(e, self[g]) THEN Said(e) ELSE status
         /\ e.type = "connected" => out' = Sent(g, <<Ask("list", None)>>)
<1>1. <<>> \in Seq(Request) /\ <<Ask("list", None)>> \in Seq(Request)
  <2>1. Ask("list", None) \in Request
    BY DEF Ask, Request
  <2>. QED BY <2>1
<1>2. e.type = "user_list" => AskAbout(e.users) \in Seq(Request)
  BY EventFields, AskAboutRequests
<1>3. /\ e.type \in {"connected", "error", "user_list", "user_info", "status_changed",
                     "message"}
      /\ e.type = "message" /\ e.scope = "system" => e.words \in StatusWords
  BY DEF Event
<1>4. connected' => connected \/ e.type = "connected"
  <2>1. e.type = "connected" \/ (connected' = ("offline" = "online")) \/ UNCHANGED connected
    BY DEF Handle, Pill, shown_vars
  <2>. QED BY <2>1
<1>8. sock' = sock \/ sock' = Closed(g)
  BY DEF Handle
<1>5. /\ \/ out' = out \/ out' = Sent(g, <<Ask("list", None)>>)
         \/ e.type = "user_list" /\ out' = Sent(g, AskAbout(e.users))
      /\ e.type = "connected" => out' = Sent(g, <<Ask("list", None)>>)
  BY <1>3 DEF Handle
<1>6. \E requests \in Seq(Request) : out' = Sent(g, requests) \/ out' = out
  BY <1>1, <1>2, <1>5
<1>7. status' = IF Telling(e, self[g]) THEN Said(e) ELSE status
  <2>1. e.type = "message" /\ e.scope = "system" =>
          StatusIn(e.words) = IF e.words # {} THEN Said(e) ELSE status
    BY <1>3 DEF StatusIn, StatusWords, Said
  <2>2. e.type # "message" => Said(e) = IF e.type = "connected" THEN "ACTIVE" ELSE e.status
    BY DEF Said
  <2>. QED BY <1>3, <2>1, <2>2 DEF Handle, Telling
<1>. QED BY <1>4, <1>5, <1>6, <1>7, <1>8

\* What it makes of the list of users.
LEMMA HandleLists ==
  ASSUME WebInv, NEW g \in Clients, NEW e \in Event, Handle(g, e)
  PROVE  \/ /\ e.type = "user_list" /\ DOMAIN users' = e.users
            /\ out' = Sent(g, AskAbout(e.users))
         \/ DOMAIN users' = {}
         \/ /\ e.type # "user_list" /\ DOMAIN users' = DOMAIN users
            /\ \A n \in DOMAIN users :
                 users'[n] = IF AnswersAbout(e, n) THEN e.ip ELSE users[n]
<1>1. e # None
  BY WebAssumption
<1>2. CASE e.type = "user_info" /\ users' = WithAddress(e.username, e.ip)
  BY <1>1, <1>2 DEF WithAddress, AnswersAbout, Kind
<1>3. CASE e.type \notin {"user_list", "user_info"} /\ UNCHANGED users
  BY <1>3 DEF AnswersAbout, Kind
<1>4. CASE /\ e.type = "user_list"
           /\ users' = [n \in e.users |-> IF n \in DOMAIN users THEN users[n] ELSE None]
           /\ out' = Sent(g, AskAbout(e.users))
  BY <1>4
<1>5. CASE users' = [n \in {} |-> None]
  BY <1>5
<1>. QED BY <1>2, <1>3, <1>4, <1>5 DEF Handle

\* A message event.
LEMMA MessageSettled ==
  ASSUME WebInv, SettleInv, NEW g \in Clients, OnMessage(g)
  PROVE  SettleInv'
<1>. DEFINE e == Head(events[g])
<1>1. /\ WebTypeOK /\ sock[g] = "open" /\ g = gatewayRef
      /\ \A h \in Clients \ {g} : sock[h] \notin {"connecting", "open"}
      /\ events \in [Clients -> Seq(Event)] /\ events[g] \in Seq(Event)
      /\ events[g] # <<>>
  BY DEF WebInv, OnMessage, OneLiveClient, WebTypeOK
<1>2. /\ e \in Event /\ e = events[g][1] /\ 1 \in 1 .. Len(events[g])
      /\ Len(events[g]) \in Nat \ {0} /\ Len(Tail(events[g])) = Len(events[g]) - 1
      /\ \A i \in 1 .. Len(events[g]) - 1 : Tail(events[g])[i] = events[g][i + 1]
  BY <1>1, TailOf
<1>3. /\ events' \in [Clients -> Seq(Event)] /\ NoNewEvents
      /\ sock'[g] = "open" => events'[g] = Tail(events[g])
      /\ UNCHANGED <<self, asked, server_vars>>
  BY <1>1, HeardTail DEF OnMessage, Heard
<1>. HIDE DEF e
<1>4. Handle(g, e)
  BY DEF OnMessage, e
<1>5. /\ connected' => connected \/ e.type = "connected"
      /\ sock' = sock \/ sock' = Closed(g)
      /\ \E requests \in Seq(Request) : out' = Sent(g, requests) \/ out' = out
      /\ status' = IF Telling(e, self[g]) THEN Said(e) ELSE status
      /\ e.type = "connected" => out' = Sent(g, <<Ask("list", None)>>)
  BY <1>1, <1>2, <1>4, HandleShows
<1>6. \A R \in SUBSET Request : Pending(out[g], R) => Pending(out'[g], R)
  BY <1>1, <1>5, SentKeeps
<1>7. \A h \in Clients \ {g} : sock'[h] # "open"
  BY <1>1, <1>5 DEF Closed, WebTypeOK
<1>. SUFFICES ASSUME sock'[g] = "open" PROVE Settled(g)'
  BY <1>7 DEF SettleInv, Settled, Registered, Tracks, Located, Live
<1>8. Settled(g) /\ events'[g] = Tail(events[g])
  BY <1>3 DEF SettleInv
<1>. USE DEF server_vars, table_vars
<1>9. Registered(g)'
  <2>1. ASSUME link[g] = "up", connected' \/ Awaits(g, "connected")'
        PROVE  connected \/ Awaits(g, "connected")
    BY <1>2, <1>3, <1>5, <2>1 DEF NoNewEvents, Awaits
  <2>. QED BY <1>1, <1>3, <1>8, <2>1 DEF Settled, Registered
<1>10. ASSUME NoNameSpellsAStatus PROVE Tracks(g)'
  <2>. DEFINE F == StatusBy(self[g])
  <2>1. Tracks(g) /\ StatusRequests \in SUBSET Request
    BY <1>8, <1>10 DEF Settled, StatusRequests
  <2>2. status' = IF e \in DOMAIN F THEN F[e] ELSE status
    BY <1>2, <1>5 DEF StatusBy
  <2>. HIDE DEF F
  <2>3. Upshot(status, events[g], F, srv_status[g])
          => Upshot(status', Tail(events[g]), F, srv_status[g])
    BY <1>1, <2>2, UpshotTail DEF e
  <2>. QED BY <1>1, <1>3, <1>6, <1>8, <2>1, <2>3 DEF Tracks, Live, F
<1>11. Located(g)'
  <2>. SUFFICES ASSUME Live(g) PROVE ListDue(g)' \/ \A n \in Names : Placed(g, n)'
    BY <1>1, <1>3 DEF Located, Live
  <2>1. CASE e.type = "connected"
    <3>1. Ask("list", None) \in ListRequests /\ <<Ask("list", None)>> \in Seq(Request)
          /\ ListRequests \in SUBSET Request
      BY DEF Ask, Request, ListRequests
    <3>2. Pending(<<Ask("list", None)>>, ListRequests)
      BY <3>1 DEF Pending
    <3>3. Pending(out'[g], ListRequests)
      BY <1>1, <1>5, <2>1, <3>1, <3>2, SentKeeps DEF Live
    <3>. QED BY <3>3 DEF ListDue
  <2>2. CASE /\ e.type = "user_list" /\ DOMAIN users' = e.users
             /\ out' = Sent(g, AskAbout(e.users))
    <3>. SUFFICES ASSUME NEW n \in e.users PROVE Pending(out'[g], {Ask("info", n)})
      BY <2>2 DEF Placed
    <3>1. e.users \in SUBSET Names
      BY <1>2, <2>2, EventFields
    <3>2. /\ {Ask("info", n)} \in SUBSET Request
          /\ AskAbout(e.users) \in Seq(Request)
          /\ Pending(AskAbout(e.users), {Ask("info", n)})
      <4>1. Ask("info", n) \in Request
        BY <3>1 DEF Ask, Request
      <4>2. /\ AskAbout(e.users) \in Seq(Request)
            /\ \E i \in 1 .. Len(AskAbout(e.users)) : AskAbout(e.users)[i] = Ask("info", n)
        BY <3>1, AskAboutRequests
      <4>. QED BY <4>1, <4>2 DEF Pending
    <3>. QED BY <1>1, <2>2, <3>2, SentKeeps DEF Live
  <2>3. CASE DOMAIN users' = {}
    BY <2>3 DEF Placed
  <2>4. CASE /\ e.type \notin {"user_list", "connected"} /\ DOMAIN users' = DOMAIN users
             /\ \A n \in DOMAIN users :
                  users'[n] = IF AnswersAbout(e, n) THEN e.ip ELSE users[n]
    <3>1. ASSUME NEW type \in {"user_list", "connected"}, Awaits(g, type)
          PROVE  Awaits(g, type)'
      <4>1. CASE Kind(answer[g], type)
        BY <1>3, <4>1 DEF Awaits
      <4>2. ASSUME NEW i \in 1 .. Len(events[g]), events[g][i].type = type
            PROVE  \E j \in 1 .. Len(events'[g]) : events'[g][j].type = type
        <5>1. i # 1 /\ i - 1 \in 1 .. Len(Tail(events[g])) /\ (i - 1) + 1 = i
          BY <1>2, <2>4, <4>2
        <5>2. Tail(events[g])[i - 1] = events[g][i]
          BY <1>2, <5>1
        <5>. QED BY <1>8, <4>2, <5>1, <5>2
      <4>. QED BY <3>1, <4>1, <4>2 DEF Awaits
    <3>2. CASE ListDue(g)
      <4>1. ListRequests \in SUBSET Request
        BY DEF ListRequests
      <4>. QED BY <1>6, <3>1, <3>2, <4>1 DEF ListDue
    <3>3. ASSUME NEW n \in Names, Placed(g, n) PROVE Placed(g, n)'
      <4>. DEFINE F == AddressBy(n)
      <4>1. {Ask("info", n)} \in SUBSET Request
        BY DEF Ask, Request
      <4>2. n \in DOMAIN users => users'[n] = IF e \in DOMAIN F THEN F[e] ELSE users[n]
        BY <1>2, <2>4 DEF AddressBy
      <4>. HIDE DEF F
      <4>3. n \in DOMAIN users /\ Upshot(users[n], events[g], F, where[n])
              => Upshot(users'[n], Tail(events[g]), F, where[n])
        BY <1>1, <4>2, UpshotTail DEF e
      <4>. QED BY <1>3, <1>6, <1>8, <2>4, <3>3, <4>1, <4>3 DEF Placed, F
    <3>. QED BY <1>8, <3>2, <3>3 DEF Settled, Located
  <2>. QED BY <1>2, <1>4, <2>1, <2>2, <2>3, <2>4, HandleLists
<1>. QED BY <1>9, <1>10, <1>11 DEF Settled, NoNameSpellsAStatus

-----------------------------------------------------------------------------
(* What the page shows: the gateway, the server and the others.            *)

\* A client that a step does not touch, however others come and go.
LEMMA Bystander ==
  ASSUME NEW h \in Clients, Settled(h), UNCHANGED <<page_vars, client_vars>>,
         out'[h] = out[h], events'[h] = events[h], answer'[h] = answer[h],
         account'[h] = account[h], link'[h] = link[h], refused'[h] = refused[h],
         srv_status'[h] = srv_status[h], late'[h] = late[h],
         warning = h /\ link[h] = "up" => warning' = h,
         account[h] # None =>
           \A n \in Names : n \in moved'[h] \/ (n \notin moved[h] /\ where'[n] = where[n])
  PROVE  Settled(h)'
<1>. USE DEF page_vars, shown_vars, client_vars
<1>1. Registered(h)'
  BY DEF Settled, Registered, Awaits
<1>2. ASSUME NoNameSpellsAStatus PROVE Tracks(h)'
  BY <1>2 DEF Settled, Tracks, Live
<1>3. Located(h)'
  <2>. SUFFICES ASSUME Live(h) PROVE ListDue(h)' \/ \A n \in Names : Placed(h, n)'
    BY DEF Located, Live
  <2>1. ListDue(h) => ListDue(h)'
    BY DEF ListDue, Awaits
  <2>2. ASSUME NEW n \in Names, Placed(h, n) PROVE Placed(h, n)'
    BY <2>2 DEF Live, Placed
  <2>. QED BY <2>1, <2>2 DEF Settled, Located
<1>. QED BY <1>1, <1>2, <1>3 DEF Settled, NoNameSpellsAStatus

\* What is waited for is not lost when an event is sent, which is that of the
\* session thread or another; and none but that of the thread is a new one.
LEMMA EmitAwaits ==
  ASSUME WebTypeOK, NEW g \in Clients, sock[g] = "open", NEW e \in Event, Emits(g, e),
         \/ answer'[g] = answer[g] /\ e.type = "message"
         \/ answer[g] = e /\ answer'[g] = None,
         NEW type \in {"connected", "user_list"}
  PROVE  Awaits(g, type)' = Awaits(g, type)
<1>1. events[g] \in Seq(Event) /\ events'[g] = Append(events[g], e) /\ e # None
  BY WebAssumption DEF Emits, WebTypeOK
<1>2. /\ Len(events'[g]) = Len(events[g]) + 1
      /\ \A i \in 1 .. Len(events[g]) + 1 :
           events'[g][i] = IF i = Len(events[g]) + 1 THEN e ELSE events[g][i]
      /\ Len(events[g]) \in Nat
  BY <1>1, AppendOne, LenProperties
<1>3. ASSUME NEW i \in 1 .. Len(events[g]), events[g][i].type = type
      PROVE  \E j \in 1 .. Len(events'[g]) : events'[g][j].type = type
  <2>1. i \in 1 .. Len(events[g]) + 1 /\ i # Len(events[g]) + 1
    BY <1>2
  <2>2. i \in 1 .. Len(events'[g]) /\ events'[g][i] = events[g][i]
    BY <1>2, <2>1
  <2>. QED BY <1>3, <2>2
<1>4. Len(events[g]) + 1 \in 1 .. Len(events'[g]) /\ events'[g][Len(events[g]) + 1] = e
  BY <1>2
<1>5. ASSUME NEW i \in 1 .. Len(events'[g]), events'[g][i].type = type
      PROVE  e.type = type \/ \E j \in 1 .. Len(events[g]) : events[g][j].type = type
  <2>1. CASE i = Len(events[g]) + 1
    BY <1>4, <1>5, <2>1
  <2>2. CASE i # Len(events[g]) + 1
    <3>1. i \in 1 .. Len(events[g]) /\ events'[g][i] = events[g][i]
      BY <1>2, <2>2
    <3>. QED BY <1>5, <3>1
  <2>. QED BY <2>1, <2>2
<1>6. CASE answer'[g] = answer[g] /\ e.type = "message"
  BY <1>3, <1>5, <1>6 DEF Awaits
<1>7. CASE answer[g] = e /\ answer'[g] = None
  <2>1. Kind(answer[g], type) = (e.type = type) /\ ~ Kind(answer'[g], type)
    BY <1>1, <1>7 DEF Kind
  <2>2. Awaits(g, type) => Awaits(g, type)'
    BY <1>3, <1>4, <2>1 DEF Awaits
  <2>3. Awaits(g, type)' => Awaits(g, type)
    BY <1>5, <2>1 DEF Awaits
  <2>. QED BY <2>2, <2>3 DEF Awaits
<1>. QED BY <1>6, <1>7

\* An event, e, is sent to client g: by its session thread, whose answer it is,
\* or by another.  What it says of a status is noted if it is out of date.
LEMMA EmitSettled ==
  ASSUME WebInv, SettleInv, NEW g \in Clients, NEW e \in Event, Emits(g, e),
         UNCHANGED <<page_vars, client_vars, out, link, table_vars, refused>>,
         \A h \in Clients \ {g} :
           /\ answer'[h] = answer[h] /\ late'[h] = late[h]
           /\ warning = h /\ link[h] = "up" => warning' = h,
         \/ answer'[g] = answer[g] /\ e.type = "message"
         \/ answer[g] = e /\ answer'[g] = None,
         NoNameSpellsAStatus /\ Live(g) /\ self[g] = account[g] =>
           IF Telling(e, self[g]) THEN late'[g] \/ Said(e) = srv_status[g]
           ELSE (late[g] => late'[g]) /\ (warning = g => warning' = g)
  PROVE  SettleInv'
<1>. USE DEF page_vars, shown_vars, client_vars, table_vars
<1>1. WebTypeOK /\ events \in [Clients -> Seq(Event)] /\ e # None
  BY WebAssumption DEF WebInv, WebTypeOK
<1>2. \A h \in Clients : Settled(h)
  BY DEF SettleInv
<1>. SUFFICES ASSUME NEW h \in Clients PROVE Settled(h)'
  BY DEF SettleInv
<1>3. CASE h # g
  <2>1. events'[h] = events[h]
    BY <1>1, <1>3 DEF Emits
  <2>. QED BY <1>2, <1>3, <2>1, Bystander
<1>4. CASE sock[g] # "open" /\ h = g
  BY <1>4 DEF Settled, Registered, Tracks, Located, Live
<1>5. CASE sock[g] = "open" /\ h = g
  <2>1. /\ events[g] \in Seq(Event) /\ events'[g] = Append(events[g], e) /\ Settled(g)
        /\ Live(g)' = Live(g)
    BY <1>1, <1>2, <1>5 DEF Emits, Live
  <2>2. \A type \in {"connected", "user_list"} : Awaits(g, type)' = Awaits(g, type)
    BY <1>1, <1>5, EmitAwaits
  <2>3. Registered(g)'
    BY <2>1, <2>2 DEF Settled, Registered, Kind
  <2>4. ASSUME NoNameSpellsAStatus PROVE Tracks(g)'
    <3>. DEFINE F == StatusBy(self[g])
    <3>. SUFFICES ASSUME Live(g), self[g] = account[g] PROVE Tracks(g)'
      BY <2>1 DEF Tracks
    <3>1. Tracks(g)
      BY <2>1, <2>4 DEF Settled
    <3>2. /\ e \in DOMAIN F <=> Telling(e, self[g])
          /\ e \in DOMAIN F => F[e] = Said(e)
      BY DEF StatusBy
    <3>. HIDE DEF F
    <3>3. CASE Telling(e, self[g])
      <4>1. late'[g] \/ F[e] = srv_status[g]
        BY <2>4, <3>2, <3>3
      <4>2. F[e] = srv_status[g] => Upshot(status, Append(events[g], e), F, srv_status[g])
        BY <2>1, <3>2, <3>3, UpshotAppend
      <4>. QED BY <2>1, <4>1, <4>2 DEF Tracks, F
    <3>4. CASE ~ Telling(e, self[g])
      <4>1. (late[g] => late'[g]) /\ (warning = g => warning' = g)
        BY <2>4, <3>4
      <4>2. answer[g] # None /\ Telling(answer[g], self[g]) => answer'[g] = answer[g]
        BY <3>4
      <4>3. Upshot(status, events[g], F, srv_status[g])
              => Upshot(status, Append(events[g], e), F, srv_status[g])
        BY <2>1, <3>2, <3>4, UpshotAppend
      <4>. QED BY <2>1, <3>1, <4>1, <4>2, <4>3 DEF Tracks, F
    <3>. QED BY <3>3, <3>4
  <2>5. Located(g)'
    <3>. SUFFICES ASSUME Live(g) PROVE ListDue(g)' \/ \A n \in Names : Placed(g, n)'
      BY <2>1 DEF Located
    <3>1. ListDue(g) => ListDue(g)'
      BY <2>2 DEF ListDue
    <3>2. ASSUME NEW n \in Names, Placed(g, n) PROVE Placed(g, n)'
      <4>. DEFINE F == AddressBy(n)
      <4>1. /\ e \in DOMAIN F <=> AnswersAbout(e, n)
            /\ e \in DOMAIN F => F[e] = e.ip
        BY DEF AddressBy
      <4>. HIDE DEF F
      <4>2. CASE AnswersAbout(answer[g], n) /\ answer'[g] = answer[g]
        BY <3>2, <4>2 DEF Placed
      <4>3. CASE AnswersAbout(answer[g], n) /\ answer[g] = e /\ answer'[g] = None
        <5>1. ~ AnswersAbout(answer'[g], n)
          BY <4>3 DEF AnswersAbout, Kind
        <5>2. e.ip = where[n] => Upshot(users[n], Append(events[g], e), F, where[n])
          BY <2>1, <4>1, <4>3, UpshotAppend
        <5>. QED BY <2>1, <3>2, <4>3, <5>1, <5>2 DEF Placed, F
      <4>4. CASE ~ AnswersAbout(answer[g], n)
        <5>1. ~ AnswersAbout(e, n) /\ ~ AnswersAbout(answer'[g], n)
          BY <4>4 DEF AnswersAbout, Kind
        <5>2. Upshot(users[n], events[g], F, where[n])
                => Upshot(users[n], Append(events[g], e), F, where[n])
          BY <2>1, <4>1, <5>1, UpshotAppend
        <5>. QED BY <2>1, <3>2, <4>4, <5>1, <5>2 DEF Placed, F
      <4>. QED BY <4>2, <4>3, <4>4
    <3>. QED BY <2>1, <3>1, <3>2 DEF Settled, Located
  <2>. QED BY <1>5, <2>3, <2>4, <2>5 DEF Settled, NoNameSpellsAStatus
<1>. QED BY <1>3, <1>4, <1>5

\* The session thread of g has taken a request, and holds its answer, e.
LEMMA AnswerSettled ==
  ASSUME WebInv, SettleInv, NEW g \in Clients, Answer(g), NEW e \in Event, Holds(g, e),
         \A h \in Clients \ {g} :
           /\ account'[h] = account[h] /\ srv_status'[h] = srv_status[h]
           /\ refused'[h] = refused[h]
           /\ account[h] # None => \A n \in Names :
                n \in moved'[h] \/ (n \notin moved[h] /\ where'[n] = where[n]),
         sock[g] = "open" => account'[g] \in {account[g], asked[g]},
         e.type = "connected" \/ account[g] # None => account'[g] # None,
         e.type = "message" => e.scope = "system" /\ e.words = {},
         refused'[g] = <<>> =>
           /\ refused[g] = <<>>
           /\ \/ Telling(e, self[g])
              \/ /\ account'[g] = account[g] /\ srv_status'[g] = srv_status[g]
                 /\ Head(out[g]) \notin StatusRequests
           /\ \/ e.type \in {"connected", "user_list"}
              \/ /\ account'[g] = account[g] /\ where' = where
                 /\ Head(out[g]) \notin ListRequests
                 /\ \A n \in Names :
                      IF AnswersAbout(e, n) THEN e.ip = where[n]
                      ELSE Head(out[g]) # Ask("info", n) /\ (n \in moved[g] => n \in moved'[g])
  PROVE  SettleInv'
<1>. USE DEF page_vars, shown_vars, client_vars
<1>1. WebTypeOK /\ e # None
  BY WebAssumption DEF WebInv
<1>2. /\ answer[g] = None /\ answer'[g] = e /\ \A h \in Clients \ {g} : answer'[h] = answer[h]
      /\ UNCHANGED <<page_vars, client_vars, events, link, warning, late>>
      /\ out[g] \in Seq(Request) /\ out[g] # <<>>
      /\ out'[g] = Tail(out[g]) /\ \A h \in Clients \ {g} : out'[h] = out[h]
  <2>1. answer' = [answer EXCEPT ![g] = e] /\ answer[g] = None /\ out[g] # <<>>
        /\ UNCHANGED <<page_vars, client_vars, events, link, warning, late>>
    BY DEF Answer, Holds
  <2>. QED BY <1>1, <2>1, AnswerTakes DEF WebTypeOK
<1>3. \A h \in Clients : Settled(h)
  BY DEF SettleInv
<1>. SUFFICES ASSUME NEW h \in Clients PROVE Settled(h)'
  BY DEF SettleInv
<1>4. CASE h # g
  BY <1>2, <1>3, <1>4, Bystander
<1>5. CASE h = g
  <2>1. Registered(g)'
    <3>1. ASSUME sock[g] = "open" PROVE account'[g] \in {None, asked[g]}
      BY <1>3, <3>1 DEF Settled, Registered
    <3>2. ASSUME sock[g] = "open", link[g] = "up", connected \/ Awaits(g, "connected")'
          PROVE  account'[g] # None
      <4>1. Awaits(g, "connected")' => e.type = "connected" \/ Awaits(g, "connected")
        BY <1>2 DEF Awaits, Kind
      <4>. QED BY <1>3, <3>2, <4>1 DEF Settled, Registered
    <3>. QED BY <1>2, <3>1, <3>2 DEF Registered, Kind
  <2>2. ASSUME NoNameSpellsAStatus PROVE Tracks(g)'
    <3>. SUFFICES ASSUME Live(g)', self[g] = account'[g], ~ Telling(e, self[g])
                  PROVE  Tracks(g)'
      BY <1>1, <1>2 DEF Tracks
    <3>1. /\ Live(g) /\ account'[g] = account[g] /\ srv_status'[g] = srv_status[g]
          /\ Head(out[g]) \notin StatusRequests
      BY <1>2 DEF Live
    <3>2. Pending(out[g], StatusRequests) => Pending(out'[g], StatusRequests)
      BY <1>2, <3>1, TailKeeps
    <3>3. Tracks(g)
      BY <1>3, <2>2 DEF Settled
    <3>. QED BY <1>2, <3>1, <3>2, <3>3 DEF Tracks
  <2>3. Located(g)'
    <3>. SUFFICES ASSUME Live(g)', e.type \notin {"connected", "user_list"}
                  PROVE  ListDue(g)' \/ \A n \in Names : Placed(g, n)'
      BY <1>1, <1>2 DEF Located, ListDue, Awaits, Kind
    <3>1. /\ Live(g) /\ where' = where /\ Head(out[g]) \notin ListRequests
          /\ \A n \in Names :
               IF AnswersAbout(e, n) THEN e.ip = where[n]
               ELSE Head(out[g]) # Ask("info", n) /\ (n \in moved[g] => n \in moved'[g])
      BY <1>2 DEF Live
    <3>2. ASSUME ListDue(g) PROVE ListDue(g)'
      <4>1. Pending(out[g], ListRequests) => Pending(out'[g], ListRequests)
        BY <1>2, <3>1, TailKeeps
      <4>2. \A type \in {"connected", "user_list"} : Awaits(g, type) => Awaits(g, type)'
        BY <1>2 DEF Awaits, Kind
      <4>. QED BY <3>2, <4>1, <4>2 DEF ListDue
    <3>3. ASSUME NEW n \in Names, Placed(g, n) PROVE Placed(g, n)'
      <4>1. CASE AnswersAbout(e, n)
        BY <1>2, <3>1, <4>1 DEF Placed
      <4>2. CASE ~ AnswersAbout(e, n)
        <5>1. Pending(out[g], {Ask("info", n)}) => Pending(out'[g], {Ask("info", n)})
          BY <1>2, <3>1, <4>2, TailKeeps
        <5>2. ~ AnswersAbout(answer[g], n)
          BY <1>2 DEF AnswersAbout, Kind
        <5>. QED BY <1>2, <3>1, <3>3, <4>2, <5>1, <5>2 DEF Placed
      <4>. QED BY <4>1, <4>2
    <3>. QED BY <1>3, <3>1, <3>2, <3>3 DEF Settled, Located
  <2>. QED BY <1>5, <2>1, <2>2, <2>3 DEF Settled, NoNameSpellsAStatus
<1>. QED BY <1>4, <1>5

\* The session thread takes a request.
LEMMA AnswersSettled ==
  ASSUME WebInv, SettleInv, NEW g \in Clients, Answer(g)
  PROVE  SettleInv'
<1>. DEFINE r == Head(out[g])
<1>1. /\ r \in Request
      /\ sock[g] = "open" /\ r.command = "register" => r.arg = asked[g]
  BY AnswerTakes
<1>2. /\ account \in [Clients -> Names \cup {None}] /\ srv_status \in [Clients -> Status]
      /\ where \in [Names -> Hosts \cup {None}] /\ moved \in [Clients -> SUBSET Names]
      /\ refused \in [Clients -> Seq(Names)] /\ refused[g] \in Seq(Names)
  BY DEF WebInv, WebTypeOK
<1>3. \/ r.command = "register" /\ AnswerRegister(g, r.arg)
      \/ r.command = "list"     /\ AnswerList(g)
      \/ r.command = "info"     /\ AnswerInfo(g, r.arg)
      \/ r.command = "status"   /\ AnswerStatus(g, r.arg)
      \/ r.command = "chat"     /\ AnswerChat(g)
  BY DEF Answer
<1>4. /\ r.command # "status" => r \notin StatusRequests
      /\ r.command # "list" => r \notin ListRequests
      /\ \A n \in Names : r = Ask("info", n) => r.command = "info" /\ r.arg = n
  BY DEF StatusRequests, ListRequests, Ask
<1>. HIDE DEF r
<1>5. CASE r.command = "register" /\ AnswerRegister(g, r.arg)
  <2>1. r.arg \in Names /\ None \notin Names
    BY <1>1, <1>5, RequestFields, WebAssumption
  <2>2. CASE /\ account' = [account EXCEPT ![g] = r.arg]
             /\ srv_status' = [srv_status EXCEPT ![g] = "ACTIVE"]
             /\ where' = [where EXCEPT ![r.arg] = Home]
             /\ Stirs(r.arg)
             /\ Holds(g, [type |-> "connected", username |-> r.arg])
             /\ UNCHANGED <<refused, rejected>>
    <3>. DEFINE e == [type |-> "connected", username |-> r.arg]
    <3>1. e \in Event /\ e.type = "connected" /\ Telling(e, self[g])
      BY <2>1 DEF Event, Telling
    <3>2. ASSUME NEW h \in Clients \ {g}, account[h] # None, NEW n \in Names
          PROVE  n \in moved'[h] \/ (n \notin moved[h] /\ where'[n] = where[n])
      BY <1>2, <2>1, <2>2, <3>2 DEF Stirs
    <3>3. /\ account'[g] = r.arg
          /\ \A h \in Clients \ {g} : /\ account'[h] = account[h]
                                      /\ srv_status'[h] = srv_status[h]
                                      /\ refused'[h] = refused[h]
      BY <1>2, <2>2
    <3>4. Holds(g, e)
      BY <2>2
    <3>. HIDE DEF e
    <3>. QED BY <1>1, <1>5, <2>1, <2>2, <3>1, <3>2, <3>3, <3>4, AnswerSettled
  <2>3. ASSUME NEW ip_taken \in BOOLEAN,
               Holds(g, [type |-> "error", ip_taken |-> ip_taken]),
               UNCHANGED <<table_vars, refused>>
        PROVE  SettleInv'
    <3>. DEFINE e == [type |-> "error", ip_taken |-> ip_taken]
    <3>1. e \in Event /\ e.type = "error" /\ \A n \in Names : ~ AnswersAbout(e, n)
      BY DEF Event, AnswersAbout, Kind
    <3>2. Holds(g, e)
      BY <2>3
    <3>. HIDE DEF e
    <3>. QED BY <1>4, <1>5, <2>3, <3>1, <3>2, AnswerSettled DEF table_vars, r
  <2>. QED BY <1>5, <2>2, <2>3 DEF AnswerRegister
<1>6. CASE r.command = "list" /\ AnswerList(g)
  <2>. DEFINE e == [type |-> "user_list", users |-> {n \in Names : where[n] # None}]
  <2>1. e \in Event /\ e.type = "user_list"
    BY DEF Event
  <2>2. Holds(g, e) /\ \A h \in Clients \ {g} : moved'[h] = moved[h]
    BY <1>2, <1>6 DEF AnswerList
  <2>. HIDE DEF e
  <2>. QED BY <1>4, <1>6, <2>1, <2>2, AnswerSettled DEF AnswerList, r
<1>7. CASE r.command = "info" /\ AnswerInfo(g, r.arg)
  <2>. DEFINE n == r.arg
              queue == Append(refused[g], n)
              e == [type |-> "user_info", username |-> Head(queue), ip |-> where[n],
                    status |-> IF n = account[g] THEN srv_status[g] ELSE "BUSY"]
  <2>1. n \in Names
    BY <1>1, <1>7, RequestFields
  <2>2. /\ queue \in Seq(Names) /\ queue # <<>> /\ Len(queue) = Len(refused[g]) + 1
        /\ Head(queue) = IF Len(refused[g]) = 0 THEN n ELSE refused[g][1]
    BY <1>2, <2>1, AppendProperties, HeadTailProperties, LenProperties
  <2>3. Head(queue) \in Names /\ Tail(queue) \in Seq(Names) /\ Len(Tail(queue)) = Len(queue) - 1
    BY <2>2, TailOf
  <2>4. UNCHANGED <<account, srv_status, where, rejected>>
    BY <1>7 DEF AnswerInfo
  <2>. HIDE DEF queue
  <2>5. CASE /\ where[n] # None /\ Holds(g, e) /\ refused' = [refused EXCEPT ![g] = Tail(queue)]
             /\ moved' = [moved EXCEPT ![g] = @ \ {n}]
    <3>1. where[n] \in Hosts
      BY <1>2, <2>1, <2>5
    <3>2. /\ e \in Event /\ e.type = "user_info" /\ e.username = Head(queue)
          /\ e.ip = where[n]
      BY <1>2, <2>1, <2>3, <3>1 DEF Event, Status
    <3>3. /\ \A h \in Clients \ {g} : refused'[h] = refused[h] /\ moved'[h] = moved[h]
          /\ refused'[g] = Tail(queue) /\ moved'[g] = moved[g] \ {n}
      BY <1>2, <2>5
    <3>4. refused'[g] = <<>> => refused[g] = <<>> /\ Head(queue) = n
      <4>1. Len(<<>>) = 0 /\ Len(refused[g]) \in Nat
        BY <1>2, LenProperties
      <4>2. Len(refused[g]) = 0 => refused[g] = <<>>
        BY <1>2, EmptySeq
      <4>. QED BY <2>2, <2>3, <3>3, <4>1, <4>2
    <3>. HIDE DEF e
    <3>5. e # None
      BY <3>2, WebAssumption
    <3>6. ASSUME refused'[g] = <<>>, NEW m \in Names
          PROVE  IF AnswersAbout(e, m) THEN e.ip = where[m]
                 ELSE r # Ask("info", m) /\ (m \in moved[g] => m \in moved'[g])
      <4>1. AnswersAbout(e, m) <=> m = n
        BY <3>2, <3>4, <3>5, <3>6 DEF AnswersAbout, Kind
      <4>2. r = Ask("info", m) => m = n
        BY <1>4
      <4>. QED BY <3>2, <3>3, <4>1, <4>2
    <3>. HIDE DEF n
    <3>. QED BY <1>4, <1>7, <2>4, <2>5, <3>2, <3>3, <3>4, <3>6, AnswerSettled DEF r
  <2>6. CASE /\ Holds(g, [type |-> "error", ip_taken |-> FALSE])
             /\ refused' = [refused EXCEPT ![g] = queue] /\ UNCHANGED moved
    <3>. DEFINE d == [type |-> "error", ip_taken |-> FALSE]
    <3>1. d \in Event /\ d.type = "error" /\ Holds(g, d)
      BY <2>6 DEF Event
    <3>2. refused'[g] # <<>> /\ \A h \in Clients \ {g} : refused'[h] = refused[h]
      BY <1>2, <2>2, <2>6
    <3>. HIDE DEF d
    <3>. QED BY <2>4, <2>6, <3>1, <3>2, AnswerSettled
  <2>. QED BY <1>7, <2>5, <2>6 DEF AnswerInfo, queue
<1>8. CASE r.command = "status" /\ AnswerStatus(g, r.arg)
  <2>. DEFINE e == [type |-> "status_changed", status |-> r.arg]
  <2>1. r.arg \in Status
    BY <1>1, <1>8, RequestFields
  <2>2. /\ e \in Event /\ e.type = "status_changed" /\ Telling(e, self[g])
        /\ \A n \in Names : ~ AnswersAbout(e, n)
    BY <2>1 DEF Event, Telling, AnswersAbout, Kind
  <2>3. /\ Holds(g, e) /\ \A h \in Clients \ {g} : srv_status'[h] = srv_status[h]
        /\ UNCHANGED <<account, where, moved, refused>>
    BY <1>2, <1>8 DEF AnswerStatus
  <2>. HIDE DEF e
  <2>. QED BY <1>4, <1>8, <2>2, <2>3, AnswerSettled DEF r
<1>9. CASE r.command = "chat" /\ AnswerChat(g)
  <2>. DEFINE e == [type |-> "message", scope |-> "system", words |-> {}]
  <2>1. /\ e \in Event /\ e.type = "message" /\ e.scope = "system" /\ e.words = {}
        /\ \A n \in Names : ~ AnswersAbout(e, n)
    BY DEF Event, StatusWords, AnswersAbout, Kind
  <2>2. Holds(g, e) /\ UNCHANGED <<table_vars, refused>>
    BY <1>9 DEF AnswerChat
  <2>. HIDE DEF e
  <2>. QED BY <1>4, <1>9, <2>1, <2>2, AnswerSettled DEF table_vars, r
<1>. QED BY <1>3, <1>5, <1>6, <1>7, <1>8, <1>9

\* It sends its answer.
LEMMA ReplySettled ==
  ASSUME WebInv, SettleInv, NEW g \in Clients, Reply(g)
  PROVE  SettleInv'
<1>. DEFINE e == answer[g]
<1>1. /\ WebTypeOK /\ e \in Event /\ Emits(g, e) /\ answer'[g] = None
      /\ late' = [late EXCEPT ![g] = IF OwnStatus(g, e) = {} THEN late[g]
                                     ELSE srv_status[g] \notin OwnStatus(g, e)]
      /\ \A h \in Clients \ {g} : answer'[h] = answer[h]
      /\ UNCHANGED <<page_vars, client_vars, out, link, table_vars, warning, refused>>
  BY DEF WebInv, WebTypeOK, Reply, Tells, Holds
<1>2. /\ \A h \in Clients \ {g} : late'[h] = late[h]
      /\ late'[g] = IF OwnStatus(g, e) = {} THEN late[g]
                    ELSE srv_status[g] \notin OwnStatus(g, e)
  BY <1>1 DEF WebTypeOK
<1>3. ASSUME Live(g), self[g] = account[g]
      PROVE  IF Telling(e, self[g]) THEN late'[g] \/ Said(e) = srv_status[g]
             ELSE late[g] => late'[g]
  <2>1. Kind(e, "message") => e.scope = "system" /\ e.words = {}
    BY <1>3 DEF SettleInv, Settled, Registered, Live
  <2>2. e # None
    BY <1>1, WebAssumption
  <2>3. /\ Telling(e, self[g]) => OwnStatus(g, e) = {Said(e)}
        /\ ~ Telling(e, self[g]) => OwnStatus(g, e) = {}
    BY <1>3, <2>1, <2>2 DEF Telling, OwnStatus, Said, Kind
  <2>. QED BY <1>2, <2>3
<1>. HIDE DEF e
<1>4. answer[g] = e
  BY DEF e
<1>. QED BY <1>1, <1>2, <1>3, <1>4, EmitSettled

\* The connection of g has ended, and its user left.
LEMMA ForgetsSettled ==
  ASSUME WebInv, SettleInv, NEW g \in Clients, Forgets(g),
         \A h \in Clients \ {g} : out'[h] = out[h]
  PROVE  SettleInv'
<1>1. /\ WebTypeOK /\ None \notin Names
      /\ link' = [link EXCEPT ![g] = "down"] /\ account' = [account EXCEPT ![g] = None]
      /\ srv_status' = [srv_status EXCEPT ![g] = "ACTIVE"]
      /\ where' = [n \in Names |-> IF n = account[g] THEN None ELSE where[n]]
      /\ answer' = [answer EXCEPT ![g] = None] /\ late' = [late EXCEPT ![g] = FALSE]
      /\ refused' = [refused EXCEPT ![g] = <<>>]
      /\ Stirs(account[g])
      /\ UNCHANGED <<page_vars, client_vars, events, warning>>
  BY WebAssumption DEF WebInv, Forgets, Holds
<1>2. link'[g] = "down" /\ account'[g] = None /\ answer'[g] = None
  BY <1>1 DEF WebTypeOK
<1>. SUFFICES ASSUME NEW h \in Clients PROVE Settled(h)'
  BY DEF SettleInv
<1>3. CASE h = g
  BY <1>2, <1>3 DEF Settled, Registered, Kind, Tracks, Located, Live
<1>4. CASE h # g
  <2>1. /\ account'[h] = account[h] /\ link'[h] = link[h] /\ srv_status'[h] = srv_status[h]
        /\ answer'[h] = answer[h] /\ late'[h] = late[h] /\ refused'[h] = refused[h]
    BY <1>1, <1>4 DEF WebTypeOK
  <2>2. ASSUME account[h] # None, NEW n \in Names
        PROVE  n \in moved'[h] \/ (n \notin moved[h] /\ where'[n] = where[n])
    BY <1>1, <2>1, <2>2 DEF Stirs
  <2>. QED BY <1>1, <1>4, <2>1, <2>2, Bystander DEF SettleInv
<1>. QED BY <1>3, <1>4

\* A LOGOUT, or a connection that is lost.
LEMMA GoneSettled ==
  ASSUME WebInv, SettleInv, NEW g \in Clients, Logout(g) \/ Cut(g)
  PROVE  SettleInv'
<1>1. \A h \in Clients \ {g} : out'[h] = out[h]
  BY DEF WebInv, WebTypeOK, Logout, Cut
<1>. QED BY <1>1, ForgetsSettled DEF Logout, Cut

\* What nobody on the page has asked for: the watchdog and the other users.
LEMMA WorldSettled ==
  ASSUME WebInv, SettleInv,
         \/ \E g \in Clients : Mark(g) \/ Others(g)
         \/ Warn
         \/ \E n \in Names : Comes(n) \/ Goes(n)
  PROVE  SettleInv'
<1>1. /\ WebTypeOK /\ None \notin Names
      /\ \A h \in Clients : Settled(h)
  BY WebAssumption DEF WebInv, WebTypeOK, SettleInv
<1>2. ASSUME NEW g \in Clients, Mark(g) PROVE SettleInv'
  <2>1. /\ warning' = g /\ warning = None
        /\ \A h \in Clients \ {g} : srv_status'[h] = srv_status[h]
        /\ UNCHANGED <<page_vars, client_vars, out, events, link, account, where, moved,
                       answer, refused, late>>
    BY <1>1, <1>2 DEF Mark, WebTypeOK
  <2>2. ASSUME NEW h \in Clients \ {g} PROVE Settled(h)'
    <3>1. h # None
      BY WebAssumption
    <3>2. ASSUME NEW n \in Names, n \notin moved'[h]
          PROVE  n \notin moved[h] /\ where'[n] = where[n]
      BY <2>1, <3>2
    <3>. QED BY <1>1, <2>1, <2>2, <3>1, <3>2, Bystander
  <2>3. Settled(g)'
    <3>. USE DEF page_vars, shown_vars, client_vars
    <3>1. Registered(g)' /\ Tracks(g)'
      BY <1>1, <2>1 DEF Settled, Registered, Awaits, Tracks
    <3>2. Located(g)'
      BY <1>1, <2>1 DEF Settled, Located, Live, ListDue, Awaits, Placed
    <3>. QED BY <3>1, <3>2 DEF Settled
  <2>. QED BY <2>2, <2>3 DEF SettleInv
<1>3. CASE Warn
  <2>1. /\ warning \in Clients /\ warning' = None
        /\ UNCHANGED <<page_vars, client_vars, out, link, table_vars, answer, refused>>
    BY <1>1, <1>3 DEF Warn, WebTypeOK
  <2>2. ASSUME NEW g \in Clients, g = warning \/ link[warning] = "down",
               Tells(g, [type |-> "message", scope |-> "system", words |-> {"ACTIVE", "INACTIVE"}],
                     {"INACTIVE"})
        PROVE  SettleInv'
    <3>. DEFINE e == [type |-> "message", scope |-> "system", words |-> {"ACTIVE", "INACTIVE"}]
    <3>1. /\ e \in Event /\ e.type = "message" /\ Telling(e, self[g])
          /\ Said(e) = "INACTIVE"
      BY DEF Event, StatusWords, Telling, Said
    <3>2. Emits(g, e) /\ late' = [late EXCEPT ![g] = srv_status[g] \notin {"INACTIVE"}]
      BY <2>2 DEF Tells
    <3>. HIDE DEF e
    <3>3. /\ late'[g] \/ Said(e) = srv_status[g]
          /\ \A h \in Clients \ {g} : late'[h] = late[h]
      BY <1>1, <3>1, <3>2 DEF WebTypeOK
    <3>. QED BY <2>1, <2>2, <3>1, <3>2, <3>3, EmitSettled
  <2>3. ASSUME link[warning] = "down", UNCHANGED <<events, late>> PROVE SettleInv'
    <3>. SUFFICES ASSUME NEW h \in Clients PROVE Settled(h)'
      BY DEF SettleInv
    <3>1. ASSUME NEW n \in Names, n \notin moved'[h]
          PROVE  n \notin moved[h] /\ where'[n] = where[n]
      BY <2>1, <3>1 DEF table_vars
    <3>. QED BY <1>1, <2>1, <2>3, <3>1, Bystander DEF table_vars
  <2>. QED BY <1>3, <2>2, <2>3 DEF Warn
<1>4. ASSUME NEW g \in Clients, Others(g) PROVE SettleInv'
  <2>1. account[g] \in Names /\ UNCHANGED <<page_vars, client_vars, out, server_vars>>
    BY <1>1, <1>4 DEF Others, WebTypeOK
  <2>2. ASSUME NEW e \in Event, e.type = "message", Emits(g, e),
               NoNameSpellsAStatus => ~ Telling(e, self[g])
        PROVE  SettleInv'
    BY <2>1, <2>2, EmitSettled DEF server_vars
  <2>3. ASSUME NEW n \in Names, NEW scope \in {"broadcast", "direct"} \cap Chatter,
               Emits(g, [type |-> "message", scope |-> scope, from |-> n,
                         target |-> IF scope = "direct" THEN account[g] ELSE None])
        PROVE  SettleInv'
    <3>. DEFINE e == [type |-> "message", scope |-> scope, from |-> n,
                      target |-> IF scope = "direct" THEN account[g] ELSE None]
    <3>1. e \in Event /\ e.type = "message" /\ ~ Telling(e, self[g])
      BY <2>1 DEF Event, Telling
    <3>. HIDE DEF e
    <3>2. Emits(g, e)
      BY <2>3 DEF e
    <3>. QED BY <2>2, <3>1, <3>2
  <2>4. ASSUME NEW n \in Names,
               Emits(g, [type |-> "message", scope |-> "system", words |-> Words[n]])
        PROVE  SettleInv'
    <3>. DEFINE e == [type |-> "message", scope |-> "system", words |-> Words[n]]
    <3>1. e \in Event /\ e.type = "message"
      BY WebAssumption DEF Event
    <3>2. NoNameSpellsAStatus => ~ Telling(e, self[g])
      BY DEF NoNameSpellsAStatus, Telling
    <3>. HIDE DEF e
    <3>3. Emits(g, e)
      BY <2>4 DEF e
    <3>. QED BY <2>2, <3>1, <3>2, <3>3
  <2>. QED BY <1>4, <2>3, <2>4 DEF Others
<1>5. ASSUME NEW m \in Names, Comes(m) \/ Goes(m) PROVE SettleInv'
  <2>1. /\ Stirs(m) /\ \A n \in Names \ {m} : where'[n] = where[n]
        /\ UNCHANGED <<page_vars, client_vars, out, events, link, account, srv_status, answer,
                       warning, refused, late>>
    BY <1>1, <1>5 DEF Comes, Goes, WebTypeOK
  <2>. SUFFICES ASSUME NEW h \in Clients PROVE Settled(h)'
    BY DEF SettleInv
  <2>2. ASSUME account[h] # None, NEW n \in Names
        PROVE  n \in moved'[h] \/ (n \notin moved[h] /\ where'[n] = where[n])
    BY <1>1, <2>1, <2>2 DEF Stirs
  <2>. QED BY <1>1, <2>1, <2>2, Bystander
<1>. QED BY <1>2, <1>3, <1>4, <1>5

-----------------------------------------------------------------------------
(* The invariants.                                                         *)

\* The first holds at first.
LEMMA WebInitInv ==
  ASSUME WebInit
  PROVE  WebInv
<1>1. <<>> \in Seq(Request) /\ <<>> \in Seq(Event) /\ <<>> \in Seq(Names)
      /\ Len(<<>>) = 0
  OBVIOUS
<1>2. users \in [{} -> Hosts \cup {None}]
  BY DEF WebInit
<1>3. WebTypeOK
  BY <1>1, <1>2 DEF WebInit, WebTypeOK, Status
<1>4. Deaf /\ OneLiveClient /\ OnlineIsReal
  BY DEF WebInit, Deaf, OneLiveClient, OnlineIsReal
<1>5. \A g \in Clients : Unheard(g) /\ Faithful(g)
  BY DEF WebInit, Unheard, Faithful
<1>. QED BY <1>3, <1>4, <1>5 DEF WebInv

\* Every step preserves it.
LEMMA WebNextInv ==
  ASSUME WebInv, [WebNext]_web_vars
  PROVE  WebInv'
<1>1. CASE User
  BY <1>1, UserInv
<1>2. ASSUME NEW g \in Clients, Browser(g) PROVE WebInv'
  BY <1>2, OpenInv, MessageInv, CloseInv DEF Browser
<1>3. ASSUME NEW g \in Clients, Answer(g) \/ Reply(g) \/ Logout(g) \/ Cut(g) PROVE WebInv'
  BY <1>3, AnswerInv, ReplyInv, LogoutInv, CutInv
<1>4. CASE \/ \E g \in Clients : Mark(g) \/ Others(g)
           \/ Warn
           \/ \E n \in Names : Comes(n) \/ Goes(n)
  BY <1>4, WorldInv
<1>5. CASE UNCHANGED web_vars
  <2>. USE <1>5 DEF web_vars, server_vars, table_vars, client_vars
  <2>1. ServerTypes' /\ out' \in [Clients -> Seq(Request)] /\ NoNewRegisters
    BY OldRequests DEF WebInv, WebTypeOK, ServerTypes
  <2>2. FreshAnswers /\ \A h \in Clients : Unheard(h)'
    BY DEF WebInv, FreshAnswers, Unheard
  <2>. QED BY <2>1, <2>2, SilentInv
<1>. QED BY <1>1, <1>2, <1>3, <1>4, <1>5 DEF WebNext

\* The second holds at first.
LEMMA SettleInitInv ==
  ASSUME WebInit
  PROVE  SettleInv
BY DEF WebInit, SettleInv, Settled, Registered, Tracks, Located, Live

\* Every step preserves it.
LEMMA SettleNextInv ==
  ASSUME WebInv, SettleInv, [WebNext]_web_vars
  PROVE  SettleInv'
<1>1. CASE User
  BY <1>1, UserSettled
<1>2. ASSUME NEW g \in Clients, Browser(g) PROVE SettleInv'
  BY <1>2, OpenSettled, MessageSettled, CloseSettled DEF Browser
<1>3. ASSUME NEW g \in Clients, Answer(g) \/ Reply(g) \/ Logout(g) \/ Cut(g) PROVE SettleInv'
  BY <1>3, AnswersSettled, ReplySettled, GoneSettled
<1>4. CASE \/ \E g \in Clients : Mark(g) \/ Others(g)
           \/ Warn
           \/ \E n \in Names : Comes(n) \/ Goes(n)
  BY <1>4, WorldSettled
<1>5. CASE UNCHANGED web_vars
  <2>. USE <1>5 DEF web_vars, server_vars, table_vars
  <2>1. ASSUME NEW h \in Clients, NEW n \in Names, n \notin moved'[h]
        PROVE  n \notin moved[h] /\ where'[n] = where[n]
    BY <2>1
  <2>. QED BY <2>1, Bystander DEF SettleInv
<1>. QED BY <1>1, <1>2, <1>3, <1>4, <1>5 DEF WebNext

\* A page to which nothing is on its way, and its client.
LEMMA AtRest ==
  ASSUME WebInv, SettleInv, connected, Quiet(gatewayRef)
  PROVE  /\ gatewayRef \in Clients /\ Settled(gatewayRef)
         /\ sock[gatewayRef] = "open" /\ link[gatewayRef] = "up"
         /\ account[gatewayRef] = username
         /\ answer[gatewayRef] = None /\ warning # gatewayRef
         /\ Len(events[gatewayRef]) = 0 /\ \A R : ~ Pending(out[gatewayRef], R)
         /\ \A type \in {"connected", "user_list"} : ~ Awaits(gatewayRef, type)
<1>1. /\ gatewayRef \in Clients /\ username = asked[gatewayRef]
      /\ sock[gatewayRef] = "open" /\ link[gatewayRef] = "up"
      /\ answer[gatewayRef] = None /\ warning # gatewayRef
      /\ out[gatewayRef] = <<>> /\ events[gatewayRef] = <<>>
  BY DEF WebInv, OnlineIsReal, WebTypeOK, Quiet
<1>2. Len(out[gatewayRef]) = 0 /\ Len(events[gatewayRef]) = 0
  BY <1>1
<1>3. Settled(gatewayRef) /\ account[gatewayRef] = username
  BY <1>1 DEF SettleInv, Settled, Registered
<1>4. \A type \in {"connected", "user_list"} : ~ Awaits(gatewayRef, type)
  BY <1>1, <1>2 DEF Awaits, Kind
<1>. QED BY <1>1, <1>2, <1>3, <1>4 DEF Pending

\* Then the upshot is what is shown, of the status,
LEMMA SettledStatus ==
  ASSUME WebInv, SettleInv
  PROVE  StatusSettles
<1>. DEFINE g == gatewayRef
<1>. SUFFICES ASSUME NoNameSpellsAStatus, connected, Quiet(g), self[g] = username,
                     refused[g] = <<>>, ~ late[g]
              PROVE  status = srv_status[g]
  BY DEF StatusSettles
<1>1. Live(g) /\ Tracks(g) /\ self[g] = account[g] /\ Len(events[g]) = 0
  <2>1. username # None
    BY AtRest DEF SettleInv, Settled, Registered
  <2>. QED BY <2>1, AtRest DEF Settled, Live
<1>2. Upshot(status, events[g], StatusBy(self[g]), srv_status[g])
  BY <1>1, AtRest DEF Tracks
<1>. QED BY <1>1, <1>2 DEF Upshot

\* and of the addresses.
LEMMA SettledAddresses ==
  ASSUME WebInv, SettleInv
  PROVE  AddressesSettle
<1>. DEFINE g == gatewayRef
<1>. SUFFICES ASSUME connected, Quiet(g), refused[g] = <<>>,
                     NEW n \in DOMAIN users, n \notin moved[g]
              PROVE  users[n] = where[n]
  BY DEF AddressesSettle
<1>1. n \in Names
  BY DEF WebInv, WebTypeOK
<1>2. Live(g) /\ Located(g)
  BY AtRest DEF Settled, Registered, Live
<1>3. Placed(g, n) /\ ~ AnswersAbout(answer[g], n)
  BY <1>1, <1>2, AtRest DEF Located, ListDue, AnswersAbout, Kind
<1>4. Upshot(users[n], events[g], AddressBy(n), where[n])
  BY <1>3, AtRest DEF Placed
<1>. QED BY <1>4, AtRest DEF Upshot

-----------------------------------------------------------------------------
(* The theorems.                                                           *)

\* The invariants from which the others follow.
THEOREM WebInvariant == WebSpec => [](WebInv /\ SettleInv)
<1>1. WebInit => WebInv /\ SettleInv
  BY WebInitInv, SettleInitInv
<1>2. WebInv /\ SettleInv /\ [WebNext]_web_vars => (WebInv /\ SettleInv)'
  BY WebNextInv, SettleNextInv
<1>. QED BY <1>1, <1>2, PTL DEF WebSpec

\* The page, its clients and what is on its way are well formed, and the form
\* is shown exactly while the page is not online.
THEOREM WebTypeCorrect == WebSpec => []WebTypeOK
<1>1. WebInv => WebTypeOK
  BY DEF WebInv
<1>. QED BY <1>1, WebInvariant, PTL

\* However many logins: only the current client can open or deliver anything.
THEOREM OnlyCurrentLives == WebSpec => []OneLiveClient
<1>1. WebInv => OneLiveClient
  BY DEF WebInv
<1>. QED BY <1>1, WebInvariant, PTL

\* A page that says online has an open client, registered under the name shown.
THEOREM OnlineMeansRegistered == WebSpec => []OnlineIsReal
<1>1. WebInv => OnlineIsReal
  BY DEF WebInv
<1>. QED BY <1>1, WebInvariant, PTL

\* Whatever the user changes, and in whatever order session thread and watchdog
\* send what they have read or set: a page to which nothing is on its way shows
\* the server's status, unless what it was told last was out of date when sent.
THEOREM StatusComesTrue == WebSpec => []StatusSettles
<1>1. WebInv /\ SettleInv => StatusSettles
  BY SettledStatus
<1>. QED BY <1>1, WebInvariant, PTL

\* Over any logins, and however users leave and come back from other hosts: a
\* page to which nothing is on its way shows where each listed user is, unless
\* that user came or went since the page last asked.
THEOREM AddressesComeTrue == WebSpec => []AddressesSettle
<1>1. WebInv /\ SettleInv => AddressesSettle
  BY SettledAddresses
<1>. QED BY <1>1, WebInvariant, PTL
=============================================================================
