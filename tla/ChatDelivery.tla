----------------------------- MODULE ChatDelivery -----------------------------
(***************************************************************************)
(* What the clients of ChatServer see.  Two history variables are added;   *)
(* they record and never guard.  seen[d] is the sequence of the packets    *)
(* written to connection d, of the kinds in Traced, each with the session  *)
(* that wrote it.  owed[c] is the set of the sessions that were registered *)
(* when session c began its last broadcast or its departure.               *)
(***************************************************************************)
EXTENDS ChatServer, Sequences

CONSTANT Traced   \* the commands of the packets worth recording

ASSUME TracedAssumption ==
  Traced \subseteq {"OK", "ERROR", "MSG", "USER_LIST", "USER_INFO", "DISCONNECTED"}

VARIABLES seen, owed

delivery_vars == <<vars, seen, owed>>

DeliveryInit ==
  /\ Init
  /\ seen = [d \in Conns |-> <<>>]
  /\ owed = [c \in Conns |-> {}]

Event(packet, author) ==
  [command |-> packet.command, sender |-> packet.sender,
   target |-> packet.target, payload |-> packet.payload, by |-> author]

\* Whoever owns descriptor s now gets the packet, unless the send kills the
\* server.
Deliver(s, packet, author) ==
  seen' = [d \in Conns |->
             IF d \in Owners(s) /\ server_up' /\ packet.command \in Traced
               THEN Append(seen[d], Event(packet, author)) ELSE seen[d]]

\* Session c looks up the sockets of a broadcast, or leaves the table.
Begins(c) ==
  /\ pc'[c] # pc[c]
  /\ \/ pc[c] = "dispatch" /\ req[c].command = "BROADCAST"
     \/ pc[c] = "remove"

DeliveryNext ==
  \/ /\ server_up /\ Quiet
     /\ owed' = [c \in Conns |->
          IF Begins(c) THEN {d \in Conns \ {c} : Member(d)} ELSE owed[c]]
     /\ UNCHANGED seen
  \/ \E c \in Conns, i \in Slots :
       /\ server_up /\ FanOut(c, i)
       /\ Deliver(todo[c].to[i], todo[c].out, c)
       /\ UNCHANGED owed
  \/ \E c \in Conns :
       /\ server_up /\ Reply(c)
       /\ Deliver(sockfd[c], todo[c].reply, c)
       /\ UNCHANGED owed
  \/ \E i \in Slots :
       /\ server_up /\ WdSend(i)
       /\ Deliver(wd_events[i].sockfd, Notice(i), None)
       /\ UNCHANGED owed

DeliverySpec == DeliveryInit /\ [][DeliveryNext]_delivery_vars

FairDelivery ==
  /\ DeliverySpec
  /\ \A c \in Conns : WF_vars(SessionRuns(c))
  /\ WF_vars(WatchdogRuns)

-----------------------------------------------------------------------------
\* Session c has finished sending packet todo[c].out to everybody.
Told(c) == /\ server_up
           /\ pc[c] \in {"send", "close"}
           /\ todo[c].out # None
           /\ todo[c].out.target = "ALL"
           /\ Pending(c) = {}

\* Where d saw the packet that c has sent to everybody.
Copies(d, c) ==
  {k \in DOMAIN seen[d] : /\ seen[d][k].by = c
                          /\ seen[d][k].command = todo[c].out.command
                          /\ seen[d][k].payload = todo[c].out.payload}

\* A broadcast, and the announcement of a departure, reach every session that
\* was registered when it began and still is, exactly once, before the sender
\* is answered or closed; they never come back to the sender; and nobody,
\* late-comers and heirs of a descriptor included, sees one twice.
EveryoneToldOnce ==
  \A c \in Conns : Told(c) =>
    /\ \A d \in owed[c] : Member(d) => Cardinality(Copies(d, c)) = 1
    /\ \A d \in Conns : Cardinality(Copies(d, c)) <= 1
    /\ Copies(c, c) = {}

\* session.c: a direct message is a private message to one user.  Only
\* connections registered as the addressee ever see it.
DirectToAddressee ==
  \A d \in Conns : \A k \in DOMAIN seen[d] :
    (seen[d][k].command = "MSG" /\ seen[d][k].target \in Names)
      => username[d] = seen[d][k].target

\* What the k-th packet says the reader's status is.
SaysStatus(packet) ==
  IF packet.command = "MSG" /\ packet.sender = "SERVER" THEN {"INACTIVE"}
  ELSE IF packet.command = "OK" THEN {packet.payload[1]} \cap Status
  ELSE {}

Warnings(d, n) ==
  {k \in DOMAIN seen[d] : /\ seen[d][k].command = "MSG"
                          /\ SaysStatus(seen[d][k]) # {}
                          /\ seen[d][k].target = n}

Confirmations(c) ==
  {k \in DOMAIN seen[c] : /\ seen[c][k].command = "OK"
                          /\ SaysStatus(seen[c][k]) # {}}

WarningsTo(n) == UNION {{d} \X Warnings(d, n) : d \in Conns}

SessionsOf(n) == {c \in Conns : username[c] = n}

ConfirmationsTo(n) == UNION {{c} \X Confirmations(c) : c \in SessionsOf(n)}

\* A silent user is warned once, not at every round of the watchdog: of the
\* warnings meant for n, whoever got them, there is at most one for each time
\* that a session of n registered or changed its status (the last change may
\* not be confirmed yet).
WarnedOnce == server_up => \A n \in Names :
  Cardinality(WarningsTo(n))
    <= Cardinality(SessionsOf(n)) + Cardinality(ConfirmationsTo(n))
         + Cardinality({c \in SessionsOf(n) : pc[c] = "send"})
==============================================================================
