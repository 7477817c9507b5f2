--------------------------- MODULE MCChatDelivery ---------------------------
(* Small instances of ChatDelivery. *)
EXTENDS ChatDelivery, TLC

Fitting == [n \in Names |-> n]
Widths == [n \in Names |-> 5]
OneSock == {4}
MCSocks == {4, 5}
MCSocks3 == {4, 5, 6}

Say(command, arg) == [command |-> command, arg |-> arg]

Registers == {Say("REGISTER", n) : n \in Names}

BroadcastRequests == Registers \cup {Say("BROADCAST", None)}
DirectRequests == Registers \cup {Say("DIRECT", n) : n \in Names}
StatusRequests == Registers \cup {Say("STATUS", "BUSY")}

\* Bounds of the largest run: the watchdog has nobody to warn, at most one
\* client closes its end, in an orderly way, and one talks after registering.
FewDepartures ==
  /\ wd_pc = "awake"
  /\ Cardinality({c \in Conns : peer[c] # "open"}) <= 1
  /\ \A c \in Conns : peer[c] # "reset"
  /\ Cardinality({c \in Conns : nreq[c] > 1}) <= 1

Symmetric == Permutations(Conns) \cup Permutations(Names) \cup Permutations(IPs)
==============================================================================
