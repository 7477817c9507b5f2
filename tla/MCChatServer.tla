---------------------------- MODULE MCChatServer ----------------------------
(* Small instances of ChatServer. *)
EXTENDS ChatServer, TLC

Fitting == [n \in Names |-> n]
MCSocks == {4, 5}

\* Every name takes 5 bytes: two users that are ACTIVE fill 26.
Widths == [n \in Names |-> 5]

Say(command, arg) == [command |-> command, arg |-> arg]

Registers == {Say("REGISTER", n) : n \in Names}

\* Every command, each with an argument that succeeds and one that does not.
AllRequests ==
  Request \ {Say("DIRECT", None), Say("STATUS", "ACTIVE"), Say("STATUS", "INACTIVE")}

\* A user who talks to the other and leaves.
CoreRequests == Registers \cup {Say("BROADCAST", None), Say("LOGOUT", None)}

\* Bounds of the larger run: the watchdog sleeps until time has passed (at
\* time 0 nobody can be idle), and from then on users only say whether they
\* are busy, register, come and go.
LaterBusy ==
  /\ clock = 0 => wd_pc' = "awake"
  /\ clock > 0 =>
       \A c \in Conns :
         req[c]' \notin {req[c], None} => req[c]'.command = "STATUS"

Symmetric == Permutations(Conns) \cup Permutations(Names) \cup Permutations(IPs)
==============================================================================
