------------------------------ MODULE Directory ------------------------------
(***************************************************************************)
(* What the server's client manager promises to the sessions that use it:  *)
(* a bounded set of entries, one per connected user, in which no two       *)
(* entries share a username or an IP address.  There are no slots, no      *)
(* counter, no clock and no string copies here: those belong to the        *)
(* implementation, module ClientManager, which is shown to refine this one *)
(* (ClientManager!Refines).                                                *)
(***************************************************************************)
EXTENDS Naturals, FiniteSets

CONSTANTS Names,      \* usernames
          IPs,        \* peer addresses
          Socks,      \* socket descriptors
          Capacity    \* how many users fit

VARIABLE dir          \* the set of connected users

DirStatus == {"ACTIVE", "BUSY", "INACTIVE"}

Entry == [name : Names, ip : IPs, sock : Socks, status : DirStatus]

DirInit == dir = {}

\* A new user is admitted, as ACTIVE, only if there is room and neither its
\* name nor its address is taken.
Join(n, ip, s) ==
  /\ Cardinality(dir) < Capacity
  /\ \A e \in dir : e.name # n /\ e.ip # ip
  /\ dir' = dir \cup {[name |-> n, ip |-> ip, sock |-> s, status |-> "ACTIVE"]}

Leave(e) == dir' = dir \ {e}

ChangeStatus(e, st) == dir' = (dir \ {e}) \cup {[e EXCEPT !.status = st]}

\* Any set of users that are not INACTIVE yet becomes INACTIVE at once.
FallIdle(E) ==
  /\ \A e \in E : e.status # "INACTIVE"
  /\ dir' = (dir \ E) \cup {[e EXCEPT !.status = "INACTIVE"] : e \in E}

DirNext ==
  \/ \E n \in Names, ip \in IPs, s \in Socks : Join(n, ip, s)
  \/ \E e \in dir : Leave(e)
  \/ \E e \in dir, st \in DirStatus : ChangeStatus(e, st)
  \/ \E E \in SUBSET dir : FallIdle(E)

DirSpec == DirInit /\ [][DirNext]_dir
==============================================================================
