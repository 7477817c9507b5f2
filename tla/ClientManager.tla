---------------------------- MODULE ClientManager ----------------------------
(***************************************************************************)
(* server/client_manager.c: the table of connected clients that every      *)
(* session thread and the watchdog share.                                  *)
(*                                                                         *)
(* Each cm_* function holds g_clients_mutex from its first read of the     *)
(* table to its last write, so one action is one critical section.  A      *)
(* result that the function returns without changing the table is a state  *)
(* operator (AddResult, SocketsExcept, ...), evaluated by the caller's     *)
(* action in the state in which the mutex was taken.                       *)
(*                                                                         *)
(* Abstracted: a username is an element of Names.  What strncpy keeps of   *)
(* it (31 bytes) is Stored[n]; two different names that agree on their     *)
(* first 31 bytes have the same Stored value.  memset(0) of a slot is      *)
(* Zeroed.  time(NULL) is the variable clock, which MAX_TIME bounds.       *)
(***************************************************************************)
EXTENDS Integers, FiniteSets

CONSTANTS
  Names,                \* usernames, as the C strings found in a packet
  IPs,                  \* peer addresses, as inet_ntop prints them
  Socks,                \* file descriptors that accept may return
  None,                 \* "no value": an empty string, a zeroed field
  Stored,               \* what a 32-byte field keeps of a name
  MAX_CLIENTS,          \* slots of the table (100 in the code)
  INACTIVITY_TIMEOUT,   \* seconds (60 in the code)
  MAX_TIME              \* bound of the model: the clock stops there

ASSUME NamesAssumption ==
  /\ None \notin Names
  /\ Stored \in [Names -> Names]
  /\ \A n \in Names : Stored[Stored[n]] = Stored[n]

ASSUME IPsAssumption == None \notin IPs

ASSUME NoneAssumption == None \notin {"ACTIVE", "BUSY", "INACTIVE"}

ASSUME SocksAssumption == Socks \subseteq Nat /\ None \notin Socks

ASSUME BoundsAssumption ==
  /\ MAX_CLIENTS \in Nat
  /\ INACTIVITY_TIMEOUT \in Nat
  /\ MAX_TIME \in Nat

VARIABLES
  g_clients,        \* the table, one record per slot
  g_client_count,   \* how many slots the code believes to be in use
  clock             \* time(NULL)

cm_vars == <<g_clients, g_client_count, clock>>

-----------------------------------------------------------------------------
Slots == 0 .. MAX_CLIENTS - 1

Status == {"ACTIVE", "BUSY", "INACTIVE"}

Client == [username : Names, ip : IPs, status : Status, sockfd : Socks,
           active : {TRUE}, last_activity : Nat]

Zeroed == [username |-> None, ip |-> None, status |-> None, sockfd |-> None,
           active |-> FALSE, last_activity |-> 0]

CMTypeOK ==
  /\ g_clients \in [Slots -> Client \cup {Zeroed}]
  /\ g_client_count \in Int
  /\ clock \in Nat

cm_init ==
  /\ g_clients = [i \in Slots |-> Zeroed]
  /\ g_client_count = 0
  /\ clock = 0

-----------------------------------------------------------------------------
(* The loops over the table.  Every loop runs from slot 0 and stops at the *)
(* first slot that matches.                                                *)

First(i, S) == i \in S /\ \A j \in S : i <= j

ActiveSlots  == {i \in Slots : g_clients[i].active}
FreeSlots    == {i \in Slots : ~g_clients[i].active}
NamedSlots(n) == {i \in ActiveSlots : g_clients[i].username = n}
SockSlots(s)  == {i \in ActiveSlots : g_clients[i].sockfd = s}

\* Slips in the duplicate test: only the name, or only the address.
ClashesByName(n, ip) == {i \in ActiveSlots : g_clients[i].username = n}
ClashesByIp(n, ip)   == {i \in ActiveSlots : g_clients[i].ip = ip}

\* The slots on which cm_add_client's duplicate test fires.  The candidate
\* is compared whole with the stored, possibly shortened, usernames.
Clashes(n, ip) ==
  {i \in ActiveSlots : g_clients[i].username = n \/ g_clients[i].ip = ip}

AddResult(n, ip) ==
  CASE g_client_count >= MAX_CLIENTS -> -3
    [] g_client_count < MAX_CLIENTS /\ Clashes(n, ip) = {} -> 0
    [] OTHER ->
         IF \E i \in NamedSlots(n) : First(i, Clashes(n, ip)) THEN -1 ELSE -2

\* Slip: the status of a new client is left zeroed.
NewClientNoStatus(n, ip, s) ==
  [username |-> Stored[n], ip |-> ip, status |-> None, sockfd |-> s,
   active |-> TRUE, last_activity |-> clock]

NewClient(n, ip, s) ==
  [username |-> Stored[n], ip |-> ip, status |-> "ACTIVE", sockfd |-> s,
   active |-> TRUE, last_activity |-> clock]

\* Slip: the insertion loop lacks its break.
AddNoBreak(n, ip, s) ==
  /\ AddResult(n, ip) = 0
  /\ g_clients' = [i \in Slots |->
       IF i \in FreeSlots THEN NewClient(n, ip, s) ELSE g_clients[i]]
  /\ g_client_count' = g_client_count + Cardinality(FreeSlots)
  /\ UNCHANGED clock

\* The successful path of cm_add_client (AddResult = 0); the others return
\* before they touch the table.
cm_add_client(n, ip, s) ==
  /\ AddResult(n, ip) = 0
  /\ g_clients' = [i \in Slots |->
       IF First(i, FreeSlots) THEN NewClient(n, ip, s) ELSE g_clients[i]]
  /\ g_client_count' = g_client_count + IF FreeSlots = {} THEN 0 ELSE 1
  /\ UNCHANGED clock

\* Slip: the slot is cleared and the counter is not.
EraseKeepsCount(S) ==
  /\ g_clients' = [i \in Slots |->
       IF First(i, S) THEN Zeroed ELSE g_clients[i]]
  /\ UNCHANGED <<g_client_count, clock>>

\* The loop of cm_remove_client and cm_remove_by_sockfd.
Erase(S) ==
  /\ g_clients' = [i \in Slots |->
       IF First(i, S) THEN Zeroed ELSE g_clients[i]]
  /\ g_client_count' = g_client_count - IF S = {} THEN 0 ELSE 1
  /\ UNCHANGED clock

cm_remove_client(n) == Erase(NamedSlots(n))

cm_remove_by_sockfd(s) == Erase(SockSlots(s))

\* Slip: the status goes to the first slot in use, whoever's it is.
SetFirstStatus(n, st) ==
  /\ g_clients' = [i \in Slots |->
       IF st \in Status /\ First(i, ActiveSlots)
         THEN [g_clients[i] EXCEPT !.status = st, !.last_activity = clock]
         ELSE g_clients[i]]
  /\ UNCHANGED <<g_client_count, clock>>

cm_set_status(n, st) ==
  /\ g_clients' = [i \in Slots |->
       IF st \in Status /\ First(i, NamedSlots(n))
         THEN [g_clients[i] EXCEPT !.status = st, !.last_activity = clock]
         ELSE g_clients[i]]
  /\ UNCHANGED <<g_client_count, clock>>

cm_update_activity(n) ==
  /\ g_clients' = [i \in Slots |->
       IF First(i, NamedSlots(n))
         THEN [g_clients[i] EXCEPT !.last_activity = clock]
         ELSE g_clients[i]]
  /\ UNCHANGED <<g_client_count, clock>>

\* Slip: a user is idle as soon as the timeout is reached.
IdleSlotsTooSoon(now) ==
  {i \in ActiveSlots : /\ g_clients[i].status # "INACTIVE"
                       /\ now - g_clients[i].last_activity >= INACTIVITY_TIMEOUT}

\* now is read before the mutex is taken: it may be older than clock, and
\* even older than a last_activity.
IdleSlots(now) ==
  {i \in ActiveSlots : /\ g_clients[i].status # "INACTIVE"
                       /\ now - g_clients[i].last_activity > INACTIVITY_TIMEOUT}

\* Slip: the idle users are reported and not marked.
MarkNobody(now) == UNCHANGED cm_vars

cm_mark_inactive_clients(now) ==
  /\ g_clients' = [i \in Slots |->
       IF i \in IdleSlots(now)
         THEN [g_clients[i] EXCEPT !.status = "INACTIVE"]
         ELSE g_clients[i]]
  /\ UNCHANGED <<g_client_count, clock>>

-----------------------------------------------------------------------------
(* What the reading functions copy out of the table.  The C array filled   *)
(* from slot 0 upwards is a function on Slots with None where the loop     *)
(* skipped the slot.                                                       *)

\* Slip: the loop ends one slot early.
SocketsButLast(s) ==
  [i \in Slots |-> IF /\ i \in ActiveSlots /\ g_clients[i].sockfd # s
                       /\ i < MAX_CLIENTS - 1
                     THEN g_clients[i].sockfd ELSE None]

cm_get_sockets_except(s) ==
  [i \in Slots |-> IF i \in ActiveSlots /\ g_clients[i].sockfd # s
                     THEN g_clients[i].sockfd ELSE None]

cm_get_socket_by_username(n) ==
  [i \in Slots |-> IF First(i, NamedSlots(n))
                     THEN g_clients[i].sockfd ELSE None]

InactiveEvents(now) ==
  [i \in Slots |-> IF i \in IdleSlots(now)
     THEN [sockfd |-> g_clients[i].sockfd, username |-> g_clients[i].username]
     ELSE None]

-----------------------------------------------------------------------------
(* The table on its own, under any callers that keep to session.c's        *)
(* contract: a socket is added only while no slot holds it.                *)

Tick ==
  /\ clock < MAX_TIME
  /\ clock' = clock + 1
  /\ UNCHANGED <<g_clients, g_client_count>>

CMAdd(n, ip, s) == SockSlots(s) = {} /\ cm_add_client(n, ip, s)

CMNext ==
  \/ \E n \in Names, ip \in IPs, s \in Socks : CMAdd(n, ip, s)
  \/ \E n \in Names : cm_remove_client(n)
  \/ \E s \in Socks : cm_remove_by_sockfd(s)
  \/ \E n \in Names, st \in Status : cm_set_status(n, st)
  \/ \E n \in Names : cm_update_activity(n)
  \/ \E now \in 0 .. clock : cm_mark_inactive_clients(now)
  \/ Tick

CMSpec == cm_init /\ [][CMNext]_cm_vars

-----------------------------------------------------------------------------
(* Properties.                                                             *)

\* g_client_count is exactly the number of slots in use, so that "Servidor
\* lleno" (cm_add_client's -3) is answered only when every slot is taken and
\* the insertion loop always finds a slot when the count allows one.
CountExact == g_client_count = Cardinality(ActiveSlots)

\* No two connected clients share an IP address (cm_add_client's -2).
UniqueIps ==
  \A i, j \in ActiveSlots : g_clients[i].ip = g_clients[j].ip => i = j

\* No socket is listed twice, so a broadcast reaches nobody twice and
\* cm_remove_by_sockfd leaves nothing of a session behind.
UniqueSocks ==
  \A i, j \in ActiveSlots : g_clients[i].sockfd = g_clients[j].sockfd => i = j

\* No two connected clients have the same username (cm_add_client's -1).
UniqueUsernames ==
  \A i, j \in ActiveSlots : g_clients[i].username = g_clients[j].username => i = j

\* Every name a client presents fits in the 31 bytes the table keeps of it.
NamesFit == \A n \in Names : Stored[n] = n

\* Nobody is declared INACTIVE by the watchdog, however old its reading of
\* the clock, unless the user has really been silent for longer than
\* INACTIVITY_TIMEOUT: a step that turns a status to INACTIVE either is the
\* user's own request, which stamps last_activity, or finds the user idle.
InactiveOnlyIfIdle ==
  [][\A i \in Slots :
       (/\ g_clients[i].active
        /\ g_clients[i].status # "INACTIVE"
        /\ g_clients[i]'.status = "INACTIVE")
       => \/ g_clients[i]'.last_activity = clock
          \/ clock - g_clients[i].last_activity > INACTIVITY_TIMEOUT]_cm_vars

\* While every name fits, the table implements the abstract directory.
Dir == INSTANCE Directory WITH
         Capacity <- MAX_CLIENTS,
         dir <- {[name |-> g_clients[i].username, ip |-> g_clients[i].ip,
                  sock |-> g_clients[i].sockfd, status |-> g_clients[i].status]
                 : i \in ActiveSlots}

Refines == Dir!DirSpec
==============================================================================
