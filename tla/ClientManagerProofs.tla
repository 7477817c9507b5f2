------------------------- MODULE ClientManagerProofs -------------------------
(***************************************************************************)
(* Proofs about ClientManager, for every table size, every set of names,   *)
(* addresses and descriptors, and every timeout.                           *)
(*                                                                         *)
(* CMInv, the conjunction of the type invariant, the exact counter and the *)
(* two uniqueness properties, is inductive.  A step that is not an         *)
(* insertion keeps or clears each slot (KeepsOrClears), which preserves    *)
(* every uniqueness property at once; an insertion fills one free slot     *)
(* with a client that clashes with nobody (OneNewClient).                  *)
(***************************************************************************)
EXTENDS ClientManager, FiniteSetTheorems, WellFoundedInduction, TLAPS

CMInv == CMTypeOK /\ CountExact /\ UniqueIps /\ UniqueSocks

-----------------------------------------------------------------------------
(* Facts about the loops over the table.                                   *)

\* A loop over the slots that looks for a member of S stops, at one slot.
LEMMA FirstExists ==
  ASSUME NEW S \in SUBSET Slots, S # {}
  PROVE  \E i \in S : First(i, S)
<1>. DEFINE R == {ss \in Nat \X Nat : ss[1] < ss[2]}
<1>1. S \subseteq Nat
  BY BoundsAssumption DEF Slots
<1>2. IsWellFoundedOn(R, Nat)
  BY NatLessThanWellFounded DEF OpToRel
<1>. HIDE DEF R
<1>3. \E i \in S : \A j \in S : ~ (<<j, i>> \in R)
  BY <1>1, <1>2, WFMin
<1>4. ASSUME NEW i \in S, \A j \in S : ~ (<<j, i>> \in R)
      PROVE  First(i, S)
  <2>1. SUFFICES ASSUME NEW j \in S PROVE i <= j
    BY DEF First
  <2>2. ~ (j < i)
    BY <1>1, <1>4 DEF R
  <2>. QED BY <1>1, <2>2
<1>. QED BY <1>3, <1>4

\* ... and at no other.
LEMMA FirstUnique ==
  ASSUME NEW S \in SUBSET Slots, NEW i, NEW j, First(i, S), First(j, S)
  PROVE  i = j
BY BoundsAssumption DEF First, Slots

\* Sets of slots can be counted.
LEMMA SlotsFinite ==
  ASSUME NEW S \in SUBSET Slots
  PROVE  IsFiniteSet(S) /\ Cardinality(S) \in Nat
<1>1. IsFiniteSet(Slots)
  BY FS_Interval, BoundsAssumption DEF Slots
<1>. QED BY <1>1, FS_Subset, FS_CardinalityType

\* A slot in use holds a client, any other is zeroed.
LEMMA ActiveIsClient ==
  ASSUME CMTypeOK, NEW i \in Slots
  PROVE  /\ g_clients[i].active <=> g_clients[i] \in Client
         /\ ~ g_clients[i].active <=> g_clients[i] = Zeroed
         /\ g_clients[i].active \in BOOLEAN
<1>1. g_clients[i] \in Client \/ g_clients[i] = Zeroed
  BY DEF CMTypeOK
<1>2. \A r \in Client : r.active = TRUE
  BY DEF Client
<1>3. Zeroed.active = FALSE
  BY DEF Zeroed
<1>. QED BY <1>1, <1>2, <1>3

-----------------------------------------------------------------------------
(* The two shapes of a step.                                               *)

KeepsOrClears ==
  \A i \in Slots :
    g_clients'[i].active =>
      /\ g_clients[i].active
      /\ g_clients'[i].username = g_clients[i].username
      /\ g_clients'[i].ip = g_clients[i].ip
      /\ g_clients'[i].sockfd = g_clients[i].sockfd

OneNewClient(n, ip, s, k) ==
  /\ k \in Slots /\ ~ g_clients[k].active
  /\ g_clients' = [g_clients EXCEPT ![k] = NewClient(n, ip, s)]
  /\ g_client_count' = g_client_count + 1
  /\ Clashes(n, ip) = {}

\* A successful cm_add_client finds a free slot: the counter says there is one.
LEMMA AddShape ==
  ASSUME CMTypeOK, CountExact,
         NEW n \in Names, NEW ip \in IPs, NEW s \in Socks,
         cm_add_client(n, ip, s)
  PROVE  \E k \in Slots : OneNewClient(n, ip, s, k)
<1>1. g_client_count < MAX_CLIENTS /\ Clashes(n, ip) = {}
  BY BoundsAssumption DEF cm_add_client, AddResult, CMTypeOK
<1>2. FreeSlots # {}
  <2>1. SUFFICES ASSUME FreeSlots = {} PROVE FALSE
    OBVIOUS
  <2>2. ActiveSlots = Slots
    BY <2>1 DEF ActiveSlots, FreeSlots
  <2>3. Cardinality(Slots) = MAX_CLIENTS
    BY FS_Interval, BoundsAssumption DEF Slots
  <2>. QED BY <1>1, <2>2, <2>3, BoundsAssumption DEF CountExact
<1>3. PICK k \in FreeSlots : First(k, FreeSlots)
  BY <1>2, FirstExists DEF FreeSlots
<1>4. \A i \in Slots : First(i, FreeSlots) <=> i = k
  BY <1>3, FirstUnique DEF FreeSlots
<1>5. k \in Slots /\ ~ g_clients[k].active
  BY DEF FreeSlots
<1>6. g_clients' = [g_clients EXCEPT ![k] = NewClient(n, ip, s)]
  BY <1>4, <1>5 DEF cm_add_client, CMTypeOK
<1>7. g_client_count' = g_client_count + 1
  BY <1>2 DEF cm_add_client
<1>. QED BY <1>1, <1>5, <1>6, <1>7 DEF OneNewClient

\* Removals, status changes, activity stamps and the watchdog's marks never
\* rename, re-address or re-plug a client.
LEMMA OtherShape ==
  ASSUME CMTypeOK,
         \/ \E S \in SUBSET ActiveSlots : Erase(S)
         \/ \E n \in Names, st \in Status : cm_set_status(n, st)
         \/ \E n \in Names : cm_update_activity(n)
         \/ \E now \in 0 .. clock : cm_mark_inactive_clients(now)
         \/ UNCHANGED g_clients
  PROVE  KeepsOrClears
<1>1. CASE \E S \in SUBSET ActiveSlots : Erase(S)
  BY <1>1, ActiveIsClient DEF Erase, KeepsOrClears, Zeroed, CMTypeOK
<1>2. CASE \E n \in Names, st \in Status : cm_set_status(n, st)
  <2>1. PICK n \in Names, st \in Status : cm_set_status(n, st)
    BY <1>2
  <2>2. ASSUME NEW i \in Slots
        PROVE  \/ g_clients'[i] = g_clients[i]
               \/ /\ g_clients'[i] = [g_clients[i] EXCEPT !.status = st, !.last_activity = clock]
                  /\ g_clients[i] \in Client
    BY <2>1, ActiveIsClient DEF cm_set_status, First, NamedSlots, ActiveSlots
  <2>. QED BY <2>2 DEF KeepsOrClears, Client
<1>3. CASE \E n \in Names : cm_update_activity(n)
  BY <1>3, ActiveIsClient DEF cm_update_activity, KeepsOrClears, CMTypeOK, Client, Zeroed, First, NamedSlots, ActiveSlots
<1>4. CASE \E now \in 0 .. clock : cm_mark_inactive_clients(now)
  BY <1>4, ActiveIsClient DEF cm_mark_inactive_clients, KeepsOrClears, CMTypeOK, Client, Zeroed, IdleSlots, ActiveSlots
<1>5. CASE UNCHANGED g_clients
  BY <1>5 DEF KeepsOrClears
<1>. QED BY <1>1, <1>2, <1>3, <1>4, <1>5

\* Every step that is not an insertion has the other shape.
LEMMA NextShape ==
  ASSUME CMTypeOK, [CMNext]_cm_vars
  PROVE  \/ KeepsOrClears
         \/ \E n \in Names, ip \in IPs, s \in Socks : CMAdd(n, ip, s)
<1>1. ASSUME NEW n \in Names, cm_remove_client(n) PROVE KeepsOrClears
  BY <1>1, OtherShape DEF cm_remove_client, NamedSlots
<1>2. ASSUME NEW s \in Socks, cm_remove_by_sockfd(s) PROVE KeepsOrClears
  BY <1>2, OtherShape DEF cm_remove_by_sockfd, SockSlots
<1>3. ASSUME Tick \/ UNCHANGED cm_vars PROVE KeepsOrClears
  BY <1>3, OtherShape DEF Tick, cm_vars
<1>. QED BY <1>1, <1>2, <1>3, OtherShape DEF CMNext

-----------------------------------------------------------------------------
(* Type correctness.                                                       *)

\* cm_init clears the table.
LEMMA InitType == cm_init => CMTypeOK
BY DEF cm_init, CMTypeOK

\* What cm_add_client writes is a complete client.
LEMMA NewClientType ==
  ASSUME CMTypeOK, NEW n \in Names, NEW ip \in IPs, NEW s \in Socks
  PROVE  NewClient(n, ip, s) \in Client
BY NamesAssumption DEF NewClient, Client, Status, CMTypeOK

\* Every operation of client_manager.c keeps the table well formed.
LEMMA NextType ==
  ASSUME CMTypeOK, [CMNext]_cm_vars
  PROVE  CMTypeOK'
<1>1. ASSUME NEW n \in Names, NEW ip \in IPs, NEW s \in Socks, CMAdd(n, ip, s)
      PROVE  CMTypeOK'
  BY <1>1, NewClientType DEF CMAdd, cm_add_client, CMTypeOK
<1>2. ASSUME NEW S, Erase(S) PROVE CMTypeOK'
  BY <1>2 DEF Erase, CMTypeOK
<1>3. ASSUME NEW n \in Names, NEW st \in Status, cm_set_status(n, st)
      PROVE  CMTypeOK'
  <2>1. ASSUME NEW i \in Slots, g_clients[i] \in Client
        PROVE  [g_clients[i] EXCEPT !.status = st, !.last_activity = clock] \in Client
    BY <2>1 DEF Client, CMTypeOK
  <2>2. \A i \in Slots : First(i, NamedSlots(n)) => g_clients[i] \in Client
    BY ActiveIsClient DEF First, NamedSlots, ActiveSlots
  <2>. QED BY <1>3, <2>1, <2>2 DEF cm_set_status, CMTypeOK
<1>4. ASSUME NEW n \in Names, cm_update_activity(n) PROVE CMTypeOK'
  <2>1. ASSUME NEW i \in Slots, g_clients[i] \in Client
        PROVE  [g_clients[i] EXCEPT !.last_activity = clock] \in Client
    BY <2>1 DEF Client, CMTypeOK
  <2>2. \A i \in Slots : First(i, NamedSlots(n)) => g_clients[i] \in Client
    BY ActiveIsClient DEF First, NamedSlots, ActiveSlots
  <2>. QED BY <1>4, <2>1, <2>2 DEF cm_update_activity, CMTypeOK
<1>5. ASSUME NEW now, cm_mark_inactive_clients(now) PROVE CMTypeOK'
  <2>1. ASSUME NEW i \in Slots, g_clients[i] \in Client
        PROVE  [g_clients[i] EXCEPT !.status = "INACTIVE"] \in Client
    BY <2>1 DEF Client, Status
  <2>2. \A i \in IdleSlots(now) : i \in Slots /\ g_clients[i] \in Client
    BY ActiveIsClient DEF IdleSlots, ActiveSlots
  <2>. QED BY <1>5, <2>1, <2>2 DEF cm_mark_inactive_clients, CMTypeOK
<1>6. CASE Tick
  BY <1>6 DEF Tick, CMTypeOK
<1>7. CASE UNCHANGED cm_vars
  BY <1>7 DEF cm_vars, CMTypeOK
<1>. QED
  BY <1>1, <1>2, <1>3, <1>4, <1>5, <1>6, <1>7
     DEF CMNext, cm_remove_client, cm_remove_by_sockfd

-----------------------------------------------------------------------------
(* The counter.                                                            *)

\* cm_add_client counts the slot it fills.
LEMMA AddCount ==
  ASSUME CMTypeOK, CountExact,
         NEW n \in Names, NEW ip \in IPs, NEW s \in Socks,
         cm_add_client(n, ip, s)
  PROVE  CountExact'
<1>1. PICK k \in Slots : OneNewClient(n, ip, s, k)
  BY AddShape
<1>2. ActiveSlots' = ActiveSlots \cup {k}
  BY <1>1 DEF OneNewClient, ActiveSlots, NewClient, CMTypeOK
<1>3. k \notin ActiveSlots /\ ActiveSlots \in SUBSET Slots
  BY <1>1 DEF OneNewClient, ActiveSlots
<1>. QED BY <1>1, <1>2, <1>3, SlotsFinite, FS_AddElement DEF OneNewClient, CountExact

\* The cm_remove functions uncount the slot they clear, if there is one.
LEMMA EraseCount ==
  ASSUME CMTypeOK, CountExact, NEW S \in SUBSET ActiveSlots, Erase(S)
  PROVE  CountExact'
<1>1. CASE S = {}
  <2>1. g_clients' = g_clients /\ g_client_count' = g_client_count
    BY <1>1 DEF Erase, First, CMTypeOK
  <2>. QED BY <2>1 DEF CountExact, ActiveSlots
<1>2. CASE S # {}
  <2>1. S \in SUBSET Slots
    BY DEF ActiveSlots
  <2>2. PICK k \in S : First(k, S)
    BY <1>2, <2>1, FirstExists
  <2>3. \A i \in Slots : First(i, S) <=> i = k
    BY <2>1, <2>2, FirstUnique
  <2>4. g_clients' = [g_clients EXCEPT ![k] = Zeroed]
    BY <2>1, <2>3 DEF Erase, CMTypeOK
  <2>5. ActiveSlots' = ActiveSlots \ {k}
    BY <2>1, <2>4 DEF ActiveSlots, Zeroed, CMTypeOK
  <2>6. k \in ActiveSlots /\ ActiveSlots \in SUBSET Slots
    BY DEF ActiveSlots
  <2>7. g_client_count' = g_client_count - 1
    BY <1>2 DEF Erase
  <2>. QED BY <2>5, <2>6, <2>7, SlotsFinite, FS_RemoveElement DEF CountExact
<1>. QED BY <1>1, <1>2

\* The other operations change fields of slots in use and count nothing.
LEMMA NextCount ==
  ASSUME CMTypeOK, CountExact, [CMNext]_cm_vars
  PROVE  CountExact'
<1>1. ASSUME NEW n \in Names, NEW ip \in IPs, NEW s \in Socks, CMAdd(n, ip, s)
      PROVE  CountExact'
  BY <1>1, AddCount DEF CMAdd
<1>2. ASSUME NEW n \in Names, cm_remove_client(n) PROVE CountExact'
  BY <1>2, EraseCount DEF cm_remove_client, NamedSlots
<1>3. ASSUME NEW s \in Socks, cm_remove_by_sockfd(s) PROVE CountExact'
  BY <1>3, EraseCount DEF cm_remove_by_sockfd, SockSlots
<1>4. ASSUME g_client_count' = g_client_count,
             \A i \in Slots : g_clients'[i].active = g_clients[i].active
      PROVE  CountExact'
  BY <1>4 DEF CountExact, ActiveSlots
<1>5. ASSUME NEW n \in Names, NEW st \in Status, cm_set_status(n, st)
      PROVE  CountExact'
  <2>1. ASSUME NEW i \in Slots PROVE g_clients'[i].active = g_clients[i].active
    BY <1>5, ActiveIsClient DEF cm_set_status, First, NamedSlots, ActiveSlots, Client
  <2>. QED BY <1>4, <1>5, <2>1 DEF cm_set_status
<1>6. ASSUME NEW n \in Names, cm_update_activity(n) PROVE CountExact'
  <2>1. ASSUME NEW i \in Slots PROVE g_clients'[i].active = g_clients[i].active
    BY <1>6, ActiveIsClient DEF cm_update_activity, First, NamedSlots, ActiveSlots, Client
  <2>. QED BY <1>4, <1>6, <2>1 DEF cm_update_activity
<1>7. ASSUME NEW now, cm_mark_inactive_clients(now) PROVE CountExact'
  <2>1. ASSUME NEW i \in Slots PROVE g_clients'[i].active = g_clients[i].active
    BY <1>7, ActiveIsClient DEF cm_mark_inactive_clients, IdleSlots, ActiveSlots, Client
  <2>. QED BY <1>4, <1>7, <2>1 DEF cm_mark_inactive_clients
<1>8. CASE Tick \/ UNCHANGED cm_vars
  BY <1>4, <1>8 DEF Tick, cm_vars
<1>. QED BY <1>1, <1>2, <1>3, <1>5, <1>6, <1>7, <1>8 DEF CMNext

-----------------------------------------------------------------------------
(* Uniqueness.                                                             *)

\* After an insertion: the new slot, and the others as they were.
LEMMA NewIsActive ==
  ASSUME CMTypeOK, NEW n, NEW ip, NEW s, NEW k, OneNewClient(n, ip, s, k)
  PROVE  /\ g_clients'[k] = NewClient(n, ip, s)
         /\ \A i \in Slots \ {k} : g_clients'[i] = g_clients[i]
         /\ \A i \in ActiveSlots' \ {k} : i \in ActiveSlots
BY DEF OneNewClient, ActiveSlots, CMTypeOK

\* The -2 test of cm_add_client keeps addresses unique.
LEMMA NextIps ==
  ASSUME CMTypeOK, CountExact, UniqueIps, [CMNext]_cm_vars
  PROVE  UniqueIps'
<1>1. CASE KeepsOrClears
  BY <1>1 DEF KeepsOrClears, UniqueIps, ActiveSlots
<1>2. ASSUME NEW n \in Names, NEW ip \in IPs, NEW s \in Socks, CMAdd(n, ip, s)
      PROVE  UniqueIps'
  <2>1. PICK k \in Slots : OneNewClient(n, ip, s, k)
    BY <1>2, AddShape DEF CMAdd
  <2>2. g_clients'[k].ip = ip
    <3>1. g_clients'[k] = NewClient(n, ip, s)
      BY <2>1, NewIsActive
    <3>. QED BY <3>1 DEF NewClient
  <2>3. \A i \in ActiveSlots : g_clients[i].ip # ip
    BY <2>1 DEF OneNewClient, Clashes
  <2>. QED BY <2>1, <2>2, <2>3, NewIsActive DEF UniqueIps, ActiveSlots
<1>. QED BY <1>1, <1>2, NextShape

\* The callers' contract keeps descriptors unique.
LEMMA NextSocks ==
  ASSUME CMTypeOK, CountExact, UniqueSocks, [CMNext]_cm_vars
  PROVE  UniqueSocks'
<1>1. CASE KeepsOrClears
  BY <1>1 DEF KeepsOrClears, UniqueSocks, ActiveSlots
<1>2. ASSUME NEW n \in Names, NEW ip \in IPs, NEW s \in Socks, CMAdd(n, ip, s)
      PROVE  UniqueSocks'
  <2>1. PICK k \in Slots : OneNewClient(n, ip, s, k)
    BY <1>2, AddShape DEF CMAdd
  <2>2. g_clients'[k].sockfd = s
    <3>1. g_clients'[k] = NewClient(n, ip, s)
      BY <2>1, NewIsActive
    <3>. QED BY <3>1 DEF NewClient
  <2>3. \A i \in ActiveSlots : g_clients[i].sockfd # s
    BY <1>2 DEF CMAdd, SockSlots
  <2>. QED BY <2>1, <2>2, <2>3, NewIsActive DEF UniqueSocks, ActiveSlots
<1>. QED BY <1>1, <1>2, NextShape

\* This is where the 31 bytes matter: the duplicate test compares the name
\* as presented, and the table keeps Stored[n].
LEMMA NextUsernames ==
  ASSUME NamesFit, CMTypeOK, CountExact, UniqueUsernames, [CMNext]_cm_vars
  PROVE  UniqueUsernames'
<1>1. CASE KeepsOrClears
  BY <1>1 DEF KeepsOrClears, UniqueUsernames, ActiveSlots
<1>2. ASSUME NEW n \in Names, NEW ip \in IPs, NEW s \in Socks, CMAdd(n, ip, s)
      PROVE  UniqueUsernames'
  <2>1. PICK k \in Slots : OneNewClient(n, ip, s, k)
    BY <1>2, AddShape DEF CMAdd
  <2>2. g_clients'[k].username = n
    <3>1. g_clients'[k] = NewClient(n, ip, s)
      BY <2>1, NewIsActive
    <3>. QED BY <3>1 DEF NewClient, NamesFit
  <2>3. \A i \in ActiveSlots : g_clients[i].username # n
    BY <2>1 DEF OneNewClient, Clashes
  <2>. QED BY <2>1, <2>2, <2>3, NewIsActive DEF UniqueUsernames, ActiveSlots
<1>. QED BY <1>1, <1>2, NextShape

-----------------------------------------------------------------------------
(* The theorems.                                                           *)

\* An empty table satisfies everything.
LEMMA InitInv == cm_init => CMInv /\ UniqueUsernames
<1>1. SUFFICES ASSUME cm_init PROVE CMInv /\ UniqueUsernames
  OBVIOUS
<1>2. ActiveSlots = {}
  BY <1>1 DEF cm_init, ActiveSlots, Zeroed
<1>3. CountExact
  BY <1>1, <1>2, FS_EmptySet DEF cm_init, CountExact
<1>. QED
  BY <1>1, <1>2, <1>3, InitType DEF CMInv, UniqueIps, UniqueSocks, UniqueUsernames

\* The inductive step.
LEMMA NextInv == CMInv /\ [CMNext]_cm_vars => CMInv'
BY NextType, NextCount, NextIps, NextSocks DEF CMInv

\* The inductive invariant holds in every state of the table.
THEOREM CMInvariant == CMSpec => []CMInv
<1>1. cm_init => CMInv
  BY InitInv
<1>2. CMInv /\ [CMNext]_cm_vars => CMInv'
  BY NextInv
<1>. QED BY <1>1, <1>2, PTL DEF CMSpec

\* The table is always well formed: a slot holds either a complete client or
\* zeroes, whatever the operations and their arguments.
THEOREM CMTypeCorrect == CMSpec => []CMTypeOK
BY CMInvariant, PTL DEF CMInv

\* The counter that cm_add_client and the cm_remove functions keep by hand
\* never drifts from the number of slots in use.
THEOREM CountNeverDrifts == CMSpec => []CountExact
BY CMInvariant, PTL DEF CMInv

\* At most one connected client per address, for any number of slots.
THEOREM OneClientPerIp == CMSpec => []UniqueIps
BY CMInvariant, PTL DEF CMInv

\* At most one slot per descriptor, given that a session adds itself only
\* while no slot holds its descriptor.
THEOREM OneSlotPerSocket == CMSpec => []UniqueSocks
BY CMInvariant, PTL DEF CMInv

\* If every name fits in 31 bytes, no two connected clients share a name.
THEOREM OneClientPerName == NamesFit => (CMSpec => []UniqueUsernames)
<1>1. SUFFICES ASSUME NamesFit PROVE CMSpec => []UniqueUsernames
  OBVIOUS
<1>2. cm_init => CMInv /\ UniqueUsernames
  BY InitInv
<1>3. CMInv /\ UniqueUsernames /\ [CMNext]_cm_vars => (CMInv /\ UniqueUsernames)'
  BY <1>1, NextInv, NextUsernames DEF CMInv
<1>. QED BY <1>2, <1>3, PTL DEF CMSpec

\* The watchdog declares INACTIVE only users who have been silent for longer
\* than the timeout, although its reading of the clock may be stale.
LEMMA InactiveStep ==
  ASSUME CMTypeOK, [CMNext]_cm_vars, NEW i \in Slots,
         g_clients[i].active, g_clients[i].status # "INACTIVE",
         g_clients'[i].status = "INACTIVE"
  PROVE  \/ g_clients'[i].last_activity = clock
         \/ clock - g_clients[i].last_activity > INACTIVITY_TIMEOUT
<1>1. g_clients[i] \in Client /\ clock \in Nat
  BY ActiveIsClient DEF CMTypeOK
<1>2. ASSUME NEW n \in Names, NEW ip \in IPs, NEW s \in Socks, CMAdd(n, ip, s)
      PROVE  FALSE
  <2>1. ~ First(i, FreeSlots)
    BY DEF First, FreeSlots
  <2>. QED BY <1>2, <2>1 DEF CMAdd, cm_add_client
<1>3. ASSUME NEW S, Erase(S) PROVE FALSE
  BY <1>3, NoneAssumption DEF Erase, Zeroed, Status
<1>4. ASSUME NEW n \in Names, NEW st \in Status, cm_set_status(n, st)
      PROVE  g_clients'[i].last_activity = clock
  BY <1>1, <1>4 DEF cm_set_status, Client
<1>5. ASSUME NEW n \in Names, cm_update_activity(n) PROVE FALSE
  BY <1>1, <1>5 DEF cm_update_activity, Client
<1>6. ASSUME NEW now \in 0 .. clock, cm_mark_inactive_clients(now)
      PROVE  clock - g_clients[i].last_activity > INACTIVITY_TIMEOUT
  <2>1. i \in IdleSlots(now)
    BY <1>6 DEF cm_mark_inactive_clients
  <2>2. g_clients[i].last_activity \in Nat
    BY <1>1 DEF Client
  <2>. QED BY <1>1, <2>1, <2>2, BoundsAssumption DEF IdleSlots
<1>7. CASE Tick \/ UNCHANGED cm_vars
  BY <1>7 DEF Tick, cm_vars
<1>. QED
  BY <1>2, <1>3, <1>4, <1>5, <1>6, <1>7
     DEF CMNext, cm_remove_client, cm_remove_by_sockfd

\* The same as a property of every behaviour of the table: no step of the
\* watchdog declares INACTIVE a user who has not been silent long enough.
THEOREM NobodyInactiveTooSoon == CMSpec => InactiveOnlyIfIdle
<1>1. CMInv /\ [CMNext]_cm_vars =>
        [\A i \in Slots :
           (/\ g_clients[i].active
            /\ g_clients[i].status # "INACTIVE"
            /\ g_clients[i]'.status = "INACTIVE")
           => \/ g_clients[i]'.last_activity = clock
              \/ clock - g_clients[i].last_activity > INACTIVITY_TIMEOUT]_cm_vars
  BY InactiveStep DEF CMInv
<1>. QED BY <1>1, CMInvariant, PTL DEF CMSpec, InactiveOnlyIfIdle
==============================================================================
