---------------------------- MODULE DirectoryProofs ----------------------------
(***************************************************************************)
(* The client table implements the abstract Directory, for every table     *)
(* size and all sets of names, addresses and descriptors, while every name *)
(* fits in the 31 bytes kept of it.                                        *)
(*                                                                         *)
(* Entry(i) is what slot i stands for.  Each operation of the table is     *)
(* shown to be a step of the directory or to leave it alone; CMInv (the    *)
(* exact counter, unique addresses) is what makes an insertion legal and   *)
(* a removal take out one entry only.                                      *)
(***************************************************************************)
EXTENDS ClientManagerProofs

Entry(i) == [name |-> g_clients[i].username, ip |-> g_clients[i].ip,
             sock |-> g_clients[i].sockfd, status |-> g_clients[i].status]

Entries == {Entry(i) : i \in ActiveSlots}

-----------------------------------------------------------------------------
\* Both modules count with the same Cardinality.
LEMMA SameCardinality ==
  ASSUME NEW S
  PROVE  Dir!Cardinality(S) = Cardinality(S)
BY DEF Dir!Cardinality, Cardinality

\* Every user of the directory is held by one slot: addresses are unique.
LEMMA EntryInjective ==
  ASSUME UniqueIps, NEW i \in ActiveSlots, NEW j \in ActiveSlots, Entry(i) = Entry(j)
  PROVE  i = j
<1>1. Entry(i).ip = g_clients[i].ip /\ Entry(j).ip = g_clients[j].ip
  BY DEF Entry
<1>. QED BY <1>1 DEF UniqueIps

\* There are no more users than slots in use.
LEMMA EntriesCounted ==
  ASSUME CMTypeOK, CountExact
  PROVE  Cardinality(Entries) \in Nat /\ Cardinality(Entries) <= g_client_count
<1>. DEFINE f == [i \in ActiveSlots |-> Entry(i)]
<1>1. IsFiniteSet(ActiveSlots)
  BY SlotsFinite DEF ActiveSlots
<1>2. f \in Surjection(ActiveSlots, Entries)
  BY DEF Surjection, Entries
<1>. HIDE DEF f
<1>3. IsFiniteSet(Entries) /\ Cardinality(Entries) <= Cardinality(ActiveSlots)
  BY <1>1, <1>2, FS_Surjection
<1>. QED BY <1>3, FS_CardinalityType DEF CountExact

\* A slot whose four fields are kept stands for the same user.
LEMMA EntryKept ==
  ASSUME NEW i, g_clients'[i] = g_clients[i]
  PROVE  Entry(i)' = Entry(i)
BY DEF Entry

-----------------------------------------------------------------------------
(* One lemma for each kind of step.                                        *)

\* A successful cm_add_client is a Join: there is room, and neither the name
\* nor the address is taken.
LEMMA AddJoins ==
  ASSUME NamesFit, CMInv, NEW n \in Names, NEW a \in IPs, NEW s \in Socks,
         cm_add_client(n, a, s)
  PROVE  Dir!Join(n, a, s)
<1>. USE DEF CMInv
<1>1. PICK k \in Slots : OneNewClient(n, a, s, k)
  BY AddShape
<1>2. ActiveSlots' = ActiveSlots \cup {k} /\ k \notin ActiveSlots
  BY <1>1 DEF OneNewClient, ActiveSlots, NewClient, CMTypeOK
<1>3. \A i \in ActiveSlots : Entry(i)' = Entry(i)
  BY <1>1, <1>2, NewIsActive, EntryKept DEF ActiveSlots
<1>4. Entry(k)' = [name |-> n, ip |-> a, sock |-> s, status |-> "ACTIVE"]
  <2>1. g_clients'[k] = NewClient(n, a, s)
    BY <1>1, NewIsActive
  <2>2. Stored[n] = n
    BY DEF NamesFit
  <2>. QED BY <2>1, <2>2 DEF Entry, NewClient
<1>5. Entries' = Entries \cup {[name |-> n, ip |-> a, sock |-> s, status |-> "ACTIVE"]}
  BY <1>2, <1>3, <1>4 DEF Entries
<1>6. \A e \in Entries : e.name # n /\ e.ip # a
  BY <1>1 DEF OneNewClient, Clashes, Entries, Entry
<1>7. Cardinality(Entries) < MAX_CLIENTS
  <2>1. g_client_count < MAX_CLIENTS
    BY BoundsAssumption DEF cm_add_client, AddResult, CMTypeOK
  <2>. QED BY <2>1, EntriesCounted, BoundsAssumption DEF CMTypeOK
<1>. QED BY <1>5, <1>6, <1>7, SameCardinality DEF Dir!Join, Entries, Entry, ActiveSlots

\* A removal that finds a slot is a Leave, any other changes nothing.
LEMMA EraseLeaves ==
  ASSUME CMInv, NEW S \in SUBSET ActiveSlots, Erase(S)
  PROVE  (\E e \in Entries : Dir!Leave(e)) \/ Entries' = Entries
<1>. USE DEF CMInv
<1>1. CASE S = {}
  <2>1. g_clients' = g_clients
    BY <1>1 DEF Erase, First, CMTypeOK
  <2>. QED BY <2>1 DEF Entries, Entry, ActiveSlots
<1>2. CASE S # {}
  <2>1. S \in SUBSET Slots
    BY DEF ActiveSlots
  <2>2. PICK k \in S : First(k, S)
    BY <1>2, <2>1, FirstExists
  <2>3. \A i \in Slots : First(i, S) <=> i = k
    BY <2>1, <2>2, FirstUnique
  <2>4. g_clients' = [g_clients EXCEPT ![k] = Zeroed]
    BY <2>1, <2>3 DEF Erase, CMTypeOK
  <2>5. ActiveSlots' = ActiveSlots \ {k} /\ k \in ActiveSlots
    BY <2>1, <2>4 DEF ActiveSlots, Zeroed, CMTypeOK
  <2>6. \A i \in ActiveSlots \ {k} : Entry(i)' = Entry(i)
    BY <2>4, EntryKept DEF ActiveSlots, CMTypeOK
  <2>7. \A i \in ActiveSlots \ {k} : Entry(i) # Entry(k)
    BY <2>5, EntryInjective
  <2>8. Entries' = Entries \ {Entry(k)}
    BY <2>5, <2>6, <2>7 DEF Entries
  <2>9. Entry(k) \in Entries
    BY <2>5 DEF Entries
  <2>. QED BY <2>8, <2>9 DEF Dir!Leave, Entries, Entry
<1>. QED BY <1>1, <1>2

\* A step that keeps every user's slot, name, address and descriptor, and the
\* status of all but the slots in S.
AllKeptBut(S, st) ==
  /\ ActiveSlots' = ActiveSlots
  /\ \A i \in ActiveSlots \ S : Entry(i)' = Entry(i)
  /\ \A i \in S : Entry(i)' = [Entry(i) EXCEPT !.status = st]

\* What such a step does to the directory.
LEMMA EntriesKeptBut ==
  ASSUME CMInv, NEW S \in SUBSET ActiveSlots, NEW st, AllKeptBut(S, st)
  PROVE  LET E == {Entry(i) : i \in S}
         IN  Entries' = (Entries \ E) \cup {[e EXCEPT !.status = st] : e \in E}
<1>. DEFINE E == {Entry(i) : i \in S}
            F == {[e EXCEPT !.status = st] : e \in E}
<1>1. \A i \in ActiveSlots \ S : Entry(i) \in Entries \ E
  BY EntryInjective DEF CMInv, Entries
<1>2. Entries' \subseteq (Entries \ E) \cup F
  BY <1>1 DEF AllKeptBut, Entries
<1>3. Entries \ E \subseteq Entries'
  BY DEF AllKeptBut, Entries
<1>4. F \subseteq Entries'
  BY DEF AllKeptBut, Entries
<1>. QED BY <1>2, <1>3, <1>4

\* A cm_set_status that finds the user is a ChangeStatus.
LEMMA SetStatusChanges ==
  ASSUME CMInv, NEW n \in Names, NEW st \in Status, cm_set_status(n, st)
  PROVE  (\E e \in Entries : Dir!ChangeStatus(e, st)) \/ Entries' = Entries
<1>. USE DEF CMInv
<1>1. CASE NamedSlots(n) = {}
  <2>1. g_clients' = g_clients
    BY <1>1 DEF cm_set_status, First, CMTypeOK
  <2>. QED BY <2>1 DEF Entries, Entry, ActiveSlots
<1>2. CASE NamedSlots(n) # {}
  <2>1. NamedSlots(n) \in SUBSET Slots
    BY DEF NamedSlots, ActiveSlots
  <2>2. PICK k \in NamedSlots(n) : First(k, NamedSlots(n))
    BY <1>2, <2>1, FirstExists
  <2>3. \A i \in Slots : First(i, NamedSlots(n)) <=> i = k
    BY <2>1, <2>2, FirstUnique
  <2>4. k \in ActiveSlots
    BY DEF NamedSlots
  <2>5. g_clients' = [g_clients EXCEPT ![k].status = st, ![k].last_activity = clock]
    BY <2>1, <2>3 DEF cm_set_status, CMTypeOK
  <2>6. g_clients[k] \in Client
    BY <2>4, ActiveIsClient DEF ActiveSlots
  <2>7. AllKeptBut({k}, st)
    BY <2>4, <2>5, <2>6 DEF AllKeptBut, Entry, ActiveSlots, Client, CMTypeOK
  <2>8. Entries' = (Entries \ {Entry(k)}) \cup {[Entry(k) EXCEPT !.status = st]}
    <3>. DEFINE E == {Entry(i) : i \in {k}}
    <3>1. Entries' = (Entries \ E) \cup {[e EXCEPT !.status = st] : e \in E}
      BY <2>4, <2>7, EntriesKeptBut
    <3>2. E = {Entry(k)}
      OBVIOUS
    <3>. QED BY <3>1, <3>2
  <2>9. Entry(k) \in Entries
    BY <2>4 DEF Entries
  <2>. QED BY <2>8, <2>9 DEF Dir!ChangeStatus, Entries, Entry
<1>. QED BY <1>1, <1>2

\* A round of the watchdog is a FallIdle of the users it finds idle.
LEMMA MarkIdles ==
  ASSUME CMInv, NEW now, cm_mark_inactive_clients(now)
  PROVE  \E E \in SUBSET Entries : Dir!FallIdle(E)
<1>. USE DEF CMInv
<1>. DEFINE E == {Entry(i) : i \in IdleSlots(now)}
<1>1. IdleSlots(now) \in SUBSET ActiveSlots
  BY DEF IdleSlots
<1>2. ASSUME NEW i \in Slots
      PROVE  g_clients'[i] = IF i \in IdleSlots(now)
                               THEN [g_clients[i] EXCEPT !.status = "INACTIVE"]
                               ELSE g_clients[i]
  BY DEF cm_mark_inactive_clients
<1>3. \A i \in IdleSlots(now) : g_clients[i] \in Client
  BY <1>1, ActiveIsClient DEF ActiveSlots
<1>4. AllKeptBut(IdleSlots(now), "INACTIVE")
  <2>1. ASSUME NEW i \in IdleSlots(now)
        PROVE  /\ g_clients'[i].active = g_clients[i].active
               /\ Entry(i)' = [Entry(i) EXCEPT !.status = "INACTIVE"]
    <3>1. i \in Slots /\ g_clients[i] \in Client
      BY <1>1, <1>3 DEF ActiveSlots
    <3>2. g_clients'[i] = [g_clients[i] EXCEPT !.status = "INACTIVE"]
      BY <1>2, <3>1
    <3>. QED BY <3>1, <3>2 DEF Entry, Client
  <2>2. ASSUME NEW i \in Slots \ IdleSlots(now)
        PROVE  g_clients'[i] = g_clients[i]
    BY <1>2
  <2>3. ActiveSlots' = ActiveSlots
    BY <2>1, <2>2 DEF ActiveSlots
  <2>. QED BY <2>1, <2>2, <2>3, EntryKept DEF AllKeptBut, ActiveSlots
<1>5. Entries' = (Entries \ E) \cup {[e EXCEPT !.status = "INACTIVE"] : e \in E}
  BY <1>1, <1>4, EntriesKeptBut
<1>6. \A e \in E : e.status # "INACTIVE"
  BY DEF IdleSlots, Entry
<1>7. E \in SUBSET Entries
  BY <1>1 DEF Entries
<1>. QED BY <1>5, <1>6, <1>7 DEF Dir!FallIdle, Entries, Entry

\* A stamp of activity is not seen from outside.
LEMMA ActivityStutters ==
  ASSUME CMInv, NEW n \in Names, cm_update_activity(n)
  PROVE  Entries' = Entries
<1>. USE DEF CMInv
<1>1. ASSUME NEW i \in Slots
      PROVE  g_clients'[i] = IF First(i, NamedSlots(n))
                               THEN [g_clients[i] EXCEPT !.last_activity = clock]
                               ELSE g_clients[i]
  BY DEF cm_update_activity
<1>2. \A i \in NamedSlots(n) : g_clients[i] \in Client
  BY ActiveIsClient DEF NamedSlots, ActiveSlots
<1>3. AllKeptBut({}, "INACTIVE")
  BY <1>1, <1>2 DEF AllKeptBut, Entry, First, ActiveSlots, Client
<1>. QED BY <1>3 DEF AllKeptBut, Entries

-----------------------------------------------------------------------------
\* Every step of the table is a step of the directory, or leaves it alone.
LEMMA StepRefines ==
  ASSUME NamesFit, CMInv, [CMNext]_cm_vars
  PROVE  Dir!DirNext \/ Entries' = Entries
<1>1. ASSUME NEW n \in Names, NEW a \in IPs, NEW s \in Socks, CMAdd(n, a, s)
      PROVE  Dir!DirNext
  BY <1>1, AddJoins DEF CMAdd, Dir!DirNext
<1>2. ASSUME NEW S \in SUBSET ActiveSlots, Erase(S)
      PROVE  Dir!DirNext \/ Entries' = Entries
  BY <1>2, EraseLeaves DEF Dir!DirNext, Entries, Entry
<1>3. ASSUME NEW n \in Names, cm_remove_client(n)
      PROVE  Dir!DirNext \/ Entries' = Entries
  BY <1>2, <1>3 DEF cm_remove_client, NamedSlots
<1>4. ASSUME NEW s \in Socks, cm_remove_by_sockfd(s)
      PROVE  Dir!DirNext \/ Entries' = Entries
  BY <1>2, <1>4 DEF cm_remove_by_sockfd, SockSlots
<1>5. ASSUME NEW n \in Names, NEW st \in Status, cm_set_status(n, st)
      PROVE  Dir!DirNext \/ Entries' = Entries
  BY <1>5, SetStatusChanges DEF Dir!DirNext, Dir!DirStatus, Status, Entries, Entry
<1>6. ASSUME NEW n \in Names, cm_update_activity(n)
      PROVE  Entries' = Entries
  BY <1>6, ActivityStutters
<1>7. ASSUME NEW now, cm_mark_inactive_clients(now)
      PROVE  Dir!DirNext
  BY <1>7, MarkIdles DEF Dir!DirNext, Entries, Entry
<1>8. CASE Tick \/ UNCHANGED cm_vars
  BY <1>8 DEF Tick, cm_vars, Entries, Entry, ActiveSlots
<1>. QED BY <1>1, <1>3, <1>4, <1>5, <1>6, <1>7, <1>8 DEF CMNext

\* client_manager.c implements the directory: seen from its callers, who know
\* names, addresses, descriptors and statuses and neither slots nor the
\* counter, the table is a bounded set of users with unique names and
\* addresses, as long as names fit in the field that keeps them.
THEOREM TableImplementsDirectory == NamesFit => (CMSpec => Refines)
<1>1. SUFFICES ASSUME NamesFit PROVE CMSpec => Refines
  OBVIOUS
<1>2. cm_init => Dir!DirInit
  BY DEF cm_init, Dir!DirInit, ActiveSlots, Zeroed
<1>3. CMInv /\ [CMNext]_cm_vars
        => [Dir!DirNext]_{[name |-> g_clients[i].username, ip |-> g_clients[i].ip,
                           sock |-> g_clients[i].sockfd, status |-> g_clients[i].status]
                          : i \in ActiveSlots}
  BY <1>1, StepRefines DEF Entries, Entry
<1>. QED BY <1>2, <1>3, CMInvariant, PTL DEF CMSpec, Refines, Dir!DirSpec
==============================================================================
