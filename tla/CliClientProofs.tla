---------------------------- MODULE CliClientProofs ----------------------------
(***************************************************************************)
(* Proofs about CliClient: types, and that packets are read whole, for any *)
(* number of clients, any packet and buffer sizes and any lines typed.     *)
(*                                                                         *)
(* The bytes on their way to a reader are one stream: those it has read of *)
(* a packet, then those still in the kernel.  The invariant says that the  *)
(* stream is a row of packets (Frames, of PacketBytesProofs), and that its *)
(* last byte is where the writer's loop believes to be (Ends); a send      *)
(* extends the stream, a recv leaves it alone, and a packet that was read  *)
(* falls off its front.                                                    *)
(***************************************************************************)
EXTENDS CliClient, PacketBytesProofs

ToServer(c) == req[c] \o up[c]
ToClient(c) == pkt[c] \o down[c]

\* The way to the server has one writer, the main thread.
UpOK(c) ==
  /\ Frames(ToServer(c))
  /\ srv[c] = "open" => /\ Ends(ToServer(c), cmd[c], written[c])
                        /\ main[c] = "send" \/ written[c] = 0
  /\ main[c] = "send" => cmd[c] \in Command
  /\ cend[c] # "open" => main[c] \in {"join", "exited", "killed"}
  /\ shut[c] => cend[c] # "open"

\* The way to the client has one writer at a time, unless it is mixed.
DownOK(c) ==
  /\ Frames(ToClient(c))
  /\ \A s, o \in Conns : at[s] = c /\ at[o] = c => s = o
  /\ cend[c] = "open" => \A s \in Conns : at[s] = c => Ends(ToClient(c), s, sent[s])
  /\ cend[c] = "open" /\ srv[c] = "open" /\ (\A s \in Conns : at[s] # c)
       => Ends(ToClient(c), None, 0)

CliInv ==
  /\ CliTypeOK
  /\ \A c \in Conns : /\ at[c] = None <=> sent[c] = 0
                      /\ rx[c] = "print" => Len(pkt[c]) = PACKET_SIZE
                      /\ UpOK(c)
                      /\ c \notin mixed => DownOK(c)

-----------------------------------------------------------------------------
(* One send, one recv.                                                     *)

\* A send adds its bytes to the buffer.
LEMMA PutType ==
  ASSUME NEW K, NEW b \in Seq(Byte(K)), NEW kind \in K,
         NEW i \in 0 .. PACKET_SIZE - 1, NEW n \in 1 .. PACKET_SIZE - i
  PROVE  /\ Put(b, kind, i, n) \in Seq(Byte(K))
         /\ Len(Put(b, kind, i, n)) = Len(b) + n
<1>1. PICK chunk \in Seq(Byte(K)) :
        /\ chunk = SubSeq(Bytes(kind), i + 1, i + n) /\ Len(chunk) = n
        /\ \A j \in 1 .. n : chunk[j] = <<kind, i + j>>
  BY ChunkProperties
<1>2. b \o chunk \in Seq(Byte(K)) /\ Len(b \o chunk) = Len(b) + n
  BY <1>1, ConcatProperties
<1>. QED BY <1>1, <1>2 DEF Put

\* What a send adds to the buffer, it adds to the stream.
LEMMA PutKeepsFrames ==
  ASSUME NEW K, NEW a \in Seq(Byte(K)), NEW b \in Seq(Byte(K)), NEW kind \in K,
         NEW i \in 0 .. PACKET_SIZE - 1, NEW n \in 1 .. PACKET_SIZE - i,
         Frames(a \o b), Ends(a \o b, kind, i)
  PROVE  /\ Frames(a \o Put(b, kind, i, n))
         /\ Ends(a \o Put(b, kind, i, n), kind, Progress(i, n))
<1>1. PICK chunk \in Seq(Byte(K)) :
        /\ chunk = SubSeq(Bytes(kind), i + 1, i + n) /\ Len(chunk) = n
        /\ \A j \in 1 .. n : chunk[j] = <<kind, i + j>>
  BY ChunkProperties
<1>2. (a \o b) \o chunk = a \o (b \o chunk)
  BY Associative
<1>3. PICK st \in Seq(Byte(K)) : st = a \o b
  BY ConcatProperties
<1>4. Frames(st \o chunk) /\ Ends(st \o chunk, kind, Progress(i, n))
  BY <1>1, <1>3, WriteKeepsFrames DEF Progress
<1>. QED BY <1>1, <1>2, <1>3, <1>4 DEF Put

-----------------------------------------------------------------------------
(* Type correctness.                                                       *)

\* The conjuncts of CliTypeOK that speak of one side only.
MainTypes ==
  /\ main \in [Conns -> {"send", "start", "fgets", "shutdown", "join", "exited",
                         "killed"}]
  /\ cmd \in [Conns -> Command \cup {None}]
  /\ written \in [Conns -> 0 .. PACKET_SIZE - 1]
  /\ typed \in [Conns -> Nat] /\ \A c \in Conns : typed[c] <= Len(Lines[c])
  /\ rx \in [Conns -> {"none", "recv", "print", "ended"}]
  /\ fd \in [Conns -> BOOLEAN] /\ shut \in [Conns -> BOOLEAN]

StreamTypes ==
  /\ up \in [Conns -> Seq(Byte(Command))] /\ down \in [Conns -> Seq(Byte(Conns))]
  /\ pkt \in [Conns -> Seq(Byte(Conns))] /\ req \in [Conns -> Seq(Byte(Command))]
  /\ \A c \in Conns : /\ Len(up[c]) <= BUFFER /\ Len(down[c]) <= BUFFER
                      /\ Len(pkt[c]) <= PACKET_SIZE /\ Len(req[c]) <= PACKET_SIZE

ServerTypes ==
  /\ cend \in [Conns -> {"open", "closed", "broken"}]
  /\ srv \in [Conns -> {"open", "closed", "broken"}]
  /\ server_up \in BOOLEAN
  /\ members \subseteq Conns /\ mixed \subseteq Conns
  /\ session \in [Conns -> {"accept", "recv", "send", "logout", "remove",
                            "close", "done"}]
  /\ to \in [Conns -> SUBSET Conns]
  /\ at \in [Conns -> Conns \cup {None}]
  /\ sent \in [Conns -> 0 .. PACKET_SIZE - 1]

\* The three make up the type of the state.
LEMMA TypeParts == CliTypeOK <=> MainTypes /\ StreamTypes /\ ServerTypes
BY DEF CliTypeOK, MainTypes, StreamTypes, ServerTypes

\* A command is typed only while there are lines left.
LEMMA LineType ==
  ASSUME MainTypes, NEW c \in Conns, typed[c] < Len(Lines[c])
  PROVE  /\ Lines[c][typed[c] + 1] \in Command
         /\ typed[c] + 1 \in Nat /\ typed[c] + 1 <= Len(Lines[c])
<1>1. Lines[c] \in Seq(Command \ {"REGISTER"})
  BY CliAssumption
<1>2. Len(Lines[c]) \in Nat /\ typed[c] \in Nat
  BY <1>1, LenProperties DEF MainTypes
<1>3. typed[c] + 1 \in 1 .. Len(Lines[c])
  BY <1>2
<1>4. Lines[c][typed[c] + 1] \in Command
  BY <1>1, <1>3, ElementOfSeq
<1>. QED BY <1>2, <1>3, <1>4

\* How far a send has come.
LEMMA ProgressType ==
  ASSUME NEW i \in 0 .. PACKET_SIZE - 1, NEW n \in 1 .. PACKET_SIZE - i
  PROVE  Progress(i, n) \in 0 .. PACKET_SIZE - 1
BY PacketAssumption DEF Progress

\* The threads of the clients.
LEMMA MainTypeStep ==
  ASSUME MainTypes, [CliNext]_cli_vars
  PROVE  MainTypes'
<1>. USE DEF MainTypes
<1>0. PACKET_SIZE \in Nat \ {0} /\ \A c \in Conns : 0 <= Len(Lines[c])
  <2>1. \A c \in Conns : Lines[c] \in Seq(Command \ {"REGISTER"})
    BY CliAssumption
  <2>. QED BY <2>1, PacketAssumption
<1>1. ASSUME NEW c \in Conns, MainSends(c) PROVE MainTypes'
  <2>1. PICK n \in Takes(up[c], written[c]) :
          /\ written' = [written EXCEPT ![c] = Progress(@, n)]
          /\ IF Progress(written[c], n) = 0 THEN AfterSend(c) ELSE UNCHANGED <<main, cmd>>
    BY <1>1 DEF MainSends
  <2>2. Progress(written[c], n) \in 0 .. PACKET_SIZE - 1
    BY <2>1, ProgressType DEF Takes
  <2>3. written' \in [Conns -> 0 .. PACKET_SIZE - 1]
    BY <2>1, <2>2
  <2>4. UNCHANGED <<typed, rx, fd, shut>>
    BY <1>1 DEF MainSends, rx_vars, fd_vars
  <2>. QED BY <2>1, <2>3, <2>4 DEF AfterSend, Main
<1>2. ASSUME NEW c \in Conns, MainSendsInVain(c) PROVE MainTypes'
  <2>1. written' \in [Conns -> 0 .. PACKET_SIZE - 1]
    BY <1>0, <1>2 DEF MainSendsInVain
  <2>2. UNCHANGED <<typed, shut>>
    BY <1>2 DEF MainSendsInVain
  <2>3. CASE AfterSend(c) /\ UNCHANGED <<fd, cend, rx_vars, down>>
    BY <2>1, <2>2, <2>3 DEF AfterSend, Main, rx_vars
  <2>4. CASE Exits(c, "exited")
    BY <2>1, <2>2, <2>4 DEF Exits, Main
  <2>. QED BY <1>2, <2>3, <2>4 DEF MainSendsInVain
<1>3. ASSUME NEW c \in Conns,
             MainKilled(c) \/ StartReceiver(c) \/ Shutdown(c) \/ Join(c)
      PROVE  MainTypes'
  BY <1>3 DEF MainKilled, StartReceiver, Shutdown, Join, Exits, Main, rx_vars
<1>4. ASSUME NEW c \in Conns, UserTypes(c) PROVE MainTypes'
  BY <1>0, <1>4, LineType DEF UserTypes, Main, rx_vars, fd_vars, Command
<1>5. ASSUME NEW c \in Conns, EndOfInput(c) PROVE MainTypes'
  BY <1>0, <1>5 DEF EndOfInput, Main, rx_vars, fd_vars
<1>6. ASSUME NEW c \in Conns, ReceiverRuns(c) PROVE MainTypes'
  BY <1>6 DEF ReceiverRuns, RxReceives, RxPrints, RxEnds, main_vars, fd_vars
<1>7. ASSUME NEW c \in Conns, SessionRuns(c) PROVE MainTypes'
  BY <1>7 DEF SessionRuns, Accept, SessionReceives, RecvFails, Handle, Remove,
     Close, SessionSends, SessionSendsInVain, ServerKilled, main_vars, rx_vars,
     fd_vars
<1>8. CASE UNCHANGED cli_vars
  BY <1>8 DEF cli_vars, main_vars, rx_vars, fd_vars
<1>. QED
  BY <1>1, <1>2, <1>3, <1>4, <1>5, <1>6, <1>7, <1>8 DEF CliNext, MainRuns

\* The threads of the server.
LEMMA ServerTypeStep ==
  ASSUME ServerTypes, [CliNext]_cli_vars
  PROVE  ServerTypes'
<1>. USE DEF ServerTypes
<1>0. PACKET_SIZE \in Nat \ {0}
  BY PacketAssumption
<1>1. ASSUME NEW c \in Conns, MainRuns(c) PROVE ServerTypes'
  <2>1. cend' \in [Conns -> {"open", "closed", "broken"}]
    <3>1. CASE cend' = cend
      BY <3>1
    <3>2. CASE cend' = [cend EXCEPT ![c] = IF @ = "open" THEN "closed" ELSE @]
      BY <3>2
    <3>. QED
      BY <1>1, <3>1, <3>2 DEF MainRuns, MainSends, MainSendsInVain, MainKilled,
         StartReceiver, Shutdown, Join, Exits
  <2>2. srv' \in [Conns -> {"open", "closed", "broken"}]
    <3>1. CASE srv' = srv
      BY <3>1
    <3>2. CASE \E p \in {"closed", "broken"} : srv' = [srv EXCEPT ![c] = p]
      BY <3>2
    <3>. QED
      BY <1>1, <3>1, <3>2 DEF MainRuns, MainSends, MainSendsInVain, MainKilled,
         StartReceiver, Shutdown, Join
  <2>3. UNCHANGED server_vars
    BY <1>1 DEF MainRuns, MainSends, MainSendsInVain, MainKilled, StartReceiver,
       Shutdown, Join
  <2>. QED BY <2>1, <2>2, <2>3 DEF server_vars
<1>2. ASSUME NEW c \in Conns, UserTypes(c) \/ EndOfInput(c) \/ ReceiverRuns(c)
      PROVE  ServerTypes'
  BY <1>2 DEF UserTypes, EndOfInput, ReceiverRuns, RxReceives, RxPrints, RxEnds,
     server_vars
<1>3. ASSUME NEW s \in Conns,
             Accept(s) \/ SessionReceives(s) \/ RecvFails(s) \/ Remove(s) \/ Close(s)
      PROVE  ServerTypes'
  <2>1. CASE Accept(s)
    BY <2>1 DEF Accept, At
  <2>2. CASE SessionReceives(s)
    BY <2>2 DEF SessionReceives
  <2>3. CASE RecvFails(s)
    BY <2>3 DEF RecvFails, At
  <2>4. CASE Remove(s)
    BY <2>4 DEF Remove, At
  <2>5. CASE Close(s)
    BY <2>5 DEF Close, At
  <2>. QED BY <1>3, <2>1, <2>2, <2>3, <2>4, <2>5
<1>4. ASSUME NEW s \in Conns, Handle(s) PROVE ServerTypes'
  BY <1>4 DEF Handle, At
<1>5. ASSUME NEW s \in Conns, NEW d \in Conns, Written(s, d)
      PROVE  /\ at' \in [Conns -> Conns \cup {None}]
             /\ sent' \in [Conns -> 0 .. PACKET_SIZE - 1]
             /\ to' \in [Conns -> SUBSET Conns]
             /\ session' \in [Conns -> {"accept", "recv", "send", "logout",
                                        "remove", "close", "done"}]
  BY <1>0, <1>5 DEF Written
<1>6. ASSUME NEW s \in Conns, NEW d \in Conns, SessionSends(s, d) PROVE ServerTypes'
  <2>1. PICK n \in Takes(down[d], sent[s]) :
          IF Progress(sent[s], n) = 0
            THEN Written(s, d)
            ELSE /\ at' = [at EXCEPT ![s] = d]
                 /\ sent' = [sent EXCEPT ![s] = Progress(@, n)]
                 /\ UNCHANGED <<to, session>>
    BY <1>6 DEF SessionSends
  <2>2. Progress(sent[s], n) \in 0 .. PACKET_SIZE - 1
    BY <2>1, ProgressType DEF Takes
  <2>3. /\ at' \in [Conns -> Conns \cup {None}]
        /\ sent' \in [Conns -> 0 .. PACKET_SIZE - 1]
        /\ to' \in [Conns -> SUBSET Conns]
        /\ session' \in [Conns -> {"accept", "recv", "send", "logout",
                                   "remove", "close", "done"}]
    BY <1>5, <2>1, <2>2
  <2>. QED BY <1>6, <2>3 DEF SessionSends
<1>7. ASSUME NEW s \in Conns, NEW d \in Conns, SessionSendsInVain(s, d)
      PROVE  ServerTypes'
  <2>1. cend' \in [Conns -> {"open", "closed", "broken"}]
    BY <1>7 DEF SessionSendsInVain
  <2>. QED BY <1>5, <1>7, <2>1 DEF SessionSendsInVain
<1>8. ASSUME NEW s \in Conns, NEW d \in Conns, ServerKilled(s, d)
      PROVE  ServerTypes'
  <2>1. srv' \in [Conns -> {"open", "closed", "broken"}]
    BY <1>8 DEF ServerKilled
  <2>2. /\ session' \in [Conns -> {"accept", "recv", "send", "logout",
                                   "remove", "close", "done"}]
        /\ to' \in [Conns -> SUBSET Conns]
        /\ at' \in [Conns -> Conns \cup {None}]
        /\ sent' \in [Conns -> 0 .. PACKET_SIZE - 1]
    BY <1>0, <1>8 DEF ServerKilled
  <2>3. /\ server_up' = FALSE /\ members' = {}
        /\ UNCHANGED <<cend, mixed>>
    BY <1>8 DEF ServerKilled
  <2>. QED BY <2>1, <2>2, <2>3
<1>9. CASE UNCHANGED cli_vars
  BY <1>9 DEF cli_vars, server_vars
<1>. QED
  BY <1>1, <1>2, <1>3, <1>4, <1>6, <1>7, <1>8, <1>9 DEF CliNext, SessionRuns

\* A recv takes what there is, and no more than the packet lacks.
LEMMA GivesType ==
  ASSUME NEW S, NEW a \in Seq(S), NEW b \in Seq(S), NEW n \in Gives(b, a)
  PROVE  n \in 1 .. Len(b) /\ n <= PACKET_SIZE - Len(a)
<1>1. Len(a) \in Nat /\ Len(b) \in Nat /\ PACKET_SIZE \in Nat
  BY LenProperties, PacketAssumption
<1>. QED BY <1>1 DEF Gives

\* A recv leaves the stream alone.
LEMMA GivesKeepStream ==
  ASSUME NEW S, NEW a \in Seq(S), NEW b \in Seq(S), NEW n \in Gives(b, a)
  PROVE  Moved(a, b, n) = a \o b
<1>1. n \in 1 .. Len(b)
  BY GivesType
<1>. QED BY <1>1, ReadKeepsStream

\* One buffer changes, within its limit.
LEMMA BufferType ==
  ASSUME NEW S, NEW N, NEW f \in [Conns -> Seq(S)], NEW c \in Conns,
         NEW v \in Seq(S), Len(v) <= N, \A x \in Conns : Len(f[x]) <= N
  PROVE  /\ [f EXCEPT ![c] = v] \in [Conns -> Seq(S)]
         /\ \A x \in Conns : Len([f EXCEPT ![c] = v][x]) <= N
<1>1. ASSUME NEW T, NEW g \in [Conns -> T], NEW w \in T
      PROVE  /\ [g EXCEPT ![c] = w] \in [Conns -> T]
             /\ \A x \in Conns : [g EXCEPT ![c] = w][x] = IF x = c THEN w ELSE g[x]
  OBVIOUS
<1>2. /\ [f EXCEPT ![c] = v] \in [Conns -> Seq(S)]
      /\ \A x \in Conns : [f EXCEPT ![c] = v][x] = IF x = c THEN v ELSE f[x]
  BY <1>1, Zenon
<1>. QED BY <1>2, Zenon

\* One buffer is emptied, or none.
LEMMA EmptiedType ==
  ASSUME NEW S, NEW N \in Nat, NEW f \in [Conns -> Seq(S)], NEW g, NEW c \in Conns,
         \A x \in Conns : Len(f[x]) <= N,
         g = f \/ g = [f EXCEPT ![c] = <<>>]
  PROVE  g \in [Conns -> Seq(S)] /\ \A x \in Conns : Len(g[x]) <= N
<1>1. <<>> \in Seq(S) /\ Len(<<>>) <= N
  BY EmptySeq
<1>2. CASE g = f
  BY <1>2
<1>3. CASE g = [f EXCEPT ![c] = <<>>]
  <2>1. PICK e \in Seq(S) : e = <<>> /\ Len(e) <= N
    BY <1>1
  <2>. QED BY <1>3, <2>1, BufferType
<1>. QED BY <1>2, <1>3

\* The bytes between them.
LEMMA StreamTypeStep ==
  ASSUME MainTypes, StreamTypes, ServerTypes, [CliNext]_cli_vars,
         \A c \in Conns : main[c] = "send" => cmd[c] \in Command
  PROVE  StreamTypes'
<1>0. /\ PACKET_SIZE \in Nat /\ BUFFER \in Nat
      /\ <<>> \in Seq(Byte(Conns)) /\ <<>> \in Seq(Byte(Command))
      /\ Len(<<>>) = 0
  BY PacketAssumption, CliAssumption
<1>. DEFINE U(c) == up' = [up EXCEPT ![c] = <<>>]
            D(c) == down' = [down EXCEPT ![c] = <<>>]
            P(c) == pkt' = [pkt EXCEPT ![c] = <<>>]
            R(c) == req' = [req EXCEPT ![c] = <<>>]
<1>1. ASSUME NEW c \in Conns, up' = up \/ U(c), down' = down \/ D(c),
             pkt' = pkt \/ P(c), req' = req \/ R(c)
      PROVE  StreamTypes'
  <2>1. /\ up' \in [Conns -> Seq(Byte(Command))]
        /\ \A x \in Conns : Len(up'[x]) <= BUFFER
    <3>1. up \in [Conns -> Seq(Byte(Command))] /\ \A x \in Conns : Len(up[x]) <= BUFFER
      BY DEF StreamTypes
    <3>2. up' = up \/ up' = [up EXCEPT ![c] = <<>>]
      BY <1>1
    <3>. QED BY <1>0, <3>1, <3>2, EmptiedType
  <2>2. /\ down' \in [Conns -> Seq(Byte(Conns))]
        /\ \A x \in Conns : Len(down'[x]) <= BUFFER
    <3>1. down \in [Conns -> Seq(Byte(Conns))] /\ \A x \in Conns : Len(down[x]) <= BUFFER
      BY DEF StreamTypes
    <3>2. down' = down \/ down' = [down EXCEPT ![c] = <<>>]
      BY <1>1
    <3>. QED BY <1>0, <3>1, <3>2, EmptiedType
  <2>3. /\ pkt' \in [Conns -> Seq(Byte(Conns))]
        /\ \A x \in Conns : Len(pkt'[x]) <= PACKET_SIZE
    <3>1. pkt \in [Conns -> Seq(Byte(Conns))] /\ \A x \in Conns : Len(pkt[x]) <= PACKET_SIZE
      BY DEF StreamTypes
    <3>2. pkt' = pkt \/ pkt' = [pkt EXCEPT ![c] = <<>>]
      BY <1>1
    <3>. QED BY <1>0, <3>1, <3>2, EmptiedType
  <2>4. /\ req' \in [Conns -> Seq(Byte(Command))]
        /\ \A x \in Conns : Len(req'[x]) <= PACKET_SIZE
    <3>1. req \in [Conns -> Seq(Byte(Command))] /\ \A x \in Conns : Len(req[x]) <= PACKET_SIZE
      BY DEF StreamTypes
    <3>2. req' = req \/ req' = [req EXCEPT ![c] = <<>>]
      BY <1>1
    <3>. QED BY <1>0, <3>1, <3>2, EmptiedType
  <2>. QED BY <2>1, <2>2, <2>3, <2>4 DEF StreamTypes
<1>2. ASSUME NEW c \in Conns, MainSends(c) PROVE StreamTypes'
  <2>1. PICK n \in Takes(up[c], written[c]) :
          up' = [up EXCEPT ![c] = Put(@, cmd[c], written[c], n)]
    BY <1>2 DEF MainSends
  <2>2. cmd[c] \in Command /\ UNCHANGED <<down, pkt, req>>
    BY <1>2 DEF MainSends, rx_vars, server_vars
  <2>3. /\ up[c] \in Seq(Byte(Command)) /\ written[c] \in 0 .. PACKET_SIZE - 1
        /\ n \in 1 .. PACKET_SIZE - written[c] /\ Len(up[c]) + n <= BUFFER
    BY <2>1 DEF StreamTypes, MainTypes, Takes
  <2>4. /\ Put(up[c], cmd[c], written[c], n) \in Seq(Byte(Command))
        /\ Len(Put(up[c], cmd[c], written[c], n)) <= BUFFER
    <3>. PICK b \in Seq(Byte(Command)) : b = up[c]
      BY <2>3
    <3>1. /\ Put(b, cmd[c], written[c], n) \in Seq(Byte(Command))
          /\ Len(Put(b, cmd[c], written[c], n)) = Len(b) + n
      BY <2>2, <2>3, PutType
    <3>. QED BY <2>3, <3>1
  <2>. QED BY <2>1, <2>2, <2>4, BufferType DEF StreamTypes
<1>3. ASSUME NEW s \in Conns, NEW d \in Conns, SessionSends(s, d)
      PROVE  StreamTypes'
  <2>1. PICK n \in Takes(down[d], sent[s]) :
          down' = [down EXCEPT ![d] = Put(@, s, sent[s], n)]
    BY <1>3 DEF SessionSends
  <2>2. UNCHANGED <<up, pkt, req>>
    BY <1>3 DEF SessionSends, rx_vars
  <2>3. /\ down[d] \in Seq(Byte(Conns)) /\ sent[s] \in 0 .. PACKET_SIZE - 1
        /\ n \in 1 .. PACKET_SIZE - sent[s] /\ Len(down[d]) + n <= BUFFER
    BY <2>1 DEF StreamTypes, ServerTypes, Takes
  <2>4. /\ Put(down[d], s, sent[s], n) \in Seq(Byte(Conns))
        /\ Len(Put(down[d], s, sent[s], n)) <= BUFFER
    <3>. PICK b \in Seq(Byte(Conns)) : b = down[d]
      BY <2>3
    <3>1. /\ Put(b, s, sent[s], n) \in Seq(Byte(Conns))
          /\ Len(Put(b, s, sent[s], n)) = Len(b) + n
      BY <2>3, PutType
    <3>. QED BY <2>3, <3>1
  <2>. QED BY <2>1, <2>2, <2>4, BufferType DEF StreamTypes
<1>4. ASSUME NEW c \in Conns, RxReceives(c) PROVE StreamTypes'
  <2>1. PICK n \in Gives(down[c], pkt[c]) :
          /\ pkt' = [pkt EXCEPT ![c] = @ \o SubSeq(down[c], 1, n)]
          /\ down' = [down EXCEPT ![c] = SubSeq(@, n + 1, Len(@))]
    BY <1>4 DEF RxReceives
  <2>2. UNCHANGED <<up, req>>
    BY <1>4 DEF RxReceives, server_vars
  <2>3. PICK a, b \in Seq(Byte(Conns)) : a = pkt[c] /\ b = down[c]
    BY DEF StreamTypes
  <2>4. n \in 1 .. Len(b) /\ n <= PACKET_SIZE - Len(a)
    BY <2>1, <2>3, GivesType
  <2>. DEFINE p == a \o SubSeq(b, 1, n)
              q == SubSeq(b, n + 1, Len(b))
  <2>5. /\ p \in Seq(Byte(Conns)) /\ q \in Seq(Byte(Conns))
        /\ Len(p) = Len(a) + n /\ Len(q) = Len(b) - n
    <3>. DEFINE S == Byte(Conns)
    <3>. HIDE DEF S
    <3>1. a \in Seq(S) /\ b \in Seq(S)
      BY DEF S
    <3>2. p \in Seq(S) /\ Len(p) = Len(a) + n
      BY <2>4, <3>1, ReadKeepsStream
    <3>3. q \in Seq(S) /\ Len(q) = Len(b) - n
      BY <2>4, <3>1, ReadKeepsStream
    <3>. QED BY <3>2, <3>3 DEF S
  <2>6. Len(p) <= PACKET_SIZE /\ Len(q) <= BUFFER
    <3>1. Len(a) \in Nat /\ Len(b) \in Nat /\ Len(b) <= BUFFER
      BY <2>3 DEF StreamTypes
    <3>. QED BY <1>0, <2>4, <2>5, <3>1
  <2>7. pkt' = [pkt EXCEPT ![c] = p] /\ down' = [down EXCEPT ![c] = q]
    BY <2>1, <2>3
  <2>. HIDE DEF p, q
  <2>. QED BY <2>2, <2>5, <2>6, <2>7, BufferType DEF StreamTypes
<1>5. ASSUME NEW s \in Conns, SessionReceives(s) PROVE StreamTypes'
  <2>1. PICK n \in Gives(up[s], req[s]) :
          /\ req' = [req EXCEPT ![s] = @ \o SubSeq(up[s], 1, n)]
          /\ up' = [up EXCEPT ![s] = SubSeq(@, n + 1, Len(@))]
    BY <1>5 DEF SessionReceives
  <2>2. UNCHANGED <<down, pkt>>
    BY <1>5 DEF SessionReceives, rx_vars
  <2>3. PICK a, b \in Seq(Byte(Command)) : a = req[s] /\ b = up[s]
    BY DEF StreamTypes
  <2>4. n \in 1 .. Len(b) /\ n <= PACKET_SIZE - Len(a)
    BY <2>1, <2>3, GivesType
  <2>. DEFINE p == a \o SubSeq(b, 1, n)
              q == SubSeq(b, n + 1, Len(b))
  <2>5. /\ p \in Seq(Byte(Command)) /\ q \in Seq(Byte(Command))
        /\ Len(p) = Len(a) + n /\ Len(q) = Len(b) - n
    <3>. DEFINE S == Byte(Command)
    <3>. HIDE DEF S
    <3>1. a \in Seq(S) /\ b \in Seq(S)
      BY DEF S
    <3>2. p \in Seq(S) /\ Len(p) = Len(a) + n
      BY <2>4, <3>1, ReadKeepsStream
    <3>3. q \in Seq(S) /\ Len(q) = Len(b) - n
      BY <2>4, <3>1, ReadKeepsStream
    <3>. QED BY <3>2, <3>3 DEF S
  <2>6. Len(p) <= PACKET_SIZE /\ Len(q) <= BUFFER
    <3>1. Len(a) \in Nat /\ Len(b) \in Nat /\ Len(b) <= BUFFER
      BY <2>3 DEF StreamTypes
    <3>. QED BY <1>0, <2>4, <2>5, <3>1
  <2>7. req' = [req EXCEPT ![s] = p] /\ up' = [up EXCEPT ![s] = q]
    BY <2>1, <2>3
  <2>. HIDE DEF p, q
  <2>. QED BY <2>2, <2>5, <2>6, <2>7, BufferType DEF StreamTypes
<1>6. ASSUME NEW c \in Conns,
             \/ MainSendsInVain(c) \/ MainKilled(c) \/ StartReceiver(c)
             \/ Shutdown(c) \/ Join(c) \/ UserTypes(c) \/ EndOfInput(c)
      PROVE  StreamTypes'
  <2>1. UNCHANGED <<up, req>>
    BY <1>6 DEF MainSendsInVain, MainKilled, StartReceiver, Shutdown, Join,
       UserTypes, EndOfInput, server_vars
  <2>2. (down' = down \/ D(c)) /\ (pkt' = pkt \/ P(c))
    BY <1>6 DEF MainSendsInVain, MainKilled, StartReceiver, Shutdown, Join,
       UserTypes, EndOfInput, Exits, rx_vars
  <2>. QED BY <1>1, <2>1, <2>2
<1>7. ASSUME NEW c \in Conns, RxPrints(c) \/ RxEnds(c) PROVE StreamTypes'
  <2>1. UNCHANGED <<up, down, req>> /\ P(c)
    BY <1>7 DEF RxPrints, RxEnds, server_vars
  <2>. QED BY <1>1, <2>1
<1>8. ASSUME NEW s \in Conns,
             \/ Accept(s) \/ RecvFails(s) \/ Handle(s) \/ Remove(s) \/ Close(s)
             \/ \E d \in Conns : SessionSendsInVain(s, d)
      PROVE  StreamTypes'
  <2>1. UNCHANGED <<down, pkt>> /\ (up' = up \/ U(s)) /\ (req' = req \/ R(s))
    BY <1>8 DEF Accept, RecvFails, Handle, Remove, Close, SessionSendsInVain, rx_vars
  <2>. QED BY <1>1, <2>1
<1>9. ASSUME NEW s \in Conns, NEW d \in Conns, ServerKilled(s, d)
      PROVE  StreamTypes'
  <2>1. /\ up' = [c \in Conns |-> <<>>] /\ req' = [c \in Conns |-> <<>>]
        /\ UNCHANGED <<down, pkt>>
    BY <1>9 DEF ServerKilled, rx_vars
  <2>. QED BY <1>0, <2>1 DEF StreamTypes
<1>10. CASE UNCHANGED cli_vars
  BY <1>10 DEF cli_vars, server_vars, rx_vars, StreamTypes
<1>. HIDE DEF U, D, P, R
<1>. QED
  BY <1>2, <1>3, <1>4, <1>5, <1>6, <1>7, <1>8, <1>9, <1>10
     DEF CliNext, MainRuns, ReceiverRuns, SessionRuns

-----------------------------------------------------------------------------
(* The invariant, action by action.                                        *)

\* No step of the server, or of another client, moves a main thread; its own
\* steps leave a send only when the packet is written or its end is lost.
LEMMA FlagsStep ==
  ASSUME CliInv, [CliNext]_cli_vars, NEW c \in Conns
  PROVE  /\ srv'[c] = "open" => main'[c] = "send" \/ written'[c] = 0
         /\ main'[c] = "send" => cmd'[c] \in Command
         /\ cend'[c] # "open" => main'[c] \in {"join", "exited", "killed"}
         /\ shut'[c] => cend'[c] # "open"
<1>. DEFINE Flags == /\ srv[c] = "open" => main[c] = "send" \/ written[c] = 0
                     /\ main[c] = "send" => cmd[c] \in Command
                     /\ cend[c] # "open" => main[c] \in {"join", "exited", "killed"}
                     /\ shut[c] => cend[c] # "open"
<1>0. Flags
  BY DEF CliInv, UpOK
<1>00. MainTypes /\ ServerTypes
  BY TypeParts DEF CliInv
<1>. SUFFICES Flags'
  OBVIOUS
<1>1. ASSUME main'[c] = main[c], cmd'[c] = cmd[c], written'[c] = written[c],
             shut'[c] = shut[c], srv'[c] = "open" => srv[c] = "open",
             cend'[c] = "open" <=> cend[c] = "open"
      PROVE  Flags'
  BY <1>0, <1>1
<1>2. ASSUME NEW x \in Conns, MainSends(x) PROVE Flags'
  <2>1. UNCHANGED <<srv, cend, shut>>
    BY <1>2 DEF MainSends, fd_vars
  <2>2. CASE x # c
    <3>1. main'[c] = main[c] /\ cmd'[c] = cmd[c] /\ written'[c] = written[c]
      BY <1>2, <1>00, <2>2 DEF MainSends, AfterSend, Main, MainTypes
    <3>. QED BY <1>1, <2>1, <3>1
  <2>3. CASE x = c
    <3>1. main[c] = "send"
      BY <1>2, <2>3 DEF MainSends
    <3>2. \/ main'[c] = main[c] /\ cmd'[c] = cmd[c]
          \/ main'[c] # "send" /\ written'[c] = 0
      BY <1>2, <1>00, <2>3 DEF MainSends, AfterSend, Main, MainTypes
    <3>. QED BY <1>0, <2>1, <3>1, <3>2
  <2>. QED BY <2>2, <2>3
<1>3. ASSUME NEW x \in Conns,
             \/ MainSendsInVain(x) \/ MainKilled(x) \/ StartReceiver(x) \/ Join(x)
      PROVE  Flags'
  <2>1. CASE x # c
    <3>1. /\ main'[c] = main[c] /\ cmd'[c] = cmd[c] /\ written'[c] = written[c]
          /\ cend'[c] = cend[c] /\ srv'[c] = srv[c]
      BY <1>3, <1>00, <2>1 DEF MainSendsInVain, MainKilled, StartReceiver, Join,
         AfterSend, Exits, Main, MainTypes, ServerTypes
    <3>2. shut' = shut
      BY <1>3 DEF MainSendsInVain, MainKilled, StartReceiver, Join
    <3>. QED BY <1>1, <3>1, <3>2
  <2>2. CASE x = c
    <3>1. main'[c] # "send"
      BY <1>3, <1>00, <2>2 DEF MainSendsInVain, MainKilled, StartReceiver, Join,
         AfterSend, Exits, Main, MainTypes
    <3>2. srv'[c] = "open" => written'[c] = 0
      BY <1>0, <1>3, <1>00, <2>2 DEF MainSendsInVain, MainKilled, StartReceiver, Join,
         MainTypes, ServerTypes
    <3>3. cend'[c] # "open" => main'[c] \in {"join", "exited", "killed"}
      <4>1. cend' = cend \/ main'[c] \in {"exited", "killed"}
        BY <1>3, <1>00, <2>2 DEF MainSendsInVain, MainKilled, StartReceiver, Join,
           Exits, Main, MainTypes
      <4>2. main[c] # "join" => cend[c] = "open" \/ main[c] \in {"exited", "killed"}
        BY <1>0
      <4>3. main[c] \in {"send", "start", "join"}
        BY <1>3, <2>2 DEF MainSendsInVain, MainKilled, StartReceiver, Join
      <4>4. main[c] = "join" => main'[c] = "exited"
        BY <1>3, <1>00, <2>2 DEF MainSendsInVain, MainKilled, StartReceiver, Join,
           Exits, Main, MainTypes
      <4>. QED BY <4>1, <4>2, <4>3, <4>4
    <3>4. shut' = shut /\ (cend[c] # "open" => cend'[c] # "open")
      BY <1>3, <1>00, <2>2 DEF MainSendsInVain, MainKilled, StartReceiver, Join, Exits,
         ServerTypes
    <3>. QED BY <1>0, <3>1, <3>2, <3>3, <3>4
  <2>. QED BY <2>1, <2>2
<1>4. ASSUME NEW x \in Conns, Shutdown(x) PROVE Flags'
  BY <1>0, <1>4, <1>00 DEF Shutdown, Main, MainTypes, ServerTypes
<1>5. ASSUME NEW x \in Conns, UserTypes(x) PROVE Flags'
  <2>1. Lines[x][typed[x] + 1] \in Command
    BY <1>5, <1>00, LineType DEF UserTypes
  <2>. QED BY <1>0, <1>5, <1>00, <2>1 DEF UserTypes, Main, MainTypes, fd_vars
<1>6. ASSUME NEW x \in Conns, EndOfInput(x) PROVE Flags'
  BY <1>0, <1>6, <1>00 DEF EndOfInput, Main, MainTypes, fd_vars
<1>7. ASSUME NEW x \in Conns, ReceiverRuns(x) PROVE Flags'
  BY <1>0, <1>7 DEF ReceiverRuns, RxReceives, RxPrints, RxEnds, main_vars, fd_vars
<1>8. ASSUME NEW s \in Conns, SessionRuns(s) PROVE Flags'
  <2>1. UNCHANGED <<main, cmd, written, shut>>
    BY <1>8 DEF SessionRuns, Accept, SessionReceives, RecvFails, Handle, Remove,
       Close, SessionSends, SessionSendsInVain, ServerKilled, main_vars, fd_vars
  <2>2. srv'[c] = "open" => srv[c] = "open"
    BY <1>8, <1>00 DEF SessionRuns, Accept, SessionReceives, RecvFails, Handle, Remove,
       Close, SessionSends, SessionSendsInVain, ServerKilled, ServerTypes
  <2>3. cend'[c] = "open" <=> cend[c] = "open"
    BY <1>8, <1>00 DEF SessionRuns, Accept, SessionReceives, RecvFails, Handle, Remove,
       Close, SessionSends, SessionSendsInVain, ServerKilled, ServerTypes
  <2>. QED BY <1>1, <2>1, <2>2, <2>3
<1>9. CASE UNCHANGED cli_vars
  BY <1>0, <1>9 DEF cli_vars, main_vars, fd_vars
<1>. HIDE DEF Flags
<1>. QED
  BY <1>2, <1>3, <1>4, <1>5, <1>6, <1>7, <1>8, <1>9 DEF CliNext, MainRuns

\* Steps that leave the way to the server, and the writer's place on it, alone.
UpQuiet(c) ==
  /\ up'[c] = up[c] /\ req'[c] = req[c]
  /\ srv'[c] = "open" => /\ srv[c] = "open"
                         /\ \/ cmd'[c] = cmd[c] /\ written'[c] = written[c]
                            \/ written[c] = 0 /\ written'[c] = 0

\* Six actions write to it or read from it.
LEMMA UpChanges ==
  ASSUME CliInv, [CliNext]_cli_vars, NEW c \in Conns
  PROVE  \/ MainSends(c) \/ SessionReceives(c) \/ RecvFails(c) \/ Handle(c)
         \/ Close(c) \/ \E s, d \in Conns : ServerKilled(s, d)
         \/ UpQuiet(c)
<1>0. MainTypes /\ StreamTypes /\ ServerTypes
  BY TypeParts DEF CliInv
<1>00. srv[c] = "open" => main[c] = "send" \/ written[c] = 0
  BY DEF CliInv, UpOK
<1>1. ASSUME NEW x \in Conns, MainSends(x), x # c PROVE UpQuiet(c)
  BY <1>0, <1>1 DEF MainSends, AfterSend, Main, server_vars, UpQuiet, MainTypes,
     StreamTypes
<1>2. ASSUME NEW x \in Conns,
             \/ MainSendsInVain(x) \/ MainKilled(x) \/ StartReceiver(x)
             \/ Shutdown(x) \/ Join(x) \/ UserTypes(x) \/ EndOfInput(x)
      PROVE  UpQuiet(c)
  <2>1. UNCHANGED <<up, req>>
    BY <1>2 DEF MainSendsInVain, MainKilled, StartReceiver, Shutdown, Join, UserTypes,
       EndOfInput, server_vars
  <2>2. srv'[c] = "open" => srv[c] = "open"
    BY <1>0, <1>2 DEF MainSendsInVain, MainKilled, StartReceiver, Shutdown, Join,
       UserTypes, EndOfInput, ServerTypes
  <2>3. CASE x # c
    <3>1. cmd'[c] = cmd[c] /\ written'[c] = written[c]
      BY <1>0, <1>2, <2>3 DEF MainSendsInVain, MainKilled, StartReceiver, Shutdown,
         Join, UserTypes, EndOfInput, AfterSend, Exits, MainTypes
    <3>. QED BY <2>1, <2>2, <3>1 DEF UpQuiet
  <2>4. CASE x = c /\ srv'[c] = "open"
    <3>1. main[c] # "send" /\ written' = written
      BY <1>0, <1>2, <2>4 DEF MainSendsInVain, MainKilled, StartReceiver, Shutdown,
         Join, UserTypes, EndOfInput, ServerTypes
    <3>. QED BY <1>00, <2>1, <2>2, <3>1 DEF UpQuiet
  <2>. QED BY <2>1, <2>3, <2>4 DEF UpQuiet
<1>3. ASSUME NEW x \in Conns, ReceiverRuns(x) PROVE UpQuiet(c)
  BY <1>3 DEF ReceiverRuns, RxReceives, RxPrints, RxEnds, main_vars, server_vars,
     UpQuiet
<1>4. ASSUME NEW s \in Conns,
             \/ Accept(s) \/ Remove(s)
             \/ s # c /\ (SessionReceives(s) \/ RecvFails(s) \/ Handle(s) \/ Close(s))
             \/ \E d \in Conns : SessionSends(s, d) \/ SessionSendsInVain(s, d)
      PROVE  UpQuiet(c)
  <2>1. UNCHANGED <<cmd, written>>
    BY <1>4 DEF Accept, SessionReceives, RecvFails, Handle, Remove, Close,
       SessionSends, SessionSendsInVain, main_vars
  <2>2. up'[c] = up[c] /\ req'[c] = req[c]
    BY <1>0, <1>4 DEF Accept, SessionReceives, RecvFails, Handle, Remove, Close,
       SessionSends, SessionSendsInVain, StreamTypes
  <2>3. srv'[c] = "open" => srv[c] = "open"
    BY <1>0, <1>4 DEF Accept, SessionReceives, RecvFails, Handle, Remove, Close,
       SessionSends, SessionSendsInVain, ServerTypes
  <2>. QED BY <2>1, <2>2, <2>3 DEF UpQuiet
<1>5. CASE UNCHANGED cli_vars
  BY <1>5 DEF cli_vars, main_vars, server_vars, UpQuiet
<1>. QED
  BY <1>1, <1>2, <1>3, <1>4, <1>5 DEF CliNext, MainRuns, SessionRuns

\* The way to the server.
LEMMA UpStep ==
  ASSUME CliInv, [CliNext]_cli_vars, NEW c \in Conns
  PROVE  UpOK(c)'
<1>0. MainTypes /\ StreamTypes /\ ServerTypes
  BY TypeParts DEF CliInv
<1>00. PICK a, b \in Seq(Byte(Command)) : a = req[c] /\ b = up[c]
  BY <1>0 DEF StreamTypes
<1>1. /\ Frames(a \o b)
      /\ srv[c] = "open" => Ends(a \o b, cmd[c], written[c])
  BY <1>00 DEF CliInv, UpOK, ToServer
<1>2. SUFFICES /\ Frames(req'[c] \o up'[c])
               /\ srv'[c] = "open" => Ends(req'[c] \o up'[c], cmd'[c], written'[c])
  BY FlagsStep DEF UpOK, ToServer
<1>3. CASE UpQuiet(c)
  <2>1. req'[c] \o up'[c] = a \o b
    BY <1>00, <1>3 DEF UpQuiet
  <2>2. srv'[c] = "open" => Ends(a \o b, cmd'[c], written'[c])
    BY <1>1, <1>3 DEF UpQuiet, Ends
  <2>. QED BY <1>1, <2>1, <2>2
<1>4. CASE MainSends(c)
  <2>1. PICK n \in Takes(up[c], written[c]) :
          /\ up' = [up EXCEPT ![c] = Put(@, cmd[c], written[c], n)]
          /\ written' = [written EXCEPT ![c] = Progress(@, n)]
          /\ IF Progress(written[c], n) = 0 THEN AfterSend(c) ELSE UNCHANGED <<main, cmd>>
    BY <1>4 DEF MainSends
  <2>2. main[c] = "send" /\ srv[c] = "open" /\ req' = req
    BY <1>4 DEF MainSends, server_vars
  <2>3. cmd[c] \in Command
    BY <2>2 DEF CliInv, UpOK
  <2>4. written[c] \in 0 .. PACKET_SIZE - 1 /\ n \in 1 .. PACKET_SIZE - written[c]
    BY <1>0, <2>1 DEF MainTypes, Takes
  <2>5. /\ Frames(a \o Put(b, cmd[c], written[c], n))
        /\ Ends(a \o Put(b, cmd[c], written[c], n), cmd[c], Progress(written[c], n))
    BY <1>1, <2>2, <2>3, <2>4, PutKeepsFrames
  <2>6. up'[c] = Put(b, cmd[c], written[c], n) /\ req'[c] = a
    BY <1>0, <1>00, <2>1, <2>2 DEF StreamTypes
  <2>7. /\ written'[c] = Progress(written[c], n)
        /\ Progress(written[c], n) = 0 \/ cmd'[c] = cmd[c]
    BY <1>0, <2>1 DEF MainTypes
  <2>8. Ends(a \o Put(b, cmd[c], written[c], n), cmd'[c], written'[c])
    BY <2>5, <2>7 DEF Ends
  <2>. QED BY <2>5, <2>6, <2>8
<1>5. CASE SessionReceives(c)
  <2>1. PICK n \in Gives(up[c], req[c]) :
          /\ req' = [req EXCEPT ![c] = @ \o SubSeq(up[c], 1, n)]
          /\ up' = [up EXCEPT ![c] = SubSeq(@, n + 1, Len(@))]
    BY <1>5 DEF SessionReceives
  <2>2. n \in Gives(b, a)
    BY <1>00, <2>1
  <2>3. Moved(a, b, n) = a \o b
    BY <2>2, GivesKeepStream
  <2>4. req'[c] \o up'[c] = Moved(a, b, n)
    <3>1. req'[c] = a \o SubSeq(b, 1, n) /\ up'[c] = SubSeq(b, n + 1, Len(b))
      BY <1>0, <1>00, <2>1 DEF StreamTypes
    <3>. QED BY <3>1 DEF Moved
  <2>5. UNCHANGED <<cmd, written, srv>>
    BY <1>5 DEF SessionReceives, main_vars
  <2>. QED BY <1>1, <2>3, <2>4, <2>5
<1>6. CASE RecvFails(c)
  <2>1. req'[c] = <<>> /\ up'[c] = <<>> /\ UNCHANGED <<cmd, written, srv>>
    BY <1>0, <1>6 DEF RecvFails, main_vars, StreamTypes
  <2>2. srv[c] = "open" => written[c] = 0
    BY <1>6 DEF RecvFails, CliInv, UpOK
  <2>. QED BY <2>1, <2>2, EmptyStream
<1>7. CASE Handle(c)
  <2>1. req'[c] = <<>> /\ up'[c] = up[c] /\ UNCHANGED <<cmd, written, srv>>
    BY <1>0, <1>7 DEF Handle, main_vars, StreamTypes
  <2>2. Len(a) = PACKET_SIZE
    BY <1>00, <1>7 DEF Handle
  <2>3. written[c] \in 0 .. PACKET_SIZE - 1
    BY <1>0 DEF MainTypes
  <2>4. /\ Frames(<<>> \o b)
        /\ \A kind, i : i \in 0 .. PACKET_SIZE - 1 /\ Ends(a \o b, kind, i)
                          => Ends(<<>> \o b, kind, i)
    BY <1>1, <2>2, ReadIsWhole
  <2>5. srv[c] = "open" => Ends(<<>> \o b, cmd[c], written[c])
    BY <1>1, <2>3, <2>4
  <2>. QED BY <1>00, <2>1, <2>4, <2>5
<1>8. CASE Close(c)
  <2>1. req'[c] = a /\ up'[c] = <<>> /\ srv'[c] # "open"
    BY <1>0, <1>00, <1>8 DEF Close, StreamTypes, ServerTypes
  <2>2. Frames(a \o <<>>)
    BY <1>1, FrontIsFramed
  <2>. QED BY <2>1, <2>2
<1>9. ASSUME NEW s \in Conns, NEW d \in Conns, ServerKilled(s, d)
      PROVE  Frames(req'[c] \o up'[c]) /\ srv'[c] # "open"
  <2>1. req'[c] = <<>> /\ up'[c] = <<>> /\ srv'[c] # "open"
    BY <1>9 DEF ServerKilled
  <2>. QED BY <2>1, EmptyStream
<1>. QED
  BY <1>3, <1>4, <1>5, <1>6, <1>7, <1>8, <1>9, UpChanges

\* Steps that leave the way to the client, and its writers, alone: an end stays
\* gone, nobody begins to write, and who stops has found an end gone.
DownQuiet(c) ==
  /\ pkt'[c] = pkt[c] /\ down'[c] = down[c]
  /\ cend'[c] = "open" => cend[c] = "open"
  /\ srv'[c] = "open" => srv[c] = "open"
  /\ \A s \in Conns : at'[s] = c => at[s] = c /\ sent'[s] = sent[s]
  /\ cend'[c] = "open" /\ srv'[c] = "open"
       => \A s \in Conns : at[s] = c => at'[s] = c

\* The client's process has ended: what is left of the stream is lost.
Gone(c) ==
  /\ pkt'[c] = <<>> /\ down'[c] = <<>>
  /\ at' = at /\ cend'[c] # "open"

\* Four actions write to it or read from it, and the end of the client empties it.
LEMMA DownChanges ==
  ASSUME CliInv, [CliNext]_cli_vars, NEW c \in Conns
  PROVE  \/ RxReceives(c) \/ RxPrints(c) \/ RxEnds(c)
         \/ \E s \in Conns : SessionSends(s, c)
         \/ DownQuiet(c) \/ Gone(c)
<1>0. MainTypes /\ StreamTypes /\ ServerTypes
  BY TypeParts DEF CliInv
<1>1. ASSUME NEW x \in Conns,
             MainSendsInVain(x) \/ MainKilled(x) \/ StartReceiver(x) \/ Join(x)
      PROVE  DownQuiet(c) \/ Gone(c)
  <2>1. UNCHANGED <<at, sent>> /\ (srv'[c] = "open" => srv[c] = "open")
    BY <1>0, <1>1 DEF MainSendsInVain, MainKilled, StartReceiver, Join, server_vars,
       ServerTypes
  <2>2. \/ pkt'[c] = pkt[c] /\ down'[c] = down[c] /\ cend'[c] = cend[c]
        \/ pkt'[c] = <<>> /\ down'[c] = <<>> /\ cend'[c] # "open"
    BY <1>0, <1>1 DEF MainSendsInVain, MainKilled, StartReceiver, Join, Exits, rx_vars,
       StreamTypes, ServerTypes
  <2>. QED BY <2>1, <2>2 DEF DownQuiet, Gone
<1>2. ASSUME NEW x \in Conns,
             MainSends(x) \/ Shutdown(x) \/ UserTypes(x) \/ EndOfInput(x)
      PROVE  DownQuiet(c)
  <2>1. UNCHANGED <<pkt, down, at, sent, srv>>
    BY <1>2 DEF MainSends, Shutdown, UserTypes, EndOfInput, rx_vars, server_vars
  <2>2. cend'[c] = "open" => cend[c] = "open"
    BY <1>0, <1>2 DEF MainSends, Shutdown, UserTypes, EndOfInput, ServerTypes
  <2>. QED BY <2>1, <2>2 DEF DownQuiet
<1>3. ASSUME NEW x \in Conns, ReceiverRuns(x), x # c PROVE DownQuiet(c)
  <2>1. UNCHANGED <<at, sent, srv, cend>>
    BY <1>3 DEF ReceiverRuns, RxReceives, RxPrints, RxEnds, server_vars
  <2>2. pkt'[c] = pkt[c] /\ down'[c] = down[c]
    BY <1>0, <1>3 DEF ReceiverRuns, RxReceives, RxPrints, RxEnds, StreamTypes
  <2>. QED BY <2>1, <2>2 DEF DownQuiet
<1>4. ASSUME NEW s \in Conns,
             \/ Accept(s) \/ SessionReceives(s) \/ RecvFails(s) \/ Handle(s)
             \/ Remove(s) \/ Close(s)
      PROVE  DownQuiet(c)
  <2>1. UNCHANGED <<pkt, down, at, sent>>
    BY <1>4 DEF Accept, SessionReceives, RecvFails, Handle, Remove, Close, rx_vars
  <2>2. cend'[c] = "open" => cend[c] = "open"
    BY <1>0, <1>4 DEF Accept, SessionReceives, RecvFails, Handle, Remove, Close,
       ServerTypes
  <2>3. srv'[c] = "open" => srv[c] = "open"
    BY <1>0, <1>4 DEF Accept, SessionReceives, RecvFails, Handle, Remove, Close,
       ServerTypes
  <2>. QED BY <2>1, <2>2, <2>3 DEF DownQuiet
<1>5. ASSUME NEW s \in Conns, NEW d \in Conns, Writes(s, d)
      PROVE  at[s] = None \/ at[s] = d
  BY <1>5 DEF Writes, Targets
<1>6. ASSUME NEW s \in Conns, NEW d \in Conns, SessionSends(s, d), d # c
      PROVE  DownQuiet(c)
  <2>1. UNCHANGED <<pkt, srv, cend>> /\ down'[c] = down[c]
    BY <1>0, <1>6 DEF SessionSends, rx_vars, StreamTypes
  <2>2. at[s] # c
    BY <1>5, <1>6, CliAssumption DEF SessionSends
  <2>3. at'[s] # c /\ \A o \in Conns \ {s} : at'[o] = at[o] /\ sent'[o] = sent[o]
    BY <1>0, <1>6, CliAssumption DEF SessionSends, Written, ServerTypes
  <2>. QED BY <2>1, <2>2, <2>3 DEF DownQuiet
<1>7. ASSUME NEW s \in Conns, NEW d \in Conns, SessionSendsInVain(s, d)
      PROVE  DownQuiet(c)
  <2>1. UNCHANGED <<pkt, down, srv>>
    BY <1>7 DEF SessionSendsInVain, rx_vars
  <2>2. at'[s] # c /\ \A o \in Conns \ {s} : at'[o] = at[o] /\ sent'[o] = sent[o]
    BY <1>0, <1>7, CliAssumption DEF SessionSendsInVain, Written, ServerTypes
  <2>3. cend'[c] = "open" => cend[c] = "open"
    BY <1>0, <1>7 DEF SessionSendsInVain, ServerTypes
  <2>4. at[s] = c => cend'[c] # "open" \/ srv'[c] # "open"
    <3>1. CASE at[s] = c
      <4>1. d = c
        BY <1>5, <1>7, <3>1, CliAssumption DEF SessionSendsInVain
      <4>2. cend'[c] # "open" \/ srv[c] # "open"
        BY <1>0, <1>7, <3>1, <4>1 DEF SessionSendsInVain, ServerTypes
      <4>. QED BY <2>1, <4>2
    <3>. QED BY <3>1
  <2>. QED BY <2>1, <2>2, <2>3, <2>4 DEF DownQuiet
<1>8. ASSUME NEW s \in Conns, NEW d \in Conns, ServerKilled(s, d)
      PROVE  DownQuiet(c)
  <2>1. UNCHANGED <<pkt, down, cend>> /\ srv'[c] # "open"
    BY <1>8 DEF ServerKilled, rx_vars
  <2>2. \A o \in Conns : at'[o] # c
    BY <1>8, CliAssumption DEF ServerKilled
  <2>. QED BY <2>1, <2>2 DEF DownQuiet
<1>9. CASE UNCHANGED cli_vars
  BY <1>9 DEF cli_vars, rx_vars, server_vars, DownQuiet
<1>. QED
  BY <1>1, <1>2, <1>3, <1>4, <1>6, <1>7, <1>8, <1>9 DEF CliNext, MainRuns, ReceiverRuns,
     SessionRuns

\* The way to the client.
LEMMA DownStep ==
  ASSUME CliInv, [CliNext]_cli_vars, NEW c \in Conns, c \notin mixed, c \notin mixed'
  PROVE  DownOK(c)'
<1>0. MainTypes /\ StreamTypes /\ ServerTypes
  BY TypeParts DEF CliInv
<1>00. PICK a, b \in Seq(Byte(Conns)) : a = pkt[c] /\ b = down[c]
  BY <1>0 DEF StreamTypes
<1>1. /\ Frames(a \o b)
      /\ \A s, o \in Conns : at[s] = c /\ at[o] = c => s = o
      /\ cend[c] = "open" => \A s \in Conns : at[s] = c => Ends(a \o b, s, sent[s])
      /\ cend[c] = "open" /\ srv[c] = "open" /\ (\A s \in Conns : at[s] # c)
           => Ends(a \o b, None, 0)
  BY <1>00 DEF CliInv, DownOK, ToClient
<1>2. SUFFICES
        /\ Frames(pkt'[c] \o down'[c])
        /\ \A s, o \in Conns : at'[s] = c /\ at'[o] = c => s = o
        /\ cend'[c] = "open" => \A s \in Conns :
             at'[s] = c => Ends(pkt'[c] \o down'[c], s, sent'[s])
        /\ cend'[c] = "open" /\ srv'[c] = "open" /\ (\A s \in Conns : at'[s] # c)
             => Ends(pkt'[c] \o down'[c], None, 0)
  BY DEF DownOK, ToClient
<1>3. CASE DownQuiet(c)
  <2>1. pkt'[c] \o down'[c] = a \o b
    BY <1>00, <1>3 DEF DownQuiet
  <2>. QED BY <1>1, <1>3, <2>1 DEF DownQuiet
<1>4. CASE Gone(c)
  BY <1>1, <1>4, EmptyStream DEF Gone
<1>5. CASE RxReceives(c)
  <2>1. PICK n \in Gives(down[c], pkt[c]) :
          /\ pkt' = [pkt EXCEPT ![c] = @ \o SubSeq(down[c], 1, n)]
          /\ down' = [down EXCEPT ![c] = SubSeq(@, n + 1, Len(@))]
    BY <1>5 DEF RxReceives
  <2>2. n \in Gives(b, a)
    BY <1>00, <2>1
  <2>3. Moved(a, b, n) = a \o b
    BY <2>2, GivesKeepStream
  <2>4. pkt'[c] \o down'[c] = Moved(a, b, n)
    <3>1. pkt'[c] = a \o SubSeq(b, 1, n) /\ down'[c] = SubSeq(b, n + 1, Len(b))
      BY <1>0, <1>00, <2>1 DEF StreamTypes
    <3>. QED BY <3>1 DEF Moved
  <2>5. UNCHANGED <<at, sent, cend, srv>>
    BY <1>5 DEF RxReceives, server_vars
  <2>. QED BY <1>1, <2>3, <2>4, <2>5
<1>6. CASE RxPrints(c)
  <2>1. pkt'[c] = <<>> /\ down'[c] = b /\ UNCHANGED <<at, sent, cend, srv>>
    BY <1>0, <1>00, <1>6 DEF RxPrints, server_vars, StreamTypes
  <2>2. Len(a) = PACKET_SIZE
    BY <1>00, <1>6 DEF RxPrints, CliInv
  <2>3. \A s \in Conns : sent[s] \in 0 .. PACKET_SIZE - 1
    BY <1>0 DEF ServerTypes
  <2>4. /\ Frames(<<>> \o b)
        /\ \A kind, i : i \in 0 .. PACKET_SIZE - 1 /\ Ends(a \o b, kind, i)
                          => Ends(<<>> \o b, kind, i)
    BY <1>1, <2>2, ReadIsWhole
  <2>5. 0 \in 0 .. PACKET_SIZE - 1
    BY PacketAssumption
  <2>. QED BY <1>1, <2>1, <2>3, <2>4, <2>5
<1>7. CASE RxEnds(c)
  <2>1. pkt'[c] = <<>> /\ down'[c] = <<>> /\ UNCHANGED <<at, sent, cend, srv>>
    BY <1>0, <1>7 DEF RxEnds, server_vars, StreamTypes
  <2>2. cend[c] # "open" \/ (srv[c] # "open" /\ \A s \in Conns : at[s] # c)
    BY <1>7 DEF RxEnds, CliInv, UpOK
  <2>. QED BY <1>1, <2>1, <2>2, EmptyStream
<1>8. ASSUME NEW s \in Conns, SessionSends(s, c)
      PROVE  /\ Frames(pkt'[c] \o down'[c])
             /\ \A x, o \in Conns : at'[x] = c /\ at'[o] = c => x = o
             /\ cend'[c] = "open" => \A x \in Conns :
                  at'[x] = c => Ends(pkt'[c] \o down'[c], x, sent'[x])
             /\ cend'[c] = "open" /\ srv'[c] = "open" /\ (\A x \in Conns : at'[x] # c)
                  => Ends(pkt'[c] \o down'[c], None, 0)
  <2>1. PICK n \in Takes(down[c], sent[s]) :
          /\ down' = [down EXCEPT ![c] = Put(@, s, sent[s], n)]
          /\ IF Progress(sent[s], n) = 0
               THEN Written(s, c)
               ELSE /\ at' = [at EXCEPT ![s] = c]
                    /\ sent' = [sent EXCEPT ![s] = Progress(@, n)]
                    /\ UNCHANGED <<to, session>>
    BY <1>8 DEF SessionSends
  <2>2. \A o \in Conns \ {s} : at[o] # c
    BY <1>8 DEF SessionSends
  <2>3. /\ cend[c] = "open" /\ (srv[c] = "open" \/ at[s] = c)
        /\ at[s] = None \/ at[s] = c
        /\ UNCHANGED <<pkt, cend, srv>>
    BY <1>8 DEF SessionSends, Writes, Targets, rx_vars
  <2>4. Ends(a \o b, s, sent[s])
    <3>1. CASE at[s] = c
      BY <1>1, <2>3, <3>1
    <3>2. CASE at[s] # c
      <4>1. at[s] = None /\ sent[s] = 0
        BY <2>3, <3>2 DEF CliInv
      <4>2. Ends(a \o b, None, 0)
        BY <1>1, <2>2, <2>3, <3>2
      <4>. QED BY <4>1, <4>2 DEF Ends
    <3>. QED BY <3>1, <3>2
  <2>5. sent[s] \in 0 .. PACKET_SIZE - 1 /\ n \in 1 .. PACKET_SIZE - sent[s]
    BY <1>0, <2>1 DEF ServerTypes, Takes
  <2>6. /\ Frames(a \o Put(b, s, sent[s], n))
        /\ Ends(a \o Put(b, s, sent[s], n), s, Progress(sent[s], n))
    BY <1>1, <2>4, <2>5, PutKeepsFrames
  <2>7. pkt'[c] = a /\ down'[c] = Put(b, s, sent[s], n)
    BY <1>0, <1>00, <2>1, <2>3 DEF StreamTypes
  <2>8. \A o \in Conns \ {s} : at'[o] # c
    BY <1>0, <2>1, <2>2 DEF Written, ServerTypes
  <2>9. \/ at'[s] = None /\ Progress(sent[s], n) = 0
        \/ at'[s] = c /\ sent'[s] = Progress(sent[s], n)
    BY <1>0, <2>1 DEF Written, ServerTypes
  <2>10. at'[s] = c => sent'[s] = Progress(sent[s], n)
    BY <2>9, CliAssumption
  <2>11. at'[s] # c => Ends(a \o Put(b, s, sent[s], n), None, 0)
    BY <2>6, <2>9 DEF Ends
  <2>. QED BY <2>6, <2>7, <2>8, <2>10, <2>11
<1>. QED BY <1>3, <1>4, <1>5, <1>6, <1>7, <1>8, DownChanges

\* A session writes to someone exactly while it is in the middle of a packet,
\* and the receiver prints only what it has read to the end.
LEMMA MarksStep ==
  ASSUME CliInv, [CliNext]_cli_vars, NEW c \in Conns
  PROVE  /\ at'[c] = None <=> sent'[c] = 0
         /\ rx'[c] = "print" => Len(pkt'[c]) = PACKET_SIZE
<1>0. MainTypes /\ StreamTypes /\ ServerTypes
  BY TypeParts DEF CliInv
<1>00. /\ at[c] = None <=> sent[c] = 0
       /\ rx[c] = "print" => Len(pkt[c]) = PACKET_SIZE
  BY DEF CliInv
<1>1. ASSUME at'[c] = at[c], sent'[c] = sent[c], rx'[c] = rx[c], pkt'[c] = pkt[c]
      PROVE  /\ at'[c] = None <=> sent'[c] = 0
             /\ rx'[c] = "print" => Len(pkt'[c]) = PACKET_SIZE
  BY <1>00, <1>1
<1>2. ASSUME at'[c] = at[c], sent'[c] = sent[c], rx'[c] # "print"
      PROVE  /\ at'[c] = None <=> sent'[c] = 0
             /\ rx'[c] = "print" => Len(pkt'[c]) = PACKET_SIZE
  BY <1>00, <1>2
<1>3. ASSUME NEW x \in Conns, MainRuns(x) \/ UserTypes(x) \/ EndOfInput(x)
      PROVE  /\ at'[c] = at[c] /\ sent'[c] = sent[c]
             /\ (rx'[c] = rx[c] /\ pkt'[c] = pkt[c]) \/ rx'[c] # "print"
  <2>1. UNCHANGED <<at, sent>>
    BY <1>3 DEF MainRuns, MainSends, MainSendsInVain, MainKilled, StartReceiver,
       Shutdown, Join, UserTypes, EndOfInput, server_vars
  <2>2. (rx'[c] = rx[c] /\ pkt'[c] = pkt[c]) \/ rx'[c] # "print"
    BY <1>0, <1>3 DEF MainRuns, MainSends, MainSendsInVain, MainKilled, StartReceiver,
       Shutdown, Join, UserTypes, EndOfInput, Exits, rx_vars, MainTypes, StreamTypes
  <2>. QED BY <2>1, <2>2
<1>4. ASSUME NEW x \in Conns, RxReceives(x)
      PROVE  /\ at'[c] = None <=> sent'[c] = 0
             /\ rx'[c] = "print" => Len(pkt'[c]) = PACKET_SIZE
  <2>1. UNCHANGED <<at, sent>>
    BY <1>4 DEF RxReceives, server_vars
  <2>2. CASE x # c
    BY <1>0, <1>1, <1>4, <2>1, <2>2 DEF RxReceives, MainTypes, StreamTypes
  <2>3. CASE x = c
    <3>1. rx'[c] = IF Len(pkt'[c]) = PACKET_SIZE THEN "print"
                   ELSE IF fd[c] THEN rx[c] ELSE "ended"
      BY <1>0, <1>4, <2>3 DEF RxReceives, MainTypes
    <3>2. rx[c] = "recv"
      BY <1>4, <2>3 DEF RxReceives
    <3>. QED BY <1>00, <2>1, <3>1, <3>2
  <2>. QED BY <2>2, <2>3
<1>5. ASSUME NEW x \in Conns, RxPrints(x) \/ RxEnds(x)
      PROVE  /\ at'[c] = at[c] /\ sent'[c] = sent[c]
             /\ (rx'[c] = rx[c] /\ pkt'[c] = pkt[c]) \/ rx'[c] # "print"
  BY <1>0, <1>5 DEF RxPrints, RxEnds, server_vars, MainTypes, StreamTypes
<1>6. ASSUME NEW s \in Conns,
             \/ Accept(s) \/ SessionReceives(s) \/ RecvFails(s) \/ Handle(s)
             \/ Remove(s) \/ Close(s)
      PROVE  UNCHANGED <<at, sent, rx, pkt>>
  BY <1>6 DEF Accept, SessionReceives, RecvFails, Handle, Remove, Close, rx_vars
<1>7. ASSUME NEW s \in Conns, NEW d \in Conns, SessionSends(s, d)
      PROVE  /\ at'[c] = None <=> sent'[c] = 0
             /\ rx'[c] = rx[c] /\ pkt'[c] = pkt[c]
  <2>1. UNCHANGED <<rx, pkt>>
    BY <1>7 DEF SessionSends, rx_vars
  <2>2. PICK n \in Takes(down[d], sent[s]) :
          IF Progress(sent[s], n) = 0
            THEN Written(s, d)
            ELSE /\ at' = [at EXCEPT ![s] = d]
                 /\ sent' = [sent EXCEPT ![s] = Progress(@, n)]
    BY <1>7 DEF SessionSends
  <2>3. at'[c] = None <=> sent'[c] = 0
    BY <1>0, <1>00, <2>2, CliAssumption DEF Written, ServerTypes
  <2>. QED BY <2>1, <2>3
<1>8. ASSUME NEW s \in Conns, NEW d \in Conns,
             SessionSendsInVain(s, d) \/ ServerKilled(s, d)
      PROVE  /\ at'[c] = None <=> sent'[c] = 0
             /\ rx'[c] = rx[c] /\ pkt'[c] = pkt[c]
  <2>1. UNCHANGED <<rx, pkt>>
    BY <1>8 DEF SessionSendsInVain, ServerKilled, rx_vars
  <2>2. at'[c] = None <=> sent'[c] = 0
    BY <1>0, <1>00, <1>8 DEF SessionSendsInVain, ServerKilled, Written, ServerTypes
  <2>. QED BY <2>1, <2>2
<1>9. CASE UNCHANGED cli_vars
  BY <1>1, <1>9 DEF cli_vars, rx_vars, server_vars
<1>. QED
  BY <1>00, <1>1, <1>2, <1>3, <1>4, <1>5, <1>6, <1>7, <1>8, <1>9
     DEF CliNext, ReceiverRuns, SessionRuns

-----------------------------------------------------------------------------
(* Theorems.                                                               *)

\* The invariant holds when every client has connected and none has sent.
LEMMA CliInitInv ==
  ASSUME CliInit
  PROVE  CliInv
<1>1. PACKET_SIZE \in Nat \ {0} /\ BUFFER \in Nat \ {0}
  BY PacketAssumption, CliAssumption
<1>2. \A c \in Conns : Len(Lines[c]) \in Nat
  <2>1. \A c \in Conns : Lines[c] \in Seq(Command \ {"REGISTER"})
    BY CliAssumption
  <2>. QED BY <2>1, LenProperties
<1>3. MainTypes
  BY <1>1, <1>2 DEF CliInit, MainTypes, Command
<1>4. StreamTypes
  <2>1. <<>> \in Seq(Byte(Conns)) /\ <<>> \in Seq(Byte(Command)) /\ Len(<<>>) = 0
    OBVIOUS
  <2>. QED BY <1>1, <2>1 DEF CliInit, StreamTypes
<1>5. ServerTypes
  BY <1>1 DEF CliInit, ServerTypes
<1>6. ASSUME NEW c \in Conns PROVE UpOK(c)
  BY <1>6, EmptyStream DEF CliInit, UpOK, ToServer, Command
<1>7. ASSUME NEW c \in Conns PROVE DownOK(c)
  BY <1>7, EmptyStream, CliAssumption DEF CliInit, DownOK, ToClient
<1>. QED BY <1>3, <1>4, <1>5, <1>6, <1>7, TypeParts DEF CliInv, CliInit

\* Every step keeps it.
LEMMA CliStep ==
  ASSUME CliInv, [CliNext]_cli_vars
  PROVE  CliInv'
<1>1. MainTypes /\ StreamTypes /\ ServerTypes
  BY TypeParts DEF CliInv
<1>2. \A c \in Conns : main[c] = "send" => cmd[c] \in Command
  BY DEF CliInv, UpOK
<1>3. MainTypes' /\ StreamTypes' /\ ServerTypes'
  BY <1>1, <1>2, MainTypeStep, StreamTypeStep, ServerTypeStep
<1>4. CliTypeOK'
  BY <1>3 DEF CliTypeOK, MainTypes, StreamTypes, ServerTypes
<1>5. ASSUME NEW c \in Conns PROVE c \in mixed => c \in mixed'
  BY DEF CliNext, cli_vars, server_vars, MainRuns, MainSends, MainSendsInVain,
     MainKilled, StartReceiver, Shutdown, Join, UserTypes, EndOfInput, ReceiverRuns,
     RxReceives, RxPrints, RxEnds, SessionRuns, Accept, SessionReceives, RecvFails,
     Handle, Remove, Close, SessionSends, SessionSendsInVain, ServerKilled
<1>6. \A c \in Conns : UpOK(c)'
  BY UpStep
<1>7. \A c \in Conns : c \notin mixed' => DownOK(c)'
  BY <1>5, DownStep
<1>. QED BY <1>4, <1>6, <1>7, MarksStep DEF CliInv

\* The invariant holds always.
THEOREM CliInvariant == CliSpec => []CliInv
BY CliInitInv, CliStep, PTL DEF CliSpec

\* Every variable has its type; no buffer holds more than the kernel gives it,
\* no reader more than a packet, and every send stops at the packet's end.
THEOREM CliTypeCorrect == CliSpec => []CliTypeOK
<1>1. CliInv => CliTypeOK
  BY DEF CliInv
<1>. QED BY <1>1, CliInvariant, PTL

\* send_all and recv_all: whatever pieces the kernel makes of them, a packet
\* that was read is one that was sent, unless two sessions wrote at once.
THEOREM PacketsReadWhole == CliSpec => []PacketsWhole
<1>1. ASSUME CliInv PROVE PacketsWhole
  <2>1. StreamTypes
    BY <1>1, TypeParts DEF CliInv
  <2>2. ASSUME NEW c \in Conns, Len(req[c]) = PACKET_SIZE PROVE Whole(req[c])
    <3>1. PICK a, b \in Seq(Byte(Command)) : a = req[c] /\ b = up[c]
      BY <2>1 DEF StreamTypes
    <3>2. Frames(a \o b) /\ Len(a) = PACKET_SIZE
      BY <1>1, <2>2, <3>1 DEF CliInv, UpOK, ToServer
    <3>3. \E kind \in Command : a = Bytes(kind)
      BY <3>2, ReadIsWhole
    <3>. QED BY <3>1, <3>3 DEF Whole
  <2>3. ASSUME NEW c \in Conns, Len(pkt[c]) = PACKET_SIZE, c \notin mixed
        PROVE  Whole(pkt[c])
    <3>1. PICK a, b \in Seq(Byte(Conns)) : a = pkt[c] /\ b = down[c]
      BY <2>1 DEF StreamTypes
    <3>2. Frames(a \o b) /\ Len(a) = PACKET_SIZE
      BY <1>1, <2>3, <3>1 DEF CliInv, DownOK, ToClient
    <3>3. \E kind \in Conns : a = Bytes(kind)
      BY <3>2, ReadIsWhole
    <3>. QED BY <3>1, <3>3 DEF Whole
  <2>. QED BY <2>2, <2>3 DEF PacketsWhole
<1>. QED BY <1>1, CliInvariant, PTL
==============================================================================
