-------------------------- MODULE PacketBytesProofs --------------------------
(***************************************************************************)
(* Lemmas about streams of packet bytes, for any packet size: what a send, *)
(* a recv and the reading of a whole packet do to a stream.  They are the  *)
(* base of CliClientProofs and of GatewayProofs.                           *)
(*                                                                         *)
(* The bytes on their way to a reader are one stream: those it has read of *)
(* a packet, then those still in the kernel.  A stream is a row of packets *)
(* (Frames), and its last byte is where the writer has come to (Ends).     *)
(***************************************************************************)
EXTENDS PacketBytes, SequenceTheorems, TLAPS

\* A row of packets, the last one perhaps unfinished: from every byte on, the
\* packet continues to its end or to the end of the stream.
Frames(st) ==
  /\ st # <<>> => st[1][2] = 1
  /\ \A k \in 1 .. Len(st) : \A m \in 0 .. Len(st) - k :
       st[k][2] + m <= PACKET_SIZE => st[k + m] = <<st[k][1], st[k][2] + m>>
  /\ \A k \in 1 .. Len(st) - 1 : st[k][2] = PACKET_SIZE => st[k + 1][2] = 1

\* The last packet has i bytes, and is of the given kind; it is whole when i
\* is 0.
Ends(st, kind, i) ==
  IF i = 0 THEN st = <<>> \/ st[Len(st)][2] = PACKET_SIZE
           ELSE st # <<>> /\ st[Len(st)] = <<kind, i>>

-----------------------------------------------------------------------------
(* Streams.                                                                *)

\* The stream once a recv has moved n bytes from the buffer to the packet.
Moved(a, b, n) == (a \o SubSeq(b, 1, n)) \o SubSeq(b, n + 1, Len(b))

\* What a recv moves from the buffer to the packet stays in the stream.
LEMMA ReadKeepsStream ==
  ASSUME NEW S, NEW a \in Seq(S), NEW b \in Seq(S), NEW n \in 1 .. Len(b)
  PROVE  /\ SubSeq(b, 1, n) \in Seq(S) /\ Len(SubSeq(b, 1, n)) = n
         /\ a \o SubSeq(b, 1, n) \in Seq(S)
         /\ Len(a \o SubSeq(b, 1, n)) = Len(a) + n
         /\ SubSeq(b, n + 1, Len(b)) \in Seq(S)
         /\ Len(SubSeq(b, n + 1, Len(b))) = Len(b) - n
         /\ Moved(a, b, n) = a \o b
<1>. Len(a) \in Nat /\ Len(b) \in Nat
  BY LenProperties
<1>1. \A i \in 1 .. Len(b) : b[i] \in S
  BY ElementOfSeq
<1>2. /\ SubSeq(b, 1, n) \in Seq(S) /\ Len(SubSeq(b, 1, n)) = n
      /\ SubSeq(b, n + 1, Len(b)) \in Seq(S)
      /\ Len(SubSeq(b, n + 1, Len(b))) = Len(b) - n
  <2>1. \A i \in 1 .. n : b[i] \in S
    BY <1>1
  <2>2. \A i \in n + 1 .. Len(b) : b[i] \in S
    BY <1>1
  <2>3. /\ SubSeq(b, 1, n) \in Seq(S)
        /\ Len(SubSeq(b, 1, n)) = IF 1 <= n THEN n - 1 + 1 ELSE 0
    BY <2>1, SubSeqProperties
  <2>4. /\ SubSeq(b, n + 1, Len(b)) \in Seq(S)
        /\ Len(SubSeq(b, n + 1, Len(b)))
             = IF n + 1 <= Len(b) THEN Len(b) - (n + 1) + 1 ELSE 0
    BY <2>2, SubSeqProperties
  <2>. QED BY <2>3, <2>4
<1>3. PICK p \in Seq(S) : p = SubSeq(b, 1, n)
  BY <1>2
<1>4. PICK q \in Seq(S) : q = SubSeq(b, n + 1, Len(b))
  BY <1>2
<1>5. Len(p) = n /\ Len(q) = Len(b) - n
  BY <1>2, <1>3, <1>4
<1>6. /\ \A i \in 1 .. n : p[i] = b[i]
      /\ \A i \in 1 .. Len(b) - n : q[i] = b[n + i]
  <2>1. \A i \in 1 .. n : b[i] \in S
    BY <1>1
  <2>2. \A i \in n + 1 .. Len(b) : b[i] \in S
    BY <1>1
  <2>3. \A i \in 1 .. n - 1 + 1 : p[i] = b[1 + i - 1]
    BY <1>3, <2>1, SubSeqProperties
  <2>4. \A i \in 1 .. Len(b) - (n + 1) + 1 : q[i] = b[n + 1 + i - 1]
    BY <1>4, <2>2, SubSeqProperties
  <2>5. \A i \in 1 .. n : 1 + i - 1 = i /\ i \in 1 .. n - 1 + 1
    OBVIOUS
  <2>6. \A i \in 1 .. Len(b) - n : /\ n + 1 + i - 1 = n + i
                                  /\ i \in 1 .. Len(b) - (n + 1) + 1
    OBVIOUS
  <2>. QED BY <2>3, <2>4, <2>5, <2>6
<1>7. /\ a \o p \in Seq(S) /\ Len(a \o p) = Len(a) + n
      /\ \A i \in 1 .. Len(a) + n : (a \o p)[i] = IF i <= Len(a) THEN a[i] ELSE p[i - Len(a)]
  BY <1>5, ConcatProperties
<1>8. /\ a \o b \in Seq(S) /\ Len(a \o b) = Len(a) + Len(b)
      /\ \A i \in 1 .. Len(a) + Len(b) : (a \o b)[i] = IF i <= Len(a) THEN a[i] ELSE b[i - Len(a)]
  BY ConcatProperties
<1>9. PICK front \in Seq(S) : front = a \o p
  BY <1>7
<1>10. /\ front \o q \in Seq(S) /\ Len(front \o q) = Len(a) + Len(b)
       /\ \A i \in 1 .. Len(a) + Len(b) :
            (front \o q)[i] = IF i <= Len(a) + n THEN front[i] ELSE q[i - (Len(a) + n)]
  <2>1. Len(front) + Len(q) = Len(a) + Len(b)
    <3>1. Len(front) = Len(a) + n
      BY <1>7, <1>9
    <3>2. \A x, y \in Int : (x + n) + (y - n) = x + y
      OBVIOUS
    <3>. QED BY <1>5, <3>1, <3>2
  <2>. QED BY <1>7, <1>9, <2>1, ConcatProperties
<1>11. front \o q = a \o b
  <2>1. ASSUME NEW i \in 1 .. Len(a) + Len(b) PROVE (front \o q)[i] = (a \o b)[i]
    <3>1. CASE i <= Len(a)
      BY <1>7, <1>8, <1>9, <1>10, <3>1
    <3>2. CASE Len(a) < i /\ i <= Len(a) + n
      <4>1. i - Len(a) \in 1 .. n /\ i \in 1 .. Len(a) + n
        BY <3>2
      <4>. QED BY <1>6, <1>7, <1>8, <1>9, <1>10, <3>2, <4>1
    <3>3. CASE Len(a) + n < i
      <4>1. /\ i - (Len(a) + n) \in 1 .. Len(b) - n
            /\ n + (i - (Len(a) + n)) = i - Len(a)
        BY <3>3
      <4>2. (front \o q)[i] = b[i - Len(a)]
        BY <1>6, <1>10, <3>3, <4>1
      <4>. QED BY <1>8, <3>3, <4>2
    <3>4. \/ i <= Len(a)
          \/ Len(a) < i /\ i <= Len(a) + n
          \/ Len(a) + n < i
      <4>1. \A x, z, w \in Int : z <= x \/ (x < z /\ z <= w) \/ w < z
        OBVIOUS
      <4>2. Len(a) \in Int /\ Len(a) + n \in Int /\ i \in Int
        OBVIOUS
      <4>. QED BY <4>1, <4>2, Zenon
    <3>. QED BY <3>1, <3>2, <3>3, <3>4, Zenon
  <2>. QED BY <1>8, <1>10, <2>1, SeqEqual
<1>12. Moved(a, b, n) = a \o b
  BY <1>3, <1>4, <1>9, <1>11 DEF Moved
<1>. QED BY <1>2, <1>3, <1>4, <1>7, <1>9, <1>12

\* A part of a packet.
LEMMA ChunkProperties ==
  ASSUME NEW K, NEW kind \in K, NEW i \in 0 .. PACKET_SIZE - 1,
         NEW n \in 1 .. PACKET_SIZE - i
  PROVE  /\ SubSeq(Bytes(kind), i + 1, i + n) \in Seq(Byte(K))
         /\ Len(SubSeq(Bytes(kind), i + 1, i + n)) = n
         /\ \A j \in 1 .. n : SubSeq(Bytes(kind), i + 1, i + n)[j] = <<kind, i + j>>
<1>. PACKET_SIZE \in Nat
  BY PacketAssumption
<1>. DEFINE S == Byte(K)
            s == Bytes(kind)
<1>1. \A k \in 1 .. PACKET_SIZE : s[k] = <<kind, k>> /\ s[k] \in S
  BY DEF Bytes, Byte
<1>2. \A k \in i + 1 .. i + n : s[k] \in S
  <2>. HIDE DEF S, s
  <2>. QED BY <1>1
<1>. HIDE DEF S, s
<1>3. /\ SubSeq(s, i + 1, i + n) \in Seq(S)
      /\ Len(SubSeq(s, i + 1, i + n)) = IF i + 1 <= i + n THEN i + n - (i + 1) + 1 ELSE 0
      /\ \A j \in 1 .. i + n - (i + 1) + 1 : SubSeq(s, i + 1, i + n)[j] = s[i + 1 + j - 1]
  BY <1>2, SubSeqProperties
<1>4. \A j \in 1 .. n : SubSeq(s, i + 1, i + n)[j] = <<kind, i + j>>
  <2>. TAKE j \in 1 .. n
  <2>1. i + j \in 1 .. PACKET_SIZE /\ j \in 1 .. i + n - (i + 1) + 1 /\ i + 1 + j - 1 = i + j
    OBVIOUS
  <2>. QED BY <1>1, <1>3, <2>1
<1>5. Len(SubSeq(s, i + 1, i + n)) = n
  BY <1>3
<1>. QED BY <1>3, <1>4, <1>5 DEF S, s

\* A send continues the row of packets where the last one ended.
LEMMA WriteKeepsFrames ==
  ASSUME NEW K, NEW st \in Seq(Byte(K)), NEW kind \in K,
         NEW i \in 0 .. PACKET_SIZE - 1, NEW n \in 1 .. PACKET_SIZE - i,
         NEW chunk \in Seq(Byte(K)), Len(chunk) = n,
         \A j \in 1 .. n : chunk[j] = <<kind, i + j>>,
         Frames(st), Ends(st, kind, i)
  PROVE  /\ Frames(st \o chunk)
         /\ Ends(st \o chunk, kind, IF i + n = PACKET_SIZE THEN 0 ELSE i + n)
<1>. DEFINE new == st \o chunk
            L == Len(st)
            P == PACKET_SIZE
<1>. P \in Nat \ {0} /\ L \in Nat
  BY PacketAssumption, LenProperties
<1>1. /\ new \in Seq(Byte(K)) /\ Len(new) = L + n
      /\ \A j \in 1 .. L + n : new[j] = IF j <= L THEN st[j] ELSE chunk[j - L]
  BY ConcatProperties
<1>2. \A j \in 1 .. L : new[j] = st[j]
  BY <1>1
<1>3. \A j \in L + 1 .. L + n : new[j] = <<kind, i + (j - L)>>
  BY <1>1
<1>4. \A j \in 1 .. L : st[j][2] \in 1 .. P
  <2>1. \A j \in 1 .. L : st[j] \in Byte(K)
    BY ElementOfSeq
  <2>. QED BY <2>1 DEF Byte
<1>5. L = 0 <=> st = <<>>
  BY EmptySeq
<1>6. i = 0 => L = 0 \/ st[L][2] = P
  BY <1>5 DEF Ends
<1>7. i # 0 => L # 0 /\ st[L] = <<kind, i>>
  BY <1>5 DEF Ends
<1>8. /\ L # 0 => st[1][2] = 1
      /\ \A k \in 1 .. L : \A m \in 0 .. L - k :
           st[k][2] + m <= P => st[k + m] = <<st[k][1], st[k][2] + m>>
      /\ \A k \in 1 .. L - 1 : st[k][2] = P => st[k + 1][2] = 1
  BY <1>5 DEF Frames
<1>. HIDE DEF new, L
<1>9. new # <<>> => new[1][2] = 1
  <2>1. CASE L = 0
    BY <1>3, <1>7, <2>1
  <2>2. CASE L # 0
    BY <1>2, <1>8, <2>2
  <2>. QED BY <2>1, <2>2
<1>10. ASSUME NEW k \in 1 .. L + n, NEW m \in 0 .. L + n - k, new[k][2] + m <= P
       PROVE  new[k + m] = <<new[k][1], new[k][2] + m>>
  <2>1. CASE k + m <= L
    <3>1. k \in 1 .. L /\ m \in 0 .. L - k /\ k + m \in 1 .. L
      BY <2>1
    <3>2. new[k] = st[k] /\ new[k + m] = st[k + m]
      BY <1>2, <3>1
    <3>. QED BY <1>8, <1>10, <3>1, <3>2
  <2>2. CASE k > L
    <3>1. k \in L + 1 .. L + n /\ k + m \in L + 1 .. L + n
      BY <2>2
    <3>2. new[k] = <<kind, i + (k - L)>> /\ new[k + m] = <<kind, i + (k + m - L)>>
      BY <1>3, <3>1
    <3>. QED BY <3>2
  <2>3. CASE k <= L /\ k + m > L
    <3>1. k \in 1 .. L /\ L - k \in 0 .. L - k /\ k + (L - k) = L
      BY <2>3
    <3>2. new[k] = st[k] /\ st[k][2] \in 1 .. P
      BY <1>2, <1>4, <3>1
    <3>3. PICK x \in 1 .. P : x = st[k][2]
      BY <3>2, Zenon
    <3>4. x + (L - k) < P
      <4>1. x + m <= P
        BY <1>10, <3>2, <3>3
      <4>. QED BY <2>3, <4>1
    <3>5. st[L] = <<st[k][1], x + (L - k)>>
      BY <1>8, <3>1, <3>3, <3>4
    <3>6. i # 0
      BY <1>6, <2>3, <3>4, <3>5
    <3>7. kind = st[k][1] /\ i = x + (L - k)
      BY <1>7, <3>5, <3>6
    <3>8. new[k + m] = <<kind, i + ((k + m) - L)>>
      <4>1. k + m \in L + 1 .. L + n
        BY <2>3
      <4>. QED BY <1>3, <4>1
    <3>9. i + ((k + m) - L) = x + m
      <4>1. \A y, z, w \in Int : (y + (w - z)) + ((z + m) - w) = y + m
        OBVIOUS
      <4>2. x \in Int /\ L \in Int /\ k \in Int
        OBVIOUS
      <4>. QED BY <3>7, <4>1, <4>2, Zenon
    <3>. QED BY <3>2, <3>3, <3>7, <3>8, <3>9
  <2>. QED BY <2>1, <2>2, <2>3
<1>11. ASSUME NEW k \in 1 .. L + n - 1, new[k][2] = P PROVE new[k + 1][2] = 1
  <2>1. CASE k < L
    <3>1. k \in 1 .. L - 1 /\ k \in 1 .. L /\ k + 1 \in 1 .. L
      BY <2>1
    <3>. QED BY <1>2, <1>8, <1>11, <3>1
  <2>2. CASE k = L
    <3>1. new[L] = st[L] /\ st[L][2] = P
      BY <1>2, <1>11, <2>2
    <3>2. i = 0
      BY <1>7, <3>1
    <3>. QED BY <1>3, <2>2, <3>2
  <2>3. CASE k > L
    <3>1. new[k] = <<kind, i + (k - L)>>
      BY <1>3, <2>3
    <3>. QED BY <1>11, <3>1
  <2>. QED BY <2>1, <2>2, <2>3
<1>12. Ends(new, kind, IF i + n = PACKET_SIZE THEN 0 ELSE i + n)
  <2>1. Len(new) = L + n /\ new[L + n] = <<kind, i + n>>
    BY <1>1, <1>3
  <2>2. new # <<>>
    BY <2>1, EmptySeq
  <2>. QED BY <2>1, <2>2 DEF Ends
<1>13. Frames(new)
  BY <1>1, <1>9, <1>10, <1>11 DEF Frames
<1>. QED BY <1>12, <1>13 DEF new

\* What has been read of a row of packets, and is as long as one, is one; the
\* rest is a row of packets.
LEMMA ReadIsWhole ==
  ASSUME NEW K, NEW a \in Seq(Byte(K)), NEW b \in Seq(Byte(K)),
         Len(a) = PACKET_SIZE, Frames(a \o b)
  PROVE  /\ \E kind \in K : a = Bytes(kind)
         /\ Frames(<<>> \o b)
         /\ \A kind, i : i \in 0 .. PACKET_SIZE - 1 /\ Ends(a \o b, kind, i)
                           => Ends(<<>> \o b, kind, i)
<1>. DEFINE st == a \o b
            P == PACKET_SIZE
            L == Len(b)
<1>. P \in Nat \ {0} /\ L \in Nat
  BY PacketAssumption, LenProperties
<1>1. /\ st \in Seq(Byte(K)) /\ Len(st) = P + L
      /\ \A j \in 1 .. P + L : st[j] = IF j <= P THEN a[j] ELSE b[j - P]
  BY ConcatProperties
<1>2. (\A j \in 1 .. P : st[j] = a[j]) /\ (\A j \in 1 .. L : b[j] = st[P + j])
  BY <1>1
<1>3. st # <<>>
  BY <1>1, EmptySeq
<1>4. a[1] \in Byte(K)
  BY ElementOfSeq
<1>. DEFINE kind == a[1][1]
<1>5. kind \in K /\ a[1] = <<kind, 1>>
  BY <1>2, <1>3, <1>4 DEF Frames, Byte
<1>. DEFINE N == Len(st)
<1>0. /\ \A k \in 1 .. N : \A m \in 0 .. N - k :
           st[k][2] + m <= P => st[k + m] = <<st[k][1], st[k][2] + m>>
      /\ \A k \in 1 .. N - 1 : st[k][2] = P => st[k + 1][2] = 1
  BY DEF Frames
<1>. HIDE DEF st, kind
<1>6. ASSUME NEW j \in 1 .. P PROVE a[j] = <<kind, j>>
  <2>1. st[1 + (j - 1)] = <<st[1][1], st[1][2] + (j - 1)>>
    <3>1. 1 \in 1 .. Len(st) /\ j - 1 \in 0 .. Len(st) - 1
      BY <1>1
    <3>2. st[1][2] + (j - 1) <= PACKET_SIZE
      BY <1>2, <1>5
    <3>. QED BY <3>1, <3>2 DEF Frames, st
  <2>2. 1 + (j - 1) = j /\ st[1] = a[1] /\ st[j] = a[j]
    BY <1>2
  <2>. QED BY <1>5, <2>1, <2>2
<1>7. a = Bytes(kind)
  <2>1. a \in [1 .. P -> Byte(K)]
    BY LenProperties
  <2>. QED BY <1>6, <2>1 DEF Bytes
<1>8. <<>> \o b = b
  BY ConcatEmptySeq
<1>9. \A j \in 1 .. L : b[j] = st[P + j]
  BY <1>2
<1>10. Frames(b)
  <2>1. b # <<>> => b[1][2] = 1
    <3>1. SUFFICES ASSUME b # <<>> PROVE b[1][2] = 1
      OBVIOUS
    <3>2. L # 0
      BY <3>1, EmptySeq
    <3>3. st[P][2] = P
      BY <1>2, <1>6
    <3>4. st[P + 1][2] = 1
      BY <1>1, <3>2, <3>3 DEF Frames, st
    <3>. QED BY <1>9, <3>2, <3>4
  <2>2. ASSUME NEW k \in 1 .. L, NEW m \in 0 .. L - k, b[k][2] + m <= P
        PROVE  b[k + m] = <<b[k][1], b[k][2] + m>>
    <3>1. P + k \in 1 .. N /\ m \in 0 .. N - (P + k) /\ k + m \in 1 .. L
      BY <1>1
    <3>2. b[k] = st[P + k] /\ b[k + m] = st[P + (k + m)]
      BY <1>9, <3>1
    <3>3. st[(P + k) + m] = <<st[P + k][1], st[P + k][2] + m>>
      BY <1>0, <2>2, <3>1, <3>2
    <3>4. (P + k) + m = P + (k + m)
      OBVIOUS
    <3>. QED BY <3>2, <3>3, <3>4
  <2>3. ASSUME NEW k \in 1 .. L - 1, b[k][2] = P PROVE b[k + 1][2] = 1
    <3>1. P + k \in 1 .. N - 1 /\ k + 1 \in 1 .. L
      BY <1>1
    <3>2. b[k] = st[P + k] /\ b[k + 1] = st[P + (k + 1)]
      BY <1>9, <3>1
    <3>3. st[(P + k) + 1][2] = 1
      BY <1>0, <2>3, <3>1, <3>2
    <3>4. (P + k) + 1 = P + (k + 1)
      OBVIOUS
    <3>. QED BY <3>2, <3>3, <3>4
  <2>. QED BY <2>1, <2>2, <2>3 DEF Frames
<1>11. ASSUME NEW x, NEW i \in 0 .. P - 1, Ends(st, x, i) PROVE Ends(b, x, i)
  <2>1. CASE L = 0
    <3>1. st[Len(st)] = <<kind, P>>
      BY <1>1, <1>2, <1>6, <2>1
    <3>2. i = 0
      BY <1>11, <3>1 DEF Ends
    <3>. QED BY <2>1, <3>2, EmptySeq DEF Ends
  <2>2. CASE L # 0
    <3>1. b[Len(b)] = st[Len(st)] /\ b # <<>>
      BY <1>1, <1>9, <2>2, EmptySeq
    <3>. QED BY <1>3, <1>11, <3>1 DEF Ends
  <2>. QED BY <2>1, <2>2
<1>. QED BY <1>5, <1>7, <1>8, <1>10, <1>11 DEF st

\* An unfinished row of packets is one without its end.
LEMMA FrontIsFramed ==
  ASSUME NEW S, NEW a \in Seq(S), NEW b \in Seq(S), Frames(a \o b)
  PROVE  Frames(a \o <<>>)
<1>. DEFINE st == a \o b
<1>1. /\ st \in Seq(S) /\ Len(st) = Len(a) + Len(b)
      /\ \A j \in 1 .. Len(a) + Len(b) : st[j] = IF j <= Len(a) THEN a[j] ELSE b[j - Len(a)]
  BY ConcatProperties
<1>2. Len(a) \in Nat /\ Len(b) \in Nat /\ (a # <<>> => Len(a) # 0)
  BY LenProperties, EmptySeq
<1>3. \A j \in 1 .. Len(a) : j \in 1 .. Len(st) /\ st[j] = a[j]
  BY <1>1, <1>2
<1>4. a # <<>> => st # <<>>
  BY <1>1, <1>2, EmptySeq
<1>5. a \o <<>> = a
  BY ConcatEmptySeq
<1>. HIDE DEF st
<1>6. a # <<>> => a[1][2] = 1
  BY <1>2, <1>3, <1>4 DEF Frames, st
<1>7. ASSUME NEW k \in 1 .. Len(a), NEW m \in 0 .. Len(a) - k, a[k][2] + m <= PACKET_SIZE
      PROVE  a[k + m] = <<a[k][1], a[k][2] + m>>
  <2>1. m \in 0 .. Len(st) - k
    BY <1>1, <1>2
  <2>2. st[k + m] = <<st[k][1], st[k][2] + m>>
    BY <1>3, <1>7, <2>1 DEF Frames, st
  <2>. QED BY <1>2, <1>3, <2>2
<1>8. ASSUME NEW k \in 1 .. Len(a) - 1, a[k][2] = PACKET_SIZE PROVE a[k + 1][2] = 1
  <2>1. k \in 1 .. Len(st) - 1
    BY <1>1, <1>2
  <2>2. st[k + 1][2] = 1
    BY <1>2, <1>3, <1>8, <2>1 DEF Frames, st
  <2>. QED BY <1>2, <1>3, <2>2
<1>. QED BY <1>5, <1>6, <1>7, <1>8 DEF Frames

\* Concatenation is associative.
LEMMA Associative ==
  ASSUME NEW S, NEW a \in Seq(S), NEW b \in Seq(S), NEW e \in Seq(S)
  PROVE  (a \o b) \o e = a \o (b \o e)
BY ConcatAssociative

\* An empty stream is a row of whole packets.
LEMMA EmptyStream ==
  /\ Frames(<<>> \o <<>>)
  /\ \A kind : Ends(<<>> \o <<>>, kind, 0)
<1>1. <<>> \o <<>> = <<>> /\ Len(<<>>) = 0
  OBVIOUS
<1>2. Frames(<<>>) /\ \A kind : Ends(<<>>, kind, 0)
  BY <1>1 DEF Frames, Ends
<1>. QED BY <1>1, <1>2

\* A sequence is its front and its rest.
LEMMA CutInTwo ==
  ASSUME NEW S, NEW b \in Seq(S), NEW n \in 1 .. Len(b)
  PROVE  /\ SubSeq(b, 1, n) \in Seq(S) /\ Len(SubSeq(b, 1, n)) = n
         /\ SubSeq(b, n + 1, Len(b)) \in Seq(S)
         /\ SubSeq(b, 1, n) \o SubSeq(b, n + 1, Len(b)) = b
<1>1. <<>> \in Seq(S) /\ Len(<<>>) = 0
  BY EmptySeq
<1>2. /\ SubSeq(b, 1, n) \in Seq(S) /\ Len(SubSeq(b, 1, n)) = n
      /\ SubSeq(b, n + 1, Len(b)) \in Seq(S)
  BY <1>1, ReadKeepsStream
<1>3. Moved(<<>>, b, n) = <<>> \o b
  <2>1. PICK e \in Seq(S) : e = <<>>
    BY <1>1
  <2>2. Moved(e, b, n) = e \o b
    BY ReadKeepsStream
  <2>. QED BY <2>1, <2>2
<1>4. PICK p, q \in Seq(S) : p = SubSeq(b, 1, n) /\ q = SubSeq(b, n + 1, Len(b))
  BY <1>2
<1>5. Moved(<<>>, b, n) = p \o q
  <2>1. <<>> \o p = p
    BY ConcatEmptySeq
  <2>. QED BY <1>4, <2>1 DEF Moved
<1>6. <<>> \o b = b
  BY ConcatEmptySeq
<1>. QED BY <1>2, <1>3, <1>4, <1>5, <1>6

\* A packet is a sequence of bytes.
LEMMA BytesType ==
  ASSUME NEW K, NEW kind \in K
  PROVE  /\ Bytes(kind) \in Seq(Byte(K)) /\ Len(Bytes(kind)) = PACKET_SIZE
         /\ \A j \in 1 .. PACKET_SIZE : Bytes(kind)[j] = <<kind, j>>
<1>1. Bytes(kind) \in [1 .. PACKET_SIZE -> Byte(K)]
  BY DEF Bytes, Byte
<1>2. Bytes(kind) \in Seq(Byte(K))
  BY <1>1, PacketAssumption
<1>3. \A j \in 1 .. PACKET_SIZE : Bytes(kind)[j] = <<kind, j>>
  BY DEF Bytes
<1>4. Len(Bytes(kind)) = PACKET_SIZE
  BY <1>1, <1>2, PacketAssumption, LenProperties DEF Bytes
<1>. QED BY <1>2, <1>3, <1>4

\* A whole packet behind whole packets.
LEMMA PacketKeepsFrames ==
  ASSUME NEW K, NEW a \in Seq(Byte(K)), NEW b \in Seq(Byte(K)), NEW kind \in K,
         NEW who, Frames(a \o b), Ends(a \o b, who, 0)
  PROVE  /\ b \o Bytes(kind) \in Seq(Byte(K))
         /\ Frames(a \o (b \o Bytes(kind)))
         /\ Ends(a \o (b \o Bytes(kind)), who, 0)
<1>. DEFINE P == PACKET_SIZE
<1>1. PICK chunk \in Seq(Byte(K)) :
        /\ chunk = Bytes(kind) /\ Len(chunk) = P
        /\ \A j \in 1 .. P : chunk[j] = <<kind, 0 + j>>
  <2>1. /\ Bytes(kind) \in Seq(Byte(K)) /\ Len(Bytes(kind)) = P
        /\ \A j \in 1 .. P : Bytes(kind)[j] = <<kind, j>>
    BY BytesType
  <2>2. \A j \in 1 .. P : 0 + j = j
    OBVIOUS
  <2>. QED BY <2>1, <2>2, Zenon
<1>2. 0 \in 0 .. P - 1 /\ P \in 1 .. P - 0
  BY PacketAssumption
<1>3. PICK st \in Seq(Byte(K)) : st = a \o b
  BY ConcatProperties
<1>4. Ends(st, kind, 0)
  BY <1>3 DEF Ends
<1>5. /\ Frames(st \o chunk)
      /\ Ends(st \o chunk, kind, IF 0 + P = P THEN 0 ELSE 0 + P)
  BY <1>1, <1>2, <1>3, <1>4, WriteKeepsFrames
<1>6. Ends(st \o chunk, who, 0)
  BY <1>2, <1>5 DEF Ends
<1>7. (a \o b) \o chunk = a \o (b \o chunk) /\ b \o chunk \in Seq(Byte(K))
  BY Associative, ConcatProperties
<1>. QED BY <1>1, <1>3, <1>5, <1>6, <1>7
==============================================================================
