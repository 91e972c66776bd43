------------------------- MODULE NetPacketStreamProofs -------------------------
(***************************************************************************)
(* Proofs about packets: first their way through the byte stream, for any    *)
(* packets and any cutting of the bytes (NetPacketStream), then what is read *)
(* of their contents, for any texts, numbers and requests (PacketContents).  *)
(***************************************************************************)
EXTENDS NetPacketStream, PacketContents, Integers, TLAPS, SequenceTheorems,
        FiniteSetTheorems, WellFoundedInduction

Stream == Seq(Packets \X Nat)
Received == [id : Ids, text : Stream]

-----------------------------------------------------------------------------
(* Lemmas on the bytes of a packet and of a stream.                        *)

LEMMA WireBytes ==
  ASSUME NEW p \in Packets
  PROVE  /\ Wire(p) \in Stream /\ Len(Wire(p)) = HeaderLen + Bytes[p]
         /\ \A k \in 1..(HeaderLen + Bytes[p]) : Wire(p)[k] = <<p, k>>
<1>1. HeaderLen \in Nat /\ Bytes[p] \in Nat
  BY StreamAssumption
<1> QED BY <1>1 DEF Wire, Stream

\* A part of a packet.
LEMMA PartBytes ==
  ASSUME NEW p \in Packets, NEW m \in Nat, NEW n \in Nat,
         m <= n, n <= HeaderLen + Bytes[p]
  PROVE  /\ SubSeq(Wire(p), m + 1, n) \in Stream
         /\ Len(SubSeq(Wire(p), m + 1, n)) = n - m
         /\ \A k \in 1..(n - m) : SubSeq(Wire(p), m + 1, n)[k] = <<p, m + k>>
<1>1. HeaderLen \in Nat /\ Bytes[p] \in Nat
  BY StreamAssumption
<1>2. ASSUME NEW i \in (m + 1)..n
      PROVE  Wire(p)[i] = <<p, i>> /\ Wire(p)[i] \in Packets \X Nat
  <2>1. i \in 1..(HeaderLen + Bytes[p]) /\ i \in Nat
    BY <1>1
  <2>2. Wire(p)[i] = <<p, i>>
    BY <2>1, WireBytes
  <2> QED BY <2>1, <2>2
<1>3. /\ SubSeq(Wire(p), m + 1, n) \in Seq(Packets \X Nat)
      /\ Len(SubSeq(Wire(p), m + 1, n)) = IF m + 1 <= n THEN n - (m + 1) + 1 ELSE 0
      /\ \A i \in 1..(n - (m + 1) + 1) : SubSeq(Wire(p), m + 1, n)[i] = Wire(p)[m + 1 + i - 1]
  BY <1>2, SubSeqProperties
<1>4. n - (m + 1) + 1 = n - m /\ \A i \in 1..(n - m) : m + 1 + i - 1 = m + i /\ m + i \in (m + 1)..n
  OBVIOUS
<1> QED BY <1>2, <1>3, <1>4 DEF Stream

LEMMA HeaderBytes ==
  ASSUME NEW p \in Packets
  PROVE  /\ Header(p) \in Stream /\ Len(Header(p)) = HeaderLen
         /\ \A k \in 1..HeaderLen : Header(p)[k] = <<p, k>>
<1>1. HeaderLen \in Nat /\ Bytes[p] \in Nat
  BY StreamAssumption
<1>2. /\ SubSeq(Wire(p), 0 + 1, HeaderLen) \in Stream
      /\ Len(SubSeq(Wire(p), 0 + 1, HeaderLen)) = HeaderLen - 0
      /\ \A k \in 1..(HeaderLen - 0) : SubSeq(Wire(p), 0 + 1, HeaderLen)[k] = <<p, 0 + k>>
  <2>1. 0 <= HeaderLen /\ HeaderLen <= HeaderLen + Bytes[p] /\ 0 \in Nat
    BY <1>1
  <2> QED BY <1>1, <2>1, PartBytes
<1>3. 0 + 1 = 1 /\ HeaderLen - 0 = HeaderLen /\ \A k \in 1..HeaderLen : 0 + k = k
  BY <1>1
<1> QED BY <1>2, <1>3 DEF Header

LEMMA TextBytes ==
  ASSUME NEW p \in Packets
  PROVE  /\ Text(p) \in Stream /\ Len(Text(p)) = Bytes[p]
         /\ \A k \in 1..Bytes[p] : Text(p)[k] = <<p, HeaderLen + k>>
<1>1. HeaderLen \in Nat /\ Bytes[p] \in Nat
  BY StreamAssumption
<1>2. /\ Text(p) \in Stream
      /\ Len(Text(p)) = (HeaderLen + Bytes[p]) - HeaderLen
      /\ \A k \in 1..((HeaderLen + Bytes[p]) - HeaderLen) :
           Text(p)[k] = <<p, HeaderLen + k>>
  <2>1. /\ HeaderLen <= HeaderLen + Bytes[p] /\ HeaderLen + Bytes[p] \in Nat
        /\ HeaderLen + Bytes[p] <= HeaderLen + Bytes[p]
    BY <1>1
  <2>2. /\ SubSeq(Wire(p), HeaderLen + 1, HeaderLen + Bytes[p]) \in Stream
        /\ Len(SubSeq(Wire(p), HeaderLen + 1, HeaderLen + Bytes[p]))
             = (HeaderLen + Bytes[p]) - HeaderLen
        /\ \A k \in 1..((HeaderLen + Bytes[p]) - HeaderLen) :
             SubSeq(Wire(p), HeaderLen + 1, HeaderLen + Bytes[p])[k]
               = <<p, HeaderLen + k>>
    BY <1>1, <2>1, PartBytes, Zenon
  <2> QED BY <2>2, Zenon DEF Text
<1>3. (HeaderLen + Bytes[p]) - HeaderLen = Bytes[p]
  BY <1>1
<1> QED BY <1>2, <1>3

LEMMA MessageType ==
  ASSUME NEW p \in Packets PROVE Message(p) \in Received
BY TextBytes, StreamAssumption DEF Message, Received

\* Headers of two packets differ.
LEMMA HeaderInjective ==
  ASSUME NEW p \in Packets, NEW q \in Packets, Header(p) = Header(q)
  PROVE  p = q
<1>1. 1 \in 1..HeaderLen
  BY StreamAssumption
<1>2. Header(p)[1] = <<p, 1>> /\ Header(q)[1] = <<q, 1>>
  BY <1>1, HeaderBytes
<1> QED BY <1>2

\* What is left of s after its first n elements, and these elements.
LEMMA CutBytes ==
  ASSUME NEW s \in Stream, NEW n \in 0..Len(s)
  PROVE  /\ SubSeq(s, n + 1, Len(s)) \in Stream
         /\ Len(SubSeq(s, n + 1, Len(s))) = Len(s) - n
         /\ \A k \in 1..(Len(s) - n) : SubSeq(s, n + 1, Len(s))[k] = s[n + k]
         /\ SubSeq(s, 1, n) \in Stream /\ Len(SubSeq(s, 1, n)) = n
         /\ \A k \in 1..n : SubSeq(s, 1, n)[k] = s[k]
<1>1. Len(s) \in Nat /\ n \in Nat /\ n <= Len(s)
      /\ \A i \in 1..Len(s) : s[i] \in Packets \X Nat
  BY DEF Stream
<1>2. /\ SubSeq(s, n + 1, Len(s)) \in Stream
      /\ Len(SubSeq(s, n + 1, Len(s))) =
           IF n + 1 <= Len(s) THEN Len(s) - (n + 1) + 1 ELSE 0
      /\ \A k \in 1..(Len(s) - (n + 1) + 1) :
           SubSeq(s, n + 1, Len(s))[k] = s[n + 1 + k - 1]
  BY <1>1, SubSeqProperties DEF Stream
<1>3. /\ Len(s) - (n + 1) + 1 = Len(s) - n
      /\ (IF n + 1 <= Len(s) THEN Len(s) - (n + 1) + 1 ELSE 0) = Len(s) - n
      /\ \A k \in 1..(Len(s) - n) : n + 1 + k - 1 = n + k
  BY <1>1
<1>4. \A k \in 1..(Len(s) - n) : SubSeq(s, n + 1, Len(s))[k] = s[n + k]
  BY <1>2, <1>3
<1>5. /\ SubSeq(s, 1, n) \in Stream
      /\ Len(SubSeq(s, 1, n)) = IF 1 <= n THEN n - 1 + 1 ELSE 0
      /\ \A k \in 1..(n - 1 + 1) : SubSeq(s, 1, n)[k] = s[1 + k - 1]
  BY <1>1, SubSeqProperties DEF Stream
<1>6. /\ n - 1 + 1 = n /\ (IF 1 <= n THEN n - 1 + 1 ELSE 0) = n
      /\ \A k \in 1..n : 1 + k - 1 = k
  BY <1>1
<1>7. \A k \in 1..n : SubSeq(s, 1, n)[k] = s[k]
  BY <1>5, <1>6
<1> QED BY <1>2, <1>3, <1>4, <1>5, <1>6, <1>7

LEMMA JoinBytes ==
  ASSUME NEW s \in Stream, NEW t \in Stream
  PROVE  /\ s \o t \in Stream /\ Len(s \o t) = Len(s) + Len(t)
         /\ \A k \in 1..Len(s) : (s \o t)[k] = s[k]
         /\ \A k \in 1..Len(t) : (s \o t)[Len(s) + k] = t[k]
<1>1. Len(s) \in Nat /\ Len(t) \in Nat
  BY DEF Stream
<1>2. /\ s \o t \in Stream /\ Len(s \o t) = Len(s) + Len(t)
      /\ \A i \in 1..(Len(s) + Len(t)) :
           (s \o t)[i] = IF i <= Len(s) THEN s[i] ELSE t[i - Len(s)]
  BY ConcatProperties DEF Stream
<1>3. ASSUME NEW k \in 1..Len(t) PROVE (s \o t)[Len(s) + k] = t[k]
  <2>1. /\ Len(s) + k \in 1..(Len(s) + Len(t)) /\ ~(Len(s) + k <= Len(s))
        /\ Len(s) + k - Len(s) = k
    BY <1>1
  <2> QED BY <1>2, <2>1
<1>4. \A k \in 1..Len(s) : k \in 1..(Len(s) + Len(t)) /\ k <= Len(s)
  BY <1>1
<1> QED BY <1>2, <1>3, <1>4

LEMMA JoinGroups ==
  ASSUME NEW a \in Stream, NEW b \in Stream, NEW c \in Stream
  PROVE  (a \o b) \o c = a \o (b \o c)
<1>1. /\ a \in Seq(Packets \X Nat) /\ b \in Seq(Packets \X Nat)
      /\ c \in Seq(Packets \X Nat)
  BY DEF Stream
<1> QED BY <1>1, ConcatAssociative, SMTT(20)

\* Reading n bytes shifts what is left by n.
LEMMA CutStream ==
  ASSUME NEW s \in Stream, NEW t \in Stream, NEW n \in 0..Len(s)
  PROVE  /\ SubSeq(s, n + 1, Len(s)) \o t \in Stream
         /\ Len(SubSeq(s, n + 1, Len(s)) \o t) = Len(s \o t) - n
         /\ \A k \in 1..(Len(s \o t) - n) :
              (SubSeq(s, n + 1, Len(s)) \o t)[k] = (s \o t)[n + k]
<1> DEFINE u == SubSeq(s, n + 1, Len(s))
<1>1. u \in Stream /\ Len(u) = Len(s) - n
  BY CutBytes
<1>2. \A k \in 1..(Len(s) - n) : u[k] = s[n + k]
  BY CutBytes
<1> HIDE DEF u
<1>3. Len(s) \in Nat /\ Len(t) \in Nat /\ n \in Nat /\ n <= Len(s)
  BY DEF Stream
<1>4. u \o t \in Stream /\ Len(u \o t) = Len(s) - n + Len(t)
  BY <1>1, JoinBytes
<1>5. Len(s \o t) = Len(s) + Len(t)
  BY JoinBytes
<1>6. ASSUME NEW k \in 1..(Len(s) + Len(t) - n) PROVE (u \o t)[k] = (s \o t)[n + k]
  <2>1. CASE k <= Len(s) - n
    <3>1. k \in 1..Len(u) /\ n + k \in 1..Len(s) /\ k \in 1..(Len(s) - n)
      BY <1>1, <1>3, <2>1
    <3>2. (u \o t)[k] = u[k] /\ (s \o t)[n + k] = s[n + k]
      BY <1>1, <3>1, JoinBytes
    <3> QED BY <1>2, <3>1, <3>2
  <2>2. CASE ~(k <= Len(s) - n)
    <3> DEFINE j == k - (Len(s) - n)
    <3>1. j \in 1..Len(t) /\ Len(u) + j = k /\ Len(s) + j = n + k
      BY <1>1, <1>3, <2>2
    <3> HIDE DEF j
    <3>2. (u \o t)[Len(u) + j] = t[j] /\ (s \o t)[Len(s) + j] = t[j]
      BY <1>1, <3>1, JoinBytes
    <3> QED BY <3>1, <3>2
  <2> QED BY <2>1, <2>2
<1>7. Len(u \o t) = Len(s \o t) - n
  BY <1>3, <1>4, <1>5
<1>8. \A k \in 1..(Len(s \o t) - n) : (u \o t)[k] = (s \o t)[n + k]
  <2>1. Len(s \o t) - n = Len(s) + Len(t) - n
    BY <1>5
  <2> QED BY <1>6, <2>1, Zenon
<1> QED BY <1>4, <1>7, <1>8 DEF u

-----------------------------------------------------------------------------
(* Type correctness.                                                       *)

LEMMA ReadingTypes ==
  ASSUME NEW old \in Nat, NEW h, NEW r \in Readings(h, old)
  PROVE  r.id \in Ids /\ r.len \in Nat /\ r.ok \in BOOLEAN
<1>1. CASE \E p \in Packets : h = Header(p)
  <2>1. r \in {[ok |-> TRUE, id |-> Id[p], len |-> Chars[p], drop |-> FALSE] :
                 p \in {q \in Packets : h = Header(q)}}
    BY <1>1 DEF Readings
  <2>2. PICK p \in Packets :
          r = [ok |-> TRUE, id |-> Id[p], len |-> Chars[p], drop |-> FALSE]
    BY <2>1
  <2> QED BY <2>2, StreamAssumption
<1>2. CASE ~\E p \in Packets : h = Header(p)
  <2>1. r \in [ok : {TRUE}, id : Ids, len : 0..MaxLen, drop : {FALSE}]
              \cup [ok : {FALSE}, id : Ids, len : {0, old}, drop : BOOLEAN]
    BY <1>2 DEF Readings
  <2>2. old \in Nat /\ MaxLen \in Nat
    BY StreamAssumption
  <2>3. CASE r \in [ok : {TRUE}, id : Ids, len : 0..MaxLen, drop : {FALSE}]
    <3>1. r.len \in 0..MaxLen /\ r.id \in Ids /\ r.ok \in {TRUE}
      BY <2>3
    <3>2. r.len \in Nat
      BY <2>2, <3>1
    <3>3. r.ok \in BOOLEAN
      BY <3>1, Zenon
    <3> QED BY <3>1, <3>2, <3>3
  <2>4. CASE r \in [ok : {FALSE}, id : Ids, len : {0, old}, drop : BOOLEAN]
    <3>1. r.len \in {0, old} /\ r.id \in Ids /\ r.ok \in {FALSE}
      BY <2>4
    <3>2. r.len \in Nat
      BY <2>2, <3>1
    <3>3. r.ok \in BOOLEAN
      BY <3>1, Zenon
    <3> QED BY <3>1, <3>2, <3>3
  <2> QED BY <2>1, <2>3, <2>4
<1> QED BY <1>1, <1>2

LEMMA InfoKnown == InfoId \in Ids /\ Unknown \in Ids
<1>1. Known \subseteq Ids /\ InfoId \in Known /\ Unknown \in Ids
  BY StreamAssumption, Zenon
<1> QED BY <1>1

LEMMA TypeInit == Init => TypeOK
<1> SUFFICES ASSUME Init PROVE TypeOK
  OBVIOUS
<1>1. <<>> \in Seq(Received) /\ <<>> \in Stream
  BY DEF Stream
<1>2. InfoId \in Ids /\ Unknown \in Ids
  BY InfoKnown
<1> QED BY <1>1, <1>2 DEF Init, TypeOK, Stream, Received

\* What is taken in moves from net to buffer.
LEMMA TakeTypes ==
  ASSUME TypeOK, NEW n \in 0..Len(net), Take(n)
  PROVE  buffer' \in Stream /\ net' \in Stream
<1>1. net \in Stream /\ buffer \in Stream
  BY DEF TypeOK, Stream
<1>2. /\ buffer' = buffer \o SubSeq(net, 1, n)
      /\ net' = SubSeq(net, n + 1, Len(net))
  BY DEF Take
<1> QED BY <1>1, <1>2, CutBytes, JoinBytes

\* What is left of the buffer behind a header.
LEMMA BehindTypes ==
  ASSUME TypeOK, NEW r, Available(HeaderLen)
  PROVE  BehindHeader(r) \in Stream
<1>1. buffer \in Stream /\ Len(buffer) \in Nat
  BY DEF TypeOK, Stream
<1>2. HeaderLen \in 0..Len(buffer)
  BY <1>1, StreamAssumption DEF Available
<1>3. SubSeq(buffer, HeaderLen + 1, Len(buffer)) \in Stream
  BY <1>1, <1>2, CutBytes
<1>4. <<>> \in Stream
  BY DEF Stream
<1> QED BY <1>3, <1>4 DEF BehindHeader

\* A packet that is announced leaves the queue and the packet well-typed.
LEMMA AnnounceTypes ==
  ASSUME TypeOK, NEW m \in Received, Announce(m)
  PROVE  /\ receiveQueue' \in Seq(Received) /\ strange' \in BOOLEAN
         /\ posted' \in Nat /\ valid' \in BOOLEAN /\ id' \in Ids
         /\ contentLen' \in Nat /\ failed' \in BOOLEAN /\ at' = "more"
<1>1. /\ receiveQueue \in Seq(Received) /\ posted \in Nat
      /\ strange \in BOOLEAN
  BY DEF TypeOK, Received, Stream
<1>2. receiveQueue' \in Seq(Received)
  <2>1. receiveQueue' = Append(receiveQueue, m) \/ receiveQueue' = receiveQueue
    BY DEF Announce, Enqueue
  <2> HIDE DEF Received
  <2> QED BY <1>1, <2>1
<1>3. valid' = TRUE /\ failed' = FALSE /\ id' = InfoId /\ contentLen' = 0
      /\ posted' = posted + 1 /\ at' = "more"
      /\ strange' = (strange \/ m.id \notin Known)
  BY Zenon DEF Announce
<1>4. InfoId \in Ids
  BY InfoKnown
<1>5. valid' \in BOOLEAN /\ failed' \in BOOLEAN /\ strange' \in BOOLEAN
  BY <1>1, <1>3, Zenon
<1> QED BY <1>1, <1>2, <1>3, <1>4, <1>5

LEMMA ReturnTypes ==
  ASSUME TypeOK, Return
  PROVE  /\ at' \in {"idle", "header", "content"} /\ outer' = "none"
         /\ stale' \in BOOLEAN /\ staleLen' \in Nat
BY DEF TypeOK, Return

LEMMA TypeStep == TypeOK /\ [Next]_vars => TypeOK'
<1> SUFFICES ASSUME TypeOK, [Next]_vars PROVE TypeOK'
  OBVIOUS
<1> USE DEF Stream, Received
<1>0. /\ sent \in Seq(Received) /\ got \in Seq(Received)
      /\ receiveQueue \in Seq(Received)
      /\ made \in Stream /\ net \in Stream /\ buffer \in Stream
      /\ wake \in BOOLEAN /\ valid \in BOOLEAN /\ crashed \in BOOLEAN
      /\ failed \in BOOLEAN /\ stale \in BOOLEAN
      /\ spoiled \in BOOLEAN /\ strange \in BOOLEAN
      /\ at \in {"idle", "header", "content", "test", "more"}
      /\ outer \in {"none", "header", "content"}
      /\ id \in Ids /\ contentLen \in Nat /\ staleLen \in Nat /\ posted \in Nat
  BY DEF TypeOK
<1>1. ASSUME NEW p \in Packets, Send(p) PROVE TypeOK'
  <2>1. sent' \in Seq(Received)
    BY <1>0, <1>1, MessageType DEF Send
  <2>2. made' \in Stream
    BY <1>0, <1>1, WireBytes DEF Send
  <2>3. net' \in Stream
    BY <1>0, <1>1, <2>2, JoinBytes DEF Send
  <2> QED BY <1>0, <1>1, <2>1, <2>2, <2>3
          DEF Send, TypeOK, packetVars, callVars, serverVars
<1>2. ASSUME Arrive PROVE TypeOK'
  <2>1. PICK n \in 0..Len(net) : Take(n)
    BY <1>0, <1>2 DEF Arrive
  <2>2. buffer' \in Stream /\ net' \in Stream
    BY <2>1, TakeTypes
  <2>3. wake' \in BOOLEAN
    BY <1>0, <1>2, Zenon DEF Arrive
  <2> QED BY <1>0, <1>2, <2>2, <2>3
          DEF Arrive, TypeOK, senderVars, packetVars, callVars, serverVars
<1>3. ASSUME ReadDataStream PROVE TypeOK'
  BY <1>0, <1>3 DEF ReadDataStream, Resume, TypeOK, senderVars, packetVars,
                    callVars, serverVars
<1>4. ASSUME Wait PROVE TypeOK'
  <2>1. buffer' \in Stream /\ net' \in Stream
    <3>1. CASE outer = "none"
      BY <1>0, <1>4, <3>1 DEF Wait
    <3>2. CASE outer # "none"
      <4>1. PICK n \in 0..Len(net) : Take(n)
        BY <1>4, <3>2 DEF Wait
      <4> QED BY <4>1, TakeTypes
    <3> QED BY <3>1, <3>2
  <2>2. /\ at' \in {"idle", "header", "content", "test", "more"}
        /\ outer' \in {"none", "header", "content"}
        /\ stale' \in BOOLEAN /\ staleLen' \in Nat
    <3>1. (at' = "test" /\ UNCHANGED callVars) \/ Return
      BY <1>4 DEF Wait
    <3>2. CASE Return
      BY <3>2, ReturnTypes
    <3>3. CASE at' = "test" /\ UNCHANGED callVars
      BY <1>0, <3>3 DEF callVars
    <3> QED BY <3>1, <3>2, <3>3
  <2>3. failed' \in BOOLEAN
    BY <1>0, <1>4, Zenon DEF Wait
  <2> QED BY <1>0, <1>4, <2>1, <2>2, <2>3
          DEF Wait, TypeOK, senderVars, packetVars, serverVars
<1>5. ASSUME ReadHeader PROVE TypeOK'
  <2>1. PICK r \in Readings(SubSeq(buffer, 1, HeaderLen), contentLen) :
          /\ id' = r.id
          /\ contentLen' = Length(r)
          /\ buffer' = BehindHeader(r)
          /\ IF r.ok THEN at' = "content" /\ UNCHANGED <<failed, callVars>>
                     ELSE failed' = TRUE /\ Return
    BY <1>5 DEF ReadHeader
  <2>2. r.id \in Ids /\ r.len \in Nat
    BY <1>0, ReadingTypes
  <2>3. buffer' \in Stream
    BY <1>5, <2>1, BehindTypes DEF ReadHeader
  <2>4. /\ at' \in {"idle", "header", "content", "test", "more"}
        /\ outer' \in {"none", "header", "content"}
        /\ stale' \in BOOLEAN /\ staleLen' \in Nat
    <3>1. (at' = "content" /\ UNCHANGED callVars) \/ Return
      BY <2>1
    <3>2. CASE Return
      BY <3>2, ReturnTypes
    <3>3. CASE at' = "content" /\ UNCHANGED callVars
      BY <1>0, <3>3 DEF callVars
    <3> QED BY <3>1, <3>2, <3>3
  <2>5. failed' \in BOOLEAN /\ valid' \in BOOLEAN /\ spoiled' \in BOOLEAN
    <3>1. failed' = TRUE \/ failed' = failed
      BY <2>1
    <3>2. valid' = FALSE /\ spoiled' = (spoiled \/ outer # "none")
      BY <1>5 DEF ReadHeader
    <3> QED BY <1>0, <3>1, <3>2, Zenon
  <2>6. id' \in Ids /\ contentLen' \in Nat
    BY <2>1, <2>2 DEF Length
  <2> QED BY <1>0, <1>5, <2>3, <2>4, <2>5, <2>6
          DEF ReadHeader, TypeOK, senderVars, serverVars
<1>6. ASSUME ReadContent PROVE TypeOK'
  <2>1. contentLen \in 0..Len(buffer)
    BY <1>0, <1>6 DEF ReadContent, Available
  <2> DEFINE m == [id |-> id, text |-> SubSeq(buffer, 1, contentLen)]
  <2>2. Announce(m) /\ buffer' = SubSeq(buffer, contentLen + 1, Len(buffer))
    BY <1>6 DEF ReadContent
  <2>3. buffer' \in Stream /\ SubSeq(buffer, 1, contentLen) \in Stream
    BY <1>0, <2>1, <2>2, CutBytes
  <2>4. m \in Received
    BY <1>0, <2>3
  <2> HIDE DEF m
  <2>5. /\ receiveQueue' \in Seq(Received) /\ strange' \in BOOLEAN
        /\ posted' \in Nat /\ valid' \in BOOLEAN /\ id' \in Ids
        /\ contentLen' \in Nat /\ failed' \in BOOLEAN /\ at' = "more"
    <3> HIDE DEF Received, Stream
    <3> QED BY <2>2, <2>4, AnnounceTypes
  <2>6. stale' \in BOOLEAN /\ spoiled' \in BOOLEAN
    BY <1>0, <1>6, Zenon DEF ReadContent
  <2>7. staleLen' \in Nat
    BY <1>0, <1>6 DEF ReadContent
  <2> QED BY <1>0, <1>6, <2>3, <2>5, <2>6, <2>7
          DEF ReadContent, TypeOK, senderVars
<1>7. ASSUME ReadMore PROVE TypeOK'
  <2>1. /\ at' \in {"idle", "header", "content", "test", "more"}
        /\ outer' \in {"none", "header", "content"}
        /\ stale' \in BOOLEAN /\ staleLen' \in Nat
    <3>1. (at' = "header" /\ UNCHANGED callVars) \/ Return
      BY <1>7 DEF ReadMore, ReadRemained
    <3>2. CASE Return
      BY <3>2, ReturnTypes
    <3>3. CASE at' = "header" /\ UNCHANGED callVars
      BY <1>0, <3>3 DEF callVars
    <3> QED BY <3>1, <3>2, <3>3
  <2> QED BY <1>0, <1>7, <2>1 DEF ReadMore, TypeOK, senderVars, packetVars, serverVars
<1>8. ASSUME Execute PROVE TypeOK'
  <2>1. CASE receiveQueue = <<>>
    <3>1. crashed' \in BOOLEAN
      BY <1>8, <2>1, Zenon DEF Execute
    <3> QED BY <1>0, <1>8, <2>1, <3>1 DEF Execute, TypeOK, senderVars, packetVars, callVars
  <2>2. CASE receiveQueue # <<>>
    <3>1. got' \in Seq(Received) /\ receiveQueue' \in Seq(Received)
      <4> HIDE DEF Received
      <4>1. Head(receiveQueue) \in Received /\ Tail(receiveQueue) \in Seq(Received)
        BY <1>0, <2>2
      <4>2. got' = Append(got, Head(receiveQueue)) /\ receiveQueue' = Tail(receiveQueue)
        BY <1>8, <2>2 DEF Execute
      <4> QED BY <1>0, <4>1, <4>2
    <3>2. valid' \in BOOLEAN /\ contentLen' \in Nat /\ id' \in Ids
          /\ failed' \in BOOLEAN
      <4>1. \/ valid' = TRUE /\ contentLen' = 0 /\ id' = Unknown /\ failed' = FALSE
            \/ UNCHANGED <<packetVars, failed>>
        BY <1>8, <2>2 DEF Execute
      <4>2. Unknown \in Ids
        BY StreamAssumption
      <4>3. CASE UNCHANGED <<packetVars, failed>>
        BY <1>0, <4>3 DEF packetVars
      <4>4. CASE valid' = TRUE /\ contentLen' = 0 /\ id' = Unknown /\ failed' = FALSE
        <5>1. valid' \in BOOLEAN /\ failed' \in BOOLEAN
          BY <4>4, Zenon
        <5> QED BY <4>2, <4>4, <5>1
      <4> QED BY <4>1, <4>3, <4>4
    <3> QED BY <1>0, <1>8, <2>2, <3>1, <3>2 DEF Execute, TypeOK, senderVars, callVars
  <2> QED BY <2>1, <2>2
<1>9. ASSUME Reenter PROVE TypeOK'
  <2>1. PICK n \in 0..Len(net) : Take(n)
    BY <1>0, <1>9 DEF Reenter
  <2>2. buffer' \in Stream /\ net' \in Stream
    BY <2>1, TakeTypes
  <2>3. outer' \in {"none", "header", "content"}
    BY <1>9 DEF Reenter, Waiting
  <2>4. at' \in {"idle", "header", "content", "test", "more"}
    BY <1>9 DEF Reenter, Resume
  <2> QED BY <1>0, <1>9, <2>2, <2>3, <2>4
          DEF Reenter, TypeOK, senderVars, packetVars, serverVars
<1>10. ASSUME ReadStale PROVE TypeOK'
  <2>1. /\ buffer' \in Stream /\ staleLen' \in Nat
        /\ at' \in {"idle", "header", "content", "test", "more"}
    <3>1. CASE at = "header"
      <4>1. PICK r \in Readings(SubSeq(buffer, 1, HeaderLen), staleLen) :
              /\ staleLen' = Length(r)
              /\ buffer' = BehindHeader(r)
              /\ at' = IF r.ok THEN "content" ELSE "test"
        BY <1>10, <3>1 DEF ReadStale
      <4>2. r.len \in Nat
        BY <1>0, ReadingTypes
      <4>3. buffer' \in Stream
        BY <1>10, <3>1, <4>1, BehindTypes DEF ReadStale
      <4> QED BY <4>1, <4>2, <4>3 DEF Length
    <3>2. CASE at # "header"
      <4>1. /\ Available(staleLen) /\ at' = "test" /\ UNCHANGED staleLen
            /\ buffer' = SubSeq(buffer, staleLen + 1, Len(buffer))
        BY <1>10, <3>2 DEF ReadStale
      <4>2. staleLen \in 0..Len(buffer)
        BY <1>0, <4>1 DEF Available
      <4>3. buffer' \in Stream
        BY <1>0, <4>1, <4>2, CutBytes
      <4> QED BY <1>0, <4>1, <4>3
    <3> QED BY <3>1, <3>2
  <2> QED BY <1>0, <1>10, <2>1
          DEF ReadStale, TypeOK, senderVars, packetVars, serverVars
<1>11. ASSUME TestPacket PROVE TypeOK'
  <2>1. /\ receiveQueue' \in Seq(Received) /\ strange' \in BOOLEAN
        /\ posted' \in Nat /\ valid' \in BOOLEAN /\ id' \in Ids
        /\ contentLen' \in Nat /\ failed' \in BOOLEAN
        /\ at' \in {"idle", "header", "content", "test", "more"}
    <3>1. CASE failed
      BY <1>0, <1>11, <3>1 DEF TestPacket, packetVars
    <3>2. CASE ~failed
      <4> DEFINE m == [id |-> id, text |-> <<>>]
      <4>1. m \in Received
        BY <1>0
      <4>2. Announce(m)
        BY <1>11, <3>2 DEF TestPacket
      <4> HIDE DEF m, Received, Stream
      <4> QED BY <4>1, <4>2, AnnounceTypes
    <3> QED BY <3>1, <3>2
  <2>2. stale' \in BOOLEAN
    BY <1>11, Zenon DEF TestPacket
  <2> QED BY <1>0, <1>11, <2>1, <2>2 DEF TestPacket, TypeOK, senderVars
<1>12. CASE UNCHANGED vars
  BY <1>0, <1>12 DEF vars, TypeOK, senderVars, packetVars, callVars, serverVars
<1> QED BY <1>1, <1>2, <1>3, <1>4, <1>5, <1>6, <1>7, <1>8, <1>9, <1>10, <1>11,
           <1>12 DEF Next, Handler

\* Whatever clients send, the packet, the queue and the buffers of the handler
\* (netpackethandler.cpp) keep their types.
THEOREM TypeCorrect == Spec => []TypeOK
BY TypeInit, TypeStep, PTL DEF Spec

-----------------------------------------------------------------------------
(* The inductive invariant of the framing.  f[k] says which of the packets   *)
(* sent the k-th unread byte belongs to.                                    *)

\* The client waits for INIT and sends nothing but letters of one byte, in
\* contents that fit.
Clean ==
  /\ AwaitsInit = TRUE /\ Bytes = Chars
  /\ \A p \in Packets : Chars[p] <= MaxLen

Total(p) == HeaderLen + Bytes[p]
Rest == buffer \o net
Taken == Len(got) + Len(receiveQueue)

\* The byte at k has the rest of its packet around it, and the next packet
\* begins where it ends.
Block(r, f, s, k) ==
  LET p == r[k][1]
      j == r[k][2]
  IN /\ j \in 1..Total(p)
     /\ f[k] \in 1..Len(s) /\ s[f[k]] = Message(p)
     /\ \A i \in 1..Total(p) :
          k + i > j => /\ k + i - j <= Len(r)
                       /\ r[k + i - j] = <<p, i>> /\ f[k + i - j] = f[k]
     /\ j = Total(p) => IF k = Len(r) THEN f[k] = Len(s)
                        ELSE r[k + 1][2] = 1 /\ f[k + 1] = f[k] + 1

Blocks(r, f, s) == \A k \in 1..Len(r) : Block(r, f, s, k)

\* The bytes begin with a whole packet, the n-th of those sent.
Starts(r, f, s, n) ==
  IF r = <<>> THEN Len(s) = n - 1 ELSE r[1][2] = 1 /\ f[1] = n

\* The header of p, the n-th packet, was read and its content was not.
Continues(r, f, s, n, p) ==
  /\ n \in 1..Len(s) /\ s[n] = Message(p)
  /\ IF Bytes[p] = 0 THEN Starts(r, f, s, n + 1)
     ELSE r # <<>> /\ r[1] = <<p, HeaderLen + 1>> /\ f[1] = n

Framed(f) ==
  /\ Blocks(Rest, f, sent)
  /\ IF valid THEN Starts(Rest, f, sent, Taken + 1)
     ELSE \E p \in Packets : /\ id = Id[p] /\ contentLen = Bytes[p]
                             /\ Continues(Rest, f, sent, Taken + 1, p)

\* What ReadDataStream is about to do fits ValidPacket, an inner call waits for
\* what the outer one waits for, and every signal has its packet.
InStep ==
  /\ at \in {"header", "more"} => valid
  /\ at = "content" => ~valid
  /\ ~stale /\ at # "test"
  /\ outer # "none" => at = outer
  /\ posted = Len(receiveQueue) /\ ~crashed

\* receive_queue holds the packets sent next to those executed.
Queued ==
  /\ Taken <= Len(sent)
  /\ \A j \in 1..Len(receiveQueue) : receiveQueue[j] = sent[Len(got) + j]

\* Nothing is sent behind an INIT that was not executed.
InitLast ==
  \A k \in (Len(got) + 1)..(Len(sent) - 1) :
    \A p \in Inits : sent[k] # Message(p)

\* What holds as long as no inner call has taken bytes and every id was known.
StreamInv ==
  /\ TypeOK
  /\ \E f : Framed(f)
  /\ InStep /\ Queued /\ InitLast

StreamHolds == TypeOK /\ (Intact => StreamInv)

LEMMA TotalNat ==
  ASSUME NEW p \in Packets
  PROVE  /\ Total(p) \in Nat /\ HeaderLen \in Nat /\ Bytes[p] \in Nat
         /\ HeaderLen >= 1 /\ Total(p) = HeaderLen + Bytes[p]
BY StreamAssumption DEF Total

LEMMA ByteType ==
  ASSUME NEW r \in Stream, NEW k \in 1..Len(r)
  PROVE  r[k][1] \in Packets /\ r[k][2] \in Nat /\ r[k] = <<r[k][1], r[k][2]>>
<1>1. r[k] \in Packets \X Nat
  BY DEF Stream
<1> QED BY <1>1

\* Dropping the first n bytes leaves well-framed bytes.
LEMMA CutBlocks ==
  ASSUME NEW r \in Stream, NEW q \in Stream, NEW f, NEW s, NEW n \in 0..Len(r),
         Len(q) = Len(r) - n, \A k \in 1..(Len(r) - n) : q[k] = r[n + k],
         Blocks(r, f, s)
  PROVE  Blocks(q, [k \in 1..Len(q) |-> f[n + k]], s)
<1> DEFINE g == [k \in 1..Len(q) |-> f[n + k]]
<1>1. Len(r) \in Nat /\ Len(q) \in Nat /\ n \in Nat
  BY DEF Stream
<1>2. \A k \in 1..Len(q) : g[k] = f[n + k] /\ q[k] = r[n + k] /\ n + k \in 1..Len(r)
  BY <1>1
<1> HIDE DEF g
<1>3. ASSUME NEW k \in 1..Len(q) PROVE Block(q, g, s, k)
  <2> DEFINE p == q[k][1]
             j == q[k][2]
  <2>1. /\ p = r[n + k][1] /\ j = r[n + k][2] /\ g[k] = f[n + k]
        /\ n + k \in 1..Len(r) /\ p \in Packets /\ j \in Nat
    BY <1>2, ByteType
  <2>2. Block(r, f, s, n + k)
    BY <2>1 DEF Blocks
  <2> HIDE DEF p, j
  <2>3. /\ j \in 1..Total(p)
        /\ f[n + k] \in 1..Len(s) /\ s[f[n + k]] = Message(p)
        /\ \A i \in 1..Total(p) :
             n + k + i > j => /\ n + k + i - j <= Len(r)
                              /\ r[n + k + i - j] = <<p, i>>
                              /\ f[n + k + i - j] = f[n + k]
        /\ j = Total(p) => IF n + k = Len(r) THEN f[n + k] = Len(s)
                           ELSE r[n + k + 1][2] = 1 /\ f[n + k + 1] = f[n + k] + 1
    BY <2>1, <2>2 DEF Block
  <2>4. ASSUME NEW i \in 1..Total(p), k + i > j
        PROVE  /\ k + i - j <= Len(q)
               /\ q[k + i - j] = <<p, i>> /\ g[k + i - j] = g[k]
    <3>1. i \in Nat
      BY <2>1, TotalNat
    <3>2. n + k + i > j /\ n + (k + i - j) = n + k + i - j
      BY <1>1, <2>1, <2>4, <3>1
    <3>3. /\ n + k + i - j <= Len(r)
          /\ r[n + k + i - j] = <<p, i>> /\ f[n + k + i - j] = f[n + k]
      BY <2>3, <3>2
    <3>4. k + i - j \in 1..Len(q)
      BY <1>1, <2>1, <2>4, <3>1, <3>3, SMTT(20)
    <3>5. /\ q[k + i - j] = r[n + (k + i - j)]
          /\ g[k + i - j] = f[n + (k + i - j)]
      BY <1>2, <3>4
    <3>6. k + i - j <= Len(q)
      BY <1>1, <3>4
    <3>7. q[k + i - j] = <<p, i>> /\ g[k + i - j] = f[n + k]
      BY <3>2, <3>3, <3>5, Zenon
    <3> QED BY <2>1, <3>6, <3>7, Zenon
  <2>5. ASSUME j = Total(p)
        PROVE  IF k = Len(q) THEN g[k] = Len(s)
               ELSE q[k + 1][2] = 1 /\ g[k + 1] = g[k] + 1
    <3>1. CASE k = Len(q)
      BY <1>1, <2>1, <2>3, <2>5, <3>1
    <3>2. CASE k # Len(q)
      <4>1. k + 1 \in 1..Len(q) /\ n + (k + 1) = n + k + 1 /\ n + k # Len(r)
        BY <1>1, <3>2
      <4> QED BY <1>2, <2>1, <2>3, <2>5, <3>2, <4>1
    <3> QED BY <3>1, <3>2
  <2> QED BY <2>1, <2>3, <2>4, <2>5 DEF Block, p, j
<1> QED BY <1>3 DEF Blocks, g

\* r begins with the bytes of p from the j-th to the last, and the next packet
\* follows.
Uncut(r, f, s, p, j) ==
  /\ j \in 1..Total(p) /\ Total(p) - j + 1 \in 1..Len(r)
  /\ f[1] \in 1..Len(s) /\ s[f[1]] = Message(p)
  /\ \A i \in 1..(Total(p) - j + 1) : r[i] = <<p, i + j - 1>> /\ f[i] = f[1]
  /\ IF Total(p) - j + 1 = Len(r) THEN f[1] = Len(s)
     ELSE /\ r[Total(p) - j + 2][2] = 1
          /\ f[Total(p) - j + 2] = f[1] + 1

\* The packet that the first byte belongs to is there to its end.
LEMMA FirstBlock ==
  ASSUME NEW r \in Stream, NEW f, NEW s \in Seq(Received), r # <<>>, Blocks(r, f, s),
         NEW p \in Packets, NEW j \in Nat, r[1] = <<p, j>>
  PROVE  Uncut(r, f, s, p, j)
<1>1. Len(r) \in Nat /\ Len(r) >= 1 /\ 1 \in 1..Len(r)
  BY EmptySeq, LenProperties DEF Stream
<1>2. /\ j \in 1..Total(p)
      /\ f[1] \in 1..Len(s) /\ s[f[1]] = Message(p)
      /\ \A i \in 1..Total(p) :
           1 + i > j => /\ 1 + i - j <= Len(r)
                        /\ r[1 + i - j] = <<p, i>> /\ f[1 + i - j] = f[1]
  <2>1. Block(r, f, s, 1) /\ r[1][1] = p /\ r[1][2] = j
    BY <1>1 DEF Blocks
  <2> QED BY <2>1, Zenon DEF Block
<1>3. Total(p) \in Nat
  BY TotalNat
<1>4. ASSUME NEW i \in 1..(Total(p) - j + 1)
      PROVE  r[i] = <<p, i + j - 1>> /\ f[i] = f[1] /\ i <= Len(r)
  <2> DEFINE x == i + j - 1
  <2>1. x \in 1..Total(p) /\ 1 + x > j /\ 1 + x - j = i
    BY <1>2, <1>3
  <2> HIDE DEF x
  <2>2. 1 + x - j <= Len(r) /\ r[1 + x - j] = <<p, x>> /\ f[1 + x - j] = f[1]
    BY <1>2, <2>1
  <2> QED BY <2>1, <2>2 DEF x
<1> DEFINE m == Total(p) - j + 1
<1>5. m \in 1..Len(r) /\ m \in 1..m /\ m + j - 1 = Total(p)
      /\ m + 1 = Total(p) - j + 2
  <2>1. m \in 1..m /\ m + j - 1 = Total(p) /\ m + 1 = Total(p) - j + 2 /\ m \in Nat
    BY <1>2, <1>3
  <2>2. m <= Len(r)
    BY <1>4, <2>1
  <2> QED BY <2>1, <2>2, <1>1
<1>6. r[m] = <<p, Total(p)>> /\ f[m] = f[1]
  BY <1>4, <1>5
<1>7. Block(r, f, s, m)
  BY <1>5 DEF Blocks
<1> HIDE DEF m
<1>8. IF m = Len(r) THEN f[m] = Len(s) ELSE r[m + 1][2] = 1 /\ f[m + 1] = f[m] + 1
  BY <1>6, <1>7 DEF Block
<1>9. IF m = Len(r) THEN f[1] = Len(s)
      ELSE r[Total(p) - j + 2][2] = 1 /\ f[Total(p) - j + 2] = f[1] + 1
  BY <1>5, <1>6, <1>8
<1> QED BY <1>2, <1>4, <1>5, <1>9 DEF m, Uncut

\* A packet sent joins the end of the stream.
LEMMA JoinBlocks ==
  ASSUME NEW r \in Stream, NEW f, NEW s \in Seq(Received), NEW p \in Packets,
         Blocks(r, f, s), r # <<>> => f[Len(r)] = Len(s)
  PROVE  Blocks(r \o Wire(p),
                [k \in 1..Len(r \o Wire(p)) |->
                   IF k <= Len(r) THEN f[k] ELSE Len(s) + 1],
                Append(s, Message(p)))
<1> DEFINE q == r \o Wire(p)
           w == Append(s, Message(p))
           g == [k \in 1..Len(q) |-> IF k <= Len(r) THEN f[k] ELSE Len(s) + 1]
<1>1. /\ Len(r) \in Nat /\ Len(s) \in Nat /\ Total(p) \in Nat /\ HeaderLen \in Nat
      /\ Total(p) = HeaderLen + Bytes[p] /\ Total(p) >= 1
  BY TotalNat DEF Stream
<1>2. /\ Len(q) = Len(r) + Total(p)
      /\ \A k \in 1..Len(r) : q[k] = r[k]
      /\ \A k \in 1..Total(p) : q[Len(r) + k] = <<p, k>>
  <2>1. /\ Wire(p) \in Stream /\ Len(Wire(p)) = Total(p)
        /\ \A k \in 1..Total(p) : Wire(p)[k] = <<p, k>>
    BY <1>1, WireBytes
  <2>2. /\ Len(q) = Len(r) + Len(Wire(p))
        /\ \A k \in 1..Len(r) : q[k] = r[k]
        /\ \A k \in 1..Len(Wire(p)) : q[Len(r) + k] = Wire(p)[k]
    BY <2>1, JoinBytes, Zenon
  <2> QED BY <2>1, <2>2, Zenon
<1>3. /\ Len(w) = Len(s) + 1 /\ w[Len(s) + 1] = Message(p)
      /\ \A k \in 1..Len(s) : w[k] = s[k]
  BY MessageType
<1>4. /\ \A k \in 1..Len(r) : g[k] = f[k]
      /\ \A k \in 1..Total(p) : g[Len(r) + k] = Len(s) + 1
  <2>1. ASSUME NEW k \in 1..Len(r) PROVE g[k] = f[k]
    BY <1>1, <1>2
  <2>2. ASSUME NEW k \in 1..Total(p) PROVE g[Len(r) + k] = Len(s) + 1
    BY <1>1, <1>2
  <2> QED BY <2>1, <2>2
<1> HIDE DEF q, w, g
<1>5. ASSUME NEW k \in 1..Len(r) PROVE Block(q, g, w, k)
  <2> DEFINE a == r[k][1]
             j == r[k][2]
  <2>1. a \in Packets /\ j \in Nat /\ q[k] = r[k] /\ g[k] = f[k]
    BY <1>2, <1>4, ByteType
  <2>2. Block(r, f, s, k)
    BY DEF Blocks
  <2> HIDE DEF a, j
  <2>3. /\ j \in 1..Total(a)
        /\ f[k] \in 1..Len(s) /\ s[f[k]] = Message(a)
        /\ \A i \in 1..Total(a) :
             k + i > j => /\ k + i - j <= Len(r)
                          /\ r[k + i - j] = <<a, i>> /\ f[k + i - j] = f[k]
        /\ j = Total(a) => IF k = Len(r) THEN f[k] = Len(s)
                           ELSE r[k + 1][2] = 1 /\ f[k + 1] = f[k] + 1
    BY <2>2, Zenon DEF Block, a, j
  <2>4. ASSUME NEW i \in 1..Total(a), k + i > j
        PROVE  /\ k + i - j <= Len(q)
               /\ q[k + i - j] = <<a, i>> /\ g[k + i - j] = g[k]
    <3>1. i \in Nat
      BY <2>1, TotalNat
    <3>2. /\ k + i - j <= Len(r)
          /\ r[k + i - j] = <<a, i>> /\ f[k + i - j] = f[k]
      BY <2>3, <2>4
    <3>3. k + i - j \in 1..Len(r)
      BY <1>1, <2>1, <2>4, <3>1, <3>2
    <3>4. q[k + i - j] = r[k + i - j] /\ g[k + i - j] = f[k + i - j]
      BY <1>2, <1>4, <3>3
    <3>5. k + i - j <= Len(q)
      BY <1>1, <1>2, <3>3
    <3> QED BY <2>1, <3>2, <3>4, <3>5, Zenon
  <2>5. ASSUME j = Total(a)
        PROVE  IF k = Len(q) THEN g[k] = Len(w)
               ELSE q[k + 1][2] = 1 /\ g[k + 1] = g[k] + 1
    <3>1. k # Len(q)
      BY <1>1, <1>2
    <3>2. CASE k = Len(r)
      <4>1. 1 \in 1..Total(p) /\ f[k] = Len(s)
        BY <1>1, <2>3, <2>5, <3>2
      <4>2. q[k + 1] = <<p, 1>> /\ g[k + 1] = Len(s) + 1
        BY <1>2, <1>4, <3>2, <4>1
      <4> QED BY <2>1, <3>1, <4>1, <4>2
    <3>3. CASE k # Len(r)
      <4>1. k + 1 \in 1..Len(r)
        BY <1>1, <3>3
      <4> QED BY <1>2, <1>4, <2>1, <2>3, <2>5, <3>1, <3>3, <4>1
    <3> QED BY <3>2, <3>3
  <2>6. g[k] \in 1..Len(w) /\ w[g[k]] = Message(a)
    BY <1>1, <1>3, <2>1, <2>3
  <2>7. q[k][1] = a /\ q[k][2] = j
    BY <2>1 DEF a, j
  <2> QED BY <2>3, <2>4, <2>5, <2>6, <2>7, Zenon DEF Block
<1>6. ASSUME NEW j \in 1..Total(p) PROVE Block(q, g, w, Len(r) + j)
  <2>1. q[Len(r) + j] = <<p, j>> /\ g[Len(r) + j] = Len(s) + 1
    BY <1>2, <1>4
  <2>2. ASSUME NEW i \in 1..Total(p), Len(r) + j + i > j
        PROVE  /\ Len(r) + j + i - j <= Len(q)
               /\ q[Len(r) + j + i - j] = <<p, i>>
               /\ g[Len(r) + j + i - j] = g[Len(r) + j]
    <3>1. Len(r) + j + i - j = Len(r) + i /\ Len(r) + i <= Len(q)
      BY <1>1, <1>2
    <3> QED BY <1>2, <1>4, <2>1, <3>1
  <2>3. ASSUME j = Total(p)
        PROVE  IF Len(r) + j = Len(q) THEN g[Len(r) + j] = Len(w)
               ELSE q[Len(r) + j + 1][2] = 1 /\ g[Len(r) + j + 1] = g[Len(r) + j] + 1
    BY <1>2, <1>3, <2>1, <2>3
  <2>4. g[Len(r) + j] \in 1..Len(w) /\ w[g[Len(r) + j]] = Message(p)
    BY <1>1, <1>3, <2>1
  <2>5. q[Len(r) + j][1] = p /\ q[Len(r) + j][2] = j
    BY <2>1
  <2> QED BY <2>2, <2>3, <2>4, <2>5, Zenon DEF Block
<1>7. ASSUME NEW k \in 1..Len(q) PROVE Block(q, g, w, k)
  <2>1. CASE k <= Len(r)
    <3>1. k \in 1..Len(r)
      BY <1>1, <2>1
    <3> QED BY <1>5, <3>1
  <2>2. CASE ~(k <= Len(r))
    <3> DEFINE j == k - Len(r)
    <3>1. j \in 1..Total(p) /\ k = Len(r) + j
      BY <1>1, <1>2, <2>2
    <3> HIDE DEF j
    <3> QED BY <1>6, <3>1
  <2> QED BY <2>1, <2>2
<1> QED BY <1>7 DEF Blocks, q, w, g

\* What Starts and Continues say after a packet was sent.
LEMMA JoinStarts ==
  ASSUME NEW r \in Stream, NEW f, NEW s \in Seq(Received), NEW p \in Packets,
         NEW n \in Nat, Starts(r, f, s, n)
  PROVE  Starts(r \o Wire(p),
                [k \in 1..Len(r \o Wire(p)) |->
                   IF k <= Len(r) THEN f[k] ELSE Len(s) + 1],
                Append(s, Message(p)), n)
<1> DEFINE q == r \o Wire(p)
           g == [k \in 1..Len(q) |-> IF k <= Len(r) THEN f[k] ELSE Len(s) + 1]
<1>1. /\ Len(r) \in Nat /\ Len(s) \in Nat /\ Wire(p) \in Stream
      /\ Len(Wire(p)) \in Nat /\ 1 \in 1..Len(Wire(p)) /\ Wire(p)[1] = <<p, 1>>
  <2>1. /\ Wire(p) \in Stream /\ Len(Wire(p)) = HeaderLen + Bytes[p]
        /\ \A k \in 1..(HeaderLen + Bytes[p]) : Wire(p)[k] = <<p, k>>
    BY WireBytes
  <2>2. HeaderLen + Bytes[p] \in Nat /\ 1 \in 1..(HeaderLen + Bytes[p])
    BY TotalNat
  <2>3. Wire(p)[1] = <<p, 1>>
    BY <2>1, <2>2
  <2>4. Len(r) \in Nat /\ Len(s) \in Nat
    BY DEF Stream
  <2> QED BY <2>1, <2>2, <2>3, <2>4
<1>2. /\ q \in Stream /\ Len(q) = Len(r) + Len(Wire(p))
      /\ \A k \in 1..Len(r) : q[k] = r[k]
      /\ q[Len(r) + 1] = <<p, 1>>
  <2>1. /\ q \in Stream /\ Len(q) = Len(r) + Len(Wire(p))
        /\ \A k \in 1..Len(r) : q[k] = r[k]
        /\ \A k \in 1..Len(Wire(p)) : q[Len(r) + k] = Wire(p)[k]
    BY <1>1, JoinBytes, Zenon
  <2> QED BY <1>1, <2>1, Zenon
<1>3. g[1] = IF 1 <= Len(r) THEN f[1] ELSE Len(s) + 1
  BY <1>1, <1>2
<1> HIDE DEF q, g
<1>4. q # <<>>
  BY <1>1, <1>2
<1>5. CASE r = <<>>
  BY <1>1, <1>2, <1>3, <1>4, <1>5 DEF Starts, q, g
<1>6. CASE r # <<>>
  <2>1. 1 \in 1..Len(r)
    BY <1>6 DEF Stream
  <2> QED BY <1>1, <1>2, <1>3, <1>4, <1>6, <2>1 DEF Starts, q, g
<1> QED BY <1>5, <1>6

\* Where the last byte's packet is the last one sent.
LEMMA LastBlock ==
  ASSUME NEW r \in Stream, NEW f, NEW s, Blocks(r, f, s), r # <<>>
  PROVE  f[Len(r)] = Len(s)
<1>1. Len(r) \in Nat /\ Len(r) \in 1..Len(r)
  BY DEF Stream
<1>2. Block(r, f, s, Len(r))
  BY <1>1 DEF Blocks
<1> DEFINE p == r[Len(r)][1]
           j == r[Len(r)][2]
<1>3. p \in Packets /\ j \in Nat
  BY <1>1, ByteType
<1> HIDE DEF p, j
<1>4. /\ j \in 1..Total(p)
      /\ \A i \in 1..Total(p) : Len(r) + i > j => Len(r) + i - j <= Len(r)
      /\ j = Total(p) => f[Len(r)] = Len(s)
  BY <1>2 DEF Block, p, j
<1>5. Total(p) \in Nat
  BY <1>3, TotalNat
<1>6. j = Total(p)
  <2>1. Total(p) \in 1..Total(p) /\ Len(r) + Total(p) > j
    BY <1>1, <1>4, <1>5
  <2>2. Len(r) + Total(p) - j <= Len(r)
    BY <1>4, <2>1
  <2> QED BY <1>1, <1>4, <1>5, <2>2
<1> QED BY <1>4, <1>6

-----------------------------------------------------------------------------
(* The steps.                                                              *)

LEMMA Parts ==
  ASSUME TypeOK
  PROVE  /\ sent \in Seq(Received) /\ got \in Seq(Received)
         /\ receiveQueue \in Seq(Received)
         /\ net \in Stream /\ buffer \in Stream /\ Rest \in Stream
         /\ Len(sent) \in Nat /\ Len(got) \in Nat /\ Len(receiveQueue) \in Nat
         /\ Taken \in Nat /\ contentLen \in Nat
<1>1. /\ sent \in Seq(Received) /\ got \in Seq(Received)
      /\ receiveQueue \in Seq(Received)
      /\ net \in Stream /\ buffer \in Stream /\ contentLen \in Nat
  BY DEF TypeOK, Stream, Received
<1>2. Len(sent) \in Nat /\ Len(got) \in Nat /\ Len(receiveQueue) \in Nat
  BY <1>1, LenProperties
<1> QED BY <1>1, <1>2, JoinBytes DEF Rest, Taken

LEMMA FramedKept ==
  ASSUME NEW f, Framed(f),
         Rest' = Rest, sent' = sent, Taken' = Taken, UNCHANGED packetVars
  PROVE  Framed(f)'
BY DEF Framed, packetVars, Blocks, Block, Starts, Continues

LEMMA InitInv == Init => StreamInv
<1> SUFFICES ASSUME Init PROVE StreamInv
  OBVIOUS
<1>1. TypeOK
  BY TypeInit
<1>2. /\ sent = <<>> /\ got = <<>> /\ receiveQueue = <<>>
      /\ net = <<>> /\ buffer = <<>> /\ valid = TRUE /\ at = "idle"
      /\ posted = 0 /\ crashed = FALSE /\ outer = "none" /\ stale = FALSE
  BY DEF Init
<1>3. Rest = <<>> /\ Taken = 0 /\ Len(Rest) = 0 /\ Len(sent) = 0
  BY <1>2 DEF Rest, Taken
<1>4. Framed(0)
  BY <1>2, <1>3 DEF Framed, Blocks, Starts
<1>5. InStep /\ Queued /\ InitLast
  BY <1>2, <1>3 DEF InStep, Queued, InitLast
<1> QED BY <1>1, <1>4, <1>5 DEF StreamInv

LEMMA SendInv ==
  ASSUME Clean, StreamInv, TypeOK', NEW p \in Packets, Send(p)
  PROVE  StreamInv'
<1>1. PICK f : Framed(f)
  BY DEF StreamInv
<1>2. TypeOK
  BY DEF StreamInv
<1>3. /\ sent' = Append(sent, Message(p)) /\ net' = net \o Wire(p)
      /\ UNCHANGED <<buffer, at, packetVars, callVars, receiveQueue, serverVars>>
      /\ ~InitPending
  <2>1. AwaitsInit = TRUE /\ Chars[p] <= MaxLen
    BY DEF Clean
  <2>2. Chars[p] \in Nat /\ MaxLen \in Nat
    BY StreamAssumption
  <2>3. ~(Chars[p] > MaxLen)
    BY <2>1, <2>2
  <2> QED BY <2>1, <2>3 DEF Send
<1>4. Taken' = Taken
  BY <1>3 DEF Taken, serverVars
<1>5. Rest' = Rest \o Wire(p)
  <2>1. buffer \in Seq(Packets \X Nat) /\ net \in Seq(Packets \X Nat)
        /\ Wire(p) \in Seq(Packets \X Nat)
    BY <1>2, Parts, WireBytes DEF Stream
  <2>2. (buffer \o net) \o Wire(p) = buffer \o (net \o Wire(p))
    BY <2>1, ConcatAssociative, SMTT(20)
  <2> QED BY <1>3, <2>2 DEF Rest
<1>g. PICK g : g = [k \in 1..Len(Rest \o Wire(p)) |->
                        IF k <= Len(Rest) THEN f[k] ELSE Len(sent) + 1]
  OBVIOUS
<1>6. Rest # <<>> => f[Len(Rest)] = Len(sent)
  BY <1>1, <1>2, Parts, LastBlock DEF Framed
<1>7. Blocks(Rest \o Wire(p), g, Append(sent, Message(p)))
  BY <1>1, <1>2, <1>6, <1>g, Parts, JoinBlocks DEF Framed
<1>8. ASSUME NEW n \in Nat, Starts(Rest, f, sent, n)
      PROVE  Starts(Rest \o Wire(p), g, Append(sent, Message(p)), n)
  BY <1>2, <1>8, <1>g, Parts, JoinStarts
<1>9. /\ Len(Append(sent, Message(p))) = Len(sent) + 1
      /\ \A k \in 1..Len(sent) : Append(sent, Message(p))[k] = sent[k]
  BY <1>2, Parts, MessageType, AppendProperties
<1>10. Rest # <<>> => /\ 1 <= Len(Rest) /\ g[1] = f[1] /\ Rest \o Wire(p) # <<>>
                      /\ (Rest \o Wire(p))[1] = Rest[1]
  <2> SUFFICES ASSUME Rest # <<>>
               PROVE  /\ 1 <= Len(Rest) /\ g[1] = f[1] /\ Rest \o Wire(p) # <<>>
                      /\ (Rest \o Wire(p))[1] = Rest[1]
    OBVIOUS
  <2>1. Len(Rest) \in Nat /\ 1 \in 1..Len(Rest)
    BY <1>2, Parts DEF Stream
  <2>2. /\ Len(Rest \o Wire(p)) = Len(Rest) + Len(Wire(p)) /\ Len(Wire(p)) \in Nat
        /\ (Rest \o Wire(p))[1] = Rest[1]
    <3>1. Rest \in Stream /\ Wire(p) \in Stream
      BY <1>2, Parts, WireBytes
    <3>2. Len(Wire(p)) \in Nat
      BY <3>1 DEF Stream
    <3> QED BY <2>1, <3>1, <3>2, JoinBytes
  <2>3. 1 \in 1..Len(Rest \o Wire(p)) /\ 1 <= Len(Rest)
    BY <2>1, <2>2
  <2>4. Rest \o Wire(p) # <<>>
    BY <2>3
  <2>5. g[1] = f[1]
    BY <1>g, <2>3
  <2> QED BY <2>2, <2>3, <2>4, <2>5
<1>11. ASSUME valid PROVE \E h : Framed(h)'
  <2>1. Starts(Rest, f, sent, Taken + 1)
    BY <1>1, <1>11 DEF Framed
  <2>2. Starts(Rest \o Wire(p), g, Append(sent, Message(p)), Taken + 1)
    BY <1>2, <1>8, <2>1, Parts
  <2>3. valid' /\ Blocks(Rest', g, sent') /\ Starts(Rest', g, sent', Taken' + 1)
    BY <1>3, <1>4, <1>5, <1>7, <1>11, <2>2 DEF packetVars
  <2>4. Framed(g)'
    BY <2>3 DEF Framed, Blocks, Block, Starts
  <2> QED BY <2>4
<1>12. ASSUME ~valid PROVE \E h : Framed(h)'
  <2>1. PICK c \in Packets : /\ id = Id[c] /\ contentLen = Bytes[c]
                             /\ Continues(Rest, f, sent, Taken + 1, c)
    BY <1>1, <1>12 DEF Framed
  <2>2. Taken + 1 \in Nat /\ Taken + 1 + 1 \in Nat
    BY <1>2, Parts
  <2>3. Taken + 1 \in 1..Len(sent) /\ sent[Taken + 1] = Message(c)
    BY <2>1 DEF Continues
  <2>4. /\ Taken + 1 \in 1..Len(Append(sent, Message(p)))
        /\ Append(sent, Message(p))[Taken + 1] = Message(c)
    BY <1>2, <1>9, <2>3, Parts
  <2>5. Continues(Rest \o Wire(p), g, Append(sent, Message(p)), Taken + 1, c)
    <3>1. CASE Bytes[c] = 0
      BY <1>8, <2>1, <2>2, <2>4, <3>1 DEF Continues
    <3>2. CASE Bytes[c] # 0
      BY <1>10, <2>1, <2>4, <3>2 DEF Continues
    <3> QED BY <3>1, <3>2
  <2>6. /\ ~valid' /\ Blocks(Rest', g, sent') /\ id' = Id[c]
        /\ contentLen' = Bytes[c] /\ Continues(Rest', g, sent', Taken' + 1, c)
    BY <1>3, <1>4, <1>5, <1>7, <1>12, <2>1, <2>5 DEF packetVars
  <2>7. Framed(g)'
    BY <2>6 DEF Framed, Blocks, Block, Starts, Continues
  <2> QED BY <2>7
<1>13. \E h : Framed(h)'
  BY <1>11, <1>12
<1>14. InStep'
  BY <1>3 DEF StreamInv, InStep, packetVars, callVars, serverVars
<1>15. Queued'
  <2>1. Taken <= Len(sent) /\ Len(sent') = Len(sent) + 1
    BY <1>3, <1>9 DEF StreamInv, Queued
  <2>2. ASSUME NEW j \in 1..Len(receiveQueue)
        PROVE  receiveQueue[j] = sent'[Len(got) + j]
    <3>1. receiveQueue[j] = sent[Len(got) + j]
      BY DEF StreamInv, Queued
    <3>2. Len(got) + j \in 1..Len(sent)
      BY <1>2, <2>1, Parts DEF Taken
    <3> QED BY <1>3, <1>9, <3>1, <3>2
  <2>3. Taken' <= Len(sent')
    BY <1>2, <1>4, <2>1, Parts
  <2>4. receiveQueue' = receiveQueue /\ got' = got
    BY <1>3 DEF serverVars
  <2> QED BY <2>2, <2>3, <2>4 DEF Queued
<1>16. InitLast'
  <2>1. ASSUME NEW k \in (Len(got) + 1)..Len(sent), NEW i \in Inits
        PROVE  sent'[k] # Message(i)
    <3>1. sent[k] # Message(i)
      BY <1>3 DEF InitPending
    <3>2. k \in 1..Len(sent)
      BY <1>2, Parts
    <3> QED BY <1>3, <1>9, <3>1, <3>2
  <2>2. Len(sent') - 1 = Len(sent) /\ got' = got
    BY <1>2, <1>3, <1>9, Parts DEF serverVars
  <2> QED BY <2>1, <2>2 DEF InitLast
<1> QED BY <1>13, <1>14, <1>15, <1>16 DEF StreamInv

\* The next byte of p, the m-th packet, is its i-th, or p is read to its end.
Left(r, f, s, p, i, m) ==
  IF i = Total(p) + 1 THEN Starts(r, f, s, m + 1)
  ELSE r # <<>> /\ r[1] = <<p, i>> /\ f[1] = m

\* Reading n bytes of the first packet leaves the rest of it, or, when these
\* were its last, a stream that begins with the next packet.
LEMMA CutFirst ==
  ASSUME NEW r \in Stream, NEW q \in Stream, NEW f, NEW s \in Seq(Received),
         NEW n \in 0..Len(r), NEW p \in Packets, NEW j \in Nat,
         Len(q) = Len(r) - n, \A k \in 1..(Len(r) - n) : q[k] = r[n + k],
         Blocks(r, f, s), r # <<>>, r[1] = <<p, j>>, n <= Total(p) - j + 1,
         NEW g, g = [k \in 1..Len(q) |-> f[n + k]]
  PROVE  Left(q, g, s, p, n + j, f[1])
<1>1. /\ Len(r) \in Nat /\ Len(s) \in Nat /\ Len(q) \in Nat /\ n \in Nat
      /\ Total(p) \in Nat
  BY TotalNat, SMTT(20) DEF Stream
<1>2. /\ j \in 1..Total(p) /\ Total(p) - j + 1 \in 1..Len(r)
      /\ f[1] \in 1..Len(s)
      /\ \A i \in 1..(Total(p) - j + 1) : r[i] = <<p, i + j - 1>> /\ f[i] = f[1]
      /\ IF Total(p) - j + 1 = Len(r) THEN f[1] = Len(s)
         ELSE /\ r[Total(p) - j + 2][2] = 1
              /\ f[Total(p) - j + 2] = f[1] + 1
  <2>1. Uncut(r, f, s, p, j)
    BY FirstBlock
  <2> QED BY <2>1, Zenon DEF Uncut
<1>3. Len(q) >= 1 => /\ q[1] = r[n + 1] /\ g[1] = f[n + 1] /\ q # <<>>
  BY <1>1
<1>4. CASE n = Total(p) - j + 1
  <2>0. n + j = Total(p) + 1
    BY <1>1, <1>4
  <2>1. CASE n = Len(r)
    <3>1. q = <<>> /\ f[1] = Len(s)
      BY <1>1, <1>2, <1>4, <2>1, EmptySeq DEF Stream
    <3>2. Len(s) = (f[1] + 1) - 1
      BY <1>1, <3>1
    <3> QED BY <2>0, <3>1, <3>2 DEF Starts, Left
  <2>2. CASE n # Len(r)
    <3>1. Len(q) >= 1 /\ n + 1 = Total(p) - j + 2
      <4>1. j \in 1..Total(p) /\ n <= Len(r)
        BY <1>2
      <4> QED BY <1>1, <1>4, <2>2, <4>1
    <3>2. r[n + 1][2] = 1 /\ f[n + 1] = f[1] + 1
      BY <1>2, <1>4, <2>2, <3>1
    <3> QED BY <1>3, <2>0, <3>1, <3>2 DEF Starts, Left
  <2> QED BY <2>1, <2>2
<1>5. CASE n # Total(p) - j + 1
  <2>1. /\ n + 1 \in 1..(Total(p) - j + 1) /\ Len(q) >= 1
        /\ n + 1 + j - 1 = n + j
    BY <1>1, <1>2, <1>5
  <2>2. r[n + 1] = <<p, n + j>> /\ f[n + 1] = f[1]
    BY <1>2, <2>1
  <2>3. n + j # Total(p) + 1
    BY <1>1, <1>5
  <2> QED BY <1>3, <2>3, <2>1, <2>2 DEF Left
<1> QED BY <1>4, <1>5

\* Taking bytes in moves them from net to buffer.
LEMMA TakeRest ==
  ASSUME TypeOK, NEW n \in 0..Len(net), Take(n)
  PROVE  Rest' = Rest
<1>1. /\ buffer' = buffer \o SubSeq(net, 1, n)
      /\ net' = SubSeq(net, n + 1, Len(net))
  BY DEF Take
<1>2. /\ net \in Seq(Packets \X Nat) /\ buffer \in Seq(Packets \X Nat)
      /\ Len(net) \in Nat
  BY Parts DEF Stream
<1>3. n \in 0..Len(net) /\ 1 \in 1..(Len(net) + 1) /\ n \in (1 - 1)..Len(net)
      /\ Len(net) \in n..Len(net)
  BY <1>2
<1>4. net' \in Seq(Packets \X Nat) /\ SubSeq(net, 1, n) \in Seq(Packets \X Nat)
  BY <1>1, <1>2, <1>3, CutBytes DEF Stream
<1>5. SubSeq(net, 1, n) \o net' = net
  BY <1>1, <1>2, <1>3, ConcatAdjacentSubSeq, SubSeqFull
<1>6. buffer' \o net' = buffer \o (SubSeq(net, 1, n) \o net')
  <2>1. /\ buffer \in Seq(Packets \X Nat) /\ SubSeq(net, 1, n) \in Seq(Packets \X Nat)
        /\ SubSeq(net, n + 1, Len(net)) \in Seq(Packets \X Nat)
    BY <1>1, <1>2, <1>4
  <2>2. (buffer \o SubSeq(net, 1, n)) \o SubSeq(net, n + 1, Len(net))
          = buffer \o (SubSeq(net, 1, n) \o SubSeq(net, n + 1, Len(net)))
    BY <2>1, JoinGroups, ZenonT(30) DEF Stream
  <2> QED BY <1>1, <2>2, Zenon
<1> QED BY <1>5, <1>6 DEF Rest

\* The steps that take bytes in or move the handler's thread, an inner call and
\* its return among them, as long as what is expected next stays the same.
LEMMA ThreadInv ==
  ASSUME StreamInv, TypeOK',
         Arrive \/ Reenter \/ ReadDataStream \/ Wait \/ ReadMore
  PROVE  StreamInv'
<1>1. UNCHANGED <<sent, packetVars, receiveQueue, serverVars>>
  BY DEF Arrive, Reenter, ReadDataStream, Wait, ReadMore, senderVars
<1>2. Rest' = Rest
  <2>1. UNCHANGED <<net, buffer>> \/ \E n \in 0..Len(net) : Take(n)
    <3>1. \A n \in 1..Len(net) : n \in 0..Len(net)
      BY Parts, LenProperties DEF StreamInv, Stream
    <3> QED BY <3>1 DEF Arrive, Reenter, ReadDataStream, Wait, ReadMore
  <2>2. CASE UNCHANGED <<net, buffer>>
    BY <2>2 DEF Rest
  <2>3. CASE \E n \in 0..Len(net) : Take(n)
    BY <2>3, TakeRest DEF StreamInv
  <2> QED BY <2>1, <2>2, <2>3
<1>3. Taken' = Taken
  BY <1>1 DEF Taken, serverVars
<1>4. \E f : Framed(f)'
  BY <1>1, <1>2, <1>3, FramedKept DEF StreamInv
<1>5. Queued' /\ InitLast'
  BY <1>1, <1>3 DEF StreamInv, Queued, InitLast, serverVars
<1>6. InStep'
  <2> USE DEF StreamInv, InStep, packetVars, callVars, serverVars
  <2>0. at \in {"header", "content"} => at = Resume
    BY DEF Resume
  <2>1. CASE ReadDataStream
    <3>1. outer = "none" \/ outer = "idle"
      BY <2>1 DEF ReadDataStream
    <3>2. outer = "none"
      BY <3>1 DEF TypeOK
    <3> QED BY <1>1, <2>1, <3>2 DEF ReadDataStream, Resume
  <2>2. CASE Wait
    BY <1>1, <2>2 DEF Wait, Waiting, OnStale, Return
  <2>3. CASE ReadMore
    <3>1. outer = "none" \/ outer = "more"
      BY <2>3 DEF ReadMore
    <3>2. outer = "none"
      BY <3>1 DEF TypeOK
    <3> QED BY <1>1, <2>3, <3>2 DEF ReadMore, ReadRemained, Return
  <2>4. CASE Arrive
    BY <1>1, <2>4 DEF Arrive
  <2>5. CASE Reenter
    BY <1>1, <2>0, <2>5 DEF Reenter, Waiting
  <2> QED BY <2>1, <2>2, <2>3, <2>4, <2>5
<1> QED BY <1>4, <1>5, <1>6 DEF StreamInv

LEMMA ReadHeaderInv ==
  ASSUME Clean, StreamInv, TypeOK', Intact', ReadHeader PROVE StreamInv'
<1>1. TypeOK /\ valid /\ InStep /\ Queued /\ InitLast
  BY DEF StreamInv, InStep, ReadHeader
<1>2. PICK f : Framed(f)
  BY DEF StreamInv
<1>3. Blocks(Rest, f, sent) /\ Starts(Rest, f, sent, Taken + 1)
  BY <1>1, <1>2 DEF Framed
<1>4. /\ buffer \in Stream /\ net \in Stream /\ Rest \in Stream
      /\ sent \in Seq(Received) /\ Taken \in Nat
      /\ Len(buffer) \in Nat /\ Len(Rest) \in Nat
      /\ Len(Rest) = Len(buffer) + Len(net) /\ Len(net) \in Nat
  <2>1. /\ buffer \in Stream /\ net \in Stream /\ Rest \in Stream
        /\ sent \in Seq(Received) /\ Taken \in Nat
    BY <1>1, Parts
  <2>2. Len(buffer) \in Nat /\ Len(Rest) \in Nat /\ Len(net) \in Nat
    BY <2>1 DEF Stream
  <2> QED BY <2>1, <2>2, JoinBytes DEF Rest
<1>5. HeaderLen \in 1..Len(buffer) /\ Rest # <<>> /\ 1 \in 1..Len(Rest)
  <2>1. HeaderLen \in Nat /\ HeaderLen # 0 /\ Len(buffer) >= HeaderLen
    BY <1>4, StreamAssumption DEF ReadHeader, Available
  <2>2. 1 \in 1..Len(Rest)
    BY <1>4, <2>1
  <2> QED BY <1>4, <2>1, <2>2
<1>6. PICK p \in Packets : Rest[1] = <<p, 1>>
  <2>1. Rest[1][2] = 1
    BY <1>3, <1>5 DEF Starts
  <2> QED BY <1>4, <1>5, <2>1, ByteType
<1>7. f[1] = Taken + 1
  BY <1>3, <1>5 DEF Starts
<1>8. Uncut(Rest, f, sent, p, 1)
  BY <1>3, <1>4, <1>5, <1>6, FirstBlock
<1>9. /\ Total(p) \in 1..Len(Rest)
      /\ f[1] \in 1..Len(sent) /\ sent[f[1]] = Message(p)
      /\ \A i \in 1..Total(p) : Rest[i] = <<p, i>>
  <2>1. Total(p) - 1 + 1 = Total(p) /\ Total(p) \in Nat
    BY TotalNat
  <2>2. \A i \in 1..Total(p) : i + 1 - 1 = i
    BY <2>1
  <2> QED BY <1>8, <2>1, <2>2 DEF Uncut
<1>10. SubSeq(buffer, 1, HeaderLen) = Header(p)
  <2>1. HeaderLen \in 0..Len(buffer) /\ HeaderLen \in Nat
    BY <1>4, <1>5
  <2>2. /\ SubSeq(buffer, 1, HeaderLen) \in Stream
        /\ Len(SubSeq(buffer, 1, HeaderLen)) = HeaderLen
        /\ \A k \in 1..HeaderLen : SubSeq(buffer, 1, HeaderLen)[k] = buffer[k]
    BY <1>4, <2>1, CutBytes
  <2>3. /\ Header(p) \in Stream /\ Len(Header(p)) = HeaderLen
        /\ \A k \in 1..HeaderLen : Header(p)[k] = <<p, k>>
    BY HeaderBytes
  <2>4. ASSUME NEW k \in 1..HeaderLen PROVE buffer[k] = <<p, k>>
    <3>1. k \in 1..Len(buffer) /\ k \in 1..Total(p)
      BY <1>4, <1>5, TotalNat
    <3>2. Rest[k] = buffer[k]
      BY <1>4, <3>1, JoinBytes DEF Rest
    <3> QED BY <1>9, <3>1, <3>2
  <2>5. \A k \in 1..HeaderLen : SubSeq(buffer, 1, HeaderLen)[k] = Header(p)[k]
    BY <2>2, <2>3, <2>4

  <2> QED BY <2>2, <2>3, <2>5, SeqEqual DEF Stream
<1>11. /\ id' = Id[p] /\ contentLen' = Bytes[p] /\ at' = "content" /\ ~valid'
       /\ buffer' = SubSeq(buffer, HeaderLen + 1, Len(buffer))
       /\ UNCHANGED <<sent, net, receiveQueue, serverVars>>
       /\ outer' = "none" /\ stale' = stale
  <2>1. PICK r \in Readings(Header(p), contentLen) :
            /\ id' = r.id
            /\ contentLen' = Length(r)
            /\ buffer' = BehindHeader(r)
            /\ IF r.ok THEN at' = "content" /\ UNCHANGED <<failed, callVars>>
                       ELSE failed' = TRUE /\ Return
    BY <1>10 DEF ReadHeader
  <2>2. r \in {[ok |-> TRUE, id |-> Id[q], len |-> Chars[q], drop |-> FALSE] :
                 q \in {q \in Packets : Header(p) = Header(q)}}
    BY DEF Readings
  <2>3. r = [ok |-> TRUE, id |-> Id[p], len |-> Chars[p], drop |-> FALSE]
    BY <2>2, HeaderInjective
  <2>4. Chars[p] = Bytes[p]
    BY DEF Clean
  <2>5. outer = "none"
    BY DEF ReadHeader, Intact
  <2> QED BY <2>1, <2>3, <2>4, <2>5
          DEF ReadHeader, Length, BehindHeader, senderVars, callVars
<1>12. HeaderLen \in 0..Len(buffer) /\ HeaderLen \in 0..Len(Rest)
  BY <1>4, <1>5
<1>13. /\ Rest' \in Stream /\ Len(Rest') = Len(Rest) - HeaderLen
       /\ \A k \in 1..(Len(Rest) - HeaderLen) : Rest'[k] = Rest[HeaderLen + k]
  <2>1. Rest' = SubSeq(buffer, HeaderLen + 1, Len(buffer)) \o net
    BY <1>11 DEF Rest
  <2>2. Rest = buffer \o net
    BY DEF Rest
  <2>3. /\ SubSeq(buffer, HeaderLen + 1, Len(buffer)) \o net \in Stream
        /\ Len(SubSeq(buffer, HeaderLen + 1, Len(buffer)) \o net)
             = Len(buffer \o net) - HeaderLen
        /\ \A k \in 1..(Len(buffer \o net) - HeaderLen) :
             (SubSeq(buffer, HeaderLen + 1, Len(buffer)) \o net)[k]
               = (buffer \o net)[HeaderLen + k]
    BY <1>4, <1>12, CutStream, Zenon
  <2> QED BY <2>1, <2>2, <2>3, Zenon
<1>q. PICK q : q = Rest'
  OBVIOUS
<1>g. PICK g : g = [k \in 1..Len(q) |-> f[HeaderLen + k]]
  OBVIOUS
<1>14. Blocks(q, g, sent)
  BY <1>3, <1>4, <1>12, <1>13, <1>q, <1>g, CutBlocks
<1>15. Left(q, g, sent, p, HeaderLen + 1, Taken + 1)
  <2>1. /\ q \in Stream /\ Len(q) = Len(Rest) - HeaderLen
        /\ \A k \in 1..(Len(Rest) - HeaderLen) : q[k] = Rest[HeaderLen + k]
    BY <1>13, <1>q
  <2>2. HeaderLen <= Total(p) - 1 + 1 /\ 1 \in Nat
    BY TotalNat
  <2> QED BY <1>3, <1>4, <1>5, <1>6, <1>7, <1>12, <1>g, <2>1, <2>2, CutFirst, ZenonT(30)
<1>16. Continues(q, g, sent, Taken + 1, p)
  <2>1. HeaderLen + 1 = Total(p) + 1 <=> Bytes[p] = 0
    BY TotalNat
  <2> QED BY <1>7, <1>9, <1>15, <2>1 DEF Continues, Left
<1>17. Taken' = Taken
  BY <1>11 DEF Taken, serverVars
<1>18. Framed(g)'
  <2>1. /\ Blocks(Rest', g, sent')
        /\ Continues(Rest', g, sent', Taken' + 1, p)
    BY <1>11, <1>14, <1>16, <1>17, <1>q
  <2> QED BY <1>11, <2>1 DEF Framed, Blocks, Block, Starts, Continues
<1>19. InStep' /\ Queued' /\ InitLast'
  BY <1>1, <1>11, <1>17 DEF InStep, Queued, InitLast, serverVars
<1> QED BY <1>18, <1>19 DEF StreamInv

LEMMA ReadContentInv ==
  ASSUME StreamInv, TypeOK', Intact', ReadContent PROVE StreamInv'
<1>1. TypeOK /\ ~valid /\ InStep /\ Queued /\ InitLast
  BY DEF StreamInv, InStep, ReadContent
<1>2. PICK f : Framed(f)
  BY DEF StreamInv
<1>3. PICK p \in Packets : /\ id = Id[p] /\ contentLen = Bytes[p]
                           /\ Continues(Rest, f, sent, Taken + 1, p)
  BY <1>1, <1>2 DEF Framed
<1>4. Blocks(Rest, f, sent)
  BY <1>2 DEF Framed
<1>5. /\ buffer \in Stream /\ net \in Stream /\ Rest \in Stream
      /\ sent \in Seq(Received) /\ receiveQueue \in Seq(Received)
      /\ Taken \in Nat /\ Len(sent) \in Nat
      /\ Len(got) \in Nat /\ Len(receiveQueue) \in Nat
      /\ Len(buffer) \in Nat /\ Len(Rest) \in Nat
      /\ Len(Rest) = Len(buffer) + Len(net) /\ Len(net) \in Nat
  <2>1. /\ buffer \in Stream /\ net \in Stream /\ Rest \in Stream
        /\ sent \in Seq(Received) /\ receiveQueue \in Seq(Received)
        /\ Taken \in Nat /\ Len(sent) \in Nat
        /\ Len(got) \in Nat /\ Len(receiveQueue) \in Nat
    BY <1>1, Parts
  <2>2. Len(buffer) \in Nat /\ Len(Rest) \in Nat /\ Len(net) \in Nat
    BY <2>1 DEF Stream
  <2> QED BY <2>1, <2>2, JoinBytes DEF Rest
<1>6. /\ Bytes[p] \in Nat /\ HeaderLen \in Nat /\ Total(p) \in Nat
      /\ Total(p) = HeaderLen + Bytes[p]
      /\ Bytes[p] \in 0..Len(buffer) /\ Bytes[p] \in 0..Len(Rest)
  BY <1>3, <1>5, TotalNat DEF ReadContent, Available
<1>7. Taken + 1 \in 1..Len(sent) /\ sent[Taken + 1] = Message(p)
  BY <1>3 DEF Continues
<1>8. ASSUME NEW k \in 1..Bytes[p] PROVE Rest[k] = <<p, HeaderLen + k>>
  <2>1. Bytes[p] # 0
    BY <1>6
  <2>2. Rest # <<>> /\ Rest[1] = <<p, HeaderLen + 1>>
    BY <1>3, <2>1 DEF Continues
  <2>3. Uncut(Rest, f, sent, p, HeaderLen + 1)
    <3>1. HeaderLen + 1 \in Nat
      BY <1>6
    <3> QED BY <1>4, <1>5, <2>2, <3>1, FirstBlock
  <2>4. k \in 1..(Total(p) - (HeaderLen + 1) + 1) /\ k + (HeaderLen + 1) - 1 = HeaderLen + k
    BY <1>6
  <2> QED BY <2>3, <2>4 DEF Uncut
<1>9. SubSeq(buffer, 1, Bytes[p]) = Text(p)
  <2>1. /\ SubSeq(buffer, 1, Bytes[p]) \in Stream
        /\ Len(SubSeq(buffer, 1, Bytes[p])) = Bytes[p]
        /\ \A k \in 1..Bytes[p] : SubSeq(buffer, 1, Bytes[p])[k] = buffer[k]
    BY <1>5, <1>6, CutBytes
  <2>2. /\ Text(p) \in Stream /\ Len(Text(p)) = Bytes[p]
        /\ \A k \in 1..Bytes[p] : Text(p)[k] = <<p, HeaderLen + k>>
    BY TextBytes
  <2>3. ASSUME NEW k \in 1..Bytes[p] PROVE buffer[k] = <<p, HeaderLen + k>>
    <3>1. k \in 1..Len(buffer)
      BY <1>5, <1>6
    <3>2. Rest[k] = buffer[k]
      BY <1>5, <3>1, JoinBytes DEF Rest
    <3> QED BY <1>8, <3>2
  <2>4. \A k \in 1..Bytes[p] : SubSeq(buffer, 1, Bytes[p])[k] = Text(p)[k]
    BY <2>1, <2>2, <2>3
  <2> QED BY <2>1, <2>2, <2>4, SeqEqual DEF Stream
<1>10. /\ receiveQueue' = Append(receiveQueue, Message(p))
       /\ buffer' = SubSeq(buffer, Bytes[p] + 1, Len(buffer))
       /\ posted' = posted + 1 /\ valid' /\ at' = "more"
       /\ UNCHANGED <<sent, net, got, crashed>>
       /\ outer' = "none" /\ ~stale'
  <2>1. /\ Announce([id |-> id, text |-> SubSeq(buffer, 1, Bytes[p])])
        /\ buffer' = SubSeq(buffer, Bytes[p] + 1, Len(buffer))
    BY <1>3 DEF ReadContent
  <2>2. Announce(Message(p))
    BY <1>3, <1>9, <2>1 DEF Message
  <2>3. Message(p).id \in Known
    BY <2>2 DEF Announce, Intact
  <2>4. outer = "none"
    BY DEF ReadContent, Intact
  <2> QED BY <2>1, <2>2, <2>3, <2>4
          DEF ReadContent, Announce, Enqueue, senderVars
<1>11. /\ Rest' \in Stream /\ Len(Rest') = Len(Rest) - Bytes[p]
       /\ \A k \in 1..(Len(Rest) - Bytes[p]) : Rest'[k] = Rest[Bytes[p] + k]
  <2>1. Rest' = SubSeq(buffer, Bytes[p] + 1, Len(buffer)) \o net
    BY <1>10 DEF Rest
  <2>2. Rest = buffer \o net
    BY DEF Rest
  <2>3. /\ SubSeq(buffer, Bytes[p] + 1, Len(buffer)) \o net \in Stream
        /\ Len(SubSeq(buffer, Bytes[p] + 1, Len(buffer)) \o net)
             = Len(buffer \o net) - Bytes[p]
        /\ \A k \in 1..(Len(buffer \o net) - Bytes[p]) :
             (SubSeq(buffer, Bytes[p] + 1, Len(buffer)) \o net)[k]
               = (buffer \o net)[Bytes[p] + k]
    BY <1>5, <1>6, CutStream, Zenon
  <2> QED BY <2>1, <2>2, <2>3, Zenon
<1>q. PICK q : q = Rest'
  OBVIOUS
<1>g. PICK g : g = [k \in 1..Len(q) |-> f[Bytes[p] + k]]
  OBVIOUS
<1>12. /\ q \in Stream /\ Len(q) = Len(Rest) - Bytes[p]
       /\ \A k \in 1..(Len(Rest) - Bytes[p]) : q[k] = Rest[Bytes[p] + k]
  BY <1>11, <1>q
<1>13. Blocks(q, g, sent)
  BY <1>4, <1>5, <1>6, <1>12, <1>g, CutBlocks
<1>14. Starts(q, g, sent, Taken + 1 + 1)
  <2>1. CASE Bytes[p] = 0
    <3>1. Starts(Rest, f, sent, Taken + 1 + 1)
      BY <1>3, <2>1 DEF Continues
    <3>2. Len(q) = Len(Rest) /\ \A k \in 1..Len(Rest) : q[k] = Rest[k] /\ g[k] = f[k]
      BY <1>5, <1>12, <1>g, <2>1
    <3>3. CASE Rest = <<>>
      <4>1. q = <<>>
        BY <1>12, <3>2, <3>3, EmptySeq DEF Stream
      <4> QED BY <3>1, <3>3, <4>1 DEF Starts
    <3>4. CASE Rest # <<>>
      <4>1. 1 \in 1..Len(Rest)
        BY <1>5, <3>4, EmptySeq DEF Stream
      <4>2. q # <<>>
        BY <1>5, <3>2, <4>1
      <4> QED BY <3>1, <3>2, <3>4, <4>1, <4>2 DEF Starts
    <3> QED BY <3>3, <3>4
  <2>2. CASE Bytes[p] # 0
    <3>1. Rest # <<>> /\ Rest[1] = <<p, HeaderLen + 1>> /\ f[1] = Taken + 1
      BY <1>3, <2>2 DEF Continues
    <3>2. HeaderLen + 1 \in Nat /\ Bytes[p] <= Total(p) - (HeaderLen + 1) + 1
      BY <1>6
    <3>3. Left(q, g, sent, p, Bytes[p] + (HeaderLen + 1), Taken + 1)
      <4>1. Left(q, g, sent, p, Bytes[p] + (HeaderLen + 1), f[1])
        BY <1>4, <1>5, <1>6, <1>12, <1>g, <3>1, <3>2, CutFirst, Zenon
      <4> QED BY <3>1, <4>1
    <3>4. Bytes[p] + (HeaderLen + 1) = Total(p) + 1
      BY <1>6
    <3> QED BY <3>3, <3>4 DEF Left
  <2> QED BY <2>1, <2>2
<1>15. Len(receiveQueue') = Len(receiveQueue) + 1 /\ Taken' = Taken + 1
  <2>1. Len(receiveQueue') = Len(receiveQueue) + 1
    BY <1>5, <1>10, MessageType, AppendProperties
  <2> QED BY <1>5, <1>10, <2>1 DEF Taken
<1>16. Framed(g)'
  <2>1. /\ Blocks(Rest', g, sent') /\ Starts(Rest', g, sent', Taken' + 1)
    BY <1>10, <1>13, <1>14, <1>15, <1>q
  <2> QED BY <1>10, <2>1 DEF Framed, Blocks, Block, Starts
<1>17. InStep'
  BY <1>1, <1>10, <1>15 DEF InStep
<1>18. Queued'
  <2>1. Taken' <= Len(sent')
    BY <1>5, <1>7, <1>10, <1>15
  <2>2. ASSUME NEW j \in 1..Len(receiveQueue')
        PROVE  receiveQueue'[j] = sent'[Len(got') + j]
    <3>1. CASE j <= Len(receiveQueue)
      <4>1. j \in 1..Len(receiveQueue)
        BY <1>5, <3>1
      <4>2. receiveQueue'[j] = receiveQueue[j]
        BY <1>5, <1>10, <4>1, MessageType, AppendProperties
      <4>3. receiveQueue[j] = sent[Len(got) + j]
        BY <1>1, <4>1 DEF Queued
      <4> QED BY <1>10, <4>2, <4>3
    <3>2. CASE ~(j <= Len(receiveQueue))
      <4>1. j = Len(receiveQueue) + 1 /\ Len(got) + j = Taken + 1
        BY <1>5, <1>15, <3>2, SMTT(20) DEF Taken
      <4>2. receiveQueue'[j] = Message(p)
        BY <1>5, <1>10, <4>1, MessageType, AppendProperties
      <4> QED BY <1>7, <1>10, <4>1, <4>2
    <3> QED BY <3>1, <3>2
  <2> QED BY <2>1, <2>2 DEF Queued
<1>19. InitLast'
  BY <1>1, <1>10 DEF InitLast
<1> QED BY <1>16, <1>17, <1>18, <1>19 DEF StreamInv

LEMMA ExecuteInv ==
  ASSUME StreamInv, TypeOK', Execute PROVE StreamInv'
<1>1. TypeOK /\ InStep /\ Queued /\ InitLast
  BY DEF StreamInv
<1>2. PICK f : Framed(f)
  BY DEF StreamInv
<1>3. /\ sent \in Seq(Received) /\ got \in Seq(Received)
      /\ receiveQueue \in Seq(Received)
      /\ Len(sent) \in Nat /\ Len(got) \in Nat /\ Len(receiveQueue) \in Nat
      /\ Taken = Len(got) + Len(receiveQueue)
  BY <1>1, Parts DEF Taken
<1>4. receiveQueue # <<>> /\ Len(receiveQueue) >= 1
  <2>1. posted > 0 /\ posted = Len(receiveQueue)
    BY <1>1 DEF Execute, InStep
  <2> QED BY <1>3, <2>1
<1>5. /\ got' = Append(got, Head(receiveQueue))
      /\ receiveQueue' = Tail(receiveQueue)
      /\ posted' = posted - 1 /\ crashed' = crashed
      /\ UNCHANGED <<sent, net, buffer, at, callVars>>
      /\ \/ /\ \E p \in Inits : Head(receiveQueue) = Message(p)
            /\ valid' = TRUE
         \/ UNCHANGED packetVars
  BY <1>4 DEF Execute, senderVars
<1>6. /\ Head(receiveQueue) = receiveQueue[1]
      /\ receiveQueue[1] = sent[Len(got) + 1]
      /\ receiveQueue[1] \in Received
  <2>1. 1 \in 1..Len(receiveQueue)
    BY <1>3, <1>4
  <2>2. receiveQueue[1] = sent[Len(got) + 1]
    BY <1>1, <2>1 DEF Queued
  <2> QED BY <1>3, <1>4, <2>1, <2>2
<1>7. /\ Len(receiveQueue') = Len(receiveQueue) - 1
      /\ \A j \in 1..Len(receiveQueue') : receiveQueue'[j] = receiveQueue[j + 1]
      /\ Len(got') = Len(got) + 1
  BY <1>3, <1>4, <1>5, <1>6, HeadTailProperties, AppendProperties
<1>8. Taken' = Taken /\ Rest' = Rest
  <2>1. Taken' = Len(got') + Len(receiveQueue')
    BY DEF Taken
  <2>2. Rest' = Rest
    BY <1>5 DEF Rest
  <2> QED BY <1>3, <1>7, <2>1, <2>2
<1>9. ASSUME UNCHANGED packetVars PROVE (\E h : Framed(h)') /\ InStep'
  <2>1. Framed(f)'
    BY <1>2, <1>5, <1>8, <1>9, FramedKept
  <2>2. InStep'
    BY <1>1, <1>3, <1>5, <1>7, <1>9 DEF InStep, packetVars, callVars
  <2> QED BY <2>1, <2>2
<1>10. ASSUME \E p \in Inits : Head(receiveQueue) = Message(p), valid' = TRUE
       PROVE  (\E h : Framed(h)') /\ InStep'
  <2>1. Len(got) + 1 = Len(sent)
    <3>1. ~(Len(got) + 1 \in (Len(got) + 1)..(Len(sent) - 1))
      BY <1>1, <1>6, <1>10 DEF InitLast
    <3>2. Taken <= Len(sent)
      BY <1>1 DEF Queued
    <3> QED BY <1>3, <1>4, <3>1, <3>2
  <2>2. Taken = Len(sent)
    BY <1>1, <1>3, <1>4, <2>1 DEF Queued
  <2>3. valid
    <3>1. ~(Taken + 1 \in 1..Len(sent))
      BY <1>3, <2>2
    <3> QED BY <1>2, <3>1 DEF Framed, Continues
  <2>4. Framed(f)'
    BY <1>2, <1>5, <1>8, <1>10, <2>3 DEF Framed, Blocks, Block, Starts
  <2>5. InStep'
    BY <1>1, <1>3, <1>5, <1>7, <1>10, <2>3 DEF InStep, callVars
  <2> QED BY <2>4, <2>5
<1>11. Queued'
  <2>1. ASSUME NEW j \in 1..Len(receiveQueue')
        PROVE  receiveQueue'[j] = sent'[Len(got') + j]
    <3>1. j + 1 \in 1..Len(receiveQueue) /\ Len(got') + j = Len(got) + (j + 1)
      BY <1>3, <1>7
    <3>2. receiveQueue[j + 1] = sent[Len(got) + (j + 1)]
      BY <1>1, <3>1 DEF Queued
    <3> QED BY <1>5, <1>7, <3>1, <3>2
  <2>2. Taken' <= Len(sent')
    BY <1>1, <1>5, <1>8 DEF Queued
  <2> QED BY <2>1, <2>2 DEF Queued
<1>12. InitLast'
  <2>1. ASSUME NEW k \in (Len(got') + 1)..(Len(sent') - 1), NEW p \in Inits
        PROVE  sent'[k] # Message(p)
    <3>1. k \in (Len(got) + 1)..(Len(sent) - 1)
      BY <1>3, <1>5, <1>7
    <3> QED BY <1>1, <1>5, <3>1 DEF InitLast
  <2> QED BY <2>1 DEF InitLast
<1> QED BY <1>5, <1>9, <1>10, <1>11, <1>12 DEF StreamInv

\* What was lost stays lost.
LEMMA IntactBefore ==
  ASSUME TypeOK, [Next]_vars, Intact' PROVE Intact
<1>1. /\ spoiled \in BOOLEAN /\ strange \in BOOLEAN
      /\ ~spoiled' /\ ~strange'
  BY DEF TypeOK, Intact
<1> USE DEF Intact
<1>2. ASSUME NEW p \in Packets, Send(p) PROVE Intact
  BY <1>1, <1>2 DEF Send
<1>3. CASE Arrive \/ Reenter \/ Execute
  BY <1>1, <1>3 DEF Arrive, Reenter, Execute
<1>4. CASE ReadDataStream \/ Wait \/ ReadStale \/ ReadMore
  BY <1>1, <1>4 DEF ReadDataStream, Wait, ReadStale, ReadMore
<1>5. CASE ReadHeader
  BY <1>1, <1>5 DEF ReadHeader
<1>6. CASE ReadContent
  BY <1>1, <1>6 DEF ReadContent, Announce
<1>7. CASE TestPacket
  BY <1>1, <1>7 DEF TestPacket, Announce
<1>8. CASE UNCHANGED vars
  BY <1>1, <1>8 DEF vars
<1> QED BY <1>2, <1>3, <1>4, <1>5, <1>6, <1>7, <1>8 DEF Next, Handler

LEMMA StreamStep ==
  ASSUME Clean, StreamInv, [Next]_vars, Intact' PROVE StreamInv'
<1>1. TypeOK'
  BY TypeStep DEF StreamInv
<1>2. CASE UNCHANGED vars
  <2>1. /\ UNCHANGED <<sent, net, buffer, packetVars, receiveQueue, serverVars>>
        /\ UNCHANGED <<at, outer, stale>>
    BY <1>2 DEF vars, senderVars, callVars
  <2>2. Rest' = Rest /\ Taken' = Taken
    BY <2>1 DEF Rest, Taken, serverVars
  <2>3. \E f : Framed(f)'
    BY <2>1, <2>2, FramedKept DEF StreamInv
  <2>4. InStep' /\ Queued' /\ InitLast'
    BY <2>1, <2>2 DEF StreamInv, InStep, Queued, InitLast, packetVars, serverVars
  <2> QED BY <1>1, <2>3, <2>4 DEF StreamInv
<1>3. ~ReadStale /\ ~TestPacket
  BY DEF StreamInv, InStep, ReadStale, OnStale, TestPacket
<1> QED BY <1>1, <1>2, <1>3, SendInv, ThreadInv, ReadHeaderInv,
           ReadContentInv, ExecuteInv DEF Next, Handler

-----------------------------------------------------------------------------
(* The properties: for clients that keep to Clean, and SignalCorrect for all.*)

\* As long as inner calls only wait, the unread bytes are whole packets in the
\* order of sending, after what is left of the one begun, however TCP cuts them
\* and however often Receive gives up (netpacket.cpp, Receive).
THEOREM StreamCorrect == ASSUME Clean PROVE Spec => []StreamHolds
<1>1. Init => StreamHolds
  BY InitInv, TypeInit DEF StreamHolds
<1>2. StreamHolds /\ [Next]_vars => StreamHolds'
  <2> SUFFICES ASSUME StreamHolds, [Next]_vars PROVE StreamHolds'
    OBVIOUS
  <2>1. TypeOK'
    BY TypeStep DEF StreamHolds
  <2>2. ASSUME Intact' PROVE StreamInv'
    BY <2>2, IntactBefore, StreamStep DEF StreamHolds
  <2> QED BY <2>1, <2>2 DEF StreamHolds
<1> QED BY <1>1, <1>2, PTL DEF Spec

LEMMA PrefixBytes ==
  ASSUME NEW a \in Stream, NEW b \in Stream, Len(a) <= Len(b),
         \A k \in 1..Len(a) : b[k] = a[k]
  PROVE  IsPrefix(a, b)
<1>1. Len(a) \in Nat /\ Len(b) \in Nat /\ Len(a) \in 0..Len(a) /\ Len(a) \in 0..Len(b)
  BY DEF Stream
<1>2. /\ SubSeq(a, 1, Len(a)) \in Stream /\ Len(SubSeq(a, 1, Len(a))) = Len(a)
      /\ \A k \in 1..Len(a) : SubSeq(a, 1, Len(a))[k] = a[k]
  BY <1>1, CutBytes
<1>3. /\ SubSeq(b, 1, Len(a)) \in Stream /\ Len(SubSeq(b, 1, Len(a))) = Len(a)
      /\ \A k \in 1..Len(a) : SubSeq(b, 1, Len(a))[k] = b[k]
  BY <1>1, CutBytes
<1>4. \A k \in 1..Len(a) : SubSeq(a, 1, Len(a))[k] = SubSeq(b, 1, Len(a))[k]
  BY <1>2, <1>3
<1>5. SubSeq(a, 1, Len(a)) = SubSeq(b, 1, Len(a))
  BY <1>2, <1>3, <1>4, SeqEqual DEF Stream
<1> QED BY <1>5 DEF IsPrefix

\* Wherever the bytes were cut, and as long as inner calls only wait, the unread
\* ones begin with a header when the handler expects one, and with the begun
\* packet's content otherwise.
THEOREM InSyncCorrect == ASSUME Clean PROVE Spec => []InSync
<1>1. StreamHolds => InSync
  <2> SUFFICES ASSUME StreamInv PROVE InSync
    BY DEF StreamHolds, InSync
  <2>1. PICK f : Framed(f)
    BY DEF StreamInv
  <2>2. /\ Rest \in Stream /\ sent \in Seq(Received) /\ Len(Rest) \in Nat
    BY Parts, LenProperties DEF StreamInv, Stream
  <2>3. Blocks(Rest, f, sent)
    BY <2>1 DEF Framed
  <2>4. CASE valid /\ Rest # <<>>
    <3>1. 1 \in 1..Len(Rest) /\ Rest[1][2] = 1
      BY <2>1, <2>2, <2>4, EmptySeq DEF Framed, Starts, Stream
    <3>2. PICK p \in Packets : Rest[1] = <<p, 1>>
      BY <2>2, <3>1, ByteType
    <3>3. Uncut(Rest, f, sent, p, 1)
      BY <2>2, <2>3, <2>4, <3>2, FirstBlock
    <3>4. /\ Total(p) - 1 + 1 = Total(p) /\ Total(p) \in Nat
          /\ HeaderLen \in 0..Total(p) /\ HeaderLen \in Nat
      BY TotalNat
    <3>5. Total(p) <= Len(Rest) /\ \A i \in 1..Total(p) : Rest[i] = <<p, i + 1 - 1>>
      BY <2>2, <3>3, <3>4 DEF Uncut
    <3>6. ASSUME NEW k \in 1..HeaderLen PROVE Rest[k] = Header(p)[k]
      <4>1. k \in 1..Total(p) /\ k + 1 - 1 = k
        BY <3>4
      <4> QED BY <3>5, <4>1, HeaderBytes
    <3>7. Header(p) \in Stream /\ Len(Header(p)) = HeaderLen
      BY HeaderBytes
    <3>8. IsPrefix(Header(p), Rest)
      BY <2>2, <3>4, <3>5, <3>6, <3>7, PrefixBytes
    <3> QED BY <2>4, <3>8 DEF InSync, Rest
  <2>5. CASE ~valid
    <3>1. PICK p \in Packets : /\ id = Id[p] /\ contentLen = Bytes[p]
                               /\ Continues(Rest, f, sent, Taken + 1, p)
      BY <2>1, <2>5 DEF Framed
    <3>2. /\ HeaderLen \in Nat /\ Bytes[p] \in Nat /\ Total(p) \in Nat
          /\ Total(p) = HeaderLen + Bytes[p]
          /\ Total(p) - (HeaderLen + 1) + 1 = Bytes[p]
      BY TotalNat
    <3>3. Text(p) \in Stream /\ Len(Text(p)) = Bytes[p]
      BY TextBytes
    <3>4. /\ Bytes[p] <= Len(Rest)
          /\ \A k \in 1..Bytes[p] : Rest[k] = <<p, k + (HeaderLen + 1) - 1>>
      <4>1. CASE Bytes[p] = 0
        BY <2>2, <4>1
      <4>2. CASE Bytes[p] # 0
        <5>0. HeaderLen + 1 \in Nat
          BY <3>2
        <5>1. Rest # <<>> /\ Rest[1] = <<p, HeaderLen + 1>>
          BY <3>1, <4>2 DEF Continues
        <5>2. Uncut(Rest, f, sent, p, HeaderLen + 1)
          BY <2>2, <2>3, <5>0, <5>1, FirstBlock
        <5> QED BY <2>2, <3>2, <5>2 DEF Uncut
      <4> QED BY <4>1, <4>2
    <3>5. ASSUME NEW k \in 1..Bytes[p] PROVE Rest[k] = Text(p)[k]
      <4>1. k + (HeaderLen + 1) - 1 = HeaderLen + k
        BY <3>2
      <4> QED BY <3>4, <4>1, TextBytes
    <3>6. IsPrefix(Text(p), Rest)
      BY <2>2, <3>3, <3>4, <3>5, PrefixBytes
    <3> QED BY <2>5, <3>1, <3>6 DEF InSync, Rest
  <2>6. CASE valid /\ Rest = <<>>
    BY <2>6 DEF InSync, Rest
  <2> QED BY <2>4, <2>5, <2>6
<1> QED BY <1>1, StreamCorrect, PTL

\* The queue is long enough for the signals that are posted.
SignalInv == TypeOK /\ SignalHasPacket

LEMMA AnnounceSignal ==
  ASSUME TypeOK, SignalHasPacket, NEW m, Announce(m), crashed' = crashed
  PROVE  SignalHasPacket'
<1>1. /\ receiveQueue \in Seq(Received) /\ Len(receiveQueue) \in Nat
      /\ posted \in Nat
  BY Parts DEF TypeOK
<1>2. CASE strange'
  BY <1>2 DEF SignalHasPacket
<1>3. CASE ~strange'
  <2>1. ~strange /\ receiveQueue' = Append(receiveQueue, m) /\ posted' = posted + 1
    BY <1>3 DEF Announce, Enqueue
  <2>2. Len(receiveQueue') = Len(receiveQueue) + 1
    BY <1>1, <2>1
  <2> QED BY <1>1, <2>1, <2>2 DEF SignalHasPacket
<1> QED BY <1>2, <1>3

\* Whatever is sent, cut and misread, and whatever inner calls take: every
\* PacketIsReceived() finds its packet in receive_queue, until a packet of
\* unknown id was announced (server.cpp, the head of the queue in
\* ExecuteCommand).
THEOREM SignalCorrect == Spec => []SignalHasPacket
<1>1. Init => SignalInv
  BY TypeInit, EmptySeq DEF Init, SignalInv, SignalHasPacket
<1>2. SignalInv /\ [Next]_vars => SignalInv'
  <2> SUFFICES ASSUME SignalInv, [Next]_vars PROVE SignalInv'
    OBVIOUS
  <2>0. TypeOK /\ SignalHasPacket /\ TypeOK'
    BY TypeStep DEF SignalInv
  <2>1. ASSUME receiveQueue' = receiveQueue, posted' = posted,
               crashed' = crashed, strange' = strange
        PROVE  SignalHasPacket'
    BY <2>0, <2>1 DEF SignalHasPacket
  <2>2. ASSUME NEW p \in Packets, Send(p) PROVE SignalHasPacket'
    BY <2>1, <2>2 DEF Send, serverVars
  <2>3. ASSUME Arrive \/ Reenter \/ ReadDataStream \/ Wait \/ ReadHeader
               \/ ReadStale \/ ReadMore PROVE SignalHasPacket'
    BY <2>1, <2>3 DEF Arrive, Reenter, ReadDataStream, Wait, ReadHeader,
                      ReadStale, ReadMore, serverVars
  <2>4. ASSUME ReadContent PROVE SignalHasPacket'
    BY <2>0, <2>4, AnnounceSignal DEF ReadContent
  <2>5. ASSUME TestPacket PROVE SignalHasPacket'
    BY <2>0, <2>1, <2>5, AnnounceSignal DEF TestPacket
  <2>6. ASSUME Execute PROVE SignalHasPacket'
    <3>1. /\ receiveQueue \in Seq(Received) /\ Len(receiveQueue) \in Nat
          /\ posted \in Nat
      BY <2>0, Parts DEF TypeOK
    <3>2. CASE strange
      BY <2>6, <3>2 DEF Execute, SignalHasPacket
    <3>3. CASE ~strange
      <4>1. posted <= Len(receiveQueue) /\ ~crashed /\ posted > 0
        BY <2>0, <2>6, <3>3 DEF Execute, SignalHasPacket
      <4>2. receiveQueue # <<>>
        BY <3>1, <4>1, EmptySeq
      <4>3. /\ receiveQueue' = Tail(receiveQueue) /\ posted' = posted - 1
            /\ crashed' = crashed
        BY <2>6, <4>2 DEF Execute
      <4>4. Len(receiveQueue') = Len(receiveQueue) - 1
        BY <3>1, <4>2, <4>3
      <4> QED BY <3>1, <4>1, <4>3, <4>4 DEF SignalHasPacket
    <3> QED BY <3>2, <3>3
  <2>7. ASSUME UNCHANGED vars PROVE SignalHasPacket'
    BY <2>1, <2>7 DEF vars, serverVars
  <2>8. SignalHasPacket'
    BY <2>2, <2>3, <2>4, <2>5, <2>6, <2>7 DEF Next, Handler
  <2> QED BY <2>0, <2>8 DEF SignalInv
<1>3. SignalInv => SignalHasPacket
  BY DEF SignalInv
<1> QED BY <1>1, <1>2, <1>3, PTL DEF Spec

\* The bytes carry packets as the channel does: ExecuteCommand takes the next
\* one sent, whole, until an inner call takes bytes or an id is unknown; after
\* that it still takes one packet at a time, and takes none back.
THEOREM ChannelCorrect == ASSUME Clean PROVE Spec => Channel!Spec
<1>1. Init => Channel!Init
  BY DEF Init, Channel!Init, Intact
<1>2. StreamHolds /\ [Next]_vars => [Channel!Next]_<<sent, got, ~Intact>>
  <2> SUFFICES ASSUME StreamHolds, [Next]_vars
               PROVE  Channel!Next \/ UNCHANGED <<sent, got, ~Intact>>
    OBVIOUS
  <2>0. /\ TypeOK /\ (Intact' => Intact) /\ (~Intact) \in BOOLEAN
        /\ (~Intact)' \in BOOLEAN
    BY IntactBefore DEF StreamHolds
  <2>1. ASSUME NEW p \in Packets, Send(p) PROVE Channel!Next
    <3>1. Intact' <=> Intact
      BY <2>1 DEF Send, Intact
    <3>2. Channel!Send(Message(p))
      BY <2>1, <3>1 DEF Send, serverVars, Channel!Send
    <3> QED BY <3>2 DEF Channel!Next
  <2>2. ASSUME Execute PROVE Channel!Next \/ UNCHANGED <<sent, got, ~Intact>>
    <3>0. (Intact' <=> Intact) /\ sent' = sent
      BY <2>2 DEF Execute, Intact, senderVars
    <3>1. CASE receiveQueue = <<>>
      BY <2>2, <3>0, <3>1 DEF Execute
    <3>2. CASE receiveQueue # <<>>
      <4>1. /\ receiveQueue \in Seq(Received) /\ got \in Seq(Received)
            /\ Len(got) \in Nat /\ Len(receiveQueue) \in Nat /\ Len(sent) \in Nat
        BY <2>0, Parts
      <4>2. got' = Append(got, Head(receiveQueue))
        BY <2>2, <3>2 DEF Execute
      <4>3. CASE Intact
        <5>1. 1 \in 1..Len(receiveQueue)
          BY <3>2, <4>1, EmptySeq
        <5>2. Head(receiveQueue) = sent[Len(got) + 1]
          BY <4>1, <4>3, <5>1 DEF StreamHolds, StreamInv, Queued
        <5>3. Len(got) < Len(sent)
          BY <4>1, <4>3, <5>1 DEF StreamHolds, StreamInv, Queued, Taken
        <5> QED BY <3>0, <4>2, <4>3, <5>2, <5>3 DEF Channel!Next, Channel!Deliver
      <4>4. CASE ~Intact
        <5>1. Head(receiveQueue) \in Received
          BY <3>2, <4>1
        <5>2. /\ got' \in Seq(Received) /\ Len(got') = Len(got) + 1
              /\ \A k \in 1..Len(got) : got'[k] = got[k]
          BY <4>1, <4>2, <5>1, AppendProperties
        <5>3. got = SubSeq(got', 1, Len(got))
          BY <4>1, <4>2, <5>1, <5>2, SubSeqProperties
        <5> QED BY <3>0, <4>4, <5>2, <5>3 DEF Channel!Next, Channel!Misdeliver
      <4> QED BY <4>3, <4>4
    <3> QED BY <3>1, <3>2
  <2>3. ASSUME UNCHANGED <<sent, got>>
        PROVE  Channel!Next \/ UNCHANGED <<sent, got, ~Intact>>
    <3>1. CASE Intact' <=> Intact
      BY <2>3, <3>1
    <3>2. CASE Intact /\ ~Intact'
      BY <2>3, <3>2 DEF Channel!Next, Channel!Break
    <3> QED BY <2>0, <3>1, <3>2
  <2>4. ASSUME Arrive \/ Reenter \/ Handler PROVE UNCHANGED <<sent, got>>
    BY <2>4 DEF Arrive, Reenter, Handler, ReadDataStream, Wait, ReadHeader,
                ReadContent, ReadStale, TestPacket, ReadMore, senderVars,
                serverVars
  <2>5. CASE UNCHANGED vars
    BY <2>3, <2>5 DEF vars, senderVars, serverVars
  <2> QED BY <2>1, <2>2, <2>3, <2>4, <2>5 DEF Next
<1> QED BY <1>1, <1>2, StreamCorrect, PTL DEF Spec, Channel!Spec

-----------------------------------------------------------------------------
(* Contents of packets.  What follows needs induction over the length of a  *)
(* text in places; the least number that refutes a claim takes its place.   *)

NatLess == {ss \in Nat \X Nat : ss[1] < ss[2]}

LEMMA NatLessWellFounded == IsWellFoundedOn(NatLess, Nat)
BY NatLessThanWellFounded DEF OpToRel, NatLess

\* The least number principle, in place of induction.
LEMMA SmallestNumber ==
  ASSUME NEW T \in SUBSET Nat, T # {}
  PROVE  \E x \in T : \A y \in T : x <= y
<1>1. PICK x \in T : \A y \in T : ~(<<y, x>> \in NatLess)
  BY NatLessWellFounded, WFMin
<1>2. ASSUME NEW y \in T PROVE x <= y
  <2>1. x \in Nat /\ y \in Nat /\ ~(<<y, x>> \in NatLess)
    BY <1>1
  <2>2. ~(y < x)
    BY <2>1 DEF NatLess
  <2> QED BY <2>1, <2>2
<1> QED BY <1>2

LEMMA LargestNumber ==
  ASSUME NEW n \in Nat, NEW T \in SUBSET (0..n), T # {}
  PROVE  \E x \in T : \A y \in T : y <= x
<1> DEFINE B == {m \in Nat : \A y \in T : y <= m}
<1>1. n \in B /\ B \in SUBSET Nat
  OBVIOUS
<1>2. PICK m \in B : \A k \in B : m <= k
  BY <1>1, SmallestNumber
<1>3. m \in T
  <2> SUFFICES ASSUME m \notin T PROVE FALSE
    OBVIOUS
  <2>1. \A y \in T : y \in Nat /\ m \in Nat /\ y <= m /\ y # m
    BY <1>2
  <2>2. m > 0
    <3>1. PICK y \in T : TRUE
      OBVIOUS
    <3>2. y \in Nat /\ m \in Nat /\ y <= m /\ y # m
      BY <2>1, <3>1
    <3> QED BY <3>2
  <2>3. m - 1 \in B
    BY <2>1, <2>2
  <2> QED BY <1>2, <2>2, <2>3
<1> QED BY <1>2, <1>3

-----------------------------------------------------------------------------
Symbols == {Sp} \cup Pieces \cup Numbers
Strings == Seq(Symbols)

LEMMA Concatenated ==
  ASSUME NEW u \in Strings, NEW v \in Strings
  PROVE  /\ u \o v \in Strings /\ Len(u \o v) = Len(u) + Len(v)
         /\ \A i \in 1..Len(u) : (u \o v)[i] = u[i]
         /\ \A i \in 1..Len(v) : (u \o v)[Len(u) + i] = v[i]
  BY DEF Strings

LEMMA Lengths ==
  ASSUME NEW u \in Strings
  PROVE  /\ Len(u) \in Nat /\ DOMAIN u = 1..Len(u)
         /\ u = <<>> <=> Len(u) = 0
         /\ \A i \in 1..Len(u) : u[i] \in Symbols
  BY DEF Strings

LEMMA PartOf ==
  ASSUME NEW u \in Strings, NEW a \in 1..(Len(u) + 1), NEW b \in 0..Len(u), a <= b + 1
  PROVE  /\ SubSeq(u, a, b) \in Strings
         /\ Len(SubSeq(u, a, b)) = b - a + 1
         /\ \A i \in 1..(b - a + 1) : SubSeq(u, a, b)[i] = u[a + i - 1]
<1>1. \A i \in a..b : u[i] \in Symbols
  BY DEF Strings
<1>2. a \in Int /\ b \in Int
  OBVIOUS
<1>3. /\ SubSeq(u, a, b) \in Seq(Symbols)
      /\ Len(SubSeq(u, a, b)) = IF a <= b THEN b - a + 1 ELSE 0
      /\ \A i \in 1..(b - a + 1) : SubSeq(u, a, b)[i] = u[a + i - 1]
  BY <1>1, <1>2, SubSeqProperties
<1> QED BY <1>2, <1>3 DEF Strings

LEMMA EqualStrings ==
  ASSUME NEW u \in Strings, NEW v \in Strings, Len(u) = Len(v),
         \A i \in 1..Len(u) : u[i] = v[i]
  PROVE  u = v
  BY DEF Strings

-----------------------------------------------------------------------------
Blank(t) == \A i \in 1..Len(t) : t[i] = Sp

\* The first and the last piece of t that is not white space.
Core(t, a, b) ==
  /\ a \in 1..Len(t) /\ b \in 1..Len(t)
  /\ t[a] # Sp /\ t[b] # Sp
  /\ \A i \in 1..Len(t) : t[i] # Sp => a <= i /\ i <= b

LEMMA TrimmedBlank ==
  ASSUME NEW t \in Strings, Blank(t)
  PROVE  trimmed(t) = <<>>
  BY Lengths DEF Blank, trimmed

LEMMA TrimmedCore ==
  ASSUME NEW t \in Strings, NEW a, NEW b, Core(t, a, b)
  PROVE  trimmed(t) = SubSeq(t, a, b)
<1> DEFINE inner == {i \in DOMAIN t : t[i] # Sp}
<1>1. DOMAIN t = 1..Len(t) /\ Len(t) \in Nat
  BY Lengths
<1>2. inner # {} /\ a \in inner /\ b \in inner
      /\ \A i \in inner : i \in Nat /\ a <= i /\ i <= b
  BY <1>1 DEF Core
<1>3. (CHOOSE i \in inner : \A j \in inner : i <= j) = a
  <2>1. \A i \in inner : (\A j \in inner : i <= j) <=> i = a
    BY <1>2
  <2> QED BY <1>2, <2>1
<1>4. (CHOOSE i \in inner : \A j \in inner : i >= j) = b
  <2>1. \A i \in inner : (\A j \in inner : i >= j) <=> i = b
    BY <1>2
  <2> QED BY <1>2, <2>1
<1> QED BY <1>2, <1>3, <1>4 DEF trimmed

LEMMA BlankOrCore ==
  ASSUME NEW t \in Strings
  PROVE  Blank(t) \/ \E a, b : Core(t, a, b)
<1> DEFINE inner == {i \in 1..Len(t) : t[i] # Sp}
<1> SUFFICES ASSUME ~Blank(t) PROVE \E a, b : Core(t, a, b)
  OBVIOUS
<1>1. inner # {} /\ inner \in SUBSET Nat /\ inner \in SUBSET (0..Len(t)) /\ Len(t) \in Nat
  BY Lengths DEF Blank
<1>2. PICK a \in inner : \A y \in inner : a <= y
  BY <1>1, SmallestNumber
<1>3. PICK b \in inner : \A y \in inner : y <= b
  BY <1>1, LargestNumber
<1>4. Core(t, a, b)
  BY <1>2, <1>3 DEF Core
<1> QED BY <1>4

\* White space in front of a text is trimmed.
LEMMA TrimmedBehind ==
  ASSUME NEW t \in Strings
  PROVE  trimmed(<<Sp>> \o t) = trimmed(t)
<1> DEFINE u == <<Sp>> \o t
<1>1. /\ <<Sp>> \in Strings /\ Len(<<Sp>>) = 1
      /\ u \in Strings /\ Len(t) \in Nat /\ Len(u) = Len(t) + 1
      /\ u[1] = Sp /\ \A i \in 1..Len(t) : u[i + 1] = t[i]
  <2>1. <<Sp>> \in Strings /\ Len(<<Sp>>) = 1 /\ <<Sp>>[1] = Sp
    BY DEF Strings, Symbols
  <2>2. \A i \in 1..Len(t) : 1 + i = i + 1
    BY Lengths
  <2> QED BY <2>1, <2>2, Concatenated, Lengths
<1> HIDE DEF u
<1>2. \A i \in 1..Len(u) : i = 1 \/ (i - 1 \in 1..Len(t) /\ i - 1 + 1 = i)
  BY <1>1
<1>3. CASE Blank(t)
  <2>1. Blank(u)
    BY <1>1, <1>2, <1>3 DEF Blank
  <2> QED BY <1>1, <1>3, <2>1, TrimmedBlank DEF u
<1>4. CASE ~Blank(t)
  <2>1. PICK a, b : Core(t, a, b)
    BY <1>4, BlankOrCore
  <2>2. a \in 1..Len(t) /\ b \in 1..Len(t) /\ a <= b
    BY <2>1 DEF Core
  <2>3. Core(u, a + 1, b + 1)
    <3>1. a + 1 \in 1..Len(u) /\ b + 1 \in 1..Len(u) /\ u[a + 1] # Sp /\ u[b + 1] # Sp
      BY <1>1, <2>1, <2>2 DEF Core
    <3>2. ASSUME NEW i \in 1..Len(u), u[i] # Sp PROVE a + 1 <= i /\ i <= b + 1
      <4>1. i - 1 \in 1..Len(t) /\ t[i - 1] # Sp
        BY <1>1, <1>2, <3>2
      <4>2. a <= i - 1 /\ i - 1 <= b
        BY <2>1, <4>1 DEF Core
      <4> QED BY <2>2, <4>1, <4>2
    <3> QED BY <3>1, <3>2 DEF Core
  <2>4. SubSeq(u, a + 1, b + 1) = SubSeq(t, a, b)
    <3>1. /\ a + 1 \in 1..(Len(u) + 1) /\ b + 1 \in 0..Len(u) /\ a + 1 <= b + 1 + 1
          /\ a \in 1..(Len(t) + 1) /\ b \in 0..Len(t) /\ a <= b + 1
          /\ b + 1 - (a + 1) + 1 = b - a + 1
      BY <1>1, <2>2
    <3>2. /\ SubSeq(u, a + 1, b + 1) \in Strings /\ SubSeq(t, a, b) \in Strings
          /\ Len(SubSeq(u, a + 1, b + 1)) = b - a + 1 /\ Len(SubSeq(t, a, b)) = b - a + 1
          /\ \A i \in 1..(b - a + 1) : /\ SubSeq(t, a, b)[i] = t[a + i - 1]
                                       /\ SubSeq(u, a + 1, b + 1)[i] = u[a + 1 + i - 1]
      BY <1>1, <3>1, PartOf
    <3>3. \A i \in 1..(b - a + 1) : a + i - 1 \in 1..Len(t) /\ a + 1 + i - 1 = (a + i - 1) + 1
      BY <2>2
    <3>4. \A i \in 1..(b - a + 1) : u[a + 1 + i - 1] = t[a + i - 1]
      BY <1>1, <3>3
    <3> QED BY <3>2, <3>4, EqualStrings, ZenonT(30)
  <2> QED BY <1>1, <2>1, <2>3, <2>4, TrimmedCore DEF u
<1> QED BY <1>3, <1>4

-----------------------------------------------------------------------------
\* The place of the first delimiter.
LEMMA IndexNone ==
  ASSUME NEW t \in Strings, \A i \in 1..Len(t) : t[i] # Sp
  PROVE  IndexOf(t) = 0
  BY DEF IndexOf, SelectInSeq

LEMMA IndexFirst ==
  ASSUME NEW t \in Strings, NEW i \in 1..Len(t), t[i] = Sp,
         \A j \in 1..Len(t) : j < i => t[j] # Sp
  PROVE  IndexOf(t) = i
<1> DEFINE I == {j \in 1..Len(t) : t[j] = Sp}
<1>1. i \in I /\ \A j \in I : j \in Nat /\ i \in Nat /\ i <= j
  BY Lengths
<1>2. \A k \in I : (\A j \in I : k <= j) <=> k = i
  BY <1>1
<1>3. (CHOOSE k \in I : \A j \in I : k <= j) = i
  BY <1>1, <1>2
<1>4. IndexOf(t) = IF I # {} THEN CHOOSE k \in I : \A j \in I : k <= j ELSE 0
  BY DEF IndexOf, SelectInSeq, Min
<1> QED BY <1>1, <1>3, <1>4

\* Cutting a text at its first delimiter.
LEMMA Split ==
  ASSUME NEW u \in Strings, NEW v \in Strings, \A i \in 1..Len(u) : u[i] # Sp
  PROVE  /\ SplitLeft(u \o <<Sp>> \o v) = u
         /\ SplitRight(u \o <<Sp>> \o v) = <<Sp>> \o v
         /\ IndexOf(u \o <<Sp>> \o v) = Len(u) + 1
<1> DEFINE t == u \o <<Sp>> \o v
<1>1. <<Sp>> \in Strings /\ Len(<<Sp>>) = 1 /\ <<Sp>>[1] = Sp /\ Len(u) \in Nat /\ Len(v) \in Nat
  BY Lengths DEF Strings, Symbols
<1>2. /\ u \o <<Sp>> \in Strings /\ Len(u \o <<Sp>>) = Len(u) + 1
      /\ \A i \in 1..Len(u) : (u \o <<Sp>>)[i] = u[i]
      /\ (u \o <<Sp>>)[Len(u) + 1] = Sp
  BY <1>1, Concatenated
<1>3. /\ <<Sp>> \o v \in Strings /\ Len(<<Sp>> \o v) = 1 + Len(v)
      /\ (<<Sp>> \o v)[1] = Sp
      /\ \A i \in 1..Len(v) : (<<Sp>> \o v)[1 + i] = v[i]
  BY <1>1, Concatenated
<1>4. /\ t \in Strings /\ Len(t) = Len(u) + 1 + Len(v)
      /\ \A i \in 1..Len(u) : t[i] = u[i]
      /\ t[Len(u) + 1] = Sp
      /\ \A i \in 1..Len(v) : t[Len(u) + 1 + i] = v[i]
  <2>1. /\ t \in Strings /\ Len(t) = Len(u) + 1 + Len(v)
        /\ \A i \in 1..(Len(u) + 1) : t[i] = (u \o <<Sp>>)[i]
        /\ \A i \in 1..Len(v) : t[Len(u) + 1 + i] = v[i]
    BY <1>2, Concatenated
  <2>2. Len(u) + 1 \in 1..(Len(u) + 1) /\ \A i \in 1..Len(u) : i \in 1..(Len(u) + 1)
    BY <1>1
  <2> QED BY <1>2, <2>1, <2>2
<1> HIDE DEF t
<1>5. IndexOf(t) = Len(u) + 1
  <2>1. Len(u) + 1 \in 1..Len(t)
    BY <1>1, <1>4
  <2>2. \A j \in 1..Len(t) : j < Len(u) + 1 => t[j] # Sp
    BY <1>1, <1>4
  <2> QED BY <1>4, <2>1, <2>2, IndexFirst
<1>6. SplitLeft(t) = u
  <2>1. SplitLeft(t) = SubSeq(t, 1, Len(u))
    <3>1. Len(u) + 1 - 1 = Len(u) /\ Len(u) + 1 # 0
      BY <1>1
    <3> QED BY <1>5, <3>1 DEF SplitLeft
  <2>2. 1 \in 1..(Len(t) + 1) /\ Len(u) \in 0..Len(t) /\ 1 <= Len(u) + 1
        /\ Len(u) - 1 + 1 = Len(u) /\ \A i \in 1..Len(u) : 1 + i - 1 = i
    BY <1>1, <1>4
  <2>3. /\ SubSeq(t, 1, Len(u)) \in Strings /\ Len(SubSeq(t, 1, Len(u))) = Len(u)
        /\ \A i \in 1..Len(u) : SubSeq(t, 1, Len(u))[i] = t[i]
    BY <1>4, <2>2, PartOf
  <2>4. \A i \in 1..Len(SubSeq(t, 1, Len(u))) : SubSeq(t, 1, Len(u))[i] = u[i]
    BY <1>4, <2>3
  <2>5. SubSeq(t, 1, Len(u)) = u
    BY <2>3, <2>4, EqualStrings
  <2> QED BY <2>1, <2>5
<1>7. SplitRight(t) = <<Sp>> \o v
  <2>1. SplitRight(t) = SubSeq(t, Len(u) + 1, Len(t))
    <3>1. Len(u) + 1 # 0
      BY <1>1
    <3> QED BY <1>5, <3>1 DEF SplitRight
  <2>2. Len(u) + 1 \in 1..(Len(t) + 1) /\ Len(t) \in 0..Len(t) /\ Len(u) + 1 <= Len(t) + 1
        /\ Len(t) - (Len(u) + 1) + 1 = 1 + Len(v)
    BY <1>1, <1>4
  <2>3. /\ SubSeq(t, Len(u) + 1, Len(t)) \in Strings
        /\ Len(SubSeq(t, Len(u) + 1, Len(t))) = 1 + Len(v)
        /\ \A i \in 1..(1 + Len(v)) : SubSeq(t, Len(u) + 1, Len(t))[i] = t[Len(u) + 1 + i - 1]
    BY <1>4, <2>2, PartOf
  <2>4. \A i \in 1..(1 + Len(v)) : t[Len(u) + 1 + i - 1] = (<<Sp>> \o v)[i]
    <3>1. ASSUME NEW i \in 1..(1 + Len(v)), i # 1
          PROVE  /\ i - 1 \in 1..Len(v) /\ Len(u) + 1 + i - 1 = Len(u) + 1 + (i - 1)
                 /\ 1 + (i - 1) = i
      BY <1>1, <3>1
    <3>2. Len(u) + 1 + 1 - 1 = Len(u) + 1
      BY <1>1
    <3> QED BY <1>3, <1>4, <3>1, <3>2
  <2>5. \A i \in 1..Len(SubSeq(t, Len(u) + 1, Len(t))) :
          SubSeq(t, Len(u) + 1, Len(t))[i] = (<<Sp>> \o v)[i]
    BY <2>3, <2>4
  <2>6. SubSeq(t, Len(u) + 1, Len(t)) = <<Sp>> \o v
    <3> DEFINE w == <<Sp>> \o v
               r == SubSeq(t, Len(u) + 1, Len(t))
    <3>1. w \in Strings /\ r \in Strings /\ Len(r) = Len(w)
          /\ \A i \in 1..Len(r) : r[i] = w[i]
      BY <1>3, <2>3, <2>5
    <3> HIDE DEF w, r
    <3>2. r = w
      BY <3>1, EqualStrings
    <3> QED BY <3>2 DEF r, w
  <2> QED BY <2>1, <2>6
<1> QED BY <1>5, <1>6, <1>7 DEF t

-----------------------------------------------------------------------------
\* Where the fields of t begin.
Begins(t) == {i \in DOMAIN t : t[i] # Sp /\ (i = 1 \/ t[i - 1] = Sp)}

\* The k-th of the n fields of t begins at b[k] and ends at e[k].
Cuts(t, n, b, e) ==
  /\ n \in Nat /\ b \in [1..n -> Nat] /\ e \in [1..n -> Nat]
  /\ Begins(t) = {b[k] : k \in 1..n}
  /\ \A j, k \in 1..n : j < k => b[j] < b[k]
  /\ \A k \in 1..n :
       /\ e[k] \in b[k]..Len(t)
       /\ \A i \in b[k]..e[k] : t[i] # Sp
       /\ e[k] = Len(t) \/ t[e[k] + 1] = Sp

\* Where the fields are cut determines them.
LEMMA FieldsCut ==
  ASSUME NEW t \in Strings, NEW n, NEW b, NEW e, Cuts(t, n, b, e)
  PROVE  Fields(t) = [k \in 1..n |-> SubSeq(t, b[k], e[k])]
<1> DEFINE begins == Begins(t)
           before(i) == {j \in begins : j < i}
           begin(k) == CHOOSE i \in begins : Cardinality(before(i)) = k - 1
           stop(i) == CHOOSE j \in i..Len(t) : /\ \A k \in i..j : t[k] # Sp
                                               /\ j = Len(t) \/ t[j + 1] = Sp
<1>0. /\ n \in Nat /\ b \in [1..n -> Nat] /\ e \in [1..n -> Nat]
      /\ begins = {b[k] : k \in 1..n}
      /\ \A j, k \in 1..n : j < k => b[j] < b[k]
      /\ Len(t) \in Nat
  BY Lengths DEF Cuts
<1>1. \A j, k \in 1..n : b[j] = b[k] => j = k
  BY <1>0
<1>2. ASSUME NEW k \in 1..n PROVE Cardinality(before(b[k])) = k - 1
  <2>1. before(b[k]) = {b[j] : j \in 1..(k - 1)}
    <3>1. ASSUME NEW j \in 1..n PROVE b[j] < b[k] <=> j < k
      <4>1. b[j] \in Nat /\ b[k] \in Nat /\ (j < k \/ j = k \/ k < j)
        BY <1>0
      <4> QED BY <1>0, <4>1
    <3> QED BY <1>0, <3>1
  <2>2. IsFiniteSet(1..(k - 1)) /\ Cardinality(1..(k - 1)) = k - 1
    <3>1. 1 \in Int /\ k - 1 \in Int /\ (IF 1 > k - 1 THEN 0 ELSE k - 1 - 1 + 1) = k - 1
      BY <1>0
    <3> QED BY <3>1, FS_Interval
  <2> DEFINE f == [j \in 1..(k - 1) |-> b[j]]
  <2>3. f \in Bijection(1..(k - 1), before(b[k]))
    <3>0. /\ f \in [1..(k - 1) -> before(b[k])]
          /\ \A j \in 1..(k - 1) : f[j] = b[j] /\ j \in 1..n
      BY <1>0, <2>1
    <3> HIDE DEF f, before
    <3>1. f \in Injection(1..(k - 1), before(b[k]))
      <4>1. \A i, j \in 1..(k - 1) : f[i] = f[j] => i = j
        BY <1>1, <3>0
      <4> QED BY <3>0, <4>1 DEF Injection, IsInjective
    <3>2. f \in Surjection(1..(k - 1), before(b[k]))
      <4>1. \A x \in before(b[k]) : \E j \in 1..(k - 1) : f[j] = x
        BY <2>1, <3>0
      <4> QED BY <3>0, <4>1 DEF Surjection
    <3> QED BY <3>1, <3>2 DEF Bijection
  <2>4. ExistsBijection(1..(k - 1), before(b[k]))
    BY <2>3 DEF ExistsBijection
  <2> QED BY <2>2, <2>4, FS_Bijection
<1>3. Cardinality(begins) = n
  <2>1. IsFiniteSet(1..n) /\ Cardinality(1..n) = n
    <3>1. 1 \in Int /\ n \in Int /\ (IF 1 > n THEN 0 ELSE n - 1 + 1) = n
      BY <1>0
    <3> QED BY <3>1, FS_Interval
  <2>2. b \in Bijection(1..n, begins)
    <3>1. b \in Injection(1..n, begins)
      BY <1>0, <1>1 DEF Injection, IsInjective
    <3>2. b \in Surjection(1..n, begins)
      BY <1>0 DEF Surjection
    <3> QED BY <3>1, <3>2 DEF Bijection
  <2> QED BY <2>1, <2>2, FS_Bijection DEF ExistsBijection
<1>4. ASSUME NEW k \in 1..n PROVE begin(k) = b[k]
  <2>1. b[k] \in begins /\ Cardinality(before(b[k])) = k - 1
    BY <1>0, <1>2
  <2>2. ASSUME NEW i \in begins, Cardinality(before(i)) = k - 1 PROVE i = b[k]
    <3>1. PICK j \in 1..n : i = b[j]
      BY <1>0
    <3>2. j - 1 = k - 1
      BY <1>2, <2>2, <3>1
    <3> QED BY <1>0, <3>1, <3>2
  <2> HIDE DEF before, begins
  <2> QED BY <2>1, <2>2
<1>5. ASSUME NEW k \in 1..n PROVE stop(b[k]) = e[k]
  <2>1. /\ e[k] \in b[k]..Len(t) /\ b[k] \in Nat /\ e[k] \in Nat
        /\ \A i \in b[k]..e[k] : t[i] # Sp
        /\ e[k] = Len(t) \/ t[e[k] + 1] = Sp
    BY <1>0 DEF Cuts
  <2>2. ASSUME NEW j \in b[k]..Len(t), \A i \in b[k]..j : t[i] # Sp,
               j = Len(t) \/ t[j + 1] = Sp
        PROVE  j = e[k]
    <3>1. ~(j < e[k])
      <4> SUFFICES ASSUME j < e[k] PROVE FALSE
        OBVIOUS
      <4>1. j + 1 \in b[k]..e[k] /\ j # Len(t)
        BY <1>0, <2>1
      <4> QED BY <2>1, <2>2, <4>1
    <3>2. ~(e[k] < j)
      <4> SUFFICES ASSUME e[k] < j PROVE FALSE
        OBVIOUS
      <4>1. e[k] + 1 \in b[k]..j /\ e[k] # Len(t)
        BY <1>0, <2>1
      <4> QED BY <2>1, <2>2, <4>1
    <3> QED BY <1>0, <2>1, <3>1, <3>2
  <2> QED BY <2>1, <2>2
<1>6. Fields(t) = [k \in 1..Cardinality(begins) |-> SubSeq(t, begin(k), stop(begin(k)))]
  BY DEF Fields, Begins
<1> HIDE DEF begins, begin, stop
<1> QED BY <1>3, <1>4, <1>5, <1>6

\* Every text is cut so.
LEMMA CutsExist ==
  ASSUME NEW t \in Strings
  PROVE  \E n, b, e : Cuts(t, n, b, e)
<1> DEFINE S == Begins(t)
           before(i) == {j \in S : j < i}
           n == Cardinality(S)
           c == [i \in S |-> Cardinality(before(i))]
           b == [k \in 1..n |-> CHOOSE i \in S : c[i] = k - 1]
           ends(i) == {j \in i..Len(t) : \A k \in i..j : t[k] # Sp}
           e == [k \in 1..n |-> CHOOSE j \in ends(b[k]) : \A i \in ends(b[k]) : i <= j]
<1>0. /\ Len(t) \in Nat /\ DOMAIN t = 1..Len(t)
      /\ S \in SUBSET (1..Len(t)) /\ \A i \in S : i \in Nat /\ i \in 1..Len(t) /\ t[i] # Sp
  BY Lengths DEF Begins
<1>1. /\ IsFiniteSet(S) /\ n \in Nat
      /\ \A i : IsFiniteSet(before(i)) /\ before(i) \in SUBSET S
  <2>1. IsFiniteSet(1..Len(t))
    BY <1>0, FS_Interval
  <2>2. IsFiniteSet(S)
    BY <1>0, <2>1, FS_Subset
  <2>3. \A i : before(i) \in SUBSET S
    OBVIOUS
  <2> QED BY <2>2, <2>3, FS_Subset, FS_CardinalityType
<1>2. ASSUME NEW i \in S PROVE c[i] \in 0..(n - 1)
  <2>1. c[i] = Cardinality(before(i)) /\ before(i) # S
    BY <1>0
  <2>2. Cardinality(before(i)) \in Nat /\ Cardinality(before(i)) <= n
        /\ Cardinality(before(i)) # n
    BY <1>1, <2>1, FS_Subset, FS_CardinalityType
  <2> HIDE DEF n
  <2> QED BY <1>1, <2>1, <2>2
<1>3. ASSUME NEW i \in S, NEW j \in S, i < j PROVE c[i] < c[j]
  <2>1. before(i) \in SUBSET before(j) /\ i \in before(j) /\ i \notin before(i)
    BY <1>0, <1>3
  <2>2. /\ Cardinality(before(i)) \in Nat /\ Cardinality(before(j)) \in Nat
        /\ Cardinality(before(i)) <= Cardinality(before(j))
        /\ Cardinality(before(i)) # Cardinality(before(j))
    BY <1>1, <2>1, FS_Subset, FS_CardinalityType
  <2> HIDE DEF before
  <2> QED BY <2>2
<1>4. \A k \in 1..n : \E i \in S : c[i] = k - 1
  <2>1. c \in [S -> 0..(n - 1)]
    BY <1>2
  <2>2. c \in Injection(S, 0..(n - 1))
    <3>1. \A i, j \in S : c[i] = c[j] => i = j
      <4>1. \A i, j \in S : c[i] \in Nat /\ c[j] \in Nat
        BY <1>1, <1>2
      <4> HIDE DEF c
      <4> QED BY <1>0, <1>3, <4>1
    <3> HIDE DEF c
    <3> QED BY <2>1, <3>1 DEF Injection, IsInjective
  <2>3. IsFiniteSet(0..(n - 1)) /\ Cardinality(0..(n - 1)) = n
    BY <1>1, FS_Interval
  <2>4. c \in Surjection(S, 0..(n - 1))
    BY <2>2, <2>3, FS_Injection
  <2>5. \A k \in 1..n : k - 1 \in 0..(n - 1)
    BY <1>1
  <2> HIDE DEF c, n
  <2> QED BY <2>4, <2>5 DEF Surjection
<1>5. \A k \in 1..n : b[k] \in S /\ c[b[k]] = k - 1
  BY <1>4
<1>6. S = {b[k] : k \in 1..n}
  <2>1. ASSUME NEW i \in S PROVE \E k \in 1..n : i = b[k]
    <3>1. c[i] + 1 \in 1..n /\ c[i] + 1 - 1 = c[i] /\ c[i] \in Nat
      BY <1>1, <1>2
    <3>2. b[c[i] + 1] \in S /\ c[b[c[i] + 1]] = c[i]
      <4> HIDE DEF b, c, n
      <4> QED BY <1>5, <3>1
    <3>3. ~(i < b[c[i] + 1]) /\ ~(b[c[i] + 1] < i)
      <4> HIDE DEF b, c
      <4> QED BY <1>3, <3>1, <3>2
    <3>4. i = b[c[i] + 1]
      <4> HIDE DEF b, c
      <4> QED BY <1>0, <3>2, <3>3
    <3> QED BY <3>1, <3>4
  <2> HIDE DEF b
  <2> QED BY <1>5, <2>1
<1>7. \A j, k \in 1..n : j < k => b[j] < b[k]
  <2>1. \A j, k \in 1..n : b[k] <= b[j] => k <= j
    <3>1. ASSUME NEW j \in 1..n, NEW k \in 1..n, b[k] <= b[j] PROVE k <= j
      <4>1. /\ b[j] \in S /\ b[k] \in S /\ b[j] \in Nat /\ b[k] \in Nat
            /\ c[b[j]] = j - 1 /\ c[b[k]] = k - 1
        BY <1>0, <1>5
      <4>2. b[k] = b[j] \/ b[k] < b[j]
        <5> HIDE DEF b, c
        <5> QED BY <3>1, <4>1
      <4>3. k - 1 <= j - 1
        <5> HIDE DEF b, c
        <5> QED BY <1>3, <4>1, <4>2
      <4> QED BY <1>1, <4>3
    <3> QED BY <3>1
  <2>2. \A k \in 1..n : b[k] \in Nat
    BY <1>0, <1>5
  <2> HIDE DEF b
  <2> QED BY <1>1, <2>1, <2>2
<1>8. ASSUME NEW k \in 1..n
      PROVE  /\ e[k] \in b[k]..Len(t)
             /\ \A i \in b[k]..e[k] : t[i] # Sp
             /\ e[k] = Len(t) \/ t[e[k] + 1] = Sp
  <2>1. b[k] \in 1..Len(t) /\ t[b[k]] # Sp
    BY <1>0, <1>5
  <2> HIDE DEF b
  <2>2. ends(b[k]) \in SUBSET (0..Len(t)) /\ b[k] \in ends(b[k])
    BY <1>0, <2>1
  <2>3. \E j \in ends(b[k]) : \A i \in ends(b[k]) : i <= j
    <3> HIDE DEF ends
    <3> QED BY <1>0, <2>2, LargestNumber
  <2>4. e[k] \in ends(b[k]) /\ \A i \in ends(b[k]) : i <= e[k]
    BY <2>3
  <2> HIDE DEF e
  <2>5. e[k] \in b[k]..Len(t) /\ \A i \in b[k]..e[k] : t[i] # Sp
    BY <2>4
  <2>6. ASSUME e[k] # Len(t), t[e[k] + 1] # Sp PROVE FALSE
    <3>1. e[k] + 1 \in b[k]..Len(t) /\ \A i \in b[k]..(e[k] + 1) : i \in b[k]..e[k] \/ i = e[k] + 1
      BY <1>0, <2>1, <2>5, <2>6
    <3>2. e[k] + 1 \in ends(b[k])
      BY <2>5, <2>6, <3>1
    <3>3. e[k] + 1 <= e[k] /\ e[k] \in Int
      BY <2>1, <2>4, <2>5, <3>2
    <3> QED BY <3>3
  <2> QED BY <2>5, <2>6
<1>9. b \in [1..n -> Nat] /\ e \in [1..n -> Nat]
  <2>1. \A k \in 1..n : b[k] \in Nat
    BY <1>0, <1>5
  <2>2. \A k \in 1..n : e[k] \in Nat
    <3> HIDE DEF e, b
    <3> QED BY <1>0, <1>8, <2>1
  <2> QED BY <2>1, <2>2
<1>10. Cuts(t, n, b, e)
  <2> HIDE DEF n, b, e
  <2> QED BY <1>1, <1>6, <1>7, <1>8, <1>9 DEF Cuts
<1> QED BY <1>10
\* A delimiter separates the fields before it from those behind it.
LEMMA FieldsApart ==
  ASSUME NEW p \in Strings, NEW t \in Strings, p # <<>>, p[Len(p)] = Sp
  PROVE  Fields(p \o t) = Fields(p) \o Fields(t)
<1> DEFINE u == p \o t
           l == Len(p)
<1>1. PICK n, b, e : Cuts(t, n, b, e)
  BY CutsExist
<1>2. PICK m, b0, e0 : Cuts(p, m, b0, e0)
  BY CutsExist
<1>3. /\ l \in Nat /\ l > 0 /\ DOMAIN p = 1..l /\ p[l] = Sp
      /\ Len(t) \in Nat /\ DOMAIN t = 1..Len(t)
  BY Lengths
<1>4. /\ u \in Strings /\ Len(u) = l + Len(t) /\ DOMAIN u = 1..Len(u)
      /\ \A i \in 1..l : u[i] = p[i]
      /\ \A i \in 1..Len(t) : u[l + i] = t[i]
  BY Concatenated, Lengths
<1>5. /\ n \in Nat /\ b \in [1..n -> Nat] /\ e \in [1..n -> Nat]
      /\ Begins(t) = {b[k] : k \in 1..n}
      /\ \A j, k \in 1..n : j < k => b[j] < b[k]
      /\ \A k \in 1..n :
           /\ e[k] \in b[k]..Len(t)
           /\ \A i \in b[k]..e[k] : t[i] # Sp
           /\ e[k] = Len(t) \/ t[e[k] + 1] = Sp
           /\ b[k] \in 1..Len(t)
  BY <1>1, <1>3 DEF Cuts, Begins
<1>6. /\ m \in Nat /\ b0 \in [1..m -> Nat] /\ e0 \in [1..m -> Nat]
      /\ Begins(p) = {b0[k] : k \in 1..m}
      /\ \A j, k \in 1..m : j < k => b0[j] < b0[k]
      /\ \A k \in 1..m :
           /\ e0[k] \in b0[k]..l
           /\ \A i \in b0[k]..e0[k] : p[i] # Sp
           /\ e0[k] = l \/ p[e0[k] + 1] = Sp
           /\ b0[k] \in 1..l
  BY <1>2, <1>3 DEF Cuts, Begins
<1>7. ASSUME NEW k \in 1..m
      PROVE  /\ e0[k] \in b0[k]..(l - 1) /\ p[e0[k] + 1] = Sp
             /\ b0[k] \in 1..l /\ \A i \in b0[k]..e0[k] : p[i] # Sp
  <2>1. /\ e0[k] \in b0[k]..l /\ b0[k] \in 1..l
        /\ \A i \in b0[k]..e0[k] : p[i] # Sp
        /\ e0[k] = l \/ p[e0[k] + 1] = Sp
    BY <1>6
  <2>2. e0[k] \in b0[k]..e0[k]
    BY <2>1
  <2>3. e0[k] # l
    BY <1>3, <2>1, <2>2
  <2> HIDE DEF l
  <2> QED BY <1>3, <2>1, <2>3
<1> HIDE DEF u, l
<1> DEFINE c == [k \in 1..(m + n) |-> IF k <= m THEN b0[k] ELSE l + b[k - m]]
           f == [k \in 1..(m + n) |-> IF k <= m THEN e0[k] ELSE l + e[k - m]]
<1>8. /\ \A k \in 1..m : k \in 1..(m + n) /\ c[k] = b0[k] /\ f[k] = e0[k]
      /\ \A k \in 1..n : m + k \in 1..(m + n) /\ c[m + k] = l + b[k] /\ f[m + k] = l + e[k]
      /\ \A k \in 1..(m + n) : k \in 1..m \/ (k - m \in 1..n /\ k = m + (k - m) /\ k > m)
  <2>1. \A k \in 1..m : k \in 1..(m + n) /\ k <= m
    BY <1>5, <1>6
  <2>2. \A k \in 1..n : m + k \in 1..(m + n) /\ ~(m + k <= m) /\ m + k - m = k
    BY <1>5, <1>6
  <2>3. \A k \in 1..(m + n) : k \in 1..m \/ (k - m \in 1..n /\ k = m + (k - m) /\ k > m)
    BY <1>5, <1>6
  <2>4. \A k \in 1..m : c[k] = b0[k] /\ f[k] = e0[k]
    BY <2>1
  <2>5. ASSUME NEW k \in 1..n
        PROVE  c[m + k] = l + b[k] /\ f[m + k] = l + e[k]
    <3>1. ASSUME NEW x \in 1..(m + n), ~(x <= m)
          PROVE  c[x] = l + b[x - m] /\ f[x] = l + e[x - m]
      BY <3>1
    <3> HIDE DEF c, f
    <3>2. PICK x : x = m + k
      OBVIOUS
    <3>3. x \in 1..(m + n) /\ ~(x <= m) /\ x - m = k
      BY <1>5, <1>6, <2>2, <3>2
    <3>4. c[x] = l + b[k] /\ f[x] = l + e[k]
      BY <3>1, <3>3
    <3> QED BY <3>2, <3>4
  <2> HIDE DEF c, f
  <2> QED BY <2>1, <2>2, <2>3, <2>4, <2>5
<1>9. c \in [1..(m + n) -> Nat] /\ f \in [1..(m + n) -> Nat]
  <2>1. ASSUME NEW k \in 1..(m + n) PROVE c[k] \in Nat /\ f[k] \in Nat
    <3> HIDE DEF c, f
    <3>1. CASE k \in 1..m
      BY <1>6, <1>8, <3>1
    <3>2. CASE k \notin 1..m
      <4>1. k - m \in 1..n /\ k = m + (k - m)
        BY <1>8, <3>2
      <4>2. c[k] = l + b[k - m] /\ f[k] = l + e[k - m]
        BY <1>8, <4>1
      <4>3. b[k - m] \in Nat /\ e[k - m] \in Nat
        BY <1>5, <4>1
      <4> QED BY <1>3, <4>2, <4>3
    <3> QED BY <3>1, <3>2
  <2> QED BY <2>1
<1> HIDE DEF c, f
<1>10. Begins(u) = {c[k] : k \in 1..(m + n)}
  <2>1. ASSUME NEW i \in 1..l PROVE i \in Begins(u) <=> i \in Begins(p)
    <3>1. i \in 1..Len(u) /\ u[i] = p[i] /\ (i = 1 \/ (i - 1 \in 1..l /\ u[i - 1] = p[i - 1]))
      BY <1>3, <1>4
    <3> QED BY <1>3, <1>4, <3>1 DEF Begins
  <2>2. ASSUME NEW i \in 1..Len(t) PROVE l + i \in Begins(u) <=> i \in Begins(t)
    <3>1. l + i \in 1..Len(u) /\ u[l + i] = t[i] /\ l + i # 1
      BY <1>3, <1>4
    <3>2. CASE i = 1
      <4>1. l + i - 1 = l /\ l \in 1..l
        BY <1>3, <3>2
      <4>2. u[l + i - 1] = Sp
        BY <1>3, <1>4, <4>1
      <4> QED BY <1>3, <1>4, <3>1, <3>2, <4>2 DEF Begins
    <3>3. CASE i # 1
      <4>1. i - 1 \in 1..Len(t) /\ l + i - 1 = l + (i - 1)
        BY <1>3, <3>3
      <4>2. u[l + i - 1] = t[i - 1]
        BY <1>4, <4>1
      <4> QED BY <1>3, <1>4, <3>1, <3>3, <4>2 DEF Begins
    <3> QED BY <3>2, <3>3
  <2>3. ASSUME NEW i \in Begins(u) PROVE \E k \in 1..(m + n) : i = c[k]
    <3>1. i \in 1..Len(u)
      BY <1>4 DEF Begins
    <3>2. CASE i \in 1..l
      <4>1. PICK k \in 1..m : i = b0[k]
        BY <1>6, <2>1, <3>2
      <4> QED BY <1>8, <4>1
    <3>3. CASE i \notin 1..l
      <4>1. i - l \in 1..Len(t) /\ i = l + (i - l)
        BY <1>3, <1>4, <3>1, <3>3
      <4>2. i - l \in Begins(t)
        BY <2>2, <4>1
      <4>3. PICK k \in 1..n : i - l = b[k]
        BY <1>5, <4>2
      <4> QED BY <1>8, <4>1, <4>3
    <3> QED BY <3>2, <3>3
  <2>4. ASSUME NEW k \in 1..(m + n) PROVE c[k] \in Begins(u)
    <3>1. CASE k \in 1..m
      <4>1. b0[k] \in Begins(p) /\ b0[k] \in 1..l
        BY <1>6, <3>1
      <4> QED BY <1>8, <2>1, <3>1, <4>1
    <3>2. CASE k \notin 1..m
      <4>1. k - m \in 1..n /\ k = m + (k - m)
        BY <1>8, <3>2
      <4>2. b[k - m] \in Begins(t) /\ b[k - m] \in 1..Len(t)
        BY <1>5, <4>1
      <4>3. c[k] = l + b[k - m]
        BY <1>8, <4>1
      <4> QED BY <2>2, <4>2, <4>3
    <3> QED BY <3>1, <3>2
  <2> QED BY <2>3, <2>4
<1>11. \A j, k \in 1..(m + n) : j < k => c[j] < c[k]
  <2> SUFFICES ASSUME NEW j \in 1..(m + n), NEW k \in 1..(m + n), j < k
               PROVE  c[j] < c[k]
    OBVIOUS
  <2>1. CASE k \in 1..m
    <3>1. j \in 1..m
      BY <1>6, <2>1
    <3> QED BY <1>6, <1>8, <2>1, <3>1
  <2>2. CASE k \notin 1..m
    <3>1. k - m \in 1..n /\ k = m + (k - m) /\ c[k] = l + b[k - m] /\ b[k - m] \in 1..Len(t)
      <4>1. k - m \in 1..n /\ k = m + (k - m)
        BY <1>8, <2>2
      <4> QED BY <1>5, <1>8, <4>1
    <3>2. CASE j \in 1..m
      <4>1. c[j] \in 1..l
        BY <1>6, <1>8, <3>2
      <4> QED BY <1>3, <3>1, <4>1
    <3>3. CASE j \notin 1..m
      <4>1. j - m \in 1..n /\ j = m + (j - m)
        BY <1>8, <3>3
      <4>2. c[j] = l + b[j - m] /\ b[j - m] \in 1..Len(t)
        BY <1>5, <1>8, <4>1
      <4>3. j - m < k - m
        BY <1>5, <1>6
      <4>4. b[j - m] < b[k - m]
        BY <1>5, <3>1, <4>1, <4>3
      <4> QED BY <1>3, <3>1, <4>2, <4>4
    <3> QED BY <3>2, <3>3
  <2> QED BY <2>1, <2>2
<1>12. ASSUME NEW k \in 1..(m + n)
       PROVE  /\ f[k] \in c[k]..Len(u)
              /\ \A i \in c[k]..f[k] : u[i] # Sp
              /\ f[k] = Len(u) \/ u[f[k] + 1] = Sp
  <2>1. CASE k \in 1..m
    <3>1. /\ c[k] = b0[k] /\ f[k] = e0[k] /\ e0[k] \in b0[k]..(l - 1) /\ b0[k] \in 1..l
          /\ p[e0[k] + 1] = Sp /\ \A i \in b0[k]..e0[k] : p[i] # Sp
      BY <1>7, <1>8, <2>1
    <3>2. e0[k] + 1 \in 1..l /\ \A i \in b0[k]..e0[k] : i \in 1..l
      BY <1>3, <3>1
    <3>3. e0[k] \in b0[k]..Len(u)
      BY <1>3, <1>4, <3>1
    <3>4. u[e0[k] + 1] = Sp /\ \A i \in b0[k]..e0[k] : u[i] # Sp
      BY <1>4, <3>1, <3>2
    <3> QED BY <3>1, <3>3, <3>4
  <2>2. CASE k \notin 1..m
    <3>1. k - m \in 1..n /\ k = m + (k - m)
      BY <1>8, <2>2
    <3>2. c[k] = l + b[k - m] /\ f[k] = l + e[k - m]
      BY <1>8, <3>1
    <3>3. /\ e[k - m] \in b[k - m]..Len(t) /\ b[k - m] \in 1..Len(t)
          /\ \A i \in b[k - m]..e[k - m] : t[i] # Sp
          /\ e[k - m] = Len(t) \/ t[e[k - m] + 1] = Sp
      BY <1>5, <3>1
    <3>4. f[k] \in c[k]..Len(u)
      BY <1>3, <1>4, <3>2, <3>3
    <3>5. ASSUME NEW i \in c[k]..f[k] PROVE u[i] # Sp
      <4>1. i - l \in b[k - m]..e[k - m] /\ i - l \in 1..Len(t) /\ l + (i - l) = i
        BY <1>3, <3>2, <3>3
      <4> QED BY <1>4, <3>3, <4>1
    <3>6. ASSUME f[k] # Len(u) PROVE u[f[k] + 1] = Sp
      <4>1. e[k - m] \in Nat /\ e[k - m] <= Len(t) /\ f[k] = l + e[k - m]
        BY <1>3, <3>2, <3>3
      <4>2. e[k - m] # Len(t)
        BY <1>4, <3>6, <4>1
      <4>3. e[k - m] + 1 \in 1..Len(t) /\ f[k] + 1 = l + (e[k - m] + 1)
        BY <1>3, <4>1, <4>2
      <4> QED BY <1>4, <3>3, <4>2, <4>3
    <3> QED BY <3>4, <3>5, <3>6
  <2> QED BY <2>1, <2>2
<1>13. Cuts(u, m + n, c, f)
  <2>1. m + n \in Nat
    BY <1>5, <1>6
  <2> QED BY <1>9, <1>10, <1>11, <1>12, <2>1 DEF Cuts
<1>14. /\ Fields(u) = [k \in 1..(m + n) |-> SubSeq(u, c[k], f[k])]
       /\ Fields(p) = [k \in 1..m |-> SubSeq(p, b0[k], e0[k])]
       /\ Fields(t) = [k \in 1..n |-> SubSeq(t, b[k], e[k])]
  BY <1>1, <1>2, <1>4, <1>13, FieldsCut
<1>15. \A k \in 1..m : SubSeq(u, c[k], f[k]) = SubSeq(p, b0[k], e0[k])
  <2> SUFFICES ASSUME NEW k \in 1..m
               PROVE  SubSeq(u, c[k], f[k]) = SubSeq(p, b0[k], e0[k])
    OBVIOUS
  <2>1. c[k] = b0[k] /\ f[k] = e0[k] /\ e0[k] \in b0[k]..(l - 1) /\ b0[k] \in 1..l
    BY <1>7, <1>8
  <2>2. p \in Strings /\ b0[k] \in 1..Len(p) /\ e0[k] \in 1..Len(p)
    BY <1>3, <2>1 DEF l
  <2>3. SubSeq(u, b0[k], e0[k]) = SubSeq(p, b0[k], e0[k])
    BY <2>2, SubSeqOfConcat1 DEF u, Strings
  <2> QED BY <2>1, <2>3
<1>16. \A k \in 1..n : SubSeq(u, c[m + k], f[m + k]) = SubSeq(t, b[k], e[k])
  <2> SUFFICES ASSUME NEW k \in 1..n
               PROVE  SubSeq(u, c[m + k], f[m + k]) = SubSeq(t, b[k], e[k])
    OBVIOUS
  <2>1. /\ c[m + k] = l + b[k] /\ f[m + k] = l + e[k]
        /\ e[k] \in b[k]..Len(t) /\ b[k] \in 1..Len(t)
    BY <1>5, <1>8
  <2>2. /\ l + b[k] \in (Len(p) + 1)..(Len(p) + Len(t))
        /\ l + e[k] \in (Len(p) + 1)..(Len(p) + Len(t))
        /\ l + b[k] - Len(p) = b[k] /\ l + e[k] - Len(p) = e[k]
    BY <1>3, <2>1 DEF l
  <2>3. \A i, j \in (Len(p) + 1)..(Len(p) + Len(t)) :
          SubSeq(u, i, j) = SubSeq(t, i - Len(p), j - Len(p))
    BY SubSeqOfConcat2 DEF u, Strings
  <2>4. SubSeq(u, c[m + k], f[m + k]) = SubSeq(t, b[k], e[k])
    <3>1. PICK i, j : i = c[m + k] /\ j = f[m + k]
      OBVIOUS
    <3>2. /\ i \in (Len(p) + 1)..(Len(p) + Len(t)) /\ j \in (Len(p) + 1)..(Len(p) + Len(t))
          /\ i - Len(p) = b[k] /\ j - Len(p) = e[k]
      BY <1>3, <2>1, <2>2, <3>1, SMTT(20) DEF l
    <3>3. SubSeq(u, i, j) = SubSeq(t, b[k], e[k])
      BY <2>3, <3>2
    <3> QED BY <3>1, <3>3
  <2> QED BY <2>4
<1>17. /\ Fields(p) \in Seq(Strings) /\ Len(Fields(p)) = m
       /\ \A k \in 1..m : Fields(p)[k] = SubSeq(p, b0[k], e0[k])
  <2>1. \A k \in 1..m : SubSeq(p, b0[k], e0[k]) \in Strings
    <3>1. \A k \in 1..m : /\ b0[k] \in 1..(Len(p) + 1) /\ e0[k] \in 0..Len(p)
                          /\ b0[k] <= e0[k] + 1
      BY <1>3, <1>7 DEF l
    <3> QED BY <3>1, PartOf
  <2>2. Fields(p) = [k \in 1..m |-> SubSeq(p, b0[k], e0[k])] /\ m \in Nat
    BY <1>6, <1>14
  <2> DEFINE h == [k \in 1..m |-> SubSeq(p, b0[k], e0[k])]
  <2>3. h \in [1..m -> Strings] /\ \A k \in 1..m : h[k] = SubSeq(p, b0[k], e0[k])
    BY <2>1
  <2>4. Fields(p) = h /\ m \in Nat
    BY <2>2
  <2> HIDE DEF h
  <2> QED BY <2>3, <2>4
<1>18. /\ Fields(t) \in Seq(Strings) /\ Len(Fields(t)) = n
       /\ \A k \in 1..n : Fields(t)[k] = SubSeq(t, b[k], e[k])
  <2>1. \A k \in 1..n : SubSeq(t, b[k], e[k]) \in Strings
    <3>1. \A k \in 1..n : /\ b[k] \in 1..(Len(t) + 1) /\ e[k] \in 0..Len(t)
                          /\ b[k] <= e[k] + 1
      BY <1>3, <1>5
    <3> QED BY <3>1, PartOf
  <2> QED BY <1>5, <1>14, <2>1, SMTT(20)
<1> DEFINE g == Fields(p) \o Fields(t)
<1>19. /\ g \in Seq(Strings) /\ Len(g) = m + n
       /\ \A k \in 1..m : g[k] = Fields(p)[k]
       /\ \A k \in 1..n : g[m + k] = Fields(t)[k]
  <2>1. \A v, w \in Seq(Strings) :
          /\ v \o w \in Seq(Strings) /\ Len(v \o w) = Len(v) + Len(w)
          /\ \A k \in 1..Len(v) : (v \o w)[k] = v[k]
          /\ \A k \in 1..Len(w) : (v \o w)[Len(v) + k] = w[k]
    OBVIOUS
  <2> QED BY <1>17, <1>18, <2>1
<1>20. \A k \in 1..(m + n) : SubSeq(u, c[k], f[k]) = g[k] /\ g[k] \in Strings
  <2> HIDE DEF g
  <2> SUFFICES ASSUME NEW k \in 1..(m + n) PROVE SubSeq(u, c[k], f[k]) = g[k]
    BY <1>5, <1>6, <1>19
  <2>1. CASE k \in 1..m
    BY <1>15, <1>17, <1>19, <2>1
  <2>2. CASE k \notin 1..m
    <3>1. k - m \in 1..n /\ k = m + (k - m)
      BY <1>8, <2>2
    <3>2. SubSeq(u, c[m + (k - m)], f[m + (k - m)]) = g[m + (k - m)]
      BY <1>16, <1>18, <1>19, <3>1
    <3> QED BY <3>1, <3>2
  <2> QED BY <2>1, <2>2
<1>21. Fields(u) = g
  <2> HIDE DEF g
  <2>1. Fields(u) \in Seq(Strings) /\ Len(Fields(u)) = m + n
        /\ \A k \in 1..(m + n) : Fields(u)[k] = g[k]
    <3> DEFINE h == [k \in 1..(m + n) |-> SubSeq(u, c[k], f[k])]
    <3>1. h \in [1..(m + n) -> Strings] /\ \A k \in 1..(m + n) : h[k] = g[k]
      BY <1>20
    <3>2. m + n \in Nat /\ Fields(u) = h
      BY <1>5, <1>6, <1>14
    <3> HIDE DEF h
    <3> QED BY <3>1, <3>2
  <2> QED BY <1>19, <2>1, SeqEqual
<1> QED BY <1>21 DEF u

-----------------------------------------------------------------------------
\* Pieces of text with no delimiter in them.
Words == {w \in Strings : w # <<>> /\ \A i \in 1..Len(w) : w[i] # Sp}

\* A word is its own only field.
LEMMA FieldsWord ==
  ASSUME NEW w \in Words
  PROVE  Fields(w) = <<w>>
<1>1. /\ w \in Strings /\ Len(w) \in Nat /\ Len(w) > 0 /\ DOMAIN w = 1..Len(w)
      /\ \A i \in 1..Len(w) : w[i] # Sp
  BY Lengths DEF Words
<1> DEFINE b == [k \in 1..1 |-> 1]
           e == [k \in 1..1 |-> Len(w)]
<1>2. Begins(w) = {1}
  <2>1. \A i \in 1..Len(w) : i = 1 \/ i - 1 \in 1..Len(w)
    BY <1>1
  <2>2. 1 \in 1..Len(w)
    BY <1>1
  <2> QED BY <1>1, <2>1, <2>2 DEF Begins
<1>3. Cuts(w, 1, b, e)
  <2>1. b \in [1..1 -> Nat] /\ e \in [1..1 -> Nat] /\ 1 \in Nat
        /\ \A k \in 1..1 : b[k] = 1 /\ e[k] = Len(w)
        /\ 1 \in 1..1
    BY <1>1
  <2> HIDE DEF b, e
  <2>2. Begins(w) = {b[k] : k \in 1..1}
    BY <1>2, <2>1
  <2>3. \A x, k \in 1..1 : ~(x < k)
    OBVIOUS
  <2>4. \A k \in 1..1 : /\ e[k] \in b[k]..Len(w)
                        /\ \A i \in b[k]..e[k] : w[i] # Sp
                        /\ e[k] = Len(w) \/ w[e[k] + 1] = Sp
    BY <1>1, <2>1
  <2> QED BY <2>1, <2>2, <2>3, <2>4 DEF Cuts
<1>4. Fields(w) = [k \in 1..1 |-> SubSeq(w, b[k], e[k])]
  <2> HIDE DEF b, e
  <2>1. PICK n : n = 1
    OBVIOUS
  <2>2. Cuts(w, n, b, e)
    BY <1>3, <2>1
  <2>3. Fields(w) = [k \in 1..n |-> SubSeq(w, b[k], e[k])]
    BY <1>1, <2>2, FieldsCut
  <2> QED BY <2>1, <2>3
<1>5. SubSeq(w, 1, Len(w)) = w
  BY <1>1, SubSeqFull DEF Strings
<1> QED BY <1>4, <1>5

\* Texts without fields.
LEMMA FieldsNone == Fields(<<>>) = <<>> /\ Fields(<<Sp>>) = <<>>
<1>1. ASSUME NEW v \in {<<>>, <<Sp>>} PROVE Fields(v) = <<>>
  <2>1. v \in Strings /\ \A i \in DOMAIN v : v[i] = Sp
    <3>1. CASE v = <<>>
      BY <3>1 DEF Strings
    <3>2. CASE v = <<Sp>>
      BY <3>2 DEF Strings, Symbols
    <3> QED BY <3>1, <3>2
  <2>2. Begins(v) = {}
    BY <2>1 DEF Begins
  <2>3. Cuts(v, 0, <<>>, <<>>)
    BY <2>2 DEF Cuts
  <2>4. Fields(v) = [k \in 1..0 |-> SubSeq(v, <<>>[k], <<>>[k])]
    BY <2>1, <2>3, FieldsCut
  <2> QED BY <2>4
<1> QED BY <1>1

\* A delimiter behind a text is no field.
LEMMA FieldsBefore ==
  ASSUME NEW t \in Strings
  PROVE  Fields(t \o <<Sp>>) = Fields(t)
<1> DEFINE u == t \o <<Sp>>
<1>1. PICK n, b, e : Cuts(t, n, b, e)
  BY CutsExist
<1>2. /\ u \in Strings /\ Len(t) \in Nat /\ Len(u) = Len(t) + 1
      /\ DOMAIN u = 1..Len(u) /\ DOMAIN t = 1..Len(t)
      /\ u[Len(t) + 1] = Sp /\ \A i \in 1..Len(t) : u[i] = t[i]
  <2>1. <<Sp>> \in Strings /\ Len(<<Sp>>) = 1 /\ <<Sp>>[1] = Sp /\ 1 \in 1..1
    BY DEF Strings, Symbols
  <2> QED BY <2>1, Concatenated, Lengths
<1> HIDE DEF u
<1>3. /\ n \in Nat /\ b \in [1..n -> Nat] /\ e \in [1..n -> Nat]
      /\ Begins(t) = {b[k] : k \in 1..n}
      /\ \A i, k \in 1..n : i < k => b[i] < b[k]
      /\ \A k \in 1..n :
           /\ e[k] \in b[k]..Len(t)
           /\ \A i \in b[k]..e[k] : t[i] # Sp
           /\ e[k] = Len(t) \/ t[e[k] + 1] = Sp
           /\ b[k] \in 1..Len(t)
  BY <1>1, <1>2 DEF Cuts, Begins
<1>4. Begins(u) = Begins(t)
  <2>1. ASSUME NEW i \in 1..Len(t) PROVE i \in Begins(u) <=> i \in Begins(t)
    <3>1. i \in 1..Len(u) /\ u[i] = t[i] /\ (i = 1 \/ (i - 1 \in 1..Len(t) /\ u[i - 1] = t[i - 1]))
      BY <1>2
    <3> QED BY <1>2, <3>1 DEF Begins
  <2>2. \A i \in 1..Len(u) : i \in 1..Len(t) \/ i = Len(t) + 1
    BY <1>2
  <2> QED BY <1>2, <2>1, <2>2 DEF Begins
<1>5. Cuts(u, n, b, e)
  <2>1. ASSUME NEW k \in 1..n
        PROVE  /\ e[k] \in b[k]..Len(u)
               /\ \A i \in b[k]..e[k] : u[i] # Sp
               /\ e[k] = Len(u) \/ u[e[k] + 1] = Sp
    <3>1. /\ e[k] \in b[k]..Len(t) /\ b[k] \in 1..Len(t)
          /\ \A i \in b[k]..e[k] : t[i] # Sp
          /\ e[k] = Len(t) \/ t[e[k] + 1] = Sp
      BY <1>3
    <3>2. \A i \in b[k]..e[k] : i \in 1..Len(t)
      BY <1>2, <3>1
    <3>3. e[k] = Len(t) \/ e[k] + 1 \in 1..Len(t)
      BY <1>2, <3>1
    <3>4. e[k] \in b[k]..Len(u)
      BY <1>2, <3>1
    <3> QED BY <1>2, <3>1, <3>2, <3>3, <3>4
  <2> QED BY <1>3, <1>4, <2>1 DEF Cuts
<1>6. Fields(u) = [k \in 1..n |-> SubSeq(u, b[k], e[k])]
      /\ Fields(t) = [k \in 1..n |-> SubSeq(t, b[k], e[k])]
  BY <1>1, <1>2, <1>5, FieldsCut
<1>7. ASSUME NEW k \in 1..n PROVE SubSeq(u, b[k], e[k]) = SubSeq(t, b[k], e[k])
  <2>1. b[k] \in 1..Len(t) /\ e[k] \in 1..Len(t) /\ <<Sp>> \in Strings
    BY <1>2, <1>3 DEF Strings, Symbols
  <2> QED BY <2>1, SubSeqOfConcat1 DEF u, Strings
<1> QED BY <1>6, <1>7 DEF u

-----------------------------------------------------------------------------
(* Joining texts, by the fold of Join.                                     *)

Glue(t, f) == IF t = <<>> THEN f ELSE t \o <<Sp>> \o f

\* One unfolding of the function that the fold over the set D of indices defines.
Joined(g, fs, D) ==
  [s \in SUBSET D |-> IF s = {} THEN <<>> ELSE Glue(g[s \ {Max(s)}], fs[Max(s)])]

LEMMA JoinUnfolded ==
  ASSUME NEW fs
  PROVE  Join(fs) = (CHOOSE g : g = Joined(g, fs, DOMAIN fs))[DOMAIN fs]
  BY DEF Join, FoldLeft, MapThenFoldSet, Joined, Glue

LEMMA MaxLast ==
  ASSUME NEW k \in Nat, NEW s \in SUBSET (1..k), k \in s
  PROVE  Max(s) = k
<1>1. \A x \in s : (\A y \in s : x >= y) <=> x = k
  OBVIOUS
<1> QED BY <1>1 DEF Max

LEMMA JoinedExists ==
  ASSUME NEW fs, NEW n \in Nat
  PROVE  \E g : g = Joined(g, fs, 1..n)
<1> DEFINE T == {k \in Nat : ~\E g : g = Joined(g, fs, 1..k)}
<1> SUFFICES ASSUME T # {} PROVE FALSE
  OBVIOUS
<1>1. PICK k \in T : \A y \in T : k <= y
  BY SmallestNumber
<1>2. k \in Nat /\ ~\E g : g = Joined(g, fs, 1..k)
  OBVIOUS
<1>3. k # 0
  <2> SUFFICES ASSUME k = 0 PROVE FALSE
    OBVIOUS
  <2> DEFINE g == [s \in SUBSET (1..k) |-> <<>>]
  <2>1. \A s \in SUBSET (1..k) : s = {}
    OBVIOUS
  <2>2. g = Joined(g, fs, 1..k)
    BY <2>1 DEF Joined
  <2> QED BY <1>2, <2>2
<1>4. k - 1 \in Nat /\ ~(k <= k - 1)
  BY <1>2, <1>3
<1>5. PICK g : g = Joined(g, fs, 1..(k - 1))
  BY <1>1, <1>4
<1> DEFINE h == [s \in SUBSET (1..k) |->
                   IF k \in s THEN Glue(g[s \ {k}], fs[k]) ELSE g[s]]
<1>6. \A s \in SUBSET (1..k) : k \notin s => s \in SUBSET (1..(k - 1))
  BY <1>2
<1>7. ASSUME NEW s \in SUBSET (1..k), s # {}
      PROVE  h[s] = Glue(h[s \ {Max(s)}], fs[Max(s)])
  <2>1. CASE k \in s
    <3>1. Max(s) = k
      BY <1>2, <2>1, MaxLast
    <3>2. h[s] = Glue(g[s \ {k}], fs[k])
      BY <2>1
    <3>3. s \ {k} \in SUBSET (1..k) /\ k \notin s \ {k}
      OBVIOUS
    <3>4. h[s \ {k}] = g[s \ {k}]
      BY <3>3
    <3> HIDE DEF h
    <3> QED BY <3>1, <3>2, <3>4
  <2>2. CASE k \notin s
    <3>1. s \in SUBSET (1..(k - 1))
      BY <1>6, <2>2
    <3>2. h[s] = g[s] /\ h[s \ {Max(s)}] = g[s \ {Max(s)}]
      <4>1. s \ {Max(s)} \in SUBSET (1..k) /\ k \notin s \ {Max(s)}
        BY <2>2
      <4> QED BY <2>2, <4>1
    <3>3. g[s] = Glue(g[s \ {Max(s)}], fs[Max(s)])
      BY <1>5, <1>7, <3>1 DEF Joined
    <3> HIDE DEF h
    <3> QED BY <3>2, <3>3
  <2> QED BY <2>1, <2>2
<1>8. h[{}] = <<>>
  <2>1. g[{}] = <<>>
    BY <1>5 DEF Joined
  <2> QED BY <2>1
<1>9. h = Joined(h, fs, 1..k)
  <2> DEFINE r == Joined(h, fs, 1..k)
  <2>1. \A s \in SUBSET (1..k) : r[s] = h[s]
    <3> HIDE DEF h
    <3> QED BY <1>7, <1>8 DEF Joined
  <2>2. r = [s \in SUBSET (1..k) |-> r[s]] /\ h = [s \in SUBSET (1..k) |-> h[s]]
    BY DEF Joined
  <2> HIDE DEF r, h
  <2>3. r = h
    BY <2>1, <2>2
  <2> QED BY <2>3 DEF r
<1> QED BY <1>2, <1>9

\* The texts are joined one after the other.
LEMMA JoinSteps ==
  ASSUME NEW S, NEW fs \in Seq(S)
  PROVE  \E j : /\ j[0] = <<>>
                /\ \A k \in 1..Len(fs) : j[k] = Glue(j[k - 1], fs[k])
                /\ Join(fs) = j[Len(fs)]
<1>0. Len(fs) \in Nat /\ DOMAIN fs = 1..Len(fs)
  OBVIOUS
<1> DEFINE g == CHOOSE g : g = Joined(g, fs, DOMAIN fs)
           j == [k \in 0..Len(fs) |-> g[1..k]]
<1>1. g = Joined(g, fs, 1..Len(fs))
  BY <1>0, JoinedExists
<1>2. Join(fs) = g[1..Len(fs)]
  BY <1>0, JoinUnfolded
<1> HIDE DEF g
<1>3. j[0] = <<>>
  <2>1. 1..0 = {}
    OBVIOUS
  <2>2. g[{}] = <<>>
    BY <1>1 DEF Joined
  <2> QED BY <1>0, <2>1, <2>2
<1>4. ASSUME NEW k \in 1..Len(fs) PROVE j[k] = Glue(j[k - 1], fs[k])
  <2>1. 1..k \in SUBSET (1..Len(fs)) /\ 1..k # {} /\ k \in Nat /\ k \in 1..k
    <3>1. k \in Nat /\ k \in 1..k
      BY <1>0
    <3>2. \A x \in 1..k : x \in 1..Len(fs)
      BY <1>0, <3>1
    <3> QED BY <3>1, <3>2
  <2>2. (1..k) \ {k} = 1..(k - 1)
    <3>1. k \in Nat /\ k > 0
      BY <1>0
    <3>2. \A x \in Int : (x >= 1 /\ x <= k /\ x # k) <=> (x >= 1 /\ x <= k - 1)
      BY <3>1
    <3>3. \A x \in (1..k) \ {k} : x \in 1..(k - 1)
      BY <3>1, <3>2
    <3>4. \A x \in 1..(k - 1) : x \in (1..k) \ {k}
      BY <3>1, <3>2
    <3> QED BY <3>3, <3>4
  <2>3. Max(1..k) = k
    BY <2>1, MaxLast
  <2>4. g[1..k] = Glue(g[(1..k) \ {Max(1..k)}], fs[Max(1..k)])
    BY <1>1, <2>1 DEF Joined
  <2>5. j[k] = g[1..k] /\ j[k - 1] = g[1..(k - 1)]
    <3>1. k \in 0..Len(fs) /\ k - 1 \in 0..Len(fs)
      BY <1>0
    <3> QED BY <3>1
  <2> HIDE DEF j
  <2> QED BY <2>2, <2>3, <2>4, <2>5
<1>5. Join(fs) = j[Len(fs)]
  BY <1>0, <1>2
<1> QED BY <1>3, <1>4, <1>5

\* Fields are words.
LEMMA FieldsType ==
  ASSUME NEW t \in Strings
  PROVE  Fields(t) \in Seq(Words)
<1>1. PICK n, b, e : Cuts(t, n, b, e)
  BY CutsExist
<1>2. n \in Nat
  BY <1>1 DEF Cuts
<1>2a. Fields(t) = [k \in 1..n |-> SubSeq(t, b[k], e[k])]
  BY <1>1, FieldsCut
<1>3. ASSUME NEW k \in 1..n PROVE SubSeq(t, b[k], e[k]) \in Words
  <2>1. /\ b[k] \in Begins(t) /\ b[k] \in Nat /\ e[k] \in b[k]..Len(t)
        /\ \A i \in b[k]..e[k] : t[i] # Sp
    BY <1>1 DEF Cuts
  <2>2. b[k] \in 1..Len(t) /\ Len(t) \in Nat
    BY <2>1, Lengths DEF Begins
  <2> DEFINE w == SubSeq(t, b[k], e[k])
  <2>3. /\ b[k] \in 1..(Len(t) + 1) /\ e[k] \in 0..Len(t) /\ b[k] <= e[k] + 1
        /\ e[k] - b[k] + 1 > 0 /\ e[k] \in Nat
    BY <2>1, <2>2
  <2>4. /\ w \in Strings /\ Len(w) = e[k] - b[k] + 1
        /\ \A i \in 1..(e[k] - b[k] + 1) : w[i] = t[b[k] + i - 1]
    BY <2>3, PartOf
  <2>5. \A i \in 1..(e[k] - b[k] + 1) : b[k] + i - 1 \in b[k]..e[k]
    BY <2>2, <2>3
  <2> HIDE DEF w
  <2>6. w # <<>>
    BY <2>3, <2>4, Lengths
  <2>7. \A i \in 1..Len(w) : w[i] # Sp
    BY <2>1, <2>4, <2>5
  <2>8. w \in Words
    BY <2>4, <2>6, <2>7 DEF Words
  <2> QED BY <2>8 DEF w
<1> QED BY <1>2, <1>2a, <1>3

\* Joined texts are texts.
LEMMA JoinType ==
  ASSUME NEW fs \in Seq(Strings)
  PROVE  Join(fs) \in Strings
<1>1. PICK j : /\ j[0] = <<>>
               /\ \A k \in 1..Len(fs) : j[k] = Glue(j[k - 1], fs[k])
               /\ Join(fs) = j[Len(fs)]
  BY JoinSteps
<1> DEFINE T == {k \in Nat : k <= Len(fs) /\ j[k] \notin Strings}
<1>2. Len(fs) \in Nat /\ <<>> \in Strings /\ <<Sp>> \in Strings
      /\ \A k \in 1..Len(fs) : fs[k] \in Strings
  BY DEF Strings, Symbols
<1>3. T = {}
  <2> SUFFICES ASSUME T # {} PROVE FALSE
    OBVIOUS
  <2>1. PICK k \in T : \A y \in T : k <= y
    BY SmallestNumber
  <2>2. k \in Nat /\ k # 0 /\ k <= Len(fs) /\ j[k] \notin Strings
    BY <1>1, <1>2
  <2>3. k - 1 \in Nat /\ k - 1 <= Len(fs) /\ ~(k <= k - 1) /\ k \in 1..Len(fs)
    BY <1>2, <2>2
  <2>4. j[k - 1] \in Strings
    BY <2>1, <2>3
  <2>5. j[k] = Glue(j[k - 1], fs[k]) /\ fs[k] \in Strings
    BY <1>1, <1>2, <2>3
  <2>6. j[k - 1] \o <<Sp>> \o fs[k] \in Strings
    BY <1>2, <2>4, <2>5, Concatenated
  <2> QED BY <2>2, <2>5, <2>6 DEF Glue
<1> QED BY <1>1, <1>2, <1>3

\* What has become of the first k words.
WordsJoined(t, fs, k) ==
  /\ t \in Strings /\ Len(t) > 0
  /\ t[1] # Sp /\ t[Len(t)] # Sp
  /\ Fields(t) = SubSeq(fs, 1, k)
  /\ k > 1 => Len(t) > 1

\* One more word.
LEMMA JoinWord ==
  ASSUME NEW fs \in Seq(Words), NEW k \in 2..Len(fs), NEW t, WordsJoined(t, fs, k - 1)
  PROVE  WordsJoined(Glue(t, fs[k]), fs, k)
<1> DEFINE w == fs[k]
           s == t \o <<Sp>>
           u == s \o w
<1>1. /\ w \in Words /\ w \in Strings /\ Len(w) \in Nat /\ Len(w) > 0
      /\ \A i \in 1..Len(w) : w[i] # Sp
      /\ Len(fs) \in Nat /\ k \in 1..Len(fs) /\ k \in Nat
  <2>1. w \in Words /\ Len(fs) \in Nat /\ k \in 1..Len(fs) /\ k \in Nat
    OBVIOUS
  <2> HIDE DEF w
  <2>2. w \in Strings /\ w # <<>> /\ \A i \in 1..Len(w) : w[i] # Sp
    BY <2>1 DEF Words
  <2> QED BY <2>1, <2>2, Lengths
<1>2. /\ t \in Strings /\ Len(t) \in Nat /\ Len(t) > 0 /\ t[1] # Sp
      /\ t # <<>> /\ Fields(t) = SubSeq(fs, 1, k - 1)
  BY Lengths DEF WordsJoined
<1>3. /\ s \in Strings /\ Len(s) = Len(t) + 1 /\ s[1] = t[1] /\ s[Len(s)] = Sp
      /\ s # <<>>
  <2>1. <<Sp>> \in Strings /\ Len(<<Sp>>) = 1 /\ <<Sp>>[1] = Sp /\ 1 \in 1..1
        /\ 1 \in 1..Len(t)
    BY <1>2 DEF Strings, Symbols
  <2>2. /\ s \in Strings /\ Len(s) = Len(t) + 1 /\ s[1] = t[1] /\ s[Len(t) + 1] = Sp
    BY <1>2, <2>1, Concatenated
  <2> HIDE DEF s
  <2> QED BY <1>2, <2>2, Lengths
<1> HIDE DEF w, s
<1>4. /\ u \in Strings /\ Len(u) = Len(s) + Len(w) /\ u[1] = s[1]
      /\ u[Len(s) + Len(w)] = w[Len(w)]
  <2>1. 1 \in 1..Len(s) /\ Len(w) \in 1..Len(w)
    BY <1>1, <1>2, <1>3
  <2> QED BY <1>1, <1>3, <2>1, Concatenated
<1>5. Fields(u) = SubSeq(fs, 1, k)
  <2>1. Fields(u) = Fields(s) \o Fields(w)
    BY <1>1, <1>3, FieldsApart
  <2>2. Fields(s) = Fields(t)
    BY <1>2, FieldsBefore DEF s
  <2>3. Fields(w) = <<w>>
    BY <1>1, FieldsWord
  <2>4. SubSeq(fs, 1, k) = SubSeq(fs, 1, k - 1) \o <<fs[k]>>
    <3>1. 1 \in 1..Len(fs) /\ k \in 1..Len(fs)
      BY <1>1
    <3> QED BY <3>1, SubSeqRecursiveSecond
  <2> QED BY <1>2, <2>1, <2>2, <2>3, <2>4 DEF w
<1>6. Glue(t, fs[k]) = u
  BY <1>2 DEF Glue, s, w
<1> HIDE DEF u
<1>7. Len(u) > 1 /\ u[1] # Sp /\ u[Len(u)] # Sp
  <2>1. Len(w) \in 1..Len(w)
    BY <1>1
  <2> QED BY <1>1, <1>2, <1>3, <1>4, <2>1
<1>8. WordsJoined(u, fs, k)
  BY <1>4, <1>5, <1>7 DEF WordsJoined
<1> QED BY <1>6, <1>8

\* Words that are joined are the fields of what comes out.
LEMMA JoinWords ==
  ASSUME NEW fs \in Seq(Words), fs # <<>>
  PROVE  /\ WordsJoined(Join(fs), fs, Len(fs))
         /\ Fields(Join(fs)) = fs
         /\ Len(fs) = 1 => Join(fs) = fs[1]
<1>0. Len(fs) \in Nat /\ Len(fs) > 0 /\ \A k \in 1..Len(fs) : fs[k] \in Words
  OBVIOUS
<1>1. PICK j : /\ j[0] = <<>>
               /\ \A k \in 1..Len(fs) : j[k] = Glue(j[k - 1], fs[k])
               /\ Join(fs) = j[Len(fs)]
  BY JoinSteps
<1>2. j[1] = fs[1]
  BY <1>0, <1>1 DEF Glue
<1>3. WordsJoined(j[1], fs, 1)
  <2> DEFINE w == fs[1]
  <2>1. w \in Words
    BY <1>0
  <2>1a. SubSeq(fs, 1, 1) = <<w>>
    <3>1. 1 \in Int /\ 1 <= 1 /\ 1 - 1 + 1 = 1
      OBVIOUS
    <3>2. \A i \in 1..1 : fs[i] \in Words
      BY <1>0
    <3>3. /\ SubSeq(fs, 1, 1) \in Seq(Words) /\ Len(SubSeq(fs, 1, 1)) = 1
          /\ \A i \in 1..1 : SubSeq(fs, 1, 1)[i] = fs[1 + i - 1]
      BY <3>1, <3>2, SubSeqProperties
    <3>4. SubSeq(fs, 1, 1)[1] = w
      BY <3>3
    <3> HIDE DEF w
    <3>5. \A q \in Seq(Words) : Len(q) = 1 /\ q[1] = w => q = <<w>>
      OBVIOUS
    <3> QED BY <3>3, <3>4, <3>5
  <2> HIDE DEF w
  <2>2. w \in Strings /\ w # <<>> /\ \A i \in 1..Len(w) : w[i] # Sp
    BY <2>1 DEF Words
  <2>3. Len(w) \in Nat /\ Len(w) > 0
    BY <2>2, Lengths
  <2>4. 1 \in 1..Len(w) /\ Len(w) \in 1..Len(w)
    BY <2>3
  <2>4a. w[1] # Sp /\ w[Len(w)] # Sp
    BY <2>2, <2>4
  <2>4b. Fields(w) = <<w>>
    BY <2>1, FieldsWord
  <2>4c. ~(1 > 1)
    OBVIOUS
  <2>5. WordsJoined(w, fs, 1)
    BY <2>1a, <2>2, <2>3, <2>4a, <2>4b, <2>4c DEF WordsJoined
  <2> QED BY <1>2, <2>5 DEF w
<1> DEFINE T == {k \in Nat : k >= 1 /\ k <= Len(fs) /\ ~WordsJoined(j[k], fs, k)}
<1>4. T = {}
  <2> SUFFICES ASSUME T # {} PROVE FALSE
    OBVIOUS
  <2>1. PICK k \in T : \A y \in T : k <= y
    BY SmallestNumber
  <2>2. k \in Nat /\ k # 1 /\ k >= 1 /\ k <= Len(fs) /\ ~WordsJoined(j[k], fs, k)
    BY <1>3
  <2>3. k - 1 \in Nat /\ k - 1 >= 1 /\ k - 1 <= Len(fs) /\ ~(k <= k - 1) /\ k \in 2..Len(fs)
        /\ k \in 1..Len(fs)
    BY <1>0, <2>2
  <2>4. WordsJoined(j[k - 1], fs, k - 1)
    BY <2>1, <2>3
  <2>5. WordsJoined(Glue(j[k - 1], fs[k]), fs, k)
    BY <2>3, <2>4, JoinWord
  <2> QED BY <1>1, <2>2, <2>3, <2>5
<1>5. WordsJoined(Join(fs), fs, Len(fs))
  BY <1>0, <1>1, <1>4
<1>6. Fields(Join(fs)) = fs
  BY <1>5, SubSeqFull DEF WordsJoined
<1> QED BY <1>1, <1>2, <1>5, <1>6

\* What the assumption says of symbols and texts.
LEMMA ConstantTypes ==
  /\ Numbers \subseteq Symbols /\ Sp \in Symbols /\ Sp \notin Numbers
  /\ Whole \subseteq Numbers /\ Given \subseteq Numbers
  /\ Texts \subseteq Strings /\ <<>> \in Strings /\ <<Sp>> \in Strings
  /\ Vectors \subseteq Seq(Numbers)
  /\ \A n \in Numbers : Rounded12[n] \in Numbers /\ Rounded6[n] \in Numbers
  /\ \A n \in Whole : Rounded12[n] = n /\ Rounded6[n] = n
<1>1. \A t \in Seq({Sp} \cup Pieces) : t \in Strings
  BY DEF Strings, Symbols
<1> QED BY <1>1, PacketContentsAssumption DEF Strings, Symbols

\* A text that begins and ends with something else than white space.
LEMMA TrimmedWhole ==
  ASSUME NEW t \in Strings, Len(t) > 0, t[1] # Sp, t[Len(t)] # Sp
  PROVE  trimmed(t) = t
<1>1. Core(t, 1, Len(t))
  BY Lengths DEF Core
<1> QED BY <1>1, TrimmedCore, SubSeqFull DEF Strings

\* A text without white space, which may be empty.
LEMMA TrimmedWord ==
  ASSUME NEW t \in Strings, \A i \in 1..Len(t) : t[i] # Sp
  PROVE  trimmed(t) = t
<1>1. Len(t) \in Nat
  BY Lengths
<1>2. CASE Len(t) = 0
  BY <1>2, Lengths, TrimmedBlank DEF Blank
<1>3. CASE Len(t) > 0
  BY <1>1, <1>3, TrimmedWhole
<1> QED BY <1>1, <1>2, <1>3

\* A numeral alone is a word, a field and a number.
LEMMA Numeral ==
  ASSUME NEW n \in Numbers
  PROVE  /\ <<n>> \in Words /\ <<n>> \in Strings /\ <<n, Sp>> \in Strings
         /\ Len(<<n>>) = 1 /\ <<n>>[1] = n
         /\ trimmed(<<n>>) = <<n>>
         /\ IsNumber(<<n>>) /\ Value(<<n>>) = n
         /\ n \in Whole => IsWhole(<<n>>)
         /\ Fields(<<n>>) = <<<<n>>>>
<1>1. /\ <<n>> \in Strings /\ Len(<<n>>) = 1 /\ <<n>>[1] = n /\ n # Sp
      /\ <<n, Sp>> \in Strings /\ <<n>> # <<>>
  BY ConstantTypes DEF Strings
<1>2. \A i \in 1..Len(<<n>>) : <<n>>[i] # Sp
  BY <1>1
<1>3. trimmed(<<n>>) = <<n>>
  BY <1>1, <1>2, TrimmedWord
<1>4. <<n>> \in Words
  BY <1>1, <1>2 DEF Words
<1> QED BY <1>1, <1>3, <1>4, FieldsWord DEF IsNumber, Value, IsWhole

\* White space in front of a text changes none of its fields.
LEMMA FieldsBehind ==
  ASSUME NEW t \in Strings
  PROVE  Fields(<<Sp>> \o t) = Fields(t)
<1>1. <<Sp>> \in Strings /\ <<Sp>> # <<>> /\ Len(<<Sp>>) = 1 /\ <<Sp>>[1] = Sp
  BY ConstantTypes
<1>2. Fields(<<Sp>> \o t) = Fields(<<Sp>>) \o Fields(t)
  BY <1>1, FieldsApart
<1>3. Fields(t) \in Seq(Words)
  BY FieldsType
<1> QED BY <1>2, <1>3, FieldsNone

\* A numeral ahead of a text is its first field.
LEMMA FieldAhead ==
  ASSUME NEW n \in Numbers, NEW t \in Strings
  PROVE  Fields(<<n, Sp>> \o t) = <<<<n>>>> \o Fields(t)
<1>1. <<n>> \in Strings /\ <<n, Sp>> \in Strings /\ <<n, Sp>> = <<n>> \o <<Sp>>
  BY Numeral
<1>2. <<n, Sp>> # <<>> /\ Len(<<n, Sp>>) = 2 /\ <<n, Sp>>[2] = Sp
  OBVIOUS
<1>3. Fields(<<n, Sp>>) = <<<<n>>>>
  BY <1>1, Numeral, FieldsBefore
<1> QED BY <1>1, <1>2, <1>3, FieldsApart

LEMMA JoinNone == Join(<<>>) = <<>>
<1>1. <<>> \in Seq(Strings) /\ Len(<<>>) = 0
  OBVIOUS
<1> QED BY <1>1, JoinSteps

\* Nothing is left of a text just when it has no fields.
LEMMA Simplified ==
  ASSUME NEW t \in Strings
  PROVE  simplified(t) \in Strings /\ (simplified(t) = <<>> <=> Fields(t) = <<>>)
<1>1. Fields(t) \in Seq(Words)
  BY FieldsType
<1>2. Fields(t) \in Seq(Strings)
  BY <1>1 DEF Words
<1>3. CASE Fields(t) = <<>>
  BY <1>3, JoinNone, ConstantTypes DEF simplified
<1>4. CASE Fields(t) # <<>>
  <2>1. WordsJoined(Join(Fields(t)), Fields(t), Len(Fields(t)))
    BY <1>1, <1>4, JoinWords
  <2>2. Join(Fields(t)) \in Strings /\ Join(Fields(t)) # <<>>
    BY <2>1, Lengths DEF WordsJoined
  <2> QED BY <1>4, <2>2 DEF simplified
<1> QED BY <1>3, <1>4

-----------------------------------------------------------------------------
(* What is read of what was made, class by class.                          *)

Sent(c) == {m \in Requests(c) \cup {Default(c)} : ~Silent(m)}

\* What SplitRight leaves of a command's numbers.
LEMMA NumbersRead ==
  ASSUME NEW v \in Seq(Numbers), v # <<>>
  PROVE  LET args == <<Sp>> \o NumberArgs(v)
         IN /\ NumberArgs(v) \in Strings
            /\ Fields(args) = [i \in DOMAIN v |-> <<Rounded12[v[i]]>>]
            /\ IsNumber(args) <=> Len(v) = 1
<1> DEFINE fs == [i \in DOMAIN v |-> <<Rounded12[v[i]]>>]
           t == Join(fs)
<1>1. Len(v) \in Nat /\ Len(v) > 0 /\ DOMAIN v = 1..Len(v)
  OBVIOUS
<1>2. \A i \in 1..Len(v) : Rounded12[v[i]] \in Numbers
  BY ConstantTypes
<1>3. \A i \in 1..Len(v) : <<Rounded12[v[i]]>> \in Words
  BY <1>2, Numeral
<1>4. fs \in Seq(Words) /\ Len(fs) = Len(v) /\ fs # <<>>
  BY <1>1, <1>3
<1>4a. fs[1] = <<Rounded12[v[1]]>> /\ Rounded12[v[1]] \in Numbers
  BY <1>1, <1>2
<1> HIDE DEF fs
<1>5. /\ WordsJoined(t, fs, Len(fs))
      /\ Fields(t) = fs
      /\ Len(fs) = 1 => t = fs[1]
  BY <1>4, JoinWords
<1>6. /\ t \in Strings /\ Len(t) > 0 /\ t[1] # Sp /\ t[Len(t)] # Sp
      /\ Len(fs) > 1 => Len(t) > 1
  BY <1>5 DEF WordsJoined
<1> HIDE DEF t
<1>7. trimmed(<<Sp>> \o t) = t
  BY <1>6, TrimmedBehind, TrimmedWhole
<1>8. Len(t) \in Nat
  BY <1>6, Lengths
<1>9. IsNumber(<<Sp>> \o t) <=> Len(v) = 1
  <2>1. CASE Len(v) = 1
    <3>1. t = <<Rounded12[v[1]]>>
      BY <1>4, <1>4a, <1>5, <2>1
    <3>2. Len(t) = 1 /\ t[1] \in Numbers
      BY <1>4a, <3>1
    <3> QED BY <1>7, <2>1, <3>2 DEF IsNumber
  <2>2. CASE Len(v) > 1
    <3>1. Len(t) > 1
      BY <1>4, <1>6, <2>2
    <3>2. \A n \in Nat : n > 1 => n # 1
      OBVIOUS
    <3>3. Len(t) # 1 /\ Len(v) # 1
      BY <1>1, <1>8, <2>2, <3>1, <3>2
    <3> QED BY <1>7, <3>3 DEF IsNumber
  <2> QED BY <1>1, <2>1, <2>2
<1>10. Fields(<<Sp>> \o t) = fs
  BY <1>5, <1>6, FieldsBehind
<1>11. t = NumberArgs(v)
  BY DEF t, fs, NumberArgs
<1> QED BY <1>6, <1>9, <1>10, <1>11 DEF fs

\* The name of a command has no delimiter, so the first one ends it.
LEMMA CmdNameWord ==
  ASSUME NEW t \in Strings
  PROVE  CmdName(t) \in Strings /\ \A i \in 1..Len(CmdName(t)) : CmdName(t)[i] # Sp
<1> DEFINE s == simplified(t)
           r == [i \in DOMAIN s |-> IF s[i] = Sp THEN Joint ELSE s[i]]
           w == [i \in DOMAIN r |-> IF r[i] \in Pieces THEN Upper[r[i]] ELSE r[i]]
<1>1. s \in Strings
  BY Simplified
<1> HIDE DEF s
<1>2. Len(s) \in Nat /\ DOMAIN s = 1..Len(s) /\ \A i \in 1..Len(s) : s[i] \in Symbols
  BY <1>1, Lengths
<1>3. /\ Joint \in Pieces /\ Sp \notin Pieces /\ Pieces \subseteq Symbols
      /\ \A x \in Pieces : Upper[x] \in Pieces
  BY PacketContentsAssumption DEF Symbols
<1>4. DOMAIN r = 1..Len(s) /\ \A i \in 1..Len(s) : r[i] \in Symbols /\ r[i] # Sp
  BY <1>2, <1>3
<1> HIDE DEF r
<1>5. DOMAIN w = 1..Len(s) /\ \A i \in 1..Len(s) : w[i] \in Symbols /\ w[i] # Sp
  BY <1>3, <1>4
<1>6. w = [i \in 1..Len(s) |-> w[i]]
  BY <1>4
<1>7. CmdName(t) = w
  BY DEF CmdName, toUpper, w, r, s
<1> HIDE DEF w
<1>8. w \in Strings /\ Len(w) = Len(s)
  BY <1>2, <1>5, <1>6 DEF Strings
<1> QED BY <1>5, <1>7, <1>8

\* Name, text and numbers of a command.
LEMMA CmdRead ==
  ASSUME NEW m \in Sent("CMD")
  PROVE  LET r == ParseCmd(CmdContent(m))
         IN /\ r.valid
            /\ r.name = CmdName(m.name)
            /\ "text" \in DOMAIN m => trimmed(r.text) = trimmed(m.text)
            /\ "numbers" \in DOMAIN m =>
                 /\ r.numbers = [i \in DOMAIN m.numbers |-> Rounded12[m.numbers[i]]]
                 /\ r.isNumber <=> Len(m.numbers) = 1
<1> DEFINE name == CmdName(m.name)
           args == IF "text" \in DOMAIN m THEN m.text ELSE NumberArgs(m.numbers)
           r == ParseCmd(CmdContent(m))
<1>1. /\ m.name \in Strings
      /\ \/ "text" \in DOMAIN m /\ "numbers" \notin DOMAIN m /\ m.text \in Strings
         \/ /\ "text" \notin DOMAIN m /\ "numbers" \in DOMAIN m
            /\ m.numbers \in Seq(Numbers) /\ m.numbers # <<>>
  <2>1. CASE m = Default("CMD")
    BY <2>1, ConstantTypes DEF Default
  <2>2. CASE m \in TextCommand
    BY <2>2, ConstantTypes DEF TextCommand
  <2>3. CASE m \in NumberCommand
    BY <2>3, ConstantTypes DEF NumberCommand, Sent, Silent
  <2> QED BY <2>1, <2>2, <2>3 DEF Sent, Requests
<1>2. name \in Strings /\ \A i \in 1..Len(name) : name[i] # Sp
  BY <1>1, CmdNameWord
<1>3. args \in Strings
  BY <1>1, NumbersRead
<1>4. CmdContent(m) = name \o <<Sp>> \o args
  BY DEF CmdContent
<1> HIDE DEF name, args
<1>5. SplitLeft(CmdContent(m)) = name /\ SplitRight(CmdContent(m)) = <<Sp>> \o args
  BY <1>2, <1>3, <1>4, Split
<1> DEFINE a == <<Sp>> \o args
           f == Fields(a)
<1>6. /\ r.valid /\ r.name = name /\ r.text = a
      /\ r.isNumber = IsNumber(a)
      /\ r.numbers = IF f # <<>> /\ \A i \in DOMAIN f : IsNumber(f[i])
                     THEN [i \in DOMAIN f |-> Value(f[i])] ELSE <<>>
  BY <1>5 DEF ParseCmd, ArgFields
<1>7. ASSUME "text" \in DOMAIN m PROVE trimmed(r.text) = trimmed(m.text)
  <2>1. args = m.text
    BY <1>7 DEF args
  <2> HIDE DEF r
  <2> QED BY <1>3, <1>6, <2>1, TrimmedBehind
<1>8. ASSUME "numbers" \in DOMAIN m
      PROVE  /\ r.numbers = [i \in DOMAIN m.numbers |-> Rounded12[m.numbers[i]]]
             /\ r.isNumber <=> Len(m.numbers) = 1
  <2> DEFINE v == m.numbers
  <2>1. args = NumberArgs(v) /\ v \in Seq(Numbers) /\ v # <<>>
    BY <1>1, <1>8 DEF args
  <2> HIDE DEF r, f, v
  <2>2. f = [i \in DOMAIN v |-> <<Rounded12[v[i]]>>] /\ (IsNumber(a) <=> Len(v) = 1)
    BY <2>1, NumbersRead DEF f
  <2>3. /\ DOMAIN v = 1..Len(v) /\ Len(v) \in Nat /\ Len(v) > 0
        /\ \A i \in DOMAIN v : Rounded12[v[i]] \in Numbers
    BY <2>1, ConstantTypes
  <2>4. \A i \in DOMAIN v : f[i] = <<Rounded12[v[i]]>> /\ IsNumber(f[i])
                            /\ Value(f[i]) = Rounded12[v[i]]
    BY <2>2, <2>3, Numeral
  <2>5. DOMAIN f = DOMAIN v /\ f # <<>>
    BY <2>2, <2>3
  <2>6. r.numbers = [i \in DOMAIN v |-> Rounded12[v[i]]]
    BY <1>6, <2>4, <2>5
  <2> QED BY <1>6, <2>2, <2>6 DEF v
<1> QED BY <1>6, <1>7, <1>8 DEF name

\* Number and text of a status, with and without a text.
LEMMA StatusRead ==
  ASSUME NEW m \in Sent("STATUS")
  PROVE  LET r == ParseStatus(StatusContent(m))
         IN r.valid /\ r.code = m.code /\ trimmed(r.text) = trimmed(m.text)
<1> DEFINE t == StatusContent(m)
           r == ParseStatus(t)
<1>1. m.code \in Whole /\ m.text \in Strings
  <2>1. CASE m = Default("STATUS")
    BY <2>1, ConstantTypes, PacketContentsAssumption DEF Default
  <2>2. CASE m \in Status
    BY <2>2, ConstantTypes DEF Status
  <2> QED BY <2>1, <2>2 DEF Sent, Requests
<1>2. /\ <<m.code>> \in Strings
      /\ \A i \in 1..Len(<<m.code>>) : <<m.code>>[i] # Sp
      /\ IsWhole(<<m.code>>) /\ Value(<<m.code>>) = m.code
  <2>1. m.code \in Numbers
    BY <1>1, ConstantTypes
  <2>2. <<m.code>> \in Words /\ IsWhole(<<m.code>>) /\ Value(<<m.code>>) = m.code
    BY <1>1, <2>1, Numeral
  <2> QED BY <2>2 DEF Words
<1>3. SplitLeft(t) = <<m.code>> /\ trimmed(SplitRight(t)) = trimmed(m.text)
  <2>1. CASE m.text = <<>>
    <3>1. t = <<m.code>>
      BY <2>1 DEF StatusContent
    <3>2. IndexOf(t) = 0
      BY <1>2, <3>1, IndexNone
    <3> QED BY <2>1, <3>1, <3>2 DEF SplitLeft, SplitRight
  <2>2. CASE m.text # <<>>
    <3>1. t = <<m.code>> \o <<Sp>> \o m.text
      <4>1. <<m.code, Sp>> = <<m.code>> \o <<Sp>>
        BY <1>2
      <4> QED BY <2>2, <4>1 DEF StatusContent
    <3>2. SplitLeft(t) = <<m.code>> /\ SplitRight(t) = <<Sp>> \o m.text
      BY <1>1, <1>2, <3>1, Split
    <3> QED BY <1>1, <3>2, TrimmedBehind
  <2> QED BY <2>1, <2>2
<1> HIDE DEF t
<1>4. r.valid /\ r.code = m.code /\ r.text = SplitRight(t)
  BY <1>2, <1>3 DEF ParseStatus
<1> QED BY <1>3, <1>4 DEF t

\* Temperature and cooler.
LEMMA TempRead ==
  ASSUME NEW m \in Sent("TEMP")
  PROVE  LET r == ParseTemp(TempContent(m))
         IN /\ r.valid /\ ~r.unread
            /\ r.temp = Rounded6[m.temp] /\ r.cooler = <<m.cooler>>
<1> DEFINE n == Rounded6[m.temp]
           c == m.cooler
           t == TempContent(m)
           f == Fields(t)
           r == ParseTemp(t)
<1>1. m.temp \in Numbers /\ m.cooler \in Whole
  <2>1. CASE m = Default("TEMP")
    BY <2>1, ConstantTypes, PacketContentsAssumption DEF Default
  <2>2. CASE m \in Temp
    BY <2>2, ConstantTypes DEF Temp
  <2> QED BY <2>1, <2>2 DEF Sent, Requests
<1>2. n \in Numbers /\ c \in Whole /\ c \in Numbers
  BY <1>1, ConstantTypes
<1>3. t = <<n, Sp, c>>
  BY DEF TempContent
<1> HIDE DEF n, c, t
<1>4. t = <<n, Sp>> \o <<c>>
  BY <1>3
<1>5. f = <<<<n>>>> \o <<<<c>>>>
  <2>1. <<c>> \in Strings /\ Fields(<<c>>) = <<<<c>>>>
    BY <1>2, Numeral
  <2> QED BY <1>2, <1>4, <2>1, FieldAhead
<1>6. f # <<>> /\ Len(f) > 1 /\ f[1] = <<n>> /\ f[2] = <<c>>
  BY <1>5
<1> HIDE DEF f
<1>7. /\ IsNumber(f[1]) /\ Value(f[1]) = n
      /\ IsWhole(f[2]) /\ Value(f[2]) = c
  BY <1>2, <1>6, Numeral
<1>8. r = [id |-> "TEMP", valid |-> TRUE, unread |-> FALSE, temp |-> n,
           cooler |-> <<c>>]
  BY <1>6, <1>7 DEF ParseTemp, f
<1> HIDE DEF r
<1> QED BY <1>8 DEF r, n, c, t

\* A type without a delimiter, then a version: the first delimiter of what is
\* left of white space around them is the one between the two.
LEMMA TypeRead ==
  ASSUME NEW u \in Strings, u # <<>>, \A i \in 1..Len(u) : u[i] # Sp, NEW v \in Strings
  PROVE  LET r == ParseHello(u \o <<Sp>> \o v)
         IN r.type = u /\ trimmed(r.version) = trimmed(v)
<1> DEFINE t == u \o <<Sp>> \o v
           s == trimmed(t)
           r == ParseHello(t)
<1>1. Len(u) \in Nat /\ Len(u) > 0 /\ Len(v) \in Nat
  BY Lengths
<1>2. /\ t \in Strings /\ Len(t) = Len(u) + 1 + Len(v)
      /\ \A i \in 1..Len(u) : t[i] = u[i]
      /\ t[Len(u) + 1] = Sp
      /\ \A i \in 1..Len(v) : t[Len(u) + 1 + i] = v[i]
  <2> DEFINE p == u \o <<Sp>>
  <2>1. <<Sp>> \in Strings /\ Len(<<Sp>>) = 1 /\ <<Sp>>[1] = Sp /\ 1 \in 1..1
    BY ConstantTypes
  <2>2. /\ p \in Strings /\ Len(p) = Len(u) + 1 /\ p[Len(u) + 1] = Sp
        /\ \A i \in 1..Len(u) : p[i] = u[i]
    BY <2>1, Concatenated
  <2> HIDE DEF p
  <2>3. /\ p \o v \in Strings /\ Len(p \o v) = Len(p) + Len(v)
        /\ \A i \in 1..Len(p) : (p \o v)[i] = p[i]
        /\ \A i \in 1..Len(v) : (p \o v)[Len(p) + i] = v[i]
    BY <2>2, Concatenated
  <2>4. Len(u) + 1 \in 1..Len(p) /\ \A i \in 1..Len(u) : i \in 1..Len(p)
    BY <1>1, <2>2
  <2>5. t = p \o v
    BY DEF p
  <2> HIDE DEF t
  <2> QED BY <2>2, <2>3, <2>4, <2>5
<1>3. /\ r.type = IF IndexOf(s) = 0 THEN s ELSE SubSeq(s, 1, IndexOf(s) - 1)
      /\ r.version = IF IndexOf(s) = 0 THEN <<>> ELSE SubSeq(s, IndexOf(s) + 1, Len(s))
  BY DEF ParseHello, Cut
<1>4. \A i \in 1..Len(t) : \/ i \in 1..Len(u)
                           \/ i = Len(u) + 1
                           \/ i - Len(u) - 1 \in 1..Len(v)
                              /\ i = Len(u) + 1 + (i - Len(u) - 1)
  BY <1>1, <1>2
<1> HIDE DEF r
<1>5. ASSUME Blank(v) PROVE r.type = u /\ trimmed(r.version) = trimmed(v)
  <2>1. Core(t, 1, Len(u))
    <3>1. 1 \in 1..Len(u) /\ Len(u) \in 1..Len(u) /\ 1 \in 1..Len(t) /\ Len(u) \in 1..Len(t)
      BY <1>1, <1>2
    <3>2. t[1] # Sp /\ t[Len(u)] # Sp
      BY <1>2, <3>1
    <3>3. ASSUME NEW i \in 1..Len(t), t[i] # Sp PROVE i \in 1..Len(u)
      <4>1. ASSUME NEW j \in 1..Len(v), i = Len(u) + 1 + j PROVE FALSE
        BY <1>2, <1>5, <3>3, <4>1 DEF Blank
      <4> QED BY <1>2, <1>4, <3>3, <4>1
    <3>4. ASSUME NEW i \in 1..Len(t), t[i] # Sp PROVE 1 <= i /\ i <= Len(u)
      <4>1. i \in 1..Len(u)
        BY <3>3, <3>4
      <4> QED BY <4>1, <1>1
    <3> HIDE DEF t
    <3> QED BY <3>1, <3>2, <3>4 DEF Core
  <2>2. s = SubSeq(t, 1, Len(u))
    BY <1>2, <2>1, TrimmedCore
  <2> HIDE DEF s, t
  <2>3. 1 \in 1..(Len(t) + 1) /\ Len(u) \in 0..Len(t) /\ 1 <= Len(u) + 1
        /\ Len(u) - 1 + 1 = Len(u)
    BY <1>1, <1>2
  <2>4. /\ s \in Strings /\ Len(s) = Len(u)
        /\ \A i \in 1..Len(u) : s[i] = t[1 + i - 1]
    BY <1>2, <2>2, <2>3, PartOf
  <2>5. \A i \in 1..Len(u) : s[i] = u[i]
    <3>1. \A i \in 1..Len(u) : 1 + i - 1 = i
      BY <1>1
    <3> QED BY <1>2, <2>4, <3>1
  <2>6. s = u
    BY <2>4, <2>5, EqualStrings
  <2>7. IndexOf(s) = 0
    BY <2>6, IndexNone
  <2>8. r.type = u /\ r.version = <<>>
    BY <1>3, <2>6, <2>7
  <2>9. trimmed(v) = <<>> /\ trimmed(<<>>) = <<>>
    <3>1. <<>> \in Strings /\ Len(<<>>) = 0
      BY ConstantTypes
    <3>2. Blank(<<>>)
      BY <3>1 DEF Blank
    <3> QED BY <1>5, <3>1, <3>2, TrimmedBlank
  <2> QED BY <2>8, <2>9
<1>6. ASSUME NEW a, NEW b, Core(v, a, b) PROVE r.type = u /\ trimmed(r.version) = trimmed(v)
  <2> DEFINE q == SubSeq(v, 1, b)
             k == Len(u) + 1 + b
  <2>1. /\ a \in Nat /\ b \in Nat /\ a >= 1 /\ a <= b /\ b <= Len(v)
        /\ a \in 1..Len(v) /\ b \in 1..Len(v) /\ v[a] # Sp /\ v[b] # Sp
        /\ \A i \in 1..Len(v) : v[i] # Sp => a <= i /\ i <= b
    BY <1>1, <1>6 DEF Core
  <2>2. Core(t, 1, k)
    <3> HIDE DEF t
    <3>1. 1 \in 1..Len(u) /\ 1 \in 1..Len(t) /\ k \in 1..Len(t)
      BY <1>1, <1>2, <2>1
    <3>2. t[1] # Sp /\ t[k] # Sp
      BY <1>2, <2>1, <3>1
    <3>3. ASSUME NEW i \in 1..Len(t), t[i] # Sp PROVE 1 <= i /\ i <= k
      <4>1. i \in Nat /\ 1 <= i /\ k \in Nat
        BY <1>1, <1>2, <2>1
      <4>2. ASSUME NEW j \in 1..Len(v), i = Len(u) + 1 + j PROVE i <= k
        <5>1. v[j] # Sp
          BY <1>2, <3>3, <4>2
        <5>2. j <= b /\ j \in Nat
          BY <1>1, <2>1, <5>1
        <5> QED BY <1>1, <2>1, <4>2, <5>2
      <4>3. CASE i \in 1..Len(u)
        BY <1>1, <2>1, <4>3
      <4> QED BY <1>2, <1>4, <3>3, <4>1, <4>2, <4>3
    <3> HIDE DEF k
    <3> QED BY <3>1, <3>2, <3>3 DEF Core
  <2>3. s = SubSeq(t, 1, k)
    BY <1>2, <2>2, TrimmedCore
  <2>4. /\ q \in Strings /\ Len(q) = b /\ \A i \in 1..b : q[i] = v[i]
    <3>1. 1 \in 1..(Len(v) + 1) /\ b \in 0..Len(v) /\ 1 <= b + 1 /\ b - 1 + 1 = b
          /\ \A i \in 1..b : 1 + i - 1 = i
      BY <1>1, <2>1
    <3>2. /\ q \in Strings /\ Len(q) = b - 1 + 1
          /\ \A i \in 1..(b - 1 + 1) : q[i] = v[1 + i - 1]
      BY <3>1, PartOf
    <3> HIDE DEF q
    <3> QED BY <3>1, <3>2
  <2>5. s = u \o <<Sp>> \o q
    <3> DEFINE x == u \o <<Sp>> \o q
               p == u \o <<Sp>>
    <3> HIDE DEF q, s, t
    <3>1. <<Sp>> \in Strings /\ Len(<<Sp>>) = 1 /\ <<Sp>>[1] = Sp /\ 1 \in 1..1
      BY ConstantTypes
    <3>2. /\ p \in Strings /\ Len(p) = Len(u) + 1 /\ p[Len(u) + 1] = Sp
          /\ \A i \in 1..Len(u) : p[i] = u[i]
      BY <3>1, Concatenated
    <3> HIDE DEF p
    <3>3. /\ p \o q \in Strings /\ Len(p \o q) = Len(p) + Len(q)
          /\ \A i \in 1..Len(p) : (p \o q)[i] = p[i]
          /\ \A i \in 1..Len(q) : (p \o q)[Len(p) + i] = q[i]
      BY <2>4, <3>2, Concatenated
    <3>4. x = p \o q
      BY DEF p
    <3> HIDE DEF x
    <3>5. /\ 1 \in 1..(Len(t) + 1) /\ k \in 0..Len(t) /\ 1 <= k + 1 /\ k - 1 + 1 = k
          /\ k \in Nat /\ \A i \in 1..k : 1 + i - 1 = i
      BY <1>1, <1>2, <2>1
    <3>6. /\ s \in Strings /\ Len(s) = k /\ \A i \in 1..k : s[i] = t[i]
      <4>1. /\ s \in Strings /\ Len(s) = k - 1 + 1
            /\ \A i \in 1..(k - 1 + 1) : s[i] = t[1 + i - 1]
        BY <1>2, <2>3, <3>5, PartOf
      <4> HIDE DEF k
      <4> QED BY <3>5, <4>1
    <3>7. x \in Strings /\ Len(x) = k
      BY <1>1, <2>1, <2>4, <3>2, <3>3, <3>4
    <3>8. ASSUME NEW i \in 1..k PROVE s[i] = x[i]
      <4>1. CASE i \in 1..Len(u)
        <5>1. i \in 1..Len(p)
          BY <1>1, <3>2, <4>1
        <5> QED BY <1>2, <3>2, <3>3, <3>4, <3>6, <4>1, <5>1
      <4>2. CASE i = Len(u) + 1
        <5>1. i \in 1..Len(p)
          BY <1>1, <3>2, <4>2
        <5> QED BY <1>2, <3>2, <3>3, <3>4, <3>6, <4>2, <5>1
      <4>3. CASE i > Len(u) + 1
        <5>1. PICK j \in 1..b : i = Len(u) + 1 + j
          <6>1. i - Len(u) - 1 \in 1..b /\ i = Len(u) + 1 + (i - Len(u) - 1)
            BY <1>1, <2>1, <4>3
          <6> QED BY <6>1
        <5>2. j \in 1..Len(v)
          BY <1>1, <2>1
        <5>3. t[i] = v[j]
          BY <1>2, <5>1, <5>2
        <5>4. x[i] = q[j]
          BY <2>4, <3>2, <3>3, <3>4, <5>1
        <5> QED BY <2>4, <3>6, <5>3, <5>4
      <4> QED BY <1>1, <2>1, <4>1, <4>2, <4>3
    <3>9. s = x
      BY <3>6, <3>7, <3>8, EqualStrings
    <3> QED BY <3>9 DEF x
  <2>6. IndexOf(s) = Len(u) + 1 /\ SplitLeft(s) = u /\ SplitRight(s) = <<Sp>> \o q
    BY <2>4, <2>5, Split
  <2>7. IndexOf(s) # 0
    BY <1>1, <2>6
  <2>8. r.type = u
    BY <1>3, <2>6, <2>7 DEF SplitLeft
  <2>9. r.version = q
    <3>1. r.version = SubSeq(s, Len(u) + 2, Len(s))
      <4>1. Len(u) + 1 + 1 = Len(u) + 2
        BY <1>1
      <4> HIDE DEF s
      <4> QED BY <1>3, <2>6, <2>7, <4>1
    <3> DEFINE z == SubSeq(s, Len(u) + 2, Len(s))
               p == u \o <<Sp>>
    <3>2. <<Sp>> \in Strings /\ Len(<<Sp>>) = 1
      BY ConstantTypes
    <3>3. p \in Strings /\ Len(p) = Len(u) + 1
      BY <3>2, Concatenated
    <3>4. s = p \o q
      BY <2>5
    <3> HIDE DEF s, p, q
    <3>5. /\ s \in Strings /\ Len(s) = Len(u) + 1 + b
          /\ \A i \in 1..b : s[Len(u) + 1 + i] = q[i]
      <4>1. /\ p \o q \in Strings /\ Len(p \o q) = Len(p) + Len(q)
            /\ \A i \in 1..Len(q) : (p \o q)[Len(p) + i] = q[i]
        BY <2>4, <3>3, Concatenated
      <4>2. /\ s \in Strings /\ Len(s) = Len(p) + Len(q)
            /\ \A i \in 1..Len(q) : s[Len(p) + i] = q[i]
        BY <3>4, <4>1
      <4> QED BY <2>4, <3>3, <4>2
    <3>6. /\ Len(u) + 2 \in 1..(Len(s) + 1) /\ Len(s) \in 0..Len(s)
          /\ Len(u) + 2 <= Len(s) + 1 /\ Len(s) - (Len(u) + 2) + 1 = b
          /\ \A i \in 1..b : Len(u) + 2 + i - 1 = Len(u) + 1 + i
      BY <1>1, <2>1, <3>5
    <3>7. /\ z \in Strings /\ Len(z) = Len(s) - (Len(u) + 2) + 1
          /\ \A i \in 1..(Len(s) - (Len(u) + 2) + 1) : z[i] = s[Len(u) + 2 + i - 1]
      BY <3>5, <3>6, PartOf
    <3> HIDE DEF z
    <3>8. Len(z) = b /\ \A i \in 1..b : z[i] = q[i]
      BY <3>5, <3>6, <3>7
    <3>9. z = q
      BY <2>4, <3>7, <3>8, EqualStrings
    <3> QED BY <3>1, <3>9 DEF z
  <2>10. trimmed(q) = trimmed(v)
    <3> HIDE DEF q
    <3>1. Core(q, a, b)
      <4>1. a \in 1..Len(q) /\ b \in 1..Len(q)
        BY <2>1, <2>4
      <4>2. q[a] # Sp /\ q[b] # Sp
        BY <2>1, <2>4, <4>1
      <4>3. ASSUME NEW i \in 1..Len(q), q[i] # Sp PROVE a <= i /\ i <= b
        <5>1. i \in 1..b /\ i \in 1..Len(v)
          BY <1>1, <2>1, <2>4
        <5> QED BY <2>1, <2>4, <4>3, <5>1
      <4> QED BY <4>1, <4>2, <4>3 DEF Core
    <3>2. trimmed(q) = SubSeq(q, a, b) /\ trimmed(v) = SubSeq(v, a, b)
      BY <1>6, <2>4, <3>1, TrimmedCore
    <3>3. SubSeq(q, a, b) = SubSeq(v, a, b)
      <4> DEFINE y == SubSeq(q, a, b)
                 z == SubSeq(v, a, b)
      <4>1. a \in 1..(Len(q) + 1) /\ b \in 0..Len(q) /\ a <= b + 1
            /\ a \in 1..(Len(v) + 1) /\ b \in 0..Len(v)
            /\ \A i \in 1..(b - a + 1) : a + i - 1 \in 1..b
        BY <1>1, <2>1, <2>4
      <4>2. /\ y \in Strings /\ Len(y) = b - a + 1
            /\ \A i \in 1..(b - a + 1) : y[i] = q[a + i - 1]
        BY <2>4, <4>1, PartOf
      <4>3. /\ z \in Strings /\ Len(z) = b - a + 1
            /\ \A i \in 1..(b - a + 1) : z[i] = v[a + i - 1]
        BY <4>1, PartOf
      <4> HIDE DEF y, z
      <4>4. \A i \in 1..Len(y) : y[i] = z[i]
        BY <2>4, <4>1, <4>2, <4>3
      <4>5. y = z
        BY <4>2, <4>3, <4>4, EqualStrings
      <4> QED BY <4>5 DEF y, z
    <3> QED BY <3>2, <3>3
  <2> QED BY <2>8, <2>9, <2>10
<1>7. r.type = u /\ trimmed(r.version) = trimmed(v)
  BY <1>5, <1>6, BlankOrCore
<1> QED BY <1>7 DEF r, t

\* Type and version of a HELLO, from the constructor and from SetSenderType.
LEMMA HelloRead ==
  ASSUME NEW m \in Sent("HELLO"), NEW t \in HelloContents(m)
  PROVE  LET r == ParseHello(t)
         IN r.type = m.type /\ trimmed(r.version) = trimmed(m.version)
<1>1. /\ m.version \in Strings /\ m.type \in Strings
      /\ \A i \in 1..Len(m.type) : m.type[i] # Sp
      /\ m.type = <<>> => m = Default("HELLO")
  <2>1. CASE m = Default("HELLO")
    <3>1. m.version = <<>> /\ m.type = <<>>
      BY <2>1 DEF Default
    <3>2. Len(<<>>) = 0 /\ 1..0 = {}
      OBVIOUS
    <3> QED BY <2>1, <3>1, <3>2, ConstantTypes
  <2>2. CASE m \in Hello
    BY <2>2, ConstantTypes, Lengths DEF Hello
  <2> QED BY <2>1, <2>2 DEF Sent, Requests
<1>2. ASSUME NEW s \in Strings, trimmed(t) = s, \A i \in 1..Len(s) : s[i] # Sp,
             s = m.type, trimmed(m.version) = <<>>
      PROVE  ParseHello(t).type = m.type
             /\ trimmed(ParseHello(t).version) = trimmed(m.version)
  <2>1. IndexOf(s) = 0
    BY <1>2, IndexNone
  <2>2. ParseHello(t).type = s /\ ParseHello(t).version = <<>>
    BY <1>2, <2>1 DEF ParseHello, Cut
  <2>3. trimmed(<<>>) = <<>>
    <3>1. <<>> \in Strings /\ Blank(<<>>)
      BY ConstantTypes DEF Blank
    <3> QED BY <3>1, TrimmedBlank
  <2> QED BY <1>2, <2>2, <2>3
<1>3. trimmed(<<>>) = <<>> /\ trimmed(<<Sp>>) = <<>>
  <2>1. <<>> \in Strings /\ <<Sp>> \in Strings /\ Blank(<<>>) /\ Blank(<<Sp>>)
    BY ConstantTypes DEF Blank
  <2> QED BY <2>1, TrimmedBlank
<1>4. CASE t = m.type /\ m.version = <<>>
  BY <1>1, <1>2, <1>3, <1>4, TrimmedWord
<1>5. CASE t = m.type \o <<Sp>> \o m.version /\ m.type # <<>>
  BY <1>1, <1>5, TypeRead
<1>6. CASE t = m.type \o <<Sp>> \o m.version /\ m.type = <<>>
  <2>1. m.version = <<>> /\ t = <<Sp>>
    <3>1. m.version = <<>>
      BY <1>1, <1>6 DEF Default
    <3>2. <<>> \o <<Sp>> \o <<>> = <<Sp>>
      OBVIOUS
    <3> QED BY <1>6, <3>1, <3>2
  <2> QED BY <1>1, <1>2, <1>3, <1>6, <2>1
<1> QED BY <1>4, <1>5, <1>6 DEF HelloContents

\* A word in front of other words.
LEMMA WordAhead ==
  ASSUME NEW w \in Words, NEW f \in Seq(Words)
  PROVE  /\ <<w>> \o f \in Seq(Words) /\ Len(<<w>> \o f) = 1 + Len(f)
         /\ (<<w>> \o f)[1] = w
         /\ \A i \in 1..Len(f) : (<<w>> \o f)[1 + i] = f[i]
  OBVIOUS

\* Four numbers and a text, and what the fields of that are.
Four(n1, n2, n3, n4, t) == <<n1, Sp, n2, Sp, n3, Sp, n4, Sp>> \o t

FourThen(f, n1, n2, n3, n4, g) ==
  /\ f \in Seq(Words) /\ Len(f) = 4 + Len(g)
  /\ f[1] = <<n1>> /\ f[2] = <<n2>> /\ f[3] = <<n3>> /\ f[4] = <<n4>>
  /\ \A i \in 1..Len(g) : f[4 + i] = g[i]

\* The four numbers of a GUI packet are its first fields.
LEMMA FourAhead ==
  ASSUME NEW n1 \in Numbers, NEW n2 \in Numbers, NEW n3 \in Numbers, NEW n4 \in Numbers,
         NEW t \in Strings
  PROVE  FourThen(Fields(Four(n1, n2, n3, n4, t)), n1, n2, n3, n4, Fields(t))
<1> DEFINE t4 == <<n4, Sp>> \o t
           t3 == <<n3, Sp>> \o t4
           t2 == <<n2, Sp>> \o t3
           t1 == <<n1, Sp>> \o t2
           f == Fields(t)
<1>1. /\ <<n1, Sp>> \in Strings /\ <<n2, Sp>> \in Strings
      /\ <<n3, Sp>> \in Strings /\ <<n4, Sp>> \in Strings
  BY Numeral
<1>2. t4 \in Strings /\ Fields(t4) = <<<<n4>>>> \o f
  BY <1>1, FieldAhead, Concatenated
<1>3. <<n1, Sp, n2, Sp, n3, Sp, n4, Sp>> \o t = t1
  <2>1. t \in Seq(Symbols) /\ n1 \in Symbols /\ n2 \in Symbols /\ n3 \in Symbols
        /\ n4 \in Symbols /\ Sp \in Symbols
    BY ConstantTypes DEF Strings
  <2> DEFINE p == <<n4, Sp>>
             p3 == <<n3, Sp, n4, Sp>>
             p2 == <<n2, Sp, n3, Sp, n4, Sp>>
  <2>2. /\ p3 = <<n3, Sp>> \o p /\ p2 = <<n2, Sp>> \o p3
        /\ <<n1, Sp, n2, Sp, n3, Sp, n4, Sp>> = <<n1, Sp>> \o p2
    OBVIOUS
  <2>3. p \in Seq(Symbols) /\ p3 \in Seq(Symbols) /\ p2 \in Seq(Symbols)
    BY <2>1
  <2> HIDE DEF p, p3, p2
  <2>4. p3 \o t = <<n3, Sp>> \o (p \o t)
    BY <1>1, <2>1, <2>2, <2>3, ConcatAssociative DEF Strings
  <2>5. p2 \o t = <<n2, Sp>> \o (p3 \o t)
    BY <1>1, <2>1, <2>2, <2>3, ConcatAssociative, SMTT(20) DEF Strings
  <2>6. (<<n1, Sp>> \o p2) \o t = <<n1, Sp>> \o (p2 \o t)
    BY <1>1, <2>1, <2>3, ConcatAssociative DEF Strings
  <2> QED BY <2>2, <2>4, <2>5, <2>6 DEF p
<1> HIDE DEF t4
<1>4. t3 \in Strings /\ Fields(t3) = <<<<n3>>>> \o Fields(t4)
  BY <1>1, <1>2, FieldAhead, Concatenated
<1> HIDE DEF t3
<1>5. t2 \in Strings /\ Fields(t2) = <<<<n2>>>> \o Fields(t3)
  BY <1>1, <1>4, FieldAhead, Concatenated
<1> HIDE DEF t2
<1>6. t1 \in Strings /\ Fields(t1) = <<<<n1>>>> \o Fields(t2)
  BY <1>1, <1>5, FieldAhead, Concatenated
<1> HIDE DEF t1
<1>7. /\ Fields(t1) \in Seq(Words)
      /\ Len(Fields(t1)) = 4 + Len(f)
      /\ Fields(t1)[1] = <<n1>> /\ Fields(t1)[2] = <<n2>>
      /\ Fields(t1)[3] = <<n3>> /\ Fields(t1)[4] = <<n4>>
      /\ \A i \in 1..Len(f) : Fields(t1)[4 + i] = f[i]
  <2> DEFINE w1 == <<n1>>
             w2 == <<n2>>
             w3 == <<n3>>
             w4 == <<n4>>
             f4 == <<w4>> \o f
             f3 == <<w3>> \o f4
             f2 == <<w2>> \o f3
             f1 == <<w1>> \o f2
  <2>1. w1 \in Words /\ w2 \in Words /\ w3 \in Words /\ w4 \in Words
    BY Numeral
  <2>2. Fields(t1) = f1
    BY <1>2, <1>4, <1>5, <1>6
  <2>3. f \in Seq(Words) /\ Len(f) \in Nat
    BY FieldsType
  <2> HIDE DEF w1, w2, w3, w4, f
  <2>4. /\ f4 \in Seq(Words) /\ Len(f4) = 1 + Len(f) /\ f4[1] = w4
        /\ \A i \in 1..Len(f) : f4[1 + i] = f[i]
    BY <2>1, <2>3, WordAhead
  <2> HIDE DEF f4
  <2>5. /\ f3 \in Seq(Words) /\ Len(f3) = 1 + Len(f4) /\ f3[1] = w3
        /\ \A i \in 1..Len(f4) : f3[1 + i] = f4[i]
    BY <2>1, <2>4, WordAhead
  <2> HIDE DEF f3
  <2>6. /\ f2 \in Seq(Words) /\ Len(f2) = 1 + Len(f3) /\ f2[1] = w2
        /\ \A i \in 1..Len(f3) : f2[1 + i] = f3[i]
    BY <2>1, <2>5, WordAhead
  <2> HIDE DEF f2
  <2>7. /\ f1 \in Seq(Words) /\ Len(f1) = 1 + Len(f2) /\ f1[1] = w1
        /\ \A i \in 1..Len(f2) : f1[1 + i] = f2[i]
    BY <2>1, <2>6, WordAhead
  <2> HIDE DEF f1
  <2>8. /\ Len(f4) = 1 + Len(f) /\ Len(f3) = 2 + Len(f) /\ Len(f2) = 3 + Len(f)
        /\ Len(f1) = 4 + Len(f)
    BY <2>3, <2>4, <2>5, <2>6, <2>7
  <2>9. f1[2] = w2
    <3>1. 1 \in 1..Len(f2) /\ 1 + 1 = 2
      BY <2>3, <2>8
    <3> QED BY <2>6, <2>7, <3>1
  <2>10. f1[3] = w3
    <3>1. 1 \in 1..Len(f3) /\ 1 + 1 = 2 /\ 2 \in 1..Len(f2) /\ 1 + 2 = 3
      BY <2>3, <2>8
    <3> QED BY <2>5, <2>6, <2>7, <3>1
  <2>11. f1[4] = w4
    <3>1. 1 \in 1..Len(f4) /\ 1 + 1 = 2 /\ 2 \in 1..Len(f3) /\ 1 + 2 = 3
          /\ 3 \in 1..Len(f2) /\ 1 + 3 = 4
      BY <2>3, <2>8
    <3> QED BY <2>4, <2>5, <2>6, <2>7, <3>1
  <2>12. ASSUME NEW i \in 1..Len(f) PROVE f1[4 + i] = f[i]
    <3>1. /\ 1 + i \in 1..Len(f4) /\ 2 + i \in 1..Len(f3) /\ 3 + i \in 1..Len(f2)
          /\ 1 + (1 + i) = 2 + i /\ 1 + (2 + i) = 3 + i /\ 1 + (3 + i) = 4 + i
      BY <2>3, <2>8
    <3>2. f1[1 + (3 + i)] = f2[3 + i]
      BY <2>7, <3>1
    <3>3. f2[1 + (2 + i)] = f3[2 + i]
      BY <2>6, <3>1
    <3>4. f3[1 + (1 + i)] = f4[1 + i] /\ f4[1 + i] = f[i]
      BY <2>4, <2>5, <3>1
    <3> QED BY <3>1, <3>2, <3>3, <3>4
  <2> QED BY <2>2, <2>7, <2>8, <2>9, <2>10, <2>11, <2>12 DEF w1, w2, w3, w4
<1>9. Four(n1, n2, n3, n4, t) = t1
  BY <1>3 DEF Four
<1> QED BY <1>7, <1>9 DEF FourThen

\* The state of the server, whose status may be empty or blank.
LEMMA GuiRead ==
  ASSUME NEW m \in Sent("GUI")
  PROVE  LET r == ParseGui(GuiContent(m))
         IN IF simplified(m.status) = <<>> THEN ~r.valid
            ELSE r = [id |-> "GUI", valid |-> TRUE, error |-> m.error,
                      temp |-> Rounded6[m.temp], cooler |-> m.cooler,
                      clock |-> Rounded6[m.clock], status |-> simplified(m.status)]
<1> DEFINE e == m.error
           n == Rounded6[m.temp]
           c == m.cooler
           k == Rounded6[m.clock]
           t == GuiContent(m)
           f == Fields(t)
           g == Fields(m.status)
           r == ParseGui(t)
<1>1. /\ m.error \in Whole /\ m.cooler \in Whole
      /\ m.temp \in Numbers /\ m.clock \in Numbers /\ m.status \in Strings
  <2>1. CASE m = Default("GUI")
    BY <2>1, ConstantTypes, PacketContentsAssumption DEF Default
  <2>2. CASE m \in Gui
    <3>1. StatusTexts \subseteq Strings
      BY ConstantTypes, PacketContentsAssumption
    <3> QED BY <2>2, <3>1, ConstantTypes DEF Gui
  <2> QED BY <2>1, <2>2 DEF Sent, Requests
<1>2. /\ e \in Whole /\ e \in Numbers /\ n \in Numbers
      /\ c \in Whole /\ c \in Numbers /\ k \in Numbers
  BY <1>1, ConstantTypes
<1>3. t = <<e, Sp, n, Sp, c, Sp, k, Sp>> \o m.status
  BY DEF GuiContent
<1> HIDE DEF e, n, c, k, t
<1>5. g \in Seq(Words)
  BY <1>1, FieldsType
<1>6. /\ <<e>> \in Words /\ <<n>> \in Words /\ <<c>> \in Words /\ <<k>> \in Words
      /\ IsWhole(<<e>>) /\ Value(<<e>>) = e /\ IsNumber(<<n>>) /\ Value(<<n>>) = n
      /\ IsWhole(<<c>>) /\ Value(<<c>>) = c /\ IsNumber(<<k>>) /\ Value(<<k>>) = k
  BY <1>2, Numeral
<1>7. /\ f[1] = <<e>> /\ f[2] = <<n>> /\ f[3] = <<c>> /\ f[4] = <<k>>
      /\ Len(f) = 4 + Len(g) /\ f \in Seq(Words)
      /\ \A i \in 1..Len(g) : f[4 + i] = g[i]
  <2> HIDE DEF f, g
  <2>1. t = Four(e, n, c, k, m.status)
    BY <1>3 DEF Four
  <2>2. FourThen(Fields(Four(e, n, c, k, m.status)), e, n, c, k, Fields(m.status))
    BY <1>1, <1>2, FourAhead
  <2>3. FourThen(f, e, n, c, k, g)
    BY <2>1, <2>2 DEF f, g
  <2> QED BY <2>3 DEF FourThen
<1> HIDE DEF f, g
<1>8. SubSeq(f, 5, Len(f)) = g
  <2> DEFINE q == SubSeq(f, 5, Len(f))
  <2>1. Len(g) \in Nat /\ Len(f) \in Nat /\ Len(f) - 5 + 1 = Len(g)
        /\ 5 \in Int /\ Len(f) \in Int /\ \A i \in 5..Len(f) : f[i] \in Words
    BY <1>5, <1>7
  <2>2. /\ q \in Seq(Words)
        /\ Len(q) = IF 5 <= Len(f) THEN Len(f) - 5 + 1 ELSE 0
        /\ \A i \in 1..(Len(f) - 5 + 1) : q[i] = f[5 + i - 1]
    BY <2>1, SubSeqProperties
  <2> HIDE DEF q
  <2>3. Len(q) = Len(g)
    BY <1>7, <2>1, <2>2
  <2>4. \A i \in 1..Len(g) : 5 + i - 1 = 4 + i
    BY <2>1
  <2>5. \A i \in 1..Len(g) : q[i] = g[i]
    BY <1>7, <2>1, <2>2, <2>4
  <2>6. q = g
    BY <1>5, <2>2, <2>3, <2>5
  <2> QED BY <2>6 DEF q
<1>9. simplified(m.status) = <<>> <=> g = <<>>
  BY <1>1, Simplified DEF g
<1>10. StatusFields(f) = simplified(m.status)
  BY <1>8 DEF StatusFields, simplified, g
<1>11. CASE simplified(m.status) = <<>>
  <2>1. Len(g) = 0
    BY <1>9, <1>11
  <2>2. ~(Len(f) >= 5)
    BY <1>7, <2>1
  <2>3. ~r.valid
    BY <2>2 DEF ParseGui, Invalid, f
  <2> HIDE DEF r
  <2> QED BY <1>11, <2>3 DEF r, t
<1>12. CASE simplified(m.status) # <<>>
  <2>1. Len(g) \in Nat /\ Len(g) # 0
    BY <1>5, <1>9, <1>12
  <2>2. Len(f) >= 5
    BY <1>7, <2>1
  <2>3. /\ IsWhole(f[1]) /\ IsNumber(f[2]) /\ IsWhole(f[3]) /\ IsNumber(f[4])
        /\ Value(f[1]) = e /\ Value(f[2]) = n /\ Value(f[3]) = c /\ Value(f[4]) = k
    BY <1>6, <1>7
  <2>4. r = [id |-> "GUI", valid |-> TRUE, error |-> e, temp |-> n, cooler |-> c,
             clock |-> k, status |-> simplified(m.status)]
    BY <1>10, <2>2, <2>3 DEF ParseGui, f
  <2> HIDE DEF r
  <2> QED BY <1>12, <2>4 DEF r, t, e, n, c, k
<1> QED BY <1>11, <1>12

\* Every request knows its class.
LEMMA RequestIds ==
  ASSUME NEW c \in Classes, NEW m \in Requests(c) \cup {Default(c)}
  PROVE  m.id = c
<1>1. CASE m = Default(c)
  BY <1>1 DEF Classes, Default
<1>2. CASE m \in Requests(c)
  BY <1>2 DEF Classes, Requests, Info, TextCommand, NumberCommand, Status, Temp, Hello, Gui
<1> QED BY <1>1, <1>2

\* The contents of default objects are short.
LEMMA DefaultFits ==
  ASSUME NEW c \in Classes, NEW t \in Contents(Default(c))
  PROVE  ~Silent(Default(c)) /\ Len(t) <= MaxLength
<1>1. ~Silent(Default(c))
  BY DEF Silent, Classes, Default
<1>2. MaxLength \in Nat /\ MaxLength >= 8
  BY PacketContentsAssumption
<1>3. Len(t) \in Nat /\ Len(t) <= 8
  <2>1. CASE c = "INFO"
    BY <2>1 DEF Default, Contents
  <2>2. CASE c = "CMD"
    <3>1. t = CmdName(<<>>) \o <<Sp>> \o <<>>
      BY <2>2 DEF Default, Contents, CmdContent
    <3>2. simplified(<<>>) = <<>>
      BY FieldsNone, Simplified, ConstantTypes
    <3>3. CmdName(<<>>) = <<>>
      <4>1. DOMAIN <<>> = {}
        OBVIOUS
      <4>2. DOMAIN CmdName(<<>>) = {}
        BY <3>2, <4>1 DEF CmdName, toUpper
      <4>3. CmdName(<<>>) \in Strings
        BY CmdNameWord, ConstantTypes
      <4> HIDE DEF Strings
      <4>4. Len(CmdName(<<>>)) = 0
        <5>1. /\ Len(CmdName(<<>>)) \in Nat
              /\ DOMAIN CmdName(<<>>) = 1..Len(CmdName(<<>>))
          BY <4>3, Lengths
        <5>2. \A n \in Nat : 1..n = {} => n = 0
          OBVIOUS
        <5> QED BY <4>2, <5>1, <5>2
      <4> QED BY <4>3, <4>4, Lengths
    <3>4. t = <<Sp>>
      <4>1. <<>> \o <<Sp>> \o <<>> = <<Sp>>
        OBVIOUS
      <4> QED BY <3>1, <3>3, <4>1
    <3> QED BY <3>4
  <2>3. CASE c = "STATUS"
    <3>1. t = <<UnknownError>>
      BY <2>3 DEF Default, Contents, StatusContent
    <3> QED BY <3>1
  <2>4. CASE c = "TEMP"
    <3>1. t = <<Rounded6[Zero], Sp, Zero>>
      BY <2>4 DEF Default, Contents, TempContent
    <3> QED BY <3>1
  <2>5. CASE c = "HELLO"
    <3>1. t \in {<<>> \o <<Sp>> \o <<>>, <<>>}
      BY <2>5 DEF Default, Contents, HelloContents
    <3>2. <<>> \o <<Sp>> \o <<>> = <<Sp>>
      OBVIOUS
    <3>3. t = <<Sp>> \/ t = <<>>
      BY <3>1, <3>2
    <3>4. CASE t = <<Sp>>
      BY <3>4
    <3>5. CASE t = <<>>
      BY <3>5
    <3> QED BY <3>3, <3>4, <3>5
  <2>6. CASE c = "GUI"
    <3> DEFINE p == <<Success, Sp, Rounded6[Zero], Sp, TempOff, Sp, Rounded6[Zero], Sp>>
    <3>1. t = p \o <<>>
      BY <2>6 DEF Default, Contents, GuiContent
    <3>2. p \in Strings /\ Len(p) = 8
      <4>1. Success \in Symbols /\ Zero \in Numbers /\ TempOff \in Symbols /\ Sp \in Symbols
        BY ConstantTypes, PacketContentsAssumption
      <4>2. Rounded6[Zero] \in Symbols
        BY <4>1, ConstantTypes
      <4> QED BY <4>1, <4>2 DEF Strings
    <3> HIDE DEF p
    <3>3. Len(t) = Len(p) + Len(<<>>)
      BY <3>1, <3>2, ConstantTypes, Concatenated
    <3> QED BY <3>2, <3>3
  <2> QED BY <2>1, <2>2, <2>3, <2>4, <2>5, <2>6 DEF Classes
<1> QED BY <1>1, <1>2, <1>3

\* A content is a text, whatever it is made of.
LEMMA MadeString ==
  ASSUME NEW c \in Classes, NEW m \in Requests(c), ~Silent(m), NEW t \in Contents(m)
  PROVE  t \in Strings
<1>1. m.id = c
  BY RequestIds
<1>2. CASE c = "INFO"
  BY <1>1, <1>2, ConstantTypes DEF Contents, Requests, Info
<1>3. CASE c = "CMD"
  <2>1. m.name \in Strings
    BY <1>3, ConstantTypes DEF Requests, TextCommand, NumberCommand
  <2> DEFINE u == CmdName(m.name)
             v == IF "text" \in DOMAIN m THEN m.text ELSE NumberArgs(m.numbers)
  <2>2. u \in Strings
    BY <2>1, CmdNameWord
  <2>3. v \in Strings
    <3>1. CASE m \in TextCommand
      BY <3>1, ConstantTypes DEF TextCommand
    <3>2. CASE m \in NumberCommand
      <4>1. /\ "text" \notin DOMAIN m /\ "numbers" \in DOMAIN m /\ m.id = "CMD"
            /\ m.numbers \in Seq(Numbers)
        BY <3>2, ConstantTypes DEF NumberCommand
      <4>2. m.numbers # <<>>
        BY <4>1 DEF Silent
      <4> QED BY <4>1, <4>2, NumbersRead
    <3> QED BY <1>3, <3>1, <3>2 DEF Requests
  <2>4. t = u \o <<Sp>> \o v
    BY <1>1, <1>3 DEF Contents, CmdContent
  <2> HIDE DEF u, v
  <2>5. <<Sp>> \in Strings /\ u \o <<Sp>> \in Strings
    BY <2>2, ConstantTypes, Concatenated
  <2> QED BY <2>3, <2>4, <2>5, Concatenated
<1>4. CASE c = "STATUS"
  <2>1. t = StatusContent(m) /\ m.code \in Numbers /\ m.text \in Strings
    BY <1>1, <1>4, ConstantTypes DEF Contents, Requests, Status
  <2>2. <<m.code>> \in Strings /\ <<m.code, Sp>> \in Strings
    BY <2>1, Numeral
  <2>3. <<m.code, Sp>> \o m.text \in Strings
    BY <2>1, <2>2, Concatenated
  <2> QED BY <2>1, <2>2, <2>3 DEF StatusContent
<1>5. CASE c = "TEMP"
  <2>1. t = TempContent(m) /\ m.temp \in Numbers /\ m.cooler \in Numbers
    BY <1>1, <1>5, ConstantTypes DEF Contents, Requests, Temp
  <2>2. Rounded6[m.temp] \in Symbols /\ m.cooler \in Symbols /\ Sp \in Symbols
    BY <2>1, ConstantTypes
  <2> QED BY <2>1, <2>2 DEF TempContent, Strings
<1>6. CASE c = "HELLO"
  <2>1. t \in HelloContents(m) /\ m.type \in Strings /\ m.version \in Strings
    BY <1>1, <1>6, ConstantTypes DEF Contents, Requests, Hello
  <2>2. <<Sp>> \in Strings /\ m.type \o <<Sp>> \in Strings
    BY <2>1, ConstantTypes, Concatenated
  <2>3. m.type \o <<Sp>> \o m.version \in Strings
    BY <2>1, <2>2, Concatenated
  <2> QED BY <2>1, <2>3 DEF HelloContents
<1>7. CASE c = "GUI"
  <2>1. /\ m.error \in Numbers /\ m.cooler \in Numbers
        /\ m.temp \in Numbers /\ m.clock \in Numbers /\ m.status \in Strings
    <3>1. StatusTexts \subseteq Strings
      BY ConstantTypes, PacketContentsAssumption
    <3> QED BY <1>7, <3>1, ConstantTypes DEF Requests, Gui
  <2> DEFINE p == <<m.error, Sp, Rounded6[m.temp], Sp, m.cooler, Sp, Rounded6[m.clock], Sp>>
  <2>2. p \in Strings
    <3>1. /\ m.error \in Symbols /\ m.cooler \in Symbols /\ Sp \in Symbols
          /\ Rounded6[m.temp] \in Symbols /\ Rounded6[m.clock] \in Symbols
      BY <2>1, ConstantTypes
    <3> QED BY <3>1 DEF Strings
  <2>3. t = p \o m.status
    BY <1>1, <1>7 DEF Contents, GuiContent
  <2> HIDE DEF p
  <2> QED BY <2>1, <2>2, <2>3, Concatenated
<1> QED BY <1>2, <1>3, <1>4, <1>5, <1>6, <1>7 DEF Classes

-----------------------------------------------------------------------------
\* A packet is made of what an object of its class was told to hold, or held
\* from the beginning.
PacketMade ==
  \E m \in Sent(asked.id) : \E t \in Contents(m) : packet = [of |-> m, content |-> t]

\* What the receiver read is what the class it expects makes of such a packet.
ReadMade ==
  \/ read = Nothing
  \/ \E c \in Classes, d \in Classes : \E m \in Sent(d) : \E t \in Contents(m) :
       read = [expected |-> c, of |-> m,
               is |-> IF d # c THEN Invalid(c) ELSE ParseContent(c, t)]

ObjectInv ==
  /\ asked.id \in Classes
  /\ PacketMade
  /\ wire = <<>> \/ wire = <<packet>>
  /\ ReadMade
  /\ SentOrStale

\* Default objects.
LEMMA ObjectStarts == ObjectInit => ObjectInv
<1> SUFFICES ASSUME ObjectInit PROVE ObjectInv
  OBVIOUS
<1>1. PICK c \in Classes : asked = Default(c)
  BY DEF ObjectInit
<1>2. PICK t \in Contents(asked) : packet = [of |-> asked, content |-> t]
  BY DEF ObjectInit
<1>3. asked.id = c /\ ~Silent(asked) /\ Len(t) <= MaxLength
  BY <1>1, <1>2, RequestIds, DefaultFits
<1>4. asked \in Sent(asked.id)
  BY <1>1, <1>3 DEF Sent
<1>5. PacketMade
  BY <1>2, <1>4 DEF PacketMade
<1>6. SentOrStale
  BY <1>2, <1>3 DEF SentOrStale
<1> QED BY <1>3, <1>5, <1>6 DEF ObjectInv, ObjectInit, ReadMade

\* One step of the sender or the receiver.
LEMMA ObjectStep == ObjectInv /\ [ObjectNext]_objectVars => ObjectInv'
<1> SUFFICES ASSUME ObjectInv, [ObjectNext]_objectVars PROVE ObjectInv'
  OBVIOUS
<1>1. ASSUME NEW m \in Requests(asked.id), Set(m) PROVE ObjectInv'
  <2>1. PICK t \in Contents(m) :
          packet' = IF Silent(m) \/ ~Fits(t) THEN packet ELSE [of |-> m, content |-> t]
    BY <1>1 DEF Set
  <2>2. /\ asked' = m /\ wire' = <<>> /\ read' = Nothing
        /\ m.id = asked.id /\ asked.id \in Classes
    BY <1>1, RequestIds DEF Set, ObjectInv
  <2>3. CASE Silent(m) \/ ~Fits(t)
    <3>1. packet' = packet /\ asked'.id = asked.id
      BY <2>1, <2>2, <2>3
    <3>2. PacketMade'
      BY <3>1 DEF ObjectInv, PacketMade
    <3>3. ~Silent(m) => Len(t) > MaxLength
      <4>1. SUFFICES ASSUME ~(Len(t) <= MaxLength), ~Silent(m) PROVE Len(t) > MaxLength
        BY <2>3 DEF Fits
      <4>2. t \in Strings
        BY <2>2, <4>1, MadeString
      <4> QED BY <4>1, <4>2, Lengths, PacketContentsAssumption
    <3>4. SentOrStale'
      BY <2>1, <2>2, <3>1, <3>3 DEF ObjectInv, SentOrStale
    <3> QED BY <2>2, <3>1, <3>2, <3>4 DEF ObjectInv, ReadMade
  <2>4. CASE ~Silent(m) /\ Fits(t)
    <3>1. packet' = [of |-> m, content |-> t] /\ m \in Sent(asked.id)
      BY <2>1, <2>4 DEF Sent
    <3>2. PacketMade'
      BY <2>2, <3>1 DEF PacketMade
    <3>3. SentOrStale'
      BY <2>2, <2>4, <3>1 DEF SentOrStale, Fits
    <3> QED BY <2>2, <3>2, <3>3 DEF ObjectInv, ReadMade
  <2> QED BY <2>3, <2>4
<1>2. ASSUME SendPacket PROVE ObjectInv'
  BY <1>2 DEF ObjectInv, SendPacket, PacketMade, ReadMade, SentOrStale
<1>3. ASSUME NEW c \in Classes, Receive(c) PROVE ObjectInv'
  <2>1. wire = <<packet>> /\ wire[1] = packet
    BY <1>3 DEF Receive, ObjectInv
  <2>2a. PICK m \in Sent(asked.id) :
           \E t \in Contents(m) : packet = [of |-> m, content |-> t]
    BY DEF ObjectInv, PacketMade
  <2>2. PICK t \in Contents(m) : packet = [of |-> m, content |-> t]
    BY <2>2a
  <2>3. asked.id \in Classes /\ m.id = asked.id
    BY RequestIds DEF ObjectInv, Sent
  <2>4. read' = [expected |-> c, of |-> m,
                 is |-> IF asked.id # c THEN Invalid(c) ELSE ParseContent(c, t)]
    BY <1>3, <2>1, <2>2, <2>3 DEF Receive
  <2>5. ReadMade'
    BY <2>3, <2>4 DEF ReadMade
  <2> QED BY <1>3, <2>5 DEF Receive, ObjectInv, PacketMade, SentOrStale
<1>4. ASSUME UNCHANGED objectVars PROVE ObjectInv'
  BY <1>4 DEF ObjectInv, objectVars, PacketMade, ReadMade, SentOrStale
<1> QED BY <1>1, <1>2, <1>3, <1>4 DEF ObjectNext

LEMMA ObjectInvHolds == ObjectSpec => []ObjectInv
BY ObjectStarts, ObjectStep, PTL DEF ObjectSpec

\* A packet read as one of its own class was made of a request of that class.
LEMMA ReadOfClass ==
  ASSUME ObjectInv, NEW c \in Classes, Reads(c)
  PROVE  /\ read.of \in Sent(c)
         /\ \E t \in Contents(read.of) : read.is = ParseContent(c, t)
<1>1. read # Nothing
  BY DEF Reads, Nothing, Classes
<1>1a. PICK e \in Classes, d \in Classes :
         \E m \in Sent(d) : \E t \in Contents(m) :
           read = [expected |-> e, of |-> m,
                   is |-> IF d # e THEN Invalid(e) ELSE ParseContent(e, t)]
  BY <1>1 DEF ObjectInv, ReadMade
<1>1b. PICK m \in Sent(d) :
         \E t \in Contents(m) :
           read = [expected |-> e, of |-> m,
                   is |-> IF d # e THEN Invalid(e) ELSE ParseContent(e, t)]
  BY <1>1a
<1>2. PICK t \in Contents(m) :
        read = [expected |-> e, of |-> m,
                is |-> IF d # e THEN Invalid(e) ELSE ParseContent(e, t)]
  BY <1>1b
<1>3. m.id = d
  BY RequestIds DEF Sent
<1>4. e = c /\ d = c
  BY <1>2, <1>3 DEF Reads
<1> QED BY <1>2, <1>4

\* What ParseCmd and the getters give for a CMD packet is the command that the
\* client put into it, for every name, text and vector of numbers.
THEOREM CommandsUnderstood == ObjectSpec => []CommandUnderstood
<1>1. ASSUME ObjectInv PROVE CommandUnderstood
  <2> SUFFICES ASSUME Reads("CMD")
               PROVE  /\ read.is.valid
                      /\ read.is.name = CmdName(read.of.name)
                      /\ "text" \in DOMAIN read.of =>
                           trimmed(read.is.text) = trimmed(read.of.text)
                      /\ "numbers" \in DOMAIN read.of =>
                           /\ read.is.numbers = [i \in DOMAIN read.of.numbers |->
                                                  Rounded12[read.of.numbers[i]]]
                           /\ read.is.isNumber <=> Len(read.of.numbers) = 1
    BY DEF CommandUnderstood
  <2>1. "CMD" \in Classes
    BY DEF Classes
  <2>2. PICK t \in Contents(read.of) : read.is = ParseContent("CMD", t)
    BY <1>1, <2>1, ReadOfClass
  <2>3. read.of \in Sent("CMD") /\ read.of.id = "CMD"
    BY <1>1, <2>1, ReadOfClass DEF Reads
  <2>4. read.is = ParseCmd(CmdContent(read.of))
    BY <2>2, <2>3 DEF Contents, ParseContent
  <2> QED BY <2>3, <2>4, CmdRead
<1> QED BY <1>1, ObjectInvHolds, PTL

\* The code of a status, the temperature and the state of the cooler, and the
\* type in a HELLO arrive as they were set, for every text and version.
THEOREM AnswersUnderstood == ObjectSpec => []AnswerUnderstood
<1>1. ASSUME ObjectInv PROVE AnswerUnderstood
  <2>1. ASSUME Reads("STATUS")
        PROVE  /\ read.is.valid /\ read.is.code = read.of.code
               /\ trimmed(read.is.text) = trimmed(read.of.text)
    <3>1. "STATUS" \in Classes
      BY DEF Classes
    <3>2. PICK t \in Contents(read.of) : read.is = ParseContent("STATUS", t)
      BY <1>1, <2>1, <3>1, ReadOfClass
    <3>3. read.of \in Sent("STATUS") /\ read.of.id = "STATUS"
      BY <1>1, <2>1, <3>1, ReadOfClass DEF Reads
    <3>4. read.is = ParseStatus(StatusContent(read.of))
      BY <3>2, <3>3 DEF Contents, ParseContent
    <3> QED BY <3>3, <3>4, StatusRead
  <2>2. ASSUME Reads("TEMP")
        PROVE  /\ read.is.valid /\ ~read.is.unread
               /\ read.is.temp = Rounded6[read.of.temp]
               /\ read.is.cooler = <<read.of.cooler>>
    <3>1. "TEMP" \in Classes
      BY DEF Classes
    <3>2. PICK t \in Contents(read.of) : read.is = ParseContent("TEMP", t)
      BY <1>1, <2>2, <3>1, ReadOfClass
    <3>3. read.of \in Sent("TEMP") /\ read.of.id = "TEMP"
      BY <1>1, <2>2, <3>1, ReadOfClass DEF Reads
    <3>4. read.is = ParseTemp(TempContent(read.of))
      BY <3>2, <3>3 DEF Contents, ParseContent
    <3> QED BY <3>3, <3>4, TempRead
  <2>3. ASSUME Reads("HELLO")
        PROVE  /\ read.is.type = read.of.type
               /\ trimmed(read.is.version) = trimmed(read.of.version)
    <3>1. "HELLO" \in Classes
      BY DEF Classes
    <3>2. PICK t \in Contents(read.of) : read.is = ParseContent("HELLO", t)
      BY <1>1, <2>3, <3>1, ReadOfClass
    <3>3. read.of \in Sent("HELLO") /\ read.of.id = "HELLO"
      BY <1>1, <2>3, <3>1, ReadOfClass DEF Reads
    <3>4. t \in HelloContents(read.of) /\ read.is = ParseHello(t)
      BY <3>2, <3>3 DEF Contents, ParseContent
    <3> QED BY <3>3, <3>4, HelloRead
  <2> QED BY <2>1, <2>2, <2>3 DEF AnswerUnderstood
<1> QED BY <1>1, ObjectInvHolds, PTL

\* A GUI reads every state whose status has a word, and refuses every other one,
\* for all texts: the five fields are never mistaken for one another.
THEOREM StatesUnderstood == ObjectSpec => []StateUnderstood
<1>1. ASSUME ObjectInv PROVE StateUnderstood
  <2> SUFFICES ASSUME Reads("GUI")
               PROVE  IF simplified(read.of.status) = <<>> THEN ~read.is.valid
                      ELSE read.is = [id |-> "GUI", valid |-> TRUE,
                                      error |-> read.of.error,
                                      temp |-> Rounded6[read.of.temp],
                                      cooler |-> read.of.cooler,
                                      clock |-> Rounded6[read.of.clock],
                                      status |-> simplified(read.of.status)]
    BY DEF StateUnderstood
  <2>1. "GUI" \in Classes
    BY DEF Classes
  <2>2. PICK t \in Contents(read.of) : read.is = ParseContent("GUI", t)
    BY <1>1, <2>1, ReadOfClass
  <2>3. read.of \in Sent("GUI") /\ read.of.id = "GUI"
    BY <1>1, <2>1, ReadOfClass DEF Reads
  <2>4. read.is = ParseGui(GuiContent(read.of))
    BY <2>2, <2>3 DEF Contents, ParseContent
  <2> QED BY <2>3, <2>4, GuiRead
<1> QED BY <1>1, ObjectInvHolds, PTL

\* What Send writes fits the size field and is the last request, or one before it
\* if the last one made no packet.
THEOREM SentOrStaleHolds == ObjectSpec => []SentOrStale
<1>1. ObjectInv => SentOrStale
  BY DEF ObjectInv
<1> QED BY <1>1, ObjectInvHolds, PTL
=============================================================================
