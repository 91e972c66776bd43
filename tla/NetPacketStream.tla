--------------------------- MODULE NetPacketStream ---------------------------
(***************************************************************************)
(* The way of a packet from NetPacket::Send of a client to ExecuteCommand  *)
(* of the server (net_protocol/netpacket.cpp, netpackethandler.cpp).       *)
(*                                                                         *)
(* TCP delivers the bytes in order, cut anywhere.  NetPacketHandler reads  *)
(* them in its own thread: a packet of which only a part has arrived is    *)
(* left half read, and the next readyRead() goes on from there.  A byte is *)
(* a pair <<p, k>>, the k-th byte of packet p; which bytes a header or a   *)
(* content is made of is all that the framing can tell apart.              *)
(*                                                                         *)
(* waitForReadyRead() emits readyRead() itself when bytes arrive while it  *)
(* waits, in the thread of the handler, where the connection of            *)
(* server.cpp:288 is a direct call: a second ReadDataStream runs inside of *)
(* the Receive of the first (Qt emits no third from the wait of the        *)
(* second).  When it completes the packet, it replaces it, and the first   *)
(* goes on receiving into the object that was replaced.                    *)
(***************************************************************************)
EXTENDS Naturals, Sequences, SequencesExt

CONSTANTS
  Packets,     \* the packets that clients send
  Ids,         \* NetPacketID
  Unknown,     \* PACKET_ID_UNKNOWN
  Id,          \* Id[p]: the id of p
  InfoId,      \* PACKET_ID_INFO, the id of new NetPacket()
  Known,       \* the ids that ReadDataStream has a case for
  Chars,       \* Chars[p]: QString::length() of p's content
  Bytes,       \* Bytes[p]: length of its UTF-8 form
  HeaderLen,   \* NETPROTOCOL_ID_FIELD_LEN + NETPROTOCOL_SIZE_FIELD_LEN
  MaxLen,      \* NETPROTOCOL_MAX_CONTENT_LEN
  Inits,       \* the packets that carry the INIT command
  AwaitsInit,  \* TRUE: a client sends nothing until its INIT was executed
  MaxPackets   \* bound: packets sent

ASSUME StreamAssumption ==
  /\ Id \in [Packets -> Ids] /\ Known \subseteq Ids
  /\ Unknown \in Ids \ Known /\ InfoId \in Known
  /\ Chars \in [Packets -> Nat] /\ Bytes \in [Packets -> Nat]
  /\ \A p \in Packets : Chars[p] <= Bytes[p]
  /\ HeaderLen \in Nat \ {0} /\ MaxLen \in Nat
  /\ Inits \subseteq Packets /\ AwaitsInit \in BOOLEAN
  /\ MaxPackets \in Nat

VARIABLES
  sent,         \* history: what Send was asked to send
  made,         \* the sender's Packet, as MakePacket left it
  net,          \* bytes on their way
  buffer,       \* bytes that the server's socket holds
  wake,         \* a readyRead() is posted to the handler's thread
  at,           \* where ReadDataStream is; "idle": not running
  valid,        \* ValidPacket of the packet being received
  id,           \* its ID
  contentLen,   \* its Content_LEN
  failed,       \* its packetError is not PACKET_ERROR_OK
  outer,        \* where the outer ReadDataStream waits while an inner one runs
  stale,        \* the outer one receives into a packet that was replaced
  staleLen,     \* Content_LEN of that packet
  receiveQueue, \* receive_queue
  posted,       \* PacketIsReceived() signals posted to the server thread
  got,          \* history: what ExecuteCommand took
  crashed,      \* ExecuteCommand used the null packet of an empty queue
  spoiled,      \* history: an inner ReadDataStream has taken bytes
  strange       \* history: a packet of unknown id was received

senderVars == <<sent, made>>
packetVars == <<valid, id, contentLen>>
callVars == <<outer, stale, staleLen>>
serverVars == <<posted, got, crashed>>
vars == <<senderVars, net, buffer, wake, at, packetVars, failed, callVars,
          receiveQueue, serverVars, spoiled, strange>>

-----------------------------------------------------------------------------
\* MakePacket: the size field is the number of characters, the content that
\* follows is in bytes.
Wire(p) == [k \in 1..(HeaderLen + Bytes[p]) |-> <<p, k>>]
Header(p) == SubSeq(Wire(p), 1, HeaderLen)
Text(p) == SubSeq(Wire(p), HeaderLen + 1, HeaderLen + Bytes[p])
Message(p) == [id |-> Id[p], text |-> Text(p)]

\* What may come of reading h as a header: the header of a packet reads as that
\* packet's.  Any other bytes may still read as numbers; if they do not, the
\* length keeps its old value or becomes 0, and the buffer may be emptied.
Readings(h, old) ==
  IF \E p \in Packets : h = Header(p)
  THEN {[ok |-> TRUE, id |-> Id[p], len |-> Chars[p], drop |-> FALSE] :
          p \in {q \in Packets : h = Header(q)}}
  ELSE [ok : {TRUE}, id : Ids, len : 0..MaxLen, drop : {FALSE}]
         \cup [ok : {FALSE}, id : Ids, len : {0, old}, drop : BOOLEAN]

\* A packet that ExecuteCommand has not taken yet carries INIT.
InitPending ==
  \E k \in (Len(got) + 1)..Len(sent) : \E p \in Inits : sent[k] = Message(p)

-----------------------------------------------------------------------------
\* SetContent and Send of the client.  A content that is too long is not made
\* into a packet, and Send writes the bytes of the packet before it.
Send(p) ==
  /\ Len(sent) < MaxPackets
  /\ AwaitsInit => ~InitPending
  /\ sent' = Append(sent, Message(p))
  /\ made' = IF Chars[p] > MaxLen THEN made ELSE Wire(p)
  /\ net' = net \o made'
  /\ UNCHANGED <<buffer, wake, at, packetVars, failed, callVars, receiveQueue,
                 serverVars, spoiled, strange>>

\* n bytes reach the server's socket (external: TCP).
Take(n) ==
  /\ buffer' = buffer \o SubSeq(net, 1, n)
  /\ net' = SubSeq(net, n + 1, Len(net))

\* The server's thread takes bytes in.  It emits readyRead(), unless the
\* handler's thread is inside of an emission.
Arrive ==
  /\ \E n \in 1..Len(net) : Take(n)
  /\ wake' = (wake \/ outer = "none")
  /\ UNCHANGED <<senderVars, at, packetVars, failed, callVars, receiveQueue,
                 serverVars, spoiled, strange>>

\* Where Receive goes on (mutant: always with a header).
Resume_Restart == "header"
Resume == IF valid THEN "header" ELSE "content"

\* The handler's thread takes up a readyRead().
ReadDataStream ==
  /\ at = "idle"
  /\ wake
  /\ wake' = FALSE
  /\ at' = Resume
  /\ UNCHANGED <<senderVars, net, buffer, packetVars, failed, callVars,
                 receiveQueue, serverVars, spoiled, strange>>

\* The ReadDataStream that runs receives into a packet that was replaced.
OnStale == stale /\ outer = "none"

\* The bytes that Receive waits for are there.
Available(n) == Len(buffer) >= n

Waiting ==
  \/ at = "header" /\ ~Available(HeaderLen)
  \/ at = "content" /\ ~Available(IF OnStale THEN staleLen ELSE contentLen)

\* waitForReadyRead() of the handler's thread takes bytes in and emits
\* readyRead(): the inner ReadDataStream begins.
Reenter ==
  /\ Waiting
  /\ outer = "none"
  /\ \E n \in 1..Len(net) : Take(n)
  /\ outer' = at
  /\ at' = Resume
  /\ UNCHANGED <<senderVars, wake, packetVars, failed, stale, staleLen,
                 receiveQueue, serverVars, spoiled, strange>>

\* ReadDataStream returns: an outer one tests again for the bytes that it waits
\* for.
Return ==
  /\ at' = IF outer = "none" THEN "idle" ELSE outer
  /\ outer' = "none"
  /\ UNCHANGED <<stale, staleLen>>

\* waitForReadyRead() runs into its timeout: PACKET_ERROR_WAIT.  What the
\* server's thread takes in during an inner wait is announced to nobody.
Wait ==
  /\ Waiting
  /\ IF outer = "none" THEN UNCHANGED <<net, buffer>>
                       ELSE \E n \in 0..Len(net) : Take(n)
  /\ IF OnStale THEN at' = "test" /\ UNCHANGED <<failed, callVars>>
                ELSE failed' = TRUE /\ Return
  /\ UNCHANGED <<senderVars, wake, packetVars, receiveQueue, serverVars,
                 spoiled, strange>>

\* Content_LEN (mutant: the size field is taken to count the header as well).
Length_Whole(r) == r.len - HeaderLen
Length(r) == r.len

\* What is left of the buffer behind a header.
BehindHeader(r) ==
  IF r.drop THEN <<>> ELSE SubSeq(buffer, HeaderLen + 1, Len(buffer))

ReadHeader ==
  /\ at = "header" /\ ~OnStale
  /\ Available(HeaderLen)
  /\ valid' = FALSE
  /\ \E r \in Readings(SubSeq(buffer, 1, HeaderLen), contentLen) :
       /\ id' = r.id
       /\ contentLen' = Length(r)
       /\ buffer' = BehindHeader(r)
       /\ IF r.ok THEN at' = "content" /\ UNCHANGED <<failed, callVars>>
                  ELSE failed' = TRUE /\ Return
  /\ spoiled' = (spoiled \/ outer # "none")
  /\ UNCHANGED <<senderVars, net, wake, receiveQueue, serverVars, strange>>

\* The packet joins receive_queue when its id is known (mutant: some ids have
\* no case; PacketIsReceived() is emitted all the same).
Enqueue_Forgets(m) ==
  receiveQueue' = IF m.text = <<>> THEN receiveQueue ELSE Append(receiveQueue, m)
Enqueue(m) ==
  receiveQueue' = IF m.id \in Known THEN Append(receiveQueue, m)
                                    ELSE receiveQueue

\* A packet is announced, and a new one takes its place.
Announce(m) ==
  /\ Enqueue(m)
  /\ strange' = (strange \/ m.id \notin Known)
  /\ posted' = posted + 1
  /\ valid' = TRUE /\ id' = InfoId /\ contentLen' = 0 /\ failed' = FALSE
  /\ at' = "more"

\* The content is complete.
ReadContent ==
  /\ at = "content" /\ ~OnStale
  /\ Available(contentLen)
  /\ Announce([id |-> id, text |-> SubSeq(buffer, 1, contentLen)])
  /\ buffer' = SubSeq(buffer, contentLen + 1, Len(buffer))
  /\ stale' = (outer # "none")
  /\ staleLen' = IF stale THEN staleLen ELSE contentLen
  /\ spoiled' = (spoiled \/ outer # "none")
  /\ UNCHANGED <<senderVars, net, wake, outer, got, crashed>>

\* The outer ReadDataStream reads into the packet that was replaced.
ReadStale ==
  /\ OnStale
  /\ \/ /\ at = "header" /\ Available(HeaderLen)
        /\ \E r \in Readings(SubSeq(buffer, 1, HeaderLen), staleLen) :
             /\ staleLen' = Length(r)
             /\ buffer' = BehindHeader(r)
             /\ at' = IF r.ok THEN "content" ELSE "test"
     \/ /\ at = "content" /\ Available(staleLen)
        /\ buffer' = SubSeq(buffer, staleLen + 1, Len(buffer))
        /\ at' = "test"
        /\ UNCHANGED staleLen
  /\ UNCHANGED <<senderVars, net, wake, packetVars, failed, outer, stale,
                 receiveQueue, serverVars, spoiled, strange>>

\* It then looks at the new packet, into which it has received nothing.
TestPacket ==
  /\ at = "test"
  /\ stale' = FALSE
  /\ IF failed
     THEN at' = "idle" /\ UNCHANGED <<packetVars, failed, receiveQueue, posted, strange>>
     ELSE Announce([id |-> id, text |-> <<>>])
  /\ UNCHANGED <<senderVars, net, buffer, wake, outer, staleLen, got, crashed,
                 spoiled>>

\* The bytes that are left are read at once (mutant: they wait for the next
\* readyRead()).
ReadRemained_Not == Return
ReadRemained ==
  IF buffer # <<>> THEN at' = "header" /\ UNCHANGED callVars ELSE Return

ReadMore ==
  /\ at = "more"
  /\ ReadRemained
  /\ UNCHANGED <<senderVars, net, buffer, wake, packetVars, failed,
                 receiveQueue, serverVars, spoiled, strange>>

\* ExecuteCommand takes a packet with GetPacket.  INIT begins with Reset(), which the server
\* thread applies to the packet that the handler is receiving.
Execute ==
  /\ ~crashed
  /\ posted > 0
  /\ posted' = posted - 1
  /\ IF receiveQueue = <<>>
     THEN crashed' = TRUE /\ UNCHANGED <<receiveQueue, got, packetVars, failed>>
     ELSE /\ got' = Append(got, Head(receiveQueue))
          /\ receiveQueue' = Tail(receiveQueue)
          /\ IF \E p \in Inits : Head(receiveQueue) = Message(p)
             THEN /\ valid' = TRUE /\ contentLen' = 0 /\ id' = Unknown
                  /\ failed' = FALSE
             ELSE UNCHANGED <<packetVars, failed>>
          /\ UNCHANGED crashed
  /\ UNCHANGED <<senderVars, net, buffer, wake, at, callVars, spoiled, strange>>

-----------------------------------------------------------------------------
Init ==
  /\ sent = <<>> /\ got = <<>>
  /\ made = <<>>
  /\ net = <<>> /\ buffer = <<>>
  /\ wake = FALSE /\ at = "idle"
  /\ valid = TRUE /\ id \in {InfoId, Unknown} /\ contentLen = 0
  /\ failed = FALSE
  /\ outer = "none" /\ stale = FALSE /\ staleLen = 0
  /\ receiveQueue = <<>> /\ posted = 0
  /\ crashed = FALSE
  /\ spoiled = FALSE /\ strange = FALSE

Handler ==
  \/ ReadDataStream
  \/ Wait
  \/ ReadHeader
  \/ ReadContent
  \/ ReadStale
  \/ TestPacket
  \/ ReadMore

Next ==
  \/ \E p \in Packets : Send(p)
  \/ Arrive
  \/ Reenter
  \/ Handler
  \/ Execute

Spec == Init /\ [][Next]_vars

\* TCP delivers, and both threads of the server run.
FairSpec == Spec /\ WF_vars(Arrive) /\ WF_vars(Handler) /\ WF_vars(Execute)

-----------------------------------------------------------------------------
\* The types of all variables.
TypeOK ==
  LET Received == [id : Ids, text : Seq(Packets \X Nat)]
  IN /\ {sent, got, receiveQueue} \subseteq Seq(Received)
     /\ {made, net, buffer} \subseteq Seq(Packets \X Nat)
     /\ wake \in BOOLEAN /\ valid \in BOOLEAN /\ crashed \in BOOLEAN
     /\ failed \in BOOLEAN /\ stale \in BOOLEAN
     /\ spoiled \in BOOLEAN /\ strange \in BOOLEAN
     /\ at \in {"idle", "header", "content", "test", "more"}
     /\ outer \in {"none", "header", "content"}
     /\ id \in Ids /\ contentLen \in Nat /\ staleLen \in Nat /\ posted \in Nat

\* No inner ReadDataStream has taken anything, and no id was unknown.
Intact == ~spoiled /\ ~strange

\* Framing is not lost as long as inner calls only wait: the bytes not read yet
\* begin with a header when the handler expects one, and with the content of
\* the packet it has begun otherwise (netpacket.cpp:178-248), wherever the bytes
\* were cut and however often Receive gave up.
InSync ==
  Intact =>
    LET rest == buffer \o net
    IN IF valid
       THEN rest = <<>> \/ \E p \in Packets : IsPrefix(Header(p), rest)
       ELSE \E p \in Packets : /\ id = Id[p] /\ contentLen = Bytes[p]
                               /\ IsPrefix(Text(p), rest)

\* Every PacketIsReceived() finds a packet in receive_queue, even after framing
\* was lost: ExecuteCommand dereferences the null pointer of GetPacket
\* (server.cpp:329-331) only after a packet of unknown id was announced
\* (netpackethandler.cpp:149, 160).
SignalHasPacket == strange \/ (posted <= Len(receiveQueue) /\ ~crashed)

\* The packets executed are those sent, in their order, whole and once.
Channel == INSTANCE PacketChannel
             WITH Messages <- {Message(p) : p \in Packets},
                  broken <- ~Intact

\* Until an inner call takes bytes, the byte stream implements the channel of
\* packets, and delivers them all: no readyRead() is lost between two reads
\* (netpackethandler.cpp:105-165).
ImplementsChannel == Channel!FairSpec
=============================================================================
