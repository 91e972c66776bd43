------------------------- MODULE MCNetPacketStream -------------------------
(* A small instance of NetPacketStream: an INFO packet with an empty content, *)
(* the INIT command with letters that are one byte each, and a packet of      *)
(* unknown id.                                                                *)
EXTENDS NetPacketStream

CONSTANTS info, init, odd, INFO, CMD, UNKNOWN

MCPackets == {info, init, odd}
MCKnown == {INFO, CMD}
MCIds == {INFO, CMD, UNKNOWN}
MCId == [p \in Packets |->
           CASE p = info -> INFO [] p = init -> CMD [] p = odd -> UNKNOWN]
MCChars == [p \in Packets |-> IF p = init THEN 2 ELSE 0]
MCBytes == Chars
MCInits == {init}
=============================================================================
