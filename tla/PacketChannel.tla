---------------------------- MODULE PacketChannel ----------------------------
(***************************************************************************)
(* What the packet layer promises to the commands above it: a client's     *)
(* packets are executed in the order they were sent, each once and whole,  *)
(* until the layer has lost its place in the stream.                       *)
(***************************************************************************)
EXTENDS Naturals, Sequences

CONSTANTS Messages, MaxPackets

VARIABLES
  sent,   \* the packets that the client was asked to send
  got,    \* the packets that ExecuteCommand took
  broken  \* the promise holds no more

Init == sent = <<>> /\ got = <<>> /\ broken = FALSE

Send(m) ==
  /\ Len(sent) < MaxPackets
  /\ sent' = Append(sent, m)
  /\ UNCHANGED <<got, broken>>

Deliver ==
  /\ ~broken
  /\ Len(got) < Len(sent)
  /\ got' = Append(got, sent[Len(got) + 1])
  /\ UNCHANGED <<sent, broken>>

\* The promise ends; nothing is executed by this.
Break ==
  /\ ~broken
  /\ broken' = TRUE
  /\ UNCHANGED <<sent, got>>

\* Something is executed, whatever it is; what was executed stays so.
Misdeliver ==
  /\ broken
  /\ Len(got') = Len(got) + 1
  /\ got = SubSeq(got', 1, Len(got))
  /\ UNCHANGED <<sent, broken>>

Next == Deliver \/ Break \/ Misdeliver \/ \E m \in Messages : Send(m)

Spec == Init /\ [][Next]_<<sent, got, broken>>

\* Every packet sent is executed in the end, unless the promise ends.
FairSpec == Spec /\ WF_<<sent, got, broken>>(Deliver)
=============================================================================
