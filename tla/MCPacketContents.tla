--------------------------- MODULE MCPacketContents ---------------------------
(* A small instance of PacketContents: two words, one of them the upper case  *)
(* of the other; a number of more than 12 digits, what is left of it with 12, *)
(* and with 6.                                                                *)
EXTENDS PacketContents

CONSTANTS low, up, finest, fine, coarse

MCPieces == {low, up, Joint}
MCUpper == [p \in MCPieces |-> IF p = low THEN up ELSE p]
MCNumbers == {Zero, UnknownError, finest, fine, coarse}
MCGiven == {Zero, finest}
MCWhole == {Zero, UnknownError}
MCRounded12 == [x \in MCNumbers |-> IF x = finest THEN fine ELSE x]
MCRounded6 == [x \in MCNumbers |-> IF x \in {finest, fine} THEN coarse ELSE x]
MCLong == <<low, Sp, low, Sp, low, Sp, low, Sp, low, Sp, low, Sp, low>>
\* White space in front, between, behind, and nothing else; and a long text.
MCTexts == {<<>>, <<Sp>>, <<low>>, <<low, Sp, up>>, <<Sp, low, Sp, Sp, up, Sp>>,
            MCLong}
MCStatusTexts == MCTexts \ {MCLong}
MCVectors == {<<>>, <<finest>>, <<Zero, fine, finest>>}
=============================================================================
