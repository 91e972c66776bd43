----------------------------- MODULE MCStateFeed -----------------------------
(* A small instance of StateFeed: one GUI.                                   *)
EXTENDS StateFeed

CONSTANT g1

MCGuis == {g1}
=============================================================================
