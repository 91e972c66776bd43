------------------------------ MODULE MCSession ------------------------------
(* Small instances of Session: two connections from allowed addresses and    *)
(* one from another.                                                         *)
EXTENDS Session

CONSTANTS a, b, stranger

MCClients == {a, b, stranger}
MCAllowed == {a, b}
=============================================================================
