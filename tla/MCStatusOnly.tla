---------------------------- MODULE MCStatusOnly ----------------------------
(* StatusOnly for TLC: two clients of one server.                            *)
EXTENDS StatusOnly

CONSTANTS c1, c2

MCClients == {c1, c2}
=============================================================================
