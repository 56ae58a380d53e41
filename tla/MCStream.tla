------------------------------ MODULE MCStream ------------------------------
(* Stream for TLC: viewers that connect, stay or hang up.                    *)
EXTENDS Stream

CONSTANTS v1, v2

MCViewers == {v1, v2}
=============================================================================
