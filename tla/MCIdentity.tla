----------------------------- MODULE MCIdentity -----------------------------
(* Identity for TLC: two threads that begin, and a process that crashes.     *)
EXTENDS Identity

CONSTANTS t1, t2

MCThreads == {t1, t2}
=============================================================================
