------------------------------- MODULE MCMesh -------------------------------
(* Mesh for TLC: the sketch's thread and another that begins and ends.       *)
EXTENDS Mesh

CONSTANTS t1, t2

MCThreads == {t1, t2}

\* One thread that begins again on a second board, also beside the node of a
\* begin it gave up on; a subscriber of either node may sleep through the end.
OnTwoBoards ==
  /\ boards = 1 /\ \A t \in Threads : pc[t] = IF t = Sketch THEN "idle" ELSE "away"
  /\ reads = 0 /\ \A g \in Nodes : pin[g] = "free" /\ flips[g] = MaxFlips

\* All threads race through begin, service and end on one board, of which the
\* owner pin changes; nobody sleeps.
InARace ==
  /\ boards = MaxBoards /\ \A t \in Threads : pc[t] = "idle"
  /\ reads = MaxReads /\ \A g, h \in Nodes : pin[g] = pin[h] /\ flips[g] = 0

MCInit == Init /\ (OnTwoBoards \/ InARace)

MCSpec == MCInit /\ [][Next]_vars /\ Fairness
=============================================================================
