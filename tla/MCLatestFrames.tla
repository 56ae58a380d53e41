--------------------------- MODULE MCLatestFrames ---------------------------
(* LatestFrames for TLC: two subscribers, numbers that wrap after three.     *)
EXTENDS LatestFrames

CONSTANTS s1, s2

MCSubs == {s1, s2}
=============================================================================
