---------------------------- MODULE LatestValue ----------------------------
(***************************************************************************)
(* What the media channels of the mesh promise a subscriber: it is handed  *)
(* the newest frame of its channel, each frame at most once and never an   *)
(* older one after a newer one; frames it was too slow for are skipped;    *)
(* once the channel is closed it is handed nothing more.                   *)
(*                                                                         *)
(* A frame is its number: the n-th frame pushed into a channel is n.       *)
(***************************************************************************)
EXTENDS Naturals

CONSTANTS Channels,     \* the channels frames are pushed into
          Subs,         \* the subscribers
          NoChannel,    \* "reads no channel"
          Modulus       \* packet numbers wrap here

VARIABLES pushed,       \* pushed[c]: how many frames channel c was given
          open,         \* open[c]: channel c still hands frames out
          reading,      \* reading[s]: the channel s is subscribed to
          got,          \* got[s]: the last frame handed to s, 0 for none
          number        \* number[s]: the number of the next packet for s

vars == <<pushed, open, reading, got, number>>

Init ==
  /\ pushed = [c \in Channels |-> 0]
  /\ open = [c \in Channels |-> TRUE]
  /\ reading = [s \in Subs |-> NoChannel]
  /\ got = [s \in Subs |-> 0]
  /\ number = [s \in Subs |-> 0]

Push(c) ==
  /\ pushed' = [pushed EXCEPT ![c] = @ + 1]
  /\ UNCHANGED <<open, reading, got, number>>

Close(c) ==
  /\ open' = [open EXCEPT ![c] = FALSE]
  /\ UNCHANGED <<pushed, reading, got, number>>

\* A subscription starts with nothing received.
Subscribe(s, c) ==
  /\ reading[s] = NoChannel /\ got[s] = 0
  /\ reading' = [reading EXCEPT ![s] = c]
  /\ UNCHANGED <<pushed, open, got, number>>

\* Only a frame newer than the last one, and only the newest; packets are
\* numbered one after the other.
Take(s) ==
  /\ reading[s] # NoChannel
  /\ open[reading[s]]
  /\ got[s] < pushed[reading[s]]
  /\ got' = [got EXCEPT ![s] = pushed[reading[s]]]
  /\ number' = [number EXCEPT ![s] = (@ + 1) % Modulus]
  /\ UNCHANGED <<pushed, open, reading>>

Finish(s) ==
  /\ reading' = [reading EXCEPT ![s] = NoChannel]
  /\ UNCHANGED <<pushed, open, got, number>>

Next ==
  \/ \E c \in Channels : Push(c) \/ Close(c)
  \/ \E s \in Subs : Take(s) \/ Finish(s) \/ \E c \in Channels : Subscribe(s, c)

Spec == Init /\ [][Next]_vars
=============================================================================
