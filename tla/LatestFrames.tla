---------------------------- MODULE LatestFrames ----------------------------
(***************************************************************************)
(* The media channels of the mesh (crates/rusty_esp_arduino/src/mesh.rs):  *)
(* one latest-frame slot per codec, pushed into by the sketch, drained by  *)
(* any number of subscribers the node makes through the factory, and       *)
(* closed by `end`.                                                        *)
(*                                                                         *)
(* Threads: the sketch (pushes, and later `end`) holds the MESH mutex for  *)
(* a whole push; each subscriber calls next_packet on a thread of the      *)
(* node's.  A step is one critical section of a slot's mutex, or one       *)
(* atomic load or add.                                                     *)
(*                                                                         *)
(* A frame is its number (the n-th push into its channel); the u32         *)
(* counters wrap at Modulus (2^32 in the code).                            *)
(***************************************************************************)
EXTENDS Integers

CONSTANTS Subs,         \* subscribers, one LatestFrames value each
          Modulus,      \* 2^32: where the u32 counters wrap
          MaxPushes     \* bound: frames pushed in all

ASSUME ModulusAssumption == Modulus \in Nat /\ Modulus > 1
ASSUME MaxPushesAssumption == MaxPushes \in Nat

Channels == {"video", "audio", "telemetry"}
NoChannel == "none"

\* An `end` (and a factory) that stops after the two channels it began with.
FollowingTwo(c) == IF c = "video" THEN "audio" ELSE NoChannel

\* The order in which the factory asks the counters and `end` closes.
Following(c) ==
  IF c = "video" THEN "audio" ELSE IF c = "audio" THEN "telemetry" ELSE NoChannel

VARIABLES
  seq,          \* Slot.seq
  frame,        \* Slot.frame: the number of the frame held, 0 for None
  closed,       \* Slot.closed
  counter,      \* Shared.frames, .blocks and .readings
  subscribers,  \* Shared.subscribers
  begun,        \* MESH holds the State: a push finds its channels
  pushing,      \* the channel a push has filled but not yet counted
  closing,      \* the channel `end` closes next
  unnotified,   \* the channel `end` has closed but not yet notified
  pc,           \* pc[s]: where subscriber s is
  on,           \* LatestFrames.which; the counter to load next while "asking"
  seen,         \* LatestFrames.seen
  outSeq,       \* LatestFrames.out_seq
  pushed,       \* history: pushed[c], the frames ever pushed into c
  got,          \* history: got[s], the last frame handed to s, 0 for none
  owed          \* history: s asked for "any" when some counter was not zero

sketch == <<begun, pushing, closing, unnotified>>
reader == <<pc, on, seen, outSeq, got, owed>>
vars == <<seq, frame, closed, counter, subscribers, sketch, reader, pushed>>

\* An increment that does not wrap.
IncWide(n) == n + 1

\* wrapping_add(1), and AtomicU32::fetch_add(1).
Inc(n) == (n + 1) % Modulus

Init ==
  /\ seq = [c \in Channels |-> 0]
  /\ frame = [c \in Channels |-> 0]
  /\ closed = [c \in Channels |-> FALSE]
  /\ counter = [c \in Channels |-> 0]
  /\ subscribers = 0
  /\ begun = TRUE
  /\ pushing = NoChannel /\ closing = NoChannel /\ unnotified = NoChannel
  /\ pc = [s \in Subs |-> "out"]
  /\ on = [s \in Subs |-> NoChannel]
  /\ seen = [s \in Subs |-> 0]
  /\ outSeq = [s \in Subs |-> 0]
  /\ pushed = [c \in Channels |-> 0]
  /\ got = [s \in Subs |-> 0]
  /\ owed = [s \in Subs |-> FALSE]

\* Condvar::notify_all: every subscriber waiting on c goes back to its check.
Notified(c) ==
  [s \in Subs |-> IF pc[s] = "waiting" /\ on[s] = c THEN "ready" ELSE pc[s]]

-----------------------------------------------------------------------------
(* The sketch: push_media, push_media_pcm, push_telemetry, and end.        *)

\* The bound on pushes, over all channels.
Room == pushed["video"] + pushed["audio"] + pushed["telemetry"] < MaxPushes

\* A push that wakes nobody, and one that forgets the sequence number.
PushUnnotified(c) ==
  /\ begun /\ pushing = NoChannel /\ Room
  /\ seq' = [seq EXCEPT ![c] = Inc(@)]
  /\ frame' = [frame EXCEPT ![c] = pushed[c] + 1]
  /\ pushed' = [pushed EXCEPT ![c] = @ + 1]
  /\ pushing' = c
  /\ UNCHANGED <<closed, counter, subscribers, begun, closing, unnotified, reader>>

PushSaturating(c) ==
  /\ begun /\ pushing = NoChannel /\ Room
  /\ seq' = [seq EXCEPT ![c] = IF @ = Modulus - 1 THEN @ ELSE @ + 1]
  /\ frame' = [frame EXCEPT ![c] = pushed[c] + 1]
  /\ pushed' = [pushed EXCEPT ![c] = @ + 1]
  /\ pc' = Notified(c)
  /\ pushing' = c
  /\ UNCHANGED <<closed, counter, subscribers, begun, closing, unnotified,
                 on, seen, outSeq, got, owed>>

\* with_state(|s| s.shared.video.push(..)): MESH stays locked until the count.
Push(c) ==
  /\ begun /\ pushing = NoChannel /\ Room
  /\ seq' = [seq EXCEPT ![c] = Inc(@)]
  /\ frame' = [frame EXCEPT ![c] = pushed[c] + 1]
  /\ pushed' = [pushed EXCEPT ![c] = @ + 1]
  /\ pc' = Notified(c)
  /\ pushing' = c
  /\ UNCHANGED <<closed, counter, subscribers, begun, closing, unnotified,
                 on, seen, outSeq, got, owed>>

\* .. s.shared.frames.fetch_add(1), and the mutex is released.
Count ==
  /\ pushing # NoChannel
  /\ counter' = [counter EXCEPT ![pushing] = Inc(@)]
  /\ pushing' = NoChannel
  /\ UNCHANGED <<seq, frame, closed, subscribers, begun, closing, unnotified,
                 reader, pushed>>

\* end: MESH.take(), which waits for a push in progress.
End ==
  /\ begun /\ pushing = NoChannel
  /\ begun' = FALSE
  /\ closing' = "video"
  /\ UNCHANGED <<seq, frame, closed, counter, subscribers, pushing, unnotified,
                 reader, pushed>>

\* Channel::close, first half: the flag, under the slot's mutex.
Close ==
  /\ closing # NoChannel /\ unnotified = NoChannel
  /\ closed' = [closed EXCEPT ![closing] = TRUE]
  /\ unnotified' = closing
  /\ closing' = Following(closing)
  /\ UNCHANGED <<seq, frame, counter, subscribers, begun, pushing, reader, pushed>>

\* Channel::close, second half: notify_all, the mutex already released.
CloseNotify ==
  /\ unnotified # NoChannel
  /\ pc' = Notified(unnotified)
  /\ unnotified' = NoChannel
  /\ UNCHANGED <<seq, frame, closed, counter, subscribers, begun, pushing,
                 closing, on, seen, outSeq, got, owed, pushed>>

-----------------------------------------------------------------------------
(* A subscriber: the factory makes it, next_packet drives it.              *)

\* The factory: it counts the subscriber whatever it asks for.
Subscribe(s, place, channel, owes) ==
  /\ pc[s] = "out"
  /\ subscribers' = Inc(subscribers)
  /\ pc' = [pc EXCEPT ![s] = place]
  /\ on' = [on EXCEPT ![s] = channel]
  /\ owed' = [owed EXCEPT ![s] = owes]
  /\ UNCHANGED <<seq, frame, closed, counter, sketch, seen, outSeq, got, pushed>>

\* A codec the mesh has a channel for; "any", for which the counters are then
\* loaded one at a time; a codec nothing here produces, which gets Nothing.
JoinChannel(s, c) == Subscribe(s, "ready", c, FALSE)
JoinAny(s) == Subscribe(s, "asking", "video", \E c \in Channels : counter[c] > 0)
JoinNothing(s) == Subscribe(s, "over", NoChannel, FALSE)

\* The factory without its telemetry arm.
AskTwo(s) ==
  /\ pc[s] = "asking"
  /\ IF counter[on[s]] > 0
       THEN pc' = [pc EXCEPT ![s] = "ready"] /\ UNCHANGED on
       ELSE IF on[s] = "video"
              THEN on' = [on EXCEPT ![s] = "audio"] /\ UNCHANGED pc
              ELSE /\ on' = [on EXCEPT ![s] = "video"]
                   /\ pc' = [pc EXCEPT ![s] = "ready"]
  /\ UNCHANGED <<seq, frame, closed, counter, subscribers, sketch, seen, outSeq,
                 got, owed, pushed>>

\* One load of the "any" arm: a channel that has counted a push is taken, the
\* next one is asked, and after the last the answer is video.
Ask(s) ==
  /\ pc[s] = "asking"
  /\ IF counter[on[s]] > 0
       THEN pc' = [pc EXCEPT ![s] = "ready"] /\ UNCHANGED on
       ELSE IF Following(on[s]) # NoChannel
              THEN on' = [on EXCEPT ![s] = Following(@)] /\ UNCHANGED pc
              ELSE /\ on' = [on EXCEPT ![s] = "video"]
                   /\ pc' = [pc EXCEPT ![s] = "ready"]
  /\ UNCHANGED <<seq, frame, closed, counter, subscribers, sketch, seen, outSeq,
                 got, owed, pushed>>

\* A subscriber that ignores the number it has seen, or takes any frame of a
\* higher number as new.
FreshAlways(s) == frame[on[s]] # 0
FreshHigher(s) == seq[on[s]] > seen[s] /\ frame[on[s]] # 0

\* The condition of next_packet: a number it has not seen, and a frame.
Fresh(s) == seq[on[s]] # seen[s] /\ frame[on[s]] # 0

\* One pass of next_packet's loop under the slot's mutex.
Deliver(s) ==
  /\ pc[s] = "ready" /\ ~closed[on[s]] /\ Fresh(s)
  /\ seen' = [seen EXCEPT ![s] = seq[on[s]]]
  /\ outSeq' = [outSeq EXCEPT ![s] = Inc(@)]
  /\ got' = [got EXCEPT ![s] = frame[on[s]]]
  /\ UNCHANGED <<seq, frame, closed, counter, subscribers, sketch, pc, on, owed, pushed>>

Wait(s) ==
  /\ pc[s] = "ready" /\ ~closed[on[s]] /\ ~Fresh(s)
  /\ pc' = [pc EXCEPT ![s] = "waiting"]
  /\ UNCHANGED <<seq, frame, closed, counter, subscribers, sketch, on, seen,
                 outSeq, got, owed, pushed>>

ReturnNone(s) ==
  /\ pc[s] = "ready" /\ closed[on[s]]
  /\ pc' = [pc EXCEPT ![s] = "over"]
  /\ UNCHANGED <<seq, frame, closed, counter, subscribers, sketch, on, seen,
                 outSeq, got, owed, pushed>>

\* wait_timeout's second has passed (or the wait woke for no reason).
Timeout(s) ==
  /\ pc[s] = "waiting"
  /\ pc' = [pc EXCEPT ![s] = "ready"]
  /\ UNCHANGED <<seq, frame, closed, counter, subscribers, sketch, on, seen,
                 outSeq, got, owed, pushed>>

\* The node drops a subscriber between two calls (its connection is gone).
Leave(s) ==
  /\ pc[s] = "ready"
  /\ pc' = [pc EXCEPT ![s] = "gone"]
  /\ UNCHANGED <<seq, frame, closed, counter, subscribers, sketch, on, seen,
                 outSeq, got, owed, pushed>>

Sketch == (\E c \in Channels : Push(c)) \/ Count \/ End \/ Close \/ CloseNotify
Check(s) == Deliver(s) \/ Wait(s) \/ ReturnNone(s)
Subscriber(s) ==
  \/ (\E c \in Channels : JoinChannel(s, c)) \/ JoinAny(s) \/ JoinNothing(s)
  \/ Ask(s) \/ Check(s) \/ Timeout(s) \/ Leave(s)

Next == Sketch \/ \E s \in Subs : Subscriber(s)

Spec == Init /\ [][Next]_vars

\* A thread that can run is run: the sketch finishes the push or the `end` it
\* is in, and a subscriber the check it is at.  Nothing makes the sketch push,
\* a timeout fire or a subscriber join.
Fairness ==
  /\ WF_vars(Count) /\ WF_vars(Close) /\ WF_vars(CloseNotify)
  /\ \A s \in Subs : WF_vars(Ask(s)) /\ WF_vars(Check(s))

FairSpec == Spec /\ Fairness

-----------------------------------------------------------------------------
Reading == {"ready", "waiting"}

TypeOK ==
  /\ seq \in [Channels -> 0 .. Modulus - 1]
  /\ frame \in [Channels -> Nat]
  /\ closed \in [Channels -> BOOLEAN]
  /\ counter \in [Channels -> 0 .. Modulus - 1]
  /\ subscribers \in 0 .. Modulus - 1
  /\ begun \in BOOLEAN
  /\ pushing \in Channels \cup {NoChannel}
  /\ closing \in Channels \cup {NoChannel}
  /\ unnotified \in Channels \cup {NoChannel}
  /\ pc \in [Subs -> Reading \cup {"out", "asking", "over", "gone"}]
  /\ on \in [Subs -> Channels \cup {NoChannel}]
  /\ \A s \in Subs : pc[s] \in Reading \cup {"asking"} => on[s] \in Channels
  /\ seen \in [Subs -> 0 .. Modulus - 1]
  /\ outSeq \in [Subs -> 0 .. Modulus - 1]
  /\ pushed \in [Channels -> Nat]
  /\ got \in [Subs -> Nat]
  /\ owed \in [Subs -> BOOLEAN]

\* No wake-up is lost, though the wait is not the only thing a push races
\* with: a subscriber asleep in next_packet has seen the slot's number, and if
\* its channel is closed the notification is still to come.  (The one-second
\* timeout of the wait is a belt beside these braces.)
NoLostWakeup ==
  \A s \in Subs : pc[s] = "waiting" =>
    /\ seq[on[s]] = seen[s]
    /\ closed[on[s]] => unnotified = on[s]

\* A subscriber that is behind can tell: unless it lost a whole lap of the
\* u32 number (2^32 frames), next_packet's test sees that there is a frame
\* newer than the last one handed out, however often the number has wrapped.
BehindIsSeen ==
  \A s \in Subs : pc[s] \in Reading =>
    (pushed[on[s]] > got[s] /\ pushed[on[s]] - got[s] < Modulus => Fresh(s))

\* "any" is answered by what the device makes: whoever asked when some push
\* had been counted reads a channel that holds a frame, whatever was pushed
\* while the three counters were loaded.  (Until a counter wraps to zero.)
AnyFindsAMaker ==
  (\A c \in Channels : pushed[c] < Modulus) =>
    \A s \in Subs : owed[s] /\ pc[s] \in Reading => frame[on[s]] # 0

\* What the two above rest on: the slot's number and a subscriber's copy are
\* the frames pushed and the last frame handed out, counted modulo 2^32.
NumbersAgree ==
  /\ \A c \in Channels : frame[c] = pushed[c] /\ seq[c] = pushed[c] % Modulus
  /\ \A s \in Subs :
       /\ seen[s] = got[s] % Modulus
       /\ pc[s] \in {"out", "asking"} => got[s] = 0
       /\ pc[s] \in Reading => got[s] <= pushed[on[s]]

\* The inductive invariant of the proofs (LatestFrames_proofs).
Inv == TypeOK /\ NumbersAgree /\ NoLostWakeup

\* A subscriber the newest frame has not reached, and that its number shows
\* to be behind.
Behind(s) ==
  /\ pc[s] \in Reading
  /\ (pushed[on[s]] - got[s]) % Modulus # 0

\* Every frame reaches a subscriber that keeps asking, or a newer one does:
\* being behind always ends, by the delivery of the newest frame or by the end
\* of the subscription.  No timeout is needed for it.  (A subscriber that is
\* behind by whole laps of the number waits for the next push.)
CatchesUp == \A s \in Subs : []<>~Behind(s)

\* `end` lets every subscriber go, also the ones asleep in a channel nobody
\* ever pushed into: it joins the node's thread next.
EndReleasesAll ==
  \A s \in Subs : (~begun /\ pc[s] \in Reading) ~> pc[s] \in {"over", "gone"}

\* The promise: the newest frame, at most once, in order, packets numbered one
\* after the other, and nothing after the close.
Abstract == INSTANCE LatestValue WITH
  number <- outSeq,
  open <- [c \in Channels |-> ~closed[c]],
  reading <- [s \in Subs |-> IF pc[s] \in Reading THEN on[s] ELSE NoChannel]

KeepsThePromise == Abstract!Spec
=============================================================================
