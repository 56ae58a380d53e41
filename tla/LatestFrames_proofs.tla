------------------------- MODULE LatestFrames_proofs -------------------------
(***************************************************************************)
(* Proofs about LatestFrames, for every set of subscribers, every modulus  *)
(* of the u32 numbers and every number of pushes.                          *)
(***************************************************************************)
EXTENDS LatestFrames, TLAPS

USE ModulusAssumption, MaxPushesAssumption

-----------------------------------------------------------------------------
(* Arithmetic of the wrapping numbers.                                     *)

\* Division with remainder.
LEMMA DivMod ==
  ASSUME NEW a \in Nat
  PROVE  /\ a = (Modulus * (a \div Modulus)) + (a % Modulus)
         /\ a \div Modulus \in Nat
         /\ a % Modulus \in 0 .. Modulus - 1
  BY SMT

\* The remainder is unique.
LEMMA ModUnique ==
  ASSUME NEW q \in Nat, NEW r \in 0 .. Modulus - 1
  PROVE  ((Modulus * q) + r) % Modulus = r
  BY SMT

\* Incrementing the wrapped number is wrapping the incremented one: Inc, which
\* the code applies to the number in the slot, follows the count of frames.
LEMMA IncWraps ==
  ASSUME NEW n \in Nat
  PROVE  Inc(n % Modulus) = (n + 1) % Modulus
  <1> DEFINE q == n \div Modulus
             r == n % Modulus
  <1>1. n = (Modulus * q) + r /\ q \in Nat /\ r \in 0 .. Modulus - 1
    BY DivMod
  <1> HIDE DEF q, r
  <1>2. CASE r + 1 < Modulus
    <2>1. (r + 1) % Modulus = r + 1
      BY <1>1, <1>2, SMT
    <2>2. n + 1 = (Modulus * q) + (r + 1) /\ r + 1 \in 0 .. Modulus - 1
      BY <1>1, <1>2, SMT
    <2>3. (n + 1) % Modulus = r + 1
      BY <1>1, <2>2, ModUnique
    <2> QED
      BY <2>1, <2>3 DEF r, Inc
  <1>3. CASE r + 1 = Modulus
    <2>1. (r + 1) % Modulus = 0
      BY <1>1, <1>3, SMT
    <2>2. n + 1 = (Modulus * (q + 1)) + 0
      BY <1>1, <1>3, SMT
    <2>3. (n + 1) % Modulus = 0
      BY <1>1, <2>2, ModUnique
    <2> QED
      BY <2>1, <2>3 DEF r, Inc
  <1> QED
    BY <1>1, <1>2, <1>3

\* Two counts less than a lap apart have different wrapped numbers.
LEMMA LessThanALap ==
  ASSUME NEW a \in Nat, NEW b \in Nat, a > b, a - b < Modulus
  PROVE  a % Modulus # b % Modulus
  BY SMT

\* A wrapping increment stays a u32.
LEMMA IncType ==
  ASSUME NEW n \in Nat
  PROVE  Inc(n) \in 0 .. Modulus - 1
  BY DivMod DEF Inc

-----------------------------------------------------------------------------
(* The inductive invariant.                                                *)

\* The state right after `mesh::begin` satisfies it.
LEMMA InitInv == Init => Inv
  <1> SUFFICES ASSUME Init PROVE Inv
    OBVIOUS
  <1>1. 0 % Modulus = 0
    BY SMT
  <1> QED
    BY <1>1 DEF Init, Inv, TypeOK, NumbersAgree, NoLostWakeup, Channels, NoChannel, Reading

\* A waiting subscriber has seen the slot's number.
LEMMA WaitHasSeen ==
  ASSUME Inv, NEW s \in Subs, pc[s] = "ready", ~Fresh(s)
  PROVE  seq[on[s]] = seen[s]
  <1>1. /\ on[s] \in Channels /\ got[s] \in Nat /\ pushed[on[s]] \in Nat
        /\ seq[on[s]] = pushed[on[s]] % Modulus
        /\ frame[on[s]] = pushed[on[s]]
        /\ seen[s] = got[s] % Modulus
        /\ got[s] <= pushed[on[s]]
    BY DEF Inv, TypeOK, NumbersAgree, Reading
  <1>2. CASE frame[on[s]] = 0
    BY <1>1, <1>2, SMT
  <1>3. CASE frame[on[s]] # 0
    BY <1>3 DEF Fresh
  <1> QED
    BY <1>2, <1>3

\* Every step of every thread keeps it.
LEMMA NextInv == Inv /\ [Next]_vars => Inv'
  <1> SUFFICES ASSUME Inv, [Next]_vars PROVE Inv'
    OBVIOUS
  <1> USE DEF Channels, NoChannel, Reading
  <1>1. ASSUME NEW c \in Channels, Push(c) PROVE Inv'
    <2>1. /\ pushed[c] \in Nat
          /\ Inc(seq[c]) = (pushed[c] + 1) % Modulus
          /\ Inc(seq[c]) \in 0 .. Modulus - 1
      <3>1. pushed[c] \in Nat /\ seq[c] \in Nat /\ seq[c] = pushed[c] % Modulus
        BY DEF Inv, TypeOK, NumbersAgree
      <3>2. Inc(pushed[c] % Modulus) = (pushed[c] + 1) % Modulus
        BY <3>1, IncWraps
      <3>3. Inc(seq[c]) \in 0 .. Modulus - 1
        BY <3>1, IncType
      <3> QED
        BY <3>1, <3>2, <3>3
    <2>2. TypeOK'
      BY <1>1, <2>1 DEF Inv, TypeOK, Push, Notified, reader
    <2>3. NumbersAgree'
      BY <1>1, <2>1 DEF Inv, TypeOK, NumbersAgree, Push, Notified, reader
    <2>4. NoLostWakeup'
      BY <1>1 DEF Inv, TypeOK, NoLostWakeup, Push, Notified, reader
    <2> QED
      BY <2>2, <2>3, <2>4 DEF Inv
  <1>2. CASE Count
    <2>1. \A c \in Channels : Inc(counter[c]) \in 0 .. Modulus - 1
      BY IncType DEF Inv, TypeOK
    <2> QED
      BY <1>2, <2>1 DEF Inv, TypeOK, NumbersAgree, NoLostWakeup, Count, reader
  <1>3. CASE End
    BY <1>3 DEF Inv, TypeOK, NumbersAgree, NoLostWakeup, End, reader
  <1>4. CASE Close
    BY <1>4 DEF Inv, TypeOK, NumbersAgree, NoLostWakeup, Close, reader, Following
  <1>5. CASE CloseNotify
    BY <1>5 DEF Inv, TypeOK, NumbersAgree, NoLostWakeup, CloseNotify, Notified
  <1>6. ASSUME NEW s \in Subs, Subscriber(s) PROVE Inv'
    <2>1. Inc(subscribers) \in 0 .. Modulus - 1
      BY IncType DEF Inv, TypeOK
    <2>8. ASSUME NEW c \in Channels, JoinChannel(s, c) PROVE Inv'
      BY <2>1, <2>8 DEF Inv, TypeOK, NumbersAgree, NoLostWakeup, JoinChannel,
                        Subscribe, sketch
    <2>9. CASE JoinAny(s)
      BY <2>1, <2>9 DEF Inv, TypeOK, NumbersAgree, NoLostWakeup, JoinAny,
                        Subscribe, sketch
    <2>10. CASE JoinNothing(s)
      BY <2>1, <2>10 DEF Inv, TypeOK, NumbersAgree, NoLostWakeup, JoinNothing,
                         Subscribe, sketch
    <2>2. CASE Ask(s)
      BY <2>2 DEF Inv, TypeOK, NumbersAgree, NoLostWakeup, Ask, sketch, Following
    <2>3. CASE Deliver(s)
      <3>1. Inc(outSeq[s]) \in 0 .. Modulus - 1
        BY IncType DEF Inv, TypeOK
      <3> QED
        BY <2>3, <3>1 DEF Inv, TypeOK, NumbersAgree, NoLostWakeup, Deliver, sketch
    <2>4. CASE Wait(s)
      BY <2>4, WaitHasSeen DEF Inv, TypeOK, NumbersAgree, NoLostWakeup, Wait, sketch
    <2>5. CASE ReturnNone(s)
      BY <2>5 DEF Inv, TypeOK, NumbersAgree, NoLostWakeup, ReturnNone, sketch
    <2>6. CASE Timeout(s)
      BY <2>6 DEF Inv, TypeOK, NumbersAgree, NoLostWakeup, Timeout, sketch
    <2>7. CASE Leave(s)
      BY <2>7 DEF Inv, TypeOK, NumbersAgree, NoLostWakeup, Leave, sketch
    <2> QED
      BY <1>6, <2>2, <2>3, <2>4, <2>5, <2>6, <2>7, <2>8, <2>9, <2>10 DEF Subscriber, Check
  <1>7. CASE UNCHANGED vars
    BY <1>7 DEF Inv, TypeOK, NumbersAgree, NoLostWakeup, vars, sketch, reader
  <1> QED
    BY <1>1, <1>2, <1>3, <1>4, <1>5, <1>6, <1>7 DEF Next, Sketch

\* The invariant holds in every reachable state.
LEMMA Invariance == Spec => []Inv
  BY InitInv, NextInv, PTL DEF Spec

-----------------------------------------------------------------------------
(* The properties.                                                         *)

\* Every variable keeps its type; the numbers stay u32.
THEOREM TypeCorrect == Spec => []TypeOK
  <1>1. Inv => TypeOK
    BY DEF Inv
  <1> QED
    BY <1>1, Invariance, PTL

\* A push or a close between a subscriber's check and its sleep is never
\* missed: whoever sleeps has seen the newest frame, or is about to be woken.
THEOREM WakeupsAreKept == Spec => []NoLostWakeup
  <1>1. Inv => NoLostWakeup
    BY DEF Inv
  <1> QED
    BY <1>1, Invariance, PTL

\* The test `g.seq != self.seen` finds every subscriber that is behind by less
\* than a lap of the u32, however often the number has wrapped.
THEOREM BehindIsAlwaysSeen == Spec => []BehindIsSeen
  <1>1. Inv => BehindIsSeen
    <2> SUFFICES ASSUME Inv, NEW s \in Subs, pc[s] \in Reading,
                        pushed[on[s]] > got[s], pushed[on[s]] - got[s] < Modulus
                 PROVE  Fresh(s)
      BY DEF BehindIsSeen
    <2>1. /\ on[s] \in Channels /\ got[s] \in Nat /\ pushed[on[s]] \in Nat
          /\ seq[on[s]] = pushed[on[s]] % Modulus /\ frame[on[s]] = pushed[on[s]]
          /\ seen[s] = got[s] % Modulus
      BY DEF Inv, TypeOK, NumbersAgree, Reading
    <2>2. seq[on[s]] # seen[s]
      BY <2>1, LessThanALap
    <2>3. frame[on[s]] # 0
      BY <2>1, SMT
    <2> QED
      BY <2>2, <2>3 DEF Fresh
  <1> QED
    BY <1>1, Invariance, PTL

\* A subscriber is handed the newest frame, each frame at most once and in
\* order, in packets numbered one after the other, and nothing after `end`
\* closed its channel: the channels implement LatestValue.
THEOREM PromiseKept == Spec => KeepsThePromise
  <1> USE DEF Channels, NoChannel, Reading
  <1>1. Init => Abstract!Init
    BY DEF Init, Abstract!Init
  <1>2. Inv /\ [Next]_vars => [Abstract!Next]_Abstract!vars
    <2> SUFFICES ASSUME Inv, [Next]_vars PROVE [Abstract!Next]_Abstract!vars
      OBVIOUS
    <2>1. ASSUME NEW c \in Channels, Push(c) PROVE Abstract!Push(c)
      BY <2>1 DEF Push, Abstract!Push, Inv, TypeOK, Notified
    <2>2. CASE Count
      BY <2>2 DEF Count, Abstract!vars, reader
    <2>3. CASE End
      BY <2>3 DEF End, Abstract!vars, reader
    <2>4. CASE Close
      <3>1. PICK c \in Channels : c = closing
        BY <2>4 DEF Close, Inv, TypeOK
      <3>2. Abstract!Close(c)
        BY <2>4, <3>1 DEF Close, Abstract!Close, Inv, TypeOK, reader
      <3> QED
        BY <3>2 DEF Abstract!Next
    <2>5. CASE CloseNotify
      BY <2>5 DEF CloseNotify, Abstract!vars, Notified, Inv, TypeOK
    <2>6. ASSUME NEW s \in Subs, Subscriber(s) PROVE [Abstract!Next]_Abstract!vars
      <3>1. ASSUME NEW c \in Channels, JoinChannel(s, c)
            PROVE  [Abstract!Next]_Abstract!vars
        <4>1. Abstract!Subscribe(s, c)
          BY <3>1 DEF JoinChannel, Subscribe, Abstract!Subscribe, Inv, TypeOK,
                      NumbersAgree, sketch
        <4> QED
          BY <4>1 DEF Abstract!Next
      <3>6. CASE JoinAny(s) \/ JoinNothing(s)
        BY <3>6 DEF JoinAny, JoinNothing, Subscribe, Abstract!vars, Inv, TypeOK, sketch
      <3>2. CASE Ask(s)
        <4>1. CASE pc'[s] = "asking"
          BY <3>2, <4>1 DEF Ask, Abstract!vars, Inv, TypeOK, sketch
        <4>2. CASE pc'[s] # "asking"
          <5>1. PICK c \in Channels : c = on'[s]
            BY <3>2, <4>2 DEF Ask, Inv, TypeOK
          <5>2. Abstract!Subscribe(s, c)
            BY <3>2, <4>2, <5>1 DEF Ask, Abstract!Subscribe, Inv, TypeOK,
                                    NumbersAgree, sketch
          <5> QED
            BY <5>2 DEF Abstract!Next
        <4> QED
          BY <4>1, <4>2
      <3>3. CASE Deliver(s)
        <4>1. /\ on[s] \in Channels /\ got[s] \in Nat /\ pushed[on[s]] \in Nat
              /\ frame[on[s]] = pushed[on[s]] /\ got[s] < pushed[on[s]]
          BY <3>3 DEF Deliver, Fresh, Inv, TypeOK, NumbersAgree
        <4>2. Abstract!Take(s)
          BY <3>3, <4>1 DEF Deliver, Abstract!Take, Inv, TypeOK, sketch, Inc
        <4> QED
          BY <4>2 DEF Abstract!Next
      <3>4. CASE Wait(s) \/ Timeout(s)
        BY <3>4 DEF Wait, Timeout, Abstract!vars, Inv, TypeOK, sketch
      <3>5. CASE ReturnNone(s) \/ Leave(s)
        <4>1. Abstract!Finish(s)
          BY <3>5 DEF ReturnNone, Leave, Abstract!Finish, Inv, TypeOK, sketch
        <4> QED
          BY <4>1 DEF Abstract!Next
      <3> QED
        BY <2>6, <3>1, <3>2, <3>3, <3>4, <3>5, <3>6 DEF Subscriber, Check
    <2>7. CASE UNCHANGED vars
      BY <2>7 DEF vars, sketch, reader, Abstract!vars
    <2> QED
      BY <2>1, <2>2, <2>3, <2>4, <2>5, <2>6, <2>7 DEF Next, Sketch, Abstract!Next
  <1> QED
    BY <1>1, <1>2, Invariance, PTL DEF Spec, KeepsThePromise, Abstract!Spec

-----------------------------------------------------------------------------
(* "any" finds a channel that has a frame.                                 *)

\* No counter has wrapped yet.
Unwrapped == \A c \in Channels : pushed[c] < Modulus

\* The push that is under way is the only one that is not counted.
CountersFollow ==
  \A c \in Channels : counter[c] + (IF pushing = c THEN 1 ELSE 0) = pushed[c]

\* The channels that a subscriber which asks c has not passed.
Onward(c) ==
  IF c = "video" THEN Channels ELSE IF c = "audio" THEN {"audio", "telemetry"} ELSE {c}

\* One of the channels still to be asked has been counted.
AskersFind ==
  \A s \in Subs : owed[s] /\ pc[s] = "asking" => \E c \in Onward(on[s]) : counter[c] > 0

ReadersFind == \A s \in Subs : owed[s] /\ pc[s] \in Reading => frame[on[s]] # 0

AnyInv == Unwrapped => CountersFollow /\ AskersFind /\ ReadersFind

LEMMA InitAny == Init => AnyInv
  BY DEF Init, AnyInv, CountersFollow, AskersFind, ReadersFind, Channels, NoChannel, Reading

LEMMA NextAny == Inv /\ AnyInv /\ [Next]_vars => AnyInv'
  <1> SUFFICES ASSUME Inv, AnyInv, [Next]_vars, Unwrapped'
               PROVE  CountersFollow' /\ AskersFind' /\ ReadersFind'
    BY DEF AnyInv
  <1> USE DEF Channels, NoChannel, Reading
  <1>0. /\ counter \in [Channels -> Nat] /\ pushed \in [Channels -> Nat] /\ frame \in [Channels -> Nat]
        /\ \A c \in Channels : frame[c] = pushed[c] /\ counter[c] < Modulus
        /\ pushing \in Channels \cup {NoChannel}
        /\ pc \in [Subs -> Reading \cup {"out", "asking", "over", "gone"}]
        /\ on \in [Subs -> Channels \cup {NoChannel}]
        /\ \A s \in Subs : pc[s] \in Reading \cup {"asking"} => on[s] \in Channels
    BY DEF Inv, TypeOK, NumbersAgree
  <1>1. Unwrapped
    <2>1. \A c \in Channels : pushed'[c] = pushed[c] \/ pushed'[c] = pushed[c] + 1
      BY <1>0 DEF Next, vars, Sketch, Push, Count, End, Close, CloseNotify, Subscriber, Subscribe,
                  JoinChannel, JoinAny, JoinNothing, Ask, Check, Deliver, Wait, ReturnNone, Timeout, Leave
    <2> QED
      BY <1>0, <2>1 DEF Unwrapped
  <1>2. CountersFollow /\ AskersFind /\ ReadersFind
    BY <1>1 DEF AnyInv
  <1>3. ASSUME NEW c \in Channels, Push(c) PROVE CountersFollow' /\ AskersFind' /\ ReadersFind'
    <2>1. /\ pushing = NoChannel /\ pushing' = c /\ pushed' = [pushed EXCEPT ![c] = @ + 1]
          /\ frame' = [frame EXCEPT ![c] = pushed[c] + 1] /\ UNCHANGED <<counter, on, owed>>
          /\ \A s \in Subs : /\ pc'[s] = "asking" => pc[s] = "asking"
                             /\ pc'[s] \in Reading => pc[s] \in Reading
      BY <1>0, <1>3 DEF Push, Notified
    <2>2. CountersFollow'
      BY <1>0, <1>2, <2>1 DEF CountersFollow
    <2>3. AskersFind'
      BY <1>2, <2>1 DEF AskersFind
    <2>4. ReadersFind'
      BY <1>0, <1>2, <2>1 DEF ReadersFind
    <2> QED
      BY <2>2, <2>3, <2>4
  <1>4. CASE Count
    <2>1. PICK c \in Channels : c = pushing
      BY <1>0, <1>4 DEF Count
    <2>2. counter[c] + 1 = pushed[c] /\ pushed[c] < Modulus
      BY <1>1, <1>2, <2>1 DEF CountersFollow, Unwrapped
    <2>3. Inc(counter[c]) = counter[c] + 1
      BY <1>0, <2>2 DEF Inc
    <2>4. /\ counter' = [counter EXCEPT ![c] = counter[c] + 1] /\ pushing' = NoChannel
          /\ UNCHANGED <<pushed, frame, pc, on, owed>>
      BY <1>4, <2>1, <2>3 DEF Count, reader
    <2>5. CountersFollow'
      BY <1>0, <1>2, <2>1, <2>2, <2>4 DEF CountersFollow
    <2>6. AskersFind'
      <3>1. \A d \in Channels : counter[d] > 0 => counter'[d] > 0
        BY <1>0, <2>4
      <3>2. \A s \in Subs : pc[s] = "asking" => Onward(on[s]) \subseteq Channels
        BY <1>0 DEF Onward
      <3> QED
        BY <1>2, <2>4, <3>1, <3>2 DEF AskersFind
    <2>7. ReadersFind'
      BY <1>2, <2>4 DEF ReadersFind
    <2> QED
      BY <2>5, <2>6, <2>7
  <1>5. CASE CloseNotify
    <2>1. /\ UNCHANGED <<counter, pushing, pushed, frame, on, owed>>
          /\ \A s \in Subs : /\ pc'[s] = "asking" => pc[s] = "asking"
                             /\ pc'[s] \in Reading => pc[s] \in Reading
      BY <1>0, <1>5 DEF CloseNotify, Notified
    <2> QED
      BY <1>2, <2>1 DEF CountersFollow, AskersFind, ReadersFind
  <1>6. ASSUME NEW s \in Subs, NEW place \in {"ready", "asking", "over"},
               NEW channel \in Channels \cup {NoChannel}, NEW owes \in BOOLEAN,
               Subscribe(s, place, channel, owes),
               owes => place = "asking" /\ \E c \in Onward(channel) : counter[c] > 0
        PROVE  CountersFollow' /\ AskersFind' /\ ReadersFind'
    <2>1. /\ UNCHANGED <<counter, pushing, pushed, frame>>
          /\ pc'[s] = place /\ on'[s] = channel
          /\ \A u \in Subs \ {s} : pc'[u] = pc[u] /\ on'[u] = on[u] /\ owed'[u] = owed[u]
      BY <1>0, <1>6 DEF Subscribe, sketch, Inv, TypeOK
    <2>2. owed'[s] => owes
      BY <1>6 DEF Subscribe, Inv, TypeOK
    <2> QED
      BY <1>2, <1>6, <2>1, <2>2 DEF CountersFollow, AskersFind, ReadersFind
  <1>7. ASSUME NEW s \in Subs, Ask(s) PROVE CountersFollow' /\ AskersFind' /\ ReadersFind'
    <2>1. /\ UNCHANGED <<counter, pushing, pushed, frame, owed>> /\ pc[s] = "asking" /\ on[s] \in Channels
          /\ \A u \in Subs \ {s} : pc'[u] = pc[u] /\ on'[u] = on[u]
      BY <1>0, <1>7 DEF Ask, sketch
    <2>2. CASE counter[on[s]] > 0
      <3>1. pc'[s] = "ready" /\ on'[s] = on[s]
        BY <1>0, <1>7, <2>2 DEF Ask
      <3>2. frame[on[s]] # 0
        BY <1>0, <1>2, <2>1, <2>2 DEF CountersFollow
      <3> QED
        BY <1>2, <2>1, <3>1, <3>2 DEF CountersFollow, AskersFind, ReadersFind
    <2>3. CASE counter[on[s]] = 0 /\ on[s] # "telemetry"
      <3>1. pc'[s] = "asking" /\ on'[s] = Following(on[s])
        BY <1>0, <1>7, <2>1, <2>3 DEF Ask, Following
      <3>2. owed[s] => \E c \in Onward(on[s]) : c # on[s] /\ counter[c] > 0
        BY <1>2, <2>1, <2>3 DEF AskersFind
      <3>3. \A c \in Onward(on[s]) : c # on[s] => c \in Onward(Following(on[s]))
        BY <2>1, <2>3 DEF Onward, Following
      <3> QED
        BY <1>2, <2>1, <3>1, <3>2, <3>3 DEF CountersFollow, AskersFind, ReadersFind
    <2>4. CASE counter[on[s]] = 0 /\ on[s] = "telemetry"
      <3>1. ~owed[s]
        BY <1>2, <2>1, <2>4 DEF AskersFind, Onward
      <3> QED
        BY <1>2, <2>1, <3>1 DEF CountersFollow, AskersFind, ReadersFind
    <2> QED
      BY <1>0, <2>1, <2>2, <2>3, <2>4
  <1>8. ASSUME NEW s \in Subs, Check(s) \/ Timeout(s) \/ Leave(s)
        PROVE  CountersFollow' /\ AskersFind' /\ ReadersFind'
    <2>1. /\ UNCHANGED <<counter, pushing, pushed, frame, on, owed>>
          /\ \A u \in Subs : /\ pc'[u] = "asking" => pc[u] = "asking"
                             /\ pc'[u] \in Reading => pc[u] \in Reading
      BY <1>0, <1>8 DEF Check, Deliver, Wait, ReturnNone, Timeout, Leave, sketch
    <2> QED
      BY <1>2, <2>1 DEF CountersFollow, AskersFind, ReadersFind
  <1>9. CASE UNCHANGED <<counter, pushing, pushed, frame, pc, on, owed>>
    BY <1>2, <1>9 DEF CountersFollow, AskersFind, ReadersFind
  <1>10. ASSUME NEW s \in Subs, Subscriber(s) PROVE CountersFollow' /\ AskersFind' /\ ReadersFind'
    <2>1. ASSUME NEW c \in Channels, JoinChannel(s, c)
          PROVE  CountersFollow' /\ AskersFind' /\ ReadersFind'
      BY <1>6, <2>1 DEF JoinChannel
    <2>2. CASE JoinAny(s)
      <3>1. PICK owes \in BOOLEAN : owes = (\E c \in Channels : counter[c] > 0)
        OBVIOUS
      <3>2. Subscribe(s, "asking", "video", owes)
        BY <2>2, <3>1 DEF JoinAny
      <3>3. owes => \E c \in Onward("video") : counter[c] > 0
        BY <3>1 DEF Onward
      <3> QED
        BY <1>6, <3>2, <3>3
    <2>3. CASE JoinNothing(s)
      BY <1>6, <2>3 DEF JoinNothing
    <2> QED
      BY <1>7, <1>8, <1>10, <2>1, <2>2, <2>3 DEF Subscriber
  <1> QED
    BY <1>3, <1>4, <1>5, <1>9, <1>10 DEF Next, Sketch, End, Close, vars, reader, sketch

\* Whoever asks for "any" when a push has been counted reads a channel that
\* holds a frame, though the counters are loaded one after the other.
THEOREM AnyIsAMaker == Spec => []AnyFindsAMaker
  <1>1. AnyInv => AnyFindsAMaker
    BY DEF AnyInv, Unwrapped, ReadersFind, AnyFindsAMaker
  <1> QED
    BY <1>1, InitInv, NextInv, InitAny, NextAny, PTL DEF Spec
=============================================================================
