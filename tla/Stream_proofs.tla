---------------------------- MODULE Stream_proofs ----------------------------
(***************************************************************************)
(* Proofs about Stream, for every set of viewers and every number of       *)
(* servers and frames.                                                     *)
(***************************************************************************)
EXTENDS Stream, SequenceTheorems, TLAPS

LEMMA Bounds ==
  /\ MaxServers \in Nat \ {0} /\ MaxPushes \in Nat
  /\ Nobody \notin Viewers /\ "ended" \notin Viewers /\ Nobody # "ended"
  /\ NoServer \notin Servers /\ Servers \subseteq Nat
  BY BoundsAssumption, ViewersAssumption DEF Nobody, NoServer, Servers

-----------------------------------------------------------------------------
(* Types, by the threads that write the variables.                         *)

FlagsTyped ==
  /\ rtp \in BOOLEAN /\ pushing \in BOOLEAN /\ taken \in BOOLEAN
  /\ fits \in [Servers -> BOOLEAN]

SlotsTyped ==
  /\ current \in Servers \cup {NoServer}
  /\ seq \in [Servers -> Nat]

\* A push that is under way is not counted yet.
PushesCounted ==
  /\ pushes \in 0 .. MaxPushes /\ jpegPushed \in Nat
  /\ jpegPushed <= pushes /\ (pushing => jpegPushed + 1 <= pushes)

ServersTyped ==
  /\ server \in [Servers -> {"none", "bound", "open", "failed", "status"}]
  /\ worker \in [Servers -> Viewers \cup {Nobody, "ended"}]
  /\ queue \in [Servers -> Seq(Viewers)]
  /\ last \in [Servers -> Nat]

CountersTyped ==
  /\ counted \in [Servers -> [connections : Nat, other : Nat]]
  /\ totals \in [Servers -> [connections : Nat, other : Nat, streams : Nat]]

ViewersTyped ==
  /\ place \in [Viewers -> {"away", "backlog", "queued", "playing", "left", "over"}]
  /\ at \in [Viewers -> Servers \cup {NoServer}]
  /\ got \in [Viewers -> Nat] /\ sent \in [Viewers -> Nat]
  /\ \A v \in Viewers : place[v] = "backlog" => at[v] \in Servers

Typed == FlagsTyped /\ SlotsTyped /\ PushesCounted /\ ServersTyped /\ CountersTyped /\ ViewersTyped

LEMMA TypedIsTyped == Typed => TypeOK
  <1>1. PushesCounted => jpegPushed \in 0 .. MaxPushes
    BY Bounds DEF PushesCounted
  <1> QED
    BY <1>1 DEF Typed, FlagsTyped, SlotsTyped, PushesCounted, ServersTyped, CountersTyped, ViewersTyped, TypeOK


\* What a step of Next is that leaves the sketch's variables alone.
SketchRests == UNCHANGED <<sketch, slots>>

LEMMA SketchSteps ==
  ASSUME [Next]_vars
  PROVE  \/ RtpTo \/ StopSenders \/ PushToSlot \/ SketchRests
         \/ \E k \in Servers : Open(k) \/ ListenStatus(k)
         \/ PushDone(taken) \/ PushDone(TRUE) \/ PushDone(FALSE)
  BY DEF Next, vars, Pushing, PushRtp, PushRtpFails, PushNoRtp, Bind, OpenFails, Count, Worker,
         Play, Write, WriteFails, EndWorker, Stall, HangUp, Refused, Accept, Connect, SketchRests

LEMMA FlagsKeep == FlagsTyped /\ [Next]_vars => FlagsTyped'
  <1> SUFFICES ASSUME FlagsTyped, [Next]_vars PROVE FlagsTyped'
    OBVIOUS
  <1>1. ASSUME NEW k, NEW small \in BOOLEAN, Publish(k, small)
        PROVE  fits' \in [Servers -> BOOLEAN]
    BY <1>1 DEF FlagsTyped, Publish
  <1>2. CASE PushToSlot
    <2>1. taken' \in BOOLEAN /\ pushing' \in BOOLEAN /\ rtp' \in BOOLEAN
      BY <1>2 DEF PushToSlot, FlagsTyped
    <2>2. fits' \in [Servers -> BOOLEAN]
      BY <1>1, <1>2 DEF PushToSlot, FlagsTyped, slots
    <2> QED
      BY <2>1, <2>2 DEF FlagsTyped
  <1>3. CASE RtpTo
    BY <1>3 DEF RtpTo, FlagsTyped, slots
  <1>4. CASE StopSenders
    BY <1>4 DEF StopSenders, FlagsTyped, slots
  <1>5. ASSUME NEW took, PushDone(took) PROVE FlagsTyped'
    BY <1>5 DEF PushDone, FlagsTyped, slots
  <1>6. ASSUME NEW k \in Servers, Open(k) \/ ListenStatus(k) PROVE FlagsTyped'
    BY <1>6 DEF Open, ListenStatus, FlagsTyped, slots
  <1>7. CASE SketchRests
    BY <1>7 DEF SketchRests, sketch, slots, FlagsTyped
  <1> QED
    BY <1>2, <1>3, <1>4, <1>5, <1>6, <1>7, SketchSteps

LEMMA SlotsKeep == SlotsTyped /\ [Next]_vars => SlotsTyped'
  <1> SUFFICES ASSUME SlotsTyped, [Next]_vars PROVE SlotsTyped'
    OBVIOUS
  <1>1. ASSUME NEW k \in Servers, NEW small, Publish(k, small) PROVE seq' \in [Servers -> Nat]
    BY <1>1 DEF SlotsTyped, Publish
  <1>2. CASE PushToSlot
    BY <1>1, <1>2 DEF PushToSlot, SlotsTyped, slots
  <1>3. CASE RtpTo \/ StopSenders
    BY <1>3 DEF RtpTo, StopSenders, SlotsTyped, slots
  <1>4. ASSUME NEW took, PushDone(took) PROVE SlotsTyped'
    BY <1>4 DEF PushDone, SlotsTyped, slots
  <1>5. ASSUME NEW k \in Servers, Open(k) \/ ListenStatus(k) PROVE SlotsTyped'
    BY <1>5 DEF Open, ListenStatus, SlotsTyped, slots
  <1>6. CASE SketchRests
    BY <1>6 DEF SketchRests, sketch, slots, SlotsTyped
  <1> QED
    BY <1>2, <1>3, <1>4, <1>5, <1>6, SketchSteps

LEMMA PushesKeep == PushesCounted /\ [Next]_vars => PushesCounted'
  <1> SUFFICES ASSUME PushesCounted, [Next]_vars PROVE PushesCounted'
    OBVIOUS
  <1>1. CASE PushToSlot
    BY <1>1, Bounds DEF PushToSlot, PushesCounted
  <1>2. ASSUME NEW took, PushDone(took) PROVE PushesCounted'
    <2>1. /\ pushing /\ ~pushing' /\ pushes' = pushes
          /\ jpegPushed' = jpegPushed \/ jpegPushed' = jpegPushed + 1
      BY <1>2 DEF PushDone
    <2> QED
      BY <2>1 DEF PushesCounted
  <1>3. CASE UNCHANGED <<pushes, jpegPushed, pushing>>
    BY <1>3 DEF PushesCounted
  <1> QED
    BY <1>1, <1>2, <1>3, SketchSteps DEF RtpTo, StopSenders, ListenStatus, Open, SketchRests, sketch

\* The viewer whose turn it is is one.
LEMMA Turn ==
  ASSUME ServersTyped, NEW k \in Servers, queue[k] # <<>>
  PROVE  Head(queue[k]) \in Viewers /\ Tail(queue[k]) \in Seq(Viewers)
  BY HeadTailProperties DEF ServersTyped

LEMMA ServersKeep == Typed /\ [Next]_vars => ServersTyped'
  <1> SUFFICES ASSUME Typed, [Next]_vars PROVE ServersTyped'
    OBVIOUS
  <1> USE DEF Typed, ServersTyped
  <1>1. ASSUME NEW k \in Servers,
               Bind(k) \/ Open(k) \/ OpenFails(k) \/ ListenStatus(k) \/ EndWorker(k)
        PROVE  ServersTyped'
    BY <1>1 DEF Bind, Open, OpenFails, ListenStatus, EndWorker, workers
  <1>2. ASSUME NEW v \in Viewers, Accept(v) PROVE ServersTyped'
    <2>1. UNCHANGED <<server, worker, last>>
      BY <1>2 DEF Accept
    <2>2. CASE Queue(v)
      BY <2>1, <2>2, AppendProperties DEF Queue
    <2>3. CASE Reply(v)
      BY <2>1, <2>3 DEF Reply
    <2> QED
      BY <1>2, <2>2, <2>3 DEF Accept
  <1>3. ASSUME NEW k \in Servers, Play(k) PROVE ServersTyped'
    <2>1. Head(queue[k]) \in Viewers /\ Tail(queue[k]) \in Seq(Viewers)
      BY <1>3, Turn DEF Play
    <2> QED
      BY <1>3, <2>1 DEF Play
  <1>4. ASSUME NEW k \in Servers, Write(k) \/ WriteFails(k) \/ Stall(k) PROVE ServersTyped'
    <2>1. seq[k] \in Nat
      BY DEF SlotsTyped
    <2> QED
      BY <1>4, <2>1 DEF Write, WriteFails, Stall, Release
  <1>5. CASE UNCHANGED <<server, workers>>
    BY <1>5 DEF workers
  <1> QED
    BY <1>1, <1>2, <1>3, <1>4, <1>5
       DEF Next, vars, Pushing, PushRtp, PushRtpFails, PushNoRtp, PushDone, RtpTo, StopSenders,
           ListenStatus, PushToSlot, Count, Worker, HangUp, Refused, Connect

\* What the two threads of a server make of its counters, field by field.
LEMMA OneConnection ==
  ASSUME NEW r \in [connections : Nat, other : Nat], NEW e \in Nat, NEW d \in Nat
  PROVE  /\ [r EXCEPT !.connections = e] \in [connections : Nat, other : Nat]
         /\ [r EXCEPT !.connections = e].connections = e
         /\ [r EXCEPT !.connections = e].other = r.other
         /\ [r EXCEPT !.connections = e, !.other = d] \in [connections : Nat, other : Nat]
         /\ [r EXCEPT !.connections = e, !.other = d].connections = e
         /\ [r EXCEPT !.connections = e, !.other = d].other = d
  OBVIOUS

LEMMA TwoWriters ==
  ASSUME NEW r \in [connections : Nat, other : Nat, streams : Nat], NEW e \in Nat, NEW d \in Nat
  PROVE  /\ [r EXCEPT !.connections = e, !.other = d] \in [connections : Nat, other : Nat, streams : Nat]
         /\ [r EXCEPT !.connections = e, !.other = d].connections = e
         /\ [r EXCEPT !.connections = e, !.other = d].other = d
         /\ [r EXCEPT !.connections = e, !.other = d].streams = r.streams
         /\ [r EXCEPT !.streams = e] \in [connections : Nat, other : Nat, streams : Nat]
         /\ [r EXCEPT !.streams = e].connections = r.connections
         /\ [r EXCEPT !.streams = e].other = r.other
         /\ [r EXCEPT !.streams = e].streams = e
  OBVIOUS

LEMMA QueueCounts ==
  ASSUME CountersTyped, NEW v \in Viewers, NEW k \in Servers, k = at[v], Queue(v)
  PROVE  /\ counted' \in [Servers -> [connections : Nat, other : Nat]]
         /\ counted'[k].connections = counted[k].connections + 1
         /\ counted'[k].other = counted[k].other
         /\ \A j \in Servers \ {k} : counted'[j] = counted[j]
  <1>1. PICK r : r = counted[k] /\ r \in [connections : Nat, other : Nat]
    BY DEF CountersTyped
  <1>0. PICK e \in Nat : e = r.connections + 1
    BY <1>1
  <1>2. counted' = [counted EXCEPT ![k] = [r EXCEPT !.connections = e]]
    BY <1>0, <1>1 DEF Queue, CountersTyped
  <1>3. PICK q : q = [r EXCEPT !.connections = e]
    OBVIOUS
  <1>4. q \in [connections : Nat, other : Nat] /\ q.connections = r.connections + 1 /\ q.other = r.other
    BY <1>0, <1>1, <1>3, OneConnection
  <1>5. counted' = [counted EXCEPT ![k] = q]
    BY <1>2, <1>3
  <1> QED
    BY <1>1, <1>4, <1>5 DEF CountersTyped

LEMMA ReplyCounts ==
  ASSUME CountersTyped, NEW v \in Viewers, NEW k \in Servers, k = at[v], Reply(v)
  PROVE  /\ counted' \in [Servers -> [connections : Nat, other : Nat]]
         /\ counted'[k].connections = counted[k].connections + 1
         /\ counted'[k].other = counted[k].other + 1
         /\ \A j \in Servers \ {k} : counted'[j] = counted[j]
  <1>1. PICK r : r = counted[k] /\ r \in [connections : Nat, other : Nat]
    BY DEF CountersTyped
  <1>0. PICK e \in Nat, d \in Nat : e = r.connections + 1 /\ d = r.other + 1
    BY <1>1
  <1>2. counted' = [counted EXCEPT ![k] = [r EXCEPT !.connections = e, !.other = d]]
    BY <1>0, <1>1 DEF Reply, CountersTyped
  <1>3. PICK q : q = [r EXCEPT !.connections = e, !.other = d]
    OBVIOUS
  <1>4. q \in [connections : Nat, other : Nat] /\ q.connections = r.connections + 1 /\ q.other = r.other + 1
    BY <1>0, <1>1, <1>3, OneConnection
  <1>5. counted' = [counted EXCEPT ![k] = q]
    BY <1>2, <1>3
  <1> QED
    BY <1>1, <1>4, <1>5 DEF CountersTyped

LEMMA CountCounts ==
  ASSUME CountersTyped, NEW k \in Servers, Count(k)
  PROVE  /\ totals' \in [Servers -> [connections : Nat, other : Nat, streams : Nat]]
         /\ totals'[k].streams = totals[k].streams
         /\ \A j \in Servers \ {k} : totals'[j] = totals[j]
  <1>1. PICK r : r = totals[k] /\ r \in [connections : Nat, other : Nat, streams : Nat]
    BY DEF CountersTyped
  <1>2. PICK e \in Nat, d \in Nat : e = counted[k].connections /\ d = counted[k].other
    BY DEF CountersTyped
  <1>3. totals' = [totals EXCEPT ![k] = [r EXCEPT !.connections = e, !.other = d]]
    BY <1>1, <1>2 DEF Count, CountersTyped
  <1>4. PICK q : q = [r EXCEPT !.connections = e, !.other = d]
    OBVIOUS
  <1>5. q \in [connections : Nat, other : Nat, streams : Nat] /\ q.streams = r.streams
    BY <1>1, <1>4, TwoWriters
  <1>6. totals' = [totals EXCEPT ![k] = q]
    BY <1>3, <1>4
  <1> QED
    BY <1>1, <1>5, <1>6 DEF CountersTyped

LEMMA ReleaseCounts ==
  ASSUME CountersTyped, NEW k \in Servers, Release(k)
  PROVE  /\ totals' \in [Servers -> [connections : Nat, other : Nat, streams : Nat]]
         /\ totals'[k].streams = totals[k].streams + 1
         /\ \A j \in Servers \ {k} : totals'[j] = totals[j]
  <1>1. PICK r : r = totals[k] /\ r \in [connections : Nat, other : Nat, streams : Nat]
    BY DEF CountersTyped
  <1>0. PICK e \in Nat : e = r.streams + 1
    BY <1>1
  <1>2. totals' = [totals EXCEPT ![k] = [r EXCEPT !.streams = e]]
    BY <1>0, <1>1 DEF Release, CountersTyped
  <1>3. PICK q : q = [r EXCEPT !.streams = e]
    OBVIOUS
  <1>4. q \in [connections : Nat, other : Nat, streams : Nat] /\ q.streams = r.streams + 1
    BY <1>0, <1>1, <1>3, TwoWriters
  <1>5. totals' = [totals EXCEPT ![k] = q]
    BY <1>2, <1>3
  <1> QED
    BY <1>1, <1>4, <1>5 DEF CountersTyped

LEMMA CountersKeep == CountersTyped /\ ViewersTyped /\ [Next]_vars => CountersTyped'
  <1> SUFFICES ASSUME CountersTyped, ViewersTyped, [Next]_vars PROVE CountersTyped'
    OBVIOUS
  <1>1. ASSUME NEW v \in Viewers, Accept(v) PROVE CountersTyped'
    <2>1. PICK k \in Servers : k = at[v]
      BY <1>1 DEF Accept, ViewersTyped
    <2> QED
      BY <1>1, <2>1, QueueCounts, ReplyCounts DEF Accept, CountersTyped
  <1>2. ASSUME NEW k \in Servers, Count(k) PROVE CountersTyped'
    BY <1>2, CountCounts DEF Count, CountersTyped
  <1>3. ASSUME NEW k \in Servers, WriteFails(k) \/ Stall(k) PROVE CountersTyped'
    BY <1>3, ReleaseCounts DEF WriteFails, Stall, CountersTyped
  <1>4. CASE UNCHANGED counters
    BY <1>4 DEF counters, CountersTyped
  <1> QED
    BY <1>1, <1>2, <1>3, <1>4
       DEF Next, vars, Pushing, PushRtp, PushRtpFails, PushNoRtp, PushDone, RtpTo, StopSenders,
           ListenStatus, PushToSlot, Bind, Open, OpenFails, Worker, Play, Write, EndWorker, HangUp,
           Refused, Connect

LEMMA ViewersKeep == Typed /\ [Next]_vars => ViewersTyped'
  <1> SUFFICES ASSUME Typed, [Next]_vars PROVE ViewersTyped'
    OBVIOUS
  <1> USE DEF Typed, ViewersTyped
  <1>1. ASSUME NEW v \in Viewers, HangUp(v) \/ Refused(v) \/ Accept(v) PROVE ViewersTyped'
    BY <1>1 DEF HangUp, Refused, Accept, Queue, Reply
  <1>2. ASSUME NEW v \in Viewers, NEW k \in Servers, Connect(v, k) PROVE ViewersTyped'
    BY <1>2 DEF Connect
  <1>3. ASSUME NEW k \in Servers, Play(k) \/ WriteFails(k) \/ Stall(k) PROVE ViewersTyped'
    BY <1>3 DEF Play, WriteFails, Stall, Release
  <1>4. ASSUME NEW k \in Servers, Write(k) PROVE ViewersTyped'
    <2>1. seq[k] \in Nat
      BY DEF SlotsTyped
    <2>2. PICK v \in Viewers : v = worker[k]
      BY <1>4 DEF Write, Playing
    <2>3. got' = [got EXCEPT ![v] = seq[k]] /\ sent' = [sent EXCEPT ![v] = @ + 1] /\ UNCHANGED <<place, at>>
      BY <1>4, <2>2 DEF Write
    <2> QED
      BY <2>1, <2>3
  <1>5. CASE UNCHANGED viewers
    BY <1>5 DEF viewers
  <1> QED
    BY <1>1, <1>2, <1>3, <1>4, <1>5
       DEF Next, vars, Pushing, PushRtp, PushRtpFails, PushNoRtp, PushDone, RtpTo, StopSenders,
           ListenStatus, PushToSlot, Bind, Open, OpenFails, Count, Worker, EndWorker

LEMMA InitTyped == Init => Typed
  <1> SUFFICES ASSUME Init PROVE Typed
    OBVIOUS
  <1>1. FlagsTyped
    BY DEF Init, FlagsTyped
  <1>2. SlotsTyped /\ PushesCounted
    BY Bounds DEF Init, SlotsTyped, PushesCounted
  <1>3. ServersTyped
    BY DEF Init, ServersTyped
  <1>4. CountersTyped
    BY DEF Init, CountersTyped
  <1>5. ViewersTyped
    BY DEF Init, ViewersTyped
  <1> QED
    BY <1>1, <1>2, <1>3, <1>4, <1>5 DEF Typed

LEMMA NextTyped == Typed /\ [Next]_vars => Typed'
  BY FlagsKeep, SlotsKeep, PushesKeep, ServersKeep, CountersKeep, ViewersKeep DEF Typed

\* The state of the servers, their threads and their viewers is of the types the
\* code gives it, and no push is counted twice.
THEOREM TypeCorrect == Spec => []TypeOK
  BY InitTyped, NextTyped, TypedIsTyped, PTL DEF Spec

-----------------------------------------------------------------------------
(* Only open servers work, and the totals add up.                          *)

LEMMA InitWorks == Init => OnlyOpenServersWork
  BY Bounds DEF Init, OnlyOpenServersWork, Playing

\* A server that starts to work is open, and stays it.
LEMMA NextWorks == Typed /\ OnlyOpenServersWork /\ [Next]_vars => OnlyOpenServersWork'
  <1> SUFFICES ASSUME Typed, OnlyOpenServersWork, [Next]_vars PROVE OnlyOpenServersWork'
    OBVIOUS
  <1> USE DEF Typed
  <1>1. ASSUME NEW k \in Servers, Bind(k) PROVE OnlyOpenServersWork'
    BY <1>1, Bounds DEF Bind, OnlyOpenServersWork, Playing, ServersTyped, sketch, slots
  <1>2. ASSUME NEW k \in Servers, Open(k) PROVE OnlyOpenServersWork'
    BY <1>2, Bounds DEF Open, OnlyOpenServersWork, Playing, ServersTyped, workers, slots
  <1>10. ASSUME NEW k \in Servers, ListenStatus(k) PROVE OnlyOpenServersWork'
    BY <1>10, Bounds DEF ListenStatus, OnlyOpenServersWork, Playing, ServersTyped, workers, slots
  <1>3. ASSUME NEW k \in Servers, OpenFails(k) PROVE OnlyOpenServersWork'
    BY <1>3, Bounds DEF OpenFails, OnlyOpenServersWork, Playing, ServersTyped, workers, sketch, slots
  <1>4. CASE PushToSlot
    <2>1. CASE current = NoServer
      BY <1>4, <2>1 DEF PushToSlot, OnlyOpenServersWork, Playing, workers, slots
    <2>2. CASE current # NoServer
      <3>1. PICK small \in BOOLEAN : Publish(current, small)
        BY <1>4, <2>2 DEF PushToSlot
      <3>2. server[current] \in {"open", "status"} /\ \A k \in Servers \ {current} : seq'[k] = seq[k]
        BY <2>2, <3>1 DEF Publish, OnlyOpenServersWork, SlotsTyped
      <3> QED
        BY <1>4, <3>2 DEF PushToSlot, OnlyOpenServersWork, Playing, workers
    <2> QED
      BY <2>1, <2>2
  <1>5. ASSUME NEW v \in Viewers, Accept(v) PROVE OnlyOpenServersWork'
    <2>1. at[v] \in Servers /\ server[at[v]] = "open"
      BY <1>5 DEF Accept, ViewersTyped
    <2>2. \A k \in Servers \ {at[v]} : queue'[k] = queue[k]
      BY <1>5, <2>1 DEF Accept, Queue, Reply, ServersTyped
    <2> QED
      BY <1>5, <2>1, <2>2 DEF Accept, OnlyOpenServersWork, Playing, sketch, slots
  <1>6. ASSUME NEW k \in Servers, Play(k) PROVE OnlyOpenServersWork'
    <2>1. \A j \in Servers \ {k} : queue'[j] = queue[j] /\ worker'[j] = worker[j]
      BY <1>6 DEF Play, ServersTyped
    <2>2. server[k] = "open"
      BY <1>6 DEF Play, OnlyOpenServersWork
    <2> QED
      BY <1>6, <2>1, <2>2 DEF Play, OnlyOpenServersWork, Playing, sketch, slots
  <1>7. ASSUME NEW k \in Servers, EndWorker(k) PROVE OnlyOpenServersWork'
    BY <1>7, Bounds DEF EndWorker, OnlyOpenServersWork, Playing, ServersTyped, sketch, slots
  <1>8. ASSUME NEW k \in Servers, WriteFails(k) \/ Stall(k) PROVE OnlyOpenServersWork'
    BY <1>8, Bounds DEF WriteFails, Stall, Release, OnlyOpenServersWork, Playing, ServersTyped,
                        sketch, slots
  <1>9. CASE UNCHANGED <<server, current, seq, queue, worker>>
    BY <1>9 DEF OnlyOpenServersWork, Playing
  <1> QED
    BY <1>1, <1>2, <1>3, <1>4, <1>5, <1>6, <1>7, <1>8, <1>9, <1>10
       DEF Next, vars, Pushing, PushRtp, PushRtpFails, PushNoRtp, PushDone, RtpTo, StopSenders,
           Count, Worker, Write, HangUp, Refused, Connect, sketch, slots, workers

\* Half-way through a listen nothing works yet, and after a listen that failed
\* nothing ever does.
THEOREM OpenServersWork == Spec => []OnlyOpenServersWork
  BY InitTyped, NextTyped, InitWorks, NextWorks, PTL DEF Spec

Plays(k) == IF Playing(k) THEN 1 ELSE 0

\* What the accepting thread has counted, whether or not it has written it.
Sums ==
  \A k \in Servers :
    counted[k].connections = counted[k].other + totals[k].streams + Len(queue[k]) + Plays(k)

LEMMA InitSums == Init => Sums
  BY Bounds DEF Init, Sums, Plays, Playing

\* A connection more, and where it is.
LEMMA OneMore ==
  ASSUME NEW c \in Nat, NEW o \in Nat, NEW t \in Nat, NEW q \in Nat, NEW p \in Nat, c = o + t + q + p
  PROVE  /\ c + 1 = o + t + (q + 1) + p
         /\ c + 1 = (o + 1) + t + q + p
         /\ p = 1 => c = o + (t + 1) + q + 0
         /\ \A n \in Nat : p = 0 /\ n + 1 = q => c = o + t + n + 1
  OBVIOUS

LEMMA NextSums == Typed /\ OnlyOpenServersWork /\ Sums /\ [Next]_vars => Sums'
  <1> SUFFICES ASSUME Typed, OnlyOpenServersWork, Sums, [Next]_vars PROVE Sums'
    OBVIOUS
  <1> USE DEF Typed
  <1>0. ASSUME NEW k \in Servers
        PROVE  /\ counted[k].connections \in Nat /\ counted[k].other \in Nat
               /\ totals[k].streams \in Nat /\ Len(queue[k]) \in Nat /\ Plays(k) \in Nat
               /\ counted[k].connections + 1
                    = counted[k].other + totals[k].streams + (Len(queue[k]) + 1) + Plays(k)
               /\ counted[k].connections + 1
                    = (counted[k].other + 1) + totals[k].streams + Len(queue[k]) + Plays(k)
               /\ Plays(k) = 1 => counted[k].connections
                    = counted[k].other + (totals[k].streams + 1) + Len(queue[k]) + 0
               /\ \A n \in Nat : Plays(k) = 0 /\ n + 1 = Len(queue[k]) => counted[k].connections
                    = counted[k].other + totals[k].streams + n + 1
    <2>1. counted[k].connections \in Nat /\ counted[k].other \in Nat /\ totals[k].streams \in Nat
      BY DEF CountersTyped
    <2>2. Len(queue[k]) \in Nat
      BY LenProperties DEF ServersTyped
    <2>3. Plays(k) \in Nat
      BY DEF Plays
    <2>4. PICK c \in Nat, o \in Nat, t \in Nat, q \in Nat, p \in Nat :
            /\ c = counted[k].connections /\ o = counted[k].other /\ t = totals[k].streams
            /\ q = Len(queue[k]) /\ p = Plays(k)
      BY <2>1, <2>2, <2>3
    <2>5. c = o + t + q + p
      BY <2>4 DEF Sums
    <2>6. /\ c + 1 = o + t + (q + 1) + p
          /\ c + 1 = (o + 1) + t + q + p
          /\ p = 1 => c = o + (t + 1) + q + 0
          /\ \A n \in Nat : p = 0 /\ n + 1 = q => c = o + t + n + 1
      BY <2>5, OneMore
    <2> QED
      BY <2>4, <2>6, Zenon
  <1>1. ASSUME NEW k \in Servers, Bind(k) \/ EndWorker(k) PROVE Sums'
    <2>1. \A j \in Servers : Playing(j)' = Playing(j)
      BY <1>1, Bounds DEF Bind, EndWorker, Playing, OnlyOpenServersWork, ServersTyped
    <2> QED
      BY <1>1, <2>1 DEF Sums, Plays, Bind, EndWorker, counters
  <1>2. ASSUME NEW v \in Viewers, Accept(v) PROVE Sums'
    <2>1. PICK k \in Servers : k = at[v]
      BY <1>2 DEF Accept, ViewersTyped
    <2>2. \A j \in Servers : Plays(j)' = Plays(j)
      BY <1>2 DEF Accept, Plays, Playing
    <2>3. CASE Queue(v)
      <3>1. /\ queue'[k] = Append(queue[k], v) /\ queue[k] \in Seq(Viewers)
            /\ \A j \in Servers \ {k} : queue'[j] = queue[j]
        BY <2>1, <2>3 DEF Queue, ServersTyped
      <3>2. Len(queue'[k]) = Len(queue[k]) + 1
        BY <3>1, AppendProperties
      <3>3. counted'[k].connections = counted'[k].other + totals[k].streams + Len(queue'[k]) + Plays(k)
        <4>1. /\ counted'[k].connections = counted[k].connections + 1
              /\ counted'[k].other = counted[k].other
          BY <2>1, <2>3, QueueCounts
        <4> QED
          BY <1>0, <3>2, <4>1, Zenon
      <3>4. \A j \in Servers \ {k} : counted'[j] = counted[j]
        BY <2>1, <2>3, QueueCounts
      <3>5. UNCHANGED totals
        BY <1>2 DEF Accept
      <3> QED
        BY <2>2, <3>1, <3>3, <3>4, <3>5 DEF Sums
    <2>4. CASE Reply(v)
      <3>1. counted'[k].connections = counted'[k].other + totals[k].streams + Len(queue[k]) + Plays(k)
        <4>1. /\ counted'[k].connections = counted[k].connections + 1
              /\ counted'[k].other = counted[k].other + 1
          BY <2>1, <2>4, ReplyCounts
        <4> QED
          BY <1>0, <4>1, Zenon
      <3>2. \A j \in Servers \ {k} : counted'[j] = counted[j]
        BY <2>1, <2>4, ReplyCounts
      <3>3. UNCHANGED <<totals, queue>>
        BY <1>2, <2>4 DEF Accept, Reply
      <3> QED
        BY <2>2, <3>1, <3>2, <3>3 DEF Sums
    <2> QED
      BY <1>2, <2>3, <2>4 DEF Accept
  <1>3. ASSUME NEW k \in Servers, Count(k) PROVE Sums'
    <2>1. \A j \in Servers : totals'[j].streams = totals[j].streams
      BY <1>3, CountCounts
    <2>2. \A j \in Servers : Plays(j)' = Plays(j)
      BY <1>3 DEF Count, workers, Plays, Playing
    <2> QED
      BY <1>3, <2>1, <2>2 DEF Sums, Count, workers
  <1>4. ASSUME NEW k \in Servers, Play(k) PROVE Sums'
    <2>1. /\ queue'[k] = Tail(queue[k]) /\ queue[k] \in Seq(Viewers) /\ queue[k] # <<>>
          /\ worker'[k] = Head(queue[k]) /\ worker[k] = Nobody
      BY <1>4 DEF Play, ServersTyped
    <2>2. Len(queue'[k]) + 1 = Len(queue[k]) /\ worker'[k] \in Viewers
      BY <2>1, HeadTailProperties
    <2>3. Plays(k) = 0 /\ Plays(k)' = 1
      BY <2>1, <2>2, Bounds DEF Plays, Playing
    <2>4. \A j \in Servers \ {k} : queue'[j] = queue[j] /\ Plays(j)' = Plays(j)
      BY <1>4 DEF Play, ServersTyped, Plays, Playing
    <2>5. counted[k].connections = counted[k].other + totals[k].streams + Len(queue'[k]) + Plays(k)'
      BY <1>0, <2>2, <2>3
    <2> QED
      BY <1>4, <2>4, <2>5 DEF Sums, Play, counters
  <1>5. ASSUME NEW k \in Servers, WriteFails(k) \/ Stall(k) PROVE Sums'
    <2>1. Release(k) /\ Playing(k) /\ UNCHANGED <<counted, queue>>
      BY <1>5 DEF WriteFails, Stall
    <2>2. Plays(k) = 1 /\ Plays(k)' = 0
      BY <2>1, Bounds DEF Plays, Playing, Release, ServersTyped
    <2>3. \A j \in Servers \ {k} : totals'[j] = totals[j] /\ Plays(j)' = Plays(j)
      BY <2>1, ReleaseCounts DEF Plays, Playing, Release, ServersTyped
    <2>4. counted[k].connections = counted[k].other + totals'[k].streams + Len(queue[k]) + Plays(k)'
      <3>1. totals'[k].streams = totals[k].streams + 1
        BY <2>1, ReleaseCounts
      <3> QED
        BY <1>0, <2>2, <3>1, Zenon
    <2> QED
      BY <2>1, <2>3, <2>4 DEF Sums
  <1>6. CASE UNCHANGED <<counted, totals, queue, worker>>
    BY <1>6 DEF Sums, Plays, Playing
  <1> QED
    BY <1>1, <1>2, <1>3, <1>4, <1>5, <1>6
       DEF Next, vars, Pushing, PushRtp, PushRtpFails, PushNoRtp, PushDone, RtpTo, StopSenders,
           ListenStatus, PushToSlot, Open, OpenFails, Worker, Write, HangUp, Refused, Connect,
           workers, counters

\* Every connection is in one place, and counted there once, whichever of the two
\* threads was the faster.
THEOREM TotalsAgree == Spec => []TotalsAddUp
  <1>1. Typed /\ Sums => TotalsAddUp
    <2> SUFFICES ASSUME Typed, Sums, NEW k \in Servers, Counted(k)
                 PROVE  totals[k].connections = totals[k].other + totals[k].streams
                          + Len(queue[k]) + Plays(k)
      BY DEF TotalsAddUp, Plays
    <2>1. counted[k].connections = totals[k].connections /\ counted[k].other = totals[k].other
      BY DEF Counted
    <2> QED
      BY <2>1 DEF Sums
  <1> QED
    BY <1>1, InitTyped, NextTyped, InitWorks, NextWorks, InitSums, NextSums, PTL DEF Spec

-----------------------------------------------------------------------------
(* Every viewer is in one place, and each has its turn once.               *)

\* A viewer in the queue of k waits at k, in one place of it.
InQueue ==
  \A k \in Servers :
    /\ \A i \in 1 .. Len(queue[k]) : place[queue[k][i]] = "queued" /\ at[queue[k][i]] = k
    /\ \A i, j \in 1 .. Len(queue[k]) : queue[k][i] = queue[k][j] => i = j

\* The viewer of a worker is at its server, and has what its source has written.
InTurn ==
  \A k \in Servers : Playing(k) =>
    /\ place[worker[k]] \in {"playing", "left"}
    /\ at[worker[k]] = k
    /\ got[worker[k]] = last[k]

\* Nothing is written to a viewer before its turn.
BeforeTurn == \A v \in Viewers : place[v] \in {"away", "backlog", "queued"} => got[v] = 0

Turns == InQueue /\ InTurn /\ BeforeTurn

LEMMA InitTurns == Init => Turns
  BY Bounds DEF Init, Turns, InQueue, InTurn, BeforeTurn, Playing

\* The viewer at the head of a queue leaves it, and is not in it any more.
LEMMA TailKeeps ==
  ASSUME NEW q \in Seq(Viewers), q # <<>>, \A i, j \in 1 .. Len(q) : q[i] = q[j] => i = j
  PROVE  /\ Head(q) = q[1] /\ 1 \in 1 .. Len(q)
         /\ \A i \in 1 .. Len(Tail(q)) : /\ i + 1 \in 1 .. Len(q) /\ Tail(q)[i] = q[i + 1]
                                        /\ Tail(q)[i] # Head(q)
         /\ \A i, j \in 1 .. Len(Tail(q)) : Tail(q)[i] = Tail(q)[j] => i = j
  <1>1. Len(q) \in Nat \ {0} /\ Len(Tail(q)) = Len(q) - 1 /\ Head(q) = q[1]
    BY HeadTailProperties, LenProperties
  <1>2. ASSUME NEW i \in 1 .. Len(Tail(q)) PROVE i + 1 \in 1 .. Len(q) /\ Tail(q)[i] = q[i + 1]
    BY <1>1, HeadTailProperties
  <1>3. ASSUME NEW i \in 1 .. Len(Tail(q)) PROVE Tail(q)[i] # Head(q)
    BY <1>1, <1>2
  <1>4. ASSUME NEW i \in 1 .. Len(Tail(q)), NEW j \in 1 .. Len(Tail(q)), Tail(q)[i] = Tail(q)[j]
        PROVE  i = j
    BY <1>1, <1>2, <1>4
  <1> QED
    BY <1>1, <1>2, <1>3, <1>4

LEMMA AppendKeeps ==
  ASSUME NEW q \in Seq(Viewers), NEW v \in Viewers,
         \A i, j \in 1 .. Len(q) : q[i] = q[j] => i = j,
         \A i \in 1 .. Len(q) : q[i] # v
  PROVE  /\ \A i \in 1 .. Len(Append(q, v)) : Append(q, v)[i] = v \/ (i \in 1 .. Len(q) /\ Append(q, v)[i] = q[i])
         /\ \A i, j \in 1 .. Len(Append(q, v)) : Append(q, v)[i] = Append(q, v)[j] => i = j
  <1>1. Len(q) \in Nat /\ Len(Append(q, v)) = Len(q) + 1 /\ Append(q, v)[Len(q) + 1] = v
    BY AppendProperties, LenProperties
  <1>2. \A i \in 1 .. Len(q) : Append(q, v)[i] = q[i]
    BY AppendProperties
  <1>3. \A i \in 1 .. Len(Append(q, v)) : i \in 1 .. Len(q) \/ i = Len(q) + 1
    BY <1>1
  <1> QED
    BY <1>1, <1>2, <1>3

\* What the queues have is a viewer.
LEMMA QueuedViewers ==
  ASSUME ServersTyped, NEW k \in Servers, NEW i \in 1 .. Len(queue[k])
  PROVE  queue[k][i] \in Viewers
  BY ElementOfSeq DEF ServersTyped

\* A viewer that is in no queue and not played to goes from one place to another.
LEMMA ElsewhereKeeps ==
  ASSUME Typed, Turns, NEW v \in Viewers, place[v] \in {"away", "backlog"},
         UNCHANGED <<queue, worker, last, got>>,
         \A u \in Viewers \ {v} : place'[u] = place[u] /\ at'[u] = at[u]
  PROVE  Turns'
  <1>1. InQueue'
    <2>1. ASSUME NEW k \in Servers, NEW i \in 1 .. Len(queue[k])
          PROVE  queue[k][i] \in Viewers \ {v}
      BY QueuedViewers DEF Typed, Turns, InQueue
    <2> QED
      BY <2>1 DEF Turns, InQueue
  <1>2. InTurn'
    BY DEF Turns, InTurn, Playing
  <1>3. BeforeTurn'
    BY DEF Turns, BeforeTurn
  <1> QED
    BY <1>1, <1>2, <1>3 DEF Turns

LEMMA AcceptTurns ==
  ASSUME Typed, Turns, NEW v \in Viewers, Accept(v)
  PROVE  Turns'
  <1> USE DEF Typed
  <1>1. CASE Reply(v)
    BY <1>1, ElsewhereKeeps DEF Accept, Reply, ViewersTyped
  <1>2. CASE Queue(v)
    <2>1. PICK k \in Servers : k = at[v]
      BY DEF Accept, ViewersTyped
    <2>2. /\ queue[k] \in Seq(Viewers) /\ queue'[k] = Append(queue[k], v)
          /\ \A j \in Servers \ {k} : queue'[j] = queue[j]
      BY <1>2, <2>1 DEF Queue, ServersTyped
    <2>3. /\ place'[v] = "queued" /\ place[v] = "backlog"
          /\ \A u \in Viewers \ {v} : place'[u] = place[u]
          /\ UNCHANGED <<at, got, worker, last>>
      BY <1>2 DEF Queue, Accept, ViewersTyped
    <2>4. ASSUME NEW j \in Servers, NEW i \in 1 .. Len(queue[j])
          PROVE  queue[j][i] \in Viewers \ {v} /\ place'[queue[j][i]] = "queued" /\ at'[queue[j][i]] = j
      BY <2>3, QueuedViewers DEF Turns, InQueue
    <2>5. /\ \A i \in 1 .. Len(queue'[k]) :
               queue'[k][i] = v \/ (i \in 1 .. Len(queue[k]) /\ queue'[k][i] = queue[k][i])
          /\ \A i, j \in 1 .. Len(queue'[k]) : queue'[k][i] = queue'[k][j] => i = j
      BY <2>2, <2>4, AppendKeeps DEF Turns, InQueue
    <2>6. InQueue'
      <3>1. \A i \in 1 .. Len(queue'[k]) : place'[queue'[k][i]] = "queued" /\ at'[queue'[k][i]] = k
        BY <2>1, <2>3, <2>4, <2>5
      <3>2. ASSUME NEW j \in Servers \ {k}
            PROVE  /\ \A i \in 1 .. Len(queue'[j]) : place'[queue'[j][i]] = "queued" /\ at'[queue'[j][i]] = j
                   /\ \A i, h \in 1 .. Len(queue'[j]) : queue'[j][i] = queue'[j][h] => i = h
        BY <2>2, <2>4 DEF Turns, InQueue
      <3> QED
        BY <2>5, <3>1, <3>2 DEF InQueue
    <2>7. InTurn'
      BY <2>3 DEF Turns, InTurn, Playing
    <2>8. BeforeTurn'
      BY <2>3 DEF Turns, BeforeTurn
    <2> QED
      BY <2>6, <2>7, <2>8 DEF Turns
  <1> QED
    BY <1>1, <1>2 DEF Accept

LEMMA PlayTurns ==
  ASSUME Typed, Turns, NEW k \in Servers, Play(k)
  PROVE  Turns'
  <1> USE DEF Typed
  <1>1. PICK v \in Viewers : v = Head(queue[k])
    BY Turn DEF Play
  <1>2. /\ queue[k] \in Seq(Viewers) /\ queue[k] # <<>> /\ queue'[k] = Tail(queue[k])
        /\ \A j \in Servers \ {k} : queue'[j] = queue[j]
    BY DEF Play, ServersTyped
  <1>3. v = queue[k][1] /\ 1 \in 1 .. Len(queue[k])
    BY <1>1, <1>2, TailKeeps DEF Turns, InQueue
  <1>4. place[v] = "queued" /\ at[v] = k /\ got[v] = 0
    BY <1>3 DEF Turns, InQueue, BeforeTurn
  <1>5. /\ place'[v] = "playing" /\ \A u \in Viewers \ {v} : place'[u] = place[u]
        /\ worker'[k] = v /\ last'[k] = 0
        /\ \A j \in Servers \ {k} : worker'[j] = worker[j] /\ last'[j] = last[j]
        /\ UNCHANGED <<at, got>>
    BY <1>1 DEF Play, ServersTyped, ViewersTyped
  <1>6. InQueue'
    <2>1. ASSUME NEW i \in 1 .. Len(queue'[k])
          PROVE  queue'[k][i] \in Viewers \ {v} /\ place[queue'[k][i]] = "queued" /\ at[queue'[k][i]] = k
      <3>1. i + 1 \in 1 .. Len(queue[k]) /\ queue'[k][i] = queue[k][i + 1] /\ queue'[k][i] # v
        BY <1>1, <1>2, TailKeeps DEF Turns, InQueue
      <3> QED
        BY <3>1, QueuedViewers DEF Turns, InQueue
    <2>2. \A i, j \in 1 .. Len(queue'[k]) : queue'[k][i] = queue'[k][j] => i = j
      BY <1>2, TailKeeps DEF Turns, InQueue
    <2>3. ASSUME NEW j \in Servers \ {k}, NEW i \in 1 .. Len(queue[j])
          PROVE  queue[j][i] \in Viewers \ {v} /\ place[queue[j][i]] = "queued" /\ at[queue[j][i]] = j
      BY <1>4, QueuedViewers DEF Turns, InQueue
    <2>4. \A j \in Servers \ {k} : \A i, h \in 1 .. Len(queue[j]) : queue[j][i] = queue[j][h] => i = h
      BY DEF Turns, InQueue
    <2>5. \A i \in 1 .. Len(queue'[k]) : place'[queue'[k][i]] = "queued" /\ at'[queue'[k][i]] = k
      BY <1>5, <2>1
    <2>6. ASSUME NEW j \in Servers \ {k}
          PROVE  /\ \A i \in 1 .. Len(queue'[j]) : place'[queue'[j][i]] = "queued" /\ at'[queue'[j][i]] = j
                 /\ \A i, h \in 1 .. Len(queue'[j]) : queue'[j][i] = queue'[j][h] => i = h
      BY <1>2, <1>5, <2>3, <2>4
    <2> QED
      BY <2>2, <2>5, <2>6 DEF InQueue
  <1>7. InTurn'
    <2>1. ASSUME NEW j \in Servers \ {k}, Playing(j)
          PROVE  worker[j] \in Viewers \ {v}
      BY <1>4, <2>1 DEF Turns, InTurn, Playing
    <2> QED
      BY <1>4, <1>5, <2>1 DEF Turns, InTurn, Playing
  <1>8. BeforeTurn'
    BY <1>5 DEF Turns, BeforeTurn
  <1> QED
    BY <1>6, <1>7, <1>8 DEF Turns

\* The viewer of k is in no queue and no other worker's.
LEMMA Elsewhere ==
  ASSUME Typed, Turns, NEW k \in Servers, Playing(k)
  PROVE  /\ \A j \in Servers : \A i \in 1 .. Len(queue[j]) : queue[j][i] \in Viewers \ {worker[k]}
         /\ \A j \in Servers \ {k} : Playing(j) => worker[j] \in Viewers \ {worker[k]}
  <1>1. ASSUME NEW j \in Servers, NEW i \in 1 .. Len(queue[j])
        PROVE  queue[j][i] \in Viewers \ {worker[k]}
    BY QueuedViewers DEF Typed, Turns, InQueue, InTurn
  <1>2. ASSUME NEW j \in Servers \ {k}, Playing(j) PROVE worker[j] \in Viewers \ {worker[k]}
    BY <1>2 DEF Turns, InTurn, Playing
  <1> QED
    BY <1>1, <1>2

LEMMA WriteTurns ==
  ASSUME Typed, Turns, NEW k \in Servers, Write(k)
  PROVE  Turns'
  <1> USE DEF Typed
  <1>1. PICK v \in Viewers : v = worker[k]
    BY DEF Write, Playing
  <1>2. /\ last'[k] = seq[k] /\ \A j \in Servers \ {k} : last'[j] = last[j]
        /\ got'[v] = seq[k] /\ \A u \in Viewers \ {v} : got'[u] = got[u]
        /\ place[v] = "playing" /\ UNCHANGED <<queue, worker, place, at>>
    BY <1>1 DEF Write, ServersTyped, ViewersTyped
  <1>3. \A j \in Servers \ {k} : Playing(j) => worker[j] \in Viewers \ {v}
    BY <1>1, Elsewhere DEF Write
  <1>4. InQueue'
    BY <1>2 DEF Turns, InQueue
  <1>5. InTurn'
    BY <1>1, <1>2, <1>3 DEF Turns, InTurn, Playing
  <1>6. BeforeTurn'
    BY <1>2 DEF Turns, BeforeTurn
  <1> QED
    BY <1>4, <1>5, <1>6 DEF Turns

LEMMA ReleaseTurns ==
  ASSUME Typed, Turns, NEW k \in Servers, WriteFails(k) \/ Stall(k)
  PROVE  Turns'
  <1> USE DEF Typed
  <1>1. PICK v \in Viewers : v = worker[k]
    BY DEF WriteFails, Stall, Playing
  <1>2. /\ worker'[k] = Nobody /\ \A j \in Servers \ {k} : worker'[j] = worker[j] /\ last'[j] = last[j]
        /\ place'[v] = "over" /\ \A u \in Viewers \ {v} : place'[u] = place[u]
        /\ UNCHANGED <<queue, at, got>>
    BY <1>1 DEF WriteFails, Stall, Release, ServersTyped, ViewersTyped
  <1>3. /\ \A j \in Servers : \A i \in 1 .. Len(queue[j]) : queue[j][i] \in Viewers \ {v}
        /\ \A j \in Servers \ {k} : Playing(j) => worker[j] \in Viewers \ {v}
    BY <1>1, Elsewhere DEF WriteFails, Stall
  <1>4. InQueue'
    BY <1>2, <1>3 DEF Turns, InQueue
  <1>5. InTurn'
    BY <1>2, <1>3, Bounds DEF Turns, InTurn, Playing
  <1>6. BeforeTurn'
    BY <1>2 DEF Turns, BeforeTurn
  <1> QED
    BY <1>4, <1>5, <1>6 DEF Turns

LEMMA NextTurns == Typed /\ OnlyOpenServersWork /\ Turns /\ [Next]_vars => Turns'
  <1> SUFFICES ASSUME Typed, OnlyOpenServersWork, Turns, [Next]_vars PROVE Turns'
    OBVIOUS
  <1>1. ASSUME NEW k \in Servers, Bind(k) \/ EndWorker(k) PROVE Turns'
    <2>1. \A j \in Servers : Playing(j)' => Playing(j) /\ worker'[j] = worker[j]
      BY <1>1, Bounds DEF Bind, EndWorker, Playing, Typed, ServersTyped
    <2>2. UNCHANGED <<queue, last, place, at, got>>
      BY <1>1 DEF Bind, EndWorker, viewers
    <2> QED
      BY <2>1, <2>2 DEF Turns, InQueue, InTurn, BeforeTurn
  <1>2. ASSUME NEW v \in Viewers, NEW k \in Servers, Connect(v, k) PROVE Turns'
    BY <1>2, ElsewhereKeeps DEF Connect, workers, Typed, ViewersTyped
  <1>3. ASSUME NEW v \in Viewers, Refused(v) PROVE Turns'
    BY <1>3, ElsewhereKeeps DEF Refused, workers, Typed, ViewersTyped
  <1>4. ASSUME NEW v \in Viewers, HangUp(v) PROVE Turns'
    <2>1. /\ place[v] = "playing" /\ place'[v] = "left" /\ \A u \in Viewers \ {v} : place'[u] = place[u]
          /\ UNCHANGED <<queue, worker, last, at, got>>
      BY <1>4 DEF HangUp, workers, Typed, ViewersTyped
    <2>2. \A k \in Servers : \A i \in 1 .. Len(queue[k]) : queue[k][i] \in Viewers \ {v}
      BY <2>1, QueuedViewers DEF Turns, InQueue, Typed
    <2>3. InQueue'
      <3>1. \A k \in Servers : \A i \in 1 .. Len(queue[k]) :
              place'[queue[k][i]] = "queued" /\ at'[queue[k][i]] = k
        BY <2>1, <2>2 DEF Turns, InQueue
      <3>2. \A k \in Servers : \A i, j \in 1 .. Len(queue[k]) : queue[k][i] = queue[k][j] => i = j
        BY DEF Turns, InQueue
      <3> QED
        BY <2>1, <3>1, <3>2 DEF InQueue
    <2>4. InTurn'
      BY <2>1 DEF Turns, InTurn, Playing
    <2>5. BeforeTurn'
      BY <2>1 DEF Turns, BeforeTurn
    <2> QED
      BY <2>3, <2>4, <2>5 DEF Turns
  <1>5. CASE UNCHANGED <<queue, worker, last, place, at, got>>
    BY <1>5 DEF Turns, InQueue, InTurn, BeforeTurn, Playing
  <1> QED
    BY <1>1, <1>2, <1>3, <1>4, <1>5, AcceptTurns, PlayTurns, WriteTurns, ReleaseTurns
       DEF Next, vars, Pushing, PushRtp, PushRtpFails, PushNoRtp, PushDone, RtpTo, StopSenders,
           ListenStatus, PushToSlot, Open, OpenFails, Count, Worker, workers, viewers

-----------------------------------------------------------------------------
(* Streams keep the promise of LatestValue.                                *)

\* A source is never ahead of its slot, and writes no more frames than it has
\* gone past.
SlotsFollow ==
  /\ \A k \in Servers : last[k] <= seq[k] /\ seq[k] <= pushes
  /\ \A v \in Viewers : sent[v] <= got[v]

Inv == Typed /\ OnlyOpenServersWork /\ Turns /\ SlotsFollow

LEMMA InitFollows == Init => SlotsFollow
  BY DEF Init, SlotsFollow

\* What a write writes.
LEMMA WriteIsNew ==
  ASSUME Inv, NEW k \in Servers, Write(k)
  PROVE  /\ worker[k] \in Viewers /\ at[worker[k]] = k /\ place[worker[k]] = "playing"
         /\ seq[k] \in Nat /\ got[worker[k]] \in Nat /\ sent[worker[k]] \in Nat
         /\ got[worker[k]] < seq[k] /\ sent[worker[k]] + 1 <= seq[k] /\ seq[k] <= MaxPushes
  <1>1. PICK v \in Viewers : v = worker[k]
    BY DEF Write, Playing
  <1>2. at[v] = k /\ got[v] = last[k] /\ place[v] = "playing"
    BY <1>1 DEF Write, Inv, Turns, InTurn
  <1>3. seq[k] \in Nat /\ got[v] \in Nat /\ sent[v] \in Nat /\ pushes \in 0 .. MaxPushes
    BY DEF Inv, Typed, SlotsTyped, ViewersTyped, PushesCounted
  <1>4. last[k] <= seq[k] /\ seq[k] <= pushes /\ sent[v] <= got[v] /\ seq[k] # last[k]
    BY DEF Inv, SlotsFollow, Write, Fresh
  <1> QED
    BY <1>1, <1>2, <1>3, <1>4, Bounds

LEMMA NextFollows == Inv /\ [Next]_vars => SlotsFollow'
  <1> SUFFICES ASSUME Inv, [Next]_vars PROVE SlotsFollow'
    OBVIOUS
  <1>0. /\ \A k \in Servers : seq[k] \in Nat /\ last[k] \in Nat
        /\ \A v \in Viewers : sent[v] \in Nat /\ got[v] \in Nat
        /\ pushes \in Nat
    BY DEF Inv, Typed, SlotsTyped, ServersTyped, ViewersTyped, PushesCounted
  <1>1. CASE PushToSlot
    <2>1. pushes' = pushes + 1 /\ UNCHANGED <<last, sent, got>>
      BY <1>1 DEF PushToSlot, workers, viewers
    <2>2. ASSUME NEW k \in Servers PROVE seq'[k] = seq[k] \/ seq'[k] = seq[k] + 1
      BY <1>1 DEF PushToSlot, Publish, slots, Inv, Typed, SlotsTyped
    <2>3. ASSUME NEW k \in Servers PROVE last'[k] <= seq'[k] /\ seq'[k] <= pushes'
      <3>1. last[k] <= seq[k] /\ seq[k] <= pushes
        BY DEF Inv, SlotsFollow
      <3> QED
        BY <1>0, <2>1, <2>2, <3>1
    <2> QED
      BY <2>1, <2>3 DEF Inv, SlotsFollow
  <1>2. ASSUME NEW k \in Servers, Play(k) PROVE SlotsFollow'
    <2>1. last'[k] = 0 /\ (\A j \in Servers \ {k} : last'[j] = last[j]) /\ UNCHANGED <<seq, pushes, sent, got>>
      BY <1>2 DEF Play, Inv, Typed, ServersTyped, slots, sketch
    <2> QED
      BY <1>0, <2>1 DEF Inv, SlotsFollow
  <1>3. ASSUME NEW k \in Servers, Write(k) PROVE SlotsFollow'
    <2>1. PICK v \in Viewers : v = worker[k]
      BY <1>3, WriteIsNew
    <2>2. /\ last'[k] = seq[k] /\ \A j \in Servers \ {k} : last'[j] = last[j]
          /\ got'[v] = seq[k] /\ sent'[v] = sent[v] + 1
          /\ \A u \in Viewers \ {v} : got'[u] = got[u] /\ sent'[u] = sent[u]
          /\ UNCHANGED <<seq, pushes>>
      BY <1>3, <2>1 DEF Write, Inv, Typed, ServersTyped, ViewersTyped, slots, sketch
    <2>3. sent[v] + 1 <= seq[k]
      BY <1>3, <2>1, WriteIsNew
    <2> QED
      BY <1>0, <2>2, <2>3 DEF Inv, SlotsFollow
  <1>4. ASSUME NEW k \in Servers, WriteFails(k) \/ Stall(k) PROVE SlotsFollow'
    <2>1. /\ last'[k] = seq[k] \/ last'[k] = last[k]
          /\ \A j \in Servers \ {k} : last'[j] = last[j]
          /\ UNCHANGED <<seq, pushes, sent, got>>
      BY <1>4 DEF WriteFails, Stall, Inv, Typed, ServersTyped, slots, sketch
    <2> QED
      BY <1>0, <2>1 DEF Inv, SlotsFollow
  <1>5. CASE UNCHANGED <<seq, last, pushes, sent, got>>
    BY <1>5 DEF Inv, SlotsFollow
  <1> QED
    BY <1>1, <1>2, <1>3, <1>4, <1>5
       DEF Next, vars, Pushing, PushRtp, PushRtpFails, PushNoRtp, PushDone, RtpTo, StopSenders,
           ListenStatus, Bind, Open, OpenFails, Count, Worker, EndWorker, HangUp, Refused, Accept,
           Connect, slots, sketch, workers, viewers

LEMMA Invariance == Spec => []Inv
  BY InitTyped, NextTyped, InitWorks, NextWorks, InitTurns, NextTurns, InitFollows, NextFollows,
     PTL DEF Spec, Inv

Reading(v) == IF place[v] \in {"playing", "left"} THEN at[v] ELSE NoServer

\* However many servers a sketch opens one after the other, a viewer is written the
\* newest frame of its own server's slot, each at most once and in order.
THEOREM PromiseKept == Spec => KeepsThePromise
  <1>1. Init => Abstract!Init
    BY DEF Init, Abstract!Init
  <1>2. Inv /\ [Next]_vars => [Abstract!Next]_Abstract!vars
    <2> SUFFICES ASSUME Inv, [Next]_vars PROVE [Abstract!Next]_Abstract!vars
      OBVIOUS
    <2>1. CASE PushToSlot
      <3>1. CASE current = NoServer
        BY <2>1, <3>1 DEF PushToSlot, slots, viewers, Abstract!vars
      <3>2. CASE current # NoServer
        <4>1. PICK k \in Servers : k = current
          BY <3>2 DEF Inv, Typed, SlotsTyped
        <4>2. Abstract!Push(k)
          BY <2>1, <3>2, <4>1 DEF PushToSlot, Publish, viewers, Abstract!Push
        <4> QED
          BY <4>2 DEF Abstract!Next
      <3> QED
        BY <3>1, <3>2
    <2>2. ASSUME NEW k \in Servers, Play(k) PROVE [Abstract!Next]_Abstract!vars
      <3>1. PICK v \in Viewers : v = Head(queue[k])
        BY <2>2, Turn DEF Play, Inv, Typed
      <3>2. v = queue[k][1] /\ 1 \in 1 .. Len(queue[k])
        BY <2>2, <3>1, TailKeeps DEF Play, Inv, Typed, ServersTyped, Turns, InQueue
      <3>3. place[v] = "queued" /\ at[v] = k /\ got[v] = 0
        BY <3>2 DEF Inv, Turns, InQueue, BeforeTurn
      <3>4. place' = [place EXCEPT ![v] = "playing"] /\ UNCHANGED <<seq, at, got, sent>>
        BY <2>2, <3>1 DEF Play, slots
      <3>5. Abstract!Subscribe(v, k)
        BY <3>3, <3>4 DEF Abstract!Subscribe, Inv, Typed, ViewersTyped
      <3> QED
        BY <3>5 DEF Abstract!Next
    <2>3. ASSUME NEW k \in Servers, Write(k) PROVE [Abstract!Next]_Abstract!vars
      <3>1. PICK v \in Viewers : v = worker[k]
        BY <2>3, WriteIsNew
      <3>2. /\ at[v] = k /\ place[v] = "playing" /\ seq[k] \in Nat /\ got[v] \in Nat /\ sent[v] \in Nat
            /\ got[v] < seq[k] /\ sent[v] + 1 <= seq[k] /\ seq[k] <= MaxPushes
        BY <2>3, <3>1, WriteIsNew
      <3>3. (sent[v] + 1) % (MaxPushes + 1) = sent[v] + 1
        BY <3>2, Bounds
      <3>4. /\ got' = [got EXCEPT ![v] = seq[k]] /\ sent' = [sent EXCEPT ![v] = sent[v] + 1]
            /\ UNCHANGED <<seq, place, at>>
        BY <2>3, <3>1 DEF Write, slots
      <3>5. k # NoServer
        BY Bounds
      <3>6. Abstract!Take(v)
        BY <3>2, <3>3, <3>4, <3>5 DEF Abstract!Take
      <3> QED
        BY <3>6 DEF Abstract!Next
    <2>4. ASSUME NEW k \in Servers, WriteFails(k) \/ Stall(k) PROVE [Abstract!Next]_Abstract!vars
      <3>1. PICK v \in Viewers : v = worker[k]
        BY <2>4 DEF WriteFails, Stall, Playing
      <3>2. place' = [place EXCEPT ![v] = "over"] /\ UNCHANGED <<seq, at, got, sent>>
        BY <2>4, <3>1 DEF WriteFails, Stall, Release, slots
      <3>3. Abstract!Finish(v)
        BY <3>2 DEF Abstract!Finish, Inv, Typed, ViewersTyped
      <3> QED
        BY <3>3 DEF Abstract!Next
    <2>5. ASSUME NEW v \in Viewers, Refused(v) \/ HangUp(v) \/ Accept(v) \/ \E k \in Servers : Connect(v, k)
          PROVE  UNCHANGED Abstract!vars
      <3>1. UNCHANGED <<seq, got, sent>>
        BY <2>5 DEF Refused, HangUp, Accept, Connect, slots
      <3>2. \A u \in Viewers : Reading(u)' = Reading(u)
        BY <2>5 DEF Refused, HangUp, Accept, Queue, Reply, Connect, Reading, Inv, Typed, ViewersTyped
      <3> QED
        BY <3>1, <3>2 DEF Abstract!vars, Reading
    <2>6. CASE UNCHANGED <<seq, place, at, got, sent>>
      BY <2>6 DEF Abstract!vars
    <2> QED
      BY <2>1, <2>2, <2>3, <2>4, <2>5, <2>6
         DEF Next, vars, Pushing, PushRtp, PushRtpFails, PushNoRtp, PushDone, RtpTo, StopSenders,
           ListenStatus, Bind, Open, OpenFails, Count, Worker, EndWorker, slots, viewers
  <1> QED
    BY <1>1, <1>2, Invariance, PTL DEF Spec, KeepsThePromise, Abstract!Spec
=============================================================================
