------------------------------- MODULE Stream -------------------------------
(***************************************************************************)
(* The MJPEG side of the facade (stream.rs): listen, push_jpeg, the two    *)
(* threads of each server and the viewers that come to it.                 *)
(*                                                                         *)
(* Each successful listen leaves an accepting thread, which answers pages  *)
(* and status requests and queues the streams, and a worker thread, which  *)
(* plays one stream at a time from the server's latest-frame slot.  A      *)
(* later listen moves the pushes to its own slot, and listen_status to one *)
(* that nobody plays; the earlier server keeps its threads and its slot.   *)
(* STATE is held for a whole push, and listen, rtp_to and stop_senders     *)
(* wait for it; a push is two steps, because the worker may take the frame *)
(* before the RTP sender has tried it.                                     *)
(*                                                                         *)
(* A frame is its number in the slot it is published to, and whether it    *)
(* fits the worker's scratch buffer.  What a viewer does with a socket is  *)
(* left out, and so is the PCM sender, which shares only STATE.            *)
(***************************************************************************)
EXTENDS Integers, Sequences

CONSTANTS Viewers,      \* connections: each makes one request
          MaxServers,   \* bound: calls of listen and listen_status
          MaxPushes     \* bound: frames pushed

ASSUME BoundsAssumption == MaxServers \in Nat \ {0} /\ MaxPushes \in Nat

Servers == 1 .. MaxServers
NoServer == 0
Nobody == "nobody"

ASSUME ViewersAssumption == Viewers \cap {Nobody, "ended"} = {}

VARIABLES
  server,       \* server[k]: "none", "bound", "open", "failed", or "status" (only that)
  current,      \* STATE.server: where push_jpeg publishes
  rtp,          \* STATE.rtp is Some
  jpegPushed,   \* STATE.jpeg_pushed
  pushing,      \* a push holds STATE between the slot and the RTP sender
  seq,          \* Slot.frame.0: frames published to server k's slot
  fits,         \* Slot.frame.1: the newest one fits MAX_JPEG
  queue,        \* queue[k]: the channel from the accepting thread to the worker
  worker,       \* worker[k]: the viewer it plays to, nobody, or "ended"
  last,         \* SlotSource.last
  counted,      \* ServeStats of the accepting thread of k, its own
  totals,       \* HttpStats of server k, which both its threads write
  place,        \* place[v]: "away", "backlog", "queued", "playing", "over", or
                \* "left" for a viewer that hung up while it was played to
  at,           \* at[v]: the server v connected to
  got,          \* history: the last frame written to v
  sent,         \* history: how many frames were written to v
  pushes,       \* bound: frames pushed
  taken         \* took: the slot took the frame of the push under way

sketch == <<current, rtp, jpegPushed, pushing, pushes, taken>>
slots == <<seq, fits>>
workers == <<queue, worker, last>>
counters == <<counted, totals>>
viewers == <<place, at, got, sent>>
vars == <<server, sketch, slots, workers, counters, viewers>>

Init ==
  /\ server = [k \in Servers |-> "none"]
  /\ current = NoServer /\ rtp = FALSE /\ jpegPushed = 0
  /\ pushing = FALSE /\ pushes = 0 /\ taken = FALSE
  /\ seq = [k \in Servers |-> 0]
  /\ fits = [k \in Servers |-> TRUE]
  /\ queue = [k \in Servers |-> <<>>]
  /\ worker = [k \in Servers |-> "ended"]
  /\ last = [k \in Servers |-> 0]
  /\ counted = [k \in Servers |-> [connections |-> 0, other |-> 0]]
  /\ totals = [k \in Servers |-> [connections |-> 0, other |-> 0, streams |-> 0]]
  /\ place = [v \in Viewers |-> "away"]
  /\ at = [v \in Viewers |-> NoServer]
  /\ got = [v \in Viewers |-> 0]
  /\ sent = [v \in Viewers |-> 0]

-----------------------------------------------------------------------------
(* The sketch: listen, listen_status, rtp_to, stop_senders, push_jpeg.     *)

\* A call of listen or listen_status is over.
Settled == {"open", "failed", "status"}

\* A listen that moves the pushes before its accepting thread runs.
BindCurrent(k) ==
  /\ server[k] = "none" /\ ~pushing
  /\ \A j \in Servers : j < k => server[j] \in Settled
  /\ server' = [server EXCEPT ![k] = "bound"]
  /\ worker' = [worker EXCEPT ![k] = Nobody]
  /\ current' = k
  /\ UNCHANGED <<counters, rtp, jpegPushed, pushing, pushes, taken, slots, queue, last, viewers>>

\* listen_inner, up to the worker's thread.  A port that cannot be bound is an
\* error that changes nothing.
Bind(k) ==
  /\ server[k] = "none" /\ ~pushing
  /\ \A j \in Servers : j < k => server[j] \in Settled
  /\ server' = [server EXCEPT ![k] = "bound"]
  /\ worker' = [worker EXCEPT ![k] = Nobody]
  /\ UNCHANGED <<counters, sketch, slots, queue, last, viewers>>

\* The accepting thread runs, and the pushes move to the new server.
Open(k) ==
  /\ server[k] = "bound" /\ ~pushing
  /\ server' = [server EXCEPT ![k] = "open"]
  /\ current' = k
  /\ UNCHANGED <<counters, rtp, jpegPushed, pushing, pushes, taken, slots, workers, viewers>>

\* The accepting thread cannot be spawned: its closure is dropped, and with it
\* the sending end of the worker's queue.  The old server stays the current.
OpenFails(k) ==
  /\ server[k] = "bound"
  /\ server' = [server EXCEPT ![k] = "failed"]
  /\ UNCHANGED <<counters, sketch, slots, workers, viewers>>

RtpTo ==
  /\ ~rtp /\ ~pushing
  /\ rtp' = TRUE
  /\ UNCHANGED <<counters, server, current, jpegPushed, pushing, pushes, taken, slots,
                 workers, viewers>>

StopSenders ==
  /\ rtp /\ ~pushing
  /\ rtp' = FALSE
  /\ UNCHANGED <<counters, server, current, jpegPushed, pushing, pushes, taken, slots,
                 workers, viewers>>

\* listen_status moves the pushes too, to a slot that no worker plays; its
\* clients are StatusOnly.
ListenStatus(k) ==
  /\ server[k] = "none" /\ ~pushing
  /\ \A j \in Servers : j < k => server[j] \in Settled
  /\ server' = [server EXCEPT ![k] = "status"]
  /\ current' = k
  /\ UNCHANGED <<counters, rtp, jpegPushed, pushing, pushes, taken, slots, workers, viewers>>

\* Slot::publish.
Publish(k, small) ==
  /\ seq' = [seq EXCEPT ![k] = @ + 1]
  /\ fits' = [fits EXCEPT ![k] = small]

\* push_jpeg locks STATE and publishes to the current server, if any.
PushToSlot ==
  /\ ~pushing /\ pushes < MaxPushes
  /\ pushing' = TRUE
  /\ pushes' = pushes + 1
  /\ taken' = (current # NoServer)
  /\ IF current = NoServer THEN UNCHANGED slots
                           ELSE \E small \in BOOLEAN : Publish(current, small)
  /\ UNCHANGED <<counters, server, current, rtp, jpegPushed, workers, viewers>>

\* A push that is counted once for each destination.
PushDoneForEach(took) ==
  /\ pushing
  /\ pushing' = FALSE /\ taken' = FALSE
  /\ jpegPushed' = jpegPushed + (IF took THEN 1 ELSE 0) + (IF taken THEN 1 ELSE 0)
  /\ UNCHANGED <<counters, server, current, rtp, pushes, slots, workers, viewers>>

\* .. then the RTP sender, whose error is the answer of the whole push; a push
\* that is true is counted.
PushDone(took) ==
  /\ pushing
  /\ pushing' = FALSE /\ taken' = FALSE
  /\ jpegPushed' = IF took THEN jpegPushed + 1 ELSE jpegPushed
  /\ UNCHANGED <<counters, server, current, rtp, pushes, slots, workers, viewers>>

PushRtp == rtp /\ PushDone(TRUE)
PushRtpFails == rtp /\ PushDone(FALSE)
PushNoRtp == ~rtp /\ PushDone(taken)

-----------------------------------------------------------------------------
(* The viewers.                                                            *)

Connect(v, k) ==
  /\ place[v] = "away" /\ server[k] \in {"bound", "open"}
  /\ place' = [place EXCEPT ![v] = "backlog"]
  /\ at' = [at EXCEPT ![v] = k]
  /\ UNCHANGED <<counters, server, sketch, slots, workers, got, sent>>

\* A viewer that hangs up before its turn is noticed no sooner than one that
\* hangs up then.
HangUp(v) ==
  /\ place[v] = "playing"
  /\ place' = [place EXCEPT ![v] = "left"]
  /\ UNCHANGED <<server, sketch, slots, workers, counters, at, got, sent>>

\* The listener goes with the thread that was to accept on it.
Refused(v) ==
  /\ place[v] = "backlog" /\ server[at[v]] = "failed"
  /\ place' = [place EXCEPT ![v] = "over"]
  /\ UNCHANGED <<counters, server, sketch, slots, workers, at, got, sent>>

-----------------------------------------------------------------------------
(* The accepting thread.                                                   *)

\* The thread has written to the totals what it counted.
Counted(k) == counted[k] = [connections |-> totals[k].connections, other |-> totals[k].other]

\* A request for the stream.
Queue(v) ==
  /\ place' = [place EXCEPT ![v] = "queued"]
  /\ queue' = [queue EXCEPT ![at[v]] = Append(@, v)]
  /\ counted' = [counted EXCEPT ![at[v]].connections = @ + 1]

\* Any other request.
Reply(v) ==
  /\ place' = [place EXCEPT ![v] = "over"]
  /\ counted' = [counted EXCEPT ![at[v]].connections = @ + 1, ![at[v]].other = @ + 1]
  /\ UNCHANGED queue

\* A server of one thread, which accepts nothing while a stream plays.
AcceptBetweenStreams(v) ==
  /\ place[v] = "backlog" /\ server[at[v]] = "open" /\ Counted(at[v])
  /\ worker[at[v]] = Nobody
  /\ Queue(v) \/ Reply(v)
  /\ UNCHANGED <<server, sketch, slots, worker, last, totals, at, got, sent>>

\* accept_one: a page is answered here, a stream is sent to the worker.
Accept(v) ==
  /\ place[v] = "backlog" /\ server[at[v]] = "open" /\ Counted(at[v])
  /\ Queue(v) \/ Reply(v)
  /\ UNCHANGED <<server, sketch, slots, worker, last, totals, at, got, sent>>

\* Its totals are copied, after the worker may have begun and ended the stream.
Count(k) ==
  /\ ~Counted(k)
  /\ totals' = [totals EXCEPT ![k].connections = counted[k].connections,
                             ![k].other = counted[k].other]
  /\ UNCHANGED <<server, sketch, slots, workers, counted, viewers>>

-----------------------------------------------------------------------------
(* The worker.                                                             *)

\* for conn in queued: a fresh SlotSource for each.
Play(k) ==
  /\ worker[k] = Nobody /\ queue[k] # <<>>
  /\ worker' = [worker EXCEPT ![k] = Head(queue[k])]
  /\ queue' = [queue EXCEPT ![k] = Tail(@)]
  /\ last' = [last EXCEPT ![k] = 0]
  /\ place' = [place EXCEPT ![Head(queue[k])] = "playing"]
  /\ UNCHANGED <<counters, server, sketch, slots, at, got, sent>>

\* The queue is empty and its sender is gone.
EndWorker(k) ==
  /\ worker[k] = Nobody /\ queue[k] = <<>> /\ server[k] = "failed"
  /\ worker' = [worker EXCEPT ![k] = "ended"]
  /\ UNCHANGED <<counters, server, sketch, slots, queue, last, viewers>>

Playing(k) == worker[k] \in Viewers

\* A slot source that takes whatever frame there is.
AnyFrame(k) == seq[k] # 0

\* The condition of next_packet's wait.
Fresh(k) == seq[k] # last[k] /\ seq[k] # 0

\* A worker that copies its total like the accepting thread.
ReleaseCopies(k) ==
  /\ worker' = [worker EXCEPT ![k] = Nobody]
  /\ place' = [place EXCEPT ![worker[k]] = "over"]
  /\ totals' = [totals EXCEPT ![k].streams = 1]

\* The stream of server k is over: the connection is dropped, and added to the
\* totals.
Release(k) ==
  /\ worker' = [worker EXCEPT ![k] = Nobody]
  /\ place' = [place EXCEPT ![worker[k]] = "over"]
  /\ totals' = [totals EXCEPT ![k].streams = @ + 1]

\* next_packet has a frame and the viewer takes it.
Write(k) ==
  LET v == worker[k] IN
  /\ Playing(k) /\ Fresh(k) /\ fits[k] /\ place[v] = "playing"
  /\ last' = [last EXCEPT ![k] = seq[k]]
  /\ got' = [got EXCEPT ![v] = seq[k]]
  /\ sent' = [sent EXCEPT ![v] = @ + 1]
  /\ UNCHANGED <<counters, server, sketch, slots, queue, worker, place, at>>

\* The frame is too large for the scratch buffer, or the viewer has hung up:
\* only a frame tells.
WriteFails(k) ==
  /\ Playing(k) /\ Fresh(k) /\ (~fits[k] \/ place[worker[k]] = "left")
  /\ last' = [last EXCEPT ![k] = seq[k]]
  /\ Release(k)
  /\ UNCHANGED <<counted, server, sketch, slots, queue, at, got, sent>>

\* A source that gives a silent stream up only when its viewer is gone.
StallIfGone(k) ==
  /\ Playing(k) /\ ~Fresh(k) /\ place[worker[k]] = "left"
  /\ Release(k)
  /\ UNCHANGED <<counted, server, sketch, slots, queue, last, at, got, sent>>

\* STREAM_STALL has passed and there is still no frame (one that came with the
\* last wait is looked at first): the connection is given up.
Stall(k) ==
  /\ Playing(k) /\ ~Fresh(k)
  /\ Release(k)
  /\ UNCHANGED <<counted, server, sketch, slots, queue, last, at, got, sent>>

Worker(k) == Play(k) \/ Write(k) \/ WriteFails(k) \/ EndWorker(k)
Pushing == PushRtp \/ PushRtpFails \/ PushNoRtp

Next ==
  \/ RtpTo \/ StopSenders \/ PushToSlot \/ Pushing
  \/ \E k \in Servers : Bind(k) \/ Open(k) \/ OpenFails(k) \/ ListenStatus(k) \/ Count(k)
                       \/ Worker(k) \/ Stall(k)
  \/ \E v \in Viewers :
       HangUp(v) \/ Refused(v) \/ Accept(v) \/ \E k \in Servers : Connect(v, k)

Spec == Init /\ [][Next]_vars

\* Threads run.  Nobody has to listen, push, connect or leave, and a stream may
\* play for ever: that the frames stop is an assumption of the properties.
Fairness ==
  /\ WF_vars(Pushing)
  /\ \A k \in Servers : WF_vars(Open(k) \/ OpenFails(k)) /\ WF_vars(Count(k)) /\ WF_vars(Worker(k))
  /\ \A v \in Viewers : WF_vars(Accept(v)) /\ WF_vars(Refused(v))

FairSpec == Spec /\ Fairness

-----------------------------------------------------------------------------
TypeOK ==
  /\ server \in [Servers -> {"none", "bound", "open", "failed", "status"}]
  /\ current \in Servers \cup {NoServer}
  /\ rtp \in BOOLEAN /\ pushing \in BOOLEAN /\ taken \in BOOLEAN
  /\ pushes \in 0 .. MaxPushes /\ jpegPushed \in 0 .. MaxPushes
  /\ seq \in [Servers -> Nat] /\ last \in [Servers -> Nat]
  /\ fits \in [Servers -> BOOLEAN]
  /\ queue \in [Servers -> Seq(Viewers)]
  /\ worker \in [Servers -> Viewers \cup {Nobody, "ended"}]
  /\ counted \in [Servers -> [connections : Nat, other : Nat]]
  /\ totals \in [Servers -> [connections : Nat, other : Nat, streams : Nat]]
  /\ place \in [Viewers -> {"away", "backlog", "queued", "playing", "left", "over"}]
  /\ at \in [Viewers -> Servers \cup {NoServer}]
  /\ got \in [Viewers -> Nat] /\ sent \in [Viewers -> Nat]

\* A listen that fails half-way (its accepting thread cannot be spawned) leaves
\* the pushes where they were, and no stream waits at a server without one.
OnlyOpenServersWork ==
  /\ current # NoServer => server[current] \in {"open", "status"}
  /\ \A k \in Servers :
       /\ Playing(k) \/ queue[k] # <<>> => server[k] = "open"
       /\ seq[k] # 0 => server[k] \in {"open", "status"}

\* The totals that two threads write add up once the accepting thread has
\* written its own: every connection was answered, was streamed to the end, is
\* being streamed to or waits, also where the worker was the faster of the two.
TotalsAddUp ==
  \A k \in Servers :
    Counted(k) =>
      totals[k].connections = totals[k].other + totals[k].streams + Len(queue[k])
                                + IF Playing(k) THEN 1 ELSE 0

\* A viewer is written the newest frame of its own server's slot, each at most
\* once and in order, from the one that is there when its turn comes.
Abstract == INSTANCE LatestValue WITH
  Channels <- Servers, Subs <- Viewers, NoChannel <- NoServer,
  Modulus <- MaxPushes + 1,
  pushed <- seq,
  open <- [k \in Servers |-> TRUE],
  reading <- [v \in Viewers |-> IF place[v] \in {"playing", "left"} THEN at[v] ELSE NoServer],
  number <- sent

KeepsThePromise == Abstract!Spec

\* A page or a status request is answered though a stream plays for ever: the
\* accepting thread waits for no worker.
RequestsAreAnswered ==
  \A v \in Viewers : (place[v] = "backlog") ~> (place[v] # "backlog")

\* A stream in the queue has its turn, also behind a viewer that hung up or
\* watches a camera that died, and also on a server that listen has replaced:
\* without frames, STREAM_STALL passes and ends the stream before it.
QueuedStreamsHaveTheirTurn ==
  (\A k \in Servers : WF_vars(Stall(k))) =>
    \A v \in Viewers : (place[v] = "queued") ~> (place[v] # "queued")

\* "true when at least one destination exists and took it": a push whose frame
\* a server that plays it to viewers has taken is one that succeeds, and is counted.
TakenIsTrue ==
  [][pushing /\ ~pushing' /\ taken /\ server[current] = "open" => jpegPushed' = jpegPushed + 1]_vars
=============================================================================
