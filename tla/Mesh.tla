-------------------------------- MODULE Mesh --------------------------------
(***************************************************************************)
(* The life of the mesh node behind the facade (mesh.rs): begin, service   *)
(* and end on the sketch's threads, the node on a thread of its own.       *)
(*                                                                         *)
(* Sketch threads meet in two mutexes, IDENTITY (which hands out the store *)
(* of the keys once) and MESH (the State of the running node), and hold    *)
(* neither while they wait for the node or call the board.  The node runs  *)
(* on a current-thread runtime, so its adoption handlers run only while    *)
(* the 100 ms poll sleeps: a pass of the poll is one step.                 *)
(*                                                                         *)
(* The channels themselves are LatestFrames; here a subscriber is only     *)
(* asleep in next_packet or not, and a runtime does not end before the     *)
(* calls it runs on other threads do.  The store before it is handed       *)
(* over is Identity.  A TXT record is the node it names and the owner pin  *)
(* it was composed from.                                                   *)
(***************************************************************************)
EXTENDS Integers, FiniteSets

CONSTANTS Threads,      \* threads that call begin and end
          Sketch,       \* the one that calls service
          MaxBoards,    \* bound: boards installed, each with a store of its own
          MaxNodes,     \* bound: node threads spawned
          MaxFlips,     \* bound: adoptions and releases of each node
          MaxReads      \* bound: calls of next_packet that sleep

ASSUME SketchAssumption == Sketch \in Threads
ASSUME BoundsAssumption == {MaxBoards, MaxNodes} \subseteq Nat \ {0} /\ {MaxFlips, MaxReads} \subseteq Nat

Nodes == 1 .. MaxNodes
NoNode == 0
Pins == {"free", "adopted"}
None == "none"
NoRecord == [node |-> NoNode, pin |-> None]

VARIABLES
  boards,       \* boards installed so far
  boardStore,   \* the installed board has not handed its store out yet
  advert,       \* the TXT record the board publishes
  valid,        \* the board was told that the running image is good
  identity,     \* IDENTITY: "none", "full" (holds the store), "empty"
  mesh,         \* MESH: the node whose State it holds
  made,         \* node threads spawned so far
  pc,           \* pc[t]: where thread t is in begin, service or end
  hand,         \* hand[t]: the node thread t works on
  txt,          \* txt[t]: the pin of the record thread t is about to publish
  answer,       \* what the last begin answered
  node,         \* node[g]: "none", "starting", "up", "stopping", "gone"
  ready,        \* ready[g]: the ready channel: a pin, "failed" or "none"
  stop,         \* stop[g]: the stop channel: "live", "sent" or "dropped"
  pin,          \* pin[g]: the owner pin in the store that node g is given
  adoptedSeen,  \* Shared.adopted_seen
  readvertise,  \* Shared.readvertise: the pin of a record, or "none"
  armed,        \* armed[g]: ota_armed of the begin that spawned g
  committed,    \* committed[g]: node.last_ota() is Some
  lastOta,      \* Shared.last_ota is Some
  flips,        \* bound: how often pin[g] changed
  closed,       \* closed[g]: the channels of node g are closed
  reader,       \* reader[g]: a subscriber of g is "asleep" in next_packet, or "none"
  reads,        \* bound: how often one was
  refused       \* history: the board refused a record of this node

board == <<boards, boardStore, advert, valid>>
sketch == <<pc, hand, txt, answer>>
thread == <<node, ready, stop, pin, adoptedSeen, readvertise, armed, committed,
            lastOta, flips>>
channels == <<closed, reader, reads>>
vars == <<board, identity, mesh, made, sketch, thread, channels, refused>>

\* A process with a new board, which may not be its first one; a thread may
\* have no business with the mesh, and the bounds may be used up in part.
Init ==
  /\ boards \in 1 .. MaxBoards /\ boardStore = TRUE /\ advert = NoRecord /\ valid = FALSE
  /\ identity = None /\ mesh = NoNode /\ made = 0
  /\ pc \in [Threads -> {"idle", "away"}]
  /\ hand = [t \in Threads |-> NoNode]
  /\ txt = [t \in Threads |-> None]
  /\ answer = None
  /\ node = [g \in Nodes |-> None]
  /\ ready = [g \in Nodes |-> None]
  /\ stop = [g \in Nodes |-> "live"]
  /\ pin \in [Nodes -> Pins]
  /\ adoptedSeen = [g \in Nodes |-> "free"]
  /\ readvertise = [g \in Nodes |-> None]
  /\ armed = [g \in Nodes |-> FALSE]
  /\ committed = [g \in Nodes |-> FALSE]
  /\ lastOta = [g \in Nodes |-> FALSE]
  /\ flips \in [Nodes -> 0 .. MaxFlips]
  /\ closed = [g \in Nodes |-> FALSE]
  /\ reader = [g \in Nodes |-> None]
  /\ reads \in 0 .. MaxReads
  /\ refused = [g \in Nodes |-> FALSE]

InBegin == {"take", "prepare", "wait", "advertise", "validate", "publish"}

\* Thread t is in no call of the facade.
Outside(t) == pc[t] \in {"idle", "away"}

Goto(t, where) == pc' = [pc EXCEPT ![t] = where]
Answer(t, what) == Goto(t, "idle") /\ answer' = what

-----------------------------------------------------------------------------
(* What the mesh finds: a board, and identity::begin and end.              *)

\* A new board: only in a quiet process, as the tests do it.
Install ==
  /\ boards < MaxBoards
  /\ mesh = NoNode /\ \A t \in Threads : Outside(t)
  /\ boards' = boards + 1 /\ boardStore' = TRUE
  /\ advert' = NoRecord /\ valid' = FALSE
  /\ UNCHANGED <<identity, mesh, made, sketch, thread, channels, refused>>

\* identity::begin as the mesh sees it: the board hands its store out once.
\* A sketch calls it before mesh::begin, not beside one that is under way.
IdentityBegin ==
  /\ boardStore /\ \A t \in Threads : pc[t] \notin InBegin
  /\ boardStore' = FALSE /\ identity' = "full"
  /\ UNCHANGED <<boards, advert, valid, mesh, made, sketch, thread, channels, refused>>

IdentityEnd ==
  /\ identity # None
  /\ identity' = None
  /\ UNCHANGED <<board, mesh, made, sketch, thread, channels, refused>>

-----------------------------------------------------------------------------
(* mesh::begin.                                                            *)

\* Is a node begun?  MESH is released before the answer is used.
Begin(t) ==
  /\ pc[t] = "idle"
  /\ IF mesh # NoNode THEN Answer(t, "already begun")
                      ELSE Goto(t, "take") /\ UNCHANGED answer
  /\ UNCHANGED <<board, identity, mesh, made, hand, txt, thread, channels, refused>>

\* A take_store that leaves the store where it was.
CopyStore(t) ==
  /\ pc[t] = "take"
  /\ IF identity = "full" THEN Goto(t, "prepare") /\ UNCHANGED answer
                          ELSE Answer(t, "identity not begun")
  /\ UNCHANGED <<board, identity, mesh, made, hand, txt, thread, channels, refused>>

\* identity::take_store.
TakeStore(t) ==
  /\ pc[t] = "take"
  /\ IF identity = "full"
       THEN identity' = "empty" /\ Goto(t, "prepare") /\ UNCHANGED answer
       ELSE Answer(t, "identity not begun") /\ UNCHANGED identity
  /\ UNCHANGED <<board, mesh, made, hand, txt, thread, channels, refused>>

\* prepare_async, the update slot (only with a maker) and the address are
\* asked of the board, and the node's thread is spawned with the store.
Spawn(t) ==
  /\ pc[t] = "prepare" /\ made < MaxNodes
  /\ made' = made + 1
  /\ hand' = [hand EXCEPT ![t] = made + 1]
  /\ node' = [node EXCEPT ![made + 1] = "starting"]
  /\ \E slot \in BOOLEAN :
       armed' = [armed EXCEPT ![made + 1] = slot /\ identity # None]
  /\ Goto(t, "wait")
  /\ UNCHANGED <<board, identity, mesh, txt, answer, ready, stop, pin, adoptedSeen,
                 readvertise, committed, lastOta, flips, channels, refused>>

\* One of them refuses: `?` drops the store.
SpawnFails(t) ==
  /\ pc[t] = "prepare"
  /\ Answer(t, "failed")
  /\ UNCHANGED <<board, identity, mesh, made, hand, txt, thread, channels, refused>>

\* A begin that takes any answer of the node for a success.
ReceiveAny(t) ==
  LET g == hand[t] IN
  /\ pc[t] = "wait" /\ ready[g] # None
  /\ Goto(t, "advertise") /\ txt' = [txt EXCEPT ![t] = ready[g]] /\ UNCHANGED answer
  /\ UNCHANGED <<board, identity, mesh, made, hand, thread, channels, refused>>

\* ready_rx.recv_timeout: the node answered in time ...
Receive(t) ==
  LET g == hand[t] IN
  /\ pc[t] = "wait" /\ ready[g] # None
  /\ IF ready[g] = "failed"
       THEN Answer(t, "failed") /\ UNCHANGED txt
       ELSE Goto(t, "advertise") /\ txt' = [txt EXCEPT ![t] = ready[g]] /\ UNCHANGED answer
  /\ UNCHANGED <<board, identity, mesh, made, hand, thread, channels, refused>>

\* A begin that goes on without the node when the 30 s pass.
GoOn(t) ==
  /\ pc[t] = "wait" /\ ready[hand[t]] = None
  /\ Goto(t, "advertise")
  /\ UNCHANGED <<board, identity, mesh, made, hand, txt, answer, thread, channels, refused>>

\* A begin that gives up and leaves its end of the stop channel alive.
GiveUpSilently(t) ==
  /\ pc[t] = "wait" /\ ready[hand[t]] = None
  /\ Answer(t, "failed")
  /\ UNCHANGED <<board, identity, mesh, made, hand, txt, thread, channels, refused>>

\* ... or 30 s pass: `?` drops stop_tx, and the node is left to find out.
GiveUp(t) ==
  /\ pc[t] = "wait" /\ ready[hand[t]] = None
  /\ stop' = [stop EXCEPT ![hand[t]] = "dropped"]
  /\ Answer(t, "failed")
  /\ UNCHANGED <<board, identity, mesh, made, hand, txt, node, ready, pin, adoptedSeen,
                 readvertise, armed, committed, lastOta, flips, channels, refused>>

\* Board::advertise; a refusal is recorded and is not fatal.
Advertise(t) ==
  LET g == hand[t] IN
  /\ pc[t] = "advertise"
  /\ \/ advert' = [node |-> g, pin |-> txt[t]] /\ UNCHANGED refused
     \/ refused' = [refused EXCEPT ![g] = TRUE] /\ UNCHANGED advert
  /\ Goto(t, IF armed[g] THEN "validate" ELSE "publish")
  /\ UNCHANGED <<boards, boardStore, valid, identity, mesh, made, hand, txt, answer, thread, channels>>

\* Board::ota_running_valid; a refusal is recorded and is not fatal.
Validate(t) ==
  /\ pc[t] = "validate"
  /\ valid' \in {valid, TRUE}
  /\ Goto(t, "publish")
  /\ UNCHANGED <<boards, boardStore, advert, identity, mesh, made, hand, txt, answer,
                 thread, channels, refused>>

\* *MESH = Some(State): a State it replaced would be dropped, stop_tx with it.
Publish(t) ==
  /\ pc[t] = "publish"
  /\ mesh' = hand[t]
  /\ stop' = [g \in Nodes |-> IF g = mesh /\ stop[g] = "live" THEN "dropped" ELSE stop[g]]
  /\ Answer(t, "begun")
  /\ UNCHANGED <<board, identity, made, hand, txt, node, ready, pin, adoptedSeen,
                 readvertise, armed, committed, lastOta, flips, channels, refused>>

-----------------------------------------------------------------------------
(* mesh::service, on the sketch's thread.                                  *)

\* readvertise.take(), under MESH; without a record there is nothing to do.
ServiceTake(t) ==
  /\ pc[t] = "idle" /\ t = Sketch
  /\ mesh # NoNode /\ readvertise[mesh] # None
  /\ hand' = [hand EXCEPT ![t] = mesh]
  /\ txt' = [txt EXCEPT ![t] = readvertise[mesh]]
  /\ readvertise' = [readvertise EXCEPT ![mesh] = None]
  /\ Goto(t, "service")
  /\ UNCHANGED <<board, identity, mesh, made, answer, node, ready, stop, pin,
                 adoptedSeen, armed, committed, lastOta, flips, channels, refused>>

\* Board::advertise_txt; a refusal is recorded, and the record is gone.
ServicePublish(t) ==
  LET g == hand[t] IN
  /\ pc[t] = "service"
  /\ \/ advert' = [node |-> g, pin |-> txt[t]] /\ UNCHANGED refused
     \/ refused' = [refused EXCEPT ![g] = TRUE] /\ UNCHANGED advert
  /\ Goto(t, "idle")
  /\ UNCHANGED <<boards, boardStore, valid, identity, mesh, made, hand, txt, answer, thread, channels>>

-----------------------------------------------------------------------------
(* mesh::end.                                                              *)

\* The State is taken out of MESH, once.
End(t) ==
  /\ pc[t] = "idle" /\ mesh # NoNode
  /\ hand' = [hand EXCEPT ![t] = mesh]
  /\ mesh' = NoNode
  /\ Goto(t, "close")
  /\ UNCHANGED <<board, identity, made, txt, answer, thread, channels, refused>>

\* An end that leaves the channels to whoever sleeps on them.
CloseNothing(t) ==
  /\ pc[t] = "close"
  /\ Goto(t, "stop")
  /\ UNCHANGED <<board, identity, mesh, made, hand, txt, answer, thread, channels, refused>>

\* The three channels are closed: whoever sleeps on one is woken.
CloseChannels(t) ==
  /\ pc[t] = "close"
  /\ closed' = [closed EXCEPT ![hand[t]] = TRUE]
  /\ Goto(t, "stop")
  /\ UNCHANGED <<board, identity, mesh, made, hand, txt, answer, thread, reader, reads, refused>>

\* The node is told to stop.
SendStop(t) ==
  /\ pc[t] = "stop"
  /\ stop' = [stop EXCEPT ![hand[t]] = "sent"]
  /\ Goto(t, "join")
  /\ UNCHANGED <<board, identity, mesh, made, hand, txt, answer, node, ready, pin,
                 adoptedSeen, readvertise, armed, committed, lastOta, flips, channels, refused>>

Join(t) ==
  /\ pc[t] = "join" /\ node[hand[t]] = "gone"
  /\ Goto(t, "idle")
  /\ UNCHANGED <<board, identity, mesh, made, hand, txt, answer, thread, channels, refused>>

-----------------------------------------------------------------------------
(* The node's thread.                                                      *)

\* The runtime, the identity or the bind fails: said once, heard or not.
BindFails(g) ==
  /\ node[g] = "starting"
  /\ node' = [node EXCEPT ![g] = "gone"]
  /\ ready' = [ready EXCEPT ![g] = "failed"]
  /\ UNCHANGED <<board, identity, mesh, made, sketch, stop, pin, adoptedSeen,
                 readvertise, armed, committed, lastOta, flips, channels, refused>>

\* The endpoint is up, perhaps after 30 s: the record composed from the pin in
\* the store is sent back, and the pin is remembered, with no await between.
Bind(g) ==
  /\ node[g] = "starting"
  /\ node' = [node EXCEPT ![g] = "up"]
  /\ ready' = [ready EXCEPT ![g] = pin[g]]
  /\ adoptedSeen' = [adoptedSeen EXCEPT ![g] = pin[g]]
  /\ UNCHANGED <<board, identity, mesh, made, sketch, stop, pin, readvertise, armed,
                 committed, lastOta, flips, channels, refused>>

\* A home computer adopts the device or lets it go (the node's own business).
Flip(g) ==
  /\ node[g] = "up" /\ flips[g] < MaxFlips
  /\ \E p \in Pins \ {pin[g]} : pin' = [pin EXCEPT ![g] = p]
  /\ flips' = [flips EXCEPT ![g] = @ + 1]
  /\ UNCHANGED <<board, identity, mesh, made, sketch, node, ready, stop, adoptedSeen,
                 readvertise, armed, committed, lastOta, channels, refused>>

\* The node accepts a signed update: it has a slot to write.
Commit(g) ==
  /\ node[g] = "up" /\ armed[g] /\ ~committed[g]
  /\ committed' = [committed EXCEPT ![g] = TRUE]
  /\ UNCHANGED <<board, identity, mesh, made, sketch, node, ready, stop, pin,
                 adoptedSeen, readvertise, armed, lastOta, flips, channels, refused>>

\* A poll that stops only when it is told to.
StopSent(g) == stop[g] = "sent"

\* try_recv: Ok(()) and Disconnected both end the poll.
StopSeen(g) == stop[g] \in {"sent", "dropped"}

\* A poll that keeps the first record service has not taken yet.
KeepPending(g) ==
  IF readvertise[g] # None \/ pin[g] = adoptedSeen[g] THEN readvertise[g] ELSE pin[g]

\* A poll that announces an adoption and not a release.
PendingIfAdopted(g) ==
  IF pin[g] # adoptedSeen[g] /\ pin[g] = "adopted" THEN pin[g] ELSE readvertise[g]

\* The record a pass of the poll leaves for service: a new one on a change.
Pending(g) == IF pin[g] # adoptedSeen[g] THEN pin[g] ELSE readvertise[g]

\* A poll that looks for an accepted update only on its way out.
PollLate(g) ==
  /\ node[g] = "up"
  /\ readvertise' = [readvertise EXCEPT ![g] = Pending(g)]
  /\ adoptedSeen' = [adoptedSeen EXCEPT ![g] = pin[g]]
  /\ lastOta' = [lastOta EXCEPT ![g] = StopSeen(g) /\ committed[g]]
  /\ node' = [node EXCEPT ![g] = IF StopSeen(g) THEN "stopping" ELSE "up"]
  /\ UNCHANGED <<board, identity, mesh, made, sketch, ready, stop, pin, armed,
                 committed, flips, channels, refused>>

\* One pass of the 100 ms poll.
Poll(g) ==
  /\ node[g] = "up"
  /\ readvertise' = [readvertise EXCEPT ![g] = Pending(g)]
  /\ adoptedSeen' = [adoptedSeen EXCEPT ![g] = pin[g]]
  /\ lastOta' = [lastOta EXCEPT ![g] = committed[g]]
  /\ node' = [node EXCEPT ![g] = IF StopSeen(g) THEN "stopping" ELSE "up"]
  /\ UNCHANGED <<board, identity, mesh, made, sketch, ready, stop, pin, armed,
                 committed, flips, channels, refused>>

\* A subscriber of the node asks for a packet and there is none.
Sleep(g) ==
  /\ node[g] = "up" /\ ~closed[g] /\ reader[g] = None /\ reads < MaxReads
  /\ reader' = [reader EXCEPT ![g] = "asleep"]
  /\ reads' = reads + 1
  /\ UNCHANGED <<board, identity, mesh, made, sketch, thread, closed, refused>>

\* The sketch pushes, which it can to the node that is begun.
WakeForAPacket(g) ==
  /\ reader[g] = "asleep" /\ mesh = g
  /\ reader' = [reader EXCEPT ![g] = None]
  /\ UNCHANGED <<board, identity, mesh, made, sketch, thread, closed, reads, refused>>

\* The channel is closed.
WakeForTheEnd(g) ==
  /\ reader[g] = "asleep" /\ closed[g]
  /\ reader' = [reader EXCEPT ![g] = None]
  /\ UNCHANGED <<board, identity, mesh, made, sketch, thread, closed, reads, refused>>

\* node.shutdown().await; the thread ends with its runtime, which waits for a
\* call of next_packet that is not over.
Shutdown(g) ==
  /\ node[g] = "stopping" /\ reader[g] = None
  /\ node' = [node EXCEPT ![g] = "gone"]
  /\ UNCHANGED <<board, identity, mesh, made, sketch, ready, stop, pin, adoptedSeen,
                 readvertise, armed, committed, lastOta, flips, channels, refused>>

\* What a thread does next once it is inside begin, service or end.
Running(t) ==
  \/ TakeStore(t) \/ Spawn(t) \/ SpawnFails(t) \/ Receive(t) \/ GiveUp(t)
  \/ Advertise(t) \/ Validate(t) \/ Publish(t)
  \/ ServicePublish(t) \/ CloseChannels(t) \/ SendStop(t) \/ Join(t)

Start(g) == Bind(g) \/ BindFails(g)

Next ==
  \/ Install \/ IdentityBegin \/ IdentityEnd
  \/ \E t \in Threads : Begin(t) \/ ServiceTake(t) \/ End(t) \/ Running(t)
  \/ \E g \in Nodes : Start(g) \/ Flip(g) \/ Commit(g) \/ Poll(g) \/ Shutdown(g)
                      \/ Sleep(g) \/ WakeForAPacket(g) \/ WakeForTheEnd(g)

Spec == Init /\ [][Next]_vars

\* A call, once made, runs on; the node's thread runs, its bind comes to an end
\* (in time or not), and the sketch keeps calling service.  Nothing makes
\* anyone call begin or end, adopt the device or update it.
Fairness ==
  /\ \A t \in Threads : WF_vars(Running(t))
  /\ WF_vars(ServiceTake(Sketch))
  /\ \A g \in Nodes : WF_vars(Start(g)) /\ WF_vars(Poll(g)) /\ WF_vars(Shutdown(g))
                     /\ WF_vars(WakeForTheEnd(g))

FairSpec == Spec /\ Fairness

-----------------------------------------------------------------------------
WithNode == {"wait", "advertise", "validate", "publish", "service", "close", "stop", "join"}

TypeOK ==
  /\ boards \in 1 .. MaxBoards /\ boardStore \in BOOLEAN /\ valid \in BOOLEAN
  /\ advert \in [node : Nodes \cup {NoNode}, pin : Pins \cup {None}]
  /\ identity \in {None, "full", "empty"}
  /\ mesh \in Nodes \cup {NoNode} /\ made \in Nodes \cup {NoNode}
  /\ pc \in [Threads -> InBegin \cup WithNode \cup {"idle", "away"}]
  /\ hand \in [Threads -> Nodes \cup {NoNode}]
  /\ txt \in [Threads -> Pins \cup {None}]
  /\ answer \in {None, "already begun", "identity not begun", "failed", "begun"}
  /\ node \in [Nodes -> {None, "starting", "up", "stopping", "gone"}]
  /\ ready \in [Nodes -> Pins \cup {None, "failed"}]
  /\ stop \in [Nodes -> {"live", "sent", "dropped"}]
  /\ pin \in [Nodes -> Pins] /\ adoptedSeen \in [Nodes -> Pins]
  /\ readvertise \in [Nodes -> Pins \cup {None}]
  /\ armed \in [Nodes -> BOOLEAN] /\ committed \in [Nodes -> BOOLEAN]
  /\ lastOta \in [Nodes -> BOOLEAN] /\ refused \in [Nodes -> BOOLEAN]
  /\ flips \in [Nodes -> 0 .. MaxFlips]
  /\ closed \in [Nodes -> BOOLEAN] /\ reader \in [Nodes -> {None, "asleep"}]
  /\ reads \in 0 .. MaxReads

\* The check at the top of begin is stale when the State is stored (MESH is
\* free for up to 30 s between them), and yet no State is ever replaced: two
\* threads that both passed the check meet again in take_store, which has one
\* store to give.
NoStateIsReplaced ==
  \A t \in Threads : pc[t] = "publish" => mesh = NoNode

\* Thread t has the State of node g in its hand, or what will be its State.
Holds(t, g) ==
  hand[t] = g /\ pc[t] \in {"wait", "advertise", "validate", "publish", "close", "stop", "join"}

\* Every node that runs has one holder, in MESH or in a hand, or was told to go:
\* the begin that waits for it, then MESH, then the end that took it, through
\* answers that come late, threads that race and nodes that are given up on.
\* What MESH holds was not told to go; what an end waits for was, and has no
\* channel left open for a subscriber to sleep on.
OneHolder ==
  \A g \in Nodes :
    /\ stop[g] = "live" /\ node[g] \in {"starting", "up", "stopping"} =>
         mesh = g \/ \E t \in Threads : Holds(t, g)
    /\ mesh = g => stop[g] = "live" /\ ~closed[g]
    /\ \A t \in Threads : Holds(t, g) =>
         /\ mesh # g
         /\ \A u \in Threads : Holds(u, g) => u = t
         /\ pc[t] = "join" => stop[g] = "sent" /\ closed[g]

\* The board's record names the running node and its owner pin, whenever the
\* chain poll -> readvertise -> service is at rest and the board refused none
\* of its links: it is never a record of a dead node or of an older pin.  This
\* is for one thread, or for several that share one board's store: service
\* holds a record with no lock, and would offer it over the record of a node that
\* another thread began meanwhile on another board's store.
RecordIsCurrent ==
  mesh # NoNode /\ node[mesh] = "up"
    /\ adoptedSeen[mesh] = pin[mesh] /\ readvertise[mesh] = None
    /\ pc[Sketch] # "service" /\ ~refused[mesh]
    => advert = [node |-> mesh, pin |-> pin[mesh]]

\* An image is confirmed only after its endpoint came up: an image that boots
\* and never reaches the mesh is left to the bootloader's rollback.
ValidMeansUp ==
  valid => \E g \in Nodes : armed[g] /\ ready[g] \in Pins

\* A node whose begin gave up on it does not serve for ever: late or not, it
\* finds its stop channel dropped and goes; and `end` stops the one it took.
\* Nobody closes the channels of a node that was given up on: if a subscriber
\* came in the 100 ms that it was up, its thread stays behind with that one.
AbandonedNodeStops ==
  \A g \in Nodes :
    (stop[g] # "live") ~>
      (node[g] = "gone" \/ (node[g] = "stopping" /\ reader[g] = "asleep" /\ ~closed[g]))

\* No call of the facade hangs: begin, service and end come back, and `end`
\* does so though it joins a thread that waits for subscribers who sleep.
CallsReturn == \A t \in Threads : ~Outside(t) ~> Outside(t)

\* The advertisement follows the pin: adoption and release reach the board
\* while the node runs, if the board does not refuse the record.
PinReachesTheBoard ==
  \A g \in Nodes :
    []<>(mesh = g => refused[g] \/ advert = [node |-> g, pin |-> pin[g]])

\* The sketch learns of an accepted update while the node runs.
UpdateIsReported == \A g \in Nodes : []<>(mesh = g /\ committed[g] => lastOta[g])

-----------------------------------------------------------------------------
(* What the comments say, and the code does not do (see README).           *)

\* "The advertisement has to follow the pin": a device that published a record
\* of its node does not keep one of an older pin for ever, whatever one call of
\* the board answered (service is called again and again).
AdvertisementFollowsThePin ==
  \A g \in Nodes : []<>(mesh = g /\ advert.node = g => advert.pin = pin[g])

\* "begin has not been called on the named peripheral": a begin that says so of
\* the identity says it of an identity that is not there.
NotBegunIsTrue == [][answer' = "identity not begun" /\ answer # answer' => identity = None]_vars
=============================================================================
