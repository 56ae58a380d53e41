----------------------------- MODULE Mesh_proofs -----------------------------
(***************************************************************************)
(* Proofs about Mesh, for every set of threads that call the facade and    *)
(* every number of boards, nodes and changes of the pin.                   *)
(***************************************************************************)
EXTENDS Mesh, TLAPS

-----------------------------------------------------------------------------
(* One store, one begin, one State.                                        *)

AfterTake == {"prepare", "wait", "advertise", "validate", "publish"}
Places == InBegin \cup WithNode \cup {"idle", "away"}

\* A begin that has the store is the only one, and there is neither a State nor
\* another store while it has it; one that has passed the check and not taken
\* the store yet finds the store gone if a State was stored meanwhile.
OneBegin ==
  /\ pc \in [Threads -> Places]
  /\ \A t, u \in Threads : pc[t] \in AfterTake /\ pc[u] \in AfterTake => t = u
  /\ \A t \in Threads : pc[t] \in AfterTake => identity # "full" /\ mesh = NoNode
  /\ \A t \in Threads : pc[t] = "take" => identity # "full" \/ mesh = NoNode

LEMMA InitOneBegin == Init => OneBegin
  BY DEF Init, OneBegin, AfterTake, Places

\* Where a thread goes.
LEMMA Goes ==
  ASSUME OneBegin, NEW t \in Threads, NEW where \in Places, Goto(t, where)
  PROVE  /\ pc' \in [Threads -> Places] /\ pc'[t] = where
         /\ \A u \in Threads \ {t} : pc'[u] = pc[u]
  BY DEF OneBegin, Goto

\* A step inside begin that goes on or gives up: the store and MESH stay.
LEMMA GoesOn ==
  ASSUME OneBegin, NEW t \in Threads, NEW where \in Places, Goto(t, where),
         where \in AfterTake => pc[t] \in AfterTake,
         where # "take" \/ mesh = NoNode,
         UNCHANGED <<identity, mesh>>
  PROVE  OneBegin'
  BY Goes DEF OneBegin, AfterTake

LEMMA NextOneBegin == OneBegin /\ [Next]_vars => OneBegin'
  <1> SUFFICES ASSUME OneBegin, [Next]_vars PROVE OneBegin'
    OBVIOUS
  <1> USE DEF Places, InBegin, WithNode
  <1>1. CASE Install \/ IdentityEnd \/ UNCHANGED vars
    BY <1>1 DEF Install, IdentityEnd, vars, sketch, OneBegin, None
  <1>2. CASE IdentityBegin
    BY <1>2 DEF IdentityBegin, sketch, OneBegin, AfterTake
  <1>3. ASSUME NEW t \in Threads, Begin(t) PROVE OneBegin'
    BY <1>3, GoesOn DEF Begin, Answer, AfterTake
  <1>4. ASSUME NEW t \in Threads, TakeStore(t) PROVE OneBegin'
    <2>1. CASE identity = "full"
      <3>1. /\ pc[t] = "take" /\ identity' = "empty" /\ Goto(t, "prepare") /\ mesh' = mesh
        BY <1>4, <2>1 DEF TakeStore
      <3>2. mesh = NoNode /\ \A u \in Threads : pc[u] \notin AfterTake
        BY <2>1, <3>1 DEF OneBegin
      <3> QED
        BY <3>1, <3>2, Goes DEF OneBegin
    <2>2. CASE identity # "full"
      BY <1>4, <2>2, GoesOn DEF TakeStore, Answer, AfterTake
    <2> QED
      BY <2>1, <2>2
  <1>5. ASSUME NEW t \in Threads,
               Spawn(t) \/ SpawnFails(t) \/ Receive(t) \/ GiveUp(t) \/ Advertise(t) \/ Validate(t)
        PROVE  OneBegin'
    <2>1. PICK where \in {"wait", "idle", "advertise", "validate", "publish"} : Goto(t, where)
      BY <1>5 DEF Spawn, SpawnFails, Receive, GiveUp, Advertise, Validate, Answer
    <2>2. pc[t] \in AfterTake /\ UNCHANGED <<identity, mesh>>
      BY <1>5 DEF Spawn, SpawnFails, Receive, GiveUp, Advertise, Validate, AfterTake
    <2> QED
      BY <2>1, <2>2, GoesOn
  <1>6. ASSUME NEW t \in Threads, Publish(t) PROVE OneBegin'
    <2>1. pc[t] \in AfterTake /\ Goto(t, "idle") /\ identity' = identity
      BY <1>6 DEF Publish, Answer, AfterTake
    <2>2. identity # "full" /\ \A u \in Threads \ {t} : pc[u] \notin AfterTake
      BY <2>1 DEF OneBegin
    <2> QED
      BY <2>1, <2>2, Goes DEF OneBegin, AfterTake
  <1>7. ASSUME NEW t \in Threads,
               \/ ServiceTake(t) \/ ServicePublish(t) \/ CloseChannels(t) \/ SendStop(t) \/ Join(t)
        PROVE  OneBegin'
    <2>1. PICK where \in {"service", "idle", "stop", "join"} : Goto(t, where)
      BY <1>7 DEF ServiceTake, ServicePublish, CloseChannels, SendStop, Join
    <2>2. UNCHANGED <<identity, mesh>>
      BY <1>7 DEF ServiceTake, ServicePublish, CloseChannels, SendStop, Join
    <2> QED
      BY <2>1, <2>2, GoesOn DEF AfterTake
  <1>8. ASSUME NEW t \in Threads, End(t) PROVE OneBegin'
    <2>1. Goto(t, "close") /\ identity' = identity /\ mesh' = NoNode
      BY <1>8 DEF End
    <2> QED
      BY <2>1, Goes DEF OneBegin, AfterTake
  <1>9. ASSUME NEW g \in Nodes,
               \/ Start(g) \/ Flip(g) \/ Commit(g) \/ Poll(g) \/ Shutdown(g)
               \/ Sleep(g) \/ WakeForAPacket(g) \/ WakeForTheEnd(g)
        PROVE  OneBegin'
    <2>1. UNCHANGED <<pc, identity, mesh>>
      BY <1>9 DEF Start, Bind, BindFails, Flip, Commit, Poll, Shutdown, Sleep, WakeForAPacket,
                  WakeForTheEnd, sketch
    <2> QED
      BY <2>1 DEF OneBegin
  <1> QED
    BY <1>1, <1>2, <1>3, <1>4, <1>5, <1>6, <1>7, <1>8, <1>9 DEF Next, Running

\* The check at the top of begin may be stale, and no State is replaced for
\* all that: the store that begin took is the only one.
THEOREM StatesAreNotReplaced == Spec => []NoStateIsReplaced
  <1>1. OneBegin => NoStateIsReplaced
    BY DEF OneBegin, NoStateIsReplaced, AfterTake
  <1> QED
    BY <1>1, InitOneBegin, NextOneBegin, PTL DEF Spec

-----------------------------------------------------------------------------
(* What the bootloader is told.                                            *)

\* MESH holds a node, a thread has one in its hand, and a store has a pin.
Held ==
  /\ mesh \in Nodes \cup {NoNode} /\ hand \in [Threads -> Nodes \cup {NoNode}]
  /\ pin \in [Nodes -> Pins]

\* A node says once how its bind went, and a begin that goes on was told that
\* it is up; what was confirmed has been confirmed of such a node.
AnswersAreMeant ==
  /\ made \in Nat
  /\ pc \in [Threads -> Places] /\ hand \in [Threads -> Nodes \cup {NoNode}]
  /\ node \in [Nodes -> {None, "starting", "up", "stopping", "gone"}]
  /\ ready \in [Nodes -> Pins \cup {None, "failed"}]
  /\ armed \in [Nodes -> BOOLEAN]
  /\ \A g \in Nodes : g > made => node[g] = None
  /\ \A g \in Nodes : node[g] \in {None, "starting"} => ready[g] = None
  /\ \A t \in Threads :
       /\ pc[t] = "wait" => hand[t] \in Nodes
       /\ pc[t] \in {"advertise", "validate"} => hand[t] \in Nodes /\ ready[hand[t]] \in Pins
       /\ pc[t] = "validate" => armed[hand[t]]
  /\ ValidMeansUp

LEMMA InitAnswers == Init => AnswersAreMeant
  <1> SUFFICES ASSUME Init PROVE AnswersAreMeant
    OBVIOUS
  <1>1. /\ made = 0 /\ valid = FALSE
        /\ pc \in [Threads -> {"idle", "away"}] /\ hand = [t \in Threads |-> NoNode]
        /\ node = [g \in Nodes |-> None] /\ ready = [g \in Nodes |-> None]
        /\ armed = [g \in Nodes |-> FALSE]
    BY DEF Init
  <1> QED
    BY <1>1 DEF AnswersAreMeant, ValidMeansUp, Places

\* A thread that goes where no answer of a node is needed.
LEMMA GoesWithout ==
  ASSUME AnswersAreMeant, NEW t \in Threads,
         NEW where \in Places \ {"wait", "advertise", "validate"}, Goto(t, where),
         NEW h \in Nodes \cup {NoNode}, hand' = hand \/ hand' = [hand EXCEPT ![t] = h],
         UNCHANGED <<made, node, ready, armed, valid>>
  PROVE  AnswersAreMeant'
  <1>1. /\ pc' \in [Threads -> Places] /\ pc'[t] = where
        /\ \A u \in Threads \ {t} : pc'[u] = pc[u]
    BY DEF AnswersAreMeant, Goto
  <1>2. /\ hand' \in [Threads -> Nodes \cup {NoNode}]
        /\ \A u \in Threads \ {t} : hand'[u] = hand[u]
    BY DEF AnswersAreMeant
  <1>3. ValidMeansUp'
    BY DEF AnswersAreMeant, ValidMeansUp
  <1> QED
    BY <1>1, <1>2, <1>3 DEF AnswersAreMeant

LEMMA SpawnAnswers ==
  ASSUME AnswersAreMeant, NEW t \in Threads, Spawn(t)
  PROVE  AnswersAreMeant'
  <1> DEFINE g == made + 1
  <1>1. PICK slot \in BOOLEAN : armed' = [armed EXCEPT ![g] = slot]
    BY DEF Spawn
  <1>2. /\ made' = g /\ hand' = [hand EXCEPT ![t] = g]
        /\ node' = [node EXCEPT ![g] = "starting"] /\ Goto(t, "wait")
        /\ UNCHANGED <<ready, valid>>
    BY DEF Spawn, board
  <1>3. g \in Nodes /\ node[g] = None /\ ready[g] = None /\ made \in Nat
    BY BoundsAssumption DEF AnswersAreMeant, Spawn, Nodes
  <1>4. /\ pc' \in [Threads -> Places] /\ pc'[t] = "wait"
        /\ \A u \in Threads \ {t} : pc'[u] = pc[u]
    BY <1>2 DEF AnswersAreMeant, Goto, Places, WithNode
  <1>5. /\ hand' \in [Threads -> Nodes \cup {NoNode}] /\ hand'[t] = g
        /\ \A u \in Threads \ {t} : hand'[u] = hand[u]
    BY <1>2, <1>3 DEF AnswersAreMeant
  <1>6. /\ node' \in [Nodes -> {None, "starting", "up", "stopping", "gone"}]
        /\ \A k \in Nodes \ {g} : node'[k] = node[k]
        /\ node'[g] = "starting"
    BY <1>2, <1>3 DEF AnswersAreMeant
  <1>7. /\ armed' \in [Nodes -> BOOLEAN] /\ \A k \in Nodes \ {g} : armed'[k] = armed[k]
    BY <1>1, <1>3 DEF AnswersAreMeant
  <1>8. None \notin Pins
    BY DEF None, Pins
  <1>9. ValidMeansUp'
    BY <1>2, <1>3, <1>7, <1>8 DEF AnswersAreMeant, ValidMeansUp
  <1>10. /\ made' \in Nat
         /\ \A k \in Nodes : k > made' => node'[k] = None
    BY <1>2, <1>3, <1>6 DEF AnswersAreMeant, Nodes
  <1>11. \A k \in Nodes : node'[k] \in {None, "starting"} => ready'[k] = None
    BY <1>2, <1>3, <1>6 DEF AnswersAreMeant
  <1>12. ASSUME NEW u \in Threads
         PROVE  /\ pc'[u] = "wait" => hand'[u] \in Nodes
                /\ pc'[u] \in {"advertise", "validate"} =>
                     hand'[u] \in Nodes /\ ready'[hand'[u]] \in Pins
                /\ pc'[u] = "validate" => armed'[hand'[u]]
    <2>1. CASE u = t
      BY <1>3, <1>4, <1>5, <2>1
    <2>2. CASE u # t
      BY <1>2, <1>3, <1>4, <1>5, <1>7, <1>8, <2>2 DEF AnswersAreMeant
    <2> QED
      BY <2>1, <2>2
  <1> QED
    BY <1>2, <1>4, <1>5, <1>6, <1>7, <1>9, <1>10, <1>11, <1>12 DEF AnswersAreMeant

\* A begin that goes on with the answer it has.
LEMMA BeginAnswers ==
  ASSUME AnswersAreMeant, NEW t \in Threads, Receive(t) \/ Advertise(t) \/ Validate(t)
  PROVE  AnswersAreMeant'
  <1>1. UNCHANGED <<made, hand, node, ready, armed>>
    BY DEF Receive, Advertise, Validate, thread
  <1>2. ASSUME NEW where \in Places, Goto(t, where), valid' = valid,
               where \in {"advertise", "validate"} => hand[t] \in Nodes /\ ready[hand[t]] \in Pins,
               where = "validate" => armed[hand[t]],
               where # "wait"
        PROVE  AnswersAreMeant'
    <2>1. /\ pc' \in [Threads -> Places] /\ pc'[t] = where
          /\ \A u \in Threads \ {t} : pc'[u] = pc[u]
      BY <1>2 DEF AnswersAreMeant, Goto
    <2>2. ValidMeansUp'
      BY <1>1, <1>2 DEF AnswersAreMeant, ValidMeansUp
    <2> QED
      BY <1>1, <1>2, <2>1, <2>2 DEF AnswersAreMeant
  <1>3. CASE Receive(t)
    <2>1. pc[t] = "wait" /\ ready[hand[t]] # None /\ hand[t] \in Nodes /\ valid' = valid
      BY <1>3 DEF Receive, board, AnswersAreMeant
    <2>2. CASE ready[hand[t]] = "failed"
      <3>1. Goto(t, "idle") /\ "idle" \in Places
        BY <1>3, <2>2 DEF Receive, Answer, Places
      <3> QED
        BY <1>2, <2>1, <3>1
    <2>3. CASE ready[hand[t]] # "failed"
      <3>1. Goto(t, "advertise") /\ "advertise" \in Places
        BY <1>3, <2>3 DEF Receive, Places, InBegin
      <3>2. ready[hand[t]] \in Pins
        BY <2>1, <2>3 DEF AnswersAreMeant
      <3> QED
        BY <1>2, <2>1, <3>1, <3>2
    <2> QED
      BY <2>2, <2>3
  <1>4. CASE Advertise(t)
    <2>1. /\ valid' = valid /\ hand[t] \in Nodes /\ ready[hand[t]] \in Pins
          /\ Goto(t, IF armed[hand[t]] THEN "validate" ELSE "publish")
      BY <1>4 DEF Advertise, AnswersAreMeant
    <2>2. {"validate", "publish"} \subseteq Places
      BY DEF Places, InBegin
    <2>3. CASE armed[hand[t]]
      <3>1. Goto(t, "validate")
        BY <2>1, <2>3
      <3> QED
        BY <1>2, <2>1, <2>2, <2>3, <3>1
    <2>4. CASE ~armed[hand[t]]
      <3>1. Goto(t, "publish")
        BY <2>1, <2>4
      <3> QED
        BY <1>2, <2>1, <2>2, <3>1
    <2> QED
      BY <2>3, <2>4
  <1>5. CASE Validate(t)
    <2>1. hand[t] \in Nodes /\ ready[hand[t]] \in Pins /\ armed[hand[t]] /\ Goto(t, "publish")
      BY <1>5 DEF Validate, AnswersAreMeant
    <2>2. /\ pc' \in [Threads -> Places] /\ pc'[t] = "publish"
          /\ \A u \in Threads \ {t} : pc'[u] = pc[u]
      BY <2>1 DEF AnswersAreMeant, Goto, Places, InBegin
    <2>3. ValidMeansUp'
      BY <1>1, <2>1 DEF ValidMeansUp
    <2> QED
      BY <1>1, <2>2, <2>3 DEF AnswersAreMeant
  <1> QED
    BY <1>3, <1>4, <1>5

\* The node's thread: what it said stays said.
LEMMA NodeAnswers ==
  ASSUME AnswersAreMeant, Held, NEW g \in Nodes, Start(g) \/ Poll(g) \/ Shutdown(g)
  PROVE  AnswersAreMeant'
  <1>1. UNCHANGED <<made, pc, hand, armed, valid>>
    BY DEF Start, Bind, BindFails, Poll, Shutdown, board, sketch
  <1>2. PICK s \in {"up", "stopping", "gone"} : node' = [node EXCEPT ![g] = s]
    BY DEF Start, Bind, BindFails, Poll, Shutdown
  <1>3. node[g] # None
    BY DEF Start, Bind, BindFails, Poll, Shutdown, None
  <1>4. ready' = ready \/ \E a \in Pins \cup {"failed"} :
                            node[g] = "starting" /\ ready' = [ready EXCEPT ![g] = a]
    BY DEF Start, Bind, BindFails, Poll, Shutdown, Held
  <1>5. /\ node' \in [Nodes -> {None, "starting", "up", "stopping", "gone"}]
        /\ \A k \in Nodes \ {g} : node'[k] = node[k]
        /\ node'[g] \notin {None, "starting"}
    BY <1>2 DEF AnswersAreMeant, None
  <1>6. /\ ready' \in [Nodes -> Pins \cup {None, "failed"}]
        /\ \A k \in Nodes \ {g} : ready'[k] = ready[k]
        /\ ready[g] \in Pins => ready'[g] = ready[g]
    <2>1. node[g] = "starting" => ready[g] \notin Pins
      BY DEF AnswersAreMeant, None, Pins
    <2> QED
      BY <1>4, <2>1 DEF AnswersAreMeant
  <1>7. \A k \in Nodes : ready[k] \in Pins => ready'[k] \in Pins
    BY <1>6
  <1>8. ValidMeansUp'
    BY <1>1, <1>7 DEF AnswersAreMeant, ValidMeansUp
  <1>9. \A k \in Nodes : k > made' => node'[k] = None
    BY <1>1, <1>3, <1>5 DEF AnswersAreMeant
  <1>10. \A k \in Nodes : node'[k] \in {None, "starting"} => ready'[k] = None
    BY <1>5, <1>6 DEF AnswersAreMeant
  <1> QED
    BY <1>1, <1>5, <1>6, <1>7, <1>8, <1>9, <1>10 DEF AnswersAreMeant

LEMMA NextAnswers == AnswersAreMeant /\ Held /\ [Next]_vars => AnswersAreMeant'
  <1> SUFFICES ASSUME AnswersAreMeant, Held, [Next]_vars PROVE AnswersAreMeant'
    OBVIOUS
  <1>1. ASSUME NEW t \in Threads,
               \/ Begin(t) \/ TakeStore(t) \/ SpawnFails(t) \/ GiveUp(t) \/ Publish(t)
               \/ ServiceTake(t) \/ ServicePublish(t) \/ End(t) \/ CloseChannels(t)
               \/ SendStop(t) \/ Join(t)
        PROVE  AnswersAreMeant'
    <2>1. PICK where \in {"idle", "take", "prepare", "service", "close", "stop", "join"} :
            Goto(t, where)
      BY <1>1 DEF Begin, TakeStore, SpawnFails, GiveUp, Publish, ServiceTake, ServicePublish,
                  End, CloseChannels, SendStop, Join, Answer
    <2>2. where \in Places \ {"wait", "advertise", "validate"}
      BY <2>1 DEF Places, InBegin, WithNode
    <2>3. /\ hand' = hand \/ hand' = [hand EXCEPT ![t] = mesh]
          /\ UNCHANGED <<made, node, ready, armed, valid>>
      BY <1>1 DEF Begin, TakeStore, SpawnFails, GiveUp, Publish, ServiceTake, ServicePublish,
                  End, CloseChannels, SendStop, Join, board, thread
    <2>4. mesh \in Nodes \cup {NoNode}
      BY DEF Held
    <2> QED
      BY <2>1, <2>2, <2>3, <2>4, GoesWithout
  <1>2. ASSUME NEW t \in Threads, Spawn(t) PROVE AnswersAreMeant'
    BY <1>2, SpawnAnswers
  <1>3. ASSUME NEW t \in Threads, Receive(t) \/ Advertise(t) \/ Validate(t) PROVE AnswersAreMeant'
    BY <1>3, BeginAnswers
  <1>4. ASSUME NEW g \in Nodes, Start(g) \/ Poll(g) \/ Shutdown(g) PROVE AnswersAreMeant'
    BY <1>4, NodeAnswers
  <1>5. CASE \/ Install \/ IdentityBegin \/ IdentityEnd \/ UNCHANGED vars
             \/ \E g \in Nodes : \/ Flip(g) \/ Commit(g) \/ Sleep(g)
                                 \/ WakeForAPacket(g) \/ WakeForTheEnd(g)
    <2>1. UNCHANGED <<made, pc, hand, node, ready, armed>> /\ valid' \in {valid, FALSE}
      BY <1>5 DEF Install, IdentityBegin, IdentityEnd, vars, Flip, Commit, Sleep, WakeForAPacket,
                  WakeForTheEnd, board, sketch, thread
    <2>2. ValidMeansUp'
      BY <2>1 DEF AnswersAreMeant, ValidMeansUp
    <2> QED
      BY <2>1, <2>2 DEF AnswersAreMeant
  <1> QED
    BY <1>1, <1>2, <1>3, <1>4, <1>5 DEF Next, Running

LEMMA NextHeld == AnswersAreMeant /\ Held /\ [Next]_vars => Held'
  <1> SUFFICES ASSUME AnswersAreMeant, Held, [Next]_vars PROVE Held'
    OBVIOUS
  <1>1. hand' \in [Threads -> Nodes \cup {NoNode}]
    BY NextAnswers DEF AnswersAreMeant, Held
  <1>2. mesh' \in {mesh, NoNode} \/ \E t \in Threads : mesh' = hand[t]
    BY DEF Next, Running, Start, vars, Install, IdentityBegin, IdentityEnd, Begin, TakeStore,
           Spawn, SpawnFails, Receive, GiveUp, Advertise, Validate, Publish, ServiceTake,
           ServicePublish, End, CloseChannels, SendStop, Join, Bind, BindFails, Flip, Commit,
           Poll, Shutdown, Sleep, WakeForAPacket, WakeForTheEnd
  <1>3. pin' \in [Nodes -> Pins]
    <2>1. pin' = pin \/ \E g \in Nodes, p \in Pins : pin' = [pin EXCEPT ![g] = p]
      BY DEF Next, Running, Start, vars, Install, IdentityBegin, IdentityEnd, Begin, TakeStore,
             Spawn, SpawnFails, Receive, GiveUp, Advertise, Validate, Publish, ServiceTake,
             ServicePublish, End, CloseChannels, SendStop, Join, Bind, BindFails, Flip, Commit,
             Poll, Shutdown, Sleep, WakeForAPacket, WakeForTheEnd, thread
    <2> QED
      BY <2>1 DEF Held
  <1> QED
    BY <1>1, <1>2, <1>3 DEF Held

\* An image is confirmed only after a node armed for updates came up with it.
THEOREM ConfirmedImagesCameUp == Spec => []ValidMeansUp
  <1>1. Init => Held
    BY DEF Init, Held
  <1>2. AnswersAreMeant /\ Held /\ [Next]_vars => (AnswersAreMeant /\ Held)'
    BY NextAnswers, NextHeld DEF Held
  <1>3. AnswersAreMeant => ValidMeansUp
    BY DEF AnswersAreMeant
  <1> QED
    BY <1>1, <1>2, <1>3, InitAnswers, PTL DEF Spec

-----------------------------------------------------------------------------
(* Types.                                                                  *)

LEMMA Bounds ==
  /\ MaxBoards \in Nat \ {0} /\ MaxNodes \in Nat \ {0} /\ MaxFlips \in Nat /\ MaxReads \in Nat
  /\ Nodes \subseteq Nat \ {0} /\ NoNode \notin Nodes /\ NoNode = 0
  BY BoundsAssumption DEF Nodes, NoNode

BoardTyped ==
  /\ boards \in 1 .. MaxBoards /\ boardStore \in BOOLEAN /\ valid \in BOOLEAN
  /\ advert \in [node : Nodes \cup {NoNode}, pin : Pins \cup {None}]

AnswerTyped == answer \in {None, "already begun", "identity not begun", "failed", "begun"}

SketchTyped ==
  /\ identity \in {None, "full", "empty"}
  /\ mesh \in Nodes \cup {NoNode} /\ made \in Nodes \cup {NoNode}
  /\ pc \in [Threads -> Places]
  /\ hand \in [Threads -> Nodes \cup {NoNode}]
  /\ txt \in [Threads -> Pins \cup {None}]
  /\ AnswerTyped

NodeTyped ==
  /\ node \in [Nodes -> {None, "starting", "up", "stopping", "gone"}]
  /\ ready \in [Nodes -> Pins \cup {None, "failed"}]
  /\ stop \in [Nodes -> {"live", "sent", "dropped"}]
  /\ pin \in [Nodes -> Pins] /\ adoptedSeen \in [Nodes -> Pins]
  /\ readvertise \in [Nodes -> Pins \cup {None}]
  /\ armed \in [Nodes -> BOOLEAN] /\ committed \in [Nodes -> BOOLEAN]
  /\ lastOta \in [Nodes -> BOOLEAN] /\ flips \in [Nodes -> 0 .. MaxFlips]

ReadersTyped ==
  /\ closed \in [Nodes -> BOOLEAN] /\ reader \in [Nodes -> {None, "asleep"}]
  /\ reads \in 0 .. MaxReads /\ refused \in [Nodes -> BOOLEAN]

Typed == BoardTyped /\ SketchTyped /\ NodeTyped /\ ReadersTyped

LEMMA TypedIsTyped == Typed <=> TypeOK
  BY DEF Typed, BoardTyped, SketchTyped, AnswerTyped, NodeTyped, ReadersTyped, TypeOK, Places

LEMMA InitTyped == Init => Typed
  <1> SUFFICES ASSUME Init PROVE Typed
    OBVIOUS
  <1> USE Bounds
  <1>1. BoardTyped
    <2>1. /\ boards \in 1 .. MaxBoards /\ boardStore = TRUE /\ valid = FALSE
          /\ advert = [node |-> NoNode, pin |-> None]
      BY DEF Init, NoRecord
    <2> HIDE Bounds
    <2> QED
      BY <2>1 DEF BoardTyped
  <1>2. SketchTyped
    <2>1. /\ identity = None /\ mesh = NoNode /\ made = 0 /\ NoNode = 0 /\ answer = None
          /\ pc \in [Threads -> {"idle", "away"}]
          /\ hand = [t \in Threads |-> NoNode] /\ txt = [t \in Threads |-> None]
      BY DEF Init
    <2>2. AnswerTyped
      BY <2>1 DEF AnswerTyped
    <2> QED
      BY <2>1, <2>2 DEF SketchTyped, Places
  <1>3. NodeTyped
    BY DEF Init, NodeTyped, Pins
  <1>4. ReadersTyped
    BY DEF Init, ReadersTyped
  <1> QED
    BY <1>1, <1>2, <1>3, <1>4 DEF Typed

\* A thread of the facade: where it goes, and what it changes on its way.
LEMMA CallsTyped ==
  ASSUME Typed, AnswersAreMeant, NEW t \in Threads,
         Begin(t) \/ ServiceTake(t) \/ End(t) \/ Running(t)
  PROVE  Typed'
  <1> USE Bounds
  <1>1. PICK where \in Places : Goto(t, where)
    BY DEF Begin, ServiceTake, End, Running, TakeStore, Spawn, SpawnFails, Receive, GiveUp,
           Advertise, Validate, Publish, ServicePublish, CloseChannels, SendStop, Join, Answer,
           Places, InBegin, WithNode
  <1>2. pc' \in [Threads -> Places]
    BY <1>1 DEF Goto, Typed, SketchTyped
  <1>3. hand[t] \in Nodes \cup {NoNode} /\ txt[t] \in Pins \cup {None}
        /\ (pc[t] = "wait" => hand[t] \in Nodes)
    BY DEF Typed, SketchTyped, AnswersAreMeant
  <1>0. AnswerTyped'
    <2>1. AnswerTyped
      BY DEF Typed, SketchTyped
    <2>2. \/ answer' = answer \/ answer' = "already begun" \/ answer' = "identity not begun"
          \/ answer' = "failed" \/ answer' = "begun"
      BY DEF Begin, ServiceTake, End, Running, TakeStore, Spawn, SpawnFails, Receive, GiveUp,
             Advertise, Validate, Publish, ServicePublish, CloseChannels, SendStop, Join, Answer
    <2> QED
      BY <2>1, <2>2 DEF AnswerTyped
  <1>4. CASE Begin(t) \/ TakeStore(t) \/ SpawnFails(t) \/ Receive(t) \/ Join(t)
    <2>1. UNCHANGED <<board, mesh, made, hand, thread, channels, refused>>
      BY <1>4 DEF Begin, TakeStore, SpawnFails, Receive, Join
    <2>2. identity' = identity \/ identity' = "empty"
      BY <1>4 DEF Begin, TakeStore, SpawnFails, Receive, Join, Answer
    <2>3. txt' = txt \/ \E p \in Pins : txt' = [txt EXCEPT ![t] = p]
      BY <1>3, <1>4 DEF Begin, TakeStore, SpawnFails, Receive, Join, Typed, NodeTyped
    <2>4. SketchTyped'
      BY <1>0, <1>2, <2>1, <2>2, <2>3 DEF Typed, SketchTyped
    <2> QED
      BY <2>1, <2>4 DEF Typed, BoardTyped, NodeTyped, ReadersTyped, board, thread, channels
  <1>5. CASE Spawn(t)
    <2>1. made + 1 \in Nodes /\ made' = made + 1
      <3>1. made < MaxNodes /\ made' = made + 1
        BY <1>5 DEF Spawn
      <3>2. made \in Nat
        BY DEF AnswersAreMeant
      <3> QED
        BY <3>1, <3>2 DEF Nodes
    <2>2. SketchTyped'
      BY <1>0, <1>2, <1>5, <2>1 DEF Spawn, Typed, SketchTyped
    <2>3. NodeTyped'
      BY <1>5, <2>1 DEF Spawn, Typed, NodeTyped
    <2> QED
      BY <1>5, <2>2, <2>3 DEF Spawn, Typed, BoardTyped, ReadersTyped, board, channels
  <1>6. CASE GiveUp(t) \/ Publish(t) \/ SendStop(t)
    <2>1. stop' \in [Nodes -> {"live", "sent", "dropped"}]
      BY <1>6 DEF GiveUp, Publish, SendStop, Typed, NodeTyped
    <2>2. NodeTyped'
      BY <1>6, <2>1 DEF GiveUp, Publish, SendStop, Typed, NodeTyped
    <2>3. SketchTyped'
      BY <1>0, <1>2, <1>3, <1>6 DEF GiveUp, Publish, SendStop, Answer, Typed, SketchTyped
    <2> QED
      BY <1>6, <2>2, <2>3 DEF GiveUp, Publish, SendStop, Typed, BoardTyped, ReadersTyped,
                              board, channels
  <1>7. CASE Advertise(t) \/ Validate(t) \/ ServicePublish(t)
    <2>1. UNCHANGED <<boards, boardStore, identity, mesh, made, hand, txt, answer, thread, channels>>
      BY <1>7 DEF Advertise, Validate, ServicePublish
    <2>2. BoardTyped'
      <3>1. advert' = advert \/ advert' = [node |-> hand[t], pin |-> txt[t]]
        BY <1>7 DEF Advertise, Validate, ServicePublish
      <3>2. valid' \in {valid, TRUE}
        BY <1>7 DEF Advertise, Validate, ServicePublish
      <3> QED
        <4>1. advert' \in [node : Nodes \cup {NoNode}, pin : Pins \cup {None}]
          BY <1>3, <3>1 DEF Typed, BoardTyped
        <4>2. valid' \in BOOLEAN
          BY <3>2 DEF Typed, BoardTyped
        <4>3. boards' \in 1 .. MaxBoards /\ boardStore' \in BOOLEAN
          BY <2>1 DEF Typed, BoardTyped
        <4> QED
          BY <4>1, <4>2, <4>3 DEF BoardTyped
    <2>3. refused' \in [Nodes -> BOOLEAN]
      BY <1>7 DEF Advertise, Validate, ServicePublish, Typed, ReadersTyped
    <2> QED
      BY <1>0, <1>2, <2>1, <2>2, <2>3 DEF Typed, SketchTyped, NodeTyped, ReadersTyped, thread, channels
  <1>8. CASE ServiceTake(t)
    <2>1. mesh \in Nodes /\ readvertise[mesh] \in Pins
      BY <1>8 DEF ServiceTake, Typed, SketchTyped, NodeTyped
    <2>2. SketchTyped'
      BY <1>0, <1>2, <1>8, <2>1 DEF ServiceTake, Typed, SketchTyped
    <2>3. NodeTyped'
      BY <1>8, <2>1 DEF ServiceTake, Typed, NodeTyped
    <2> QED
      BY <1>8, <2>2, <2>3 DEF ServiceTake, Typed, BoardTyped, ReadersTyped, board, channels
  <1>9. CASE End(t)
    <2>1. SketchTyped'
      BY <1>0, <1>2, <1>9 DEF End, Typed, SketchTyped
    <2> QED
      BY <1>9, <2>1 DEF End, Typed, BoardTyped, NodeTyped, ReadersTyped, board, thread, channels
  <1>10. CASE CloseChannels(t)
    <2>1. SketchTyped' /\ ReadersTyped'
      BY <1>0, <1>2, <1>10 DEF CloseChannels, Typed, SketchTyped, ReadersTyped
    <2> QED
      BY <1>10, <2>1 DEF CloseChannels, Typed, BoardTyped, NodeTyped, board, thread
  <1> QED
    BY <1>4, <1>5, <1>6, <1>7, <1>8, <1>9, <1>10 DEF Running

\* The node's thread and its subscribers.
LEMMA NodesTyped ==
  ASSUME Typed, NEW g \in Nodes,
         \/ Start(g) \/ Flip(g) \/ Commit(g) \/ Poll(g) \/ Shutdown(g)
         \/ Sleep(g) \/ WakeForAPacket(g) \/ WakeForTheEnd(g)
  PROVE  Typed'
  <1> USE Bounds
  <1>0. AnswerTyped'
    <2>1. answer' = answer
      BY DEF Start, Bind, BindFails, Flip, Commit, Poll, Shutdown, Sleep, WakeForAPacket,
             WakeForTheEnd, sketch
    <2> QED
      BY <2>1 DEF Typed, SketchTyped, AnswerTyped
  <1>1. CASE Start(g) \/ Flip(g) \/ Commit(g) \/ Poll(g) \/ Shutdown(g)
    <2>1. UNCHANGED <<board, identity, mesh, made, sketch, channels, refused>>
      BY <1>1 DEF Start, Bind, BindFails, Flip, Commit, Poll, Shutdown
    <2>2. ASSUME Start(g) PROVE NodeTyped'
      <3>1. CASE Bind(g)
        BY <3>1 DEF Bind, Typed, NodeTyped
      <3>2. CASE BindFails(g)
        BY <3>2 DEF BindFails, Typed, NodeTyped
      <3> QED
        BY <2>2, <3>1, <3>2 DEF Start
    <2>3. ASSUME Flip(g) PROVE NodeTyped'
      BY <2>3 DEF Flip, Typed, NodeTyped
    <2>4. ASSUME Commit(g) \/ Shutdown(g) PROVE NodeTyped'
      BY <2>4 DEF Commit, Shutdown, Typed, NodeTyped
    <2>5. ASSUME Poll(g) PROVE NodeTyped'
      BY <2>5 DEF Poll, Pending, Typed, NodeTyped
    <2>6. NodeTyped' => Typed'
      BY <1>0, <2>1 DEF Typed, BoardTyped, SketchTyped, ReadersTyped, board, sketch, channels
    <2> QED
      BY <1>1, <2>2, <2>3, <2>4, <2>5, <2>6
  <1>2. CASE Sleep(g) \/ WakeForAPacket(g) \/ WakeForTheEnd(g)
    <2>1. UNCHANGED <<board, identity, mesh, made, sketch, thread, closed, refused>>
      BY <1>2 DEF Sleep, WakeForAPacket, WakeForTheEnd
    <2>2. ReadersTyped'
      BY <1>2 DEF Sleep, WakeForAPacket, WakeForTheEnd, Typed, ReadersTyped
    <2> QED
      BY <1>0, <2>1, <2>2 DEF Typed, BoardTyped, SketchTyped, NodeTyped, board, sketch, thread
  <1> QED
    BY <1>1, <1>2

LEMMA NextTyped == Typed /\ AnswersAreMeant /\ [Next]_vars => Typed'
  <1> SUFFICES ASSUME Typed, AnswersAreMeant, [Next]_vars PROVE Typed'
    OBVIOUS
  <1>1. CASE Install \/ IdentityBegin \/ IdentityEnd \/ UNCHANGED vars
    <2>1. UNCHANGED <<mesh, made, sketch, thread, channels, refused>>
      BY <1>1 DEF Install, IdentityBegin, IdentityEnd, vars
    <2>2. BoardTyped'
      <3>1. CASE Install
        <4>1. boards < MaxBoards /\ boards' = boards + 1 /\ boards \in 1 .. MaxBoards
          BY <3>1 DEF Install, Typed, BoardTyped
        <4>2. boards' \in 1 .. MaxBoards
          BY <4>1, Bounds
        <4>3. /\ boardStore' = TRUE /\ valid' = FALSE
              /\ advert' = [node |-> NoNode, pin |-> None]
          BY <3>1 DEF Install, NoRecord
        <4> QED
          BY <4>2, <4>3 DEF BoardTyped
      <3>2. CASE ~Install
        <4>1. boards' = boards /\ boardStore' \in {boardStore, FALSE} /\ advert' = advert
              /\ valid' = valid
          BY <1>1, <3>2 DEF IdentityBegin, IdentityEnd, vars, board
        <4> QED
          BY <4>1 DEF Typed, BoardTyped
      <3> QED
        BY <3>1, <3>2
    <2>3. identity' \in {identity, None, "full"}
      BY <1>1 DEF Install, IdentityBegin, IdentityEnd, vars
    <2>4. AnswerTyped'
      BY <2>1 DEF Typed, SketchTyped, AnswerTyped, sketch
    <2> QED
      BY <2>1, <2>2, <2>3, <2>4 DEF Typed, SketchTyped, NodeTyped, ReadersTyped, sketch, thread,
                                    channels
  <1> QED
    BY <1>1, CallsTyped, NodesTyped DEF Next

\* The state keeps its types, for every number of threads, boards and nodes.
THEOREM TypeCorrect == Spec => []TypeOK
  <1>1. Init => Held
    BY DEF Init, Held
  <1>2. Held /\ AnswersAreMeant /\ Typed /\ [Next]_vars => (Held /\ AnswersAreMeant /\ Typed)'
    BY NextAnswers, NextHeld, NextTyped DEF Held
  <1> QED
    BY <1>1, <1>2, InitTyped, InitAnswers, TypedIsTyped, PTL DEF Spec

-----------------------------------------------------------------------------
(* Who holds a node.                                                       *)

Runs == {"starting", "up", "stopping"}
Early == {"wait", "advertise", "validate", "publish"}
Holding == Early \cup {"close", "stop", "join"}

Untold(g) == stop[g] = "live" /\ ~closed[g]

\* What an end has done so far with the node in its hand.
Told(t, g) ==
  /\ stop[g] = IF pc[t] = "join" THEN "sent" ELSE "live"
  /\ closed[g] <=> pc[t] \in {"stop", "join"}

\* OneHolder of one node, with how far its end has come, and with what makes it
\* inductive: nobody knows a node that is still to be spawned, and one that
\* answered a failure is gone, so that its begin may let go of it.
HolderOf(g) ==
  /\ node[g] = None => Untold(g) /\ mesh # g /\ \A t \in Threads : hand[t] # g
  /\ ready[g] = "failed" => node[g] = "gone"
  /\ stop[g] = "live" /\ node[g] \in Runs => mesh = g \/ \E t \in Threads : Holds(t, g)
  /\ mesh = g => Untold(g)
  /\ \A t \in Threads : Holds(t, g) =>
       mesh # g /\ Told(t, g) /\ \A u \in Threads : Holds(u, g) => u = t

Facts == OneBegin /\ AnswersAreMeant /\ Held /\ Typed

Holders == Facts /\ \A g \in Nodes : HolderOf(g)

LEMMA HoldsWhere == \A t, g : Holds(t, g) <=> hand[t] = g /\ pc[t] \in Holding
  BY DEF Holds, Holding, Early

LEMMA HoldersHold == Holders => OneHolder
  BY DEF Holders, HolderOf, OneHolder, Untold, Told, Runs

LEMMA InitHolders == Init => Holders
  <1> SUFFICES ASSUME Init PROVE Holders
    OBVIOUS
  <1>1. Facts
    BY InitOneBegin, InitAnswers, InitTyped DEF Facts, Typed, SketchTyped, NodeTyped, Held
  <1>2. ASSUME NEW g \in Nodes PROVE HolderOf(g)
    <2>1. /\ node[g] = None /\ ready[g] = None /\ stop[g] = "live" /\ ~closed[g]
          /\ mesh = NoNode /\ \A t \in Threads : hand[t] = NoNode
      BY DEF Init
    <2>2. g # NoNode /\ None \notin Runs \cup {"failed"}
      BY Bounds DEF Runs, None
    <2> QED
      BY <2>1, <2>2 DEF HolderOf, Untold, Holds
  <1> QED
    BY <1>1, <1>2 DEF Holders

\* A call goes on; the other threads stay where they are.
LEMMA OneGoes ==
  ASSUME Facts, NEW t \in Threads, NEW where \in Places, Goto(t, where),
         NEW h \in Nodes \cup {NoNode}, hand' = [hand EXCEPT ![t] = h]
  PROVE  /\ pc'[t] = where /\ hand'[t] = h
         /\ \A u \in Threads \ {t} : /\ pc'[u] = pc[u] /\ hand'[u] = hand[u]
                                     /\ \A g : Holds(u, g)' <=> Holds(u, g)
         /\ \A g : Holds(t, g)' <=> h = g /\ where \in Holding
  <1>1. pc'[t] = where /\ \A u \in Threads \ {t} : pc'[u] = pc[u]
    BY Goes DEF Facts
  <1>2. hand'[t] = h /\ \A u \in Threads \ {t} : hand'[u] = hand[u]
    BY DEF Facts, Held
  <1> QED
    BY <1>1, <1>2 DEF Holds, Holding, Early

\* The same for a call that keeps what it has in its hand.
LEMMA OneGoesOn ==
  ASSUME Facts, NEW t \in Threads, NEW where \in Places, Goto(t, where), hand' = hand
  PROVE  /\ pc'[t] = where
         /\ \A u \in Threads \ {t} : pc'[u] = pc[u] /\ \A g : Holds(u, g)' <=> Holds(u, g)
         /\ \A g : Holds(t, g)' <=> hand[t] = g /\ where \in Holding
  <1>1. pc'[t] = where /\ \A u \in Threads \ {t} : pc'[u] = pc[u]
    BY Goes DEF Facts
  <1> QED
    BY <1>1 DEF Holds, Holding, Early

\* A call that held nothing, and holds nothing after its step.
LEMMA EmptyHands ==
  ASSUME Holders, NEW t \in Threads,
         NEW where \in {"idle", "take", "prepare", "service"}, Goto(t, where),
         pc[t] \in {"idle", "take", "prepare", "service"},
         hand' = hand \/ (mesh # NoNode /\ hand' = [hand EXCEPT ![t] = mesh]),
         UNCHANGED <<mesh, node, ready, stop, closed>>,
         NEW g \in Nodes
  PROVE  HolderOf(g)'
  <1> USE DEF Holders
  <1>1. where \in Places /\ where \notin Holding /\ pc[t] \notin Holding
    BY DEF Places, InBegin, WithNode, Holding, Early
  <1>2. /\ \A u \in Threads \ {t} : pc'[u] = pc[u] /\ (Holds(u, g)' <=> Holds(u, g))
        /\ ~Holds(t, g)' /\ ~Holds(t, g)
    <2>1. ~Holds(t, g)
      BY <1>1, HoldsWhere
    <2>2. CASE hand' = hand
      BY <1>1, <2>1, <2>2, OneGoesOn
    <2>3. CASE hand' = [hand EXCEPT ![t] = mesh]
      <3>1. mesh \in Nodes \cup {NoNode}
        BY DEF Facts, Held
      <3> QED
        BY <1>1, <2>1, <2>3, <3>1, OneGoes
    <2> QED
      BY <2>2, <2>3
  <1>3. node[g] = None => \A u \in Threads : hand'[u] # g
    BY DEF HolderOf, Facts, Held
  <1>4. HolderOf(g)
    OBVIOUS
  <1> QED
    BY <1>2, <1>3, <1>4 DEF HolderOf, Untold, Told

\* A begin that goes on with the node it has.
LEMMA BeginHolds ==
  ASSUME Holders, NEW t \in Threads, NEW where \in Early, Goto(t, where), pc[t] \in Early,
         UNCHANGED <<hand, mesh, node, ready, stop, closed>>,
         NEW g \in Nodes
  PROVE  HolderOf(g)'
  <1>1. where \in Places /\ where \in Holding /\ pc[t] \in Holding
    BY DEF Places, InBegin, WithNode, Holding, Early
  <1>2. /\ \A u \in Threads : Holds(u, g)' <=> Holds(u, g)
        /\ \A u \in Threads \ {t} : pc'[u] = pc[u]
        /\ pc'[t] = where
    BY <1>1, OneGoesOn, HoldsWhere DEF Holders
  <1>3. \A u \in Threads : Told(u, g) => Told(u, g)'
    BY <1>2 DEF Told, Early
  <1>4. HolderOf(g)
    BY DEF Holders
  <1> QED
    BY <1>2, <1>3, <1>4 DEF HolderOf, Untold

\* A call that lets go of its node: one that is gone, or was told to go.
LEMMA LetsGo ==
  ASSUME Holders, NEW t \in Threads, Goto(t, "idle"), Holds(t, hand[t]),
         UNCHANGED <<hand, mesh, node, ready, closed>>,
         NEW s \in {"live", "sent", "dropped"}, stop' = [stop EXCEPT ![hand[t]] = s],
         s # "live" \/ node[hand[t]] \notin Runs,
         hand[t] \in Nodes,
         NEW g \in Nodes
  PROVE  HolderOf(g)'
  <1>1. "idle" \in Places /\ "idle" \notin Holding
    BY DEF Places, Holding, Early
  <1>2. /\ \A u \in Threads \ {t} : pc'[u] = pc[u] /\ (Holds(u, g)' <=> Holds(u, g))
        /\ ~Holds(t, g)'
    BY <1>1, OneGoesOn DEF Holders
  <1>3. HolderOf(g)
    BY DEF Holders
  <1>4. stop'[g] = IF g = hand[t] THEN s ELSE stop[g]
    BY DEF Holders, Facts, Typed, NodeTyped
  <1>5. CASE g = hand[t]
    <2>1. mesh # g /\ \A u \in Threads : Holds(u, g) => u = t
      BY <1>3, <1>5 DEF HolderOf
    <2>2. \A u \in Threads : ~Holds(u, g)'
      BY <1>2, <2>1
    <2>3. node[g] # None
      BY <1>3, <1>5 DEF HolderOf
    <2> QED
      BY <1>3, <1>4, <1>5, <2>1, <2>2, <2>3 DEF HolderOf
  <1>6. CASE g # hand[t]
    <2>1. ~Holds(t, g)
      BY <1>6 DEF Holds
    <2>2. \A u \in Threads \ {t} : Told(u, g) => Told(u, g)'
      BY <1>2, <1>4, <1>6 DEF Told
    <2>3. \A u \in Threads : Holds(u, g)' => u # t /\ Holds(u, g)
      BY <1>2
    <2> QED
      BY <1>2, <1>3, <1>4, <1>6, <2>1, <2>2, <2>3 DEF HolderOf, Untold
  <1> QED
    BY <1>5, <1>6

\* The node is handed from a begin to MESH.
LEMMA PublishHolds ==
  ASSUME Holders, NEW t \in Threads, Publish(t), NEW g \in Nodes
  PROVE  HolderOf(g)'
  <1>1. /\ pc[t] = "publish" /\ Goto(t, "idle") /\ mesh' = hand[t]
        /\ UNCHANGED <<hand, node, ready, closed>>
        /\ stop' = [k \in Nodes |-> IF k = mesh /\ stop[k] = "live" THEN "dropped" ELSE stop[k]]
    BY DEF Publish, Answer, channels
  <1>2. mesh = NoNode /\ NoNode \notin Nodes
    BY <1>1, Bounds DEF Holders, Facts, OneBegin, AfterTake
  <1>3. stop'[g] = stop[g]
    BY <1>1, <1>2
  <1>4. "idle" \in Places /\ "idle" \notin Holding /\ "publish" \in Holding
    BY DEF Places, Holding, Early
  <1>5. /\ \A u \in Threads \ {t} : pc'[u] = pc[u] /\ (Holds(u, g)' <=> Holds(u, g))
        /\ ~Holds(t, g)'
    BY <1>1, <1>4, OneGoesOn DEF Holders
  <1>6. Holds(t, g) <=> g = hand[t]
    BY <1>1, <1>4, HoldsWhere
  <1>7. HolderOf(g)
    BY DEF Holders
  <1>8. CASE g = hand[t]
    <2>1. /\ stop[g] = "live" /\ ~closed[g] /\ node[g] # None
          /\ \A u \in Threads : Holds(u, g) => u = t
      BY <1>1, <1>6, <1>7, <1>8 DEF HolderOf, Told
    <2>2. \A u \in Threads : ~Holds(u, g)'
      BY <1>5, <2>1
    <2> QED
      BY <1>1, <1>3, <1>7, <1>8, <2>1, <2>2 DEF HolderOf, Untold
  <1>9. CASE g # hand[t]
    <2>1. \A u \in Threads : Holds(u, g)' <=> u # t /\ Holds(u, g)
      BY <1>5
    <2>2. \A u \in Threads \ {t} : Told(u, g) => Told(u, g)'
      BY <1>1, <1>3, <1>5 DEF Told
    <2>3. mesh # g /\ mesh' # g /\ ~Holds(t, g)
      BY <1>1, <1>2, <1>6, <1>9
    <2> QED
      BY <1>1, <1>3, <1>7, <2>1, <2>2, <2>3 DEF HolderOf, Untold
  <1> QED
    BY <1>8, <1>9

\* ... and from MESH to the end that takes it.
LEMMA EndHolds ==
  ASSUME Holders, NEW t \in Threads, End(t), NEW g \in Nodes
  PROVE  HolderOf(g)'
  <1>1. /\ pc[t] = "idle" /\ Goto(t, "close") /\ mesh # NoNode /\ mesh' = NoNode
        /\ hand' = [hand EXCEPT ![t] = mesh]
        /\ UNCHANGED <<node, ready, stop, closed>>
    BY DEF End, thread, channels
  <1>2. mesh \in Nodes /\ mesh' # g
    BY <1>1, Bounds DEF Holders, Facts, Held
  <1>3. "close" \in Places /\ "close" \in Holding /\ "idle" \notin Holding
    BY DEF Places, WithNode, Holding, Early
  <1>4. /\ pc'[t] = "close"
        /\ hand'[t] = mesh
        /\ \A u \in Threads \ {t} : /\ pc'[u] = pc[u] /\ hand'[u] = hand[u]
                                    /\ (Holds(u, g)' <=> Holds(u, g))
        /\ Holds(t, g)' <=> mesh = g
    BY <1>1, <1>2, <1>3, OneGoes DEF Holders
  <1>5. HolderOf(g) /\ ~Holds(t, g)
    BY <1>1, <1>3, HoldsWhere DEF Holders
  <1>6. CASE g = mesh
    <2>1. /\ stop[g] = "live" /\ ~closed[g] /\ node[g] # None
          /\ \A u \in Threads : ~Holds(u, g)
      BY <1>5, <1>6 DEF HolderOf, Untold
    <2>2. \A u \in Threads : Holds(u, g)' <=> u = t
      BY <1>4, <1>6, <2>1
    <2>3. Told(t, g)'
      BY <1>1, <1>4, <2>1 DEF Told
    <2> QED
      BY <1>1, <1>2, <1>5, <2>1, <2>2, <2>3 DEF HolderOf
  <1>7. CASE g # mesh
    <2>1. \A u \in Threads : Holds(u, g)' <=> Holds(u, g)
      BY <1>4, <1>5, <1>7
    <2>2. \A u \in Threads \ {t} : Told(u, g) => Told(u, g)'
      BY <1>1, <1>4 DEF Told
    <2>3. node[g] = None => \A u \in Threads : hand'[u] # g
      BY <1>4, <1>5, <1>7 DEF HolderOf
    <2> QED
      BY <1>1, <1>2, <1>5, <1>7, <2>1, <2>2, <2>3 DEF HolderOf, Untold
  <1> QED
    BY <1>6, <1>7

\* An end that goes on with its node.
LEMMA EndGoesOn ==
  ASSUME Holders, NEW t \in Threads, CloseChannels(t) \/ SendStop(t), NEW g \in Nodes
  PROVE  HolderOf(g)'
  <1> DEFINE where == IF pc[t] = "close" THEN "stop" ELSE "join"
  <1>1. /\ pc[t] \in {"close", "stop"} /\ Goto(t, where)
        /\ UNCHANGED <<hand, mesh, node, ready>>
        /\ closed' = IF pc[t] = "close" THEN [closed EXCEPT ![hand[t]] = TRUE] ELSE closed
        /\ stop' = IF pc[t] = "stop" THEN [stop EXCEPT ![hand[t]] = "sent"] ELSE stop
    BY DEF CloseChannels, SendStop, thread, channels
  <1>2. where \in Places /\ where \in Holding /\ pc[t] \in Holding
    BY <1>1 DEF Places, WithNode, Holding, Early
  <1>3. /\ pc'[t] = where
        /\ \A u \in Threads \ {t} : pc'[u] = pc[u]
        /\ \A u \in Threads : Holds(u, g)' <=> Holds(u, g)
    <2> HIDE DEF where
    <2> QED
      BY <1>1, <1>2, OneGoesOn, HoldsWhere DEF Holders
  <1>4. /\ closed'[g] = IF g = hand[t] /\ pc[t] = "close" THEN TRUE ELSE closed[g]
        /\ stop'[g] = IF g = hand[t] /\ pc[t] = "stop" THEN "sent" ELSE stop[g]
    BY <1>1 DEF Holders, Facts, Typed, NodeTyped, ReadersTyped
  <1>5. HolderOf(g)
    BY DEF Holders
  <1>6. CASE g = hand[t]
    <2>1. Holds(t, g)
      BY <1>2, <1>6, HoldsWhere
    <2>2. /\ mesh # g /\ Told(t, g) /\ node[g] # None
          /\ \A u \in Threads : Holds(u, g) => u = t
      BY <1>5, <1>6, <2>1 DEF HolderOf
    <2>3. Told(t, g)'
      <3>1. CASE pc[t] = "close"
        BY <1>3, <1>4, <1>6, <2>2, <3>1 DEF Told
      <3>2. CASE pc[t] = "stop"
        BY <1>3, <1>4, <1>6, <2>2, <3>2 DEF Told
      <3> QED
        BY <1>1, <3>1, <3>2
    <2> QED
      BY <1>1, <1>3, <1>5, <2>1, <2>2, <2>3 DEF HolderOf
  <1>7. CASE g # hand[t]
    <2>1. stop'[g] = stop[g] /\ closed'[g] = closed[g] /\ ~Holds(t, g)
      BY <1>4, <1>7 DEF Holds
    <2>2. \A u \in Threads : Holds(u, g) => (Told(u, g) => Told(u, g)')
      BY <1>3, <2>1 DEF Told
    <2> HIDE DEF where
    <2> QED
      BY <1>1, <1>3, <1>5, <2>1, <2>2 DEF HolderOf, Untold
  <1> QED
    BY <1>6, <1>7

\* A new node, that nobody knew before.
LEMMA SpawnHolds ==
  ASSUME Holders, NEW t \in Threads, Spawn(t), NEW g \in Nodes
  PROVE  HolderOf(g)'
  <1> DEFINE n == made + 1
  <1>1. /\ pc[t] = "prepare" /\ Goto(t, "wait") /\ hand' = [hand EXCEPT ![t] = n]
        /\ node' = [node EXCEPT ![n] = "starting"]
        /\ UNCHANGED <<mesh, ready, stop, closed>>
    BY DEF Spawn, channels
  <1>2. n \in Nodes /\ node[n] = None
    BY BoundsAssumption DEF Holders, Facts, AnswersAreMeant, Spawn, Nodes
  <1>3. "wait" \in Places /\ "wait" \in Holding /\ "prepare" \notin Holding
    BY DEF Places, WithNode, Holding, Early
  <1> HIDE DEF n
  <1>4. /\ pc'[t] = "wait" /\ hand'[t] = n
        /\ \A u \in Threads \ {t} : /\ pc'[u] = pc[u] /\ hand'[u] = hand[u]
                                    /\ (Holds(u, g)' <=> Holds(u, g))
        /\ Holds(t, g)' <=> n = g
    BY <1>1, <1>2, <1>3, OneGoes DEF Holders
  <1>5. HolderOf(g) /\ ~Holds(t, g)
    BY <1>1, <1>3, HoldsWhere DEF Holders
  <1>6. node'[g] = IF g = n THEN "starting" ELSE node[g]
    BY <1>1 DEF Holders, Facts, Typed, NodeTyped
  <1>7. CASE g = n
    <2>1. /\ stop[g] = "live" /\ ~closed[g] /\ mesh # g
          /\ \A u \in Threads : hand[u] # g
      BY <1>2, <1>5, <1>7 DEF HolderOf, Untold
    <2>2. \A u \in Threads : Holds(u, g)' <=> u = t
      BY <1>4, <1>7, <2>1 DEF Holds
    <2>3. Told(t, g)'
      BY <1>1, <1>4, <2>1 DEF Told
    <2>4. ready[g] # "failed" /\ "starting" # None
      BY <1>2, <1>5, <1>7 DEF HolderOf, None
    <2> QED
      BY <1>1, <1>6, <1>7, <2>1, <2>2, <2>3, <2>4 DEF HolderOf
  <1>8. CASE g # n
    <2>1. \A u \in Threads : Holds(u, g)' <=> Holds(u, g)
      BY <1>4, <1>5, <1>8
    <2>2. \A u \in Threads \ {t} : Told(u, g) => Told(u, g)'
      BY <1>1, <1>4 DEF Told
    <2>3. node[g] = None => \A u \in Threads : hand'[u] # g
      BY <1>4, <1>5, <1>8 DEF HolderOf
    <2> QED
      BY <1>1, <1>5, <1>6, <1>8, <2>1, <2>2, <2>3 DEF HolderOf, Untold
  <1> QED
    BY <1>7, <1>8

\* The node's own steps: it says that it failed and is gone, and it goes only
\* where nothing is asked of its holder.
LEMMA NodeHolds ==
  ASSUME Holders, NEW k \in Nodes,
         \/ Start(k) \/ Flip(k) \/ Commit(k) \/ Poll(k) \/ Shutdown(k)
         \/ Sleep(k) \/ WakeForAPacket(k) \/ WakeForTheEnd(k),
         NEW g \in Nodes
  PROVE  HolderOf(g)'
  <1>1. UNCHANGED <<mesh, pc, hand, stop, closed>>
    BY DEF Start, Bind, BindFails, Flip, Commit, Poll, Shutdown, Sleep, WakeForAPacket,
           WakeForTheEnd, sketch, thread, channels
  <1>2. \/ UNCHANGED <<node, ready>>
        \/ /\ node[k] \in Runs /\ \E s \in Runs \cup {"gone"} : node' = [node EXCEPT ![k] = s]
           /\ ready' = ready /\ ready[k] # "failed"
        \/ /\ node[k] \in Runs /\ \E p \in Pins : ready' = [ready EXCEPT ![k] = p]
           /\ node' = [node EXCEPT ![k] = "up"]
        \/ /\ node[k] \in Runs /\ ready' = [ready EXCEPT ![k] = "failed"]
           /\ node' = [node EXCEPT ![k] = "gone"]
    <2>1. node[k] \in Runs => ready[k] # "failed"
      BY DEF Holders, HolderOf, Runs
    <2>2. CASE Bind(k)
      BY <2>2 DEF Bind, Runs, Holders, Facts, Held
    <2>3. CASE BindFails(k)
      BY <2>3 DEF BindFails, Runs
    <2>4. CASE Poll(k) \/ Shutdown(k)
      BY <2>1, <2>4 DEF Poll, Shutdown, Runs
    <2>5. CASE Flip(k) \/ Commit(k) \/ Sleep(k) \/ WakeForAPacket(k) \/ WakeForTheEnd(k)
      BY <2>5 DEF Flip, Commit, Sleep, WakeForAPacket, WakeForTheEnd, thread
    <2> QED
      BY <2>2, <2>3, <2>4, <2>5 DEF Start
  <1>3. "failed" \notin Pins /\ None \notin Runs \cup {"gone"}
    BY DEF Pins, Runs, None
  <1>4. HolderOf(g)
    BY DEF Holders
  <1>5. /\ node'[g] = None => node[g] = None
        /\ node'[g] \in Runs => node[g] \in Runs
        /\ ready'[g] = "failed" => node'[g] = "gone"
    <2>1. "up" \in Runs
      BY DEF Runs
    <2>2. "gone" \notin Runs
      BY DEF Runs
    <2>3. ready[g] = "failed" => node[g] = "gone"
      BY <1>4 DEF HolderOf
    <2> QED
      BY <1>2, <1>3, <2>1, <2>2, <2>3 DEF Holders, Facts, Typed, NodeTyped
  <1>6. \A u \in Threads : (Holds(u, g)' <=> Holds(u, g)) /\ (Told(u, g)' <=> Told(u, g))
    BY <1>1 DEF Holds, Told
  <1> QED
    BY <1>1, <1>4, <1>5, <1>6 DEF HolderOf, Untold

LEMMA NextHolders == Holders /\ [Next]_vars => Holders'
  <1> SUFFICES ASSUME Holders, [Next]_vars PROVE Holders'
    OBVIOUS
  <1>1. Facts'
    BY NextOneBegin, NextAnswers, NextHeld, NextTyped DEF Holders, Facts, Held
  <1>2. ASSUME NEW g \in Nodes PROVE HolderOf(g)'
    <2>1. ASSUME NEW t \in Threads,
                 Begin(t) \/ TakeStore(t) \/ SpawnFails(t) \/ ServiceTake(t) \/ ServicePublish(t)
          PROVE  HolderOf(g)'
      <3>1. PICK where \in {"idle", "take", "prepare", "service"} : Goto(t, where)
        BY <2>1 DEF Begin, TakeStore, SpawnFails, ServiceTake, ServicePublish, Answer
      <3>2. pc[t] \in {"idle", "take", "prepare", "service"}
        BY <2>1 DEF Begin, TakeStore, SpawnFails, ServiceTake, ServicePublish
      <3>3. /\ hand' = hand \/ (mesh # NoNode /\ hand' = [hand EXCEPT ![t] = mesh])
            /\ UNCHANGED <<mesh, node, ready, stop, closed>>
        BY <2>1 DEF Begin, TakeStore, SpawnFails, ServiceTake, ServicePublish, thread, channels
      <3> QED
        BY <3>1, <3>2, <3>3, EmptyHands
    <2>2. ASSUME NEW t \in Threads, Advertise(t) \/ Validate(t) \/ Receive(t) PROVE HolderOf(g)'
      <3>1. pc[t] \in Early /\ UNCHANGED <<hand, mesh, node, ready, stop, closed>>
        BY <2>2 DEF Advertise, Validate, Receive, thread, channels, Early
      <3>2. CASE \E where \in Early : Goto(t, where)
        BY <3>1, <3>2, BeginHolds
      <3>3. CASE Receive(t) /\ ready[hand[t]] = "failed"
        <4>1. Goto(t, "idle") /\ pc[t] = "wait"
          BY <3>3 DEF Receive, Answer
        <4>2. hand[t] \in Nodes
          BY <4>1 DEF Holders, Facts, AnswersAreMeant
        <4>3. node[hand[t]] \notin Runs
          BY <3>3, <4>2 DEF Holders, HolderOf, Runs
        <4>4. Holds(t, hand[t])
          BY <4>1 DEF Holds
        <4>5. stop[hand[t]] \in {"live", "sent", "dropped"} /\ stop' = [stop EXCEPT ![hand[t]] = stop[hand[t]]]
          BY <3>1, <4>2 DEF Holders, Facts, Typed, NodeTyped
        <4> QED
          BY <3>1, <4>1, <4>2, <4>3, <4>4, <4>5, LetsGo
      <3> QED
        BY <2>2, <3>2, <3>3 DEF Advertise, Validate, Receive, Early
    <2>3. ASSUME NEW t \in Threads, GiveUp(t) PROVE HolderOf(g)'
      <3>1. /\ Goto(t, "idle") /\ pc[t] = "wait" /\ stop' = [stop EXCEPT ![hand[t]] = "dropped"]
            /\ UNCHANGED <<hand, mesh, node, ready, closed>>
        BY <2>3 DEF GiveUp, Answer, channels
      <3>2. hand[t] \in Nodes /\ Holds(t, hand[t])
        BY <3>1 DEF Holders, Facts, AnswersAreMeant, Holds
      <3> QED
        BY <3>1, <3>2, LetsGo
    <2>4. ASSUME NEW t \in Threads, Join(t) PROVE HolderOf(g)'
      <3>1. /\ Goto(t, "idle") /\ pc[t] = "join" /\ node[hand[t]] = "gone"
            /\ UNCHANGED <<hand, mesh, node, ready, stop, closed>>
        BY <2>4 DEF Join, thread, channels
      <3>2. Holds(t, hand[t])
        BY <3>1 DEF Holds
      <3>3. CASE hand[t] \in Nodes
        <4>1. node[hand[t]] \notin Runs
          BY <3>1 DEF Runs
        <4>2. stop[hand[t]] \in {"live", "sent", "dropped"} /\ stop' = [stop EXCEPT ![hand[t]] = stop[hand[t]]]
          BY <3>1, <3>3 DEF Holders, Facts, Typed, NodeTyped
        <4> QED
          BY <3>1, <3>2, <3>3, <4>1, <4>2, LetsGo
      <3>4. CASE hand[t] \notin Nodes
        <4>1. "idle" \in Places /\ "idle" \notin Holding
          BY DEF Places, Holding, Early
        <4>2. /\ \A u \in Threads \ {t} : pc'[u] = pc[u] /\ (Holds(u, g)' <=> Holds(u, g))
              /\ ~Holds(t, g)' /\ ~Holds(t, g)
          BY <3>1, <3>4, <4>1, OneGoesOn DEF Holders, Holds
        <4>3. HolderOf(g)
          BY DEF Holders
        <4> QED
          BY <3>1, <4>2, <4>3 DEF HolderOf, Untold, Told
      <3> QED
        BY <3>3, <3>4
    <2>5. CASE Install \/ IdentityBegin \/ IdentityEnd \/ UNCHANGED vars
      <3>1. UNCHANGED <<mesh, pc, hand, node, ready, stop, closed>>
        BY <2>5 DEF Install, IdentityBegin, IdentityEnd, vars, sketch, thread, channels
      <3>2. HolderOf(g)
        BY DEF Holders
      <3> QED
        BY <3>1, <3>2 DEF HolderOf, Holds, Told, Untold
    <2> QED
      BY <2>1, <2>2, <2>3, <2>4, <2>5, SpawnHolds, PublishHolds, EndHolds, EndGoesOn, NodeHolds
         DEF Next, Running
  <1> QED
    BY <1>1, <1>2 DEF Holders

\* No node is orphaned, held by two, or joined before it was told to go.
THEOREM NodesAreHeldOnce == Spec => []OneHolder
  BY InitHolders, NextHolders, HoldersHold, PTL DEF Spec

-----------------------------------------------------------------------------
(* The record on the board.                                                *)

\* One thread uses the mesh, or there is one board with one store.
OneAtATime == Threads = {Sketch} \/ MaxBoards = 1

\* On one board, whoever finds the store finds nobody at work on a node.
StoreOfOneBoard ==
  MaxBoards = 1 =>
    /\ boardStore => identity # "full"
    /\ boardStore \/ identity = "full" =>
         mesh = NoNode /\ \A t \in Threads : pc[t] \notin AfterTake \cup {"service"}

\* While service has a record in its hand, no other node comes up beside its own.
OwnService ==
  /\ \A t \in Threads : pc[t] = "service" => t = Sketch
  /\ pc[Sketch] = "service" =>
       /\ mesh \in {NoNode, hand[Sketch]} /\ hand[Sketch] \in Nodes
       /\ \A t \in Threads : pc[t] \notin AfterTake

Quiet == OneBegin /\ AnswersAreMeant /\ Held /\ Typed /\ StoreOfOneBoard /\ OwnService

\* What was last taken from node g is p, unless more waits to be taken.
Newest(g, p) == readvertise[g] = None => adoptedSeen[g] = p

\* The pin on its way through the links of the chain: the poll, ready and
\* readvertise, the hand of begin or service, the board.
PollLink ==
  \A g \in Nodes :
    /\ readvertise[g] # None => readvertise[g] = adoptedSeen[g]
    /\ node[g] \in {None, "starting"} => readvertise[g] = None

Carries(t) ==
  /\ pc[t] \in AfterTake \ {"prepare"} =>
       hand[t] \in Nodes /\ (ready[hand[t]] \in Pins => Newest(hand[t], ready[hand[t]]))
  /\ pc[t] \in AfterTake \ {"prepare", "wait"} =>
       ready[hand[t]] \in Pins /\ txt[t] = ready[hand[t]]
  /\ pc[t] \in {"validate", "publish"} =>
       refused[hand[t]] \/ advert = [node |-> hand[t], pin |-> txt[t]]

BeginLink == \A t \in Threads : Carries(t)

ServiceLink ==
  pc[Sketch] = "service" => ready[hand[Sketch]] \in Pins /\ Newest(hand[Sketch], txt[Sketch])

BoardLink ==
  mesh # NoNode =>
    /\ ready[mesh] \in Pins
    /\ readvertise[mesh] = None /\ pc[Sketch] # "service" /\ ~refused[mesh] =>
         advert = [node |-> mesh, pin |-> adoptedSeen[mesh]]

Chain == PollLink /\ BeginLink /\ ServiceLink /\ BoardLink

LEMMA InitQuiet == Init => Quiet
  <1> SUFFICES ASSUME Init PROVE Quiet
    OBVIOUS
  <1>1. OneBegin /\ AnswersAreMeant /\ Typed
    BY InitOneBegin, InitAnswers, InitTyped
  <1>2. /\ mesh = NoNode /\ identity = None
        /\ pc \in [Threads -> {"idle", "away"}] /\ hand = [t \in Threads |-> NoNode]
        /\ pin \in [Nodes -> Pins]
    BY DEF Init
  <1>3. Held
    BY <1>2 DEF Held
  <1>4. StoreOfOneBoard
    BY <1>2 DEF StoreOfOneBoard, AfterTake, None
  <1>5. OwnService
    BY <1>2, SketchAssumption DEF OwnService
  <1> QED
    BY <1>1, <1>3, <1>4, <1>5 DEF Quiet

\* The threads that do not take this step stay where they are.
LEMMA CallGoes ==
  ASSUME pc \in [Threads -> Places], NEW t \in Threads,
         Begin(t) \/ ServiceTake(t) \/ End(t) \/ Running(t)
  PROVE  \E where \in Places : pc' = [pc EXCEPT ![t] = where]
  BY DEF Begin, ServiceTake, End, Running, TakeStore, Spawn, SpawnFails, Receive, GiveUp,
         Advertise, Validate, Publish, ServicePublish, CloseChannels, SendStop, Join, Answer,
         Goto, Places, InBegin, WithNode

\* The node's thread leaves the facade alone.
LEMMA NodeGoes ==
  ASSUME NEW g \in Nodes,
         \/ Start(g) \/ Flip(g) \/ Commit(g) \/ Poll(g) \/ Shutdown(g)
         \/ Sleep(g) \/ WakeForAPacket(g) \/ WakeForTheEnd(g)
  PROVE  UNCHANGED <<board, identity, mesh, made, sketch, refused>>
  BY DEF Start, Bind, BindFails, Flip, Commit, Poll, Shutdown, Sleep, WakeForAPacket,
         WakeForTheEnd

\* Where a call is after its step.
LEMMA CallSteps ==
  ASSUME Quiet, NEW t \in Threads, Begin(t) \/ ServiceTake(t) \/ End(t) \/ Running(t)
  PROVE  /\ boardStore' = boardStore /\ boards' = boards
         /\ \A u \in Threads \ {t} : pc'[u] = pc[u] /\ hand'[u] = hand[u]
         /\ \/ /\ TakeStore(t) /\ identity = "full" /\ identity' = "empty" /\ pc'[t] = "prepare"
               /\ pc[t] = "take" /\ UNCHANGED <<mesh, hand>>
            \/ /\ ServiceTake(t) /\ identity' = identity /\ mesh # NoNode /\ mesh' = mesh
               /\ t = Sketch /\ pc'[t] = "service" /\ hand'[t] = mesh /\ pc[t] = "idle"
            \/ /\ identity' = identity /\ pc'[t] \in AfterTake /\ pc[t] \in AfterTake
               /\ mesh' = mesh
            \/ /\ identity' = identity /\ pc'[t] \notin AfterTake \cup {"service"}
               /\ mesh' \in {mesh, NoNode} \/ (pc[t] = "publish" /\ mesh' = hand[t])
  <1>1. PICK where \in Places : pc' = [pc EXCEPT ![t] = where]
    BY CallGoes DEF Quiet, OneBegin
  <1>2. pc'[t] = where /\ \A u \in Threads \ {t} : pc'[u] = pc[u]
    BY <1>1 DEF Quiet, OneBegin
  <1>3. hand' = hand \/ \E h : hand' = [hand EXCEPT ![t] = h]
    BY DEF Begin, ServiceTake, End, Running, TakeStore, Spawn, SpawnFails, Receive, GiveUp,
           Advertise, Validate, Publish, ServicePublish, CloseChannels, SendStop, Join
  <1>4. \A u \in Threads \ {t} : hand'[u] = hand[u]
    BY <1>3 DEF Quiet, Held
  <1>5. boardStore' = boardStore /\ boards' = boards
    BY DEF Begin, ServiceTake, End, Running, TakeStore, Spawn, SpawnFails, Receive, GiveUp,
           Advertise, Validate, Publish, ServicePublish, CloseChannels, SendStop, Join, board
  <1>6. CASE TakeStore(t) /\ identity = "full"
    BY <1>2, <1>4, <1>5, <1>6 DEF TakeStore, Goto, Quiet, OneBegin
  <1>7. CASE ServiceTake(t)
    <2>1. /\ identity' = identity /\ mesh # NoNode /\ mesh' = mesh /\ t = Sketch
          /\ pc[t] = "idle" /\ hand' = [hand EXCEPT ![t] = mesh] /\ Goto(t, "service")
      BY <1>7 DEF ServiceTake
    <2> QED
      BY <1>2, <1>4, <1>5, <1>7, <2>1 DEF Goto, Quiet, OneBegin, Held
  <1>8. CASE Spawn(t) \/ SpawnFails(t) \/ Receive(t) \/ GiveUp(t) \/ Advertise(t) \/ Validate(t)
    <2>1. PICK w \in {"wait", "idle", "advertise", "validate", "publish"} : Goto(t, w)
      BY <1>8 DEF Spawn, SpawnFails, Receive, GiveUp, Advertise, Validate, Answer
    <2>2. pc[t] \in AfterTake /\ UNCHANGED <<identity, mesh>>
      BY <1>8 DEF Spawn, SpawnFails, Receive, GiveUp, Advertise, Validate, AfterTake
    <2>3. pc'[t] = w
      BY <2>1 DEF Goto, Quiet, OneBegin
    <2> QED
      BY <1>2, <1>4, <1>5, <2>1, <2>2, <2>3 DEF AfterTake
  <1>9. CASE \/ Begin(t) \/ (TakeStore(t) /\ identity # "full") \/ Publish(t) \/ End(t)
             \/ ServicePublish(t) \/ CloseChannels(t) \/ SendStop(t) \/ Join(t)
    <2>1. PICK w \in {"idle", "take", "close", "stop", "join"} : Goto(t, w)
      BY <1>9 DEF Begin, TakeStore, Publish, End, ServicePublish, CloseChannels, SendStop, Join,
                  Answer
    <2>2. /\ identity' = identity
          /\ mesh' \in {mesh, NoNode} \/ (pc[t] = "publish" /\ mesh' = hand[t])
      BY <1>9 DEF Begin, TakeStore, Publish, End, ServicePublish, CloseChannels, SendStop, Join
    <2>3. pc'[t] = w
      BY <2>1 DEF Goto, Quiet, OneBegin
    <2> QED
      BY <1>2, <1>4, <1>5, <2>1, <2>2, <2>3 DEF AfterTake
  <1> QED
    BY <1>6, <1>7, <1>8, <1>9 DEF Running

LEMMA NextStore == Quiet /\ [Next]_vars => StoreOfOneBoard'
  <1> SUFFICES ASSUME Quiet, [Next]_vars, MaxBoards = 1,
                      boardStore' \/ identity' = "full" \/ ~(boardStore' => identity' # "full")
               PROVE  /\ boardStore' => identity' # "full"
                      /\ mesh' = NoNode
                      /\ \A u \in Threads : pc'[u] \notin AfterTake \cup {"service"}
    BY DEF StoreOfOneBoard
  <1>1. ASSUME boardStore \/ identity = "full"
        PROVE  /\ boardStore => identity # "full"
               /\ mesh = NoNode /\ \A u \in Threads : pc[u] \notin AfterTake \cup {"service"}
    BY <1>1 DEF Quiet, StoreOfOneBoard
  <1>2. CASE Install
    <2>1. boards < MaxBoards /\ boards \in 1 .. MaxBoards
      BY <1>2 DEF Install, Quiet, Typed, BoardTyped
    <2> QED
      BY <2>1
  <1>3. CASE IdentityBegin \/ IdentityEnd \/ UNCHANGED vars
    <2>1. UNCHANGED <<pc, mesh>>
      BY <1>3 DEF IdentityBegin, IdentityEnd, vars, sketch
    <2>2. CASE IdentityBegin
      <3>1. boardStore /\ ~boardStore'
        BY <2>2 DEF IdentityBegin
      <3> QED
        BY <1>1, <2>1, <3>1
    <2>3. CASE IdentityEnd
      <3>1. boardStore' = boardStore /\ identity' # "full"
        BY <2>3 DEF IdentityEnd, board, None
      <3> QED
        BY <1>1, <2>1, <3>1
    <2>4. CASE UNCHANGED vars
      <3>1. boardStore' = boardStore /\ identity' = identity
        BY <2>4 DEF vars, board
      <3> QED
        BY <1>1, <2>1, <3>1
    <2> QED
      BY <1>3, <2>2, <2>3, <2>4
  <1>4. ASSUME NEW t \in Threads, Begin(t) \/ ServiceTake(t) \/ End(t) \/ Running(t)
        PROVE  /\ boardStore' => identity' # "full"
               /\ mesh' = NoNode
               /\ \A u \in Threads : pc'[u] \notin AfterTake \cup {"service"}
    BY <1>1, <1>4, CallSteps DEF AfterTake
  <1>5. ASSUME NEW g \in Nodes,
               \/ Start(g) \/ Flip(g) \/ Commit(g) \/ Poll(g) \/ Shutdown(g)
               \/ Sleep(g) \/ WakeForAPacket(g) \/ WakeForTheEnd(g)
        PROVE  /\ boardStore' => identity' # "full"
               /\ mesh' = NoNode
               /\ \A u \in Threads : pc'[u] \notin AfterTake \cup {"service"}
    BY <1>1, <1>5, NodeGoes DEF board, sketch
  <1> QED
    BY <1>2, <1>3, <1>4, <1>5 DEF Next

LEMMA NextOwn == OneAtATime /\ Quiet /\ [Next]_vars => OwnService'
  <1> SUFFICES ASSUME OneAtATime, Quiet, [Next]_vars PROVE OwnService'
    OBVIOUS
  <1>1. ASSUME NEW t \in Threads, Begin(t) \/ ServiceTake(t) \/ End(t) \/ Running(t)
        PROVE  OwnService'
    <2>1. \A u \in Threads : pc[u] \in AfterTake => mesh = NoNode
      BY DEF Quiet, OneBegin
    <2>2. mesh \in Nodes \cup {NoNode}
      BY DEF Quiet, Held
    <2>3. ASSUME identity = "full", pc[Sketch] = "service" PROVE Threads = {Sketch}
      BY <2>3, SketchAssumption DEF Quiet, StoreOfOneBoard, OneAtATime
    <2>4. \A u \in Threads : pc'[u] = "service" => u = Sketch
      BY <1>1, CallSteps DEF Quiet, OwnService, AfterTake
    <2>5. ASSUME pc'[Sketch] = "service"
          PROVE  /\ mesh' \in {NoNode, hand'[Sketch]} /\ hand'[Sketch] \in Nodes
                 /\ \A u \in Threads : pc'[u] \notin AfterTake
      <3>1. CASE ServiceTake(t) /\ pc[t] = "idle" /\ t = Sketch /\ mesh # NoNode
                   /\ mesh' = mesh /\ hand'[t] = mesh
        <4>1. \A u \in Threads \ {t} : pc'[u] = pc[u]
          BY <1>1, CallSteps
        <4> QED
          BY <2>1, <2>2, <2>5, <3>1, <4>1 DEF AfterTake
      <3>2. CASE t # Sketch
        <4>1. pc[Sketch] = "service" /\ hand'[Sketch] = hand[Sketch]
          BY <1>1, <2>5, <3>2, CallSteps, SketchAssumption
        <4>2. /\ mesh \in {NoNode, hand[Sketch]} /\ hand[Sketch] \in Nodes
              /\ \A u \in Threads : pc[u] \notin AfterTake
          BY <4>1 DEF Quiet, OwnService
        <4>3. identity # "full"
          BY <2>3, <3>2, <4>1
        <4>4. mesh' \in {mesh, NoNode} /\ pc'[t] \notin AfterTake
          BY <1>1, <3>2, <4>2, <4>3, CallSteps DEF AfterTake
        <4> QED
          BY <1>1, <4>1, <4>2, <4>4, CallSteps
      <3> QED
        BY <1>1, <2>5, <3>1, <3>2, CallSteps DEF AfterTake
    <2> QED
      BY <2>4, <2>5 DEF OwnService
  <1>2. CASE Install \/ IdentityBegin \/ IdentityEnd \/ UNCHANGED vars
    BY <1>2 DEF Install, IdentityBegin, IdentityEnd, vars, sketch, Quiet, OwnService
  <1>3. ASSUME NEW g \in Nodes,
               \/ Start(g) \/ Flip(g) \/ Commit(g) \/ Poll(g) \/ Shutdown(g)
               \/ Sleep(g) \/ WakeForAPacket(g) \/ WakeForTheEnd(g)
        PROVE  OwnService'
    BY <1>3, NodeGoes DEF sketch, Quiet, OwnService
  <1> QED
    BY <1>1, <1>2, <1>3 DEF Next

LEMMA NextQuiet == OneAtATime /\ Quiet /\ [Next]_vars => Quiet'
  BY NextOneBegin, NextAnswers, NextHeld, NextTyped, NextStore, NextOwn DEF Quiet, Held

LEMMA InitChain == Init => Chain
  <1> SUFFICES ASSUME Init PROVE Chain
    OBVIOUS
  <1>1. /\ mesh = NoNode /\ pc \in [Threads -> {"idle", "away"}]
        /\ readvertise = [g \in Nodes |-> None]
    BY DEF Init
  <1>2. PollLink
    BY <1>1 DEF PollLink
  <1>3. BeginLink
    BY <1>1 DEF BeginLink, Carries, AfterTake
  <1>4. ServiceLink
    BY <1>1, SketchAssumption DEF ServiceLink
  <1>5. BoardLink
    BY <1>1 DEF BoardLink
  <1> QED
    BY <1>2, <1>3, <1>4, <1>5 DEF Chain

\* What the links are made of, besides the places and hands of the threads.
links == <<advert, refused, ready, adoptedSeen, readvertise>>

\* A thread that does not take the step carries what it carried.
LEMMA Others ==
  ASSUME Chain, NEW u \in Threads,
         pc'[u] = pc[u], hand'[u] = hand[u], txt'[u] = txt[u], UNCHANGED links
  PROVE  Carries(u)'
  <1>1. Carries(u)
    BY DEF Chain, BeginLink
  <1>2. UNCHANGED <<advert, refused, ready, adoptedSeen, readvertise>>
    BY DEF links
  <1> QED
    BY <1>1, <1>2 DEF Carries, Newest

\* A call that works on no link.
LEMMA WithoutALink ==
  ASSUME Quiet, Chain, NEW t \in Threads, pc[t] # "service",
         NEW w \in {"idle", "take", "prepare", "close", "stop", "join"}, Goto(t, w),
         txt' = txt, hand' = hand \/ \E h : hand' = [hand EXCEPT ![t] = h],
         UNCHANGED links, node' = node, mesh' \in {mesh, NoNode}
  PROVE  Chain'
  <1>1. /\ pc'[t] = w /\ \A u \in Threads \ {t} : pc'[u] = pc[u] /\ hand'[u] = hand[u]
        /\ w # "service" /\ w \notin AfterTake \ {"prepare"}
    BY DEF Goto, Quiet, OneBegin, Held, AfterTake
  <1>2. PollLink'
    BY DEF Chain, PollLink, links
  <1>3. BeginLink'
    <2>1. ASSUME NEW u \in Threads \ {t} PROVE Carries(u)'
      <3>1. pc'[u] = pc[u] /\ hand'[u] = hand[u] /\ txt'[u] = txt[u]
        BY <1>1
      <3> QED
        BY <3>1, Others
    <2>2. Carries(t)'
      BY <1>1 DEF Carries, AfterTake
    <2> QED
      BY <2>1, <2>2 DEF BeginLink
  <1>4. ServiceLink'
    BY <1>1, SketchAssumption DEF Chain, ServiceLink, Newest, links
  <1>5. BoardLink'
    BY <1>1, SketchAssumption DEF Chain, BoardLink, links
  <1> QED
    BY <1>2, <1>3, <1>4, <1>5 DEF Chain

LEMMA SpawnChain ==
  ASSUME Quiet, Chain, NEW t \in Threads, Spawn(t)
  PROVE  Chain'
  <1> DEFINE g == made + 1
  <1>1. /\ pc[t] = "prepare" /\ Goto(t, "wait") /\ hand' = [hand EXCEPT ![t] = g]
        /\ node' = [node EXCEPT ![g] = "starting"]
        /\ UNCHANGED <<advert, refused, ready, adoptedSeen, readvertise, txt, mesh>>
    BY DEF Spawn, board
  <1>2. g \in Nodes /\ node[g] = None /\ ready[g] = None
    BY BoundsAssumption DEF Quiet, AnswersAreMeant, Spawn, Nodes
  <1>3. /\ pc'[t] = "wait" /\ hand'[t] = g
        /\ \A u \in Threads \ {t} : pc'[u] = pc[u] /\ hand'[u] = hand[u]
    BY <1>1 DEF Goto, Quiet, OneBegin, Held
  <1>4. PollLink'
    BY <1>1, <1>2 DEF Chain, PollLink, Quiet, AnswersAreMeant
  <1>5. BeginLink'
    <2>1. ready'[hand'[t]] \notin Pins
      BY <1>1, <1>2, <1>3 DEF Pins, None
    <2>2. Carries(t)'
      BY <1>2, <1>3, <2>1 DEF Carries
    <2>3. ASSUME NEW u \in Threads \ {t} PROVE Carries(u)'
      <3>1. pc'[u] = pc[u] /\ hand'[u] = hand[u] /\ txt'[u] = txt[u] /\ UNCHANGED links
        BY <1>1, <1>3 DEF links
      <3> QED
        BY <3>1, Others
    <2> QED
      BY <2>2, <2>3 DEF BeginLink
  <1>6. ServiceLink'
    BY <1>1, <1>3, SketchAssumption DEF Chain, ServiceLink, Newest
  <1>7. BoardLink'
    BY <1>1, <1>3, SketchAssumption DEF Chain, BoardLink
  <1> QED
    BY <1>4, <1>5, <1>6, <1>7 DEF Chain

\* A begin that goes on with what the node answered.  It is the only one.
LEMMA BeginChain ==
  ASSUME Quiet, Chain, NEW t \in Threads, Receive(t) \/ Advertise(t) \/ Validate(t)
  PROVE  Chain'
  <1> DEFINE g == hand[t]
  <1>1. /\ g \in Nodes /\ mesh = NoNode /\ pc[t] \in AfterTake \ {"prepare", "publish"}
        /\ \A u \in Threads \ {t} : pc[u] \notin AfterTake
        /\ \A u \in Threads : pc[u] # "service"
    BY DEF Receive, Advertise, Validate, Quiet, OneBegin, AnswersAreMeant, OwnService, AfterTake
  <1>2. UNCHANGED <<hand, node, ready, adoptedSeen, readvertise, mesh>>
    BY DEF Receive, Advertise, Validate, thread
  <1>3. PICK w \in {"idle", "advertise", "validate", "publish"} : Goto(t, w)
    BY DEF Receive, Advertise, Validate, Answer
  <1>4. pc'[t] = w /\ \A u \in Threads \ {t} : pc'[u] = pc[u]
    BY <1>3 DEF Goto, Quiet, OneBegin
  <1>5. PollLink' /\ ServiceLink' /\ BoardLink'
    <2>1. PollLink'
      BY <1>2 DEF Chain, PollLink
    <2>2. ServiceLink'
      BY <1>1, <1>3, <1>4, SketchAssumption DEF ServiceLink
    <2>3. BoardLink'
      BY <1>1, <1>2 DEF BoardLink
    <2> QED
      BY <2>1, <2>2, <2>3
  <1>6. ready[g] \in Pins => Newest(g, ready[g])'
    BY <1>1, <1>2 DEF Chain, BeginLink, Carries, Newest
  <1>7. w # "idle" =>
          /\ ready[g] \in Pins /\ txt'[t] = ready[g]
          /\ w \in {"validate", "publish"} =>
               refused'[g] \/ advert' = [node |-> g, pin |-> txt'[t]]
    <2>1. CASE Receive(t)
      <3>1. w # "idle" => ready[g] \notin {None, "failed"} /\ txt' = [txt EXCEPT ![t] = ready[g]]
                          /\ w = "advertise"
        BY <1>3, <1>4, <2>1 DEF Receive, Answer, Goto, Quiet, OneBegin
      <3>2. ready[g] \in Pins \cup {None, "failed"} /\ txt \in [Threads -> Pins \cup {None}]
        BY <1>1 DEF Quiet, Typed, NodeTyped, SketchTyped
      <3> QED
        BY <3>1, <3>2
    <2>2. CASE Advertise(t)
      <3>1. /\ txt' = txt
            /\ \/ advert' = [node |-> g, pin |-> txt[t]]
               \/ refused' = [refused EXCEPT ![g] = TRUE]
        BY <2>2 DEF Advertise
      <3>2. refused \in [Nodes -> BOOLEAN]
        BY DEF Quiet, Typed, ReadersTyped
      <3>3. ready[g] \in Pins /\ txt[t] = ready[g]
        BY <2>2 DEF Advertise, Chain, BeginLink, Carries, AfterTake
      <3> QED
        BY <1>1, <3>1, <3>2, <3>3
    <2>3. CASE Validate(t)
      <3>1. pc[t] = "validate" /\ UNCHANGED <<txt, advert, refused>>
        BY <2>3 DEF Validate
      <3> QED
        BY <3>1 DEF Chain, BeginLink, Carries, AfterTake
    <2> QED
      BY <2>1, <2>2, <2>3
  <1>8. BeginLink'
    <2>1. \A u \in Threads \ {t} : pc'[u] \notin AfterTake
      BY <1>1, <1>4
    <2> QED
      BY <1>1, <1>2, <1>4, <1>6, <1>7, <2>1 DEF BeginLink, Carries, AfterTake
  <1> QED
    BY <1>5, <1>8 DEF Chain

LEMMA PublishChain ==
  ASSUME Quiet, Chain, NEW t \in Threads, Publish(t)
  PROVE  Chain'
  <1> DEFINE g == hand[t]
  <1>1. /\ pc[t] = "publish" /\ mesh' = g /\ Goto(t, "idle")
        /\ UNCHANGED <<hand, txt, advert, refused, node, ready, adoptedSeen, readvertise>>
    BY DEF Publish, Answer, board
  <1>2. /\ \A u \in Threads \ {t} : pc[u] \notin AfterTake
        /\ \A u \in Threads : pc[u] # "service"
    BY <1>1 DEF Quiet, OneBegin, OwnService, AfterTake
  <1>3. pc'[t] = "idle" /\ \A u \in Threads \ {t} : pc'[u] = pc[u]
    BY <1>1 DEF Goto, Quiet, OneBegin
  <1>4. PollLink'
    BY <1>1 DEF Chain, PollLink
  <1>5. BeginLink'
    BY <1>2, <1>3 DEF BeginLink, Carries, AfterTake
  <1>6. ServiceLink'
    BY <1>2, <1>3, SketchAssumption DEF ServiceLink
  <1>7. BoardLink'
    <2>1. /\ ready[g] \in Pins /\ txt[t] = ready[g]
          /\ refused[g] \/ advert = [node |-> g, pin |-> txt[t]]
          /\ readvertise[g] = None => adoptedSeen[g] = ready[g]
      BY <1>1 DEF Chain, BeginLink, Carries, Newest, AfterTake
    <2> QED
      BY <1>1, <2>1 DEF BoardLink
  <1> QED
    BY <1>4, <1>5, <1>6, <1>7 DEF Chain

\* service takes the record in one step and publishes it in another.
LEMMA ServiceChain ==
  ASSUME Quiet, Chain, NEW t \in Threads, ServiceTake(t) \/ ServicePublish(t)
  PROVE  Chain'
  <1>0. t = Sketch
    BY DEF ServiceTake, ServicePublish, Quiet, OwnService
  <1>1. CASE ServiceTake(t)
    <2>1. /\ mesh # NoNode /\ readvertise[mesh] # None /\ hand' = [hand EXCEPT ![t] = mesh]
          /\ txt' = [txt EXCEPT ![t] = readvertise[mesh]]
          /\ readvertise' = [readvertise EXCEPT ![mesh] = None] /\ Goto(t, "service")
          /\ UNCHANGED <<mesh, advert, refused, node, ready, adoptedSeen>>
      BY <1>1 DEF ServiceTake, board
    <2>2. mesh \in Nodes /\ \A u \in Threads : pc[u] \notin AfterTake
      BY <2>1 DEF Quiet, Held, OneBegin
    <2>3. /\ pc'[t] = "service" /\ \A u \in Threads \ {t} : pc'[u] = pc[u]
          /\ hand'[t] = mesh
      BY <2>1 DEF Goto, Quiet, OneBegin, Held
    <2>4. txt'[t] = readvertise[mesh] /\ readvertise[mesh] = adoptedSeen[mesh]
      BY <2>1, <2>2 DEF Quiet, Typed, SketchTyped, Chain, PollLink
    <2>5. /\ readvertise'[mesh] = None
          /\ \A k \in Nodes \ {mesh} : readvertise'[k] = readvertise[k]
      BY <2>1, <2>2 DEF Quiet, Typed, NodeTyped
    <2>6. PollLink'
      BY <2>1, <2>5 DEF Chain, PollLink
    <2>7. BeginLink'
      BY <2>2, <2>3 DEF BeginLink, Carries, AfterTake
    <2>8. ServiceLink'
      BY <1>0, <2>1, <2>3, <2>4 DEF ServiceLink, Newest, Chain, BoardLink
    <2>9. BoardLink'
      BY <1>0, <2>1, <2>3 DEF Chain, BoardLink
    <2> QED
      BY <2>6, <2>7, <2>8, <2>9 DEF Chain
  <1>2. CASE ServicePublish(t)
    <2> DEFINE g == hand[t]
    <2>1. /\ pc[t] = "service" /\ Goto(t, "idle")
          /\ \/ advert' = [node |-> g, pin |-> txt[t]] /\ refused' = refused
             \/ refused' = [refused EXCEPT ![g] = TRUE]
          /\ UNCHANGED <<mesh, hand, txt, node, ready, adoptedSeen, readvertise>>
      BY <1>2 DEF ServicePublish, thread
    <2>2. /\ mesh \in {NoNode, g} /\ g \in Nodes
          /\ \A u \in Threads : pc[u] \notin AfterTake
      BY <1>0, <2>1 DEF Quiet, OwnService
    <2>3. pc'[t] = "idle" /\ \A u \in Threads \ {t} : pc'[u] = pc[u]
      BY <2>1 DEF Goto, Quiet, OneBegin
    <2>4. PollLink'
      BY <2>1 DEF Chain, PollLink
    <2>5. BeginLink'
      BY <2>2, <2>3 DEF BeginLink, Carries, AfterTake
    <2>6. ServiceLink'
      BY <1>0, <2>3 DEF ServiceLink
    <2>7. BoardLink'
      <3>1. ready[g] \in Pins /\ (readvertise[g] = None => adoptedSeen[g] = txt[t])
        BY <1>0, <2>1 DEF Chain, ServiceLink, Newest
      <3>2. refused \in [Nodes -> BOOLEAN]
        BY DEF Quiet, Typed, ReadersTyped
      <3>3. refused'[g] \/ advert' = [node |-> g, pin |-> txt[t]]
        BY <2>1, <2>2, <3>2
      <3> QED
        BY <2>1, <2>2, <3>1, <3>3 DEF BoardLink
    <2> QED
      BY <2>4, <2>5, <2>6, <2>7 DEF Chain
  <1> QED
    BY <1>1, <1>2

\* The node leaves the threads where they are, and what it said stays said.
LEMMA NodeChain ==
  ASSUME Quiet, Chain, NEW g \in Nodes,
         \/ Start(g) \/ Flip(g) \/ Commit(g) \/ Poll(g) \/ Shutdown(g)
         \/ Sleep(g) \/ WakeForAPacket(g) \/ WakeForTheEnd(g)
  PROVE  Chain'
  <1>1. UNCHANGED <<advert, mesh, pc, hand, txt, refused>>
    BY NodeGoes DEF board, sketch
  <1>2. ASSUME PollLink',
               \A k \in Nodes : ready[k] \in Pins =>
                 /\ ready'[k] = ready[k]
                 /\ readvertise'[k] = None => readvertise[k] = None /\ adoptedSeen'[k] = adoptedSeen[k],
               \A k \in Nodes : ready[k] \notin Pins /\ ready'[k] \in Pins =>
                 readvertise'[k] = None /\ adoptedSeen'[k] = ready'[k]
        PROVE  Chain'
    <2>1. BeginLink'
      BY <1>1, <1>2 DEF Chain, BeginLink, Carries, Newest
    <2>2. ServiceLink'
      <3>1. pc[Sketch] = "service" => hand[Sketch] \in Nodes
        BY DEF Quiet, OwnService
      <3> QED
        BY <1>1, <1>2, <3>1 DEF Chain, ServiceLink, Newest
    <2>3. BoardLink'
      <3>1. mesh # NoNode => mesh \in Nodes
        BY DEF Quiet, Held
      <3> QED
        BY <1>1, <1>2, <3>1 DEF Chain, BoardLink
    <2> QED
      BY <1>2, <2>1, <2>2, <2>3 DEF Chain
  <1>3. CASE Start(g)
    <2>1. node[g] = "starting" /\ ready[g] = None /\ readvertise[g] = None /\ readvertise' = readvertise
      BY <1>3 DEF Start, Bind, BindFails, Chain, PollLink, Quiet, AnswersAreMeant
    <2>2. PICK s \in {"up", "gone"} : node' = [node EXCEPT ![g] = s]
      BY <1>3 DEF Start, Bind, BindFails
    <2>3. /\ node'[g] = s /\ \A k \in Nodes \ {g} : node'[k] = node[k]
          /\ None \notin {"up", "gone"} /\ None \notin Pins /\ "failed" \notin Pins
      BY <2>2 DEF Quiet, Typed, NodeTyped, None, Pins
    <2>4. /\ \A k \in Nodes \ {g} : ready'[k] = ready[k] /\ adoptedSeen'[k] = adoptedSeen[k]
          /\ ready'[g] = "failed" \/ ready'[g] = adoptedSeen'[g]
      BY <1>3 DEF Start, Bind, BindFails, Quiet, Typed, NodeTyped
    <2>5. PollLink'
      BY <2>1, <2>3, <2>4 DEF Chain, PollLink
    <2> QED
      BY <1>2, <2>1, <2>3, <2>4, <2>5
  <1>4. CASE Poll(g)
    <2>1. /\ node[g] = "up" /\ ready' = ready
          /\ readvertise' = [readvertise EXCEPT ![g] = Pending(g)]
          /\ adoptedSeen' = [adoptedSeen EXCEPT ![g] = pin[g]]
      BY <1>4 DEF Poll
    <2>2. PICK s \in {"up", "stopping"} : node' = [node EXCEPT ![g] = s]
      BY <1>4 DEF Poll
    <2>3. /\ node'[g] = s /\ \A k \in Nodes \ {g} : node'[k] = node[k]
          /\ s \notin {None, "starting"} /\ None \notin Pins
      BY <2>2 DEF Quiet, Typed, NodeTyped, None, Pins
    <2>4. /\ readvertise'[g] = Pending(g) /\ adoptedSeen'[g] = pin[g] /\ pin[g] \in Pins
          /\ \A k \in Nodes \ {g} :
               readvertise'[k] = readvertise[k] /\ adoptedSeen'[k] = adoptedSeen[k]
      BY <2>1 DEF Quiet, Typed, NodeTyped
    <2>5. \/ readvertise'[g] = adoptedSeen'[g] /\ readvertise'[g] # None
          \/ readvertise'[g] = readvertise[g] /\ adoptedSeen'[g] = adoptedSeen[g]
      BY <2>3, <2>4 DEF Pending
    <2>6. PollLink'
      BY <2>3, <2>4, <2>5 DEF Chain, PollLink
    <2> QED
      BY <1>2, <2>1, <2>4, <2>5, <2>6
  <1>5. CASE \/ Flip(g) \/ Commit(g) \/ Shutdown(g)
             \/ Sleep(g) \/ WakeForAPacket(g) \/ WakeForTheEnd(g)
    <2>1. UNCHANGED <<ready, adoptedSeen, readvertise>>
      BY <1>5 DEF Flip, Commit, Shutdown, Sleep, WakeForAPacket, WakeForTheEnd, thread
    <2>2. node' = node \/ node' = [node EXCEPT ![g] = "gone"]
      BY <1>5 DEF Flip, Commit, Shutdown, Sleep, WakeForAPacket, WakeForTheEnd, thread
    <2>3. \A k \in Nodes : node'[k] \in {node[k], "gone"}
      BY <2>2 DEF Quiet, Typed, NodeTyped
    <2>4. PollLink'
      BY <2>1, <2>3 DEF Chain, PollLink, None
    <2>5. \A k \in Nodes : ready'[k] = ready[k]
      BY <2>1
    <2> QED
      BY <1>2, <2>1, <2>4, <2>5
  <1> QED
    BY <1>3, <1>4, <1>5

LEMMA NextChain == Quiet /\ Chain /\ [Next]_vars => Chain'
  <1> SUFFICES ASSUME Quiet, Chain, [Next]_vars PROVE Chain'
    OBVIOUS
  <1>1. ASSUME NEW t \in Threads,
               \/ Begin(t) \/ TakeStore(t) \/ SpawnFails(t) \/ GiveUp(t) \/ End(t)
               \/ CloseChannels(t) \/ SendStop(t) \/ Join(t)
        PROVE  Chain'
    <2>1. PICK w \in {"idle", "take", "prepare", "close", "stop", "join"} : Goto(t, w)
      BY <1>1 DEF Begin, TakeStore, SpawnFails, GiveUp, End, CloseChannels, SendStop, Join, Answer
    <2>3. pc[t] # "service"
      BY <1>1 DEF Begin, TakeStore, SpawnFails, GiveUp, End, CloseChannels, SendStop, Join
    <2>4. /\ txt' = txt /\ node' = node /\ mesh' \in {mesh, NoNode}
          /\ hand' = hand \/ \E h : hand' = [hand EXCEPT ![t] = h]
      BY <1>1 DEF Begin, TakeStore, SpawnFails, GiveUp, End, CloseChannels, SendStop, Join, thread
    <2>5. UNCHANGED links
      BY <1>1 DEF Begin, TakeStore, SpawnFails, GiveUp, End, CloseChannels, SendStop, Join, thread,
                  board, links
    <2> QED
      BY <2>1, <2>3, <2>4, <2>5, WithoutALink
  <1>2. CASE Install
    <2>1. /\ mesh = NoNode /\ \A t \in Threads : pc[t] \in {"idle", "away"}
          /\ UNCHANGED <<mesh, pc, node, adoptedSeen, readvertise>>
      BY <1>2 DEF Install, Outside, sketch, thread
    <2>2. PollLink'
      BY <2>1 DEF Chain, PollLink
    <2>3. BeginLink' /\ ServiceLink' /\ BoardLink'
      BY <2>1, SketchAssumption DEF BeginLink, Carries, ServiceLink, BoardLink, AfterTake
    <2> QED
      BY <2>2, <2>3 DEF Chain
  <1>3. CASE IdentityBegin \/ IdentityEnd \/ UNCHANGED vars
    <2>1. UNCHANGED <<advert, refused, ready, node, adoptedSeen, readvertise, mesh, pc, hand, txt>>
      BY <1>3 DEF IdentityBegin, IdentityEnd, vars, board, sketch, thread
    <2> QED
      BY <2>1 DEF Chain, PollLink, BeginLink, Carries, ServiceLink, BoardLink, Newest
  <1> QED
    BY <1>1, <1>2, <1>3, SpawnChain, BeginChain, PublishChain, ServiceChain, NodeChain
       DEF Next, Running

\* The board's record follows the pin of the running node through the poll,
\* begin and service, as long as nobody begins a node on another board while
\* service has the record of this one in its hand.
THEOREM RecordFollows == OneAtATime => (Spec => []RecordIsCurrent)
  <1> SUFFICES ASSUME OneAtATime PROVE Spec => []RecordIsCurrent
    OBVIOUS
  <1>1. Quiet /\ Chain /\ [Next]_vars => (Quiet /\ Chain)'
    BY NextQuiet, NextChain
  <1>2. Chain => RecordIsCurrent
    BY DEF Chain, BoardLink, RecordIsCurrent
  <1> QED
    BY <1>1, <1>2, InitQuiet, InitChain, PTL DEF Spec
=============================================================================
