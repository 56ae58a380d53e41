# TLA+ for rusty_esp_arduino

`rusty_esp_arduino` is an Arduino-shaped facade: a sketch calls free functions
(`cam::grab`, `stream::push_jpeg`, `mesh::begin`, ...), each of which locks a
static, asks the installed `Board` and answers `true`, `false` or an option.
Under that flat surface run threads: an HTTP server and its stream worker, a
mesh node on a thread of its own with one reader per subscriber, a watchdog, and
a store that outlives the boot. This directory models those parts, checks them
with TLC and proves the core of them with TLAPS.

All paths below are relative to `src/crates/rusty_esp_arduino/src/`.

## 1. Inventory

| part | state it keeps | operations | made correct by |
|---|---|---|---|
| media channels (`mesh.rs`) | one `Slot` (number, frame, closed) and condition variable per codec; three counters; per subscriber `which`, `seen`, `out_seq` | `push_media`, `push_media_pcm`, `push_telemetry`, the subscriber factory, `next_packet`, `close` | newest frame, at most once, in order; no lost wake-up; numbers that wrap; the end reaches every reader |
| life of the node (`mesh.rs`) | `MESH: Option<State>`, the ready and stop channels, `Shared.adopted_seen`, `readvertise`, `last_ota`; the node's own pin and update | `begin`, `service`, `last_ota`, `end`; the node's bind, its 100 ms poll, its shutdown | one node at a time; a node given up on goes; the board's record follows the owner pin; the image is confirmed after the endpoint is up |
| identity (`identity.rs`) | `IDENTITY: Option<State>` (did, token, key, store); two files of the board's store | `begin`, `end`, `take_store`, `with_store`, `sign_prehash` | minted once, the same on every boot; one owner of the store |
| streams (`stream.rs`) | `STATE` (server, RTP, PCM, status handler, totals); per server a `Slot`, a queue, two threads | `listen`, `listen_gated`, `rtp_to`, `pcm_to`, `push_jpeg`, `push_pcm`, `stop_senders`, `on_status` | a viewer sees frames in order and once; requests are answered beside a stream; nobody holds the queue for ever |
| status-only server (`stream.rs`) | one thread, its listener | `listen_status`, `answer_status` | one slow client does not stop the next |
| sketch (`sketch.rs`) | `BOOT`; the board's watchdog | `run`, `run_for`, `restart`, `boot_record` | a hang reboots the board; the record counts every crash |
| board seam (`board.rs`) | `BOARD` | `install`, `uninstall`, `with`, the `Board` trait | every call under one mutex |
| laptop board (`host.rs`) | cameras, microphones, queues, `store_taken`, `FileKv` | the `Board` trait | pacing, WAV loop, `jpeg_size`; the store handed out once |
| errors (`error.rs`) | `LAST` | `record`, `clear`, `ok`, `some`, `last_error` | the reason of the most recent `false` |
| provisioning (`provision.rs`) | `ACTIVE`, the board's radio | `begin`, `poll`, `report`, `store` | active until a join is reported |
| radar, camera, microphone, wifi (`radar.rs`, `cam.rs`, `mic.rs`, `wifi.rs`) | one configuration each (and `mic::blocks`) | `begin`, `read`/`grab`, `config` | `begin` before `read` |
| firmware (`src/firmware/xiao-s3-sense-idf-sketch`) | the sketch's statics | `setup`, `loop_once` | its order of calls |

How they meet. `identity::begin` takes the store from the board; `mesh::begin`
takes it from the identity and gives it to the node's thread, which answers once
over a channel with a 30 s limit. The node's thread and the sketch then share
only `Shared`: the sketch pushes into its channels and `service` takes the
record the poll left there; the board is called from the sketch's thread alone.
`end` closes the channels, sends the stop and joins the thread. `stream::listen`
leaves two threads that share a `Slot` with `push_jpeg` and a queue with one
another. `sketch::run` reads the boot record and arms the watchdog before
`setup`; `mesh::begin` tells the bootloader that an updated image is good. All
of the sketch's calls on its board pass one mutex, `BOARD`, and so do the calls
of a status handler on a server's thread.

What is hard to test: the 30 s during which `begin` holds no lock; a node that
comes up after its `begin` gave up; a pin that changes between the record, the
poll and `service`; a refusal of the board in the middle of a call that goes on;
a condition variable notified outside its mutex; a number that wraps under a
reader that is laps behind; a viewer that leaves while no frame comes; a crash
between two writes of the store; a subscriber that sleeps through the end of its
node; two threads that write one set of totals; a read that sleeps with `BOARD`
locked; a begin that is refused where another one runs. `PROJECT.json` lists
them, each at its line, under `hazards`.

## 2. Modules

| module | models | its actions in the code |
|---|---|---|
| `LatestValue` | abstract: what a latest-value channel promises a reader | none; it is refined by `LatestFrames` and by `Stream` |
| `LatestFrames` | the media channels | `Push` and `Count` are a `push_*`; `Subscribe`, `JoinAny`, `Ask` the factory; `Deliver`, `Wait`, `ReturnNone` one pass of `next_packet`; `Timeout` the second of its wait; `End`, `Close`, `CloseNotify` are `end` |
| `Mesh` | the life of the node | `Begin` ... `Publish` are `try_begin` from the check to `*MESH = Some(..)`; `ServiceTake`, `ServicePublish`; `End`, `CloseChannels`, `SendStop`, `Join`; `Bind`, `Poll`, `Shutdown` the node's thread; `Sleep`, `WakeForAPacket`, `WakeForTheEnd` a subscriber in `next_packet`; `Flip`, `Commit` what the node does on its own |
| `Stream` | servers, workers, viewers, the RTP sender | `Bind`, `Open`, `OpenFails` are `listen_inner`; `ListenStatus` is `listen_status`, of which only that it moves the pushes is looked at here; `PushToSlot` and `PushRtp`/`PushRtpFails`/`PushNoRtp` are `push_jpeg`; `Accept`, `Count` the accepting thread; `Play`, `Write`, `WriteFails`, `Stall`, `EndWorker` the worker |
| `Identity` | the store, `identity::begin`, the handover, crashes | `Begin`, `Load`, `Mint`, `Truncate`, `Write`, `Publish` are `try_begin`, once for the key and once for the token; `TakeStore`, `NodeLoads` the mesh |
| `Device` | boots: watchdog, boot record, update and rollback | `BeginRun`, `SetupReturns`, `Pass` are `run`, and `ReadRecord`, `Arm` what it asks of the board in `begin_run`: the board may answer with an error, or keep no record and have no watchdog, as the firmware's; `MeshUp`, `MeshFails` the last step of `mesh::begin`; `Watchdog`, `Reset`, `Commit` are external |
| `StatusOnly` | the status-only server and its clients | `OnStatus`, `ListenStatus` the calls; `Accept`, `Read`, `Reply` the one thread: its accept, a read of `answer_status`, the answer and the counts after it; `Tick` the time a read waits |
| `Facade` | the calls of a sketch on its board, the laptop's and the chip's board behind them | `Install`, `Uninstall`; `MediaBegin`, `MediaRefused`, `MicSpent` are `cam::begin` and `mic::begin`; `Read` and `Deliver`/`DeliverFails` one `cam::grab` or `mic::read`, before and after the sleep in `pace`; `QueueBegin`, `QueueMissing`, `Poll`, `Report`, `Store`, `RadarEnd` the radar and provisioning; `WifiBegin`, `WifiHost`; `Write` the sensor or the phone; `Ask`, `Answer` a status handler that looks at the board |
| `LatestFrames_proofs`, `Stream_proofs`, `Mesh_proofs`, `Device_proofs`, `Identity_proofs`, `StatusOnly_proofs`, `Facade_proofs` | the theorems about each of these, with their proofs | |
| `MC*` | the instances for TLC | |

Steps are critical sections: what the code does under one mutex, or one atomic
operation, is one action, and a call that releases the mutex or waits is split
there. In `Mesh` a pass of the poll is one step, because the node runs on a
current-thread runtime and its handlers run only while the poll sleeps. A frame
is its number; a TXT record is the node it names and the pin it was made from;
a key is the number of the draw of entropy it was minted from.

Some operators are not part of the model: they are what the code would be with a
plausible bug (`PushUnnotified`, `StopSent`, `CopyStore`, ...), stand directly
before the operator they vary, and serve to see each property fail.

## 3. Runs

| run | bounds | what it asks |
|---|---|---|
| `latest_frames` | 2 subscribers, 3 pushes, numbers modulo 3 | wake-ups, wrap-around, the choice of `any`, the end; refinement of `LatestValue` |
| `mesh` | 2 nodes; 2 threads, 1 board, 2 changes of the pin, or 1 thread, 2 boards, 1 subscriber that sleeps | every race of `begin`, `service` and `end` on one store; a second node beside the one a `begin` gave up on; `end` with a reader asleep |
| `mesh_refused` | 1 thread, 1 board | a refused record is never offered again (found violated) |
| `mesh_retry` | 1 thread, 1 board | what a repeated `begin` says (found violated) |
| `stream` | 2 viewers, 2 servers, 2 frames | queues, stalls, a replaced server, the totals; refinement of `LatestValue` |
| `stream_refused` | the same | what `push_jpeg` answers for two destinations (found violated) |
| `device` | timeout of 2 ticks, counters that saturate at 3; boards with and without a record and a watchdog, which may refuse | crashes, hangs and updates over any number of boots |
| `device_setup` | the same | a board installed in `setup` (found violated) |
| `identity` | 2 threads, 4 mints, 3 crashes or boards | crashes at every point of the two mints |
| `status` | 2 clients, a buffer of 3 pieces, a timeout of 2 ticks | whether a client can keep the next one waiting for ever, and how long at most |
| `facade` | 3 kinds of sketch, 2 boards, a file of 3 items in blocks of 4, 4 ticks, 4 items of which the interval is counted for up to number 2, 2 writes | pacing, the endless file, refused begins, the credentials, a handler that waits for the board |
| `facade_newest` | the same | which reading a sketch is handed (found violated) |

Why the bounds are enough. A channel that wraps at 3 and is pushed 3 times is
taken through a whole lap, which is where a comparison of wrapped numbers can go
wrong; two subscribers on one channel show that a notification is for all, on
two channels that it is not for others. Two threads are what a race needs, and
two nodes what one abandoned and one current node need; the pin changes twice so
that it can come back to where it was before `service` looks. `MCMesh` says
where the two halves of `mesh` start (`InARace`, `OnTwoBoards`): each has used
up what the other one is about, a thread that is "away" calls nothing, and
together they would be out of TLC's reach. Two viewers fill the one place of a
worker and the queue behind it, or sit on the two servers of a repeated
`listen`. The watchdog's clock only has to be able to run out; boots are not
bounded at all, the counters saturate. Four draws of entropy are a key, a token
and the two that a torn write costs. A head of up to four pieces for a buffer of
three is sent whole, in part, not at all and too long; the second client is the
one that must not be held off. A file of three samples and blocks of four wrap
at a different place in every block, and once a block is longer than the file;
two boards are one that was begun on and the one that replaced it; intervals of
one and two ticks differ; the fourth item, number 3, is the first whose number
no longer fits the factor of its interval. The peripherals of one sketch share
only `BOARD`, `LAST` and its thread, so that pairs of them are enough. Deadlock
is not checked where the program may come to an end: after `end`, after the last
board, when a board that nobody watches hangs.

Fairness. A thread that can run, runs: the sketch finishes the call it is in, a
worker and an accepting thread go on, the node's bind ends in some way and its
poll is called again and again (a runtime's timer). Time passes for the
watchdog, for a read that waits and for a read that sleeps until its item is
due: these are clocks of the board. `ServiceTake` is fair
because `service` is documented to be called in the loop. No fairness is asked
of what others do: nobody has to push, join, connect, adopt, update, begin or
end, the timeouts of `next_packet` do not have to fire (`CatchesUp` and
`EndReleasesAll` hold without them), and the board may refuse every time. In
`Stream`, `QueuedStreamsHaveTheirTurn` assumes `WF(Stall)` in the property: that
the 5 s pass when frames stop; with frames for ever a stream may last for ever,
and the next one waits for as long. In `Facade`, `HandlerIsAnswered` assumes
`SF(Answer)` in the property: that a thread which waits for a mutex that becomes
free again and again is given it at last, which is for the platform's scheduler
to keep and not for this code.

## 4. What is shown

* The channels (`latest_frames`): no wake-up is lost although `close` notifies
  after it released the mutex; freshness by inequality of wrapped numbers is
  right for a reader up to a whole lap behind; `any` finds a channel that has a
  frame though the counters are loaded one at a time; every reader catches up,
  and `end` lets all of them go, without the one-second timeout.
* The node (`mesh`): the check in `begin` is stale when the state
  is stored, and the store, of which there is one, is what keeps two threads
  apart; an abandoned node always goes, because a dropped stop channel ends the
  poll as a message does (its thread stays behind with a subscriber that came in
  the moment it was up, because nobody closes the channels of such a node); `end`
  returns though a subscriber sleeps, because it closes the channels before it
  joins; every node that runs is with `MESH`, with one `begin` or with one `end`, or
  was told to go (`OneHolder`); the board's record is the running node's and of its
  present pin whenever nothing is under way and nothing was refused.
* Streams (`stream`): each viewer gets its server's frames once and in order;
  requests are answered during a stream; a dead camera costs a queue 5 s; the
  totals, of which the accepting thread copies two and the worker adds to the
  third, add up whenever the accepting thread has written its own.
* Boots (`device`): a record that the sketch is told is this boot's and has every
  crash once, unless the board failed to count one; an image that is kept has been
  up; a board that has a watchdog, did not refuse to arm it and was installed before
  `run` recovers from every hang. A `liveness_begin` that fails is recorded and the
  boot runs unwatched, and so does every boot of a board that has no watchdog, the
  firmware's among them: nothing is claimed of those.
* Identity (`identity`): what one `begin` answered every later one answers, and
  the node presents the same key; the store never has two owners.
* The status-only server (`status`): whatever a client sends, keeps back or
  breaks off, the next one is answered, because the buffer ends the reads:
  `REQUEST_TIMEOUT` is the time of one read and starts anew with each piece, so
  that a head may hold the one thread for a timeout per piece of the buffer
  (`HeadIsBounded`), and for no longer.
* The facade (`facade`): a run never hands out an item before its time on the
  board's clock, up to the item at which the factor of its interval saturates;
  what the laptop plays is the file over and over, however block and file
  divide; a refused `begin` leaves what ran and what `config()` says of it;
  credentials arrive once, in order, and outlive a board that did not take them;
  a status handler gets its turn at a board that sleeps.

Two things the model of `pace` makes plain, neither of which contradicts a comment.
It counts from the start of the board and not of the run: a camera that was begun
after ten seconds, or a loop that stood still for ten, is followed by ten seconds'
worth of items without a pause, because all of them are due (`PacedFromTheStart`
is an upper bound and the only one there is). And it converts the number of the
item to a `u32` that saturates: behind item 2^32 (less than three years of
audio blocks) every item is due with that one, and nothing paces the run any
more. `Factor` has this conversion, with a limit that a run reaches.

`NoStateIsReplaced` rests on how a sketch uses the facade: `identity::begin` is
not called for a fresh board while another thread is inside `mesh::begin`, and
`service` runs on one thread. The code does not enforce it; `Mesh` says so in
the guards of `IdentityBegin`, `Install` and `ServiceTake`. `RecordIsCurrent`
needs the other half of that rule, "one thread owns the board": `service` takes
the record under `MESH` and offers it after it let go, so a thread that ends the
node and begins another on a second board's store, all in between, finds the
ended node's record in place of its own. The property holds for any threads on
one store, which `mesh` checks for two, and for one thread on any stores
(`RecordFollows` proves both); with two threads on two stores it does not.

Disagreements between the code and what it says (`findings` quotes the lines):

1. `mesh_refused`: a record that the board refuses in `service` is lost, and
   the advertisement keeps the older pin until the pin changes again.
2. `mesh_retry`: a `begin` that failed has dropped the store, and the next one
   answers `NotBegun("identity")` of an identity that is begun.
3. `stream_refused`: `push_jpeg` is `false`, and not counted, when the HTTP
   server took the frame and the RTP sender failed.
4. `device_setup`: a board installed "first thing in `setup`" comes too late for
   `run`, which arms the watchdog before `setup` and only with a board: whatever
   watchdog it has, no hang of that boot ends.
5. `facade_newest`: `radar::read` hands out the readings one by one, the oldest
   first, where its comment and the trait's say "the newest reading since the last
   call".

## 5. Proofs

Each theorem holds for every value of the constants; the assumptions are the
named ones of the modules and nothing else. Each proof has the same plan: an
invariant that is inductive, a lemma that `Init` has it, one that each action
keeps it, and the property from it.

`LatestFrames_proofs` (`ModulusAssumption`, `MaxPushesAssumption`):

* `TypeCorrect`: `Spec => []TypeOK`;
* `WakeupsAreKept`: `Spec => []NoLostWakeup`;
* `BehindIsAlwaysSeen`: `Spec => []BehindIsSeen`;
* `PromiseKept`: `Spec => KeepsThePromise`, the refinement of `LatestValue`;
* `AnyIsAMaker`: `Spec => []AnyFindsAMaker`.

Of these only the types are inductive as they stand. The argument goes through `Inv ==
TypeOK /\ NumbersAgree /\ NoLostWakeup`: `NumbersAgree` says that the slot's
number and a reader's copy are the frames pushed and the last frame handed out,
both modulo the modulus, that the slot's frame is the last one pushed, and that a
reader is never ahead of its channel. `InitInv` and `NextInv` (one step per
action) prove it; `IncWraps`, `ModUnique` and `LessThanALap` are the arithmetic:
two counts less than a lap apart and equal modulo the lap are the same count.
`BehindIsAlwaysSeen` is that lemma applied to the invariant; `PromiseKept` maps
each step, under `Inv`, to a step of `LatestValue` or a stutter. `AnyIsAMaker`
rests on `AnyInv`: as long as no counter has wrapped, a counter is one behind its
channel at most, and only while a push is under way, so one of the channels that a
subscriber has still to ask has been counted.

`Stream_proofs` (`BoundsAssumption`, `ViewersAssumption`):

* `TypeCorrect`: `Spec => []TypeOK`;
* `OpenServersWork`: `Spec => []OnlyOpenServersWork`, which every step keeps as it
  stands, given the types;
* `TotalsAgree`: `Spec => []TotalsAddUp`. `Sums` is the same sum over what the
  accepting thread has counted, written or not: it holds at every step, and the
  property is what is left of it once the count is written;
* `PromiseKept`: `Spec => KeepsThePromise`, the refinement of `LatestValue`. `Turns`
  says that a viewer is in one place (once in one queue, or with one worker) and at
  that server, and what its source has gone past; `SlotsFollow` that a source is
  never ahead of its slot. Under both, a write is a `Take` of the abstract reader.

`Mesh_proofs` (`BoundsAssumption`, `SketchAssumption`):

* `TypeCorrect`: `Spec => []TypeOK`.
* `StatesAreNotReplaced`: `Spec => []NoStateIsReplaced`. The strengthening is
  `OneBegin`: a begin that has the store is the only one, and as long as it has
  it there is neither a `State` nor another store; one that has passed the check
  and not yet taken the store finds none, if a `State` was stored meanwhile. It
  is why the stale check does no harm.
* `NodesAreHeldOnce`: `Spec => []OneHolder`. It is the safe half of
  `AbandonedNodeStops` and of `CallsReturn`: that a node goes, and an end comes back,
  needs fairness; that no node is left without somebody to tell it, and that no end
  waits for a node nobody told, does not, and holds for any number of threads on any
  number of boards at once, which no run combines. `HolderOf` is the strengthening:
  it says for each holder how far its end has come (`Told`), that nobody knows a
  node which is still to be spawned, and that one that answered a failure is gone,
  so that its `begin` may let go of it. `OneBegin` is needed where the State is
  stored: a State that was replaced there would take its stop channel with it.
* `ConfirmedImagesCameUp`: `Spec => []ValidMeansUp`. `AnswersAreMeant` ties the
  place of a thread to the node it waits for: past the wait, that node has
  answered with a pin, and no later step takes the answer away.
* `RecordFollows`: `OneAtATime => (Spec => []RecordIsCurrent)`. `OneAtATime` is one
  thread that uses the mesh, on any number of boards, or any number of threads on
  one board; `mesh` is an instance of the second. It cannot be dropped:
  two threads on two boards reach a state in which service, which holds its record
  without a lock, offers it over the record of a newer node. Under it, `OwnService`
  says that no other node comes up while service has a record in its hand (on one
  board since the store is given once, `StoreOfOneBoard`). `Chain` follows the pin
  from link to link: what waits in `readvertise` is what the poll saw last
  (`PollLink`); what `begin` and `service` have in their hand is, unless more
  waits, what was seen last (`BeginLink`, `ServiceLink`); and so is what is on the
  board, once no hand is on it (`BoardLink`).

`Device_proofs` (`BoundsAssumption`): `TypeCorrect`, `RecordIsTrue` for
`RecordTellsTheCrashes`, `KeptIsProven` for `KeptImageCameUp`, for boards with
and without a record and a watchdog, whatever they answer. `CountFollows` is the
strengthening of the second: between the reset and `run`, a board that keeps a
record and never failed to count has every crash but the last one, whose reason
is still to be asked for; from `run` on, with a board there, the two agree,
saturated or not. A board that failed has no more than there were.
`KeptImageCameUp` is kept by every step as it stands.

`Identity_proofs` (`BoundsAssumption`): `TypeCorrect`, `OneIdentity` for `MintedOnce`,
`NodeHasTheKey` for `NodeIsTheDevice`, `StoreIsOwned` for `StoreHasOneOwner`.
`OneOwner` says where the store is, `FirstIsKept` that what was answered first is
whole in both files and is all that memory has, `LoadsAreWhole` that a thread
has behind it only what it has read from or written to the files: nobody is
answered before both files are whole, and nothing writes a file that is.

`StatusOnly_proofs` (`BoundsAssumption`): `TypeCorrect`, and `HeadsAreBounded`
for `HeadIsBounded`. `Inv` counts: the thread was held for at most a timeout per
piece that was read and the time of the wait that goes on, and a full buffer
waits for nothing.

`Facade_proofs` (`SettingsAssumption`, `NoneAssumption`, `FileAssumption`,
`FactorAssumption`, `BoundsAssumption`):

* `TypeCorrect`: `Spec => []TypeOK`. `Types` adds `Reading` to it: a read that
  sleeps may still count its item, which is what keeps the count in its range when
  the read wakes up.
* `QueuesAreKept` for `CredentialsAreKept`, from `QueuesInv`, that what was handed
  out and what waits are together what was written.
* `RunsArePaced` for `PacedFromTheStart` and `SketchIsToldTheTruth` for `SaidIsSo`,
  both from one `Inv`, in which `BoardInv` has the runs of the boards and
  `StaticsInv` the statics beside them: a read that sleeps has a run that its board
  still has, which no call can change while it holds `BOARD`. The bound speaks of
  the items up to the limit of the factor, whatever that is (`LeastGrows`).
* `FileIsEndless` for `PlaysEndlessly`, for every length of the file and of the
  block. The loop over the file is the recursive function `Fill`, and what it lays
  out is proved in two steps. `FillEquation`: `Fill` satisfies its own equation,
  because some function does; the closed form `Laid`, the file over and over from
  a place on, is one (`LaidFills`, which is arithmetic modulo the length of the
  file and a splice of two sequences, `OnePiece`). `FillIsLaid`: there is no other.
  A least number of samples for which `Fill` and `Laid` differ does not exist, for
  one turn of the loop leaves fewer (`LeastOne`, the well-foundedness of the naturals,
  stands for the induction theorem, which takes a predicate as its parameter).
  `PlayInv` is the invariant on top: the place in the file is the number of items
  times their size, modulo the file.

Model-checked only: the liveness properties (fairness and `ENABLED` are beyond
the prover). Every invariant that a passing run checks is a theorem, and so are
the two refinements.

## 6. Not modelled

The node itself (`rusty_esp_iroh`), the HTTP parser, RTP, the key and DID
functions and the chip are external and appear by what this code asks of them.
Left out of the models, each of them without a state that something else looks
at: the test pattern and the sine of the laptop, `jpeg_size` and `mdns_hostname`
(text and bytes in, a value out), the PCM sender of `stream`, the page token,
`mic::blocks`, the counters of `mesh::Stats` and `Config`'s accessors. Unpaced
laptop boards are for tests. `Facade` has one sketch thread; `cam::begin` on two
threads at once, which would write `CONFIG` in another order than the board ran
them, is not how a sketch is written and is left out. Three hazards stay in
prose: `identity::with_store` runs the sketch's closure under the `IDENTITY`
mutex, so a closure that calls back into `identity` or begins the mesh waits for
itself; `last_error` is one static for all threads, and `identity::begin` and
`mesh::begin` record into it without ever clearing it; and how long `setup` takes
against the 30 s of the watchdog (it has no feed before the end of the first
pass, and `mesh::begin` alone may wait 30 s) is a matter of real time.

## 7. Plan

Done, in this order: `LatestValue` and `LatestFrames` with their proofs; `Mesh`;
`Stream`; `Device`; `Identity`; `StatusOnly`; `Facade`; the subscribers of a node
in `Mesh` and the totals in `Stream`. The models have what the code has of
state, order and failure. Every invariant that a passing run checks is proved.
