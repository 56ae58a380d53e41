------------------------------- MODULE Facade -------------------------------
(***************************************************************************)
(* The calls a sketch makes on its board (cam.rs, mic.rs, radar.rs,        *)
(* provision.rs, wifi.rs, error.rs) and the two boards behind them: the    *)
(* laptop's (host.rs) and the chip's (the firmware's main.rs).             *)
(*                                                                         *)
(* A sketch runs on one thread.  Beside it are the handler it left with    *)
(* stream::on_status, which runs on a server's thread and asks for         *)
(* millis() or wifi::local_ip() under the same BOARD mutex, and the sensor *)
(* and the phone, which fill READINGS and INJECTED.  A call of the sketch  *)
(* is one step, but for the reads that sleep with BOARD locked.            *)
(*                                                                         *)
(* A picture or a sample is its place in the file the board plays; a       *)
(* configuration, a baud rate or a name is a number, for camera and        *)
(* microphone the interval between two items.  Unpaced boards, which only  *)
(* tests use, are left out.                                                *)
(***************************************************************************)
EXTENDS Integers, Sequences, FiniteSets

CONSTANTS None,
          Kinds,       \* of "laptop" and "chip"
          Sketches,    \* each a set of the peripherals that a sketch uses
          Settings,    \* what a begin may ask for
          FileLen,     \* items in the file that the laptop plays
          BlockLen,    \* samples in one block
          MaxFactor,   \* the last item that an interval is counted for (u32::MAX)
          MaxBoards, MaxTime, MaxItems, MaxWritten   \* bounds of the model

ASSUME SettingsAssumption == Settings \subseteq Nat \ {0}
ASSUME NoneAssumption == None \notin Settings /\ None \notin {"camera", "microphone"}
ASSUME FileAssumption == {FileLen, BlockLen} \subseteq Nat \ {0}
ASSUME FactorAssumption == MaxFactor \in Nat
ASSUME BoundsAssumption == {MaxBoards, MaxTime, MaxItems, MaxWritten} \subseteq Nat

Media == {"camera", "microphone"}
Queues == {"radar", "provisioning"}
Peripherals == Media \cup Queues

VARIABLES
  platform,   \* what the program was built for
  uses,       \* the peripherals of this sketch
  installed,  \* BOARD is Some, and which board it is: 0 is none
  boards,     \* the boards that were installed so far
  board,      \* its state
  now,        \* the board's clock
  asleep,     \* the read that sleeps with BOARD locked, or None
  config,     \* the CONFIG of cam, mic and radar, the ACTIVE of provision
  begunOn,    \* history: the board of the begin that set it
  last,       \* LAST
  queue,      \* READINGS and INJECTED
  written,    \* history: the readings and credentials that were written
  taken,      \* history: those that the sketch was handed
  asking      \* the handler waits for BOARD

program == <<platform, uses>>
statics == <<config, begunOn>>
outside == <<queue, written, taken>>
vars == <<program, installed, boards, board, now, asleep, statics, last, outside, asking>>

\* CamRun, MicRun, Cam, Mic; out is the last item that was handed out.  An
\* interval of 0 is no run: the peripheral was not begun.
NewRun(s) == [interval |-> s, seq |-> 0, pos |-> 0, out |-> <<>>]

NoRun == NewRun(0)

\* A board as it is made: HostBoard::new, EspBoard::take.
NewBoard ==
  [camera |-> NoRun, microphone |-> NoRun, radar |-> None,
   provisioning |-> None, joined |-> FALSE, net |-> TRUE, pdm |-> TRUE]

Init ==
  /\ platform \in Kinds /\ uses \in Sketches
  /\ installed = 0 /\ boards = 0 /\ board = None /\ now = 0 /\ asleep = None
  /\ config = [p \in Peripherals |-> None] /\ begunOn = [p \in Peripherals |-> 0]
  /\ last = None
  /\ queue = [q \in Queues |-> <<>>] /\ written = [q \in Queues |-> 0]
  /\ taken = [q \in Queues |-> <<>>]
  /\ asking = FALSE

-----------------------------------------------------------------------------
(* board::install, board::with and the folding of results.                 *)

\* The sketch is between two calls: no read sleeps.
Between == asleep = None
OnA(k) == installed # 0 /\ platform = k
Begun(p) == board[p].interval # 0

\* A chip's peripherals are taken once in a boot.
Install ==
  /\ Between /\ boards < MaxBoards /\ (platform = "chip" => boards = 0)
  /\ boards' = boards + 1 /\ installed' = boards' /\ board' = NewBoard /\ now' = 0
  /\ UNCHANGED <<program, asleep, statics, last, outside, asking>>

\* The mutex is not held while a read sleeps.
UninstallMeanwhile ==
  /\ installed # 0
  /\ installed' = 0 /\ board' = None /\ now' = 0
  /\ UNCHANGED <<program, boards, asleep, statics, last, outside, asking>>

Uninstall ==
  /\ Between /\ installed # 0
  /\ installed' = 0 /\ board' = None /\ now' = 0
  /\ UNCHANGED <<program, boards, asleep, statics, last, outside, asking>>

\* A call that answers false with a reason, and its board in state b.
Refuse(reason, b) ==
  /\ board' = b /\ last' = reason
  /\ UNCHANGED <<program, installed, boards, now, asleep, statics, outside, asking>>

\* A call that answers true.
Succeed(b) ==
  /\ board' = b /\ last' = None
  /\ UNCHANGED <<program, installed, boards, now, asleep, outside, asking>>

\* A begin keeps what it was given where the program can ask for it.
Keep(p, s) ==
  /\ config' = [config EXCEPT ![p] = s]
  /\ begunOn' = [begunOn EXCEPT ![p] = installed]

\* Every call without a board is Err(NoBoard).
NoBoard == Between /\ installed = 0 /\ Refuse("NoBoard", None)

-----------------------------------------------------------------------------
(* cam::begin, mic::begin, radar::begin, provision::begin, wifi::begin.    *)

\* The configuration is kept before the board has answered.
MediaRefusedKept(p) ==
  /\ Between /\ p \in uses /\ installed # 0
  /\ \E s \in Settings : Keep(p, s)
  /\ board' = board /\ last' = "Core"
  /\ UNCHANGED <<program, installed, boards, now, asleep, outside, asking>>

\* A directory or a file that cannot be played: it is not there, it is empty,
\* or it is something else than pictures or samples.
Unplayable == {"Core", "Io"}

\* Nothing is kept of a configuration that is refused: a rate of 0, a size or
\* a format that the source does not have, a file that cannot be played.
MediaRefused(p) ==
  /\ Between /\ p \in uses /\ installed # 0
  /\ \E reason \in Unplayable : Refuse(reason, board)

\* On the chip the microphone's peripheral is taken before the driver starts.
Driverless(p) == p = "microphone" /\ platform = "chip"

MicSpent(p) ==
  /\ Between /\ p \in uses /\ installed # 0 /\ Driverless(p)
  /\ \/ board.pdm /\ Refuse("Core", [board EXCEPT !.pdm = FALSE])
     \/ ~board.pdm /\ Refuse("Io", board)

\* A run begins with the file, and what ran before it is dropped.
MediaBegin(p, s) ==
  /\ Between /\ p \in uses /\ installed # 0
  /\ Driverless(p) => board.pdm
  /\ Succeed([board EXCEPT ![p] = NewRun(s), !.pdm = @ /\ ~Driverless(p)])
  /\ Keep(p, s)

\* The chip has neither a presence sensor nor BLE in this firmware.
QueueMissing(q) ==
  /\ Between /\ q \in uses /\ OnA("chip") /\ Refuse("Missing", board)

\* A begin that starts with an empty queue.
QueueBeginEmpty(q, s) ==
  /\ Between /\ q \in uses /\ OnA("laptop")
  /\ board' = [board EXCEPT ![q] = s] /\ last' = None /\ Keep(q, s)
  /\ queue' = [queue EXCEPT ![q] = <<>>]
  /\ UNCHANGED <<program, installed, boards, now, asleep, written, taken, asking>>

QueueBegin(q, s) ==
  /\ Between /\ q \in uses /\ OnA("laptop")
  /\ Succeed([board EXCEPT ![q] = s]) /\ Keep(q, s)

\* radar::end forgets the configuration; the board is not asked.
RadarEnd ==
  /\ Between /\ "radar" \in uses
  /\ config' = [config EXCEPT !["radar"] = None]
  /\ UNCHANGED <<program, installed, boards, board, now, asleep, begunOn, last, outside, asking>>

\* The laptop records the name; the chip spends its modem on the first attempt,
\* whether it joins or not.
WifiBegin ==
  /\ Between /\ "wifi" \in uses
  /\ \/ OnA("laptop") /\ Succeed([board EXCEPT !.joined = TRUE]) /\ UNCHANGED statics
     \/ /\ OnA("chip") /\ board.net
        /\ \/ Succeed([board EXCEPT !.net = FALSE, !.joined = TRUE]) /\ UNCHANGED statics
           \/ Refuse("Io", [board EXCEPT !.net = FALSE])
     \/ OnA("chip") /\ ~board.net /\ Refuse("Io", board)

\* Neither board has an access-point mode.
WifiHost == Between /\ "wifi" \in uses /\ installed # 0 /\ Refuse("Missing", board)

-----------------------------------------------------------------------------
(* cam::grab and mic::read.                                                *)

Least(a, b) == IF a < b THEN a ELSE b

\* The intervals from the board's start to item seq: u32::try_from(seq), or
\* u32::MAX for every item that is past it.
Factor(p) == Least(board[p].seq, MaxFactor)

\* The first two items are due together.
DueEarly(p) == IF Driverless(p) \/ Factor(p) = 0 THEN 0 ELSE (Factor(p) - 1) * board[p].interval

\* A deadline that is set anew whenever the sleeping read looks at the clock.
DueMoves(p) == IF Driverless(p) THEN 0 ELSE now + Factor(p) * board[p].interval

\* `pace`: item seq is due at started + interval * seq.  The chip's microphone
\* is not paced, its driver waits for a block.
Due(p) == IF Driverless(p) THEN 0 ELSE Factor(p) * board[p].interval

NotBegun(p) ==
  /\ Between /\ p \in uses /\ installed # 0 /\ ~Begun(p)
  /\ Refuse("NotBegun", board)

\* The read is under way: it has BOARD, and waits for its item in `pace`.
Read(p) ==
  /\ Between /\ p \in uses /\ installed # 0 /\ Begun(p)
  /\ board[p].seq < MaxItems /\ Due(p) <= MaxTime
  /\ asleep' = p
  /\ UNCHANGED <<program, installed, boards, board, now, statics, last, outside, asking>>

\* The loop of MicRun::read over the file: need samples from pos on.
Fill[need \in 0 .. BlockLen] ==
  [pos \in 0 .. FileLen - 1 |->
     IF need = 0 THEN [bytes |-> <<>>, pos |-> pos]
     ELSE LET take == Least(need, FileLen - pos)
              rest == Fill[need - take][(pos + take) % FileLen]
          IN [bytes |-> [i \in 1 .. take |-> pos + i - 1] \o rest.bytes, pos |-> rest.pos]]

\* The place in the file moves on by the first piece of a block alone.
PlayedOnce(p, pos) ==
  LET n == IF p = "camera" THEN 1 ELSE BlockLen
  IN [Fill[n][pos] EXCEPT !.pos = (pos + Least(n, FileLen - pos)) % FileLen]

\* What the laptop plays: the pictures of a directory one by one, or a block of
\* the samples of a file, and on from its beginning.
Played(p, pos) == Fill[IF p = "camera" THEN 1 ELSE BlockLen][pos]

\* The read has slept its time; the item is made and BOARD released.
Deliver(p) ==
  /\ asleep = p /\ now >= Due(p)
  /\ LET item == Played(p, board[p].pos)
     IN board' = [board EXCEPT ![p].seq = @ + 1, ![p].pos = item.pos, ![p].out = item.bytes]
  /\ asleep' = None /\ last' = None
  /\ UNCHANGED <<program, installed, boards, now, statics, outside, asking>>

\* A chip's camera or microphone fails for this once; the camera's frame was
\* counted before it was asked for.
DeliverFails(p) ==
  /\ asleep = p /\ now >= Due(p) /\ platform = "chip"
  /\ board' = IF p = "camera" THEN [board EXCEPT ![p].seq = @ + 1] ELSE board
  /\ asleep' = None /\ last' = "Core"
  /\ UNCHANGED <<program, installed, boards, now, statics, outside, asking>>

-----------------------------------------------------------------------------
(* radar::read, provision::poll, report and store.                         *)

Write(q) ==
  /\ q \in uses /\ written[q] < MaxWritten
  /\ written' = [written EXCEPT ![q] = @ + 1]
  /\ queue' = [queue EXCEPT ![q] = Append(@, written'[q])]
  /\ UNCHANGED <<program, installed, boards, board, now, asleep, statics, last, taken, asking>>

\* The oldest of what waits, once the laptop's board has begun; anything else
\* is None, and a None of these two is recorded nowhere.
Poll(q) ==
  /\ Between /\ q \in uses /\ OnA("laptop") /\ board[q] # None /\ queue[q] # <<>>
  /\ taken' = [taken EXCEPT ![q] = Append(@, Head(queue[q]))]
  /\ queue' = [queue EXCEPT ![q] = Tail(@)]
  /\ UNCHANGED <<program, installed, boards, board, now, asleep, statics, last, written, asking>>

\* A board without provisioning ignores the report, which succeeds.
Report(joined) ==
  /\ Between /\ "provisioning" \in uses /\ installed # 0
  /\ Succeed(IF joined THEN [board EXCEPT !["provisioning"] = None] ELSE board)
  /\ config' = IF joined THEN [config EXCEPT !["provisioning"] = None] ELSE config
  /\ UNCHANGED begunOn

\* store_settings; what is stored is for the next boot.
Store ==
  /\ Between /\ "provisioning" \in uses
  /\ \/ OnA("laptop") /\ Succeed(board) /\ UNCHANGED statics
     \/ OnA("chip") /\ Refuse("Missing", board)

-----------------------------------------------------------------------------
(* The handler and time.                                                   *)

Ask ==
  /\ ~asking /\ asking' = TRUE
  /\ UNCHANGED <<program, installed, boards, board, now, asleep, statics, last, outside>>

\* millis() and local_ip() look at the board and release it.
Answer ==
  /\ asking /\ Between /\ asking' = FALSE
  /\ UNCHANGED <<program, installed, boards, board, now, asleep, statics, last, outside>>

Tick ==
  /\ installed # 0 /\ now < MaxTime /\ now' = now + 1
  /\ UNCHANGED <<program, installed, boards, board, asleep, statics, last, outside, asking>>

Wake == \E p \in Media : Deliver(p) \/ DeliverFails(p)

Next ==
  \/ Install \/ Uninstall \/ NoBoard
  \/ \E p \in Media :
       MediaRefused(p) \/ MicSpent(p) \/ NotBegun(p) \/ Read(p)
         \/ \E s \in Settings : MediaBegin(p, s)
  \/ Wake
  \/ \E q \in Queues :
       QueueMissing(q) \/ Write(q) \/ Poll(q) \/ \E s \in Settings : QueueBegin(q, s)
  \/ RadarEnd \/ WifiBegin \/ WifiHost
  \/ \E joined \in BOOLEAN : Report(joined)
  \/ Store
  \/ Ask \/ Answer \/ Tick

Spec == Init /\ [][Next]_vars

\* Time passes, and a thread whose sleep is over goes on.
FairSpec == Spec /\ WF_vars(Tick) /\ WF_vars(Wake)

-----------------------------------------------------------------------------
Runs == [interval : Settings \cup {0}, seq : 0 .. MaxItems, pos : 0 .. FileLen - 1,
         out : UNION {[1 .. n -> 0 .. FileLen - 1] : n \in {0, 1, BlockLen}}]

Boards == [camera : Runs, microphone : Runs, radar : Settings \cup {None},
           provisioning : Settings \cup {None}, joined : BOOLEAN, net : BOOLEAN, pdm : BOOLEAN]

TypeOK ==
  /\ platform \in Kinds /\ uses \in Sketches
  /\ boards \in 0 .. MaxBoards /\ installed \in {0, boards}
  /\ board \in IF installed = 0 THEN {None} ELSE Boards
  /\ now \in 0 .. MaxTime
  /\ asleep # None => asleep \in Media /\ installed # 0 /\ Begun(asleep)
  /\ config \in [Peripherals -> Settings \cup {None}]
  /\ begunOn \in [Peripherals -> 0 .. MaxBoards]
  /\ last \in {None, "NoBoard", "NotBegun", "Core", "Io", "Missing"}
  /\ \A q \in Queues : {queue[q], taken[q]} \subseteq Seq(1 .. MaxWritten)
  /\ written \in [Queues -> 0 .. MaxWritten]
  /\ asking \in BOOLEAN

\* A run never hands out an item before it is due on the board's clock, also
\* when its begin came late, a read failed or the loop stood still and catches
\* up: after n intervals of the board there were at most n + 1 items.  It holds
\* for the items whose number fits the factor of an interval; those behind them
\* are all due with the last of these, and nothing paces them.
PacedFromTheStart ==
  installed # 0 =>
    \A p \in Media : Begun(p) /\ ~Driverless(p) =>
      Least(board[p].seq, MaxFactor + 1) <= 1 + now \div board[p].interval

\* What the laptop plays is the file over and over: every item of a run
\* continues the item before it, whatever the block's length does to the file's.
PlaysEndlessly ==
  OnA("laptop") =>
    \A p \in Media : board[p].seq > 0 =>
      LET n == IF p = "camera" THEN 1 ELSE BlockLen
      IN board[p].out = [i \in 1 .. n |-> ((board[p].seq - 1) * n + i - 1) % FileLen]

\* config() and active() speak of the board they were begun on: while it is
\* installed it runs with that configuration, also after a begin that was
\* refused, and it advertises exactly while active() says so.
SaidIsSo ==
  \A p \in Peripherals :
    installed # 0 /\ begunOn[p] = installed =>
      /\ p \in Media => board[p].interval = config[p]
      /\ p = "radar" => config[p] \in {None, board[p]}
      /\ p = "provisioning" => config[p] = board[p]

\* "The credentials a phone wrote since the last call": none is lost, none comes
\* twice and none before an older one, also when they were written while no
\* board took them, or the board was changed or begun anew before the next call.
CredentialsAreKept ==
  LET q == "provisioning"
  IN taken[q] \o queue[q] = [i \in 1 .. written[q] |-> i]

\* "The newest reading since the last call": a reading that radar::read hands
\* out is the newest there is.
NewestReading ==
  [][LET got == taken'["radar"]
     IN got # taken["radar"] => got[Len(got)] = written["radar"]]_vars

\* A handler on a server's thread gets its turn at the board although a read
\* sleeps with BOARD locked: every sleep ends, and then the mutex is free.  That
\* the waiting thread wins it at last is SF: the mutex itself promises nothing.
HandlerIsAnswered == SF_vars(Answer) => (asking ~> ~asking)
=============================================================================
