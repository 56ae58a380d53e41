------------------------------- MODULE Device -------------------------------
(***************************************************************************)
(* A device from boot to boot: sketch::run and its watchdog (sketch.rs),   *)
(* the boot record, restart, and what mesh::begin tells the bootloader     *)
(* about an updated image (mesh.rs).                                       *)
(*                                                                         *)
(* The sketch is the firmware's: setup, in which mesh::begin is tried once *)
(* (Mesh says what happens in it), then one loop pass after the other.     *)
(* The board, its watchdog and the bootloader are external: they do what   *)
(* board.rs asks of them, or answer with an error.  A board may be without *)
(* a boot record and without a watchdog, as board.rs has it for a board    *)
(* that says nothing else and as the firmware's is.  board::install is     *)
(* called in main before run, or first thing in setup, as the firmware and *)
(* install's documentation do.                                             *)
(***************************************************************************)
EXTENDS Integers

CONSTANTS Timeout,      \* LIVENESS_TIMEOUT_S, in ticks
          MaxCount      \* where the counters of boots saturate (u32::MAX)

ASSUME BoundsAssumption == {Timeout, MaxCount} \subseteq Nat \ {0}

\* ResetReason, of the kinds that are told apart here.
Crashes == {"panic", "task-watchdog"}
Reasons == Crashes \cup {"power-on", "software"}
NoRecord == [reason |-> "none", boots |-> 0, crashes |-> 0]

VARIABLES
  phase,        \* "main", "setup", "loop", or "hung" in one of the two
  installIn,    \* where the sketch installs its board: "main" or "setup"
  keeps,        \* its board keeps a boot record
  watches,      \* its board has a watchdog
  installed,    \* board::installed()
  boot,         \* BOOT: what the sketch prints and the mesh advertises, or none
  reason,       \* why this boot happened, as the board knows it
  counted,      \* the boots and crashes in the board's store
  armed,        \* the watchdog watches the sketch's thread
  clock,        \* ticks since it was armed or fed
  mesh,         \* mesh::begin of this boot: "untried", "up", "failed"
  image,        \* the running image, "old" or "new"
  pending,      \* the bootloader awaits ota_running_valid for it
  committed,    \* an update is written and boots next
  happened,     \* history: the crashes there were, saturating
  skipped,      \* history: a boot_record failed, and its boot was not counted
  refused,      \* history: the liveness_begin of this boot failed
  reached       \* history: the new image has been up on the mesh

device == <<installIn, keeps, watches>>
facade == <<installed, boot, armed, clock, mesh>>
flash == <<image, pending, committed>>
history == <<happened, skipped, refused, reached>>
vars == <<device, phase, facade, reason, counted, flash, history>>

Saturate(n) == IF n > MaxCount THEN MaxCount ELSE n
One(b) == IF b THEN 1 ELSE 0

Init ==
  /\ installIn \in {"main", "setup"} /\ keeps \in BOOLEAN /\ watches \in BOOLEAN
  /\ phase = "main" /\ installed = (installIn = "main") /\ boot = NoRecord
  /\ reason = "power-on" /\ counted = [boots |-> 0, crashes |-> 0]
  /\ armed = FALSE /\ clock = 0 /\ mesh = "untried"
  /\ image = "old" /\ pending = FALSE /\ committed = FALSE
  /\ happened = 0 /\ skipped = FALSE /\ refused = FALSE /\ reached = FALSE

-----------------------------------------------------------------------------
(* The sketch.                                                             *)

\* The board's count with one boot more, of which it is asked.
Counted ==
  [boots |-> Saturate(counted.boots + 1),
   crashes |-> Saturate(counted.crashes + One(reason \in Crashes))]

\* What a board that counts c tells of this boot.
Told(c) == [reason |-> reason, boots |-> c.boots, crashes |-> c.crashes]

\* A begin_run that asks the board for its record twice.
AskTwice ==
  IF keeps
    THEN /\ counted' = [boots |-> Saturate(counted.boots + 2),
                        crashes |-> Saturate(counted.crashes + 2 * One(reason \in Crashes))]
         /\ boot' = Told(counted')
         /\ UNCHANGED skipped
    ELSE UNCHANGED <<counted, boot, skipped>>

\* A begin_run that adds this boot to the board's count once more.
CountAgain ==
  IF keeps
    THEN /\ counted' = Counted
         /\ boot' = [Told(Counted) EXCEPT !.boots = @ + 1]
         /\ UNCHANGED skipped
    ELSE UNCHANGED <<counted, boot, skipped>>

\* Board::boot_record, of which only Ok(Some) is kept.  A board that keeps a
\* record counts the boot it is asked about; when it answers with an error, it
\* has counted the boot or not.
ReadRecord ==
  \/ /\ keeps /\ counted' = Counted /\ boot' \in {boot, Told(Counted)}
     /\ UNCHANGED skipped
  \/ /\ keeps /\ skipped' = TRUE /\ UNCHANGED <<counted, boot>>
  \/ /\ ~keeps /\ UNCHANGED <<counted, boot, skipped>>

\* A begin_run that reads the record and forgets the watchdog.
ArmNever == UNCHANGED <<armed, refused>>

\* Board::liveness_begin: an error is recorded, and the loop runs unwatched, as
\* it does on a board that answers Ok and has no watchdog.
Arm == refused' \in BOOLEAN /\ armed' = (watches /\ ~refused')

\* begin_run: without a board there is nothing to ask and nothing to arm.
BeginRun ==
  /\ phase = "main" /\ phase' = "setup"
  /\ IF installed THEN ReadRecord /\ Arm
                  ELSE UNCHANGED <<counted, boot, skipped, armed, refused>>
  /\ UNCHANGED <<device, installed, clock, mesh, reason, flash, happened, reached>>

\* board::install, first thing in setup.
Install ==
  /\ phase = "setup" /\ ~installed
  /\ installed' = TRUE
  /\ UNCHANGED <<device, phase, boot, armed, clock, mesh, reason, counted, flash, history>>

\* mesh::begin succeeds: the board is told the image is good (its refusal is
\* recorded and is not fatal).
MeshUp ==
  /\ phase = "setup" /\ installed /\ mesh = "untried"
  /\ mesh' = "up"
  /\ pending' \in {FALSE, pending}
  /\ reached' = (reached \/ image = "new")
  /\ UNCHANGED <<device, phase, installed, boot, armed, clock, reason, counted, image,
                 committed, happened, skipped, refused>>

\* A mesh::begin that confirms the image before it knows of an endpoint.
MeshFailsValid ==
  /\ phase = "setup" /\ installed /\ mesh = "untried"
  /\ mesh' = "failed"
  /\ pending' = FALSE
  /\ UNCHANGED <<device, phase, installed, boot, armed, clock, reason, counted, image,
                 committed, history>>

MeshFails ==
  /\ phase = "setup" /\ installed /\ mesh = "untried"
  /\ mesh' = "failed"
  /\ UNCHANGED <<device, phase, installed, boot, armed, clock, reason, counted, flash, history>>

SetupReturns ==
  /\ phase = "setup" /\ installed
  /\ phase' = "loop"
  /\ UNCHANGED <<device, facade, reason, counted, flash, history>>

\* A pass comes back, and end_pass feeds the watchdog; an error of the board is
\* dropped.
Pass ==
  /\ phase = "loop"
  /\ clock' \in IF installed THEN {0, clock} ELSE {clock}
  /\ UNCHANGED <<device, phase, installed, boot, armed, mesh, reason, counted, flash, history>>

\* A call that never comes back: a microphone, a socket, a lock.
Hang ==
  /\ phase \in {"setup", "loop"} /\ installed
  /\ phase' = "hung"
  /\ UNCHANGED <<device, facade, reason, counted, flash, history>>

-----------------------------------------------------------------------------
(* The board, its watchdog and the bootloader.                             *)

\* The node commits an update that the owner signed (Mesh).
Commit ==
  /\ mesh = "up" /\ ~committed /\ image = "old" /\ phase # "main"
  /\ committed' = TRUE
  /\ UNCHANGED <<device, phase, facade, reason, counted, image, pending, history>>

\* Every static of the facade is new after a reset.  An image that was never
\* confirmed is rolled back; a committed one is tried.
Reset(why) ==
  /\ phase' = "main" /\ installed' = (installIn = "main") /\ boot' = NoRecord
  /\ armed' = FALSE /\ clock' = 0 /\ mesh' = "untried"
  /\ reason' = why
  /\ image' = IF pending THEN "old" ELSE IF committed THEN "new" ELSE image
  /\ pending' = (committed /\ ~pending)
  /\ committed' = FALSE
  /\ happened' = Saturate(happened + One(why \in Crashes))
  /\ reached' = (reached /\ image' = "new")
  /\ refused' = FALSE
  /\ UNCHANGED <<device, counted, skipped>>

\* sketch::restart, and the panic handler.  A board that cannot restart says so,
\* and nothing happens: the sketch carries on.
Restart == phase \in {"setup", "loop"} /\ installed /\ Reset("software")
Panic == phase \in {"setup", "loop"} /\ Reset("panic")

\* Time passes only for the watchdog.
Tick ==
  /\ armed /\ clock < Timeout /\ phase # "main"
  /\ clock' = clock + 1
  /\ UNCHANGED <<device, phase, installed, boot, armed, mesh, reason, counted, flash, history>>

\* liveness_feed was not called within the timeout.
Watchdog == armed /\ clock = Timeout /\ Reset("task-watchdog")

Next ==
  \/ BeginRun \/ Install \/ MeshUp \/ MeshFails \/ SetupReturns \/ Pass \/ Hang
  \/ Commit \/ Restart \/ Panic \/ Tick \/ Watchdog

Spec == Init /\ [][Next]_vars

\* The sketch's thread runs until it hangs; time passes for the watchdog.
Fairness == WF_vars(BeginRun) /\ WF_vars(Install) /\ WF_vars(Tick) /\ WF_vars(Watchdog)
FairSpec == Spec /\ Fairness

-----------------------------------------------------------------------------
Counts == 0 .. MaxCount

TypeOK ==
  /\ phase \in {"main", "setup", "loop", "hung"}
  /\ installIn \in {"main", "setup"} /\ keeps \in BOOLEAN /\ watches \in BOOLEAN
  /\ installed \in BOOLEAN /\ armed \in BOOLEAN
  /\ boot \in [reason : Reasons \cup {"none"}, boots : Counts, crashes : Counts]
  /\ reason \in Reasons
  /\ counted \in [boots : Counts, crashes : Counts]
  /\ clock \in 0 .. Timeout
  /\ mesh \in {"untried", "up", "failed"}
  /\ image \in {"old", "new"} /\ pending \in BOOLEAN /\ committed \in BOOLEAN
  /\ happened \in Counts /\ skipped \in BOOLEAN /\ refused \in BOOLEAN

\* A record that the sketch prints and the mesh advertises is this boot's, and
\* has every crash there was, whatever ended the boots before: none is counted
\* twice, and none is missing unless the board failed to count its boot.
RecordTellsTheCrashes ==
  boot # NoRecord =>
    /\ boot.reason = reason
    /\ boot.crashes <= boot.boots /\ boot.crashes <= happened
    /\ ~skipped => boot.crashes = happened

\* A new image that is kept has come up on the mesh: one that hung, panicked or
\* restarted before that is rolled back by the next boot.
KeptImageCameUp == image = "new" /\ ~pending => reached

\* A board that has a watchdog, and did not refuse to arm it in this boot.
Watchable == watches /\ ~refused

\* A hang is not for ever, in setup or in a pass: the watchdog reboots such a
\* board, if it was there when run started.
HangsEnd == (phase = "hung" /\ Watchable /\ installIn = "main") ~> (phase = "main")

\* "If liveness_feed is not called within about timeout_s seconds, the board
\* must reboot itself. sketch::run arms this before setup": every such board,
\* wherever the sketch installs it.
EveryHangEnds == (phase = "hung" /\ Watchable) ~> (phase = "main")
=============================================================================
