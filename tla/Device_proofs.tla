---------------------------- MODULE Device_proofs ----------------------------
(***************************************************************************)
(* Proofs about Device, for every timeout of the watchdog and every count  *)
(* at which the counters of boots saturate.                                *)
(***************************************************************************)
EXTENDS Device, TLAPS

LEMMA Bounds == Timeout \in Nat \ {0} /\ MaxCount \in Nat \ {0}
  BY BoundsAssumption

\* The parts of TypeOK: places and flags, and numbers.
Places ==
  /\ phase \in {"main", "setup", "loop", "hung"}
  /\ installIn \in {"main", "setup"} /\ keeps \in BOOLEAN /\ watches \in BOOLEAN
  /\ installed \in BOOLEAN /\ armed \in BOOLEAN
  /\ mesh \in {"untried", "up", "failed"}
  /\ image \in {"old", "new"} /\ pending \in BOOLEAN /\ committed \in BOOLEAN
  /\ skipped \in BOOLEAN /\ refused \in BOOLEAN

Numbers ==
  /\ boot \in [reason : Reasons \cup {"none"}, boots : Counts, crashes : Counts]
  /\ reason \in Reasons
  /\ counted \in [boots : Counts, crashes : Counts]
  /\ clock \in 0 .. Timeout
  /\ happened \in Counts

\* The crash that the board has not been asked about yet.
LastCrash == One(reason \in Crashes)

\* A record that the sketch was told is what a board counts that keeps one and
\* is there when run starts.  Such a board has counted every crash but the last,
\* and that one too once run has asked it, unless it failed to.
CountFollows ==
  /\ counted.crashes <= counted.boots
  /\ boot # NoRecord =>
       keeps /\ installIn = "main" /\ phase # "main" /\ boot = Told(counted)
  /\ keeps /\ installIn = "main" /\ phase = "main" =>
       /\ Saturate(counted.crashes + LastCrash) <= happened
       /\ ~skipped => happened = Saturate(counted.crashes + LastCrash)
  /\ keeps /\ installIn = "main" /\ phase # "main" =>
       /\ counted.crashes <= happened
       /\ ~skipped => happened = counted.crashes

\* The watchdog does not run before run does, and only a board of main is there.
BootBegins ==
  /\ armed => phase # "main"
  /\ phase = "main" => (installed <=> installIn = "main")

Inv == Places /\ Numbers /\ CountFollows /\ BootBegins

LEMMA Parts == TypeOK <=> Places /\ Numbers
  BY Zenon DEF TypeOK, Places, Numbers

LEMMA Saturates ==
  ASSUME NEW n \in Nat
  PROVE  Saturate(n) \in Counts /\ Saturate(n) <= n /\ (n <= MaxCount => Saturate(n) = n)
  BY Bounds DEF Saturate, Counts

LEMMA SaturatesInOrder ==
  ASSUME NEW m \in Nat, NEW n \in Nat, m <= n
  PROVE  Saturate(m) <= Saturate(n)
  BY Bounds DEF Saturate

\* A boot that is asked about is counted, and no crash without its boot.
LEMMA CountedCounts ==
  ASSUME Numbers, counted.crashes <= counted.boots
  PROVE  /\ Counted \in [boots : Counts, crashes : Counts]
         /\ Counted.crashes = Saturate(counted.crashes + LastCrash)
         /\ Counted.crashes <= Counted.boots
  <1>1. LastCrash \in {0, 1}
    BY DEF LastCrash, One
  <1>2. /\ counted.crashes + LastCrash \in Nat /\ counted.boots + 1 \in Nat
        /\ counted.crashes + LastCrash <= counted.boots + 1
    BY <1>1, Bounds DEF Numbers, Counts
  <1>3. Counted = [boots |-> Saturate(counted.boots + 1),
                   crashes |-> Saturate(counted.crashes + LastCrash)]
    BY DEF Counted, LastCrash
  <1>4. /\ Saturate(counted.boots + 1) \in Counts /\ Saturate(counted.crashes + LastCrash) \in Counts
        /\ Saturate(counted.crashes + LastCrash) <= Saturate(counted.boots + 1)
    BY <1>2, Saturates, SaturatesInOrder
  <1> QED
    BY <1>3, <1>4

LEMMA InitInv == Init => Inv
  <1> SUFFICES ASSUME Init PROVE Inv
    OBVIOUS
  <1>1. Places /\ BootBegins
    BY DEF Init, Places, BootBegins
  <1>2. /\ phase = "main" /\ boot = NoRecord /\ reason = "power-on" /\ happened = 0
        /\ counted = [boots |-> 0, crashes |-> 0] /\ clock = 0
    BY DEF Init
  <1>3. Numbers
    BY <1>2, Bounds DEF Numbers, NoRecord, Counts, Reasons, Crashes
  <1>4. LastCrash = 0 /\ Saturate(0) = 0
    BY <1>2, Bounds DEF LastCrash, One, Crashes, Saturate
  <1>5. CountFollows
    BY <1>2, <1>4 DEF CountFollows
  <1> QED
    BY <1>1, <1>3, <1>5 DEF Inv

\* A reset forgets what the sketch was told and leaves the board's count.
LEMMA ResetKeeps ==
  ASSUME Inv, NEW why \in Reasons, phase # "main", Reset(why)
  PROVE  Inv'
  <1>1. Places' /\ BootBegins'
    BY DEF Reset, device, Inv, Places, BootBegins
  <1>2. /\ phase' = "main" /\ boot' = NoRecord /\ clock' = 0 /\ reason' = why
        /\ happened' = Saturate(happened + One(why \in Crashes))
        /\ UNCHANGED <<installIn, keeps, counted, skipped>>
    BY Zenon DEF Reset, device
  <1>3. PICK last \in {0, 1} : LastCrash' = last /\ happened' = Saturate(happened + last)
    BY <1>2 DEF LastCrash, One
  <1>4. /\ happened \in Nat /\ counted.crashes \in Nat
        /\ happened + last \in Nat /\ counted.crashes + last \in Nat
    <2>1. happened \in Counts /\ counted \in [boots : Counts, crashes : Counts]
      BY DEF Inv, Numbers
    <2>2. happened \in Nat /\ counted.crashes \in Nat
      BY <2>1, Bounds DEF Counts
    <2> QED
      BY <2>2
  <1>5. NoRecord \in [reason : Reasons \cup {"none"}, boots : Counts, crashes : Counts]
    BY Bounds DEF NoRecord, Counts
  <1>6. Numbers'
    BY <1>2, <1>3, <1>4, <1>5, Saturates, Bounds DEF Inv, Numbers
  <1>7. ASSUME keeps, installIn = "main"
        PROVE  /\ Saturate(counted.crashes + last) <= happened'
               /\ ~skipped => happened' = Saturate(counted.crashes + last)
    <2>1. counted.crashes <= happened /\ (~skipped => happened = counted.crashes)
      BY <1>7 DEF Inv, CountFollows
    <2>2. counted.crashes + last <= happened + last
      BY <2>1, <1>4
    <2> QED
      BY <2>1, <2>2, <1>3, <1>4, SaturatesInOrder
  <1>8. CountFollows'
    BY <1>2, <1>3, <1>7 DEF Inv, CountFollows
  <1> QED
    BY <1>1, <1>6, <1>8 DEF Inv

\* The board's answer is what the sketch is told, or it is told nothing.
LEMMA BeginRunKeeps ==
  ASSUME Inv, BeginRun
  PROVE  Inv'
  <1>1. /\ phase = "main" /\ phase' = "setup"
        /\ UNCHANGED <<installIn, keeps, watches, installed, clock, reason, happened>>
        /\ UNCHANGED <<mesh, image, pending, committed>>
    BY Zenon DEF BeginRun, device, flash
  <1>2. /\ Counted \in [boots : Counts, crashes : Counts]
        /\ Counted.crashes = Saturate(counted.crashes + LastCrash)
        /\ Counted.crashes <= Counted.boots
    BY CountedCounts DEF Inv, CountFollows
  <1>3. Told(Counted) \in [reason : Reasons \cup {"none"}, boots : Counts, crashes : Counts]
    BY <1>2 DEF Inv, Numbers, Told
  <1>4. boot = NoRecord
    BY <1>1 DEF Inv, CountFollows
  <1>5. counted.crashes <= Saturate(counted.crashes + LastCrash)
    BY Bounds DEF Inv, Numbers, Counts, LastCrash, One, Saturate
  <1>6. skipped' \in BOOLEAN /\ refused' \in BOOLEAN /\ armed' \in BOOLEAN
    BY Zenon DEF BeginRun, ReadRecord, Arm, Inv, Places
  <1>7. Places' /\ BootBegins'
    BY <1>1, <1>6 DEF Inv, Places, BootBegins
  <1>8. CASE installed /\ keeps /\ counted' = Counted /\ boot' \in {boot, Told(Counted)}
             /\ skipped' = skipped
    <2>1. Numbers'
      BY <1>1, <1>2, <1>3, <1>8 DEF Inv, Numbers
    <2>2. boot' # NoRecord => boot' = Told(counted)'
      BY <1>1, <1>4, <1>8 DEF Told
    <2>3. installIn = "main"
      BY <1>1, <1>8 DEF Inv, BootBegins
    <2>4. CountFollows'
      BY <1>1, <1>2, <1>8, <2>2, <2>3 DEF Inv, CountFollows
    <2> QED
      BY <1>7, <2>1, <2>4 DEF Inv
  <1>9. CASE installed /\ keeps /\ skipped' = TRUE /\ counted' = counted /\ boot' = boot
    <2>1. Numbers'
      BY <1>1, <1>9 DEF Inv, Numbers
    <2>2. installIn = "main" /\ Saturate(counted.crashes + LastCrash) <= happened
      BY <1>1, <1>9 DEF Inv, BootBegins, CountFollows
    <2>3. counted.crashes <= happened
      BY <2>2, <1>5, <1>2, Bounds DEF Inv, Numbers, Counts
    <2>4. CountFollows'
      BY <1>1, <1>4, <1>9, <2>2, <2>3 DEF Inv, CountFollows
    <2> QED
      BY <1>7, <2>1, <2>4 DEF Inv
  <1>10. CASE (~installed \/ ~keeps) /\ UNCHANGED <<counted, boot, skipped>>
    <2>1. Numbers'
      BY <1>1, <1>10 DEF Inv, Numbers
    <2>2. ~(keeps /\ installIn = "main")
      BY <1>1, <1>10 DEF Inv, BootBegins
    <2>3. CountFollows'
      BY <1>1, <1>4, <1>10, <2>2 DEF Inv, CountFollows
    <2> QED
      BY <1>7, <2>1, <2>3 DEF Inv
  <1> QED
    BY <1>8, <1>9, <1>10, Zenon DEF BeginRun, ReadRecord

LEMMA NextInv == Inv /\ [Next]_vars => Inv'
  <1> SUFFICES ASSUME Inv, [Next]_vars PROVE Inv'
    OBVIOUS
  <1>1. CASE BeginRun
    BY <1>1, BeginRunKeeps
  <1>2. CASE Restart \/ Panic \/ Watchdog
    <2>1. PICK why \in {"software", "panic", "task-watchdog"} : Reset(why) /\ phase # "main"
      BY <1>2 DEF Restart, Panic, Watchdog, Inv, BootBegins
    <2>2. why \in Reasons
      BY DEF Reasons, Crashes
    <2> QED
      BY <2>1, <2>2, ResetKeeps
  <1>3. CASE \/ Install \/ MeshUp \/ MeshFails \/ SetupReturns \/ Pass \/ Hang \/ Commit \/ Tick
             \/ UNCHANGED vars
    <2>1. Places' /\ BootBegins'
      <3>1. CASE Install
        BY <3>1 DEF Install, flash, device, history, Inv, Places, BootBegins
      <3>2. CASE MeshUp
        BY <3>2 DEF MeshUp, device, Inv, Places, BootBegins
      <3>3. CASE MeshFails
        BY <3>3 DEF MeshFails, flash, device, history, Inv, Places, BootBegins
      <3>4. CASE SetupReturns \/ Pass \/ Hang
        <4>1. /\ phase # "main" /\ phase' \in {"setup", "loop", "hung"} /\ phase' # "main"
              /\ installIn' = installIn /\ keeps' = keeps /\ watches' = watches
              /\ installed' = installed /\ armed' = armed /\ mesh' = mesh
              /\ image' = image /\ pending' = pending /\ committed' = committed
              /\ skipped' = skipped /\ refused' = refused
          BY <3>4 DEF SetupReturns, Pass, Hang, facade, flash, device, history
        <4>2. Places'
          BY <4>1 DEF Inv, Places
        <4>3. BootBegins'
          BY <4>1 DEF Inv, BootBegins
        <4> QED
          BY <4>2, <4>3
      <3>5. CASE Commit
        BY <3>5 DEF Commit, facade, device, history, Inv, Places, BootBegins
      <3>6. CASE Tick
        BY <3>6 DEF Tick, flash, device, history, Inv, Places, BootBegins
      <3>7. CASE UNCHANGED vars
        <4>1. /\ phase' = phase /\ installIn' = installIn /\ keeps' = keeps /\ watches' = watches
              /\ installed' = installed /\ armed' = armed /\ mesh' = mesh
              /\ image' = image /\ pending' = pending /\ committed' = committed
              /\ skipped' = skipped /\ refused' = refused
          BY <3>7 DEF vars, facade, flash, device, history
        <4>2. Places'
          BY <4>1 DEF Inv, Places
        <4>3. BootBegins'
          BY <4>1 DEF Inv, BootBegins
        <4> QED
          BY <4>2, <4>3
      <3> QED
        BY <1>3, <3>1, <3>2, <3>3, <3>4, <3>5, <3>6, <3>7
    <2>2. /\ (phase' = "main") <=> (phase = "main")
          /\ UNCHANGED <<installIn, keeps, boot, counted, reason, happened, skipped>>
      BY <1>3 DEF Install, MeshUp, MeshFails, SetupReturns, Pass, Hang, Commit, Tick, vars,
                  device, facade, flash, history
    <2>3. clock' = clock \/ clock' = 0 \/ (clock' = clock + 1 /\ clock < Timeout)
      BY <1>3 DEF Install, MeshUp, MeshFails, SetupReturns, Pass, Hang, Commit, Tick, vars,
                  device, facade, flash, history
    <2>4. Numbers'
      BY <2>2, <2>3, Bounds DEF Inv, Numbers
    <2>5. CountFollows'
      BY <2>2 DEF Inv, CountFollows, LastCrash, Told
    <2> QED
      BY <2>1, <2>4, <2>5 DEF Inv
  <1> QED
    BY <1>1, <1>2, <1>3 DEF Next

THEOREM TypeCorrect == Spec => []TypeOK
  <1>1. Inv => TypeOK
    BY Parts DEF Inv
  <1> QED
    BY <1>1, InitInv, NextInv, PTL DEF Spec

\* The record that the sketch prints and the mesh advertises has every crash
\* there was, also where the counters saturate and on a board whose answers
\* fail: it may then miss the crash of a boot it did not count, and no other.
THEOREM RecordIsTrue == Spec => []RecordTellsTheCrashes
  <1>1. Inv => RecordTellsTheCrashes
    BY DEF Inv, CountFollows, Told, RecordTellsTheCrashes
  <1> QED
    BY <1>1, InitInv, NextInv, PTL DEF Spec

\* An image that is kept came up on the mesh.  What the bootloader does with
\* the three flags is all that it takes, whatever the sketch does.
THEOREM KeptIsProven == Spec => []KeptImageCameUp
  <1>1. Init => KeptImageCameUp
    BY DEF Init, KeptImageCameUp
  <1>2. KeptImageCameUp /\ [Next]_vars => KeptImageCameUp'
    <2> SUFFICES ASSUME KeptImageCameUp, [Next]_vars PROVE KeptImageCameUp'
      OBVIOUS
    <2>1. CASE MeshUp
      BY <2>1 DEF MeshUp, KeptImageCameUp
    <2>2. ASSUME NEW why, Reset(why) PROVE KeptImageCameUp'
      BY <2>2 DEF Reset, KeptImageCameUp
    <2>3. CASE UNCHANGED <<image, pending, reached>>
      BY <2>3 DEF KeptImageCameUp
    <2> QED
      BY <2>1, <2>2, <2>3 DEF Next, vars, BeginRun, Install, MeshFails, SetupReturns, Pass, Hang,
                              Commit, Restart, Panic, Tick, Watchdog, flash, history
  <1> QED
    BY <1>1, <1>2, PTL DEF Spec
=============================================================================
