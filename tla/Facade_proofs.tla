---------------------------- MODULE Facade_proofs ----------------------------
(***************************************************************************)
(* Proofs about Facade, for every file, block and configuration and every  *)
(* number of boards, items and readings.                                   *)
(***************************************************************************)
EXTENDS Facade, SequenceTheorems, WellFoundedInduction, TLAPS

-----------------------------------------------------------------------------
(* The two queues.                                                         *)

Count(n) == [i \in 1 .. n |-> i]

\* What was handed out and what waits are together what was written.
QueuesInv ==
  /\ written \in [Queues -> Nat]
  /\ queue \in [Queues -> Seq(Nat)]
  /\ taken \in [Queues -> Seq(Nat)]
  /\ \A q \in Queues : taken[q] \o queue[q] = Count(written[q])

\* One more reading is one more number.
LEMMA CountOneMore ==
  ASSUME NEW n \in Nat
  PROVE  Append(Count(n), n + 1) = Count(n + 1)
  <1>1. Count(n) \in Seq(Nat) /\ Len(Count(n)) = n
    BY SMT DEF Count
  <1>2. Count(n + 1) \in Seq(Nat) /\ Len(Count(n + 1)) = n + 1
    BY SMT DEF Count
  <1>3. Append(Count(n), n + 1) \in Seq(Nat) /\ Len(Append(Count(n), n + 1)) = n + 1
    BY <1>1, AppendProperties
  <1>4. ASSUME NEW i \in 1 .. n + 1
        PROVE  Append(Count(n), n + 1)[i] = Count(n + 1)[i]
    <2>1. CASE i \in 1 .. n
      BY <1>1, <2>1, AppendProperties DEF Count
    <2>2. CASE i = n + 1
      BY <1>1, <2>2, AppendProperties DEF Count
    <2>3. i \in 1 .. n \/ i = n + 1
      OBVIOUS
    <2> QED
      BY <2>1, <2>2, <2>3
  <1> QED
    BY <1>2, <1>3, <1>4, SeqEqual

LEMMA CountNone == Count(0) = <<>>
  BY DEF Count

\* A reading joins the end of those that wait.
LEMMA AppendBehind ==
  ASSUME NEW s \in Seq(Nat), NEW t \in Seq(Nat), NEW x \in Nat
  PROVE  s \o Append(t, x) = Append(s \o t, x)
  <1>1. <<x>> \in Seq(Nat) /\ s \o t \in Seq(Nat)
    BY ConcatProperties
  <1>2. Append(t, x) = t \o <<x>> /\ Append(s \o t, x) = (s \o t) \o <<x>>
    BY <1>1, AppendIsConcat
  <1> QED
    BY <1>1, <1>2, ConcatAssociative

\* The oldest one moves over to those that were handed out.
LEMMA HeadMoves ==
  ASSUME NEW s \in Seq(Nat), NEW t \in Seq(Nat), t # <<>>
  PROVE  Append(s, Head(t)) \o Tail(t) = s \o t
  <1>1. /\ Head(t) \in Nat /\ Tail(t) \in Seq(Nat) /\ <<Head(t)>> \in Seq(Nat)
        /\ Len(Tail(t)) = Len(t) - 1
        /\ \A i \in 1 .. Len(Tail(t)) : Tail(t)[i] = t[i + 1]
    BY HeadTailProperties
  <1>2. <<Head(t)>> \o Tail(t) = t
    <2>1. /\ <<Head(t)>> \o Tail(t) \in Seq(Nat)
          /\ Len(<<Head(t)>> \o Tail(t)) = Len(t)
      BY <1>1
    <2>2. ASSUME NEW i \in 1 .. Len(t)
          PROVE  (<<Head(t)>> \o Tail(t))[i] = t[i]
      BY <1>1, <2>2
    <2> QED
      BY <2>1, <2>2, SeqEqual
  <1>3. Append(s, Head(t)) = s \o <<Head(t)>>
    BY <1>1, AppendIsConcat
  <1> QED
    BY <1>1, <1>2, <1>3, ConcatAssociative

\* The queues of the initial state, and of every step.
LEMMA InitQueues == Init => QueuesInv
  <1> SUFFICES ASSUME Init PROVE QueuesInv
    OBVIOUS
  <1>1. /\ queue = [q \in Queues |-> <<>>] /\ taken = [q \in Queues |-> <<>>]
        /\ written = [q \in Queues |-> 0]
    BY DEF Init
  <1>2. <<>> \o <<>> = Count(0)
    BY CountNone, ConcatEmptySeq, EmptySeq
  <1> QED
    BY <1>1, <1>2, EmptySeq DEF QueuesInv

LEMMA NextQueues == QueuesInv /\ [Next]_vars => QueuesInv'
  <1> SUFFICES ASSUME QueuesInv, [Next]_vars PROVE QueuesInv'
    OBVIOUS
  <1>1. ASSUME NEW p \in Queues, Write(p) PROVE QueuesInv'
    <2>1. /\ written' = [written EXCEPT ![p] = @ + 1]
          /\ queue' = [queue EXCEPT ![p] = Append(@, written'[p])]
          /\ taken' = taken
      BY <1>1 DEF Write
    <2>2. written'[p] = written[p] + 1 /\ written[p] \in Nat
      BY <2>1 DEF QueuesInv
    <2>3. /\ taken[p] \in Seq(Nat) /\ queue[p] \in Seq(Nat) /\ written[p] + 1 \in Nat
          /\ taken[p] \o queue[p] = Count(written[p])
      BY <2>2 DEF QueuesInv
    <2>4. taken[p] \o Append(queue[p], written[p] + 1) = Append(Count(written[p]), written[p] + 1)
      BY <2>3, AppendBehind
    <2>5. taken'[p] \o queue'[p] = Count(written'[p])
      BY <2>1, <2>2, <2>4, CountOneMore DEF QueuesInv
    <2>6. Append(queue[p], written[p] + 1) \in Seq(Nat)
      BY <2>3, AppendProperties
    <2>7. /\ written' \in [Queues -> Nat] /\ queue' \in [Queues -> Seq(Nat)]
          /\ taken' \in [Queues -> Seq(Nat)]
      BY <2>1, <2>2, <2>3, <2>6 DEF QueuesInv
    <2>8. ASSUME NEW q \in Queues, q # p PROVE taken'[q] \o queue'[q] = Count(written'[q])
      BY <2>1, <2>8 DEF QueuesInv
    <2> QED
      BY <2>5, <2>7, <2>8 DEF QueuesInv
  <1>2. ASSUME NEW p \in Queues, Poll(p) PROVE QueuesInv'
    <2>1. /\ queue[p] # <<>>
          /\ taken' = [taken EXCEPT ![p] = Append(@, Head(queue[p]))]
          /\ queue' = [queue EXCEPT ![p] = Tail(@)]
          /\ written' = written
      BY <1>2 DEF Poll
    <2>2. Append(taken[p], Head(queue[p])) \o Tail(queue[p]) = taken[p] \o queue[p]
      BY <2>1, HeadMoves DEF QueuesInv
    <2>3. Append(taken[p], Head(queue[p])) \in Seq(Nat) /\ Tail(queue[p]) \in Seq(Nat)
      BY <2>1, HeadTailProperties, AppendProperties DEF QueuesInv
    <2> QED
      BY <2>1, <2>2, <2>3 DEF QueuesInv
  <1>3. CASE UNCHANGED outside
    BY <1>3 DEF QueuesInv, outside
  <1>4. [Next]_vars => UNCHANGED outside \/ \E p \in Queues : Write(p) \/ Poll(p)
    BY DEF Next, Wake, vars, Install, Uninstall, NoBoard, MediaRefused, MicSpent, NotBegun,
           Read, MediaBegin, Deliver, DeliverFails, QueueMissing, QueueBegin, RadarEnd,
           WifiBegin, WifiHost, Report, Store, Ask, Answer, Tick, Refuse, Succeed
  <1> QED
    BY <1>1, <1>2, <1>3, <1>4

\* Credentials reach the sketch once and in the order the phone wrote them, on
\* whatever board and however often it is changed or begun anew.
THEOREM QueuesAreKept == Spec => []CredentialsAreKept
  <1>1. QueuesInv => CredentialsAreKept
    BY DEF QueuesInv, CredentialsAreKept, Count, Queues
  <1> QED
    BY <1>1, InitQueues, NextQueues, PTL DEF Spec

-----------------------------------------------------------------------------
(* The board, its runs and its clock.                                      *)

Fields == DOMAIN NewBoard

IsBoard(b) == b = [f \in Fields |-> b[f]]

IsRun(r) ==
  /\ r = [interval |-> r.interval, seq |-> r.seq, pos |-> r.pos, out |-> r.out]
  /\ r.interval \in Settings \cup {0} /\ r.seq \in Nat

\* A board that is installed is one, each of its runs is a run, and a read that
\* sleeps sleeps in a run of it.
BoardInv ==
  /\ installed \in Nat /\ boards \in Nat /\ installed <= boards /\ now \in Nat
  /\ installed # 0 =>
       /\ IsBoard(board)
       /\ \A p \in Media : IsRun(board[p])
  /\ asleep \in Media => installed # 0 /\ Begun(asleep)

\* What a sketch can ask for, and the board it was begun on.
StaticsInv ==
  /\ config \in [Peripherals -> Settings \cup {None}]
  /\ begunOn \in [Peripherals -> Nat]
  /\ \A p \in Peripherals : begunOn[p] <= boards

Inv == BoardInv /\ StaticsInv /\ PacedFromTheStart /\ SaidIsSo

LEMMA FieldNames ==
  Fields = {"camera", "microphone", "radar", "provisioning", "joined", "net", "pdm"}
  BY DEF Fields, NewBoard

LEMMA NewRunIsRun ==
  ASSUME NEW s \in Settings \cup {0}
  PROVE  IsRun(NewRun(s)) /\ NewRun(s).interval = s /\ NewRun(s).seq = 0
  BY DEF IsRun, NewRun

\* No run of a new board has begun.
LEMMA NewBoardIsBoard ==
  IsBoard(NewBoard) /\ \A p \in Media : IsRun(NewBoard[p]) /\ NewBoard[p].interval = 0
  <1>1. IsBoard(NewBoard)
    BY FieldNames DEF IsBoard, NewBoard
  <1>2. \A p \in Media : NewBoard[p] = NewRun(0)
    BY DEF NewBoard, Media, NoRun
  <1> QED
    BY <1>1, <1>2, NewRunIsRun

\* What one field of a board is made, and what it leaves alone.
LEMMA SetField ==
  ASSUME NEW b, IsBoard(b), NEW f \in Fields, NEW v
  PROVE  /\ IsBoard([b EXCEPT ![f] = v])
         /\ [b EXCEPT ![f] = v][f] = v
         /\ \A g \in Fields \ {f} : [b EXCEPT ![f] = v][g] = b[g]
  BY DEF IsBoard

\* An item more of a run.
LEMMA RunGoesOn ==
  ASSUME NEW r, IsRun(r), NEW x, NEW y, NEW q,
         q = [interval |-> r.interval, seq |-> r.seq + 1, pos |-> x, out |-> y]
  PROVE  IsRun(q) /\ q.interval = r.interval /\ q.seq = r.seq + 1
  <1>1. q.interval = r.interval /\ q.seq = r.seq + 1 /\ q.pos = x /\ q.out = y
    OBVIOUS
  <1>2. r.interval \in Settings \cup {0} /\ r.seq + 1 \in Nat
    BY DEF IsRun
  <1> QED
    BY <1>1, <1>2 DEF IsRun

\* An item that is due is not early: s * k <= n puts s into the first n \div k.
LEMMA DueIsReached ==
  ASSUME NEW s \in Nat, NEW k \in Nat \ {0}, NEW n \in Nat, s * k <= n
  PROVE  s <= n \div k
  <1> DEFINE d == n \div k
  <1>1. d \in Nat /\ n < (d + 1) * k
    BY Z3
  <1> HIDE DEF d
  <1>2. SUFFICES ASSUME d < s PROVE FALSE
    BY <1>1 DEF d
  <1>3. d + 1 <= s
    BY <1>1, <1>2
  <1>4. (d + 1) * k <= s * k
    BY <1>1, <1>3, Z3
  <1> QED
    BY <1>1, <1>4

\* One more item is one more that is counted, up to the last that can be.
LEMMA LeastGrows ==
  ASSUME NEW a \in Nat, NEW b \in Nat
  PROVE  Least(a, b) \in Nat /\ Least(a + 1, b + 1) = Least(a, b) + 1
  BY DEF Least

LEMMA TimeMakesMoreDue ==
  ASSUME NEW k \in Nat \ {0}, NEW n \in Nat
  PROVE  n \div k \in Nat /\ n \div k <= (n + 1) \div k
  BY Z3

-----------------------------------------------------------------------------
(* The steps.                                                              *)

LEMMA InitInv == Init => Inv
  <1> SUFFICES ASSUME Init PROVE Inv
    OBVIOUS
  <1>1. BoardInv
    BY NoneAssumption DEF Init, BoardInv, Media
  <1>2. StaticsInv
    BY DEF Init, StaticsInv
  <1>3. PacedFromTheStart /\ SaidIsSo
    BY DEF Init, PacedFromTheStart, SaidIsSo
  <1> QED
    BY <1>1, <1>2, <1>3 DEF Inv

\* A step that leaves the board's runs and queues, its clock and what the
\* sketch was told alone: a refusal, an answer, a reading.
SameRuns ==
  /\ UNCHANGED <<platform, installed, boards, now, asleep, config, begunOn>>
  /\ installed # 0 => IsBoard(board') /\ \A p \in Peripherals : board'[p] = board[p]

LEMMA SameRunsKeeps == Inv /\ SameRuns => Inv'
  <1> SUFFICES ASSUME Inv, SameRuns PROVE Inv'
    OBVIOUS
  <1>1. BoardInv'
    BY DEF Inv, SameRuns, BoardInv, Peripherals, Begun
  <1>2. StaticsInv'
    BY DEF Inv, SameRuns, StaticsInv
  <1>3. PacedFromTheStart'
    BY DEF Inv, SameRuns, PacedFromTheStart, Peripherals, Driverless, Begun
  <1>4. SaidIsSo'
    BY DEF Inv, SameRuns, SaidIsSo, Peripherals
  <1> QED
    BY <1>1, <1>2, <1>3, <1>4 DEF Inv

\* Most steps are of that kind.
LEMMA QuietSteps ==
  ASSUME Inv,
         \/ NoBoard \/ WifiBegin \/ WifiHost \/ Store \/ Ask \/ Answer
         \/ \E p \in Media : MediaRefused(p) \/ MicSpent(p) \/ NotBegun(p)
         \/ \E q \in Queues : QueueMissing(q) \/ Write(q) \/ Poll(q)
  PROVE  SameRuns
  <1>1. installed # 0 => IsBoard(board)
    BY DEF Inv, BoardInv
  <1>2. ASSUME NEW b, IsBoard(b), NEW f \in {"pdm", "joined", "net"}, NEW v
        PROVE  /\ IsBoard([b EXCEPT ![f] = v])
               /\ \A p \in Peripherals : [b EXCEPT ![f] = v][p] = b[p]
    BY <1>2, SetField, FieldNames DEF Peripherals, Media, Queues
  <1>3. CASE NoBoard
    BY <1>3 DEF NoBoard, Refuse, SameRuns, program, statics
  <1>4. CASE \/ WifiHost \/ Ask \/ Answer \/ Store
             \/ \E p \in Media : MediaRefused(p) \/ NotBegun(p)
             \/ \E q \in Queues : QueueMissing(q) \/ Write(q) \/ Poll(q)
    BY <1>1, <1>4 DEF WifiHost, Ask, Answer, Store, MediaRefused, NotBegun, QueueMissing,
                      Write, Poll, Refuse, Succeed, SameRuns, program, statics
  <1>5. CASE \E p \in Media : MicSpent(p)
    <2>1. /\ installed # 0 /\ board' \in {board, [board EXCEPT !["pdm"] = FALSE]}
          /\ UNCHANGED <<platform, installed, boards, now, asleep, config, begunOn>>
      BY <1>5 DEF MicSpent, Refuse, program, statics
    <2>2. /\ IsBoard([board EXCEPT !["pdm"] = FALSE])
          /\ \A p \in Peripherals : [board EXCEPT !["pdm"] = FALSE][p] = board[p]
      BY <1>1, <1>2, <2>1
    <2>3. IsBoard(board') /\ \A p \in Peripherals : board'[p] = board[p]
      BY <1>1, <2>1, <2>2, Zenon
    <2> QED
      BY <2>1, <2>3 DEF SameRuns
  <1>6. CASE WifiBegin
    <2> DEFINE spent == [board EXCEPT !["net"] = FALSE]
    <2>1. /\ installed # 0
          /\ \/ board' \in {board, [board EXCEPT !["joined"] = TRUE], spent}
             \/ board' = [spent EXCEPT !["joined"] = TRUE]
          /\ UNCHANGED <<platform, installed, boards, now, asleep, config, begunOn>>
      BY <1>6 DEF WifiBegin, OnA, Refuse, Succeed, program, statics
    <2>2. IsBoard(spent) /\ \A p \in Peripherals : spent[p] = board[p]
      BY <1>1, <1>2, <2>1
    <2> HIDE DEF spent
    <2>3. /\ IsBoard([spent EXCEPT !["joined"] = TRUE])
          /\ \A p \in Peripherals : [spent EXCEPT !["joined"] = TRUE][p] = board[p]
      <3>1. /\ IsBoard([spent EXCEPT !["joined"] = TRUE])
            /\ \A p \in Peripherals : [spent EXCEPT !["joined"] = TRUE][p] = spent[p]
        BY <1>2, <2>2, Zenon
      <3> QED
        BY <2>2, <3>1
    <2>4. /\ IsBoard([board EXCEPT !["joined"] = TRUE])
          /\ \A p \in Peripherals : [board EXCEPT !["joined"] = TRUE][p] = board[p]
      BY <1>1, <1>2, <2>1
    <2>5. IsBoard(board') /\ \A p \in Peripherals : board'[p] = board[p]
      BY <1>1, <2>1, <2>2, <2>3, <2>4, Zenon
    <2> QED
      BY <2>1, <2>5 DEF SameRuns
  <1> QED
    BY <1>3, <1>4, <1>5, <1>6

\* A board that comes or goes has no run, and nothing was begun on it.
LEMMA BoardChanges ==
  ASSUME Inv, Install \/ Uninstall
  PROVE  Inv'
  <1>1. CASE Install
    <2>1. /\ installed' = boards + 1 /\ boards' = boards + 1 /\ board' = NewBoard /\ now' = 0
          /\ asleep = None /\ UNCHANGED <<platform, asleep, config, begunOn>>
      BY <1>1 DEF Install, Between, program, statics
    <2>2. BoardInv'
      BY <2>1, NewBoardIsBoard, NoneAssumption DEF Inv, BoardInv, Media
    <2>3. StaticsInv'
      BY <2>1 DEF Inv, StaticsInv, BoardInv
    <2>4. PacedFromTheStart'
      BY <2>1, NewBoardIsBoard DEF PacedFromTheStart, Begun
    <2>5. ASSUME NEW p \in Peripherals PROVE begunOn'[p] # installed'
      BY <2>1 DEF Inv, StaticsInv, BoardInv
    <2> QED
      BY <2>2, <2>3, <2>4, <2>5 DEF Inv, SaidIsSo
  <1>2. CASE Uninstall
    <2>1. /\ installed' = 0 /\ now' = 0 /\ asleep = None
          /\ UNCHANGED <<boards, asleep, config, begunOn>>
      BY <1>2 DEF Uninstall, Between, statics
    <2>2. BoardInv'
      BY <2>1, NoneAssumption DEF Inv, BoardInv, Media
    <2>3. StaticsInv'
      BY <2>1 DEF Inv, StaticsInv
    <2> QED
      BY <2>1, <2>2, <2>3 DEF Inv, SaidIsSo, PacedFromTheStart
  <1> QED
    BY <1>1, <1>2

\* A new run replaces the old one, and is what the sketch is told.
LEMMA RunBegins ==
  ASSUME Inv, NEW p \in Media, NEW s \in Settings, MediaBegin(p, s)
  PROVE  Inv'
  <1> DEFINE begun == [board EXCEPT ![p] = NewRun(s)]
  <1>1. /\ installed # 0 /\ asleep = None
        /\ \E v : board' = [begun EXCEPT !["pdm"] = v]
        /\ UNCHANGED <<platform, installed, boards, now, asleep>>
        /\ config' = [config EXCEPT ![p] = s] /\ begunOn' = [begunOn EXCEPT ![p] = installed]
    BY DEF MediaBegin, Between, Succeed, Keep, program
  <1>2. p \in Fields /\ p # "pdm" /\ Peripherals \subseteq Fields \ {"pdm"} /\ p \in Peripherals
    BY FieldNames DEF Media, Queues, Peripherals
  <1>3. IsBoard(begun) /\ begun[p] = NewRun(s) /\ \A g \in Peripherals \ {p} : begun[g] = board[g]
    <2>1. IsBoard(board)
      BY <1>1 DEF Inv, BoardInv
    <2>2. IsBoard(begun) /\ begun[p] = NewRun(s) /\ \A g \in Fields \ {p} : begun[g] = board[g]
      BY <1>2, <2>1 DEF IsBoard
    <2> QED
      BY <1>2, <2>2
  <1> HIDE DEF begun
  <1>4. PICK v : board' = [begun EXCEPT !["pdm"] = v]
    BY <1>1
  <1>5. IsBoard(board') /\ \A g \in Peripherals : board'[g] = begun[g]
    <2>1. "pdm" \in Fields
      BY FieldNames
    <2>2. IsBoard(board') /\ \A g \in Fields \ {"pdm"} : board'[g] = begun[g]
      BY <1>3, <1>4, <2>1 DEF IsBoard
    <2> QED
      BY <1>2, <2>2
  <1>6. board'[p] = NewRun(s) /\ \A g \in Peripherals \ {p} : board'[g] = board[g]
    BY <1>2, <1>3, <1>5
  <1>7. s \in Nat \ {0} /\ now \in Nat
    BY SettingsAssumption DEF Inv, BoardInv
  <1>8. BoardInv'
    BY <1>1, <1>5, <1>6, NewRunIsRun, NoneAssumption DEF Inv, BoardInv, Media, Peripherals
  <1>9. StaticsInv'
    BY <1>1, <1>2 DEF Inv, StaticsInv, BoardInv
  <1>10. PacedFromTheStart'
    <2>1. Least(NewRun(s).seq, MaxFactor + 1) <= 1 + now \div NewRun(s).interval
      <3>1. Least(0, MaxFactor + 1) = 0
        BY FactorAssumption DEF Least
      <3> QED
        BY <1>7, <3>1, NewRunIsRun, TimeMakesMoreDue
    <2> QED
      BY <1>1, <1>6, <2>1 DEF Inv, PacedFromTheStart, Driverless, Peripherals, Begun
  <1>11. SaidIsSo'
    <2>1. ASSUME NEW g \in Media, begunOn'[g] = installed' PROVE board'[g].interval = config'[g]
      <3>1. CASE g = p
        BY <1>1, <1>2, <1>6, <3>1, NewRunIsRun DEF Inv, StaticsInv
      <3>2. CASE g # p
        BY <1>1, <1>6, <2>1, <3>2 DEF Inv, SaidIsSo, StaticsInv, Peripherals
      <3> QED
        BY <3>1, <3>2
    <2>2. \A g \in Peripherals \ Media :
             /\ config'[g] = config[g] /\ begunOn'[g] = begunOn[g] /\ board'[g] = board[g]
      BY <1>1, <1>2, <1>6 DEF Inv, StaticsInv
    <2> QED
      BY <1>1, <2>1, <2>2 DEF Inv, SaidIsSo, Media
  <1> QED
    BY <1>8, <1>9, <1>10, <1>11 DEF Inv

\* A run that goes on keeps what it was begun with, and its time.
LEMMA RunMoves ==
  ASSUME Inv, NEW p \in Media, NEW q, IsRun(q), installed # 0,
         q.interval = board[p].interval,
         q.interval # 0 /\ ~Driverless(p) =>
           Least(q.seq, MaxFactor + 1) <= 1 + now \div q.interval,
         board' = [board EXCEPT ![p] = q], asleep' = None,
         UNCHANGED <<platform, installed, boards, now, config, begunOn>>
  PROVE  Inv'
  <1>1. p \in Fields /\ Peripherals \subseteq Fields /\ Media \subseteq Peripherals
    BY FieldNames DEF Media, Queues, Peripherals
  <1>2. /\ IsBoard(board') /\ board'[p] = q
        /\ \A g \in Peripherals \ {p} : board'[g] = board[g]
    <2>1. IsBoard(board)
      BY DEF Inv, BoardInv
    <2>2. IsBoard(board') /\ board'[p] = q /\ \A g \in Fields \ {p} : board'[g] = board[g]
      BY <1>1, <2>1 DEF IsBoard
    <2> QED
      BY <1>1, <2>2
  <1>3. BoardInv'
    BY <1>1, <1>2, NoneAssumption DEF Inv, BoardInv, Media
  <1>4. StaticsInv'
    BY DEF Inv, StaticsInv
  <1>5. PacedFromTheStart'
    BY <1>1, <1>2 DEF Inv, PacedFromTheStart, Driverless, Begun
  <1>6. SaidIsSo'
    BY <1>1, <1>2 DEF Inv, SaidIsSo, Media
  <1> QED
    BY <1>3, <1>4, <1>5, <1>6 DEF Inv


\* An item is handed out once it is due; a frame of the chip's camera that was
\* due is counted also when it fails.
LEMMA RunDelivers ==
  ASSUME Inv, NEW p \in Media, Deliver(p) \/ DeliverFails(p)
  PROVE  Inv'
  <1> DEFINE r == board[p]
  <1>1. /\ asleep = p /\ now >= Due(p) /\ asleep' = None
        /\ UNCHANGED <<platform, installed, boards, now, config, begunOn>>
    BY DEF Deliver, DeliverFails, program, statics
  <1>2. installed # 0 /\ IsRun(r) /\ r.interval # 0 /\ IsBoard(board) /\ now \in Nat
    BY <1>1 DEF Inv, BoardInv, Begun
  <1>3. p \in Fields
    BY FieldNames DEF Media
  <1>4. ASSUME NEW q, q.interval = r.interval, q.seq = r.seq + 1
        PROVE  q.interval # 0 /\ ~Driverless(p) =>
                 Least(q.seq, MaxFactor + 1) <= 1 + now \div q.interval
    <2>1. SUFFICES ASSUME ~Driverless(p)
                   PROVE  Least(q.seq, MaxFactor + 1) <= 1 + now \div q.interval
      OBVIOUS
    <2> DEFINE f == Least(r.seq, MaxFactor)
    <2>2. r.interval \in Nat \ {0} /\ f * r.interval <= now
      BY <1>1, <1>2, <2>1, SettingsAssumption DEF IsRun, Due, Factor
    <2>3. f \in Nat /\ Least(q.seq, MaxFactor + 1) = f + 1
      BY <1>2, <1>4, FactorAssumption, LeastGrows DEF IsRun
    <2> HIDE DEF f
    <2>4. f <= now \div r.interval /\ now \div r.interval \in Nat
      BY <1>2, <2>2, <2>3, DueIsReached, TimeMakesMoreDue
    <2> QED
      BY <1>4, <2>3, <2>4
  <1>5. CASE Deliver(p)
    <2>1. PICK x, y, q : /\ q = [r EXCEPT !.seq = @ + 1, !.pos = x, !.out = y]
                         /\ board' = [board EXCEPT ![p] = q]
      BY <1>2, <1>3, <1>5 DEF Deliver, IsBoard
    <2>2. IsRun(q) /\ q.interval = r.interval /\ q.seq = r.seq + 1
      <3>1. q = [interval |-> r.interval, seq |-> r.seq + 1, pos |-> x, out |-> y]
        BY <1>2, <2>1 DEF IsRun
      <3> QED
        BY <1>2, <3>1, RunGoesOn
    <2> QED
      BY <1>1, <1>2, <1>4, <2>1, <2>2, RunMoves
  <1>6. CASE DeliverFails(p) /\ p = "camera"
    <2>1. PICK q : q = [r EXCEPT !.seq = @ + 1] /\ board' = [board EXCEPT ![p] = q]
      BY <1>2, <1>3, <1>6 DEF DeliverFails, IsBoard
    <2>2. IsRun(q) /\ q.interval = r.interval /\ q.seq = r.seq + 1
      <3>1. q = [interval |-> r.interval, seq |-> r.seq + 1, pos |-> r.pos, out |-> r.out]
        BY <1>2, <2>1 DEF IsRun
      <3> QED
        BY <1>2, <3>1, RunGoesOn
    <2> QED
      BY <1>1, <1>2, <1>4, <2>1, <2>2, RunMoves
  <1>7. CASE DeliverFails(p) /\ p # "camera"
    <2>1. board' = board
      BY <1>7 DEF DeliverFails
    <2>2. board = [board EXCEPT ![p] = r]
      BY <1>2, <1>3 DEF IsBoard
    <2>3. r.interval # 0 /\ ~Driverless(p) =>
            Least(r.seq, MaxFactor + 1) <= 1 + now \div r.interval
      BY <1>2 DEF Inv, PacedFromTheStart, Begun
    <2> QED
      BY <1>1, <1>2, <2>1, <2>2, <2>3, RunMoves
  <1> QED
    BY <1>5, <1>6, <1>7

\* A queue is begun or ended: what the board has, and what the sketch hears.
Told(q, s) ==
  /\ board' = [board EXCEPT ![q] = s]
  /\ config' = [config EXCEPT ![q] = s]
  /\ begunOn' = begunOn \/ begunOn' = [begunOn EXCEPT ![q] = installed]

\* What the radar and provisioning are told, and what a sketch hears of it.
LEMMA QueueSteps ==
  ASSUME Inv,
         \/ RadarEnd \/ \E joined \in BOOLEAN : Report(joined)
         \/ \E q \in Queues : \E s \in Settings : QueueBegin(q, s)
  PROVE  Inv'
  <1>1. ASSUME NEW q \in Queues, NEW s \in Settings \cup {None}, Told(q, s), installed # 0,
               UNCHANGED <<platform, installed, boards, now, asleep>>
        PROVE  Inv'
    <2>1. q \in Fields /\ Peripherals \subseteq Fields /\ q \in Peripherals /\ q \notin Media
      BY FieldNames DEF Media, Queues, Peripherals
    <2>2. IsBoard(board') /\ board'[q] = s /\ \A g \in Peripherals \ {q} : board'[g] = board[g]
      <3>1. IsBoard(board)
        BY <1>1 DEF Inv, BoardInv
      <3>2. IsBoard(board') /\ board'[q] = s /\ \A g \in Fields \ {q} : board'[g] = board[g]
        BY <1>1, <2>1, <3>1 DEF IsBoard, Told
      <3> QED
        BY <2>1, <3>2
    <2>3. BoardInv'
      BY <1>1, <2>1, <2>2 DEF Inv, BoardInv, Peripherals, Begun
    <2>4. StaticsInv'
      BY <1>1, <2>1 DEF Inv, StaticsInv, BoardInv, Told
    <2>5. PacedFromTheStart'
      BY <1>1, <2>1, <2>2 DEF Inv, PacedFromTheStart, Driverless, Begun, Peripherals
    <2>6. /\ config'[q] = s
          /\ \A g \in Peripherals \ {q} : config'[g] = config[g] /\ begunOn'[g] = begunOn[g]
      BY <1>1, <2>1 DEF Inv, StaticsInv, Told
    <2>7. SaidIsSo'
      BY <1>1, <2>1, <2>2, <2>6 DEF Inv, SaidIsSo
    <2> QED
      BY <2>3, <2>4, <2>5, <2>7 DEF Inv
  <1>2. CASE \E q \in Queues : \E s \in Settings : QueueBegin(q, s)
    <2>1. PICK q \in Queues, s \in Settings : QueueBegin(q, s)
      BY <1>2
    <2>2. /\ Told(q, s) /\ installed # 0
          /\ UNCHANGED <<platform, installed, boards, now, asleep>>
      BY <2>1 DEF QueueBegin, OnA, Succeed, Keep, program, Told
    <2> QED
      BY <1>1, <2>2
  <1>3. IsBoard(board) \/ installed = 0
    BY DEF Inv, BoardInv
  <1>4. CASE \E joined \in BOOLEAN : Report(joined)
    <2>1. PICK joined \in BOOLEAN : Report(joined)
      BY <1>4
    <2>2. installed # 0 /\ UNCHANGED <<platform, installed, boards, now, asleep, begunOn>>
      BY <2>1 DEF Report, Succeed, program
    <2>3. CASE joined
      <3>1. Told("provisioning", None)
        BY <2>1, <2>3 DEF Report, Succeed, Told
      <3> QED
        BY <1>1, <2>2, <3>1 DEF Queues
    <2>4. CASE ~joined
      <3>1. board' = board /\ config' = config
        BY <2>1, <2>4 DEF Report, Succeed
      <3> QED
        BY <1>3, <2>2, <3>1, SameRunsKeeps DEF SameRuns
    <2> QED
      BY <2>3, <2>4
  <1>5. CASE RadarEnd
    <2>1. /\ config' = [config EXCEPT !["radar"] = None]
          /\ UNCHANGED <<platform, installed, boards, board, now, asleep, begunOn>>
      BY <1>5 DEF RadarEnd, program
    <2>2. BoardInv' /\ PacedFromTheStart'
      BY <2>1 DEF Inv, BoardInv, Begun, PacedFromTheStart, Driverless
    <2>3. StaticsInv' /\ SaidIsSo'
      BY <2>1 DEF Inv, StaticsInv, SaidIsSo, Media, Queues, Peripherals
    <2> QED
      BY <2>2, <2>3 DEF Inv
  <1> QED
    BY <1>2, <1>4, <1>5

\* A read that falls asleep, and time that passes.
LEMMA ClockSteps ==
  ASSUME Inv, Tick \/ \E p \in Media : Read(p)
  PROVE  Inv'
  <1>1. CASE Tick
    <2>1. /\ now' = now + 1 /\ installed # 0
          /\ UNCHANGED <<platform, installed, boards, board, asleep, config, begunOn>>
      BY <1>1 DEF Tick, program, statics
    <2>2. BoardInv' /\ StaticsInv' /\ SaidIsSo'
      BY <2>1 DEF Inv, BoardInv, StaticsInv, SaidIsSo, Begun
    <2>3. ASSUME NEW p \in Media, Begun(p), ~Driverless(p)
          PROVE  Least(board[p].seq, MaxFactor + 1) <= 1 + (now + 1) \div board[p].interval
      <3> DEFINE k == board[p].interval
                 n == Least(board[p].seq, MaxFactor + 1)
      <3>1. k \in Nat \ {0} /\ n \in Nat /\ now \in Nat /\ n <= 1 + now \div k
        <4>1. k \in Nat \ {0} /\ board[p].seq \in Nat /\ now \in Nat
          BY <2>1, <2>3, SettingsAssumption DEF Inv, BoardInv, IsRun, Begun
        <4>2. n \in Nat
          BY <4>1, FactorAssumption DEF Least
        <4>3. n <= 1 + now \div k
          BY <2>1, <2>3 DEF Inv, PacedFromTheStart
        <4> QED
          BY <4>1, <4>2, <4>3
      <3> HIDE DEF k, n
      <3>2. now \div k \in Nat /\ now \div k <= (now + 1) \div k /\ (now + 1) \div k \in Nat
        BY <3>1, TimeMakesMoreDue
      <3>3. n <= 1 + (now + 1) \div k
        BY <3>1, <3>2
      <3> QED
        BY <3>3 DEF k, n
    <2>4. PacedFromTheStart'
      BY <2>1, <2>3 DEF PacedFromTheStart, Driverless, Begun
    <2> QED
      BY <2>2, <2>4 DEF Inv
  <1>2. CASE \E p \in Media : Read(p)
    <2>1. PICK p \in Media : Read(p)
      BY <1>2
    <2>2. /\ installed # 0 /\ Begun(p) /\ asleep' = p
          /\ UNCHANGED <<platform, installed, boards, board, now, config, begunOn>>
      BY <2>1 DEF Read, program, statics
    <2> QED
      BY <2>2 DEF Inv, BoardInv, StaticsInv, SaidIsSo, PacedFromTheStart, Driverless, Begun
  <1> QED
    BY <1>1, <1>2

LEMMA NextInv == Inv /\ [Next]_vars => Inv'
  <1> SUFFICES ASSUME Inv, [Next]_vars PROVE Inv'
    OBVIOUS
  <1>1. CASE UNCHANGED vars
    BY <1>1, SameRunsKeeps DEF vars, program, statics, SameRuns, Inv, BoardInv
  <1>2. CASE \/ NoBoard \/ WifiBegin \/ WifiHost \/ Store \/ Ask \/ Answer
             \/ \E p \in Media : MediaRefused(p) \/ MicSpent(p) \/ NotBegun(p)
             \/ \E q \in Queues : QueueMissing(q) \/ Write(q) \/ Poll(q)
    BY <1>2, QuietSteps, SameRunsKeeps
  <1>3. CASE Install \/ Uninstall
    BY <1>3, BoardChanges
  <1>4. CASE \E p \in Media : \E s \in Settings : MediaBegin(p, s)
    BY <1>4, RunBegins
  <1>5. CASE Wake
    BY <1>5, RunDelivers DEF Wake
  <1>6. CASE \/ RadarEnd \/ \E joined \in BOOLEAN : Report(joined)
             \/ \E q \in Queues : \E s \in Settings : QueueBegin(q, s)
    BY <1>6, QueueSteps
  <1>7. CASE Tick \/ \E p \in Media : Read(p)
    BY <1>7, ClockSteps
  <1> QED
    BY <1>1, <1>2, <1>3, <1>4, <1>5, <1>6, <1>7 DEF Next

\* No item is handed out early, whatever the intervals, the order of the calls
\* and the boards that come and go, up to the last item that the factor of an
\* interval can count: a run counts from its own beginning, and begins at or
\* after the start of its board's clock.
THEOREM RunsArePaced == Spec => []PacedFromTheStart
  <1>1. Inv => PacedFromTheStart
    BY DEF Inv
  <1> QED
    BY <1>1, InitInv, NextInv, PTL DEF Spec

\* What config() and active() say is what the board they were begun on does.
THEOREM SketchIsToldTheTruth == Spec => []SaidIsSo
  <1>1. Inv => SaidIsSo
    BY DEF Inv
  <1> QED
    BY <1>1, InitInv, NextInv, PTL DEF Spec

-----------------------------------------------------------------------------
(* The loop over the file: the function that is defined by recursion has the *)
(* value that a reader of MicRun::read expects of it.                        *)

\* A place in the file.
Places == 0 .. FileLen - 1

LEMMA Lengths == FileLen \in Nat /\ FileLen # 0 /\ BlockLen \in Nat /\ BlockLen # 0
  BY FileAssumption

\* Division with remainder, by the length of the file.
LEMMA DivMod ==
  ASSUME NEW a \in Nat
  PROVE  /\ a = FileLen * (a \div FileLen) + (a % FileLen)
         /\ a \div FileLen \in Nat
         /\ a % FileLen \in Places
  BY Lengths, SMT DEF Places

\* The remainder is unique.
LEMMA ModUnique ==
  ASSUME NEW q \in Nat, NEW r \in Places
  PROVE  (FileLen * q + r) % FileLen = r
  BY Lengths, SMT DEF Places

\* The place in the file may be reduced before a step or after it.
LEMMA ModAdd ==
  ASSUME NEW a \in Nat, NEW b \in Nat
  PROVE  ((a % FileLen) + b) % FileLen = (a + b) % FileLen
  <1> DEFINE q == a \div FileLen
             r == a % FileLen
             d == (r + b) \div FileLen
             m == (r + b) % FileLen
  <1>1. a = FileLen * q + r /\ q \in Nat /\ r \in Nat /\ FileLen \in Nat
    BY DivMod, Lengths DEF Places
  <1>2. r + b = FileLen * d + m /\ d \in Nat /\ m \in Places
    <2>1. r + b \in Nat
      BY <1>1
    <2> HIDE DEF r
    <2> QED
      BY <2>1, DivMod
  <1> HIDE DEF q, r, d, m
  <1>3. a + b = FileLen * (q + d) + m
    <2> DEFINE x == FileLen * q
               y == FileLen * d
    <2>1. FileLen * (q + d) = x + y /\ x \in Nat /\ y \in Nat
      BY <1>1, <1>2, SMT
    <2>2. a = x + r /\ r + b = y + m /\ m \in Nat
      BY <1>1, <1>2, Lengths DEF Places
    <2> HIDE DEF x, y
    <2>3. a + b = (x + y) + m
      BY <1>1, <2>1, <2>2
    <2> QED
      BY <2>1, <2>3
  <1>4. (a + b) % FileLen = m
    <2>1. q + d \in Nat
      BY <1>1, <1>2
    <2>2. (FileLen * (q + d) + m) % FileLen = m
      BY <1>2, <2>1, ModUnique
    <2> QED
      BY <1>3, <2>2
  <1> QED
    BY <1>4 DEF m, r

\* A function on 1 .. n is a sequence of that length.
LEMMA IsSequence ==
  ASSUME NEW n \in Nat, NEW f \in [1 .. n -> Int]
  PROVE  f \in Seq(Int) /\ Len(f) = n
  BY SMT

\* Two pieces one behind the other are the whole.
LEMMA Spliced ==
  ASSUME NEW a \in Seq(Int), NEW b \in Seq(Int), NEW c \in Seq(Int),
         Len(c) = Len(a) + Len(b),
         \A i \in 1 .. Len(a) : a[i] = c[i],
         \A i \in 1 .. Len(b) : b[i] = c[Len(a) + i]
  PROVE  a \o b = c
  <1>1. Len(a) \in Nat /\ Len(b) \in Nat
    OBVIOUS
  <1>2. /\ a \o b \in Seq(Int) /\ Len(a \o b) = Len(a) + Len(b)
        /\ \A i \in 1 .. Len(a) + Len(b) :
             (a \o b)[i] = IF i <= Len(a) THEN a[i] ELSE b[i - Len(a)]
    BY ConcatProperties
  <1>3. ASSUME NEW i \in 1 .. Len(c) PROVE (a \o b)[i] = c[i]
    <2>1. CASE i <= Len(a)
      BY <1>1, <1>2, <2>1
    <2>2. CASE ~(i <= Len(a))
      <3>1. i - Len(a) \in 1 .. Len(b) /\ Len(a) + (i - Len(a)) = i
        BY <1>1, <2>2
      <3>2. b[i - Len(a)] = c[Len(a) + (i - Len(a))]
        BY <3>1
      <3> QED
        BY <1>1, <1>2, <2>2, <3>1, <3>2
    <2> QED
      BY <2>1, <2>2
  <1> QED
    BY <1>2, <1>3, SeqEqual

\* The file over and over, without a loop.
Laid(need, pos) ==
  [bytes |-> [i \in 1 .. need |-> (pos + i - 1) % FileLen], pos |-> (pos + need) % FileLen]

\* The piece up to the end of the file, and what the loop lays behind it.
LEMMA OnePiece ==
  ASSUME NEW need \in 1 .. BlockLen, NEW pos \in Places, NEW take, take = Least(need, FileLen - pos)
  PROVE  /\ take \in 1 .. need /\ need - take \in 0 .. BlockLen
         /\ (pos + take) % FileLen \in Places
         /\ Laid(need, pos) =
              [bytes |-> [i \in 1 .. take |-> pos + i - 1]
                           \o Laid(need - take, (pos + take) % FileLen).bytes,
               pos |-> Laid(need - take, (pos + take) % FileLen).pos]
  <1>1. /\ FileLen \in Nat \ {0} /\ BlockLen \in Nat /\ pos \in Nat /\ need \in Nat
        /\ take \in 1 .. need /\ need - take \in 0 .. BlockLen /\ take <= FileLen - pos
    BY Lengths DEF Places, Least
  <1>2. (pos + take) % FileLen \in Places
    BY <1>1, DivMod
  <1> DEFINE here == [i \in 1 .. take |-> pos + i - 1]
             from == (pos + take) % FileLen
             rest == [i \in 1 .. need - take |-> (from + i - 1) % FileLen]
             all  == [i \in 1 .. need |-> (pos + i - 1) % FileLen]
  <1>3. (from + (need - take)) % FileLen = (pos + need) % FileLen
    <2>1. pos + take \in Nat /\ need - take \in Nat /\ pos + take + (need - take) = pos + need
      BY <1>1
    <2>2. (((pos + take) % FileLen) + (need - take)) % FileLen
            = (pos + take + (need - take)) % FileLen
      BY <2>1, ModAdd
    <2> QED
      BY <2>1, <2>2
  <1>4. \A i \in 1 .. need - take : (from + i - 1) % FileLen = (pos + (take + i) - 1) % FileLen
    <2> TAKE i \in 1 .. need - take
    <2>1. i - 1 \in Nat /\ pos + take \in Nat
      BY <1>1
    <2>2. (((pos + take) % FileLen) + (i - 1)) % FileLen = (pos + take + (i - 1)) % FileLen
      BY <2>1, ModAdd
    <2>3. from + (i - 1) = from + i - 1 /\ pos + take + (i - 1) = pos + (take + i) - 1
      BY <1>1, <1>2 DEF Places
    <2> QED
      BY <2>2, <2>3
  <1>5. \A i \in 1 .. take : (pos + i - 1) % FileLen = pos + i - 1
    <2> TAKE i \in 1 .. take
    <2>1. pos + i - 1 \in Places
      BY <1>1 DEF Places
    <2> QED
      BY <2>1, ModUnique, <1>1 DEF Places
  <1>6. here \in [1 .. take -> Int] /\ rest \in [1 .. need - take -> Int] /\ all \in [1 .. need -> Int]
    <2>1. \A i \in 1 .. need : (pos + i - 1) % FileLen \in Int
      BY <1>1, DivMod DEF Places
    <2>2. \A i \in 1 .. need - take : (from + i - 1) % FileLen \in Int
      BY <1>1, <1>2, DivMod DEF Places
    <2>3. \A i \in 1 .. take : pos + i - 1 \in Int
      BY <1>1
    <2> HIDE DEF from
    <2> QED
      BY <2>1, <2>2, <2>3
  <1>7. /\ \A i \in 1 .. take : here[i] = all[i]
        /\ \A i \in 1 .. need - take : rest[i] = all[take + i]
    <2>1. \A i \in 1 .. need - take : take + i \in 1 .. need
      BY <1>1
    <2>2. \A i \in 1 .. take : i \in 1 .. need
      BY <1>1
    <2> HIDE DEF from
    <2> QED
      BY <1>4, <1>5, <2>1, <2>2
  <1>8. here \o rest = all
    <2> HIDE DEF here, rest, all, from
    <2>1. take \in Nat /\ need - take \in Nat
      BY <1>1
    <2>2. here \in Seq(Int) /\ Len(here) = take
      BY <1>6, <2>1, IsSequence
    <2>3. rest \in Seq(Int) /\ Len(rest) = need - take
      BY <1>6, <2>1, IsSequence
    <2>4. all \in Seq(Int) /\ Len(all) = need
      BY <1>1, <1>6, IsSequence
    <2>5. Len(all) = Len(here) + Len(rest)
      BY <1>1, <2>2, <2>3, <2>4
    <2>6. /\ \A i \in 1 .. Len(here) : here[i] = all[i]
          /\ \A i \in 1 .. Len(rest) : rest[i] = all[Len(here) + i]
      BY <1>7, <2>2, <2>3
    <2> QED
      BY <2>2, <2>3, <2>4, <2>5, <2>6, Spliced
  <1> QED
    BY <1>1, <1>2, <1>3, <1>8 DEF Laid

\* The equation of Fill, for any function in its place.
FillsFrom(g, need, pos) ==
  IF need = 0 THEN [bytes |-> <<>>, pos |-> pos]
  ELSE LET take == Least(need, FileLen - pos)
           rest == g[need - take][(pos + take) % FileLen]
       IN [bytes |-> [i \in 1 .. take |-> pos + i - 1] \o rest.bytes, pos |-> rest.pos]

Once(g) == [need \in 0 .. BlockLen |-> [pos \in 0 .. FileLen - 1 |-> FillsFrom(g, need, pos)]]

Fills(g) == g = Once(g)

\* What is laid out satisfies the equation of the loop: there is such a function.
LEMMA LaidFills ==
  \E g : Fills(g)
  <1> DEFINE g == [need \in 0 .. BlockLen |-> [pos \in 0 .. FileLen - 1 |-> Laid(need, pos)]]
  <1>1. ASSUME NEW need \in 0 .. BlockLen, NEW pos \in 0 .. FileLen - 1
        PROVE  Laid(need, pos) = FillsFrom(g, need, pos)
    <2>1. CASE need = 0
      <3>1. pos % FileLen = pos /\ pos + 0 = pos
        BY Lengths
      <3>2. [i \in 1 .. 0 |-> (pos + i - 1) % FileLen] = <<>>
        OBVIOUS
      <3> QED
        BY <2>1, <3>1, <3>2 DEF Laid, FillsFrom
    <2>2. CASE need # 0
      <3> DEFINE take == Least(need, FileLen - pos)
                 from == (pos + take) % FileLen
      <3>1. need \in 1 .. BlockLen
        BY <2>2, Lengths
      <3>2. need - take \in 0 .. BlockLen /\ from \in 0 .. FileLen - 1
        BY <3>1, OnePiece DEF Places
      <3>3. g[need - take][from] = Laid(need - take, from)
        BY <3>2
      <3>4. Laid(need, pos) =
              [bytes |-> [i \in 1 .. take |-> pos + i - 1] \o Laid(need - take, from).bytes,
               pos |-> Laid(need - take, from).pos]
        BY <3>1, OnePiece DEF Places
      <3> HIDE DEF g
      <3> QED
        BY <2>2, <3>3, <3>4 DEF FillsFrom
    <2> QED
      BY <2>1, <2>2
  <1>2. Fills(g)
    BY <1>1 DEF Fills, Once
  <1> QED
    BY <1>2

\* Fill is one, since there is one.
LEMMA FillFills == Fills(Fill)
  <1>1. Fill = CHOOSE g : Fills(g)
    BY DEF Fill, Fills, Once, FillsFrom
  <1> QED
    BY <1>1, LaidFills

\* One round of the loop.
LEMMA FillEquation ==
  ASSUME NEW need \in 0 .. BlockLen, NEW pos \in Places
  PROVE  Fill[need][pos] = FillsFrom(Fill, need, pos)
  <1>1. Once(Fill)[need][pos] = FillsFrom(Fill, need, pos)
    BY DEF Once, Places
  <1> QED
    BY <1>1, FillFills DEF Fills

\* A set of numbers has a least one.  It stands for induction, which would need
\* a predicate as its parameter.
LEMMA LeastOne ==
  ASSUME NEW T, T \subseteq Nat, T # {}
  PROVE  \E n \in T : \A m \in T : ~ (m < n)
  <1>1. \E n \in T : \A m \in T : ~ (<<m, n>> \in OpToRel(<, Nat))
    BY NatLessThanWellFounded, WFMin
  <1>2. \A m \in Nat, n \in Nat : m < n => <<m, n>> \in OpToRel(<, Nat)
    BY DEF OpToRel
  <1> QED
    BY <1>1, <1>2

\* The loop lays out `need` samples from pos on, however often it comes to the end
\* of the file.  A least `need` for which it did not would have a first piece, and
\* behind it what the loop lays for fewer samples.
LEMMA FillIsLaid ==
  \A need \in 0 .. BlockLen : \A pos \in Places : Fill[need][pos] = Laid(need, pos)
  <1> DEFINE T == {need \in 0 .. BlockLen : ~ \A pos \in Places : Fill[need][pos] = Laid(need, pos)}
  <1>1. SUFFICES ASSUME T # {} PROVE FALSE
    OBVIOUS
  <1>2. PICK need \in T : \A m \in T : ~(m < need)
    <2>1. T \subseteq Nat
      BY Lengths
    <2> HIDE DEF T
    <2> QED
      BY <1>1, <2>1, LeastOne
  <1>3. PICK pos \in Places : Fill[need][pos] # Laid(need, pos)
    OBVIOUS
  <1>4. need \in 0 .. BlockLen /\ Fill[need][pos] = FillsFrom(Fill, need, pos)
    BY FillEquation
  <1>5. CASE need = 0
    <2>1. pos % FileLen = pos /\ pos + 0 = pos
      BY Lengths DEF Places
    <2>2. [i \in 1 .. 0 |-> (pos + i - 1) % FileLen] = <<>>
      OBVIOUS
    <2>3. Fill[need][pos] = [bytes |-> <<>>, pos |-> pos]
      BY <1>4, <1>5 DEF FillsFrom
    <2>4. Laid(need, pos) = [bytes |-> <<>>, pos |-> pos]
      BY <1>5, <2>1, <2>2 DEF Laid
    <2> QED
      BY <1>3, <2>3, <2>4
  <1>6. CASE need # 0
    <2> DEFINE take == Least(need, FileLen - pos)
               from == (pos + take) % FileLen
    <2>1. need \in 1 .. BlockLen
      BY <1>4, <1>6, Lengths
    <2>2. /\ take \in 1 .. need /\ need - take \in 0 .. BlockLen /\ from \in Places
          /\ Laid(need, pos) =
               [bytes |-> [i \in 1 .. take |-> pos + i - 1] \o Laid(need - take, from).bytes,
                pos |-> Laid(need - take, from).pos]
      BY <2>1, OnePiece
    <2>3. need - take < need
      BY <2>1, <2>2
    <2>4. Fill[need - take][from] = Laid(need - take, from)
      <3> HIDE DEF take, from
      <3>1. need - take \notin T
        BY <1>2, <2>3
      <3> QED
        BY <2>2, <3>1
    <2>5. Fill[need][pos] =
               [bytes |-> [i \in 1 .. take |-> pos + i - 1] \o Fill[need - take][from].bytes,
                pos |-> Fill[need - take][from].pos]
      BY <1>4, <1>6 DEF FillsFrom
    <2> QED
      BY <1>3, <2>2, <2>4, <2>5
  <1> QED
    BY <1>5, <1>6

-----------------------------------------------------------------------------
(* The types, and what becomes of the runs.                                  *)

\* A read that sleeps may count its item.
Reading == asleep \in Media => board[asleep].seq < MaxItems

\* TypeOK, in the parts that different steps write.
BoardTyped ==
  /\ boards \in 0 .. MaxBoards /\ installed \in {0, boards}
  /\ board \in IF installed = 0 THEN {None} ELSE Boards
  /\ now \in 0 .. MaxTime
  /\ asleep # None => asleep \in Media /\ installed # 0 /\ Begun(asleep)

SketchTyped ==
  /\ platform \in Kinds /\ uses \in Sketches
  /\ config \in [Peripherals -> Settings \cup {None}]
  /\ begunOn \in [Peripherals -> 0 .. MaxBoards]
  /\ asking \in BOOLEAN

LastTyped == last \in {None, "NoBoard", "NotBegun", "Core", "Io", "Missing"}

QueuesTyped ==
  /\ queue \in [Queues -> Seq(1 .. MaxWritten)]
  /\ taken \in [Queues -> Seq(1 .. MaxWritten)]
  /\ written \in [Queues -> 0 .. MaxWritten]

Types == BoardTyped /\ Reading /\ SketchTyped /\ LastTyped /\ QueuesTyped

LEMMA Bounds == MaxBoards \in Nat /\ MaxTime \in Nat /\ MaxItems \in Nat /\ MaxWritten \in Nat
  BY BoundsAssumption

LEMMA TypesAreTyped == Types => TypeOK
  BY DEF Types, BoardTyped, SketchTyped, LastTyped, QueuesTyped, TypeOK

\* The runs and boards as they are made, and what one field is made.
LEMMA NewRunTyped == ASSUME NEW s \in Settings \cup {0} PROVE NewRun(s) \in Runs
  <1>1. <<>> \in [1 .. 0 -> 0 .. FileLen - 1]
    OBVIOUS
  <1>2. 0 \in 0 .. MaxItems /\ 0 \in 0 .. FileLen - 1
    BY Bounds, Lengths
  <1> QED
    BY <1>1, <1>2 DEF NewRun, Runs

LEMMA NewBoardTyped == NewBoard \in Boards
  BY NewRunTyped DEF NewBoard, NoRun, Boards

LEMMA RunsOfBoard == ASSUME NEW b \in Boards, NEW p \in Media PROVE b[p] \in Runs
  BY DEF Boards, Media

LEMMA SetRun ==
  ASSUME NEW b \in Boards, NEW p \in Media, NEW r \in Runs
  PROVE  /\ [b EXCEPT ![p] = r] \in Boards
         /\ [b EXCEPT ![p] = r][p] = r
         /\ \A q \in Media \ {p} : [b EXCEPT ![p] = r][q] = b[q]
  <1>1. CASE p = "camera"
    BY <1>1 DEF Boards, Media
  <1>2. CASE p = "microphone"
    BY <1>2 DEF Boards, Media
  <1> QED
    BY <1>1, <1>2 DEF Media

LEMMA SetQueue ==
  ASSUME NEW b \in Boards, NEW p \in Queues, NEW s \in Settings \cup {None}
  PROVE  /\ [b EXCEPT ![p] = s] \in Boards
         /\ \A q \in Media : [b EXCEPT ![p] = s][q] = b[q]
  <1>1. CASE p = "radar"
    BY <1>1 DEF Boards, Media
  <1>2. CASE p = "provisioning"
    BY <1>2 DEF Boards, Media
  <1> QED
    BY <1>1, <1>2 DEF Queues

LEMMA SetFlag ==
  ASSUME NEW b \in Boards, NEW p \in {"joined", "net", "pdm"}, NEW v \in BOOLEAN
  PROVE  /\ [b EXCEPT ![p] = v] \in Boards
         /\ \A q \in Media : [b EXCEPT ![p] = v][q] = b[q]
  <1>1. CASE p = "joined"
    BY <1>1 DEF Boards, Media
  <1>2. CASE p = "net"
    BY <1>2 DEF Boards, Media
  <1>3. CASE p = "pdm"
    BY <1>3 DEF Boards, Media
  <1> QED
    BY <1>1, <1>2, <1>3

\* The length of an item.
Size(p) == IF p = "camera" THEN 1 ELSE BlockLen

\* What a read of the laptop hands out.
LEMMA PlayedIsLaid ==
  ASSUME NEW p \in Media, NEW pos \in Places
  PROVE  /\ Size(p) \in {1, BlockLen} /\ Size(p) \in Nat /\ Played(p, pos) = Laid(Size(p), pos)
         /\ Played(p, pos).pos \in Places
         /\ Played(p, pos).bytes \in [1 .. Size(p) -> Places]
  <1>1. Size(p) \in {1, BlockLen} /\ Size(p) \in Nat /\ Size(p) \in 0 .. BlockLen
    BY Lengths DEF Size
  <1>2. Played(p, pos) = Laid(Size(p), pos)
    BY <1>1, FillIsLaid DEF Played, Size
  <1>3. (pos + Size(p)) % FileLen \in Places
    <2>1. pos + Size(p) \in Nat
      BY <1>1, Lengths DEF Places
    <2> QED
      BY <2>1, DivMod
  <1>4. \A i \in 1 .. Size(p) : (pos + i - 1) % FileLen \in Places
    <2> TAKE i \in 1 .. Size(p)
    <2>1. pos + i - 1 \in Nat
      BY <1>1, Lengths DEF Places
    <2> QED
      BY <2>1, DivMod
  <1> QED
    BY <1>1, <1>2, <1>3, <1>4 DEF Laid

\* The types of the initial state, and of every step.
LEMMA InitTypes == Init => Types
  <1> SUFFICES ASSUME Init PROVE Types
    OBVIOUS
  <1>1. BoardTyped /\ Reading
    BY Bounds, NoneAssumption DEF Init, BoardTyped, Reading, Media
  <1>2. SketchTyped
    <2>1. 0 \in 0 .. MaxBoards
      BY Bounds
    <2>2. [p \in Peripherals |-> None] \in [Peripherals -> Settings \cup {None}]
      OBVIOUS
    <2>3. [p \in Peripherals |-> 0] \in [Peripherals -> 0 .. MaxBoards]
      BY <2>1
    <2> QED
      BY <2>2, <2>3 DEF Init, SketchTyped
  <1>3. LastTyped
    BY DEF Init, LastTyped
  <1>4. QueuesTyped
    <2>1. <<>> \in Seq(1 .. MaxWritten) /\ 0 \in 0 .. MaxWritten
      BY Bounds, EmptySeq
    <2> QED
      BY <2>1 DEF Init, QueuesTyped
  <1> QED
    BY <1>1, <1>2, <1>3, <1>4 DEF Types

\* A run's next item.
NextItem(p, r) ==
  [r EXCEPT !.seq = @ + 1, !.pos = Played(p, r.pos).pos, !.out = Played(p, r.pos).bytes]

\* What becomes of a run in a step of a laptop.
Moved(p) ==
  \/ installed # 0 /\ board'[p] = board[p]
  \/ \E s \in Settings \cup {0} : board'[p] = NewRun(s)
  \/ installed # 0 /\ board'[p] = NextItem(p, board[p])

BoardMoves ==
  /\ BoardTyped' /\ Reading'
  /\ platform = "laptop" /\ installed' # 0 => \A p \in Media : Moved(p)

\* What a call that does not read may make of the board.
LEMMA BoardIsSet ==
  ASSUME Types, installed # 0, asleep = None, board' \in Boards,
         UNCHANGED <<installed, boards, now, asleep>>,
         \A p \in Media : Moved(p)
  PROVE  BoardMoves
  BY NoneAssumption DEF Types, BoardTyped, Reading, Media, BoardMoves

LEMMA BoardIsKept ==
  ASSUME Types, UNCHANGED <<installed, boards, board, now, asleep>>
  PROVE  BoardMoves
  BY DEF Types, BoardTyped, Reading, Begun, BoardMoves, Moved

\* Every call but the reads.
LEMMA CallsTypeTheBoard ==
  ASSUME Types,
         \/ NoBoard \/ RadarEnd \/ WifiBegin \/ WifiHost \/ Store \/ Ask \/ Answer
         \/ \E joined \in BOOLEAN : Report(joined)
         \/ \E p \in Media : \/ MediaRefused(p) \/ MicSpent(p) \/ NotBegun(p)
                             \/ \E s \in Settings : MediaBegin(p, s)
         \/ \E q \in Queues : \/ QueueMissing(q) \/ Write(q) \/ Poll(q)
                              \/ \E s \in Settings : QueueBegin(q, s)
  PROVE  BoardMoves
  <1>1. installed # 0 => board \in Boards
    BY DEF Types, BoardTyped
  <1>2. CASE NoBoard
    <2>1. board = None
      BY <1>2 DEF NoBoard, Types, BoardTyped
    <2> QED
      BY <1>2, <2>1, BoardIsKept DEF NoBoard, Refuse
  <1>3. CASE \/ RadarEnd \/ WifiHost \/ Ask \/ Answer \/ Store
             \/ \E p \in Media : MediaRefused(p) \/ NotBegun(p)
             \/ \E q \in Queues : QueueMissing(q) \/ Write(q) \/ Poll(q)
    <2>1. UNCHANGED <<installed, boards, board, now, asleep>>
      BY <1>3 DEF RadarEnd, WifiHost, Ask, Answer, Store, MediaRefused, NotBegun, QueueMissing,
                  Write, Poll, Refuse, Succeed
    <2> QED
      BY <2>1, BoardIsKept
  <1>4. CASE \E p \in Media : MicSpent(p)
    <2>1. /\ installed # 0 /\ asleep = None /\ board' \in {board, [board EXCEPT !["pdm"] = FALSE]}
          /\ UNCHANGED <<installed, boards, now, asleep>>
      BY <1>4 DEF MicSpent, Between, Refuse
    <2>2. [board EXCEPT !["pdm"] = FALSE] \in Boards
          /\ \A p \in Media : [board EXCEPT !["pdm"] = FALSE][p] = board[p]
      BY <1>1, <2>1, SetFlag
    <2>3. board' \in Boards /\ \A p \in Media : board'[p] = board[p]
      BY <1>1, <2>1, <2>2, Zenon
    <2> QED
      BY <2>1, <2>3, BoardIsSet DEF Moved
  <1>5. CASE WifiBegin
    <2> DEFINE spent == [board EXCEPT !["net"] = FALSE]
    <2>1. /\ installed # 0 /\ asleep = None
          /\ \/ board' \in {board, [board EXCEPT !["joined"] = TRUE], spent}
             \/ board' = [spent EXCEPT !["joined"] = TRUE]
          /\ UNCHANGED <<installed, boards, now, asleep>>
      BY <1>5 DEF WifiBegin, Between, OnA, Refuse, Succeed
    <2>2. spent \in Boards /\ \A p \in Media : spent[p] = board[p]
      BY <1>1, <2>1, SetFlag
    <2>3. /\ [board EXCEPT !["joined"] = TRUE] \in Boards
          /\ \A p \in Media : [board EXCEPT !["joined"] = TRUE][p] = board[p]
      BY <1>1, <2>1, SetFlag
    <2> HIDE DEF spent
    <2>4. /\ [spent EXCEPT !["joined"] = TRUE] \in Boards
          /\ \A p \in Media : [spent EXCEPT !["joined"] = TRUE][p] = spent[p]
      BY <2>2, SetFlag
    <2>5. board' \in Boards /\ \A p \in Media : board'[p] = board[p]
      BY <1>1, <2>1, <2>2, <2>3, <2>4, Zenon
    <2> QED
      BY <2>1, <2>5, BoardIsSet DEF Moved
  <1>6. ASSUME NEW p \in Media, NEW s \in Settings, MediaBegin(p, s)
        PROVE  BoardMoves
    <2> DEFINE begun == [board EXCEPT ![p] = NewRun(s)]
    <2>1. /\ installed # 0 /\ asleep = None
          /\ board' = [begun EXCEPT !["pdm"] = board.pdm /\ ~Driverless(p)]
          /\ UNCHANGED <<installed, boards, now, asleep>>
      BY <1>6 DEF MediaBegin, Between, Succeed
    <2>2. /\ begun \in Boards /\ begun[p] = NewRun(s)
          /\ \A q \in Media \ {p} : begun[q] = board[q]
      <3>1. board \in Boards /\ NewRun(s) \in Runs
        BY <1>1, <2>1, NewRunTyped
      <3> QED
        BY <3>1, SetRun
    <2> HIDE DEF begun
    <2>3. board' \in Boards /\ \A q \in Media : board'[q] = begun[q]
      <3>1. PICK v \in BOOLEAN : board' = [begun EXCEPT !["pdm"] = v]
        BY <2>1
      <3>2. /\ [begun EXCEPT !["pdm"] = v] \in Boards
            /\ \A q \in Media : [begun EXCEPT !["pdm"] = v][q] = begun[q]
        BY <2>2, SetFlag
      <3> QED
        BY <3>1, <3>2, Zenon
    <2>4. \A q \in Media : Moved(q)
      BY <2>1, <2>2, <2>3 DEF Moved
    <2> QED
      BY <2>1, <2>3, <2>4, BoardIsSet
  <1>7. ASSUME NEW q \in Queues, NEW s \in Settings, QueueBegin(q, s)
        PROVE  BoardMoves
    <2>1. /\ installed # 0 /\ asleep = None /\ board' = [board EXCEPT ![q] = s]
          /\ UNCHANGED <<installed, boards, now, asleep>>
      BY <1>7 DEF QueueBegin, OnA, Between, Succeed
    <2> QED
      <3>1. board \in Boards /\ s \in Settings \cup {None}
        BY <1>1, <2>1
      <3>2. /\ [board EXCEPT ![q] = s] \in Boards
            /\ \A p \in Media : [board EXCEPT ![q] = s][p] = board[p]
        BY <3>1, SetQueue
      <3>3. board' \in Boards /\ \A p \in Media : board'[p] = board[p]
        BY <2>1, <3>2, Zenon
      <3> QED
        BY <2>1, <3>3, BoardIsSet DEF Moved
  <1>8. ASSUME NEW joined \in BOOLEAN, Report(joined)
        PROVE  BoardMoves
    <2>1. /\ installed # 0 /\ asleep = None
          /\ board' \in {board, [board EXCEPT !["provisioning"] = None]}
          /\ UNCHANGED <<installed, boards, now, asleep>>
      BY <1>8 DEF Report, Between, Succeed
    <2>2. /\ [board EXCEPT !["provisioning"] = None] \in Boards
          /\ \A p \in Media : [board EXCEPT !["provisioning"] = None][p] = board[p]
      BY <1>1, <2>1, SetQueue DEF Queues
    <2>3. board' \in Boards /\ \A p \in Media : board'[p] = board[p]
      BY <1>1, <2>1, <2>2, Zenon
    <2> QED
      BY <2>1, <2>3, BoardIsSet DEF Moved
  <1> QED
    BY <1>2, <1>3, <1>4, <1>5, <1>6, <1>7, <1>8

\* Boards that come and go, time and reads.
LEMMA OthersTypeTheBoard ==
  ASSUME Types,
         Install \/ Uninstall \/ Tick \/ Wake \/ \E p \in Media : Read(p)
  PROVE  BoardMoves
  <1>1. CASE Install
    <2>1. /\ boards < MaxBoards /\ boards' = boards + 1 /\ installed' = boards'
          /\ board' = NewBoard /\ now' = 0 /\ asleep' = None
      BY <1>1 DEF Install, Between
    <2>2. boards' \in 0 .. MaxBoards /\ installed' # 0 /\ now' \in 0 .. MaxTime
      BY <2>1, Bounds DEF Types, BoardTyped
    <2>3. \A p \in Media : Moved(p)
      BY <2>1 DEF NewBoard, NoRun, Media, Moved
    <2> QED
      BY <2>1, <2>2, <2>3, NewBoardTyped, NoneAssumption DEF BoardTyped, Reading, Media, BoardMoves
  <1>2. CASE Uninstall
    <2>1. installed' = 0 /\ board' = None /\ now' = 0 /\ asleep' = None /\ boards' = boards
      BY <1>2 DEF Uninstall, Between
    <2> QED
      BY <2>1, Bounds, NoneAssumption DEF Types, BoardTyped, Reading, Media, BoardMoves
  <1>3. CASE Tick
    <2>1. now < MaxTime /\ now' = now + 1 /\ UNCHANGED <<installed, boards, board, asleep>>
      BY <1>3 DEF Tick
    <2>2. now' \in 0 .. MaxTime
      BY <2>1, Bounds DEF Types, BoardTyped
    <2> QED
      BY <2>1, <2>2 DEF Types, BoardTyped, Reading, Begun, BoardMoves, Moved
  <1>4. ASSUME NEW p \in Media, Read(p) PROVE BoardMoves
    <2>1. /\ installed # 0 /\ Begun(p) /\ board[p].seq < MaxItems /\ asleep' = p
          /\ UNCHANGED <<installed, boards, board, now>>
      BY <1>4 DEF Read
    <2> QED
      BY <2>1 DEF Types, BoardTyped, Reading, Begun, BoardMoves, Moved
  <1>5. ASSUME NEW p \in Media, NEW r \in Runs, asleep = p, installed # 0,
               board' = [board EXCEPT ![p] = r], asleep' = None,
               platform = "laptop" => r = NextItem(p, board[p]),
               UNCHANGED <<installed, boards, now>>
        PROVE  BoardMoves
    <2>1. board' \in Boards /\ board'[p] = r /\ \A q \in Media \ {p} : board'[q] = board[q]
      <3>1. board \in Boards
        BY <1>5 DEF Types, BoardTyped
      <3>2. /\ [board EXCEPT ![p] = r] \in Boards /\ [board EXCEPT ![p] = r][p] = r
            /\ \A q \in Media \ {p} : [board EXCEPT ![p] = r][q] = board[q]
        BY <3>1, SetRun
      <3> QED
        BY <1>5, <3>2, Zenon
    <2>2. BoardTyped' /\ Reading'
      BY <1>5, <2>1, NoneAssumption DEF Types, BoardTyped, Reading, Media
    <2> QED
      BY <1>5, <2>1, <2>2 DEF BoardMoves, Moved
  <1>6. ASSUME NEW p \in Media, asleep = p
        PROVE  /\ installed # 0 /\ board \in Boards /\ board[p] \in Runs
               /\ board[p].seq + 1 \in 0 .. MaxItems
    <2>1. installed # 0 /\ board \in Boards /\ board[p].seq < MaxItems
      BY <1>6, NoneAssumption DEF Types, BoardTyped, Reading, Media
    <2>2. board[p] \in Runs
      BY <2>1, RunsOfBoard
    <2>3. board[p].seq \in 0 .. MaxItems
      BY <2>2 DEF Runs
    <2> QED
      BY <2>1, <2>2, <2>3, Bounds
  <1>7. ASSUME NEW p \in Media, Deliver(p) PROVE BoardMoves
    <2> DEFINE r == board[p]
               item == Played(p, r.pos)
               q == [r EXCEPT !.seq = @ + 1, !.pos = item.pos, !.out = item.bytes]
    <2>1. /\ asleep = p /\ asleep' = None /\ UNCHANGED <<installed, boards, now>>
      BY <1>7 DEF Deliver
    <2>2. installed # 0 /\ board \in Boards /\ r \in Runs /\ r.seq + 1 \in 0 .. MaxItems
      BY <2>1, <1>6
    <2>3. board' = [board EXCEPT ![p] = q]
      <3>1. p \in DOMAIN board
        BY <2>2 DEF Boards, Media
      <3> QED
        BY <1>7, <2>2, <3>1 DEF Deliver, Boards, Runs
    <2>4. q \in Runs
      <3>1. r.pos \in Places
        BY <2>2 DEF Runs, Places
      <3>2. item.pos \in Places /\ item.bytes \in UNION {[1 .. n -> Places] : n \in {0, 1, BlockLen}}
        <4>1. /\ Size(p) \in {1, BlockLen} /\ item.pos \in Places
              /\ item.bytes \in [1 .. Size(p) -> Places]
          BY <3>1, PlayedIsLaid
        <4> HIDE DEF item
        <4> QED
          BY <4>1
      <3> HIDE DEF item, r
      <3> QED
        BY <2>2, <3>2 DEF Runs, Places
    <2>5. q = NextItem(p, r)
      BY DEF NextItem
    <2> HIDE DEF q
    <2> QED
      BY <1>5, <2>1, <2>2, <2>3, <2>4, <2>5
  <1>8. ASSUME NEW p \in Media, DeliverFails(p) PROVE BoardMoves
    <2> DEFINE r == board[p]
               q == [r EXCEPT !.seq = @ + 1]
    <2>1. /\ asleep = p /\ asleep' = None /\ UNCHANGED <<installed, boards, now>>
          /\ platform = "chip"
          /\ board' = IF p = "camera" THEN [board EXCEPT ![p].seq = @ + 1] ELSE board
      BY <1>8 DEF DeliverFails
    <2>2. installed # 0 /\ board \in Boards /\ r \in Runs /\ r.seq + 1 \in 0 .. MaxItems
      BY <2>1, <1>6
    <2>3. board' \in {[board EXCEPT ![p] = q], [board EXCEPT ![p] = r]}
      BY <2>1, <2>2 DEF Boards, Media
    <2>4. q \in Runs
      BY <2>2 DEF Runs
    <2> HIDE DEF q, r
    <2> QED
      BY <1>5, <2>1, <2>2, <2>3, <2>4
  <1> QED
    BY <1>1, <1>2, <1>3, <1>4, <1>7, <1>8 DEF Wake

LEMMA NextTypesBoard == Types /\ [Next]_vars => BoardMoves
  <1> SUFFICES ASSUME Types, [Next]_vars PROVE BoardMoves
    OBVIOUS
  <1>1. CASE UNCHANGED vars
    BY <1>1, BoardIsKept DEF vars
  <1> QED
    BY <1>1, CallsTypeTheBoard, OthersTypeTheBoard DEF Next

LEMMA NextTypesQueues == Types /\ [Next]_vars => QueuesTyped'
  <1> SUFFICES ASSUME Types, [Next]_vars PROVE QueuesTyped'
    OBVIOUS
  <1>1. ASSUME NEW p \in Queues, Write(p) PROVE QueuesTyped'
    <2>1. /\ written[p] < MaxWritten /\ written' = [written EXCEPT ![p] = @ + 1]
          /\ queue' = [queue EXCEPT ![p] = Append(@, written'[p])] /\ taken' = taken
      BY <1>1 DEF Write
    <2>2. written[p] \in 0 .. MaxWritten /\ written'[p] = written[p] + 1
      BY <2>1 DEF Types, QueuesTyped
    <2>3. written'[p] \in 1 .. MaxWritten /\ written'[p] \in 0 .. MaxWritten
      BY <2>1, <2>2, Bounds
    <2>4. Append(queue[p], written'[p]) \in Seq(1 .. MaxWritten)
      BY <2>3, AppendProperties DEF Types, QueuesTyped
    <2> QED
      BY <2>1, <2>2, <2>3, <2>4 DEF Types, QueuesTyped
  <1>2. ASSUME NEW p \in Queues, Poll(p) PROVE QueuesTyped'
    <2>1. /\ queue[p] # <<>>
          /\ taken' = [taken EXCEPT ![p] = Append(@, Head(queue[p]))]
          /\ queue' = [queue EXCEPT ![p] = Tail(@)] /\ written' = written
      BY <1>2 DEF Poll
    <2>2. Head(queue[p]) \in 1 .. MaxWritten /\ Tail(queue[p]) \in Seq(1 .. MaxWritten)
      BY <2>1, HeadTailProperties DEF Types, QueuesTyped
    <2>3. Append(taken[p], Head(queue[p])) \in Seq(1 .. MaxWritten)
      BY <2>2, AppendProperties DEF Types, QueuesTyped
    <2> QED
      BY <2>1, <2>2, <2>3 DEF Types, QueuesTyped
  <1>3. CASE UNCHANGED outside
    BY <1>3 DEF Types, QueuesTyped, outside
  <1>4. UNCHANGED outside \/ \E p \in Queues : Write(p) \/ Poll(p)
    BY DEF Next, Wake, vars, Install, Uninstall, NoBoard, MediaRefused, MicSpent, NotBegun,
           Read, MediaBegin, Deliver, DeliverFails, QueueMissing, QueueBegin, RadarEnd,
           WifiBegin, WifiHost, Report, Store, Ask, Answer, Tick, Refuse, Succeed
  <1> QED
    BY <1>1, <1>2, <1>3, <1>4

LEMMA NextTypesLast == Types /\ [Next]_vars => LastTyped'
  <1> SUFFICES ASSUME Types, [Next]_vars PROVE LastTyped'
    OBVIOUS
  <1>1. \/ last' = last
        \/ last' \in {None, "NoBoard", "NotBegun", "Core", "Io", "Missing"}
    BY DEF Next, Wake, vars, Install, Uninstall, NoBoard, MediaRefused, MicSpent, NotBegun,
           Read, MediaBegin, Deliver, DeliverFails, QueueMissing, QueueBegin, RadarEnd, Write, Poll,
           WifiBegin, WifiHost, Report, Store, Ask, Answer, Tick, Refuse, Succeed, Unplayable
  <1> QED
    BY <1>1 DEF Types, LastTyped

LEMMA NextKeepsProgram == [Next]_vars => UNCHANGED program
  BY DEF Next, Wake, vars, Install, Uninstall, NoBoard, MediaRefused, MicSpent, NotBegun,
         MediaBegin, Read, Deliver, DeliverFails, QueueMissing, QueueBegin, RadarEnd, Write, Poll,
         WifiBegin, WifiHost, Report, Store, Ask, Answer, Tick, Refuse, Succeed

LEMMA NextTypesSketch == Types /\ [Next]_vars => SketchTyped'
  <1> SUFFICES ASSUME Types, [Next]_vars PROVE SketchTyped'
    OBVIOUS
  <1>1. installed \in 0 .. MaxBoards
    BY Bounds DEF Types, BoardTyped
  <1>2. ASSUME NEW p \in Peripherals, NEW s \in Settings, Keep(p, s), asking' = asking,
               UNCHANGED program
        PROVE  SketchTyped'
    BY <1>1, <1>2 DEF Types, SketchTyped, Keep, program
  <1>3. CASE \/ \E p \in Media : \E s \in Settings : MediaBegin(p, s)
             \/ \E q \in Queues : \E s \in Settings : QueueBegin(q, s)
    BY <1>2, <1>3 DEF MediaBegin, QueueBegin, Succeed, Peripherals
  <1>4. CASE RadarEnd \/ \E joined \in BOOLEAN : Report(joined)
    <2>1. /\ UNCHANGED program /\ begunOn' = begunOn /\ asking' = asking
          /\ \E p \in Peripherals : config' \in {config, [config EXCEPT ![p] = None]}
      BY <1>4 DEF RadarEnd, Report, Succeed, Peripherals, Queues
    <2> QED
      BY <2>1 DEF Types, SketchTyped, program
  <1>5. CASE UNCHANGED <<program, statics>> /\ asking' \in {asking, TRUE, FALSE}
    BY <1>5 DEF Types, SketchTyped, program, statics
  <1>6. \/ UNCHANGED <<program, statics>> /\ asking' \in {asking, TRUE, FALSE}
        \/ RadarEnd \/ \E joined \in BOOLEAN : Report(joined)
        \/ \E p \in Media : \E s \in Settings : MediaBegin(p, s)
        \/ \E q \in Queues : \E s \in Settings : QueueBegin(q, s)
    BY DEF Next, Wake, vars, Install, Uninstall, NoBoard, MediaRefused, MicSpent, NotBegun,
           Read, Deliver, DeliverFails, QueueMissing, Write, Poll,
           WifiBegin, WifiHost, Store, Ask, Answer, Tick, Refuse, Succeed
  <1> QED
    BY <1>3, <1>4, <1>5, <1>6

LEMMA NextTypes == Types /\ [Next]_vars => Types'
  BY NextTypesBoard, NextTypesQueues, NextTypesLast, NextTypesSketch DEF Types, BoardMoves

\* Board, runs, clock, statics, queues and LAST have their types: a read that sleeps
\* has its board and its run, and what it hands out is a place of the file.
THEOREM TypeCorrect == Spec => []TypeOK
  BY InitTypes, NextTypes, TypesAreTyped, PTL DEF Spec

\* Every item of a run goes on where the one before it ended.
Playing(p, r) ==
  /\ r.pos = (r.seq * Size(p)) % FileLen
  /\ r.seq > 0 =>
       r.out = [i \in 1 .. Size(p) |-> ((r.seq - 1) * Size(p) + i - 1) % FileLen]

PlayInv == OnA("laptop") => \A p \in Media : Playing(p, board[p])

\* A run begins with the file, and each item continues the one before.
LEMMA NewRunPlays ==
  ASSUME NEW p \in Media, NEW s \in Settings \cup {0}
  PROVE  Playing(p, NewRun(s))
  <1>1. Size(p) \in Nat /\ 0 * Size(p) = 0
    BY Lengths DEF Size
  <1>2. 0 % FileLen = 0
    BY Lengths
  <1> QED
    BY <1>1, <1>2 DEF Playing, NewRun

LEMMA NextItemPlays ==
  ASSUME NEW p \in Media, NEW r \in Runs, Playing(p, r)
  PROVE  Playing(p, NextItem(p, r))
  <1> DEFINE n == Size(p)
             k == r.seq
             item == Played(p, r.pos)
  <1>1. r.pos \in Places /\ k \in Nat /\ r.pos = (k * n) % FileLen
    BY Bounds DEF Runs, Places, Playing
  <1>2. n \in Nat /\ item = Laid(n, r.pos)
    BY <1>1, PlayedIsLaid
  <1>3. k * n \in Nat /\ (k + 1) * n = k * n + n
    BY <1>1, <1>2, Z3
  <1>4. /\ NextItem(p, r).seq = k + 1 /\ NextItem(p, r).pos = item.pos
        /\ NextItem(p, r).out = item.bytes
    BY DEF NextItem, Runs
  <1>5. item.pos = ((k + 1) * n) % FileLen
    <2>1. item.pos = (((k * n) % FileLen) + n) % FileLen
      BY <1>1, <1>2 DEF Laid
    <2> QED
      BY <1>2, <1>3, <2>1, ModAdd
  <1>6. item.bytes = [i \in 1 .. n |-> (k * n + i - 1) % FileLen]
    <2>1. ASSUME NEW i \in 1 .. n
          PROVE  (r.pos + i - 1) % FileLen = (k * n + i - 1) % FileLen
      <3>1. i - 1 \in Nat
        BY <1>2
      <3>2. (((k * n) % FileLen) + (i - 1)) % FileLen = (k * n + (i - 1)) % FileLen
        BY <1>3, <3>1, ModAdd
      <3>3. r.pos + i - 1 = r.pos + (i - 1) /\ k * n + i - 1 = k * n + (i - 1)
        BY <1>1, <1>2, <1>3 DEF Places
      <3> QED
        BY <1>1, <3>2, <3>3
    <2> HIDE DEF n, k
    <2> QED
      BY <1>2, <2>1 DEF Laid
  <1>7. (k + 1) - 1 = k /\ k + 1 > 0
    BY <1>1
  <1> HIDE DEF n, k, item
  <1> QED
    BY <1>4, <1>5, <1>6, <1>7 DEF Playing, n

LEMMA NextPlays == Types /\ PlayInv /\ [Next]_vars => PlayInv'
  <1> SUFFICES ASSUME Types, PlayInv, [Next]_vars, OnA("laptop")'
               PROVE  \A p \in Media : Playing(p, board'[p])
    BY DEF PlayInv, Playing
  <1>1. platform' = platform
    BY NextKeepsProgram DEF program
  <1>2. \A p \in Media : Moved(p)
    BY <1>1, NextTypesBoard DEF BoardMoves, OnA
  <1> TAKE p \in Media
  <1>3. CASE installed # 0
    <2>1. Playing(p, board[p]) /\ board[p] \in Runs
      BY <1>1, <1>3, RunsOfBoard DEF PlayInv, OnA, Types, BoardTyped
    <2> QED
      BY <1>2, <2>1, NewRunPlays, NextItemPlays DEF Moved
  <1>4. CASE installed = 0
    BY <1>2, <1>4, NewRunPlays DEF Moved
  <1> QED
    BY <1>3, <1>4

\* What the laptop plays is the file over and over: every item of a run continues
\* the item before it, for every length of the file and of the block, also where a
\* block is longer than the file or ends in the middle of it.
THEOREM FileIsEndless == Spec => []PlaysEndlessly
  <1>1. Init => PlayInv
    BY DEF Init, PlayInv, OnA
  <1>2. PlayInv => PlaysEndlessly
    BY DEF PlayInv, PlaysEndlessly, Playing, Size
  <1> QED
    BY <1>1, <1>2, InitTypes, NextTypes, NextPlays, PTL DEF Spec
=============================================================================
