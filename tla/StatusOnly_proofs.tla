-------------------------- MODULE StatusOnly_proofs --------------------------
(***************************************************************************)
(* Proofs about StatusOnly, for every set of clients, every size of the    *)
(* buffer and every timeout.                                               *)
(***************************************************************************)
EXTENDS StatusOnly, TLAPS

LEMMA Bounds == MaxRequest \in Nat \ {0} /\ Timeout \in Nat \ {0}
  BY BoundsAssumption

\* Every piece that was read paid for at most one timeout, and the wait that
\* goes on for the next one is not paid yet; a full buffer waits for nothing.
Inv ==
  /\ sent \in [Clients -> Nat] /\ serving \in Clients \cup {Nobody}
  /\ n \in 0 .. MaxRequest /\ quiet \in 0 .. Timeout /\ held \in Nat
  /\ held <= n * Timeout + quiet
  /\ n = MaxRequest => quiet = 0

LEMMA Products ==
  ASSUME NEW a \in Nat, NEW b \in Nat
  PROVE  a * b \in Nat
  BY Z3

\* A piece more pays for the whole wait before it.
LEMMA PiecesPay ==
  ASSUME NEW a \in Nat, NEW b \in Nat, NEW t \in Nat, a < b
  PROVE  a * t + t <= b * t
  <1>1. PICK d \in Nat : b = a + 1 + d
    <2>1. b - a - 1 \in Nat /\ b = a + 1 + (b - a - 1)
      OBVIOUS
    <2> QED
      BY <2>1
  <1>2. b * t = a * t + t + d * t /\ d * t \in Nat /\ a * t \in Nat
    BY <1>1, Z3
  <1> QED
    BY <1>2

LEMMA InitInv == Init => Inv
  BY Bounds DEF Init, Inv

LEMMA NextInv == Inv /\ [Next]_vars => Inv'
  <1> SUFFICES ASSUME Inv, [Next]_vars PROVE Inv'
    OBVIOUS
  <1> USE Bounds
  <1>1. ASSUME NEW c \in Clients, Accept(c) PROVE Inv'
    BY <1>1 DEF Accept, Inv
  <1>2. CASE Read
    <2>1. PICK k \in 1 .. sent[serving] - n : n + k <= MaxRequest /\ n' = n + k
      BY <1>2 DEF Read
    <2>2. serving \in Clients /\ quiet' = 0 /\ UNCHANGED <<sent, serving, held>>
      BY <1>2 DEF Read, Inv, client
    <2>3. k \in Nat /\ k > 0 /\ n' \in 0 .. MaxRequest /\ n < n'
      BY <2>1, <2>2 DEF Inv
    <2>4. n \in Nat /\ n' \in Nat /\ Timeout \in Nat
      BY <2>3 DEF Inv
    <2>5. n * Timeout \in Nat /\ n' * Timeout \in Nat
      BY <2>4, Products
    <2>6. n * Timeout + Timeout <= n' * Timeout
      BY <2>3, <2>4, PiecesPay
    <2>7. held' \in Nat /\ held' <= n' * Timeout + quiet'
      BY <2>2, <2>5, <2>6 DEF Inv
    <2>8. quiet' \in 0 .. Timeout /\ (n' = MaxRequest => quiet' = 0)
      BY <2>2
    <2>9. sent' \in [Clients -> Nat] /\ serving' \in Clients \cup {Nobody}
      BY <2>2 DEF Inv
    <2> QED
      BY <2>3, <2>7, <2>8, <2>9 DEF Inv
  <1>3. CASE Reply
    BY <1>3 DEF Reply, Inv
  <1>4. CASE Tick
    <2>1. n # MaxRequest /\ quiet < Timeout /\ quiet' = quiet + 1 /\ held' = held + 1
      BY <1>4 DEF Tick, HeadDone, Inv
    <2>2. UNCHANGED <<sent, serving, n>>
      BY <1>4 DEF Tick, client
    <2> QED
      BY <2>1, <2>2 DEF Inv
  <1>5. ASSUME NEW c \in Clients, Send(c) PROVE Inv'
    BY <1>5 DEF Send, Inv, thread
  <1>6. CASE UNCHANGED <<sent, serving, n, quiet, held>>
    BY <1>6 DEF Inv
  <1> QED
    BY <1>1, <1>2, <1>3, <1>4, <1>5, <1>6
    DEF Next, Serve, vars, client, thread, OnStatus, ListenStatus, Connect, HangUp

\* One client holds the only thread for at most one timeout for each piece
\* that the buffer has room for.
THEOREM HeadsAreBounded == Spec => []HeadIsBounded
  <1>1. Inv => HeadIsBounded
    <2> SUFFICES ASSUME Inv PROVE HeadIsBounded
      OBVIOUS
    <2> USE Bounds
    <2>1. CASE n = MaxRequest
      BY <2>1 DEF Inv, HeadIsBounded
    <2>2. CASE n < MaxRequest
      <3>1. n * Timeout + Timeout <= MaxRequest * Timeout
        BY <2>2, PiecesPay DEF Inv
      <3>2. n * Timeout \in Nat /\ MaxRequest * Timeout \in Nat
        BY DEF Inv
      <3> QED
        BY <3>1, <3>2 DEF Inv, HeadIsBounded
    <2> QED
      BY <2>1, <2>2 DEF Inv
  <1> QED
    BY <1>1, InitInv, NextInv, PTL DEF Spec

\* Nothing is read that was not sent, nor more than the buffer holds.
THEOREM TypeCorrect == Spec => []TypeOK
  <1> USE Bounds
  <1>1. Init => TypeOK
    <2> SUFFICES ASSUME Init PROVE TypeOK
      OBVIOUS
    <2>1. 1 \in 1 .. MaxRequest + 1 /\ 0 \in 0 .. MaxRequest + 1 /\ 0 \in 0 .. MaxRequest
          /\ 0 \in 0 .. Timeout
      OBVIOUS
    <2>2. length \in [Clients -> 1 .. MaxRequest + 1] /\ sent \in [Clients -> 0 .. MaxRequest + 1]
      BY <2>1 DEF Init
    <2> QED
      BY <2>1, <2>2 DEF Init, TypeOK
  <1>2. Inv /\ TypeOK /\ [Next]_vars => TypeOK'
    <2> SUFFICES ASSUME Inv, TypeOK, [Next]_vars PROVE TypeOK'
      OBVIOUS
    <2>1. ASSUME NEW c \in Clients, Connect(c) \/ Send(c) \/ HangUp(c) PROVE TypeOK'
      <3>1. sent[c] < length[c] => sent[c] + 1 \in 0 .. MaxRequest + 1
        BY DEF TypeOK
      <3> QED
        BY <2>1, <3>1 DEF Connect, Send, HangUp, TypeOK, server, thread
    <2>2. ASSUME NEW c \in Clients, Accept(c) PROVE TypeOK'
      BY <2>2 DEF Accept, TypeOK, server
    <2>3. CASE Read
      <3>1. n' \in 0 .. MaxRequest /\ quiet' = 0
        BY <2>3, NextInv DEF Read, Next, Serve, Inv
      <3> QED
        BY <2>3, <3>1 DEF Read, TypeOK, server, client
    <2>4. CASE Reply
      BY <2>4 DEF Reply, TypeOK, server
    <2>5. CASE Tick
      BY <2>5 DEF Tick, TypeOK, server, client
    <2>6. CASE OnStatus \/ ListenStatus \/ UNCHANGED vars
      BY <2>6 DEF OnStatus, ListenStatus, vars, server, client, thread, TypeOK
    <2> QED
      BY <2>1, <2>2, <2>3, <2>4, <2>5, <2>6 DEF Next, Serve
  <1> QED
    BY <1>1, <1>2, InitInv, NextInv, PTL DEF Spec
=============================================================================
