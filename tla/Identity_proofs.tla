--------------------------- MODULE Identity_proofs ---------------------------
(***************************************************************************)
(* Proofs about Identity, for every set of threads that begin and every    *)
(* number of mints, crashes and boards.                                    *)
(***************************************************************************)
EXTENDS Identity, FiniteSetTheorems, TLAPS

Beginners == {t \in Threads : pc[t] \in Whereabouts}

Typed ==
  /\ file \in [Files -> Nat \cup {Torn}]
  /\ pc \in [Threads -> Whereabouts \cup {"idle"}]
  /\ which \in [Threads -> Files]
  /\ loaded \in [Threads -> [Files -> Nat]]
  /\ identity \in [Files -> Nat] /\ first \in [Files -> Nat]
  /\ nodeKey \in Nat /\ mints \in Nat

\* The store is with one thread that begins, with IDENTITY, with the node, or
\* with nobody; and the board that gave it away has none.
OneOwner ==
  /\ \A t, u \in Threads : pc[t] \in Whereabouts /\ pc[u] \in Whereabouts => t = u
  /\ \A t \in Threads : pc[t] \in Whereabouts => storeTaken /\ ~store /\ ~node
  /\ store => storeTaken /\ ~node
  /\ node => storeTaken
  /\ store => identity # Nothing

\* What the first begin answered is in the files from then on, whole, and it is
\* what IDENTITY and the node have.
FirstIsKept ==
  /\ first # Nothing => \A f \in Files : Whole(f) /\ file[f] = first[f]
  /\ identity # Nothing => identity = first
  /\ identity # Nothing \/ store \/ node => first # Nothing
  /\ nodeKey # Absent => node /\ nodeKey = first["mid.devkey"]

\* A thread writes only before anyone was answered, and what it has behind it
\* is in the file.
Has(t, f) == Whole(f) /\ loaded[t][f] = file[f]

LoadsAreWhole ==
  \A t \in Threads :
    /\ pc[t] \in {"put", "write"} => first = Nothing /\ loaded[t][which[t]] # Absent
    /\ pc[t] \in {"load", "put", "write"} /\ which[t] = "page.token" => Has(t, "mid.devkey")
    /\ pc[t] = "publish" => \A f \in Files : Has(t, f)

Inv == Typed /\ OneOwner /\ FirstIsKept /\ LoadsAreWhole

LEMMA InitInv == Init => Inv
  BY DEF Init, Inv, Typed, OneOwner, FirstIsKept, LoadsAreWhole, Has, Whole, Nothing, Files,
         Absent, Torn, Whereabouts

LEMMA Alone ==
  ASSUME Inv, NEW t \in Threads, pc[t] \in Whereabouts
  PROVE  /\ storeTaken /\ ~store /\ ~node
         /\ \A u \in Threads \ {t} : pc[u] = "idle"
  BY DEF Inv, OneOwner, Typed

\* A step of a thread that begins, and still begins after it: all others are
\* idle, and the store stays with it.
LEMMA OwnerGoesOn ==
  ASSUME Inv, NEW t \in Threads, pc[t] \in Whereabouts,
         NEW where \in Whereabouts \cup {"idle"}, Goto(t, where),
         UNCHANGED <<storeTaken, store, node, identity>>
  PROVE  OneOwner' /\ pc'[t] = where /\ \A u \in Threads \ {t} : pc'[u] = "idle"
  <1>1. pc'[t] = where /\ \A u \in Threads \ {t} : pc'[u] = "idle"
    BY Alone DEF Goto, Inv, Typed
  <1>2. "idle" \notin Whereabouts
    BY DEF Whereabouts
  <1>3. \A u \in Threads : pc'[u] \in Whereabouts => u = t
    BY <1>1, <1>2
  <1>4. storeTaken /\ ~store /\ ~node
    BY Alone
  <1> QED
    BY <1>1, <1>3, <1>4 DEF OneOwner

\* begin takes the board's store: nobody else has it.
LEMMA BeginKeeps ==
  ASSUME Inv, NEW t \in Threads, Begin(t)
  PROVE  Inv'
  <1>1. /\ pc[t] = "idle" /\ ~storeTaken /\ storeTaken' = TRUE
        /\ UNCHANGED <<file, loaded, identity, store, node, nodeKey, mints, first>>
    BY DEF Begin
  <1>2. /\ pc' = [pc EXCEPT ![t] = "load"] /\ which' = [which EXCEPT ![t] = "mid.devkey"]
        \/ UNCHANGED <<pc, which>>
    BY DEF Begin, Goto
  <1>3. \A u \in Threads : pc[u] = "idle"
    BY <1>1 DEF Inv, OneOwner, Typed
  <1>4. ~store /\ ~node
    BY <1>1 DEF Inv, OneOwner
  <1>5. /\ pc' \in [Threads -> Whereabouts \cup {"idle"}] /\ which' \in [Threads -> Files]
        /\ \A u \in Threads \ {t} : pc'[u] = "idle"
        /\ pc'[t] = "idle" \/ (pc'[t] = "load" /\ which'[t] = "mid.devkey")
    BY <1>2, <1>3 DEF Inv, Typed, Whereabouts, Files
  <1>6. Typed'
    BY <1>1, <1>5 DEF Inv, Typed
  <1>7. OneOwner'
    BY <1>1, <1>4, <1>5 DEF OneOwner, Whereabouts
  <1>8. FirstIsKept'
    BY <1>1 DEF Inv, FirstIsKept, Whole
  <1>9. LoadsAreWhole'
    BY <1>5 DEF LoadsAreWhole
  <1> QED
    BY <1>6, <1>7, <1>8, <1>9 DEF Inv

\* The thread has the value of its file, which is whole, and goes on to the
\* next one.
LEMMA AfterKeeps ==
  ASSUME Inv, NEW t \in Threads, pc[t] \in {"load", "write"}, After(t),
         Typed',
         NEW f \in Files, f = which[t], Has(t, f)',
         \A g \in Files \ {f} : file'[g] = file[g] /\ loaded'[t][g] = loaded[t][g],
         file' = file \/ first = Nothing,
         UNCHANGED <<storeTaken, identity, store, node, nodeKey, first>>
  PROVE  Inv'
  <1>1. PICK where \in {"load", "publish"} :
          /\ Goto(t, where)
          /\ IF which[t] = "mid.devkey"
               THEN where = "load" /\ which'[t] = "page.token"
               ELSE where = "publish" /\ which'[t] = which[t]
    BY DEF After, Inv, Typed
  <1>2. OneOwner' /\ pc'[t] = where /\ \A u \in Threads \ {t} : pc'[u] = "idle"
    BY <1>1, OwnerGoesOn DEF Whereabouts
  <1>3. FirstIsKept'
    BY DEF Inv, FirstIsKept, Whole
  <1>4. f \in {"mid.devkey", "page.token"}
    BY DEF Files
  <1>5. f = "page.token" => Has(t, "mid.devkey")'
    BY DEF Inv, LoadsAreWhole, Has, Whole, Files
  <1>6. \A u \in Threads \ {t} : pc'[u] \notin Whereabouts
    BY <1>2 DEF Whereabouts
  <1>7. ASSUME f = "mid.devkey" PROVE LoadsAreWhole'
    <2>1. pc'[t] = "load" /\ Has(t, "mid.devkey")'
      BY <1>1, <1>2, <1>7
    <2> QED
      BY <1>6, <2>1 DEF LoadsAreWhole, Whereabouts
  <1>8. ASSUME f = "page.token" PROVE LoadsAreWhole'
    <2>1. pc'[t] = "publish" /\ Has(t, "mid.devkey")' /\ Has(t, "page.token")'
      BY <1>1, <1>2, <1>5, <1>8
    <2> QED
      BY <1>6, <2>1 DEF LoadsAreWhole, Whereabouts, Files
  <1> QED
    BY <1>2, <1>3, <1>4, <1>7, <1>8 DEF Inv

\* A thread that mints is the only one that can write, and nobody was answered.
LEMMA MintKeeps ==
  ASSUME Inv, NEW t \in Threads, pc[t] \in {"load", "put"},
         NEW where \in {"put", "write"}, Goto(t, where),
         ~Whole(which[t]),
         Typed',
         \A f \in Files \ {which[t]} : file'[f] = file[f] /\ loaded'[t][f] = loaded[t][f],
         loaded'[t][which[t]] # Absent,
         UNCHANGED <<which, storeTaken, identity, store, node, nodeKey, first>>
  PROVE  Inv'
  <1>1. OneOwner' /\ pc'[t] = where /\ \A u \in Threads \ {t} : pc'[u] = "idle"
    BY OwnerGoesOn DEF Whereabouts
  <1>2. first = Nothing
    BY DEF Inv, FirstIsKept, Typed
  <1>3. FirstIsKept'
    BY <1>2 DEF Inv, FirstIsKept
  <1>4. which[t] = "page.token" => Has(t, "mid.devkey")'
    BY DEF Inv, LoadsAreWhole, Has, Whole, Files
  <1>5. LoadsAreWhole'
    BY <1>1, <1>2, <1>4 DEF LoadsAreWhole
  <1> QED
    BY <1>1, <1>3, <1>5 DEF Inv

LEMMA GotoTyped ==
  ASSUME Typed, NEW t \in Threads, NEW where \in Whereabouts \cup {"idle"}, Goto(t, where)
  PROVE  pc' \in [Threads -> Whereabouts \cup {"idle"}]
  BY DEF Typed, Goto

LEMMA AfterTyped ==
  ASSUME Typed, NEW t \in Threads, After(t)
  PROVE  pc' \in [Threads -> Whereabouts \cup {"idle"}] /\ which' \in [Threads -> Files]
  BY GotoTyped DEF After, Whereabouts, Files, Typed

LEMMA BeginningKeeps ==
  ASSUME Inv, NEW t \in Threads, Beginning(t)
  PROVE  Inv'
  <1>0. PICK f \in Files : f = which[t]
    BY DEF Inv, Typed
  <1>1. Typed
    BY DEF Inv
  <1>2. CASE Load(t)
    <2>1. /\ pc[t] = "load" /\ Whole(f) /\ After(t)
          /\ loaded' = [loaded EXCEPT ![t][f] = file[f]]
          /\ UNCHANGED <<file, storeTaken, identity, store, node, nodeKey, mints, first>>
      BY <1>0, <1>2 DEF Load
    <2>2. file[f] \in Nat
      BY <1>1, <2>1 DEF Whole, Typed
    <2>3. /\ loaded' \in [Threads -> [Files -> Nat]] /\ loaded'[t][f] = file[f]
          /\ \A g \in Files \ {f} : loaded'[t][g] = loaded[t][g]
      BY <1>1, <2>1, <2>2 DEF Typed
    <2>4. Typed'
      BY <1>1, <2>1, <2>3, AfterTyped DEF Typed
    <2>5. Has(t, f)'
      BY <2>1, <2>3 DEF Has, Whole
    <2> QED
      BY <1>0, <2>1, <2>3, <2>4, <2>5, AfterKeeps
  <1>3. CASE Mint(t)
    <2>1. /\ pc[t] = "load" /\ ~Whole(f) /\ Goto(t, "put") /\ mints' = mints + 1
          /\ loaded' = [loaded EXCEPT ![t][f] = mints + 1]
          /\ UNCHANGED <<file, which, storeTaken, identity, store, node, nodeKey, first>>
      BY <1>0, <1>3 DEF Mint
    <2>2. /\ loaded' \in [Threads -> [Files -> Nat]] /\ loaded'[t][f] = mints + 1
          /\ \A g \in Files \ {f} : loaded'[t][g] = loaded[t][g]
          /\ mints + 1 \in Nat /\ mints + 1 # Absent
      BY <1>1, <2>1 DEF Typed, Absent
    <2>3. Typed'
      BY <1>1, <2>1, <2>2, GotoTyped DEF Typed, Whereabouts
    <2> QED
      BY <1>0, <2>1, <2>2, <2>3, MintKeeps
  <1>4. CASE Truncate(t)
    <2>1. /\ pc[t] = "put" /\ Goto(t, "write") /\ file' = [file EXCEPT ![f] = Torn]
          /\ UNCHANGED <<which, loaded, storeTaken, identity, store, node, nodeKey, mints, first>>
      BY <1>0, <1>4 DEF Truncate
    <2>2. OneOwner' /\ pc'[t] = "write" /\ \A u \in Threads \ {t} : pc'[u] = "idle"
      BY <2>1, OwnerGoesOn DEF Whereabouts
    <2>3. Typed'
      BY <1>1, <2>1, GotoTyped DEF Typed, Whereabouts
    <2>4. first = Nothing /\ loaded[t][f] # Absent
      BY <1>0, <2>1 DEF Inv, LoadsAreWhole
    <2>5. FirstIsKept'
      BY <2>1, <2>4 DEF Inv, FirstIsKept
    <2>6. f = "page.token" => Has(t, "mid.devkey")'
      BY <1>0, <1>1, <2>1 DEF Inv, LoadsAreWhole, Has, Whole, Files, Typed
    <2>7. LoadsAreWhole'
      BY <1>0, <2>1, <2>2, <2>4, <2>6 DEF LoadsAreWhole
    <2> QED
      BY <2>2, <2>3, <2>5, <2>7 DEF Inv
  <1>5. CASE Write(t)
    <2>1. /\ pc[t] = "write" /\ After(t) /\ file' = [file EXCEPT ![f] = loaded[t][f]]
          /\ UNCHANGED <<loaded, storeTaken, identity, store, node, nodeKey, mints, first>>
      BY <1>0, <1>5 DEF Write
    <2>2. first = Nothing /\ loaded[t][f] # Absent /\ loaded[t][f] \in Nat
      BY <1>0, <1>1, <2>1 DEF Inv, LoadsAreWhole, Typed
    <2>3. /\ file' \in [Files -> Nat \cup {Torn}] /\ file'[f] = loaded[t][f]
          /\ \A g \in Files \ {f} : file'[g] = file[g]
      BY <1>1, <2>1, <2>2 DEF Typed
    <2>4. Typed'
      BY <1>1, <2>1, <2>3, AfterTyped DEF Typed
    <2>5. file'[f] # Absent /\ file'[f] # Torn
      BY <2>2, <2>3 DEF Torn
    <2>6. Has(t, f)'
      BY <2>1, <2>3, <2>5 DEF Has, Whole
    <2> QED
      BY <1>0, <2>1, <2>2, <2>3, <2>4, <2>6, AfterKeeps
  <1>6. CASE Fail(t)
    <2>1. /\ pc[t] \in Whereabouts /\ Goto(t, "idle")
          /\ UNCHANGED <<file, storeTaken, which, loaded, identity, store, node, nodeKey,
                         mints, first>>
      BY <1>6 DEF Fail, Whereabouts
    <2>2. OneOwner' /\ pc'[t] = "idle" /\ \A u \in Threads \ {t} : pc'[u] = "idle"
      BY <2>1, OwnerGoesOn
    <2>3. Typed'
      BY <1>1, <2>1, GotoTyped DEF Typed
    <2>4. FirstIsKept' /\ LoadsAreWhole'
      BY <2>1, <2>2 DEF Inv, FirstIsKept, LoadsAreWhole, Whole
    <2> QED
      BY <2>2, <2>3, <2>4 DEF Inv
  <1>7. CASE Publish(t)
    <2>1. /\ pc[t] = "publish" /\ Goto(t, "idle") /\ identity' = loaded[t] /\ store' = TRUE
          /\ first' = IF first = Nothing THEN loaded[t] ELSE first
          /\ UNCHANGED <<file, storeTaken, which, loaded, node, nodeKey, mints>>
      BY <1>7 DEF Publish
    <2>2. \A g \in Files : Whole(g) /\ loaded[t][g] = file[g]
      BY <2>1 DEF Inv, LoadsAreWhole, Has
    <2>3. loaded[t] \in [Files -> Nat] /\ first \in [Files -> Nat]
      BY DEF Inv, Typed
    <2>4. loaded[t] # Nothing
      BY <2>2, <2>3 DEF Nothing, Whole, Files
    <2>5. first' = loaded[t]
      <3>1. CASE first = Nothing
        BY <2>1, <3>1
      <3>2. CASE first # Nothing
        <4>1. \A g \in Files : first[g] = loaded[t][g]
          BY <2>2, <3>2 DEF Inv, FirstIsKept
        <4>2. first = loaded[t]
          BY <2>3, <4>1
        <4> QED
          BY <2>1, <3>2, <4>2
      <3> QED
        BY <3>1, <3>2
    <2>6. storeTaken /\ ~node /\ \A u \in Threads : pc'[u] = "idle"
      BY <2>1, Alone DEF Whereabouts, Goto, Inv, Typed
    <2>7. Typed'
      BY <1>1, <2>1, <2>3, <2>5, GotoTyped DEF Typed
    <2>8. OneOwner'
      BY <2>1, <2>4, <2>6 DEF OneOwner, Whereabouts
    <2>9. FirstIsKept'
      BY <2>1, <2>2, <2>4, <2>5, <2>6 DEF Inv, FirstIsKept, Whole
    <2>10. LoadsAreWhole'
      BY <2>6 DEF LoadsAreWhole
    <2> QED
      BY <2>7, <2>8, <2>9, <2>10 DEF Inv
  <1>8. CASE Begin(t)
    BY <1>8, BeginKeeps
  <1> QED
    BY <1>2, <1>3, <1>4, <1>5, <1>6, <1>7, <1>8 DEF Beginning

\* The mesh takes the store over, reads the key again, and is gone.
LEMMA MeshKeeps ==
  ASSUME Inv, End \/ TakeStore \/ NodeLoads \/ NodeEnds
  PROVE  Inv'
  <1>1. CASE End
    <2>1. /\ identity' = Nothing /\ store' = FALSE
          /\ UNCHANGED <<file, storeTaken, pc, which, loaded, node, nodeKey, mints, first>>
      BY <1>1 DEF End
    <2>2. Typed'
      BY <2>1 DEF Inv, Typed, Nothing, Absent
    <2>3. OneOwner'
      BY <2>1 DEF Inv, OneOwner
    <2>4. FirstIsKept' /\ LoadsAreWhole'
      BY <2>1 DEF Inv, FirstIsKept, LoadsAreWhole, Has, Whole
    <2> QED
      BY <2>2, <2>3, <2>4 DEF Inv
  <1>2. CASE TakeStore
    <2>1. /\ store /\ store' = FALSE /\ nodeKey' = Absent
          /\ UNCHANGED <<file, storeTaken, pc, which, loaded, identity, mints, first>>
      BY <1>2 DEF TakeStore
    <2>2. Typed'
      BY <2>1 DEF Inv, Typed, Absent
    <2>3. OneOwner'
      BY <2>1 DEF Inv, OneOwner
    <2>4. FirstIsKept' /\ LoadsAreWhole'
      BY <2>1 DEF Inv, FirstIsKept, LoadsAreWhole, Has, Whole
    <2> QED
      BY <2>2, <2>3, <2>4 DEF Inv
  <1>3. CASE NodeLoads
    <2>1. node /\ first # Nothing /\ Whole("mid.devkey") /\ file["mid.devkey"] = first["mid.devkey"]
      BY <1>3 DEF NodeLoads, Inv, FirstIsKept, Files
    <2>2. /\ nodeKey' = file["mid.devkey"]
          /\ UNCHANGED <<file, storeTaken, pc, which, loaded, identity, store, node, mints, first>>
      BY <1>3, <2>1 DEF NodeLoads
    <2>3. Typed'
      BY <2>1, <2>2 DEF Inv, Typed, Files
    <2>4. OneOwner'
      BY <2>2 DEF Inv, OneOwner
    <2>5. FirstIsKept' /\ LoadsAreWhole'
      BY <2>1, <2>2 DEF Inv, FirstIsKept, LoadsAreWhole, Has, Whole
    <2> QED
      BY <2>3, <2>4, <2>5 DEF Inv
  <1>4. CASE NodeEnds
    <2>1. /\ node' = FALSE /\ nodeKey' = Absent
          /\ UNCHANGED <<file, storeTaken, pc, which, loaded, identity, store, mints, first>>
      BY <1>4 DEF NodeEnds
    <2>2. Typed'
      BY <2>1 DEF Inv, Typed, Absent
    <2>3. OneOwner'
      BY <2>1 DEF Inv, OneOwner
    <2>4. FirstIsKept' /\ LoadsAreWhole'
      BY <2>1 DEF Inv, FirstIsKept, LoadsAreWhole, Has, Whole
    <2> QED
      BY <2>2, <2>3, <2>4 DEF Inv
  <1> QED
    BY <1>1, <1>2, <1>3, <1>4

\* A crash leaves the files alone, and a new board finds a quiet process.
LEMMA BootKeeps ==
  ASSUME Inv, Crash \/ Install
  PROVE  Inv'
  <1>1. CASE Crash
    <2>1. /\ pc' = [t \in Threads |-> "idle"] /\ loaded' = [t \in Threads |-> Nothing]
          /\ identity' = Nothing /\ store' = FALSE /\ node' = FALSE /\ nodeKey' = Absent
          /\ UNCHANGED <<file, which, mints, first>>
      BY <1>1 DEF Crash
    <2>2. Typed'
      BY <2>1 DEF Inv, Typed, Nothing, Absent
    <2>3. OneOwner'
      BY <2>1 DEF OneOwner, Whereabouts
    <2>4. FirstIsKept' /\ LoadsAreWhole'
      BY <2>1 DEF Inv, FirstIsKept, LoadsAreWhole, Whole
    <2> QED
      BY <2>2, <2>3, <2>4 DEF Inv
  <1>2. CASE Install
    <2>1. /\ \A t \in Threads : pc[t] = "idle"
          /\ identity = Nothing /\ ~node /\ storeTaken' = FALSE
          /\ UNCHANGED <<file, pc, which, loaded, identity, store, node, nodeKey, mints, first>>
      BY <1>2 DEF Install
    <2>2. Typed'
      BY <2>1 DEF Inv, Typed
    <2>3. ~store
      BY <2>1 DEF Inv, OneOwner
    <2>4. OneOwner'
      BY <2>1, <2>3 DEF OneOwner, Whereabouts
    <2>5. FirstIsKept' /\ LoadsAreWhole'
      BY <2>1 DEF Inv, FirstIsKept, LoadsAreWhole, Whole
    <2> QED
      BY <2>2, <2>4, <2>5 DEF Inv
  <1> QED
    BY <1>1, <1>2

LEMMA NextInv == Inv /\ [Next]_vars => Inv'
  <1> SUFFICES ASSUME Inv, [Next]_vars PROVE Inv'
    OBVIOUS
  <1>1. CASE \E t \in Threads : Beginning(t)
    BY <1>1, BeginningKeeps
  <1>2. CASE End \/ TakeStore \/ NodeLoads \/ NodeEnds
    BY <1>2, MeshKeeps
  <1>3. CASE Crash \/ Install
    BY <1>3, BootKeeps
  <1>4. CASE UNCHANGED vars
    <2>1. UNCHANGED <<file, storeTaken, pc, which, loaded, identity, store, node, nodeKey, mints,
                      first>>
      BY <1>4 DEF vars, process
    <2>2. Typed' /\ OneOwner'
      BY <2>1 DEF Inv, Typed, OneOwner
    <2>3. FirstIsKept' /\ LoadsAreWhole'
      BY <2>1 DEF Inv, FirstIsKept, LoadsAreWhole, Has, Whole
    <2> QED
      BY <2>2, <2>3 DEF Inv
  <1> QED
    BY <1>1, <1>2, <1>3, <1>4 DEF Next

\* Every begin that succeeds answers what the first one did, whatever was torn
\* or refused between them.
THEOREM OneIdentity == Spec => []MintedOnce
  <1>1. Inv => MintedOnce
    BY DEF Inv, FirstIsKept, MintedOnce
  <1> QED
    BY <1>1, InitInv, NextInv, PTL DEF Spec

\* The node's key is the one that begin answered: it finds it whole.
THEOREM NodeHasTheKey == Spec => []NodeIsTheDevice
  <1>1. Inv => NodeIsTheDevice
    BY DEF Inv, FirstIsKept, NodeIsTheDevice
  <1> QED
    BY <1>1, InitInv, NextInv, PTL DEF Spec

\* The store is never in two hands.
THEOREM StoreIsOwned == Spec => []StoreHasOneOwner
  <1>1. Inv => StoreHasOneOwner
    <2> SUFFICES ASSUME Inv PROVE StoreHasOneOwner
      OBVIOUS
    <2>1. Cardinality(Beginners) <= 1
      <3>1. CASE Beginners = {}
        BY <3>1, FS_EmptySet
      <3>2. CASE \E t \in Threads : Beginners = {t}
        <4>1. PICK t \in Threads : Beginners = {t}
          BY <3>2
        <4>2. Cardinality({t}) = 1
          BY FS_Singleton
        <4> QED
          BY <4>1, <4>2
      <3>3. Beginners = {} \/ \E t \in Threads : Beginners = {t}
        BY DEF Inv, OneOwner, Beginners
      <3> QED
        BY <3>1, <3>2, <3>3
    <2>2. Beginners # {} => storeTaken /\ ~store /\ ~node
      BY DEF Inv, OneOwner, Beginners
    <2>3. (store => storeTaken /\ ~node) /\ (node => storeTaken)
      BY DEF Inv, OneOwner
    <2> QED
      BY <2>1, <2>2, <2>3 DEF StoreHasOneOwner, Beginners
  <1> QED
    BY <1>1, InitInv, NextInv, PTL DEF Spec

\* The types: a value in a file or in memory is one that was drawn.
THEOREM TypeCorrect == Spec => []TypeOK
  <1> USE BoundsAssumption
  <1>1. Init => TypeOK
    <2> SUFFICES ASSUME Init PROVE TypeOK
      OBVIOUS
    <2>1. Absent \in Value /\ 0 \in Value /\ 0 \in 0 .. MaxBoots
      BY DEF Value, Absent
    <2>2. Nothing \in [Files -> Value]
      BY <2>1 DEF Nothing
    <2>3. file \in [Files -> Value \cup {Torn}] /\ loaded \in [Threads -> [Files -> Value]]
      BY <2>2 DEF Init
    <2>4. /\ pc \in [Threads -> Whereabouts \cup {"idle"}]
          /\ which \in [Threads -> Files]
      BY DEF Init, Files
    <2> QED
      BY <2>1, <2>2, <2>3, <2>4 DEF Init, TypeOK
  <1>2. TypeOK /\ [Next]_vars => TypeOK'
    <2> SUFFICES ASSUME TypeOK, [Next]_vars PROVE TypeOK'
      OBVIOUS
    <2>1. Absent \in Value /\ (mints < MaxMints => mints + 1 \in Value)
      BY DEF TypeOK, Value, Absent
    <2>2. ASSUME NEW t \in Threads, Begin(t) \/ Fail(t) PROVE TypeOK'
      BY <2>2 DEF Begin, Fail, Goto, TypeOK, Whereabouts, Files
    <2>3. ASSUME NEW t \in Threads, Load(t) PROVE TypeOK'
      <3>1. file[which[t]] \in Value /\ which[t] \in Files
        BY <2>3 DEF Load, Whole, TypeOK
      <3>2. loaded' \in [Threads -> [Files -> Value]]
        BY <2>3, <3>1 DEF Load, TypeOK
      <3>3. pc' \in [Threads -> Whereabouts \cup {"idle"}] /\ which' \in [Threads -> Files]
        BY <2>3 DEF Load, After, Goto, TypeOK, Whereabouts, Files
      <3> QED
        BY <2>3, <3>2, <3>3 DEF Load, TypeOK
    <2>4. ASSUME NEW t \in Threads, Mint(t) PROVE TypeOK'
      <3>1. mints' \in Value /\ loaded' \in [Threads -> [Files -> Value]]
        BY <2>1, <2>4 DEF Mint, TypeOK
      <3>2. pc' \in [Threads -> Whereabouts \cup {"idle"}]
        BY <2>4 DEF Mint, Goto, TypeOK, Whereabouts
      <3> QED
        BY <2>4, <3>1, <3>2 DEF Mint, TypeOK
    <2>5. ASSUME NEW t \in Threads, Truncate(t) PROVE TypeOK'
      BY <2>5 DEF Truncate, Goto, TypeOK, Whereabouts
    <2>6. ASSUME NEW t \in Threads, Write(t) PROVE TypeOK'
      <3>1. file' \in [Files -> Value \cup {Torn}]
        BY <2>6 DEF Write, TypeOK
      <3>2. pc' \in [Threads -> Whereabouts \cup {"idle"}] /\ which' \in [Threads -> Files]
        BY <2>6 DEF Write, After, Goto, TypeOK, Whereabouts, Files
      <3> QED
        BY <2>6, <3>1, <3>2 DEF Write, TypeOK
    <2>7. ASSUME NEW t \in Threads, Publish(t) PROVE TypeOK'
      BY <2>7 DEF Publish, Goto, TypeOK, Whereabouts
    <2>8. CASE End \/ TakeStore \/ NodeEnds
      BY <2>1, <2>8 DEF End, TakeStore, NodeEnds, Nothing, TypeOK
    <2>9. CASE NodeLoads
      <3>1. nodeKey' \in Value /\ mints' \in Value /\ file' \in [Files -> Value \cup {Torn}]
        BY <2>1, <2>9 DEF NodeLoads, Whole, Files, TypeOK
      <3> QED
        BY <2>9, <3>1 DEF NodeLoads, TypeOK
    <2>10. CASE Crash \/ Install
      <3>1. boots' \in 0 .. MaxBoots
        BY <2>10 DEF Crash, Install, TypeOK
      <3>2. Nothing \in [Files -> Value]
        BY <2>1 DEF Nothing
      <3>3. CASE Crash
        BY <2>1, <3>1, <3>2, <3>3 DEF Crash, TypeOK
      <3>4. CASE Install
        BY <3>1, <3>4 DEF Install, TypeOK
      <3> QED
        BY <2>10, <3>3, <3>4
    <2>11. CASE UNCHANGED vars
      BY <2>11 DEF vars, process, TypeOK
    <2> QED
      BY <2>2, <2>3, <2>4, <2>5, <2>6, <2>7, <2>8, <2>9, <2>10, <2>11 DEF Next, Beginning
  <1> QED
    BY <1>1, <1>2, PTL DEF Spec
=============================================================================
