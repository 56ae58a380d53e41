------------------------------ MODULE Identity ------------------------------
(***************************************************************************)
(* The device's identity from boot to boot (identity.rs): begin loads or   *)
(* mints the device key and then the page token in the board's store,      *)
(* which the board hands out once (host.rs); the mesh takes the store      *)
(* over, and its node reads the key again (mesh.rs).                       *)
(*                                                                         *)
(* A put into the laptop's store truncates the file and then writes it, so *)
(* a crash or an error may leave it torn.  Everything but the store is     *)
(* lost with the process.  A key or token is the number of the draw of     *)
(* entropy it was minted from.                                             *)
(***************************************************************************)
EXTENDS Integers, FiniteSets

CONSTANTS Threads,      \* threads that call begin
          MaxMints,     \* bound: draws of entropy
          MaxBoots      \* bound: crashes and new boards

ASSUME BoundsAssumption == MaxMints \in Nat /\ MaxBoots \in Nat

Files == {"mid.devkey", "page.token"}
Absent == 0
Torn == -1
Nothing == [f \in Files |-> Absent]

VARIABLES
  file,         \* file[f]: Absent, Torn, or the value in the store
  storeTaken,   \* HostBoard.store_taken
  pc,           \* pc[t]: where thread t is in begin
  which,        \* which[t]: the file thread t loads or writes
  loaded,       \* loaded[t]: the key and the token thread t has
  identity,     \* IDENTITY: its did (the key's) and token; Nothing for None
  store,        \* State.store is Some
  node,         \* the mesh node holds the store
  nodeKey,      \* the key the node presents
  mints, boots, \* bounds
  first         \* history: the first key and token a begin answered

process == <<storeTaken, pc, which, loaded, identity, store, node, nodeKey>>
vars == <<file, process, mints, boots, first>>

Init ==
  /\ file = Nothing /\ storeTaken = FALSE
  /\ pc = [t \in Threads |-> "idle"]
  /\ which = [t \in Threads |-> "mid.devkey"]
  /\ loaded = [t \in Threads |-> Nothing]
  /\ identity = Nothing /\ store = FALSE
  /\ node = FALSE /\ nodeKey = Absent
  /\ mints = 0 /\ boots = 0 /\ first = Nothing

Goto(t, where) == pc' = [pc EXCEPT ![t] = where]

-----------------------------------------------------------------------------
(* identity::begin.                                                        *)

\* board::with: take_kv gives its store once, and spends it also when opening
\* it (or taking the entropy) fails.  A begin that finds it spent is refused.
Begin(t) ==
  /\ pc[t] = "idle" /\ ~storeTaken
  /\ storeTaken' = TRUE
  /\ \/ Goto(t, "load") /\ which' = [which EXCEPT ![t] = "mid.devkey"]
     \/ UNCHANGED <<pc, which>>
  /\ UNCHANGED <<file, loaded, identity, store, node, nodeKey, mints, boots, first>>

\* The token after the key, and then the State.
After(t) ==
  IF which[t] = "mid.devkey"
    THEN which' = [which EXCEPT ![t] = "page.token"] /\ Goto(t, "load")
    ELSE Goto(t, "publish") /\ UNCHANGED which

\* A load that takes a file of any length for the value.
NotAbsent(f) == file[f] # Absent

\* The value is there, of its own length.
Whole(f) == file[f] \notin {Absent, Torn}

Load(t) ==
  /\ pc[t] = "load" /\ Whole(which[t])
  /\ loaded' = [loaded EXCEPT ![t][which[t]] = file[which[t]]]
  /\ After(t)
  /\ UNCHANGED <<file, storeTaken, identity, store, node, nodeKey, mints, boots, first>>

\* A mint that is never put into the store.
MintUnsaved(t) ==
  /\ pc[t] = "load" /\ ~Whole(which[t]) /\ mints < MaxMints
  /\ mints' = mints + 1
  /\ loaded' = [loaded EXCEPT ![t][which[t]] = mints + 1]
  /\ After(t)
  /\ UNCHANGED <<file, storeTaken, identity, store, node, nodeKey, boots, first>>

\* A file that is absent, or a token of another length, is minted over.
Mint(t) ==
  /\ pc[t] = "load" /\ ~Whole(which[t]) /\ mints < MaxMints
  /\ mints' = mints + 1
  /\ loaded' = [loaded EXCEPT ![t][which[t]] = mints + 1]
  /\ Goto(t, "put")
  /\ UNCHANGED <<file, storeTaken, which, identity, store, node, nodeKey, boots, first>>

\* FileKv::put, fs::write: the file is truncated ...
Truncate(t) ==
  /\ pc[t] = "put"
  /\ file' = [file EXCEPT ![which[t]] = Torn]
  /\ Goto(t, "write")
  /\ UNCHANGED <<storeTaken, which, loaded, identity, store, node, nodeKey, mints, boots, first>>

\* ... and written.
Write(t) ==
  /\ pc[t] = "write"
  /\ file' = [file EXCEPT ![which[t]] = loaded[t][which[t]]]
  /\ After(t)
  /\ UNCHANGED <<storeTaken, loaded, identity, store, node, nodeKey, mints, boots, first>>

\* A begin that goes on when the store refuses a value.
GoOn(t) ==
  /\ pc[t] \in {"put", "write"}
  /\ After(t)
  /\ UNCHANGED <<file, storeTaken, loaded, identity, store, node, nodeKey, mints, boots, first>>

\* The store or the entropy refuses, or the key in the store is no key: `?`
\* drops the store.
Fail(t) ==
  /\ pc[t] \in {"load", "put", "write"}
  /\ Goto(t, "idle")
  /\ UNCHANGED <<file, storeTaken, which, loaded, identity, store, node, nodeKey, mints,
                 boots, first>>

\* *IDENTITY = Some(State).
Publish(t) ==
  /\ pc[t] = "publish"
  /\ Goto(t, "idle")
  /\ identity' = loaded[t] /\ store' = TRUE
  /\ first' = IF first = Nothing THEN loaded[t] ELSE first
  /\ UNCHANGED <<file, storeTaken, which, loaded, node, nodeKey, mints, boots>>

End ==
  /\ identity # Nothing
  /\ identity' = Nothing /\ store' = FALSE
  /\ UNCHANGED <<file, storeTaken, pc, which, loaded, node, nodeKey, mints, boots, first>>

-----------------------------------------------------------------------------
(* The mesh takes the store.                                               *)

\* A take_store that leaves the store where it was.
CopyStore ==
  /\ store
  /\ node' \in BOOLEAN /\ nodeKey' = Absent
  /\ UNCHANGED <<file, storeTaken, pc, which, loaded, identity, store, mints, boots, first>>

\* take_store; a mesh::begin that fails before its node runs drops the store.
TakeStore ==
  /\ store
  /\ store' = FALSE
  /\ node' \in BOOLEAN /\ nodeKey' = Absent
  /\ UNCHANGED <<file, storeTaken, pc, which, loaded, identity, mints, boots, first>>

\* NodeIdentity::load_or_create: it would mint a key that is not there.
NodeLoads ==
  /\ node /\ nodeKey = Absent
  /\ IF Whole("mid.devkey")
       THEN nodeKey' = file["mid.devkey"] /\ UNCHANGED <<file, mints>>
       ELSE /\ mints < MaxMints /\ mints' = mints + 1
            /\ nodeKey' = mints + 1
            /\ file' = [file EXCEPT !["mid.devkey"] = mints + 1]
  /\ UNCHANGED <<storeTaken, pc, which, loaded, identity, store, node, boots, first>>

\* The node's thread is over (end, or its bind failed): the store is dropped.
NodeEnds ==
  /\ node
  /\ node' = FALSE /\ nodeKey' = Absent
  /\ UNCHANGED <<file, storeTaken, pc, which, loaded, identity, store, mints, boots, first>>

-----------------------------------------------------------------------------
\* A crash or a power cut at any point, and the next boot.
Crash ==
  /\ boots < MaxBoots /\ boots' = boots + 1
  /\ storeTaken' = FALSE
  /\ pc' = [t \in Threads |-> "idle"]
  /\ loaded' = [t \in Threads |-> Nothing]
  /\ identity' = Nothing /\ store' = FALSE
  /\ node' = FALSE /\ nodeKey' = Absent
  /\ UNCHANGED <<file, which, mints, first>>

\* board::install of another board over the same directory, in a quiet process.
Install ==
  /\ boots < MaxBoots /\ boots' = boots + 1
  /\ storeTaken
  /\ \A t \in Threads : pc[t] = "idle"
  /\ identity = Nothing /\ ~node
  /\ storeTaken' = FALSE
  /\ UNCHANGED <<file, pc, which, loaded, identity, store, node, nodeKey, mints, first>>

Beginning(t) ==
  \/ Begin(t) \/ Load(t) \/ Mint(t) \/ Truncate(t) \/ Write(t) \/ Fail(t) \/ Publish(t)

Next ==
  \/ \E t \in Threads : Beginning(t)
  \/ End \/ TakeStore \/ NodeLoads \/ NodeEnds \/ Crash \/ Install

Spec == Init /\ [][Next]_vars

-----------------------------------------------------------------------------
Value == Absent .. MaxMints
Whereabouts == {"load", "put", "write", "publish"}

TypeOK ==
  /\ file \in [Files -> Value \cup {Torn}]
  /\ storeTaken \in BOOLEAN /\ store \in BOOLEAN /\ node \in BOOLEAN
  /\ pc \in [Threads -> Whereabouts \cup {"idle"}]
  /\ which \in [Threads -> Files]
  /\ loaded \in [Threads -> [Files -> Value]]
  /\ identity \in [Files -> Value] /\ first \in [Files -> Value]
  /\ nodeKey \in Value /\ mints \in Value
  /\ boots \in 0 .. MaxBoots

\* "Minted once ... the same on every boot": every begin that succeeds answers
\* the DID and the page token of the first one that did, whatever crash, torn
\* file or refused write lies between them.
MintedOnce == identity # Nothing => identity = first

\* The node presents the identity that begin answered, "not a second one",
\* though it reads the store again on its own.
NodeIsTheDevice == nodeKey # Absent => nodeKey = first["mid.devkey"]

\* Two threads that begin, the mesh and the board never hold the store at the
\* same time: no two of them can mint over each other.
StoreHasOneOwner ==
  LET beginning == {t \in Threads : pc[t] \in Whereabouts} IN
  /\ Cardinality(beginning) <= 1
  /\ beginning # {} => storeTaken /\ ~store /\ ~node
  /\ store => storeTaken /\ ~node
  /\ node => storeTaken
=============================================================================
