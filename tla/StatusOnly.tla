----------------------------- MODULE StatusOnly -----------------------------
(***************************************************************************)
(* The status-only server (stream.rs, listen_status): one thread accepts a *)
(* connection, reads its request head, answers it and accepts the next.    *)
(*                                                                         *)
(* A head is a number of pieces, which arrive one at a time, and a read    *)
(* takes what has arrived; it gives up when nothing does for               *)
(* REQUEST_TIMEOUT.  What is answered to which path is left out: the       *)
(* answer is made of the pieces read, whatever they are.                   *)
(***************************************************************************)
EXTENDS Integers

CONSTANTS Clients,      \* each makes one request
          MaxRequest,   \* MAX_REQUEST_BYTES, in pieces
          Timeout       \* REQUEST_TIMEOUT, in ticks

ASSUME BoundsAssumption == {MaxRequest, Timeout} \subseteq Nat \ {0}

Nobody == "nobody"

VARIABLES
  status,       \* STATE.status is Some: on_status was called
  listening,    \* the thread of listen_status runs
  place,        \* place[c]: "away", "backlog", "served", "over"
  length,       \* length[c]: the pieces of its request head
  sent,         \* sent[c]: the pieces it has sent
  hungUp,       \* hungUp[c]: it has closed its end
  serving,      \* the client whose head is read
  n,            \* the pieces of it that were read
  quiet,        \* ticks in the read that waits
  held          \* history: ticks since this client was accepted

server == <<status, listening>>
client == <<place, length, sent, hungUp>>
thread == <<serving, n, quiet, held>>
vars == <<server, client, thread>>

Init ==
  /\ status = FALSE /\ listening = FALSE
  /\ place = [c \in Clients |-> "away"]
  /\ length = [c \in Clients |-> 1]
  /\ sent = [c \in Clients |-> 0]
  /\ hungUp = [c \in Clients |-> FALSE]
  /\ serving = Nobody /\ n = 0 /\ quiet = 0 /\ held = 0

-----------------------------------------------------------------------------
(* The sketch.                                                             *)

\* A second handler is for the server that is not started yet.
OnStatus ==
  /\ ~status /\ status' = TRUE
  /\ UNCHANGED <<listening, client, thread>>

\* Without a handler, a port or a thread it is an error that changes nothing.
\* "One server per program": a second one would be a thread of its own.  That
\* the pushes of a camera move to this server's slot is in Stream.
ListenStatus ==
  /\ status /\ ~listening
  /\ listening' = TRUE
  /\ UNCHANGED <<status, client, thread>>

-----------------------------------------------------------------------------
(* The clients.                                                            *)

\* A head of any length, also one that does not fit the server's buffer.
Connect(c) ==
  /\ listening /\ place[c] = "away"
  /\ place' = [place EXCEPT ![c] = "backlog"]
  /\ \E l \in 1 .. MaxRequest + 1 : length' = [length EXCEPT ![c] = l]
  /\ UNCHANGED <<server, sent, hungUp, thread>>

Send(c) ==
  /\ place[c] \in {"backlog", "served"} /\ ~hungUp[c] /\ sent[c] < length[c]
  /\ sent' = [sent EXCEPT ![c] = @ + 1]
  /\ UNCHANGED <<server, place, length, hungUp, thread>>

HangUp(c) ==
  /\ place[c] \in {"backlog", "served"} /\ ~hungUp[c]
  /\ hungUp' = [hungUp EXCEPT ![c] = TRUE]
  /\ UNCHANGED <<server, place, length, sent, thread>>

-----------------------------------------------------------------------------
(* The server's thread.                                                    *)

Accept(c) ==
  /\ serving = Nobody /\ place[c] = "backlog"
  /\ place' = [place EXCEPT ![c] = "served"]
  /\ serving' = c /\ n' = 0 /\ quiet' = 0 /\ held' = 0
  /\ UNCHANGED <<server, length, sent, hungUp>>

\* A read goes on until the head is whole, into a buffer without an end.
HeadDoneWhole == n = length[serving]

\* while n < head.len() && !head_complete
HeadDone == n >= MaxRequest \/ n = length[serving]
Arrived == sent[serving] > n

\* A read into a buffer that grows with what arrives.
ReadAll ==
  /\ serving # Nobody /\ ~HeadDone /\ Arrived
  /\ \E k \in 1 .. sent[serving] - n : n' = n + k
  /\ quiet' = 0
  /\ UNCHANGED <<server, client, serving, held>>

\* One read: some of what has arrived, as much as the buffer has room for.
Read ==
  /\ serving # Nobody /\ ~HeadDone /\ Arrived
  /\ \E k \in 1 .. sent[serving] - n : n + k <= MaxRequest /\ n' = n + k
  /\ quiet' = 0
  /\ UNCHANGED <<server, client, serving, held>>

\* A read that has no timeout, as TcpStream's have none by default.
GivesUpNever == hungUp[serving]

\* Ok(0) | Err(_) => break: the end of the stream, which as a reset may cost
\* what had arrived, or REQUEST_TIMEOUT.
GivesUp == hungUp[serving] \/ (~Arrived /\ quiet = Timeout)

\* The answer, to a whole head or to what there is of it; the connection is
\* dropped and counted.
Reply ==
  /\ serving # Nobody /\ (HeadDone \/ GivesUp)
  /\ place' = [place EXCEPT ![serving] = "over"]
  /\ serving' = Nobody /\ n' = 0 /\ quiet' = 0 /\ held' = 0
  /\ UNCHANGED <<server, length, sent, hungUp>>

\* Time passes while a read waits.
Tick ==
  /\ serving # Nobody /\ ~HeadDone /\ ~Arrived /\ quiet < Timeout
  /\ quiet' = quiet + 1 /\ held' = held + 1
  /\ UNCHANGED <<server, client, serving, n>>

Serve == (\E c \in Clients : Accept(c)) \/ Read \/ Reply

Next ==
  \/ OnStatus \/ ListenStatus
  \/ \E c \in Clients : Connect(c) \/ Send(c) \/ HangUp(c)
  \/ Serve \/ Tick

Spec == Init /\ [][Next]_vars

\* The server's thread runs and time passes.  No client has to say anything.
FairSpec == Spec /\ WF_vars(Serve) /\ WF_vars(Tick)

-----------------------------------------------------------------------------
TypeOK ==
  /\ status \in BOOLEAN /\ listening \in BOOLEAN
  /\ place \in [Clients -> {"away", "backlog", "served", "over"}]
  /\ length \in [Clients -> 1 .. MaxRequest + 1]
  /\ sent \in [Clients -> 0 .. MaxRequest + 1]
  /\ hungUp \in [Clients -> BOOLEAN]
  /\ serving \in Clients \cup {Nobody}
  /\ n \in 0 .. MaxRequest
  /\ quiet \in 0 .. Timeout
  /\ held \in Nat

\* "A client that connects and says nothing must not hold the next one": every
\* client is answered, whatever the ones before it send, keep back or break off.
EveryClientIsAnswered ==
  \A c \in Clients : (place[c] = "backlog") ~> (place[c] = "over")

\* One client holds the only thread for at most one REQUEST_TIMEOUT for each
\* piece that the buffer has room for.  The timeout is of a read and starts
\* anew with every piece, so that a head sent slowly is waited for longer than
\* one REQUEST_TIMEOUT; it is the full buffer that ends the wait.
HeadIsBounded == held <= MaxRequest * Timeout
=============================================================================
