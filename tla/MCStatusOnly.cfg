\* Two clients, a buffer of three pieces, a timeout of two ticks.
SPECIFICATION FairSpec
CONSTANTS
  c1 = c1
  c2 = c2
  Clients <- MCClients
  MaxRequest = 3
  Timeout = 2
INVARIANTS TypeOK HeadIsBounded
PROPERTIES EveryClientIsAnswered
\* When every client is answered the server waits for the next.
CHECK_DEADLOCK FALSE
