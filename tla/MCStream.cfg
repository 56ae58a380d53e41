\* Two viewers on two servers (or both on one), two frames.
SPECIFICATION FairSpec
CONSTANTS
  v1 = v1
  v2 = v2
  Viewers <- MCViewers
  MaxServers = 2
  MaxPushes = 2
INVARIANTS TypeOK OnlyOpenServersWork TotalsAddUp
PROPERTIES KeepsThePromise RequestsAreAnswered QueuedStreamsHaveTheirTurn
\* When every connection is over the program may have nothing left to do.
CHECK_DEADLOCK FALSE
