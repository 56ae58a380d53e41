\* Two threads that race on the last board, whose node is adopted and released;
\* or one thread that begins again on a second board.
SPECIFICATION MCSpec
CONSTANTS
  t1 = t1
  t2 = t2
  Threads <- MCThreads
  Sketch = t1
  MaxBoards = 2
  MaxNodes = 2
  MaxFlips = 2
  MaxReads = 1
INVARIANTS TypeOK NoStateIsReplaced OneHolder RecordIsCurrent ValidMeansUp
PROPERTIES CallsReturn PinReachesTheBoard UpdateIsReported AbandonedNodeStops
\* Once every board's store is spent the process has nothing left to do.
CHECK_DEADLOCK FALSE
