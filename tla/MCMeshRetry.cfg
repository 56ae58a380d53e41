\* A begin that failed, called again.
SPECIFICATION FairSpec
CONSTANTS
  t1 = t1
  t2 = t2
  Threads = {t1}
  Sketch = t1
  MaxBoards = 1
  MaxNodes = 2
  MaxFlips = 2
  MaxReads = 0
PROPERTIES NotBegunIsTrue
\* Once every board's store is spent the process has nothing left to do.
CHECK_DEADLOCK FALSE
