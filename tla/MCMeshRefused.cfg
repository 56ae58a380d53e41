\* One refusal of advertise_txt, and the record is never offered again.
SPECIFICATION FairSpec
CONSTANTS
  t1 = t1
  t2 = t2
  Threads = {t1}
  Sketch = t1
  MaxBoards = 1
  MaxNodes = 2
  MaxFlips = 2
  MaxReads = 0
PROPERTIES AdvertisementFollowsThePin
\* Once every board's store is spent the process has nothing left to do.
CHECK_DEADLOCK FALSE
