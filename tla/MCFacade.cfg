\* Two boards, a file of three items in blocks of four, four ticks, four items,
\* the fourth of which is due with the third.
SPECIFICATION FairSpec
CONSTANTS
  None = None
  Kinds <- MCKinds
  Sketches <- MCSketches
  Settings <- MCSettings
  FileLen = 3
  BlockLen = 4
  MaxFactor = 2
  MaxBoards = 2
  MaxTime = 4
  MaxItems = 4
  MaxWritten = 2
INVARIANTS TypeOK PacedFromTheStart PlaysEndlessly SaidIsSo CredentialsAreKept
PROPERTIES HandlerIsAnswered
\* A sketch may use up its boards and its time.
CHECK_DEADLOCK FALSE
