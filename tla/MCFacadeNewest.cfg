\* Two readings wait, and the sketch is handed the older one.
SPECIFICATION FairSpec
CONSTANTS
  None = None
  Kinds <- MCKinds
  Sketches <- MCSketches
  Settings <- MCSettings
  FileLen = 3
  BlockLen = 4
  MaxFactor = 2
  MaxBoards = 2
  MaxTime = 4
  MaxItems = 4
  MaxWritten = 2
PROPERTIES NewestReading
\* A sketch may use up its boards and its time.
CHECK_DEADLOCK FALSE
