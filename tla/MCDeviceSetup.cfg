\* A sketch that installs its board first thing in setup is never watched.
SPECIFICATION FairSpec
CONSTANTS
  Timeout = 2
  MaxCount = 3
PROPERTIES EveryHangEnds
\* A board that nobody watches may hang for ever.
CHECK_DEADLOCK FALSE
