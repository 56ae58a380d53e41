\* Both places to install the board; a watchdog of two ticks; counters that
\* saturate at three boots.
SPECIFICATION FairSpec
CONSTANTS
  Timeout = 2
  MaxCount = 3
INVARIANTS TypeOK RecordTellsTheCrashes KeptImageCameUp
PROPERTIES HangsEnd
\* A board that nobody watches may hang for ever.
CHECK_DEADLOCK FALSE
