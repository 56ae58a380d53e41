\* A push whose frame the slot took and the RTP sender refused.
SPECIFICATION FairSpec
CONSTANTS
  v1 = v1
  v2 = v2
  Viewers <- MCViewers
  MaxServers = 2
  MaxPushes = 2

PROPERTIES TakenIsTrue
\* When every connection is over the program may have nothing left to do.
CHECK_DEADLOCK FALSE
