\* Two subscribers, three frames over three channels, numbers that wrap after
\* three: a channel can be pushed through a whole lap.
SPECIFICATION FairSpec
CONSTANTS
  s1 = s1
  s2 = s2
  Subs <- MCSubs
  Modulus = 3
  MaxPushes = 3
INVARIANTS TypeOK NoLostWakeup BehindIsSeen AnyFindsAMaker
PROPERTIES KeepsThePromise CatchesUp EndReleasesAll
\* After `end` the subscribers are over and nothing is left to do.
CHECK_DEADLOCK FALSE
