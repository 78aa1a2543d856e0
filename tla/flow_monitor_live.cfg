\* The whole life of the program, to its end, on a fair scheduler.
CONSTANTS
  a = a  b = b  x = x  y = y
  Keys = {a}
  Other = other  Short = short
  Buckets <- MCBuckets
  Hash <- SameBucket
  NSessions = 3
  NNodes = 6
  UsInSec = 2
  Expiration = 2
  Word = 64
  Clock <- MCClock
  Step <- Forward
  NTimeouts = 2
  MaxTick = 8
  MaxPackets = 3
SPECIFICATION FairSpec
PROPERTIES ShutdownCompletes RetiredIsReported
