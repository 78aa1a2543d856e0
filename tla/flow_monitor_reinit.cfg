\* The clock goes back within the first two seconds.
CONSTANTS
  a = a  b = b  x = x  y = y
  Keys = {a}
  Other = other  Short = short
  Buckets <- MCBuckets
  Hash <- SameBucket
  NSessions = 3
  NNodes = 6
  UsInSec = 2
  Expiration = 2
  Word = 64
  Clock <- MCClock
  Step <- Wild
  NTimeouts = 1
  MaxTick = 5
  MaxPackets = 3
SPECIFICATION Spec
PROPERTIES InitDataOnlyFirst
