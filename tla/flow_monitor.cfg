\* Pools of the program's proportions, keys that collide, and a clock that never
\* goes back.
CONSTANTS
  a = a  b = b  x = x  y = y
  Keys = {a, b}
  Other = other  Short = short
  Buckets <- MCBuckets
  Hash <- SameBucket
  NSessions = 3
  NNodes = 6
  UsInSec = 2
  Expiration = 2
  Word = 64
  Clock <- MCClock
  Step <- Forward
  NTimeouts = 1
  MaxTick = 8
  MaxPackets = 4
SPECIFICATION Spec
INVARIANTS
  TypeOK NothingLeaks NodePoolSuffices JoinedFirst CleanupComplete
  SplitOnlyByExpiry NoPacketLost
PROPERTIES LedgerSpec
