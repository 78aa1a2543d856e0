\* A clock that may go back, and fewer nodes than two for each session, so that
\* insertFlowTable runs out of nodes as well.
CONSTANTS
  a = a  b = b  x = x  y = y
  Keys = {a, b}
  Other = other  Short = short
  Buckets <- MCBuckets
  Hash <- TwoBuckets
  NSessions = 3
  NNodes = 3
  UsInSec = 2
  Expiration = 2
  Word = 64
  Clock <- MCClock
  Step <- Wild
  NTimeouts = 1
  MaxTick = 7
  MaxPackets = 4
SPECIFICATION Spec
INVARIANTS PoolsSound FlowsSound PoolBudget InitDataFindsNothingExpired
