\* The parts of the monitor beside its flow table, one at a time.  Two lists over five nodes:
\* every shape of ring an operation can meet (empty, one node, two, the head, the last and one
\* in between).  Three periods of two seconds each, in a zone two periods east of Greenwich.
\* Three flows, and Ctrl+C pressed up to three times.  Two types of errors and one that is none;
\* two turns of the count.
CONSTANTS
  Nil = Nil
  Nodes = {1, 2, 3, 4, 5}
  Lists = {"active", "flags"}
  Frames <- WholeFrames
  VlanIds = {7, 8}
  FLOW_FILE_DUR = 2
  Offset = 4
  Word64 = 128
  Word32 = 32
  LastSecond = 84
  Start = 2
  Clock = {2, 3, 4, 5, 6, 7}
  MaxFlows = 3
  MaxSignals = 3
  MESSAGE_COUNT_LIMIT = 4
  NUM_ERROR_TYPES = 2
  Errors = {0, 1, 2}
  MaxErrors = 9
SPECIFICATION Spec
INVARIANTS ParsedRight ShutdownKeepsFlows Throttled
PROPERTIES ImplementsLists ThreadsGoOn FilesFollowClock
