\* The parts that talk to the kernel, one at a time: three packets in rings of two entries and
\* three options on a command line, two processes on a driver with native mode,
\* three sockets of which two load no program, a dump of two links that takes two datagrams,
\* and three hooks of probes.
CONSTANTS
  Nil = Nil
  Frames <- SomeFrames
  Queues = {0, 1, 2}
  Queue = 1
  NUM_FRAMES = 4
  FqSize = 2
  RxSize = 2
  RX_BATCH_SIZE = 2
  NPackets = 3
  PORT = 9
  Names <- OptionNames
  Long = {"longname"}
  Known <- Interfaces
  MaxArgs = 3
  Procs = {"p1", "p2"}
  Configs <- CommandLines
  Native = TRUE
  Socks = {"s1", "s2", "s3"}
  Inhibit = {"s2", "s3"}
  MaxNoFd = 2
  Links = {1, 2}
  Ids = {7}
  Batch = 1
  NChanges = 1
  NCalls = 1
  NStrays = 1
  Events = {"e1", "e2", "e3"}
SPECIFICATION Spec
INVARIANTS ResourcesGivenBack ScenarioServes HookKept
PROPERTIES AnswersRight LoopsGoOn
