----------------------------- MODULE MCMonitor ------------------------------
(***************************************************************************)
(* The parts of the flow monitor beside the flow table: the rings of       *)
(* list.c, the capture library, the flow files, the parser of packets and  *)
(* the XDP program before it, the life of the process, and the throttle of *)
(* the log.                                                                *)
(*                                                                         *)
(* The parts share no variables, so that a behaviour of one of them at a   *)
(* time shows all that a product of them would: part says which.           *)
(***************************************************************************)
EXTENDS Integers, Sequences

CONSTANTS
  Nil,                  \* of a variable whose part does not run
  Nodes, Lists,         \* of NodeRing
  Frames, VlanIds,      \* of PacketParser and XdpPrograms
  FLOW_FILE_DUR, Offset, Word64, Word32, LastSecond, Start, Clock,   \* of FlowFile
  MaxFlows, MaxSignals, \* of MonitorLife
  MESSAGE_COUNT_LIMIT, NUM_ERROR_TYPES, Errors, MaxErrors   \* of ErrorLog

\* Frames with up to two tags whose headers end before, at and behind their end, with
\* header and datagram lengths around the ones that are allowed; no fragments.
WholeFrames ==
  {f \in [tags : {<<>>, <<7>>, <<7, 8>>}, etype : {"ip", "other", "icmp", "udp"},
          ihl : {4, 5, 6}, tot_len : {19, 23, 27, 28, 32, 43, 44},
          protocol : {"udp", "tcp", "icmp", "other"}, fragment : {FALSE},
          doff : {4, 5, 6}, udplen : {0}, pktgen : BOOLEAN,
          caplen : {14, 17, 18, 34, 35, 38, 40, 42, 46, 50, 54, 58, 62, 66}] :
     /\ f.etype # "ip" => f.ihl = 5 /\ f.tot_len = 28 /\ f.protocol = "udp"
     /\ f.protocol # "tcp" => f.doff = 5
     /\ f.protocol \in {"tcp", "icmp"} => ~ f.pktgen}

VARIABLES
  part,   \* the module whose behaviour this is; the variables of the others are Nil
  next, prev, head,   \* NodeRing
  \* XdpCapture
  umem_frame_addr, umem_frame_free, fq, fqFree, held, rx, rxSeen, rcvd, done, idle, stop_capture,
  stop_pt, capture_pc,
  \* FlowFile
  second, file_stop_et, file, prev_second, current_second, file_pc, file_main, file_shown,
  printed,
  \* PacketParser
  frame, num_tags, bp, aux16, vlanTag, ipHLen, ipLen, addrs, ports, outcome, proto, stale,
  \* MonitorLife
  life_main, pt, et, life_stop_et, sock, pools, session, table, expired, buffered, disk, signals,
  message_count, happened, log_shown   \* ErrorLog

ringVars == <<next, prev, head>>
captureVars == <<umem_frame_addr, umem_frame_free, fq, fqFree, held, rx, rxSeen, rcvd, done,
                 idle, stop_capture, stop_pt, capture_pc>>
fileVars == <<second, file_stop_et, file, prev_second, current_second, file_pc, file_main,
              file_shown, printed>>
parserVars == <<frame, num_tags, bp, aux16, vlanTag, ipHLen, ipLen, addrs, ports, outcome, proto,
                stale>>
lifeVars == <<life_main, pt, et, life_stop_et, sock, pools, session, table, expired, buffered,
              disk, signals>>
logVars == <<message_count, happened, log_shown>>
vars == <<part, ringVars, captureVars, fileVars, parserVars, lifeVars, logVars>>

\* The rings of list.c, implementing the lists of NodeLists.
Ring == INSTANCE NodeRing WITH
  NULL <- 0
\* As many frames as ring entries, in copy mode.
Copies == INSTANCE XdpCapture WITH
  NUM_FRAMES <- 4, FRAME_SIZE <- 2, Headroom <- 1, FqSize <- 2, RxSize <- 2, RX_BATCH_SIZE <- 1,
  MaxHeld <- 0, NTimeouts <- 2, LinkFails <- TRUE, pc <- capture_pc
\* The files of the export thread.
File == INSTANCE FlowFile WITH
  stop_et <- file_stop_et, pc <- file_pc, main <- file_main, shown <- file_shown
\* parsePacket, and the XDP program that chose the frame.
Parser == INSTANCE PacketParser
Life == INSTANCE MonitorLife WITH
  main <- life_main, stop_et <- life_stop_et
Log == INSTANCE ErrorLog WITH
  shown <- log_shown

Parts == {"ring", "copies", "file", "parser", "life", "log"}

Init ==
  /\ part \in Parts
  /\ IF part = "ring" THEN Ring!Init ELSE
       next = Nil /\ prev = Nil /\ head = Nil
  /\ IF part = "copies" THEN Copies!Init ELSE
       umem_frame_addr = Nil /\ umem_frame_free = Nil /\ fq = Nil /\ fqFree = Nil /\
       held = Nil /\ rx = Nil /\ rxSeen = Nil /\ rcvd = Nil /\ done = Nil /\ idle = Nil /\
       stop_capture = Nil /\ stop_pt = Nil /\ capture_pc = Nil
  /\ IF part = "file" THEN File!Init ELSE
       second = Nil /\ file_stop_et = Nil /\ file = Nil /\ prev_second = Nil /\
       current_second = Nil /\ file_pc = Nil /\ file_main = Nil /\ file_shown = Nil /\
       printed = Nil
  /\ IF part = "parser" THEN Parser!Init ELSE
       frame = Nil /\ num_tags = Nil /\ bp = Nil /\ aux16 = Nil /\ vlanTag = Nil /\
       ipHLen = Nil /\ ipLen = Nil /\ addrs = Nil /\ ports = Nil /\ outcome = Nil /\
       proto = Nil /\ stale = Nil
  /\ IF part = "life" THEN Life!Init ELSE
       life_main = Nil /\ pt = Nil /\ et = Nil /\ life_stop_et = Nil /\ sock = Nil /\
       pools = Nil /\ session = Nil /\ table = Nil /\ expired = Nil /\ buffered = Nil /\
       disk = Nil /\ signals = Nil
  /\ IF part = "log" THEN Log!Init ELSE
       message_count = Nil /\ happened = Nil /\ log_shown = Nil

Step ==
  /\ UNCHANGED part
  /\ IF part = "ring" THEN Ring!Next ELSE UNCHANGED ringVars
  /\ IF part = "copies" THEN Copies!Next ELSE UNCHANGED captureVars
  /\ IF part = "file" THEN File!Next ELSE UNCHANGED fileVars
  /\ IF part = "parser" THEN Parser!Next ELSE UNCHANGED parserVars
  /\ IF part = "life" THEN Life!Next ELSE UNCHANGED lifeVars
  /\ IF part = "log" THEN Log!Next ELSE UNCHANGED logVars

\* Where a call is over, or what a bound allows has happened, nothing more has to.
MayStop == part \in {"file", "parser", "log"} /\ UNCHANGED vars

Next == Step \/ MayStop

\* The export thread runs until it is told to stop, and so does the capturing one, whose
\* poll returns at the latest after its timeout.  Nobody promises traffic, or its end.
Fairness ==
  /\ WF_fileVars(part = "file" /\ File!Export)
  /\ WF_captureVars(part = "copies" /\ Copies!Thread)

Spec == Init /\ [][Next]_vars /\ Fairness
-----------------------------------------------------------------------------
ASSUME MonitorAssumption ==
  /\ Ring!NullAssumption /\ File!PeriodAssumption /\ File!WidthAssumption /\ File!ClockAssumption
  /\ Parser!FramesAssumption /\ Life!LifeAssumption /\ Log!LogAssumption

\* The pointers of list.c implement lists, each operation the one of the same name, and none
\* disturbs a list it is not called on.  Walking backwards, as cleanup_flows does, meets the
\* nodes of the forward walk in reverse order; a node that is loose is in no ring and no
\* pointer leads to it, every other one is in exactly one ring.
ImplementsLists ==
  /\ part = "ring" => Ring!Seqs!Init
  /\ [][part = "ring" => Ring!OperationKept]_vars
  /\ [](part = "ring" => Ring!BothWaysAgree /\ Ring!LooseIsFree)

\* The two threads go on until they are stopped.  In copy mode there are enough frames and
\* the fill ring gets no invalid address; a dry ring with packets waiting is filled up again,
\* and stop_rx_and_process ends the loop whatever the traffic (lxdpFlow.c).  While the clock of
\* the packets stays in a second the export thread ends up in the file of that second, or in a
\* later one (export.c).
ThreadsGoOn ==
  /\ [](part = "copies" => Copies!TypeOK /\ Copies!OnlyFramesInFq)
  /\ part = "copies" /\ fq = <<>> /\ rx # <<>> ~> fq # <<>> \/ capture_pc \in {"returned", "closed"}
  /\ part = "copies" /\ ~ stop_capture /\ capture_pc \notin {"create", "start"}
       ~> capture_pc \in {"returned", "closed"}
  /\ \A s \in Clock : []<>~ (part = "file" /\ File!Behind(s))

\* The flow files follow the clock of the packets, whichever of its two unlocked readings
\* exportThread acts on: it never goes back to a file it has closed, a rotation opens another
\* file except the first after a packet, a file is one of a period that the clock has shown,
\* and no record is written more than one iteration late.  The exceptions are those of a
\* first packet between the two readings, and of a clock that main has reset
\* (export.c 191-245).
FilesFollowClock ==
  /\ [][part = "file" => File!GoesForward /\ File!OpensAnother]_vars
  /\ [](part = "file" => File!TypeOK /\ File!AtMostOneLate /\ File!NamedByClock)

\* The two parsers agree: a frame that the XDP program gives to the monitor's socket is a
\* UDP packet for parsePacket too, a flow's or a malformed one, and nothing behind its end
\* is read (af_xdp_kern.c, dp.c).
RedirectedIsCounted ==
  outcome # "parsing" /\ Parser!monitor_prog(frame, 0, {0}) = "redirect" =>
    outcome \in {"flow", "malformed"} /\ (outcome = "flow" => proto = "udp") /\ ~ stale

\* parsePacket takes a frame whose headers are all there for what a reference makes of its
\* fields, under the key that is the frame's own, however many tags it skipped; what an
\* earlier packet left in the buffer is used only for frames that are cut; and it agrees with
\* the XDP program in front of it.
ParsedRight ==
  part = "parser" =>
    Parser!TypeOK /\ Parser!SeenForWhatItIs /\ Parser!KeyIsTheFrames /\ Parser!StaleOnlyIfCut
      /\ RedirectedIsCounted

\* A monitor that returns from main has written every flow it captured to the disk, however
\* often and whenever Ctrl+C was pressed, and while a thread runs it has what it uses: the
\* socket, the pools and the log are given back after the joins (dp.c 204-231, 687,
\* export.c 249-291).
ShutdownKeepsFlows == part = "life" => Life!ResourcesHeld /\ Life!AllOnDisk

\* A fault that repeats itself is heard of and does not fill the log: of the errors of a type
\* logErrorCount shows the first, is never silent for MESSAGE_COUNT_LIMIT of them, and shows
\* none within half of that, whatever errors of other types come between.  The distance that
\* log.h 4 promises is not kept (ErrorLog!LimitBetween) and not part of this (log.c 145-173).
Throttled == part = "log" => Log!Throttled
=============================================================================
