------------------------------ MODULE MCKernel ------------------------------
(***************************************************************************)
(* The ways to the kernel: the user program of scenarios 1 and 2 with its  *)
(* options, the XDP hook of an interface, AF_XDP sockets, the netlink      *)
(* client and its attributes, perf buffers, links to probes, and the count *)
(* of processors.                                                          *)
(*                                                                         *)
(* The parts share no variables, so that a behaviour of one of them at a   *)
(* time shows all that a product of them would: part says which.           *)
(***************************************************************************)
EXTENDS Integers, Sequences, SequencesExt

CONSTANTS
  Nil,                        \* of a variable whose part does not run
  Frames, Queues, Queue, NUM_FRAMES, FqSize, RxSize, RX_BATCH_SIZE, NPackets, PORT,  \* XdpScenario
  Names, Long, Known, MaxArgs,    \* Options
  Procs, Configs, Native,     \* XdpLink
  Socks, Inhibit, MaxNoFd,    \* XskSocket
  Links, Ids, Batch, NChanges, NCalls, NStrays,   \* Netlink
  Events                      \* ProbeLink

\* Datagrams for the port, for another one and for port 0, from the port and from another;
\* TCP; ICMP; a tagged datagram; one whose header is cut.
Frame(protocol, sport, dport, doff, udplen, caplen, tags, etype) ==
  [tags |-> tags, etype |-> etype, ihl |-> 5, tot_len |-> 40, protocol |-> protocol,
   fragment |-> FALSE, doff |-> doff, udplen |-> udplen, pktgen |-> FALSE, caplen |-> caplen,
   smac |-> "m1", dmac |-> "m2", saddr |-> "a1", daddr |-> "a2", sport |-> sport, dport |-> dport]
SomeFrames ==
  {Frame("udp", s, d, 0, u, 60, <<>>, "ip") : s \in {1, PORT}, d \in {0, 1, PORT}, u \in {7, 8}}
    \cup {Frame("tcp", 1, d, w, 0, 60, <<>>, "ip") : d \in {1, PORT}, w \in {1, 5, 15}}
    \cup {Frame("udp", 1, PORT, 0, 8, 41, <<>>, "ip"), Frame("icmp", 1, PORT, 0, 0, 60, <<>>, "ip"),
          Frame("udp", 1, PORT, 0, 8, 64, <<5>>, "ip"), Frame("udp", 1, PORT, 0, 8, 60, <<>>, "other")}

\* One interface that exists, a name that is none and one that is too long for any field.
OptionNames == {"eth0", "nodev", "longname"}
Interfaces == [n \in {"eth0"} |-> 2]

\* Any command line of the scenarios, and the monitor.
CommandLines ==
  [kind : {"scenario", "unload"}, mode : {"auto", "skb", "drv"}]
    \cup [kind : {"monitor"}, mode : {"auto"}]

\* Streams of up to three attributes: empty, of one byte, of a word, of odd size, too short
\* for their own header; messages that end inside, at, and behind them.
Attrs == [nla_type : {0, 1}, nla_len : {2, 5, 8}, nul : {TRUE}] \cup [nla_type : {2}, nla_len : {4}, nul : {TRUE}]
           \cup [nla_type : {1}, nla_len : {5, 8}, nul : {FALSE}]
AttrStreams == BoundedSeq(Attrs, 3)
AttrPolicies ==
  {<<>>, [t \in 0 .. 1 |-> IF t = 1 THEN [type |-> "string", minlen |-> 0, maxlen |-> 2]
                           ELSE [type |-> "u32", minlen |-> 0, maxlen |-> 0]]}

\* Lists of up to three parts, in and out of order, with ranges that go backwards and a
\* part that is no number.
CpuParts ==
  {[n |-> 1, first |-> c, last |-> c] : c \in {0, 2, 5}} \cup
  {[n |-> 2, first |-> r[1], last |-> r[2]] : r \in {<<0, 1>>, <<3, 4>>, <<4, 3>>}} \cup
  {[n |-> 0, first |-> 0, last |-> 0]}
CpuTexts == UNION {[1 .. n -> CpuParts] : n \in 1 .. 3}

VARIABLES
  part,   \* the module whose behaviour this is; the variables of the others are Nil
  \* XdpScenario
  scenario_pc, global_exit, prog, xsks, port, free, fq, rx, rcvd, done, stats, previous, shown,
  tpc, todo,
  option_pc, option_cfg, given,   \* Options
  hook, link_cfg, link_pc, seen, joined,   \* XdpLink
  live, refcount, xsk_open, fdOf, rings, inMap, attached, excused, noFd,   \* XskSocket
  \* Netlink
  progs, tc, call, nl_pc, ret, sock, inbox, buf, multipart, info, got, asked, last, changes,
  nl_calls, strays, before,
  stream, len, policy, k, rem, tb, err,   \* NlAttr
  \* PerfBuffer
  step, i, epoll, fds, mmaps, elems, watched, bufs, head, tail, ring, lost, number, wake, ready,
  data_head, data_tail, copy_mem, copy_size, expected, cut,
  \* ProbeLink
  probe_pc, loaded, kind, retprobe, pfd, right, probe_open, caller, set, enabled, misread, links,
  text, cpus, cpu_pc, il, start, end, tmp_cpus, cpu_calls, answers   \* PossibleCpus

scenarioVars == <<scenario_pc, global_exit, prog, xsks, port, free, fq, rx, rcvd, done, stats,
                  previous, shown, tpc, todo>>
optionVars == <<option_pc, option_cfg, given>>
linkVars == <<hook, link_cfg, link_pc, seen, joined>>
xskVars == <<live, refcount, xsk_open, fdOf, rings, inMap, attached, excused, noFd>>
netlinkVars == <<progs, tc, call, nl_pc, ret, sock, inbox, buf, multipart, info, got, asked,
                 last, changes, nl_calls, strays, before>>
attrVars == <<stream, len, policy, k, rem, tb, err>>
perfVars == <<step, i, epoll, fds, mmaps, elems, watched, bufs, head, tail, ring, lost, number,
              wake, ready, data_head, data_tail, copy_mem, copy_size, expected, cut>>
probeVars == <<probe_pc, loaded, kind, retprobe, pfd, right, probe_open, caller, set, enabled,
               misread, links>>
cpuVars == <<text, cpus, cpu_pc, il, start, end, tmp_cpus, cpu_calls, answers>>
vars == <<part, scenarioVars, optionVars, linkVars, xskVars, netlinkVars, attrVars, perfVars,
          probeVars, cpuVars>>

\* Scenario 2 with --poll-mode and --quiet; scenario 1 with its statistics and busy loop.
Echo == INSTANCE XdpScenario WITH
  Program <- "echo", PollMode <- TRUE, Verbose <- FALSE, pc <- scenario_pc
Stats == INSTANCE XdpScenario WITH
  Program <- "sock", PollMode <- FALSE, Verbose <- TRUE, pc <- scenario_pc
\* Any options in any order.
Options == INSTANCE Options WITH pc <- option_pc, cfg <- option_cfg
\* Processes that share an interface.
Link == INSTANCE XdpLink WITH cfg <- link_cfg, pc <- link_pc
\* Sockets that share a UMEM.
Xsk == INSTANCE XskSocket WITH open <- xsk_open
\* The calls of a client, one after the other.
Netlinks == INSTANCE Netlink WITH pc <- nl_pc, calls <- nl_calls
\* libbpf_nla_parse.
Attr == INSTANCE NlAttr WITH
  Streams <- AttrStreams, Lengths <- {0, 3, 5, 8, 13, 16, 24}, MaxType <- 1,
  Policies <- AttrPolicies
\* One CPU whose ring wraps; two CPUs, with records of a type that ends the poll.
PerfRing == INSTANCE PerfBuffer WITH
  Given <- 0, Possible <- 1, MaxEntries <- 4, Ring <- 4, Width <- 8, Sizes <- 1 .. 3,
  Types <- {"SAMPLE"}, Raw <- TRUE, MaxLost <- 1, Numbers <- 6
PerfCpus == INSTANCE PerfBuffer WITH
  Given <- 2, Possible <- 2, MaxEntries <- 4, Ring <- 2, Width <- 4, Sizes <- {1},
  Types <- {"SAMPLE", "OTHER"}, Raw <- FALSE, MaxLost <- 1, Numbers <- 4
\* Hooks of probes.
Probe == INSTANCE ProbeLink WITH pc <- probe_pc, open <- probe_open
\* Two threads that call twice, with integers of 4 bits.
CpuCount == INSTANCE PossibleCpus WITH
  Threads <- {"t1", "t2"}, Texts <- CpuTexts, Word <- 16, MaxCalls <- 2, pc <- cpu_pc,
  calls <- cpu_calls

Parts == {"echo", "stats", "options", "link", "xsk", "netlink", "attr", "perf_ring", "perf_cpus",
          "probe", "cpus"}

Init ==
  /\ part \in Parts
  /\ IF part = "echo" THEN Echo!Init ELSE IF part = "stats" THEN Stats!Init ELSE
       scenario_pc = Nil /\ global_exit = Nil /\ prog = Nil /\ xsks = Nil /\ port = Nil /\
       free = Nil /\ fq = Nil /\ rx = Nil /\ rcvd = Nil /\ done = Nil /\ stats = Nil /\
       previous = Nil /\ shown = Nil /\ tpc = Nil /\ todo = Nil
  /\ IF part = "options" THEN Options!Init ELSE
       option_pc = Nil /\ option_cfg = Nil /\ given = Nil
  /\ IF part = "link" THEN Link!Init ELSE
       hook = Nil /\ link_cfg = Nil /\ link_pc = Nil /\ seen = Nil /\ joined = Nil
  /\ IF part = "xsk" THEN Xsk!Init ELSE
       live = Nil /\ refcount = Nil /\ xsk_open = Nil /\ fdOf = Nil /\ rings = Nil /\
       inMap = Nil /\ attached = Nil /\ excused = Nil /\ noFd = Nil
  /\ IF part = "netlink" THEN Netlinks!Init ELSE
       progs = Nil /\ tc = Nil /\ call = Nil /\ nl_pc = Nil /\ ret = Nil /\ sock = Nil /\
       inbox = Nil /\ buf = Nil /\ multipart = Nil /\ info = Nil /\ got = Nil /\ asked = Nil /\
       last = Nil /\ changes = Nil /\ nl_calls = Nil /\ strays = Nil /\ before = Nil
  /\ IF part = "attr" THEN Attr!Init ELSE
       stream = Nil /\ len = Nil /\ policy = Nil /\ k = Nil /\ rem = Nil /\ tb = Nil /\ err = Nil
  /\ IF part = "perf_ring" THEN PerfRing!Init ELSE IF part = "perf_cpus" THEN PerfCpus!Init ELSE
       step = Nil /\ i = Nil /\ epoll = Nil /\ fds = Nil /\ mmaps = Nil /\ elems = Nil /\
       watched = Nil /\ bufs = Nil /\ head = Nil /\ tail = Nil /\ ring = Nil /\ lost = Nil /\
       number = Nil /\ wake = Nil /\ ready = Nil /\ data_head = Nil /\ data_tail = Nil /\
       copy_mem = Nil /\ copy_size = Nil /\ expected = Nil /\ cut = Nil
  /\ IF part = "probe" THEN Probe!Init ELSE
       probe_pc = Nil /\ loaded = Nil /\ kind = Nil /\ retprobe = Nil /\ pfd = Nil /\
       right = Nil /\ probe_open = Nil /\ caller = Nil /\ set = Nil /\ enabled = Nil /\
       misread = Nil /\ links = Nil
  /\ IF part = "cpus" THEN CpuCount!Init ELSE
       text = Nil /\ cpus = Nil /\ cpu_pc = Nil /\ il = Nil /\ start = Nil /\ end = Nil /\
       tmp_cpus = Nil /\ cpu_calls = Nil /\ answers = Nil

Step ==
  /\ UNCHANGED part
  /\ IF part = "echo" THEN Echo!Next ELSE IF part = "stats" THEN Stats!Next ELSE UNCHANGED scenarioVars
  /\ IF part = "options" THEN Options!Next ELSE UNCHANGED optionVars
  /\ IF part = "link" THEN Link!Next ELSE UNCHANGED linkVars
  /\ IF part = "xsk" THEN Xsk!Next ELSE UNCHANGED xskVars
  /\ IF part = "netlink" THEN Netlinks!Next ELSE UNCHANGED netlinkVars
  /\ IF part = "attr" THEN Attr!Next ELSE UNCHANGED attrVars
  /\ IF part = "perf_ring" THEN PerfRing!Next ELSE IF part = "perf_cpus" THEN PerfCpus!Next ELSE UNCHANGED perfVars
  /\ IF part = "probe" THEN Probe!Next ELSE UNCHANGED probeVars
  /\ IF part = "cpus" THEN CpuCount!Next ELSE UNCHANGED cpuVars

\* Where a call is over, or what a bound allows has happened, nothing more has to.
MayStop == part \in {"echo", "stats", "link", "xsk", "netlink", "attr"} /\ UNCHANGED vars

Next == Step \/ MayStop

\* main of the scenarios, the client and the kernel that answers it, and the application
\* that polls its perf buffer again and again, go on; no system call has to fail, nobody has
\* to type Ctrl+C, and no packet or record has to come.
Fairness ==
  /\ WF_scenarioVars(part = "stats" /\ Stats!Main)
  /\ WF_netlinkVars(part = "netlink" /\ Netlinks!Client)
  /\ WF_netlinkVars(part = "netlink" /\ Netlinks!KernelDumps)
  /\ WF_netlinkVars(part = "netlink" /\ Netlinks!KernelSets)
  /\ WF_perfVars(part = "perf_ring" /\ PerfRing!Going)
  /\ WF_perfVars(part = "perf_cpus" /\ PerfCpus!Going)

Spec == Init /\ [][Next]_vars /\ Fairness
-----------------------------------------------------------------------------
ASSUME KernelAssumption ==
  /\ Echo!FramesAssumption /\ Echo!ScenarioAssumption /\ Stats!ScenarioAssumption
  /\ Options!OptionsAssumption /\ Link!ConfigAssumption /\ Xsk!SocksAssumption
  /\ Netlinks!NetlinkAssumption /\ Attr!StreamAssumption /\ PerfRing!PerfBufferAssumption
  /\ PerfCpus!PerfBufferAssumption /\ Probe!LinkAssumption /\ CpuCount!CpusAssumption

\* The program of the scenarios does as its options say and serves its port.  The last option
\* decides on mode and interface, and generic mode copies (common_params.c).  From set-up to
\* deletion no frame of its queue is aborted, and in every state of main, failures and
\* clean-up included, the echo leaves what is not for the port to the kernel; what it echoes
\* is a reply.  No frame of the UMEM is lost, and no packet is in two of the printed rates
\* though the thread reads counters that main changes (af_xdp_user.c, af_xdp_kern.c,
\* xdp_echo.c).
ScenarioServes ==
  /\ part = "options" =>
       Options!TypeOK /\ Options!ModeIsLast /\ Options!DeviceIsLast /\ Options!GenericCopies
  /\ part = "echo" =>
       /\ Echo!TypeOK /\ Echo!NotAborted /\ Echo!FramesKept
       /\ Echo!OthersPass /\ Echo!EchoIsReply
  /\ part = "stats" => Stats!TypeOK /\ Stats!NotAborted /\ Stats!FramesKept /\ Stats!ShownOnce

\* What is taken is given back once, whichever system call fails: a UMEM and the sockets that
\* share it come and go in any order, each usable while it is open and nothing lost but what
\* XskSocket names (xsk.c); the hook of a probe has one owner, the link or the caller, and a
\* link is one that fires (libbpf.c 5376-5678); a netlink call leaves no socket (netlink.c),
\* and a perf buffer no descriptor, mapping or map element (libbpf.c 5807-6052).
ResourcesGivenBack ==
  /\ part = "xsk" => Xsk!TypeOK /\ Xsk!SocketUsable /\ Xsk!NothingLost /\ Xsk!CountsSockets
  /\ part = "probe" => Probe!OneOwner /\ Probe!LinkFires
  /\ part = "netlink" => Netlinks!SocketClosed
  /\ part = "perf_ring" => PerfRing!NothingHeld
  /\ part = "perf_cpus" => PerfCpus!NothingHeld

\* Processes that share an interface, each of which asks in one netlink request and acts in
\* later ones, and of which every one replaces what it finds: the retry of an attach that met
\* a program of the opposite mode has taken that program away, and fails for another only if
\* a process put it there in between; the socket of one that runs is in the map of its own
\* program while that is attached; and one of the scenarios that has cleaned up, without an
\* expected id, leaves none of its programs, whoever replaced them meanwhile
\* (common_user_bpf_xdp.c 19-61, af_xdp_user.c 528-534, xsk.c 534-573).
HookKept ==
  part = "link" => Link!TypeOK /\ Link!RetryClears /\ Link!OwnServes /\ Link!CleanExit

\* What an application is told of the kernel is so.  An id from the netlink client is that of
\* a program which was on the link during the call, a dump that returns 0 has shown each object
\* that was there all the time, once, and bpf_set_link_xdp_fd returns 0 only if the program was
\* set (netlink.c 74-311).  An attribute is indexed only if it lies in the stream to its last
\* byte, also when lengths lie; it is the last of its type and obeys the policy (nlattr.c).
\* What the callback of a perf buffer is handed is whole and the next record of its CPU,
\* nothing twice, left out or overwritten while it is read, and fits the memory it was put
\* together in (libbpf.c 5719-5765).  The number of rings, which threads count and cache without
\* a lock, is the same for all and the one in the kernel's list (6377-6435).
AnswersRight ==
  /\ [](part = "netlink" => Netlinks!TypeOK /\ Netlinks!IdWasThere /\ Netlinks!DumpComplete)
  /\ [][part = "netlink" => Netlinks!SetHolds]_vars
  /\ [](part = "attr" => Attr!TypeOK /\ Attr!InBounds /\ Attr!LastWins /\ Attr!PolicyKept)
  /\ [](part = "perf_ring" => PerfRing!TypeOK /\ PerfRing!NextRecord /\ PerfRing!CopyFits)
  /\ [](part = "perf_cpus" => PerfCpus!TypeOK /\ PerfCpus!NextRecord)
  /\ [](part = "cpus" => CpuCount!CountRight /\ CpuCount!AllAgree)

\* Records that wait in a perf ring are read on, unless the buffer is freed or an error ended
\* the poll that had taken the event (libbpf.c 6100-6129).
ReadsOn ==
  \A c \in 1 .. 2 :
    /\ <>[](part = "perf_cpus" /\ PerfCpus!Waits(c)) => []<><<part = "perf_cpus" /\ tail'[c] # tail[c]>>_vars
    /\ <>[](part = "perf_ring" /\ c = 1 /\ PerfRing!Waits(c)) => []<><<part = "perf_ring" /\ tail'[1] # tail[1]>>_vars

\* Nothing waits for ever: every call of the netlink client returns, though the kernel and
\* others change what it dumps (netlink.c 74-142); records in a perf ring are read on; and
\* Ctrl+C ends the busy loop of the scenarios with the program taken off (af_xdp_user.c
\* 390-397, 483-487).
LoopsGoOn ==
  /\ []<>~ (part = "netlink" /\ nl_pc # "idle")
  /\ ReadsOn
  /\ part = "stats" /\ global_exit ~> part = "stats" /\ ~ Stats!Alive
=============================================================================
