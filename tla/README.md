# A TLA+ model of the AF_XDP flow monitor

The repository captures packets with AF_XDP and eBPF. Its core is the flow
monitor under `flujos/`: a capture library over AF_XDP, a process thread that
groups packets into flows, and an export thread that writes expired flows to a
file. Beside it stand the programs of scenarios 1 and 2, which share the capture
path, and the copy of libbpf that all of them are built with. This directory
holds TLA+ modules that model these, TLC configurations that check them on small
instances, and proofs, checked by TLAPS, of what holds for every instance.

## The system

| component | state | operations | interaction |
|---|---|---|---|
| flow processing (`flujos/src/dp.c`, `IPflow.c`) | `flow_table` (hash table of lists), `active_flow_list`, `flags_expired_flow_list`, `aux_session`, `last_packet_timestamp`, `previous`, `previous2` | `process_packet`, `initData`, `perSecOps`, `parsePacket`, `insertFlow`, `cleanup_flows`, `reset_flow_table` | called back by the capture library on the process thread; hands retired flows to the export thread through `expired_flow_list` under `sem_expired_list`; on shutdown main runs `cleanup_flows` itself |
| memory pools (`pool.c`, `list.c`) | a free and a used list for sessions and for nodes | `getIPSession`, `releaseIPSession`, `getNodel`, `releaseNodel` | taken from by the process thread, given back by the export thread and by cleanup, each pool under its own mutex |
| linked lists (`list.c`) | `next`, `prev` in every node, a head pointer for each list | `list_prepend_node`, `list_append_node`, `list_unlink`, `list_pop_first_node`, `list_search` | used by everything above; `cleanup_flows` splices two rings by hand |
| flow export (`export.c`) | the open file, the node in hand, `prev_second` | pop, write, release; drain at the end; a new file each period | export thread; reads the process thread's clock without a lock |
| shutdown (`dp.c`, `comm.c`, `log.c`) | `stop_pt`, `stop_et`, what is open | `sigwait`, `capturaSenial`, `destroyXDPSocket` | main joins the process thread, cleans up, stops and joins the export thread, frees the memory |
| AF_XDP capture (`flujos/libs/xdp/lxdpFlow.c`) | the stack `umem_frame_addr`, fill and receive rings with cached indices, `stop_capture` | `xsk_configure_socket`, `rx_and_process`, `handle_receive_packets`, `stop_rx_and_process`, `close_xdp_sock` | shares the two rings with the kernel |
| XDP programs (`af_xdp_kern.c` twice, `xdp_echo.c`, the one in `xsk.c`) | maps with the sockets, the port and the counters | pass, drop, echo or redirect a frame | run by the kernel on every frame, whatever main has done so far |
| scenarios 1 and 2 (`Escenarios 1 y 2/af_xdp_user.c`, `common/`) | as the capture library, plus counters | options, set-up, receive, answer, clean up | a thread prints rates from counters main changes; other programs share the interface |
| libbpf: sockets (`xsk.c`), netlink (`netlink.c`, `nlattr.c`) | descriptors, mappings, reference counts, a socket | create and delete, attach, query, dump | system calls that may fail, other processes |
| libbpf: objects (`libbpf.c`, `bpf.c`) | programs, maps, descriptors, pins | open, relocate, load, pin, attach, perf buffers, information | the verifier, the file system of pins, other processes |
| libbpf: type information (`btf.c`, `btf_dump.c`, `hashmap.c`) | types, strings, chains | read, resolve, deduplicate, rewrite, write as C | calls of one thread |

What is hard in it: three threads share lists and pools, and one of those lists
is written once without its semaphore; memory is managed by hand, with each flow
spread over three structures; time is the packet's, as unsigned 64-bit
microseconds, and may go back; insertion can fail half-way; shutdown depends on
traffic; the rings are shared with the kernel through cached indices; a hook and
the paths of pins are shared with other processes; a call of libbpf takes many
resources and may fail after each; the algorithms on types work in place on
graphs with cycles.

What makes each part correct:

- *flow processing and export*: each packet that enters a flow is written in
  exactly one record; a conversation is not split before it expires; an expired
  flow is found and written; nothing leaks; the files follow the packets' clock;
- *parsing*: a frame is what its headers say, for the XDP program and for the
  monitor alike;
- *pools*: a structure is handed out once, comes back once, and the error paths
  keep the account;
- *lists*: the pointers form the sequence the users believe in, both ways;
- *shutdown*: nothing is used after it is freed, the program ends, and what it
  captured is on the disk;
- *capture*: a frame is in one place, invalid addresses do not enter the fill
  ring, reception never dries up, the loop can be stopped;
- *hook, pins and descriptors*: what a program puts there it takes away, and it
  does not disturb what another put there;
- *loading*: the kernel gets what the compiler meant, and the caller is told what
  happened;
- *type information*: merging, relocating and writing types preserves what they say.

## The modules

The monitor:

| module | models |
|---|---|
| `NodeList` | the operations of `list.c` as operators on sequences |
| `NodeLists` | abstract specification: named lists, each node in at most one |
| `NodeRing` | the rings of `list.c` pointer by pointer; implements `NodeLists`; theorems |
| `FlowMonitor` | process thread, export thread and main over the pools and lists |
| `FlowLedger` | abstract specification of the monitor: a flow is opened, counts packets, is retired, is reported once, and the program ends with nothing unreported; its balance is proved here |
| `FlowMonitorProofs`, `FlowOwnershipProofs` | theorems about `FlowMonitor`: types, budget, shutdown order; ownership, order, refinement of `FlowLedger` |
| `FlowFile` | the export thread's change of file, and the clock it reads without a lock |
| `PacketParser` | `parsePacket` and `processL4Flow` turn by turn, with what an earlier packet left behind the end of the frame |
| `MonitorLife` | the process from `main` to its end, with Ctrl+C at any moment and more than once |
| `ErrorLog` | the throttle of `logErrorCount` |
| `XdpCapture`, `XdpCaptureProofs` | the receive path of the capture library and the kernel's side of its rings; theorems |
| `MonitorProofs` | theorems about `PacketParser`, `MonitorLife`, `ErrorLog`, `NodeRing` and `FlowFile`, as `MCMonitor` instantiates them |

The kernel's side, and those who share it:

| module | models |
|---|---|
| `XdpPrograms` | a frame as fields and a length; the four XDP programs as functions of frame and maps |
| `XdpScenario` | `main` of the scenarios, its statistics thread, frames judged by whatever program and maps there are |
| `Options` | `parse_cmdline_args` and what `main` makes of the configuration |
| `XdpLink` | the hook of an interface, and scenario, monitor and `--unload` processes on it, one netlink request a step |
| `XskSocket` | `xsk_umem__create`, `xsk_socket__create` and their deletion, each system call failing |
| `Netlink`, `NlAttr` | requests and dumps in several datagrams against changes by others; the index of attributes |
| `PerfBuffer` | a ring per CPU written by the kernel, poll over all of them, set-up and release; a theorem |
| `ProbeLink` | `bpf_program__attach_*` and `bpf_link__destroy` |
| `PossibleCpus` | the number of processors, read and cached by several threads |
| `KernelProofs` | theorems about `XdpScenario`, `Options`, `XskSocket`, `ProbeLink`, `Netlink`, `PerfBuffer` and `XdpLink`, as `MCKernel` instantiates them |

Loading:

| module | models |
|---|---|
| `BpfObject` | open, load and close of an object by the three loaders of this repository, in processes that share pins; descriptors are numbers and are reused |
| `BpfPin` | pinning maps, programs and objects, undone when a step fails |
| `ProgLoad` | the repeated calls of `load_program` with logs and shortened records |
| `MapDefs` | the maps of an object file, from words or from BTF |
| `Relocation` | sections into programs, descriptors and calls into instructions, `.text` appended, records moved |
| `BtfLoad` | the capabilities of a kernel, the BTF rewritten for it, the maps that refer to it |
| `CoreReloc` | field accesses found again in the running kernel's types |
| `ProgInfo`, `LineInfo` | the kernel's arrays in one block; tables of lines |

Type information:

| module | models |
|---|---|
| `BtfParse` | `btf__new`, `btf__parse_elf`, `btf__get_from_id`, `btf_ext__new` |
| `BtfTypes` | walks over types that may refer to each other in a circle |
| `BtfDedup` | the six passes of `btf__dedup` |
| `BtfDump`, `BtfDecl`, `BtfLayout` | the order of declarations, the text of one, the layout of a structure |
| `MultiMap`, `HashMap` | what `hashmap.h` promises (abstract), and the table that implements it |

`MCFlowMonitor` gives `FlowMonitor` its instances. `MCMonitor`, `MCKernel`,
`MCLoader` and `MCBtf` check the other modules, several at a time: see "Suites".

### FlowMonitor

*State.* The C variables keep their names. Memory is flat: addresses
`1 .. NSessions` are `IPSession` structures, the following `NNodes` are `node_l`
structures, 0 is `NULL`, and `sess` and `data` give what is stored at an address.
Nothing in the model prevents an address of one kind from being used as the
other; that it does not happen is checked. A list is the sequence of its nodes.
Of the pools, the free list is kept as the sequence of what it hands out and the
used list as a length. `due` is the only history variable: for each key, the
packets counted in a flow and not yet written.

*Steps.* A step is what a thread does between two accesses to state another
thread sees. The sections under `sem_pool_session` and `sem_pool_node` are part
of one step, as nothing else is locked inside them. `sem_expired_list` is a
variable: the drain loop of the export thread holds it across pool sections.

*Process thread.* `FirstPacket`, `NewSecond`, `SameSecond` and `Rollback` are the
four ways through the time tests of `process_packet`; `ExpireOldest`,
`StopExpiring` and `SpliceProcess` are `cleanup_flows` inside `perSecOps`;
`NoSession`, `ParseOther`, `ParseNew`, `ParseUpdate` are the outcomes of
`parsePacket`, `processL4Flow` and the search of `insertFlow`; the `Insert...`
actions are `insertFlowTable` with its two failures; `PollTimeout` is the idle
poll of `rx_and_process`. *Export thread.* One action for each access of
`exportThread`. *Main.* `Sigint`, `MainJoin`, the same cleanup, `MainStop`,
`MainFree`.

*Abstractions.* A packet is a key, `Other` (a frame that is not a flow packet or
is malformed) or `Short` (a frame below `ETH_HLEN`). Byte counters, MAC addresses
and the text of a record are left out. Timestamps are numbers modulo `Word`, as
the code compares unsigned differences. The change of file of the export
thread is in `FlowFile`.

### NodeRing

`next`, `prev` and `head` are the pointers. Since a list is used by one thread at
a time (or under its mutex), an operation is one step. `Walk` and `WalkBack`
follow `list_get_next_node` and `list_get_prev_node`.

### XdpCapture

A ring is the sequence of its entries between consumer and producer; the process
thread's cached indices are `fqFree` and `rxSeen`. The actions of the thread
follow `rx_and_process` and `handle_receive_packets`: `WhileTest`, `PollNothing`,
`PollReady`, `Peek`, `Stock`, `Process` (one packet), `Release`. The kernel is
external: it moves an entry of the fill ring to the receive ring in one step, or
(zero-copy mode, `MaxHeld > 0`) the driver holds up to `MaxHeld` frames in
between; it skips invalid addresses and returns a packet at another address of the
same frame. `stop_rx_and_process` and `capturaSenial` may come at
any time.

### The other modules

Each module begins with a comment on its state and its abstractions; in all of
them a definition that stands for a C function has the function's name. What they
share:

- *Steps.* A module whose state another thread, process or the kernel sees takes
  one step per access (`FlowFile`, `MonitorLife`, `XdpScenario`, `PossibleCpus`), per
  system call or request (`XdpLink`, `Netlink`, `BpfObject`, `BpfPin`, `ProgLoad`,
  `PerfBuffer`, `ProbeLink`), or per turn of a loop. Where only one thread works and
  nobody looks, a call is a step (`HashMap`, `Options`, `XskSocket`), or one of its
  passes is (`BtfDedup`, `Relocation`, `MapDefs`).
- *Failure.* Every system call and, where a constant `NoMemory` says so, every
  allocation may fail; the step then goes to the label the code jumps to. Memory
  that the code reads before it has written it holds anything.
- *Resources* are members of a set or counted, with their owners, so that one that
  is lost or given back twice is seen. Descriptors of `BpfObject` are the lowest
  free number, so that a stale one names something else.
- *Data* is what the properties tell apart: a frame is its fields and its length, a
  type its kind, names, references and sizes, an instruction what it refers to, a
  text its tokens. Strings, tables and ELF files are small sets of records given by
  the suites, in the shapes that the compiler or the kernel produces, and some that
  are broken where the code tests for it.
- *Reference definitions* beside the properties say what an answer should
  be without following the code's path: what a frame's fields mean, which field of
  the kernel's type is meant, how C reads a declaration and lays a structure out,
  when two descriptions are of one type. The code's walk is compared with them.

## The runs

| run | question | properties |
|---|---|---|
| `flow_monitor` | does the monitor do its work with an orderly clock? | `TypeOK`, `NothingLeaks`, `NodePoolSuffices`, `JoinedFirst`, `CleanupComplete`, `SplitOnlyByExpiry`, `NoPacketLost`, `LedgerSpec` |
| `flow_monitor_rollback` | what survives a clock that shows anything and a node pool that runs out? | `PoolsSound`, `FlowsSound`, `PoolBudget`, `InitDataFindsNothingExpired` |
| `flow_monitor_live` | does it end, and does it write while it runs? | `ShutdownCompletes`, `RetiredIsReported` |
| `xdp_capture` | are frames neither lost nor duplicated, and does reception never dry up, with fewer frames than places? | `FrameOwnedOnce`, `BlanksBounded`, `NeverStarves`, `FreeAssertion` |
| `monitor_parts` | lists, capture in copy mode, flow files, parser, process, log | `ImplementsLists`, `ThreadsGoOn`, `FilesFollowClock`, `ParsedRight`, `ShutdownKeepsFlows`, `Throttled` |
| `kernel_parts` | scenarios, hook, sockets, netlink, perf buffers, links | `ScenarioServes`, `HookKept`, `AnswersRight`, `LoopsGoOn`, `ResourcesGivenBack` |
| `loader_parts` | from an object file to a loaded program | `FailureUndone`, `LoadTold`, `MapsAsDefined`, `CodeRelocated`, `BtfAccepted`, `InfoFound` |
| `btf_parts` | type information read, resolved, merged, written; the hash map | `BtfRead`, `TypesAnswered`, `Merged`, `DumpIsFaithful`, `IsMultiMap` |
| `flow_monitor_reinit` | does `initData` run for the first packet only? (violated) | `InitDataOnlyFirst` |
| `xdp_capture_sigint` | does Ctrl+C stop the process thread? (violated) | `StopPtHonoured` |
| `xdp_link_monitor` | does the monitor leave the interface as it found it? (violated) | `MonitorCleansUp` |

The passing runs hold. What the three others show:

- `xdp_capture_sigint`: nothing reads `stop_pt`. `capturaSenial` joins a thread
  that leaves its loop only after five idle polls in a row, so that a monitor
  under steady traffic cannot be ended with Ctrl+C. `stop_rx_and_process`, which
  would do it (`ThreadsGoOn`), is not called by the monitor.
- `flow_monitor_reinit`: `previous == 0` stands for "no packet yet", but a clock
  that goes back by a second before a second has passed brings `previous` back to
  `previous2`, which is 0 until the first `perSecOps`. The next packet empties the table: the flows in it are
  neither written nor released. This is why `NothingLeaks` and `NoPacketLost` are
  checked with a clock that does not go back.
- `xdp_link_monitor`: `destroyXDPSocket` names interface -1, and the program stays.

Every passing property has a mutant, an operator `Bug...` placed before the
definition it replaces: a slip the code could contain (a missing `releaseNodel`, a
head that is not moved, `>=` for `>`, a missing join, a cached index that is never
refreshed). TLC finds the property violated when the mutant takes the place of
the definition.

### Suites

`MCMonitor`, `MCKernel`, `MCLoader` and `MCBtf` instantiate a module once or more,
each instance a *part*. The variable `part` is chosen at the start and never
changes; the variables of the other parts are `Nil`. Parts share no state, so the
behaviours of one at a time show all that a product would, and the states add up
instead of multiplying. Where two modules do interact they are joined inside a
part: `PacketParser` with the verdicts of `XdpPrograms` (`RedirectedIsCounted`),
`XdpScenario` with the programs that judge its frames, `XdpLink` with its processes.

A property of a suite is one promise, a conjunction of named properties of the
modules. Temporal ones are restated with `part` where they are quantified over
steps of a part. Properties of one module that say what must not be true at the
same moment are one invariant (`PoolsSound`: every node and every session has one
owner and the used lists are not empty; `FlowsSound`: the three structures of a flow
point at each other and its times are in order).

### Bounds

- `flow_monitor`: two keys in the same bucket, three sessions and six nodes (the
  proportions of the program; one of each always stays in its pool), a second of
  two ticks, expiration after one second, a clock of three and a half seconds,
  four packets. That is enough for two flows at once, an update, an expiration
  between two cleanups, the reuse of memory and an exhausted session pool.
- `flow_monitor_rollback`: three nodes for three sessions, so that each `getNodel`
  of `insertFlowTable` can fail; keys in different buckets; every stamp of three
  seconds may follow every other.
- `flow_monitor_live`, `_reinit`: one key and three packets.
- `xdp_capture`, `_sigint`: rings of two entries and frames of two bytes, so that an
  address can differ from its frame's; batches of one (the cached view of the receive
  ring is used up later) or of a whole ring. Two idle polls end the loop. The driver
  holds at most one frame, and in `xdp_capture` there is no frame for it, so that
  invalid addresses enter the fill ring and the kernel skips them.
- `monitor_parts`: five nodes in two lists, so rings with heads, last nodes and inner
  nodes, and splices of every two lengths; rings of two entries with as many frames
  as places; three periods of two seconds, in a zone two periods east of Greenwich (as
  Spain is, whose offset of one or two hours is two or four periods of 1800 s), with 64
  bits scaled to 128 values and `int` to 32; frames with up to two tags and every length around the ones the code
  tests; three flows and three Ctrl+C; two turns of the count of messages.
- `kernel_parts`: three packets in rings of two; any three options in any order; two
  processes on one interface, of every kind and mode; three sockets on a UMEM, every
  call failing and descriptors running out; a dump of two links in two datagrams with
  a change between them and a stray message; streams of three attributes whose
  lengths lie; a perf ring of four units whose positions wrap at eight, and two CPUs;
  three hooks; two threads and lists of three parts, integers of four bits.
- `loader_parts`: two processes and two maps with one path each, with and without a
  file of somebody else's there; a program of one and one of two instances; logs that
  double twice; up to four definitions of maps, words missing or to spare; two
  programs and two functions; six kernels from one that knows nothing on; pairs of
  relocations in kernels whose structure has moved, lost, embedded or widened the
  field; three arrays and three lengths of the kernel's structure; three lines.
- `btf_parts`: up to 15 types, past the growth of the array; every table of three
  types, circles included, depth limit three, sizes in four bits; two and three
  units with two structures that refer to each other, an enumeration, forward
  declarations; graphs of two structures and three other types; chains of four;
  structures of four fields; a table that doubles twice with keys that collide.

The constants of the parts about which `MonitorProofs` and `KernelProofs` have theorems are
constants of the suites and get their values in the `.cfg`, so that these theorems speak of
the suite as it stands, with any values; the other parts, and the two instances of
`PerfBuffer`, which has a theorem of its own, are given numbers in the suite.

A constant of `ProgLoad`, `BtfTypes`, `BtfParse`, `CoreReloc`, `PerfBuffer` or `FlowFile`
that is a limit or a width in the code is scaled down with everything that is
compared with it.

Deadlock is checked in the passing runs; a finished program stutters explicitly. In
a suite `MayStop` lists the parts in which a call ends, or a bound is reached,
and nothing more has to happen; deadlock says nothing of these parts, and that their calls
end is a liveness property where it matters. In the other parts a state without a
successor is an error.

### Fairness

`FlowMonitor!Fairness` is weak fairness of each thread, which the scheduler gives,
and strong fairness of the cleanup's critical section: a thread that waits for a
mutex which is free again and again gets it. Arriving packets and Ctrl+C have no
fairness. `PollTimeout` is part of the process thread's fairness: in
`FlowMonitor`, traffic ends with `MaxPackets`, so `ShutdownCompletes` says that the
program ends *once traffic has stopped*; `xdp_capture_sigint` is the case where it
does not stop. In `XdpCapture` only the process thread is fair; `poll` returns at
the latest after its timeout.

In the suites a running thread or call is weakly fair: the export thread
(`File!Export`), the capturing one (`Copies!Thread`), main of the scenarios in its busy
loop (`Stats!Main`), the netlink client and the kernel that answers it, the
application that polls its perf buffers (`Going`), each process that loads, the
pinning and loading calls, the walks over types. Nothing that comes from outside is:
no system call has to fail or to succeed, no signal, packet, record or request of
another process has to come.

## The proofs

All theorems hold for every value of the constants that satisfies the named
assumptions of the modules: pools of at least one element, a hash from keys to
buckets, timestamps at least one second after the epoch and far enough from
2^64, rings of at least one entry, finitely many nodes, a limit of messages above 2,
packets stamped after the start and before 2038.
A module of which only instances are checked states its assumption as a definition.
The suite that instantiates it has these as its own assumption (`MonitorAssumption`,
`KernelAssumption`), which TLC evaluates, and the theorems of `MonitorProofs` and
`KernelProofs` rest on that.

| module | theorem | says |
|---|---|---|
| `FlowMonitorProofs` | `TypeCorrect` | `TypeOK`: memory and variables keep their types |
| | `JoinedBeforeUse` | `JoinedFirst`: main reaches the threads' memory only after the joins |
| | `InitDataIsSafe` | `InitDataFindsNothingExpired`: the unlocked write of `expired_flow_list` meets no retired flow |
| | `PoolBudgetHolds` | `PoolBudget`: the account of nodes and sessions |
| | `NodesSuffice` | `NodePoolSuffices`: two nodes for each session are always enough |
| `FlowOwnershipProofs` | `PoolsAreSound`, `FlowsAreSound` | `PoolsSound`, `FlowsSound`, with any clock |
| | `OrderlyLeaksNothing` | `NothingLeaks` |
| | `OrderlyCleanupIsComplete` | `CleanupComplete` |
| | `OrderlySplitsOnlyByExpiry` | `SplitOnlyByExpiry` |
| | `MonitorKeepsLedger` | `LedgerSpec`: the refinement of `FlowLedger` |
| | `OrderlyLosesNoPacket` | `NoPacketLost` |
| `FlowLedger` | `BooksBalance` | what is due is what the entries hold, and nothing at the end |
| `NodeRing` | `RingsImplementLists` | each operation on pointers is the one on sequences |
| | `WalksAgree`, `LooseNodesAreFree` | both walks agree; a node is in one list or free |
| `XdpCaptureProofs` | `FramesOwnedOnce`, `FillRingBlanks`, `AssertionHolds` | `FrameOwnedOnce`, `BlanksBounded`, `FreeAssertion`, with any number of frames |
| | `CaptureNeverStarves` | `NeverStarves`, when a batch cannot take all frames |
| | `FramesAccounted`, `CaptureTypeCorrect` | stack, rings and driver add up to the UMEM; types |
| | `FillRingIsClean` | `OnlyFramesInFq`, when there are `Enough` frames |
| `MonitorProofs` | `ParserTakesFramesForWhatTheyAre` | `ParsedRight`, for frames with any tags and lengths |
| | `MonitorShutsDownClean` | `ShutdownKeepsFlows`, with any number of flows and signals |
| | `LogIsThrottled` | `Throttled`, for every limit above 2 and any mixture of errors |
| | `PointersImplementLists` | `ImplementsLists` |
| | `FilesAreFollowed` | `FilesFollowClock`, for every period, time zone and width |
| `PerfBuffer` | `PerfBufferGivesBack` | a buffer that was freed, or not set up completely, holds nothing, for any number of CPUs |
| `KernelProofs` | `KernelResourcesGivenBack` | `ResourcesGivenBack`, for any number of sockets, hooks, links and calls |
| | `ProcessesKeepTheHook` | `HookKept`, for any number of processes |
| | `ScenarioKeepsItsPromises` | `ScenarioServes`, for any frames, queues and sizes, and any command line |

### FlowMonitor: types, budget, shutdown

The inductive invariant is `Inv == TypeOK /\ JoinedFirst /\ InitOrder /\ PoolBudget`.

`initData` writes `expired_flow_list` without its semaphore, but only while nothing
has been retired. `InitOrder` says why: flows are retired by a cleanup, a cleanup is
followed by `previous2` being set to a second that is not 0, and a rollback restores
`previous2`; so `previous` cannot be 0 again once a flow has been retired.

`PoolBudget` says that the nodes handed out are at most twice the sessions in flows,
less one for each retired flow, plus what the threads have in hand. It is an
inequality, as `initData` may forget flows. The proof names the terms of the account
and shows for each action that it moves them consistently. `NodesSuffice` follows
(`MAX_POOL_NODE` and `MAX_POOL_NODE/2`): a packet is refused by the session pool
alone, and the failures of `getNodel` cannot happen in the program.

### FlowMonitor: ownership

`PoolsSound` and `FlowsSound` are not inductive. Whether a release puts a node into a
pool that already has it depends on where the node was, and this on the pointers from
node to session and from session to node, which are right only if nothing
shares them. The invariant `Owned` joins the parts that need each other: no list has a
node twice (`NoRepeats`); free lists, table, active list, the two lists of expired
flows and what the threads have in hand are disjoint (`NodesApart`, `SessionsApart`);
bucket node, session and active node of a flow lead to each other (`FlowLinks`); its
times are in order (`FlowTimes`, `Stamped`); what `insertFlowTable` has between its two
`getNodel` is in no flow (`HalfFlow`); main's cleanup runs at the end of time, when
every flow has expired (`Drained`).
It is preserved with any clock: a rollback forgets structures but duplicates none.

There is one lemma per action that changes a place. It rests on lemmas about the
operations of `NodeList` (what `list_unlink` leaves and in which order, what prepending
and appending add), each a statement about sequences without repetition.

### FlowMonitor: with an orderly clock

A packet's time is `CLOCK_REALTIME`, which may be set back; a rollback may make
`initData` run again and forget every flow in the table (`flow_monitor_reinit`). That
nothing is lost is therefore true, and proved, under the hypothesis `Orderly`: a stamp
is never before the last one. `flow_monitor` is an instance: TLC evaluates
`ForwardIsOrderly`. Three more invariants are needed:

- `Tidy`: the list of flagged flows is empty whenever a cleanup begins, and main and
  the export thread finish in the order that leaves nothing behind;
- `Covered`: every node and every session has a place. Together with `Owned` this is
  `NothingLeaks`. It fails only where `initData` runs on a table that is not empty,
  and `FreshStart` says that it finds the table empty;
- `Ordered`: the active list is ordered by the time of the last packet, and of
  two flows of a key in a bucket the later comes first and began after the other had
  expired. A cleanup that stops at the first flow that has not expired has
  therefore met all that have (`CleanupComplete`), and the search that stops at the first
  flow of a key has met the one that may still be open (`SplitOnlyByExpiry`).

`MonitorKeepsLedger` is the step simulation: the open entries of the ledger are the
sessions of flows in the table, its retired ones those in the two expired lists and
in the export thread's hand before the record is written. `InsertFlowTable` is `Open`,
`ParseUpdate` is `Count`, `ExpireOldest` is `Retire`, `ExportPrint` is `Report`,
`MainFree` is `Finish`; all other actions stutter, the splices among them.

`NoPacketLost` speaks of sums over flows. The proofs in `FlowLedger` show the balance
in the abstract specification: a sum over a finite set changes by what an
entry adds, takes out or counts. The fold that defines a sum is recursive; the
induction is an argument by the smallest set for which the fold does not do what it
should. The refinement carries the balance over to the monitor.

### NodeRing

`RInv` is `Rep`: the sequences the walks meet are rings (`Ring`: the pointers at each
place lead to the places after and before), no node is in two of them, and a node in
none has no pointers. The walk is a recursive function of the number of turns;
`WalkMeets` shows that it meets the ring's nodes, by the first turn at which it would
not. There are three ways to change pointers, and a lemma for each on what it does to a
ring: insertion (prepend, append), removal (unlink, pop) and the splice of two rings
that `cleanup_flows` does by hand. `RepStep` shows that no other ring notices. The
operation then is the one of `NodeLists` on sequences. `PointersImplementLists` carries
this over to the part of the suite.

### XdpCapture

Nothing compares the room in the fill ring with the frames on the stack, so that
`xsk_alloc_umem_frame` may run out and `INVALID_UMEM_FRAME` is put into the ring. The
invariant `IInv` has the bounds of the rings and of the batch (`Room`, `BatchOK`: a
cached count never exceeds what is really there), and where every frame is (`InPlace`):
there are two functions that give each frame its place and its index there, and
nothing else is in any place. Each step moves entries, and the next functions are the
present ones changed at these. Counting a frame's occurrences gives `FrameOwnedOnce`;
if `xsk_free_umem_frame` found a full stack, the frames on it would be all there are and
the one that comes back one of them (`FreeAssertion`).

`Accounted` says that stack, rings and driver add up to `NUM_FRAMES`, with the blank
entries of the fill ring not counted. `BlanksBounded` is not inductive without it: a
stocking that adds a blank has emptied the stack, so that the frames are all in
the rings and with the driver, and the blanks are at most the places that are left.
With `Enough` frames (`NUM_FRAMES >= FqSize + RxSize + MaxHeld`; the program's 4096 for
rings of 2048 in copy mode) there are none. `comm.c` computes its bind flags as
`flags &= XDP_COPY` on zeroed flags, which does not request copy mode; with a
zero-copy driver `Enough` fails. That is the instance of `xdp_capture`: blanks appear,
and still no frame is lost and the assertion holds.

`NeverStarves` is about what is left then: the fill ring could hold blanks only, with
every frame on the stack, and the kernel would have nothing to fill. The code stocks the
ring only after packets have come, so this would be the end. `Supply` says why it
cannot happen: the ring is never all blanks, and the process thread never stocks with
all frames in its hand, because some of them are where the batch did not reach. It needs
`Spare`, `NUM_FRAMES > RX_BATCH_SIZE` (4096 and 64 in the code).

### PacketParser

Of a frame that is whole, `ParserInv` says at which header the loop of `parsePacket` is
and that `bp`, `aux16` and the lengths are that header's: at the type behind the tags
skipped so far (`AtType`) or at the header behind an IP header whose lengths were
tested (`AtL4`). Of a frame that is cut it says no more than the types, and none of the
promises need more. That a frame which the XDP program redirects is a UDP packet
for the parser too compares the two functions on one frame: what `monitor_prog` has
tested makes the parser's tests come out.

### MonitorLife, ErrorLog

`LifeInv` says for each statement of main which threads run (`ThreadsAt`), what is open
(`OpenAt`) and where flows can still be (`FlowsGone`). In `ErrorLog`, `LogInv` ties
`message_count`, which is set back when a message is shown, to the errors that happened
and those shown; `Throttled` follows from it by arithmetic (`Apart`). It says what is
right about the throttle: the first error is shown, no `MESSAGE_COUNT_LIMIT` in a row are
silent, and those shown are at least half of that apart. That they are `MESSAGE_COUNT_LIMIT`
apart, as `log.h` says, is not so and is not part of it (`LimitBetween`, under "Deviations").

### FlowFile

The promises compare the open file with a clock that is read twice without a lock. What
makes them inductive is in `FileInv`: what `prev_second` and the file know of each other
(`NotedRight`: the file is the period of the second noted last, but for the
start, a first packet between the readings, and the reset clock), what the first reading
can be worth when the second lets it pass (`ReadRight`), and how far the file has come
since the last record (`PrintedRight`). `prev_second` is a signed 32-bit number that
is divided as such and compared as an unsigned 64-bit one: the lemmas on `AsUint64`,
`AsInt32` and `Quotient` show that it can be trusted up to 2038, and that after the reset,
which makes it negative, no further file is opened.

### XskSocket, ProbeLink, Netlink, PerfBuffer

Each of the four invariants says who has what at each point of a call. `XskInv`: what is
held is of a kind its owner has, whoever does not exist any more has only what the code
is known to lose (`HeldBy`), an open socket's descriptor and rings are there
(`OpenHas`), and the UMEM counts its sockets: with these a deletion cannot close a
descriptor that another socket uses. `ProbeInv`: the hook of a call under way belongs to
it alone, or to the caller that passed it (`CallHas`). `NetlinkInv`: a socket is open from
a call's first step to its return. `HeldAt`: what a perf buffer holds at each
step of its set-up, of which `perf_buffer__free` takes back all, whichever step failed.
`KernelResourcesGivenBack` joins them.

### XdpLink

A step of a process does one of four things to the hook (`LinkStepDoes`): nothing, put its own
program into its slot, clear its own slot, or clear the other one, which the retry of a refused
attach does. No process is polite: nothing sets `XDP_FLAGS_UPDATE_IF_NOEXIST`, so that each
attach replaces what is in its slot, with `--force` or without, and a clean-up, which expects
no id, may remove another's program. What `HookKept` says under these conditions: a retry has
cleared its way but for what another process has put there since (`RetryClears`); a process
that runs has its socket in the map of its own program for as long as that one is attached,
although what it has been told of the hook is stale when it acts on it (`OwnServes`); and a
scenario that has cleaned up leaves none of its programs (`CleanExit`). They are inductive
together with `OwnSlot` (a program is in the slot of its owner's mode), `OneProgram` (the
kernel refuses a second mode), `DriverHas` and `Told`: `LinkInv`.

### XdpScenario, Options

The two programs of the scenarios are two instances with the same variables, and one
invariant, `ScenarioInv`, holds of both. `FramesAt`: pool, rings and what is processed of
the batch add up to `NUM_FRAMES`, from which it follows that a stocking of the fill ring
never asks the pool for more than it has. `PrintedAt` is what the thread needs, which reads
and copies the counters one after the other while main changes them: what was printed of a
field is at most the copy, but between its printing and its copying, and there at
most the counter. `MadeAt`: the socket is in the map while main receives, with
which no verdict is `XDP_ABORTED`. What the echo does with a frame is a lemma on
`xdp_echo_prog`, whatever the port map holds.

`OptionInv` ties struct config to the options given so far. `LastGiven` shows what a
further option does to "the last of these", for any length of the command line; every
option is then one of three kinds: it sets the mode, it names the interface, or it leaves
both alone (`ModeApplied`, `DeviceApplied`, `ElseApplied`).

### Only model-checked

- liveness under fairness, which is outside this prover's reach: `ShutdownCompletes`,
  `RetiredIsReported`, `ThreadsGoOn` and `LoopsGoOn`;
- `AnswersRight`: most of it, what a dump in several datagrams, a stream of attributes, a
  ring that wraps or a list of processors adds up to, is an induction over that data;
- the suites `loader_parts` and `btf_parts`, the refinement `IsMultiMap` among them. Many of
  their modules walk over graphs with recursive operators, of which the prover can
  show nothing, and the suites reach all of them.


## Deviations

Beside the three violated runs, the code disagrees with what a comment, a message or
a test in it says at the following places. Each is stated by a definition of the
module named, which is part of no run: TLC violates it in an instance of that module
alone, with the inputs the second column names.

| definition | the code | what is said |
|---|---|---|
| `FlowMonitor!OneFlowPerKey` | a packet whose flow has expired, before a cleanup: `insertFlow` puts a second flow of the key in front and leaves the first (`src/flujos/src/IPflow.c:315`). It does no harm: `SplitOnlyByExpiry`, `NoPacketLost` | "Si existía pero estaba caducado lo exporta" (`IPflow.c:264`) |
| `PacketParser!OnlyDatagrams` | the type field 1 is taken for ICMP without an IP header (`src/flujos/src/dp.c:398`) | "Cuando se encuentra un datagrama IP con protocolo" (`dp.c:317`) |
| `PacketParser!FragmentsApart` | fragments are not told apart (`src/flujos/src/dp.c:464`) | "dependiendo de si hay fragmentación o no" (`dp.c:318`) |
| `FlowFile!OnlyShownPeriods` | a first packet between the two readings of `last_packet_timestamp`: the second finds it set, but `current_second` is that of time 0, and with an offset of a period or more (in Spain: two or four) the file of that second is opened until the next iteration (`src/flujos/src/export.c:207`). A compiler may merge the readings, as gcc does at `-O3`; the C text has two. Also, `reset_flow_table` sets the clock to `INFINITY`, which no integer equals; between that and `stop_et` the export thread opens a file of a period far in the future (`src/flujos/src/export.c:208`) | `last_packet_timestamp!=INFINITY` (`export.c:208`) |
| `ErrorLog!LimitBetween` | a message after every `MESSAGE_COUNT_LIMIT - 1` errors (`src/flujos/src/log.c:169`) | "el número de errores que deben producirse antes de mostrar un evento" (`include/log.h:4`) |
| `MonitorLife!InterruptHandled` | Ctrl+C before `sigwait`: SIGINT is blocked after the threads have started (`src/flujos/src/dp.c:674`) | "Esta función se ejecuta cuando se pulsa Ctrl+C" (`dp.c:173`) |
| `MonitorLife!ShutdownCompleted` | a second Ctrl+C goes to a thread and ends the process (`src/flujos/src/dp.c:205`) | "En esta función se liberan los recursos reservados" (`dp.c:174`) |
| `XdpScenario!Shutdown` | `PollMode`: a SIGINT between the test of `global_exit` and `poll` is not noticed (`src/Escenarios 1 y 2/af_xdp_user.c:392`) | "Global shutdown handler" (`af_xdp_user.c:509`) |
| `XdpScenario!Survives` | without `--filename`: `bpf_obj` is NULL when the port map is looked for (`af_xdp_user.c:599`) | "Load custom program if configured" (`af_xdp_user.c:526`) |
| `Options!OneBindMode` | `-z -c` asks for both modes (`src/common/common_params.c:180`) | "Force copy mode" (`af_xdp_user.c:98`) |
| `Options!ReplacesOnlyForced` | `UPDATE_IF_NOEXIST` is never set, so each attach replaces (`common_params.c:146`) | "Force install, replacing existing program on interface" (`af_xdp_user.c:95`) |
| `Options!FileIsGiven` | a path of 512 bytes is not terminated (`common_params.c:165`) | "Load program from <file>" (`af_xdp_user.c:116`) |
| `XskSocket!BusyOnlyIfUsed` | `refcount` stays raised when `socket()` fails (`libbpf/src/xsk.c:609`) | "-EBUSY if the umem is still in use" (`xsk.h:238`) |
| `HashMap!FindsLastInserted` | growing turns a chain round (`libbpf/src/hashmap.c:107`) | "it will return last inserted key/value entry" (`hashmap.h:77`) |
| `BpfObject!PinnedIsUsed` | loader "maps": the answer of `bpf_map__reuse_fd` is not looked at (`src/common/common_libbpf.c:100`) | "Use FD from pinned map as replacement" (`common_libbpf.c:99`) |
| `BpfPin!PinsAtPath` | `Repath`: a new path leaves `pinned` set, and nothing is pinned there (`libbpf.c:4402`) | "they will use the pin_path attribute of each map" (`libbpf.h:139`) |
| `ProgInfo!OldKernelLeftOut` | the field with the record size is tested without its four bytes (`libbpf.c:6255`) | "kernel is too old to support this field" (`libbpf.c:6252`) |
| `ProgLoad!BigIsLarge` | any error without a log is told as this of a program of 4096 instructions or more (`libbpf.c:3733`) | "Program too big" (`libbpf.h:40`) |
| `ProgLoad!VerifyBlocks` | a log nobody wrote is read from `malloc`'s memory (`libbpf.c:3728`) | "Kernel verifier blocks program loading" (`libbpf.h:39`) |
| `ProgLoad!WithoutLog` | `NoMemory`: NULL is passed with a size, which is refused (`libbpf.c:3709`) | "continue without log" (`libbpf.c:3707`) |
| `LineInfo!Increasing` | the lines of the last function are not tested (`bpf_prog_linfo.c:47`) | "Ensure the addr is increasing _within_ a func" (`bpf_prog_linfo.c:71`) |
| `ProbeLink!NumbersRead` | a file without a number is taken for 0 (`libbpf.c:5453`) | "expected to parse integer in the range of [0, 2^31-1]" (`libbpf.c:5434`) |
| `Relocation!RelocsKnown` | a load relocated against `.text` gets an unwritten description (`libbpf.c:1879`) | "contains unrecognized relo data" (`libbpf.c:1856`) |
| `CoreReloc!EnumsUnsigned` | enumerations count as signed (`libbpf.c:3013`) | "enums will be assumed unsigned" (`libbpf.c:3012`) |
| `CoreReloc!NoAmbiguity` | candidates are compared by offset only (`libbpf.c:3377`) | "If there is any ambiguity, CO-RE relocation will fail" (`libbpf.c:3279`) |
| `BtfParse!AlignedTypes` | the test is `& 0x02` (`btf.c:118`) | "BTF type section is not aligned to 4 bytes" (`btf.c:119`) |
| `BtfTypes!LongNamesRefused` | only a name of exactly `max_name` is refused (`btf.c:707`) | "is too long" (`btf.c:709`) |
| `BtfDedup!ExtHonoured` | only line_info is renumbered (`btf.c:1505`) | "all the strings referenced from .BTF.ext section are honored" (`btf.c:1092`) |
| `BtfDump!Compiles` | a pointer to an array of structures only declares them (`btf_dump.c:446`) | "Dump BTF type in a compilable C syntax" (`btf_dump.c:183`) |
| `BtfDump!FullDefinitions` | a structure behind a pointer stays declared only (`btf_dump.c:457`) | "Full struct/union definitions will still be emitted" (`btf_dump.c:188`) |
| `BtfDump!NeverCrashes` | `NoMemory`: a call after a failed first one finds `cached_names` NULL (`btf_dump.c:214`) | "Returns 0 on success; <0, otherwise" (`btf_dump.c:196`) |
| `BtfDump!UniqueNames` | a numbered name may be another type's own (`btf_dump.c:1370`) | "per-type optional cached unique name" (`btf_dump.c:63`) |
| `BtfDump!EmbeddedInline` | the type a prototype returns is not marked (`btf_dump.c:293`) | "Mark all types that are referenced from any other type" (`btf_dump.c:238`) |
| `BtfDecl!ViewCurrent` | a nested declaration may move the stack under a view of it (`btf_dump.c:1115`) | "work with it as an independent stack" (`btf_dump.c:1111`) |
| `BtfLayout!LayoutKept` | packed, with a bit field across its word: taken for not packed (`btf_dump.c:808`) | "its layout is naturally aligned" (`btf_dump.c:813`) |

The suites use inputs without these cases where a property would otherwise meet them
(no fragments, no pointer to an array of structures, no names that look numbered, no packed
structure with bit fields, no stack of more than 16 types, no kernel whose info ends before a
record size),
and say so beside the input.

Losses of resources that the code has, and that a property therefore names as the
exceptions to "what is taken is given back":

- `xsk.c`: the mapping of the fill ring when that of the completion ring fails, and
  mappings whose size `getsockopt` refuses to tell when they are to be removed;
- `libbpf.c`: the file when `elf_begin` fails, the copy of a descriptor when `dup3`
  fails, the descriptors of a program that is loaded a second time through a
  preprocessor; a failed `bpf_object__pin_maps`, or `bpf_object__pin`, also unpins the maps
  that were pinned before the call, and of those it unlinks the file of another process when
  the map was reused from its pin (`libbpf.c:2237`, `4457-4463`; the exception `ReusedPins` of
  `BpfPin!UndoSpares`); directories made for pins stay; `attach_perf_event` leaves the program set on
  the caller's event when enabling it fails;
- `common_libbpf.c`, `common_user_bpf_xdp.c`: the descriptors of `bpf_obj_get` in the
  reuse of maps, and the object when loading it fails. That a failed load leaves no
  pin of its own and unpins no other's is true of the plain loader only.

## Not modelled

- the text of records, messages and dates; `dates.c`, which nobody calls;
- `pthread_create` failing; that the process thread may have ended after five idle
  polls while main still waits for Ctrl+C; a stop asked for before `rx_and_process`
  has set its own flag, which it overwrites;
- the year 2038, when `prev_second` no longer holds a second, and a comment that calls
  1800 seconds a day (`export.c`);
- the reply from user space in the scenarios, which stands under `if (false)`;
  `--reuse-maps`, which cannot work as `pin_dir` is never set; negative queue numbers;
- in libbpf: the feature probes and wrappers of single system calls, getters, tables
  of section names, `targ_btf_path`, CPU numbers with holes, the memory
  `hashmap__clear` does not free (it only runs inside `hashmap__free`), the strings of a section
  beyond its data, chains of collisions in an order other than one table's, the
  termination of `btf__dedup` as a liveness property, structures as fields in
  `BtfLayout`, allocation failures of the queues of `btf_dump`, candidates of a CO-RE
  relocation beyond the memory of their list (`libbpf.c:2691` asks for bytes, not ids; the
  smallest block of glibc holds six), strings of 2 GB, names of 256 characters;
- headers copied from the kernel, example programs, build files.

## Plan

1. Proofs: the parts of `AnswersRight` that need no induction (`IdWasThere`, `SetHolds`,
   `InBounds`, `AllAgree`); `HashMap` implementing `MultiMap`, once its suite
   does not reach the recursive walks of the other BTF modules.
2. Composition: `XdpCapture` and `FlowMonitor` joined at `process_packet`, so that
   shutdown under traffic is one specification, and the theorems of both carried over.
