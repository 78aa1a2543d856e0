---------------------------- MODULE XdpScenario ----------------------------
(***************************************************************************)
(* The user program of scenarios 1 and 2 (Escenarios 1 y 2/af_xdp_user.c): *)
(* main sets the XDP program, the socket and the port up, receives until   *)
(* SIGINT and cleans up, while frames arrive and are judged by whatever    *)
(* program and maps are there at that moment, and a thread prints rates.   *)
(*                                                                         *)
(* The frames of the UMEM are told apart in XdpCapture, whose receive path *)
(* this program shares; here they are counted.                             *)
(***************************************************************************)
EXTENDS XdpPrograms, FiniteSetsExt

CONSTANTS
  Queues,           \* receive queues of the interface
  Queue,            \* --queue
  Program,          \* what --filename names: "sock", "echo", or "none"
  PollMode,         \* --poll-mode
  Verbose,          \* not --quiet
  NUM_FRAMES, FqSize, RxSize, RX_BATCH_SIZE,
  NPackets,         \* bound: frames that reach the socket
  PORT              \* numero_puerto

ScenarioAssumption ==
  /\ Queue \in Queues /\ Queues \subseteq Nat /\ Program \in {"sock", "echo", "none"}
  /\ PollMode \in BOOLEAN /\ Verbose \in BOOLEAN /\ PORT \in Nat \ {0}
  /\ {FqSize, RxSize, RX_BATCH_SIZE, NPackets} \subseteq Nat \ {0}
  /\ NUM_FRAMES \in Nat /\ NUM_FRAMES >= FqSize + RxSize
  /\ \A f \in Frames :            \* the fields an echo exchanges
       /\ f = [x \in DOMAIN f |-> f[x]]
       /\ {"smac", "dmac", "saddr", "daddr", "sport", "dport"} \subseteq DOMAIN f

VARIABLES
  pc,               \* where main is
  global_exit,
  prog,             \* the program on the interface
  xsks, port,       \* xsks_map: queues with a socket; xdp_puerto_map[1]
  free, fq, rx,     \* frames in the pool and in the rings
  rcvd, done,       \* the batch, and how much of it is processed
  stats, previous,  \* counters of the socket; the thread's copy
  shown,            \* sums of the differences that were printed
  tpc, todo         \* where the thread is; fields it has yet to read or copy

main == <<prog, xsks, port>>
frames == <<free, fq, rx, rcvd, done>>
thread == <<previous, shown, tpc, todo>>
vars == <<pc, global_exit, main, frames, stats, thread>>

Zero == [packets |-> 0, bytes |-> 0]
Fields == DOMAIN Zero

Init ==
  /\ pc = "attach" /\ global_exit = FALSE
  /\ prog = "none" /\ xsks = {} /\ port = 0
  /\ free = 0 /\ fq = 0 /\ rx = 0 /\ rcvd = 0 /\ done = 0
  /\ stats = Zero /\ previous = Zero /\ shown = Zero
  /\ tpc = "none" /\ todo = {}

Alive == pc \notin {"exit", "failed", "crashed"}
-----------------------------------------------------------------------------
(***************************************************************************)
(* main.  exit(EXIT_FAILURE) leaves what is attached attached; the kernel  *)
(* closes the socket, which takes it out of xsks_map.                      *)
(***************************************************************************)
Fail ==
  /\ pc \in {"attach", "umem", "socket", "fill", "thread"}
  /\ pc' = "failed" /\ xsks' = {}
  /\ UNCHANGED <<global_exit, prog, port, frames, stats, thread>>

load_bpf_and_xdp_attach ==
  /\ pc = "attach"
  /\ pc' = "umem" /\ prog' = Program
  /\ UNCHANGED <<global_exit, xsks, port, frames, stats, thread>>

configure_xsk_umem ==
  /\ pc = "umem"
  /\ pc' = "socket"
  /\ UNCHANGED <<global_exit, main, frames, stats, thread>>

\* libbpf attaches its own program when there is none, and enters the socket.
queue_id == Queue
xsk_socket__create ==
  /\ pc = "socket"
  /\ pc' = "fill"
  /\ prog' = IF prog = "none" THEN "default" ELSE prog
  /\ xsks' = {queue_id}
  /\ UNCHANGED <<global_exit, port, frames, stats, thread>>

xsk_configure_socket ==
  /\ pc = "fill"
  /\ pc' = IF Verbose THEN "thread" ELSE "port"
  /\ fq' = FqSize /\ free' = NUM_FRAMES - FqSize
  /\ UNCHANGED <<global_exit, main, rx, rcvd, done, stats, thread>>

pthread_create ==
  /\ pc = "thread"
  /\ pc' = "port" /\ tpc' = "sleep"
  /\ UNCHANGED <<global_exit, main, frames, stats, previous, shown, todo>>

\* Without a program of its own bpf_obj is NULL, which the search of the map
\* dereferences; what bpf_map_update_elem answers is ignored.
LoadPort ==
  /\ pc = "port"
  /\ IF Program = "none"
       THEN pc' = "crashed" /\ xsks' = {} /\ UNCHANGED port
       ELSE pc' = "test" /\ port' \in {port, PORT} /\ UNCHANGED xsks
  /\ UNCHANGED <<global_exit, prog, frames, stats, thread>>

rx_and_process ==
  /\ pc = "test"
  /\ pc' = IF global_exit THEN "delete" ELSE IF PollMode THEN "call" ELSE "receive"
  /\ UNCHANGED <<global_exit, main, frames, stats, thread>>

\* Between the test of the flag and the kernel's part of poll a signal interrupts nothing.
EnterPoll ==
  /\ pc = "call"
  /\ pc' = "poll"
  /\ UNCHANGED <<global_exit, main, frames, stats, thread>>

\* poll has no timeout: it ends when there is a packet, or by a signal.
poll ==
  /\ pc = "poll" /\ rx > 0
  /\ pc' = "receive"
  /\ UNCHANGED <<global_exit, main, frames, stats, thread>>

\* The fill ring is stuffed with as many frames as it has room for.
Stock(n) == IF n > 0 THEN FqSize - fq ELSE 0

handle_receive_packets ==
  /\ pc = "receive"
  /\ rcvd' = Min({rx, RX_BATCH_SIZE}) /\ done' = 0
  /\ fq' = fq + Stock(rcvd') /\ free' = free - Stock(rcvd')
  /\ pc' = IF rcvd' > 0 THEN "process" ELSE "test"
  /\ UNCHANGED <<global_exit, main, rx, stats, thread>>

\* process_packet sends nothing: its frame goes back to the pool.
process_packet ==
  /\ pc = "process" /\ done < rcvd
  /\ done' = done + 1 /\ free' = free + 1
  /\ stats' = [stats EXCEPT !.bytes = @ + 1]
  /\ UNCHANGED <<pc, global_exit, main, fq, rx, rcvd, thread>>

\* Nothing is outstanding, so that complete_tx returns at once.
Released ==
  /\ pc = "process" /\ done = rcvd
  /\ rx' = rx - rcvd /\ stats' = [stats EXCEPT !.packets = @ + rcvd]
  /\ pc' = "test"
  /\ UNCHANGED <<global_exit, main, free, fq, rcvd, done, thread>>

xsk_socket__delete ==
  /\ pc = "delete"
  /\ pc' = "detach" /\ xsks' = {}
  /\ UNCHANGED <<global_exit, prog, port, frames, stats, thread>>

xdp_link_detach ==
  /\ pc = "detach"
  /\ pc' = "exit" /\ prog' = "none"
  /\ UNCHANGED <<global_exit, xsks, port, frames, stats, thread>>

Main ==
  \/ load_bpf_and_xdp_attach \/ configure_xsk_umem \/ xsk_socket__create \/ xsk_configure_socket
  \/ pthread_create \/ LoadPort \/ rx_and_process \/ EnterPoll \/ poll \/ handle_receive_packets
  \/ process_packet \/ Released \/ xsk_socket__delete \/ xdp_link_detach
-----------------------------------------------------------------------------
(***************************************************************************)
(* stats_poll.  The compiler orders the reads and the copy of the fields.  *)
(***************************************************************************)
Ticks ==
  /\ Alive /\ tpc = "sleep"
  /\ tpc' = "print" /\ todo' = Fields
  /\ UNCHANGED <<pc, global_exit, main, frames, stats, previous, shown>>

BugSinceTheStart(x) == stats[x]
Difference(x) == stats[x] - previous[x]

stats_print(x) ==
  /\ Alive /\ tpc = "print" /\ x \in todo
  /\ shown' = [shown EXCEPT ![x] = @ + Difference(x)]
  /\ IF todo = {x} THEN tpc' = "copy" /\ todo' = Fields ELSE todo' = todo \ {x} /\ UNCHANGED tpc
  /\ UNCHANGED <<pc, global_exit, main, frames, stats, previous>>

stats_poll(x) ==
  /\ Alive /\ tpc = "copy" /\ x \in todo
  /\ previous' = [previous EXCEPT ![x] = stats[x]]
  /\ todo' = todo \ {x}
  /\ tpc' = IF todo' # {} THEN tpc ELSE IF global_exit THEN "ended" ELSE "sleep"
  /\ UNCHANGED <<pc, global_exit, main, frames, stats, shown>>

Thread == Ticks \/ \E x \in Fields : stats_print(x) \/ stats_poll(x)
-----------------------------------------------------------------------------
\* The handler runs in main's thread, where it interrupts poll.
exit_application ==
  /\ Alive /\ ~ global_exit
  /\ global_exit' = TRUE
  /\ pc' = IF pc = "poll" THEN "test" ELSE pc
  /\ UNCHANGED <<main, frames, stats, thread>>

\* What becomes of frame f on queue q now.
Verdict(f, q) ==
  CASE prog = "none" -> "pass"
    [] prog = "sock" -> xdp_sock_prog(q, xsks)
    [] prog = "echo" -> xdp_echo_prog(f, q, xsks, port)
    [] prog = "default" -> default_prog(q, xsks)

\* A frame for the socket takes a buffer of the fill ring; without one it is lost.
Arrives(f) ==
  /\ Alive /\ Verdict(f, Queue) = "redirect" /\ fq > 0 /\ rx < RxSize
  /\ stats.packets + rx < NPackets
  /\ fq' = fq - 1 /\ rx' = rx + 1
  /\ UNCHANGED <<pc, global_exit, main, free, rcvd, done, stats, thread>>

Next == Fail \/ Main \/ Thread \/ exit_application \/ \E f \in Frames : Arrives(f)

\* main is scheduled; nothing says that the thread prints, that frames arrive or that
\* anyone types Ctrl+C.
Spec == Init /\ [][Next]_vars /\ WF_vars(Main)
-----------------------------------------------------------------------------
TypeOK ==
  /\ global_exit \in BOOLEAN /\ prog \in {"none", "sock", "echo", "default"}
  /\ xsks \subseteq Queues /\ port \in {0, PORT}
  /\ free \in 0 .. NUM_FRAMES /\ fq \in 0 .. FqSize /\ rx \in 0 .. RxSize
  /\ rcvd \in 0 .. RX_BATCH_SIZE /\ done \in 0 .. rcvd
  /\ {stats, previous, shown} \subseteq [Fields -> 0 .. NPackets]
  /\ todo \subseteq Fields

Receiving == pc \in {"thread", "port", "test", "call", "poll", "receive", "process"}

\* From the moment the socket is set up until it is deleted, no frame of its queue is
\* dropped as XDP_ABORTED: the socket is in the map, under the queue the program asks
\* the map for, whatever main is doing.
NotAborted == Receiving => \A f \in Frames : Verdict(f, Queue) # "aborted"

\* In every state of main, set-up, clean-up and failure included, the echo leaves to the
\* kernel what is not UDP and not TCP for the port; headers that do not fit are left too.
OthersPass ==
  prog = "echo" =>
    \A f \in Frames, q \in Queues :
      \/ Verdict(f, q) = "pass"
      \/ f.etype = "ip" /\ f.tags = <<>> /\ f.protocol = "udp"
      \/ f.etype = "ip" /\ f.tags = <<>> /\ f.protocol = "tcp" /\ f.dport \in {0, PORT}

\* What is echoed is a reply, sent from where the request went to where it came from;
\* it is echoed again, by a peer that runs the same program, only if it came from the
\* port itself.
EchoIsReply ==
  \A f \in Frames, q \in Queues :
    prog = "echo" /\ Verdict(f, q) = "tx" =>
      /\ Echoed(f).dmac = f.smac /\ Echoed(f).daddr = f.saddr /\ Echoed(f).dport = f.sport
      /\ Echoed(Echoed(f)) = f
      /\ Verdict(Echoed(f), q) = "tx" => f.sport = port

\* While main receives, no frame of the UMEM is lost: all are in the pool, in a ring, or
\* in the batch, and the fill ring is never given more than the pool holds.
FramesKept ==
  pc \in {"thread", "port", "test", "call", "poll", "receive", "process", "delete", "detach", "exit"} =>
    free + fq + rx - (IF pc = "process" THEN done ELSE 0) = NUM_FRAMES

\* No packet is in two of the rates that are printed, and no difference is below zero,
\* though the thread reads and copies the counters while main changes them.
ShownOnce ==
  \A x \in Fields : previous[x] <= stats[x] /\ shown[x] <= stats[x]

\* Ctrl+C ends the program: the socket is deleted and the XDP program taken off.
Shutdown == global_exit ~> ~ Alive

\* The program runs with the XDP program that --filename names, and without one.
Survives == pc # "crashed"
=============================================================================
