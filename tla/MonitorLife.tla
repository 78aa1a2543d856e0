---------------------------- MODULE MonitorLife ----------------------------
(***************************************************************************)
(* The life of the monitor's process (dp.c, comm.c): main opens the log,   *)
(* the socket and the pools, starts the two threads and waits for SIGINT,  *)
(* which a user may send at any time and more than once.  FlowMonitor has  *)
(* what the threads do to the lists, XdpCapture the receive loop; here a   *)
(* flow is one of a number, and what counts is whether it gets to the disk.*)
(***************************************************************************)
EXTENDS Naturals

CONSTANTS
  MaxFlows,         \* bound: flows captured
  MaxSignals        \* bound: times Ctrl+C is pressed

LifeAssumption == MaxFlows \in Nat /\ MaxSignals \in Nat

VARIABLES
  main,             \* the statement main is at
  pt, et,           \* the process and the export thread: "none", "run", "done"
  stop_et,
  sock, pools,      \* "none", "open", "closed"
  session,          \* of the log: "none", "open", "closed"
  table, expired,   \* flows in the flow table and in expired_flow_list
  buffered, disk,   \* flows in the buffer of the flow file, and behind it
  signals           \* SIGINTs sent

threads == <<pt, et, stop_et>>
held == <<sock, pools, session>>
flows == <<table, expired, buffered, disk>>
vars == <<main, threads, held, flows, signals>>

Init ==
  /\ main = "startLog" /\ pt = "none" /\ et = "none" /\ stop_et = FALSE
  /\ sock = "none" /\ pools = "none" /\ session = "none"
  /\ table = 0 /\ expired = 0 /\ buffered = 0 /\ disk = 0 /\ signals = 0

Ended == main \in {"exit", "error", "killed"}
Alive(t) == ~Ended /\ t = "run"
Step(from, to) == main = from /\ main' = to
-----------------------------------------------------------------------------
startLog ==
  /\ Step("startLog", "createXDPSocket") /\ session' = "open"
  /\ UNCHANGED <<threads, sock, pools, flows, signals>>

createXDPSocket ==
  /\ Step("createXDPSocket", "alloc") /\ sock' = "open"
  /\ UNCHANGED <<threads, pools, session, flows, signals>>

\* An interface without index, a limit, memory, a umem or a socket that is
\* refused: by return or by exit, and the log's session is not ended.
create_init_xdp_sock ==
  /\ Step("createXDPSocket", "error")
  /\ UNCHANGED <<threads, held, flows, signals>>

AllocPools ==
  /\ Step("alloc", "export") /\ pools' = "open"
  /\ UNCHANGED <<threads, sock, session, flows, signals>>

AllocFails ==
  /\ Step("alloc", "error")
  /\ UNCHANGED <<threads, held, flows, signals>>

CreateExport ==
  /\ Step("export", "process") /\ et' = "run"
  /\ UNCHANGED <<pt, stop_et, held, flows, signals>>

CreateProcess ==
  /\ Step("process", "mask") /\ pt' = "run"
  /\ UNCHANGED <<et, stop_et, held, flows, signals>>

\* The threads are there already and do not inherit the mask.
pthread_sigmask ==
  /\ Step("mask", "sigwait")
  /\ UNCHANGED <<threads, held, flows, signals>>

\* main goes into the call.
sigwait ==
  /\ Step("sigwait", "waiting")
  /\ UNCHANGED <<threads, held, flows, signals>>
-----------------------------------------------------------------------------
(***************************************************************************)
(* Ctrl+C.  While main is in sigwait it takes the signal.  Before the mask *)
(* is set the signal ends the process; behind it, it goes to a thread that *)
(* does not block it, if there is one, and ends the process there.  What   *)
(* the flow file has in its buffer is lost then.                           *)
(***************************************************************************)
Masked == main \notin {"startLog", "createXDPSocket", "alloc", "export", "process", "mask"}
Sigint ==
  /\ ~Ended /\ signals < MaxSignals
  /\ signals' = signals + 1
  /\ main' = IF main = "waiting" THEN "capturaSenial"
             ELSE IF ~Masked \/ pt = "run" \/ et = "run" THEN "killed"
             ELSE main
  /\ UNCHANGED <<threads, held, flows>>

\* stop_pt is set, which nothing reads; then main sleeps and joins.
ProcessOver == pt = "done"
capturaSenial ==
  /\ Step("capturaSenial", "reset") /\ ProcessOver
  /\ UNCHANGED <<threads, held, flows, signals>>

reset_flow_table ==
  /\ Step("reset", "stop_et") /\ expired' = expired + table /\ table' = 0
  /\ UNCHANGED <<threads, held, buffered, disk, signals>>

StopExport ==
  /\ Step("stop_et", "join") /\ stop_et' = TRUE
  /\ UNCHANGED <<pt, et, held, flows, signals>>

\* The pools are given back and stopLog ends the session.
Free ==
  /\ Step("join", "destroy") /\ et = "done"
  /\ pools' = "closed" /\ session' = "closed"
  /\ UNCHANGED <<threads, sock, flows, signals>>

destroyXDPSocket ==
  /\ Step("destroy", "exit") /\ sock' = "closed"
  /\ UNCHANGED <<threads, pools, session, flows, signals>>
-----------------------------------------------------------------------------
(***************************************************************************)
(* The threads.  rx_and_process returns after five polls without traffic.  *)
(***************************************************************************)
\* (That a second initData forgets the flows in the table, dp.c 302-307, is FlowMonitor's.)
process_packet ==
  /\ Alive(pt) /\ table + expired + buffered + disk < MaxFlows
  /\ table' = table + 1
  /\ UNCHANGED <<main, threads, held, expired, buffered, disk, signals>>

cleanup_flows ==
  /\ Alive(pt) /\ \E n \in 1..table : table' = table - n /\ expired' = expired + n
  /\ UNCHANGED <<main, threads, held, buffered, disk, signals>>

processThread ==
  /\ Alive(pt) /\ pt' = "done"
  /\ UNCHANGED <<main, et, stop_et, held, flows, signals>>

\* A record goes into the buffer, or takes the buffer to the disk with it.
export_data ==
  /\ Alive(et) /\ expired > 0 /\ expired' = expired - 1
  /\ \/ buffered' = buffered + 1 /\ UNCHANGED disk
     \/ buffered' = 0 /\ disk' = disk + buffered + 1
  /\ UNCHANGED <<main, threads, held, table, signals>>

\* The end of the period closes the file and opens the next.
Rotate ==
  /\ Alive(et) /\ ~stop_et /\ buffered > 0
  /\ buffered' = 0 /\ disk' = disk + buffered
  /\ UNCHANGED <<main, threads, held, table, expired, signals>>

\* fopen fails and the thread calls exit.
RotateFails ==
  /\ Alive(et) /\ ~stop_et
  /\ main' = "error" /\ buffered' = 0 /\ disk' = disk + buffered
  /\ UNCHANGED <<threads, held, table, expired, signals>>

BugDrained == TRUE
Drained == expired = 0
exportThread ==
  /\ Alive(et) /\ stop_et /\ Drained
  /\ et' = "done" /\ buffered' = 0 /\ disk' = disk + buffered
  /\ UNCHANGED <<main, pt, stop_et, held, table, expired, signals>>

Over == Ended /\ UNCHANGED vars

Next ==
  \/ startLog \/ createXDPSocket \/ create_init_xdp_sock \/ AllocPools \/ AllocFails
  \/ CreateExport \/ CreateProcess \/ pthread_sigmask \/ sigwait
  \/ Sigint \/ capturaSenial \/ reset_flow_table \/ StopExport \/ Free \/ destroyXDPSocket
  \/ process_packet \/ cleanup_flows \/ processThread
  \/ export_data \/ Rotate \/ RotateFails \/ exportThread \/ Over

Spec == Init /\ [][Next]_vars
-----------------------------------------------------------------------------
\* A thread that runs has what it uses: the process thread the socket, and
\* both the pools and the log (dp.c 204-231, 687: everything is given back
\* after the joins).
ResourcesHeld ==
  /\ Alive(pt) => sock = "open" /\ pools = "open" /\ session = "open"
  /\ Alive(et) => pools = "open" /\ session = "open"

\* A monitor that returns from main has written every flow it captured to the
\* disk, however often and whenever Ctrl+C was pressed (dp.c 204-211,
\* export.c 249-291).
AllOnDisk == main = "exit" => table + expired + buffered = 0

\* A Ctrl+C that ends the program while it captures runs capturaSenial: no
\* flow is lost (dp.c 173).
InterruptHandled == main = "killed" /\ signals = 1 => table + expired + buffered = 0

\* capturaSenial, once called, gives back the resources that it is there to
\* give back: it is not cut off half way (dp.c 175).
ShutdownCompleted == main = "killed" => signals = 1
=============================================================================
