----------------------------- MODULE XdpCapture -----------------------------
(***************************************************************************)
(* The capture library (flujos/libs/xdp/lxdpFlow.c): the frames of the     *)
(* UMEM travel from the pool umem_frame_addr to the fill ring, through the *)
(* kernel to the receive ring, and back to the pool once process_packet    *)
(* has seen them.  The process thread runs rx_and_process; the kernel and  *)
(* a thread that asks it to stop run beside it.                            *)
(*                                                                         *)
(* A ring is the sequence of its entries from *consumer to *producer.  The *)
(* indices are 32-bit counters of which only differences, never above the  *)
(* ring's size, are used; the thread's cached differences are variables.   *)
(*                                                                         *)
(* Operators named Bug... are mutants of the definition that follows them: *)
(* slips the code could contain, each of which breaks a property.          *)
(***************************************************************************)
EXTENDS Integers, FiniteSets, SequencesExt

CONSTANTS
  NUM_FRAMES,       \* frames of the UMEM
  FRAME_SIZE,
  Headroom,         \* how far into its frame the kernel puts a packet
  FqSize, RxSize,   \* XSK_RING_PROD/CONS__DEFAULT_NUM_DESCS
  RX_BATCH_SIZE,
  MaxHeld,          \* frames a zero-copy driver may hold; 0: copy mode
  NTimeouts,        \* rx_and_process's ntimeouts
  LinkFails         \* may poll report an error on the socket?

ASSUME FrameAssumption ==
  /\ NUM_FRAMES \in Nat \ {0} /\ FRAME_SIZE \in Nat \ {0} /\ Headroom \in 0 .. FRAME_SIZE - 1
ASSUME RingAssumption ==
  /\ FqSize \in Nat \ {0} /\ RxSize \in Nat \ {0} /\ RX_BATCH_SIZE \in Nat \ {0}
  /\ MaxHeld \in Nat /\ NTimeouts \in Nat \ {0} /\ LinkFails \in BOOLEAN

INVALID_UMEM_FRAME == -1
Slots == 0 .. NUM_FRAMES - 1
Addrs == 0 .. NUM_FRAMES * FRAME_SIZE - 1
FrameOf(a) == a \div FRAME_SIZE

VARIABLES
  umem_frame_addr, umem_frame_free,   \* the stack of free frames
  fq, fqFree,       \* fill ring; cached_cons - cached_prod
  held,             \* frames in the driver's hands
  rx, rxSeen,       \* receive ring; cached_prod - cached_cons
  rcvd, done,       \* size of the batch; packets of it already processed
  idle,             \* rx_and_process's i
  stop_capture, stop_pt,
  pc

pool == <<umem_frame_addr, umem_frame_free>>
rings == <<fq, fqFree, held, rx, rxSeen>>
batch == <<rcvd, done>>
flags == <<stop_capture, stop_pt>>
vars == <<pool, rings, batch, idle, flags, pc>>

Init ==
  /\ umem_frame_addr = [i \in Slots |-> 0] /\ umem_frame_free = 0
  /\ fq = <<>> /\ fqFree = FqSize
  /\ held = <<>>
  /\ rx = <<>> /\ rxSeen = 0
  /\ rcvd = 0 /\ done = 0 /\ idle = 0
  /\ stop_capture = FALSE /\ stop_pt = FALSE
  /\ pc = "create"
-----------------------------------------------------------------------------
(***************************************************************************)
(* The pool.  k calls of xsk_alloc_umem_frame on the stack st of n frames: *)
(* the addresses they return, and the stack they leave.                    *)
(***************************************************************************)
Allocated(st, n, k) ==
  [j \in 1 .. k |-> IF j <= n THEN st[n - j] ELSE INVALID_UMEM_FRAME]

StackAfter(st, n, k) ==
  [i \in Slots |-> IF n - k <= i /\ i < n THEN INVALID_UMEM_FRAME ELSE st[i]]

BugStillThere(n, k) == n
LeftAfter(n, k) == IF k <= n THEN n - k ELSE 0

\* xsk_free_umem_frame, after its assertion.
xsk_free_umem_frame(a) ==
  /\ umem_frame_addr' = [umem_frame_addr EXCEPT ![umem_frame_free] = a]
  /\ umem_frame_free' = umem_frame_free + 1

\* xsk_prod_nb_free(fq, nb): the cached answer if it is enough, else a fresh one.
BugCachedOnly(nb) == fqFree
NbFree(nb) == IF fqFree >= nb THEN fqFree ELSE FqSize - Len(fq)
-----------------------------------------------------------------------------
(***************************************************************************)
(* The process thread.                                                     *)
(***************************************************************************)
\* xsk_configure_socket: every frame on the stack, then the fill ring stuffed.
xsk_configure_socket ==
  /\ pc = "create"
  /\ LET all == [i \in Slots |-> i * FRAME_SIZE] IN
       /\ umem_frame_addr' = StackAfter(all, NUM_FRAMES, FqSize)
       /\ fq' = Allocated(all, NUM_FRAMES, FqSize)
  /\ umem_frame_free' = LeftAfter(NUM_FRAMES, FqSize)
  /\ fqFree' = 0
  /\ pc' = "start"
  /\ UNCHANGED <<held, rx, rxSeen, batch, idle, flags>>

\* rx_and_process begins by forgetting whatever was asked before it was called.
rx_and_process ==
  /\ pc = "start"
  /\ stop_capture' = TRUE
  /\ idle' = 0
  /\ pc' = "loop"
  /\ UNCHANGED <<pool, rings, batch, stop_pt>>

\* stop_capture is TRUE while the capture goes on, as in the code.
GoOn == idle < NTimeouts /\ stop_capture

WhileTest ==
  /\ pc = "loop"
  /\ pc' = IF GoOn THEN "poll" ELSE "returned"
  /\ UNCHANGED <<pool, rings, batch, idle, flags>>

\* poll ran out of time, or a signal interrupted it (then packets may be waiting).
PollNothing ==
  /\ pc = "poll"
  /\ idle' = idle + 1
  /\ pc' = "loop"
  /\ UNCHANGED <<pool, rings, batch, flags>>

\* poll answers 1: packets are waiting, or the socket has an error to report.
PollReady ==
  /\ pc = "poll"
  /\ rx # <<>> \/ LinkFails
  /\ idle' = 0
  /\ pc' = "peek"
  /\ UNCHANGED <<pool, rings, batch, flags>>

\* xsk_ring_cons__peek looks at the ring again only when it has used up what it
\* saw the last time.
Peek ==
  LET avail == IF rxSeen = 0 THEN Len(rx) ELSE rxSeen
      n == IF avail > RX_BATCH_SIZE THEN RX_BATCH_SIZE ELSE avail
  IN /\ pc = "peek"
     /\ rcvd' = n
     /\ rxSeen' = avail - n
     /\ pc' = IF n = 0 THEN "loop" ELSE "stock"
     /\ UNCHANGED <<pool, fq, fqFree, held, rx, done, idle, flags>>

\* The fill ring gets as many frames as it has room for.  Reserving what
\* xsk_prod_nb_free has just answered cannot fail: the retry loop is dead code.
Stock ==
  LET stock_frames == NbFree(umem_frame_free) IN
  /\ pc = "stock"
  /\ fq' = fq \o Allocated(umem_frame_addr, umem_frame_free, stock_frames)
  /\ umem_frame_addr' = StackAfter(umem_frame_addr, umem_frame_free, stock_frames)
  /\ umem_frame_free' = LeftAfter(umem_frame_free, stock_frames)
  /\ fqFree' = 0
  /\ pc' = "process"
  /\ UNCHANGED <<held, rx, rxSeen, batch, idle, flags>>

\* One packet: process_packet, then xsk_free_umem_frame and its assertion.
BugFirstAgain == rx[1]
Packet == rx[done + 1]

Process ==
  /\ pc = "process"
  /\ IF umem_frame_free < NUM_FRAMES
     THEN /\ xsk_free_umem_frame(Packet)
          /\ done' = done + 1
          /\ pc' = IF done' = rcvd THEN "release" ELSE "process"
     ELSE /\ pc' = "abort"
          /\ UNCHANGED <<pool, done>>
  /\ UNCHANGED <<rings, rcvd, idle, flags>>

\* xsk_ring_cons__release: only now may the kernel use these entries again.
BugOneOnly == Tail(rx)
Unreleased == SubSeq(rx, rcvd + 1, Len(rx))

Release ==
  /\ pc = "release"
  /\ rx' = Unreleased
  /\ rcvd' = 0 /\ done' = 0
  /\ pc' = "loop"
  /\ UNCHANGED <<pool, fq, fqFree, held, rxSeen, idle, flags>>

close_xdp_sock ==
  /\ pc = "returned"
  /\ fq' = <<>> /\ held' = <<>> /\ rx' = <<>> /\ rxSeen' = 0
  /\ pc' = "closed"
  /\ UNCHANGED <<pool, fqFree, batch, idle, flags>>

\* The thread is over.
Over ==
  /\ pc \in {"closed", "abort"}
  /\ UNCHANGED vars
-----------------------------------------------------------------------------
(***************************************************************************)
(* The threads that want it to stop: one that calls stop_rx_and_process    *)
(* (flujos/libs/xdp/test/main.c), and the monitor's main in capturaSenial. *)
(***************************************************************************)
stop_rx_and_process ==
  /\ pc # "closed"
  /\ stop_capture' = FALSE
  /\ UNCHANGED <<pool, rings, batch, idle, stop_pt, pc>>

\* The monitor has the socket before main waits for signals (dp.c 595, 676); here stop_pt may be
\* set sooner, which only allows more.
capturaSenial ==
  /\ ~ stop_pt
  /\ stop_pt' = TRUE
  /\ UNCHANGED <<pool, rings, batch, idle, stop_capture, pc>>
-----------------------------------------------------------------------------
(***************************************************************************)
(* The kernel (external).  It takes entries from the fill ring, skips those*)
(* that are no frame, rounds the others down to their frame and offers the *)
(* packet at its own offset in it, at once or, in zero-copy mode, after    *)
(* the driver has held it.  Without a fill entry, or without room          *)
(* in the receive ring, the packet is dropped.                             *)
(***************************************************************************)
Bound == pc # "closed"
Filled(a) == FrameOf(a) * FRAME_SIZE + Headroom

KernelCopies ==
  /\ Bound /\ held = <<>>
  /\ fq # <<>> /\ Head(fq) # INVALID_UMEM_FRAME /\ Len(rx) < RxSize
  /\ fq' = Tail(fq)
  /\ rx' = Append(rx, Filled(Head(fq)))
  /\ UNCHANGED <<pool, fqFree, held, rxSeen, batch, idle, flags, pc>>

DriverTakes ==
  /\ Bound /\ Len(held) < MaxHeld
  /\ fq # <<>> /\ Head(fq) # INVALID_UMEM_FRAME
  /\ fq' = Tail(fq)
  /\ held' = Append(held, Filled(Head(fq)))
  /\ UNCHANGED <<pool, fqFree, rx, rxSeen, batch, idle, flags, pc>>

DriverDelivers ==
  /\ Bound
  /\ held # <<>> /\ Len(rx) < RxSize
  /\ held' = Tail(held)
  /\ rx' = Append(rx, Head(held))
  /\ UNCHANGED <<pool, fq, fqFree, rxSeen, batch, idle, flags, pc>>

KernelSkips ==
  /\ Bound
  /\ fq # <<>> /\ Head(fq) = INVALID_UMEM_FRAME
  /\ fq' = Tail(fq)
  /\ UNCHANGED <<pool, fqFree, held, rx, rxSeen, batch, idle, flags, pc>>
-----------------------------------------------------------------------------
Thread ==
  \/ xsk_configure_socket \/ rx_and_process \/ WhileTest \/ PollNothing \/ PollReady
  \/ Peek \/ Stock \/ Process \/ Release \/ close_xdp_sock

Kernel == KernelCopies \/ DriverTakes \/ DriverDelivers \/ KernelSkips

Next == Thread \/ stop_rx_and_process \/ capturaSenial \/ Kernel \/ Over

Spec == Init /\ [][Next]_vars

\* The scheduler runs the process thread, and poll returns, at the latest after
\* its timeout.  Traffic is promised by nobody, nor is it ever to stop.
FairSpec == Spec /\ WF_vars(Thread)
-----------------------------------------------------------------------------
(***************************************************************************)
(* Properties.                                                             *)
(***************************************************************************)
Capturing == pc \notin {"create", "closed"}
\* The receive ring's packets that are still to be processed.
Waiting == SubSeq(rx, done + 1, Len(rx))
\* The frames of the UMEM by number; the kernel calls them chunks.
Chunks == 0 .. NUM_FRAMES - 1

\* Every variable has its C type; indices and counters stay in their arrays.
TypeOK ==
  /\ umem_frame_addr \in [Slots -> Addrs \cup {INVALID_UMEM_FRAME}]
  /\ umem_frame_free \in 0 .. NUM_FRAMES
  /\ fq \in Seq(Addrs \cup {INVALID_UMEM_FRAME}) /\ fqFree \in 0 .. FqSize
  /\ held \in Seq(Addrs) /\ rx \in Seq(Addrs) /\ rxSeen \in 0 .. RxSize
  /\ rcvd \in 0 .. RxSize /\ done \in 0 .. rcvd
  /\ idle \in 0 .. NTimeouts
  /\ stop_capture \in BOOLEAN /\ stop_pt \in BOOLEAN
  /\ pc \in {"create", "start", "loop", "poll", "peek", "stock", "process", "release",
             "returned", "closed", "abort"}

\* Every frame is in one place: on the stack, in a ring or with the driver, even
\* though it comes back at another address inside the frame than it left with.
FrameOwnedOnce ==
  Capturing =>
    \A f \in Chunks :
      LET At(s) == Cardinality({i \in DOMAIN s : s[i] # INVALID_UMEM_FRAME /\ FrameOf(s[i]) = f})
      IN Cardinality({i \in 0 .. umem_frame_free - 1 : FrameOf(umem_frame_addr[i]) = f})
           + At(fq) + At(held) + At(Waiting) = 1

\* Entries of a ring that are no frame.
Blanks(s) == Cardinality({i \in DOMAIN s : s[i] = INVALID_UMEM_FRAME})

\* Nothing compares the fill ring's room with the stack, so that the ring may get
\* INVALID_UMEM_FRAME; but it never holds more of them than there are frames too few
\* for one in every entry of both rings and in every place of the driver.
BlanksBounded ==
  Blanks(fq) = 0 \/ Blanks(fq) + NUM_FRAMES <= FqSize + RxSize + MaxHeld

\* When there are enough of them the fill ring holds nothing else.
Enough == NUM_FRAMES >= FqSize + RxSize + MaxHeld
OnlyFramesInFq == \A i \in DOMAIN fq : fq[i] # INVALID_UMEM_FRAME

\* The frames on the stack, in the rings and with the driver always add up to the UMEM.
Accounted ==
  Capturing =>
    umem_frame_free + (Len(fq) - Blanks(fq)) + Len(held) + (Len(rx) - done) = NUM_FRAMES

\* The fill ring is stocked only when packets have come: should it hold no frame and none
\* be on its way, no packet could ever come again (lxdpFlow.c 186-213).
NeverStarves == Capturing => Len(fq) > Blanks(fq) \/ held # <<>> \/ Waiting # <<>>

\* A batch never takes all frames (lxdpFlow.c: 4096 frames, batches of 64).
Spare == NUM_FRAMES > RX_BATCH_SIZE

\* The assertion in xsk_free_umem_frame holds.
FreeAssertion == pc # "abort"

\* stop_rx_and_process ends the loop, whatever the traffic.
StopHonoured ==
  ~ stop_capture /\ pc \notin {"create", "start"} ~> pc \in {"returned", "closed"}

\* A dry fill ring with packets waiting is filled up again.
FqRestocked == fq = <<>> /\ rx # <<>> ~> fq # <<>> \/ pc \in {"returned", "closed"}

\* capturaSenial sets stop_pt so that the process thread leaves its loop (dp.c).
StopPtHonoured == stop_pt ~> pc \in {"returned", "closed"}
=============================================================================
