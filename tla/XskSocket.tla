----------------------------- MODULE XskSocket -----------------------------
(***************************************************************************)
(* Creating and deleting a UMEM and the sockets that share it              *)
(* (libbpf/src/xsk.c), where any system call may fail.  A call is one      *)
(* step: it acquires resources in order until the one that fails, and the  *)
(* label the code then jumps to decides what it gives back.                *)
(*                                                                         *)
(* A resource is a pair of its kind and its owner: the memory of an        *)
(* object, a descriptor, a mapped ring.                                    *)
(***************************************************************************)
EXTENDS Naturals, FiniteSets, SequencesExt

CONSTANTS
  Socks,            \* sockets of the process
  Inhibit,          \* those with XSK_LIBBPF_FLAGS__INHIBIT_PROG_LOAD
  MaxNoFd           \* bound: failures of socket() for a second socket

SocksAssumption ==
  IsFiniteSet(Socks) /\ "umem" \notin Socks /\ Inhibit \subseteq Socks /\ MaxNoFd \in Nat

Umem == "umem"

VARIABLES
  live,             \* resources that are held
  refcount,         \* of the UMEM
  open,             \* sockets that exist
  fdOf,             \* fdOf[s]: whose descriptor socket s uses, its own or the UMEM's
  rings,            \* descriptors whose rings the kernel has set up
  inMap,            \* sockets in their xsks_map
  attached,         \* is a program on the interface?
  excused,          \* resources that the code is known to lose
  noFd              \* failures of socket() since the UMEM was created

vars == <<live, refcount, open, fdOf, rings, inMap, attached, excused, noFd>>

Init ==
  /\ live = {} /\ refcount = 0 /\ open = {} /\ fdOf = [s \in Socks |-> s]
  /\ rings = {} /\ inMap = {} /\ attached \in BOOLEAN /\ excused = {} /\ noFd = 0

Exists == <<"mem", Umem>> \in live

Of(kinds, owner) == {<<k, owner>> : k \in kinds}

\* What the first n steps of a call acquire.  A step is a pair: what it acquires, and
\* the set of kinds given back at the label it jumps to when it fails.
Acquired(steps, n) == {steps[i][1] : i \in 1 .. n} \ {"nothing"}
LeftBehind(steps, n) == Acquired(steps, n - 1) \ steps[n][2]
-----------------------------------------------------------------------------
(***************************************************************************)
(* xsk_umem__create.  At out_mmap the variable map holds MAP_FAILED, so    *)
(* that the mapping of the fill ring is not undone.                        *)
(***************************************************************************)
out_umem_alloc == {"mem"}
out_socket == out_umem_alloc \cup {"fd"}
out_mmap == out_socket

UmemSteps ==
  <<<<"mem", {}>>,                                  \* calloc
    <<"fd", out_umem_alloc>>,                       \* socket
    <<"nothing", out_socket>>,                      \* XDP_UMEM_REG, the two rings, the offsets
    <<"fill", out_socket>>,                         \* mmap
    <<"comp", out_mmap>>>>

xsk_umem__create ==
  /\ ~ Exists
  /\ live' = live \cup Of(Acquired(UmemSteps, Len(UmemSteps)), Umem)
  /\ refcount' = 0 /\ noFd' = 0
  /\ rings' = rings \ {Umem}                        \* a new descriptor
  /\ UNCHANGED <<open, fdOf, inMap, attached, excused>>

xsk_umem__create_fails(n) ==
  /\ ~ Exists /\ n \in DOMAIN UmemSteps
  /\ live' = live \cup Of(LeftBehind(UmemSteps, n), Umem)
  /\ excused' = excused \cup (IF UmemSteps[n][1] = "comp" THEN Of({"fill"}, Umem) ELSE {})
  /\ UNCHANGED <<refcount, open, fdOf, rings, inMap, attached, noFd>>

NotInUse == refcount = 0

\* A failing getsockopt leaves the mappings; a UMEM in use is left alone (-EBUSY).
xsk_umem__delete(offsets) ==
  /\ Exists /\ NotInUse
  /\ live' = live \ Of({"mem", "fd"} \cup (IF offsets THEN {"fill", "comp"} ELSE {}), Umem)
  /\ excused' = excused \cup (IF offsets THEN {} ELSE Of({"fill", "comp"}, Umem))
  /\ UNCHANGED <<refcount, open, fdOf, rings, inMap, attached, noFd>>
-----------------------------------------------------------------------------
(***************************************************************************)
(* xsk_socket__create.  The first socket borrows the UMEM's descriptor.    *)
(***************************************************************************)
Refused(s) == refcount > 0 /\ s \notin Inhibit     \* shared umems need INHIBIT_PROG_LOAD

FdFor(s) == IF refcount > 0 THEN s ELSE Umem

\* Steps behind the descriptor: if_nametoindex, XDP_RX_RING and XDP_TX_RING, offsets,
\* the mappings, bind, and for sockets that load a program the steps of
\* xsk_setup_xdp_prog, which undo themselves.
out_xsk_alloc == {"mem"}
out_rx == out_xsk_alloc \cup {"rx"}
BugForgetsTx == out_rx
out_tx == out_rx \cup {"tx"}
SockSteps(s) ==
  <<<<"mem", {}>>,
    <<"nothing", out_xsk_alloc>>,                   \* if_nametoindex
    <<"nothing", out_xsk_alloc>>,                   \* XDP_RX_RING, XDP_TX_RING, offsets
    <<"rx", out_xsk_alloc>>,
    <<"tx", out_rx>>,
    <<"nothing", out_tx>>>>                         \* bind
  \o IF s \in Inhibit THEN <<>>
     ELSE IF attached THEN <<<<"progfd", out_tx>>,
                             <<"mapfd", out_tx \cup {"progfd"}>>,            \* xsk_lookup_bpf_maps
                             <<"nothing", out_tx \cup {"progfd", "mapfd"}>>>>  \* xsk_set_bpf_maps
     ELSE <<<<"mapfd", out_tx>>,                                            \* xsk_create_bpf_maps
            <<"progfd", out_tx \cup {"mapfd"}>>,                            \* xsk_load_xdp_prog
            <<"nothing", out_tx \cup {"progfd", "mapfd"}>>>>

RINGS == 3          \* the step that sets the rings up
Loads(s, n) == s \notin Inhibit /\ ~ attached /\ n > Len(SockSteps(s)) - 1

\* The kernel refuses to set up the rings of a descriptor twice.
CanSetRings(s) == FdFor(s) \notin rings

xsk_socket__create(s) ==
  /\ Exists /\ s \notin open /\ ~ Refused(s) /\ CanSetRings(s)
  /\ refcount' = refcount + 1
  /\ fdOf' = [fdOf EXCEPT ![s] = FdFor(s)]
  /\ live' = live \cup Of(Acquired(SockSteps(s), Len(SockSteps(s))) \cup {k \in {"fd"} : FdFor(s) = s}, s)
  /\ open' = open \cup {s}
  /\ rings' = rings \cup {FdFor(s)}
  /\ inMap' = IF s \in Inhibit THEN inMap ELSE inMap \cup {s}
  /\ attached' = (attached \/ s \notin Inhibit)
  /\ UNCHANGED <<excused, noFd>>

\* The descriptor itself fails: the count has gone up and does not come down.
xsk_socket__create_no_fd(s) ==
  /\ Exists /\ s \notin open /\ ~ Refused(s)
  /\ FdFor(s) = s /\ noFd < MaxNoFd
  /\ refcount' = refcount + 1 /\ noFd' = noFd + 1
  /\ UNCHANGED <<live, open, fdOf, rings, inMap, attached, excused>>

\* A later step fails; out_socket closes the descriptor unless it is the UMEM's.
Closed(s) == IF FdFor(s) = s THEN Of({"fd"}, s) ELSE {}
CountAfterFailure == refcount
xsk_socket__create_fails(s, n) ==
  /\ Exists /\ s \notin open /\ ~ Refused(s)
  /\ n \in DOMAIN SockSteps(s) /\ (n > RINGS => CanSetRings(s))
  /\ live' = (live \cup Of(LeftBehind(SockSteps(s), n), s)) \ Closed(s)
  /\ rings' = IF n > RINGS /\ FdFor(s) = Umem THEN rings \cup {Umem} ELSE rings
  /\ attached' = (attached \/ Loads(s, n))         \* xsk_set_bpf_maps failed
  /\ refcount' = CountAfterFailure
  /\ UNCHANGED <<open, fdOf, inMap, excused, noFd>>

OutOfMap(s) == inMap \ {s}
xsk_socket__delete(s, offsets) ==
  /\ s \in open
  /\ open' = open \ {s} /\ inMap' = OutOfMap(s)
  /\ refcount' = refcount - 1
  /\ live' = live \ Of({"mem", "fd", "progfd", "mapfd"} \cup (IF offsets THEN {"rx", "tx"} ELSE {}), s)
  /\ rings' = IF fdOf[s] = s THEN rings \ {s} ELSE rings
  /\ excused' = excused \cup (IF offsets THEN {} ELSE Of({"rx", "tx"}, s))
  /\ UNCHANGED <<fdOf, attached, noFd>>

Next ==
  \/ xsk_umem__create
  \/ \E n \in 1 .. Len(UmemSteps) : xsk_umem__create_fails(n)
  \/ \E b \in BOOLEAN : xsk_umem__delete(b)
  \/ \E s \in Socks :
       \/ xsk_socket__create(s) \/ xsk_socket__create_no_fd(s)
       \/ \E n \in 1 .. Len(SockSteps(s)) : xsk_socket__create_fails(s, n)
       \/ \E b \in BOOLEAN : xsk_socket__delete(s, b)

Spec == Init /\ [][Next]_vars
-----------------------------------------------------------------------------
Kinds == {"mem", "fd", "fill", "comp", "rx", "tx", "mapfd", "progfd"}

TypeOK ==
  /\ live \subseteq Kinds \X (Socks \cup {Umem}) /\ excused \subseteq Kinds \X (Socks \cup {Umem})
  /\ refcount \in Nat /\ noFd \in 0 .. MaxNoFd /\ open \subseteq Socks /\ inMap \subseteq open
  /\ fdOf \in [Socks -> Socks \cup {Umem}] /\ rings \subseteq Socks \cup {Umem}

\* As long as a socket is open, the UMEM that it points to and the descriptor that it
\* uses are there, its own or the UMEM's, whatever failed before and in whatever order
\* the sockets that share the UMEM come and go.
SocketUsable ==
  \A s \in open :
    /\ Exists /\ <<"fd", fdOf[s]>> \in live
    /\ Of({"mem", "rx", "tx"}, s) \subseteq live

\* A call that fails gives back all that it took, and so does deleting; known losses are
\* the fill ring's mapping when the completion ring's fails, and the mappings of what is
\* deleted while getsockopt fails.
NothingLost ==
  \A r \in live : \/ r[2] = Umem /\ Exists
                  \/ r[2] \in open
                  \/ r \in excused

\* The reference count is the number of open sockets, plus one for every time that a
\* second socket got no descriptor.
CountsSockets == Exists => refcount = Cardinality(open) + noFd

\* xsk_umem__delete answers -EBUSY only while the UMEM is in use.
BusyOnlyIfUsed == Exists /\ open = {} => NotInUse
=============================================================================
