---------------------------- MODULE KernelProofs ----------------------------
(***************************************************************************)
(* Proofs about the parts that talk to the kernel, for every value of the  *)
(* constants of MCKernel: nothing that is taken from the kernel is lost    *)
(* (AF_XDP sockets, netlink sockets, hooks of probes, perf buffers),       *)
(* processes that share an interface keep out of each other's way, and the *)
(* program of the scenarios serves its port as its options say.            *)
(*                                                                         *)
(* Each part has an invariant of its own: ProbeInv, NetlinkInv, XskInv,    *)
(* HeldAt of PerfBuffer, LinkInv, ScenarioInv and OptionInv; a part leaves *)
(* the others alone.                                                       *)
(***************************************************************************)
EXTENDS MCKernel, FiniteSetTheorems, WellFoundedInduction, TLAPS
-----------------------------------------------------------------------------
(***************************************************************************)
(* ProbeLink.  Between two calls OneOwner and LinkFires say all; while a   *)
(* call is under way the hook it has opened, or was given, belongs to it   *)
(* besides.                                                                *)
(***************************************************************************)
\* The call has a hook: the caller's if it was given one, else one that only it knows of.
CallHas(e) ==
  /\ pfd = e /\ e \in probe_open /\ e \notin links
  /\ kind = "perf_event" <=> e \in caller
  /\ probe_open = links \cup caller \cup {e}

\* The invariant: who owns the open hooks at each point of a call.
ProbeInv ==
  /\ Probe!OneOwner /\ Probe!LinkFires
  /\ set \subseteq probe_open
  /\ probe_pc \in {"fd", "set", "enable"} => CallHas(pfd)
  /\ probe_pc = "enable" => pfd \in set
  /\ probe_pc \in {"type", "bit", "open", "raw"} =>
       kind # "perf_event" /\ probe_open = links \cup caller
  /\ probe_pc \in {"idle", "type", "bit", "open", "raw", "fd", "set", "enable"}

\* No hook is open at first.
LEMMA ProbeInvInit == Probe!Init => ProbeInv
  BY DEF Probe!Init, ProbeInv, Probe!OneOwner, Probe!LinkFires

\* Every call of the application, and every system call of an attach or its failure, keeps
\* the owners of the hooks apart.
LEMMA ProbeInvStep == ProbeInv /\ [Probe!Next]_(Probe!vars) => ProbeInv'
<1> SUFFICES ASSUME ProbeInv, [Probe!Next]_(Probe!vars) PROVE ProbeInv'
  OBVIOUS
<1> USE DEF ProbeInv, CallHas, Probe!OneOwner, Probe!LinkFires, Probe!call, Probe!hooks,
            Probe!Free, Probe!Return
<1>1. CASE UNCHANGED Probe!vars
  BY <1>1 DEF Probe!vars
<1>2. CASE Probe!Reload \/ Probe!CallerOpens \/ Probe!CallerCloses
  BY <1>2 DEF Probe!Reload, Probe!CallerOpens, Probe!CallerCloses
<1>3. ASSUME NEW a \in Probe!Kinds, NEW r \in BOOLEAN, Probe!Attach(a, r) PROVE ProbeInv'
  <2>1. CASE a = "perf_event"
    BY <1>3, <2>1 DEF Probe!Attach
  <2>2. CASE a # "perf_event"
    <3>1. probe_pc' \in {"type", "raw"} /\ kind' # "perf_event" /\ UNCHANGED Probe!hooks
      BY <1>3, <2>2 DEF Probe!Attach, Probe!Kinds
    <3> QED
      BY <1>3, <3>1 DEF Probe!Attach
  <2> QED
    BY <2>1, <2>2
<1>4. CASE Probe!parse_uint_from_file \/ Probe!ParseFails \/ Probe!OpenFails
  BY <1>4 DEF Probe!parse_uint_from_file, Probe!ParseFails, Probe!OpenFails, Probe!AfterType
<1>5. CASE Probe!perf_event_open
  BY <1>5 DEF Probe!perf_event_open
<1>6. CASE Probe!HasFd \/ Probe!SetBpf \/ Probe!Enable
  BY <1>6 DEF Probe!HasFd, Probe!SetBpf, Probe!Enable
<1>7. CASE Probe!AttachFails
  BY <1>7 DEF Probe!AttachFails, Probe!Closes
<1>8. CASE Probe!RawOpen \/ Probe!RawFails \/ Probe!bpf_link__destroy
  BY <1>8 DEF Probe!RawOpen, Probe!RawFails, Probe!bpf_link__destroy
<1> QED
  BY <1>1, <1>2, <1>3, <1>4, <1>5, <1>6, <1>7, <1>8 DEF Probe!Next
-----------------------------------------------------------------------------
(***************************************************************************)
(* Netlink.  The socket is open from a call's first step to its return,    *)
(* and the kernel works on a request only while the client waits for it.   *)
(***************************************************************************)
NetlinkInv ==
  /\ nl_pc = "idle" => ~ sock /\ inbox = <<>>
  /\ nl_pc # "recv" => asked = "nothing"

\* There is no socket at first.
LEMMA NetlinkInvInit == Netlinks!Init => NetlinkInv
  BY DEF Netlinks!Init, NetlinkInv

\* Every return of a call, after a failure or not, closes the socket.
LEMMA NetlinkInvStep == NetlinkInv /\ [Netlinks!Next]_(Netlinks!vars) => NetlinkInv'
<1> SUFFICES ASSUME NetlinkInv, [Netlinks!Next]_(Netlinks!vars) PROVE NetlinkInv'
  OBVIOUS
<1> USE DEF NetlinkInv, Netlinks!kernel, Netlinks!client, Netlinks!bounds, Netlinks!Return,
            Netlinks!Abandon
<1>1. CASE UNCHANGED Netlinks!vars
  BY <1>1 DEF Netlinks!vars
<1>2. CASE Netlinks!Calls
  <2>1. nl_pc = "idle" /\ Netlinks!libbpf_netlink_open
    BY <1>2 DEF Netlinks!Calls, Netlinks!Begin, Netlinks!bpf_get_link_xdp_info,
       Netlinks!bpf_set_link_xdp_fd, Netlinks!libbpf_nl_get_class, Netlinks!libbpf_nl_get_qdisc,
       Netlinks!libbpf_nl_get_filter
  <2> QED
    BY <2>1 DEF Netlinks!libbpf_netlink_open, Netlinks!Opened
<1>3. CASE Netlinks!send
  BY <1>3 DEF Netlinks!send
<1>4. CASE Netlinks!recv \/ Netlinks!recvFails \/ Netlinks!LastPart
  BY <1>4 DEF Netlinks!recv, Netlinks!recvFails, Netlinks!LastPart
<1>5. CASE Netlinks!bpf_netlink_recv
  <2>1. nl_pc = "recv"
    BY <1>5 DEF Netlinks!bpf_netlink_recv
  <2>2. \/ nl_pc' = nl_pc
        \/ (nl_pc' = "idle" /\ sock' = FALSE /\ inbox' = <<>> /\ asked' = "nothing")
    BY <1>5 DEF Netlinks!bpf_netlink_recv, Netlinks!NextMessage
  <2> QED
    BY <2>1, <2>2
<1>6. CASE Netlinks!KernelDumps \/ Netlinks!KernelSets
  <2>1. asked # "nothing" /\ UNCHANGED nl_pc
    BY <1>6 DEF Netlinks!KernelDumps, Netlinks!KernelSets, Netlinks!Dumps
  <2> QED
    BY <2>1
<1>7. CASE Netlinks!Stray
  BY <1>7 DEF Netlinks!Stray
<1>8. ASSUME NEW l \in Links, Netlinks!Change(l) PROVE NetlinkInv'
  BY <1>8 DEF Netlinks!Change
<1> QED
  BY <1>1, <1>2, <1>3, <1>4, <1>5, <1>6, <1>7, <1>8 DEF Netlinks!Next, Netlinks!Client
-----------------------------------------------------------------------------
(***************************************************************************)
(* XskSocket.  What is held belongs to the UMEM or to an open socket, but  *)
(* for what the code is known to lose (excused).  SockLeft and UmemLeft    *)
(* compute what an open that fails at its n-th step leaves behind.         *)
(***************************************************************************)
\* The entries of a sequence of six with three more.
LEMMA ThreeMore ==
  ASSUME NEW a1, NEW a2, NEW a3, NEW a4, NEW a5, NEW a6, NEW b1, NEW b2, NEW b3,
         NEW q, q = <<a1, a2, a3, a4, a5, a6>> \o <<b1, b2, b3>>
  PROVE  /\ Len(q) = 9 /\ DOMAIN q = 1 .. 9
         /\ q[1] = a1 /\ q[2] = a2 /\ q[3] = a3 /\ q[4] = a4 /\ q[5] = a5 /\ q[6] = a6
         /\ q[7] = b1 /\ q[8] = b2 /\ q[9] = b3
  OBVIOUS

\* What a UMEM consists of, and what an xsk_umem__create that fails leaves: the mapping of the
\* fill ring, if that of the completion ring fails.
LEMMA UmemLeft ==
  /\ Len(Xsk!UmemSteps) = 5 /\ DOMAIN Xsk!UmemSteps = 1 .. 5
  /\ \A n \in 1 .. 5 : Xsk!UmemSteps[n][1] = "comp" <=> n = 5
  /\ Xsk!Acquired(Xsk!UmemSteps, 5) = {"mem", "fd", "fill", "comp"}
  /\ \A n \in 1 .. 5 :
       Xsk!LeftBehind(Xsk!UmemSteps, n) = IF n = 5 THEN {"fill"} ELSE {}
  BY DEF Xsk!LeftBehind, Xsk!Acquired, Xsk!UmemSteps, Xsk!out_umem_alloc, Xsk!out_socket,
         Xsk!out_mmap

\* The kinds of things a socket has.
SockKinds == {"mem", "fd", "rx", "tx", "mapfd", "progfd"}

\* An xsk_socket__create that fails leaves nothing behind, whether or not it loads a program
\* and whether or not one was attached; one that succeeds has its memory and both rings.
LEMMA SockLeft ==
  ASSUME NEW s \in Socks, NEW q, q = Xsk!SockSteps(s)
  PROVE  /\ \A n \in DOMAIN q : Xsk!LeftBehind(q, n) = {}
         /\ {"mem", "rx", "tx"} \subseteq Xsk!Acquired(q, Len(q))
         /\ Xsk!Acquired(q, Len(q)) \subseteq SockKinds
<1> USE DEF Xsk!LeftBehind, Xsk!Acquired, Xsk!out_xsk_alloc, Xsk!out_rx, Xsk!out_tx, SockKinds
<1>1. CASE s \in Inhibit
  <2>1. q = <<<<"mem", {}>>, <<"nothing", Xsk!out_xsk_alloc>>, <<"nothing", Xsk!out_xsk_alloc>>,
              <<"rx", Xsk!out_xsk_alloc>>, <<"tx", Xsk!out_rx>>, <<"nothing", Xsk!out_tx>>>>
    BY <1>1 DEF Xsk!SockSteps
  <2>2. Len(q) = 6 /\ DOMAIN q = 1 .. 6
    BY <2>1
  <2>3. q[1][1] = "mem" /\ q[2][1] = "nothing" /\ q[3][1] = "nothing" /\ q[4][1] = "rx" /\
        q[5][1] = "tx" /\ q[6][1] = "nothing"
    BY <2>1
  <2>4. q[1][2] = {} /\ q[2][2] = {"mem"} /\ q[3][2] = {"mem"} /\ q[4][2] = {"mem"} /\
        q[5][2] = {"mem", "rx"} /\ q[6][2] = {"mem", "rx", "tx"}
    BY <2>1
  <2> QED
    BY <2>2, <2>3, <2>4
<1>2. CASE s \notin Inhibit
  <2> DEFINE a == <<<<"mem", {}>>, <<"nothing", Xsk!out_xsk_alloc>>,
                    <<"nothing", Xsk!out_xsk_alloc>>, <<"rx", Xsk!out_xsk_alloc>>,
                    <<"tx", Xsk!out_rx>>, <<"nothing", Xsk!out_tx>>>>
             b(k1, k2) == <<<<k1, Xsk!out_tx>>, <<k2, Xsk!out_tx \cup {k1}>>,
                            <<"nothing", Xsk!out_tx \cup {"progfd", "mapfd"}>>>>
  <2>0. PICK k1 \in {"progfd", "mapfd"}, k2 \in {"progfd", "mapfd"} : q = a \o b(k1, k2)
    <3>1. CASE attached
      <4>1. q = a \o b("progfd", "mapfd")
        BY <1>2, <3>1 DEF Xsk!SockSteps
      <4> HIDE DEF a, b
      <4> QED
        BY <4>1
    <3>2. CASE ~ attached
      <4>1. q = a \o b("mapfd", "progfd")
        BY <1>2, <3>2 DEF Xsk!SockSteps
      <4> HIDE DEF a, b
      <4> QED
        BY <4>1
    <3> QED
      BY <3>1, <3>2
  <2>1. /\ Len(q) = 9 /\ DOMAIN q = 1 .. 9
        /\ q[1] = <<"mem", {}>> /\ q[2] = <<"nothing", Xsk!out_xsk_alloc>>
        /\ q[3] = <<"nothing", Xsk!out_xsk_alloc>> /\ q[4] = <<"rx", Xsk!out_xsk_alloc>>
        /\ q[5] = <<"tx", Xsk!out_rx>> /\ q[6] = <<"nothing", Xsk!out_tx>>
        /\ q[7] = <<k1, Xsk!out_tx>> /\ q[8] = <<k2, Xsk!out_tx \cup {k1}>>
        /\ q[9] = <<"nothing", Xsk!out_tx \cup {"progfd", "mapfd"}>>
    BY <2>0, ThreeMore
  <2>3. q[1][1] = "mem" /\ q[2][1] = "nothing" /\ q[3][1] = "nothing" /\ q[4][1] = "rx" /\
        q[5][1] = "tx" /\ q[6][1] = "nothing" /\
        q[7][1] = k1 /\ q[8][1] = k2 /\ q[9][1] = "nothing"
    BY <2>1
  <2>4. q[1][2] = {} /\ q[2][2] = {"mem"} /\ q[3][2] = {"mem"} /\ q[4][2] = {"mem"} /\
        q[5][2] = {"mem", "rx"} /\ q[6][2] = {"mem", "rx", "tx"} /\ q[7][2] = {"mem", "rx", "tx"}
        /\ q[8][2] = {"mem", "rx", "tx"} \cup {k1}
        /\ q[9][2] = {"mem", "rx", "tx"} \cup {"progfd", "mapfd"}
    BY <2>1
  <2>5. \A n \in 1 .. 6 : Xsk!LeftBehind(q, n) = {}
    BY <2>3, <2>4
  <2>6. Xsk!LeftBehind(q, 7) = {} /\ Xsk!LeftBehind(q, 8) = {}
    BY <2>3, <2>4
  <2>8. Xsk!LeftBehind(q, 9) = {}
    BY <2>3, <2>4, <2>0
  <2>9. /\ {"mem", "rx", "tx"} \subseteq Xsk!Acquired(q, 9)
        /\ Xsk!Acquired(q, 9) \subseteq SockKinds
    BY <2>3, <2>0
  <2>10. DOMAIN q = (1 .. 6) \cup {7, 8, 9}
    BY <2>1
  <2> QED
    BY <2>1, <2>5, <2>6, <2>8, <2>9, <2>10
<1> QED
  BY <1>1, <1>2

\* The kinds of things the UMEM has.
UmemKinds == {"mem", "fd", "fill", "comp"}

\* What is held is of a kind that its owner has, and whoever does not exist any more has only
\* what the code is known to lose.
HeldBy ==
  \A kd \in Xsk!Kinds, o \in Socks \cup {Xsk!Umem} :
    <<kd, o>> \in live =>
      /\ o = Xsk!Umem => kd \in UmemKinds /\ (Xsk!Exists \/ <<kd, o>> \in excused)
      /\ o # Xsk!Umem => kd \in SockKinds /\ (o \in xsk_open \/ <<kd, o>> \in excused)

\* The descriptor of an open socket is its own or the UMEM's, and it is open; so are the rings.
OpenHas ==
  /\ Xsk!Exists => <<"fd", Xsk!Umem>> \in live
  /\ ~ Xsk!Exists => xsk_open = {}
  /\ \A s \in xsk_open :
       /\ fdOf[s] \in {s, Xsk!Umem} /\ (fdOf[s] = s => <<"fd", s>> \in live)
       /\ <<"mem", s>> \in live /\ <<"rx", s>> \in live /\ <<"tx", s>> \in live

\* The invariant.
XskInv == Xsk!TypeOK /\ HeldBy /\ OpenHas /\ Xsk!CountsSockets

\* There is neither a UMEM nor a socket at first.
LEMMA XskInvInit == Xsk!Init => XskInv
<1> SUFFICES ASSUME Xsk!Init PROVE XskInv
  OBVIOUS
<1>1. Xsk!TypeOK
  BY KernelAssumption DEF Xsk!SocksAssumption, Xsk!Init, Xsk!TypeOK
<1>2. HeldBy /\ OpenHas /\ Xsk!CountsSockets
  BY DEF Xsk!Init, HeldBy, OpenHas, Xsk!CountsSockets, Xsk!Exists
<1> QED
  BY <1>1, <1>2 DEF XskInv

\* A pair of Of.
LEMMA OfIs ==
  ASSUME NEW ks, NEW o
  PROVE  \A kd, p : <<kd, p>> \in Xsk!Of(ks, o) <=> kd \in ks /\ p = o
  BY DEF Xsk!Of

\* What the module of the sockets takes for finite is finite.
LEMMA SameFinite == ASSUME NEW S PROVE Xsk!IsFiniteSet(S) <=> IsFiniteSet(S)
  BY DEF Xsk!IsFiniteSet, IsFiniteSet

\* And a cardinality there is the cardinality here.
LEMMA SameCardinality == ASSUME NEW S PROVE Xsk!Cardinality(S) = Cardinality(S)
  BY DEF Xsk!Cardinality, Cardinality

\* Opening or closing a socket changes their number by one.
LEMMA CountOne ==
  ASSUME Xsk!TypeOK, NEW s \in Socks
  PROVE  /\ Xsk!Cardinality(xsk_open) \in Nat
         /\ s \notin xsk_open =>
              Xsk!Cardinality(xsk_open \cup {s}) = Xsk!Cardinality(xsk_open) + 1
         /\ s \in xsk_open =>
              /\ Xsk!Cardinality(xsk_open) > 0
              /\ Xsk!Cardinality(xsk_open \ {s}) = Xsk!Cardinality(xsk_open) - 1
<1>1. IsFiniteSet(xsk_open)
  BY KernelAssumption, FS_Subset, SameFinite DEF Xsk!SocksAssumption, Xsk!TypeOK
<1>2. Cardinality(xsk_open) \in Nat
  BY <1>1, FS_CardinalityType
<1>3. s \in xsk_open => Cardinality(xsk_open) > 0
  BY <1>1, <1>2, FS_EmptySet
<1>4. s \notin xsk_open => Cardinality(xsk_open \cup {s}) = Cardinality(xsk_open) + 1
  BY <1>1, FS_AddElement
<1>5. s \in xsk_open => Cardinality(xsk_open \ {s}) = Cardinality(xsk_open) - 1
  BY <1>1, FS_RemoveElement
<1> QED
  BY <1>2, <1>3, <1>4, <1>5, SameCardinality

\* A UMEM that is not in use is that of no socket.
LEMMA UnusedHasNone ==
  ASSUME XskInv, Xsk!Exists, refcount = 0
  PROVE  xsk_open = {}
<1> SUFFICES ASSUME NEW s \in xsk_open PROVE FALSE
  OBVIOUS
<1>1. Xsk!Cardinality(xsk_open) > 0 /\ Xsk!Cardinality(xsk_open) \in Nat
  BY CountOne DEF XskInv, Xsk!TypeOK
<1>2. noFd \in Nat
  BY DEF XskInv, Xsk!TypeOK
<1> QED
  BY <1>1, <1>2 DEF XskInv, Xsk!CountsSockets

\* No socket is the UMEM.
LEMMA UmemIsNone == Xsk!Umem \notin Socks /\ Inhibit \subseteq Socks
  BY KernelAssumption DEF Xsk!SocksAssumption, Xsk!Umem

\* Every call of the application, at whichever of its steps it fails, keeps the invariant.
LEMMA XskInvStep == XskInv /\ [Xsk!Next]_(Xsk!vars) => XskInv'
<1> SUFFICES ASSUME XskInv, [Xsk!Next]_(Xsk!vars) PROVE XskInv'
  OBVIOUS
<1> USE UmemIsNone
<1>1. CASE UNCHANGED Xsk!vars
  BY <1>1 DEF Xsk!vars, XskInv, HeldBy, OpenHas, Xsk!TypeOK, Xsk!CountsSockets, Xsk!Exists
<1>2. CASE Xsk!xsk_umem__create
  <2>1. ~ Xsk!Exists /\ xsk_open = {} /\ refcount' = 0 /\ noFd' = 0
        /\ rings' = rings \ {Xsk!Umem}
        /\ UNCHANGED <<xsk_open, fdOf, inMap, attached, excused>>
    BY <1>2 DEF Xsk!xsk_umem__create, XskInv, OpenHas
  <2>2. \A kd, o : <<kd, o>> \in live' <=>
                     <<kd, o>> \in live \/ (kd \in UmemKinds /\ o = Xsk!Umem)
    <3>1. live' = live \cup Xsk!Of(UmemKinds, Xsk!Umem)
      BY <1>2, UmemLeft DEF Xsk!xsk_umem__create, UmemKinds
    <3> QED
      BY <3>1, OfIs
  <2>3. live' \subseteq Xsk!Kinds \X (Socks \cup {Xsk!Umem})
    BY <1>2, UmemLeft DEF Xsk!xsk_umem__create, Xsk!Of, XskInv, Xsk!TypeOK, Xsk!Kinds
  <2>4. Xsk!TypeOK'
    BY <2>1, <2>3, KernelAssumption DEF XskInv, Xsk!TypeOK, Xsk!SocksAssumption
  <2>5. Xsk!Exists'
    BY <2>2 DEF Xsk!Exists, UmemKinds
  <2>6. HeldBy'
    BY <2>1, <2>2, <2>5 DEF XskInv, HeldBy
  <2>7. OpenHas'
    BY <2>1, <2>2, <2>5 DEF OpenHas, UmemKinds
  <2>8. Xsk!CountsSockets'
    BY <2>1, FS_EmptySet, SameCardinality DEF Xsk!CountsSockets
  <2> QED
    BY <2>4, <2>6, <2>7, <2>8 DEF XskInv
<1>3. ASSUME NEW n \in 1 .. Len(Xsk!UmemSteps), Xsk!xsk_umem__create_fails(n) PROVE XskInv'
  <2>1. ~ Xsk!Exists /\ xsk_open = {} /\ n \in 1 .. 5
        /\ UNCHANGED <<refcount, xsk_open, fdOf, rings, inMap, attached, noFd>>
    BY <1>3, UmemLeft DEF Xsk!xsk_umem__create_fails, XskInv, OpenHas
  <2>2. /\ live' = live \cup (IF n = 5 THEN {<<"fill", Xsk!Umem>>} ELSE {})
        /\ excused' = excused \cup (IF n = 5 THEN {<<"fill", Xsk!Umem>>} ELSE {})
    BY <1>3, <2>1, UmemLeft DEF Xsk!xsk_umem__create_fails, Xsk!Of
  <2>3. Xsk!TypeOK'
    BY <2>1, <2>2 DEF XskInv, Xsk!TypeOK, Xsk!Kinds
  <2>4. ~ Xsk!Exists'
    BY <2>1, <2>2 DEF Xsk!Exists
  <2>5. HeldBy'
    BY <2>1, <2>2 DEF XskInv, HeldBy, UmemKinds
  <2> QED
    BY <2>1, <2>3, <2>4, <2>5 DEF XskInv, OpenHas, Xsk!CountsSockets
<1>4. ASSUME NEW b \in BOOLEAN, Xsk!xsk_umem__delete(b) PROVE XskInv'
  <2>1. /\ Xsk!Exists /\ xsk_open = {}
        /\ UNCHANGED <<refcount, xsk_open, fdOf, rings, inMap, attached, noFd>>
    BY <1>4, UnusedHasNone DEF Xsk!xsk_umem__delete, Xsk!NotInUse
  <2>2. live' \subseteq live /\ excused \subseteq excused'
    BY <1>4 DEF Xsk!xsk_umem__delete
  <2>3. \A kd \in UmemKinds : <<kd, Xsk!Umem>> \in live' => <<kd, Xsk!Umem>> \in excused'
    BY <1>4, OfIs DEF Xsk!xsk_umem__delete, UmemKinds
  <2>4. excused' \subseteq Xsk!Kinds \X (Socks \cup {Xsk!Umem})
    BY <1>4 DEF Xsk!xsk_umem__delete, XskInv, Xsk!TypeOK, Xsk!Of, Xsk!Kinds
  <2>5. Xsk!TypeOK'
    BY <2>1, <2>2, <2>4 DEF XskInv, Xsk!TypeOK
  <2>6. ~ Xsk!Exists'
    BY <1>4, OfIs DEF Xsk!xsk_umem__delete, Xsk!Exists
  <2>7. HeldBy'
    BY <2>1, <2>2, <2>3 DEF XskInv, HeldBy
  <2> QED
    BY <2>1, <2>5, <2>6, <2>7 DEF XskInv, OpenHas, Xsk!CountsSockets
<1>5. ASSUME NEW s \in Socks, Xsk!xsk_socket__create(s) PROVE XskInv'
  <2>1. /\ Xsk!Exists /\ s \notin xsk_open /\ s # Xsk!Umem
        /\ refcount' = refcount + 1 /\ fdOf' = [fdOf EXCEPT ![s] = Xsk!FdFor(s)]
        /\ xsk_open' = xsk_open \cup {s} /\ rings' = rings \cup {Xsk!FdFor(s)}
        /\ inMap' \subseteq xsk_open' /\ UNCHANGED <<excused, noFd>>
        /\ Xsk!FdFor(s) \in {s, Xsk!Umem}
    BY <1>5 DEF Xsk!xsk_socket__create, Xsk!FdFor, XskInv, Xsk!TypeOK
  <2>2. PICK ks : /\ live' = live \cup Xsk!Of(ks, s)
                  /\ {"mem", "rx", "tx"} \subseteq ks /\ ks \subseteq SockKinds
                  /\ Xsk!FdFor(s) = s => "fd" \in ks
    BY <1>5, SockLeft DEF Xsk!xsk_socket__create, SockKinds
  <2>3. \A kd, o : <<kd, o>> \in live' <=> <<kd, o>> \in live \/ (kd \in ks /\ o = s)
    BY <2>2, OfIs
  <2>4. live' \subseteq Xsk!Kinds \X (Socks \cup {Xsk!Umem})
    BY <2>2 DEF XskInv, Xsk!TypeOK, Xsk!Of, Xsk!Kinds, SockKinds
  <2>5. Xsk!TypeOK'
    BY <2>1, <2>4 DEF XskInv, Xsk!TypeOK
  <2>6. Xsk!Exists'
    BY <2>1, <2>2 DEF Xsk!Exists
  <2>7. HeldBy'
    BY <2>1, <2>2, <2>3, <2>6 DEF XskInv, HeldBy
  <2>8. OpenHas'
    BY <2>1, <2>2, <2>3, <2>6 DEF XskInv, OpenHas, Xsk!TypeOK
  <2>9. Xsk!CountsSockets'
    BY <2>1, CountOne DEF XskInv, Xsk!CountsSockets, Xsk!TypeOK
  <2> QED
    BY <2>5, <2>7, <2>8, <2>9 DEF XskInv
<1>6. ASSUME NEW s \in Socks, Xsk!xsk_socket__create_no_fd(s) PROVE XskInv'
  <2>1. /\ refcount' = refcount + 1 /\ noFd' = noFd + 1 /\ noFd < MaxNoFd /\ Xsk!Exists
        /\ UNCHANGED <<live, xsk_open, fdOf, rings, inMap, attached, excused>>
    BY <1>6 DEF Xsk!xsk_socket__create_no_fd
  <2>2. Xsk!TypeOK'
    BY <2>1, KernelAssumption DEF XskInv, Xsk!TypeOK, Xsk!SocksAssumption
  <2>3. Xsk!CountsSockets'
    <3>1. refcount = Xsk!Cardinality(xsk_open) + noFd /\ noFd \in Nat
      BY <2>1 DEF XskInv, Xsk!CountsSockets, Xsk!TypeOK
    <3>2. Xsk!Cardinality(xsk_open) \in Nat
      BY CountOne DEF XskInv
    <3> QED
      BY <2>1, <3>1, <3>2 DEF Xsk!CountsSockets
  <2> QED
    BY <2>1, <2>2, <2>3 DEF XskInv, HeldBy, OpenHas, Xsk!Exists
<1>7. ASSUME NEW s \in Socks, NEW n \in 1 .. Len(Xsk!SockSteps(s)),
             Xsk!xsk_socket__create_fails(s, n)
      PROVE  XskInv'
  <2>1. /\ s \notin xsk_open /\ s # Xsk!Umem /\ refcount' = refcount
        /\ rings' \in {rings, rings \cup {Xsk!Umem}}
        /\ UNCHANGED <<xsk_open, fdOf, inMap, excused, noFd>>
    BY <1>7 DEF Xsk!xsk_socket__create_fails, Xsk!CountAfterFailure
  <2>2. Xsk!LeftBehind(Xsk!SockSteps(s), n) = {}
    BY <1>7, SockLeft DEF Xsk!xsk_socket__create_fails
  <2>3. live' = live \/ live' = live \ {<<"fd", s>>}
    BY <1>7, <2>2 DEF Xsk!xsk_socket__create_fails, Xsk!Of, Xsk!Closed
  <2>4. Xsk!TypeOK'
    BY <2>1, <2>3 DEF XskInv, Xsk!TypeOK
  <2>5. Xsk!Exists' <=> Xsk!Exists
    BY <2>3 DEF Xsk!Exists
  <2>6. HeldBy'
    BY <2>1, <2>3, <2>5 DEF XskInv, HeldBy
  <2>7. OpenHas'
    BY <2>1, <2>3, <2>5 DEF XskInv, OpenHas, Xsk!TypeOK
  <2> QED
    BY <2>1, <2>4, <2>5, <2>6, <2>7 DEF XskInv, Xsk!CountsSockets
<1>8. ASSUME NEW s \in Socks, NEW b \in BOOLEAN, Xsk!xsk_socket__delete(s, b) PROVE XskInv'
  <2>1. /\ Xsk!Exists /\ s \in xsk_open /\ s # Xsk!Umem
        /\ xsk_open' = xsk_open \ {s} /\ inMap' = inMap \ {s} /\ refcount' = refcount - 1
        /\ rings' \subseteq rings /\ UNCHANGED <<fdOf, attached, noFd>>
    BY <1>8 DEF Xsk!xsk_socket__delete, Xsk!OutOfMap, XskInv, OpenHas
  <2>2. live' \subseteq live /\ excused \subseteq excused'
    BY <1>8 DEF Xsk!xsk_socket__delete
  <2>3. \A kd, o : o # s /\ <<kd, o>> \in live => <<kd, o>> \in live'
    BY <1>8, OfIs DEF Xsk!xsk_socket__delete
  <2>4. \A kd \in SockKinds : <<kd, s>> \in live' => <<kd, s>> \in excused'
    BY <1>8, OfIs DEF Xsk!xsk_socket__delete, SockKinds
  <2>5. excused' \subseteq Xsk!Kinds \X (Socks \cup {Xsk!Umem})
    BY <1>8 DEF Xsk!xsk_socket__delete, XskInv, Xsk!TypeOK, Xsk!Of, Xsk!Kinds
  <2>6. Xsk!Exists'
    BY <2>1, <2>3 DEF Xsk!Exists
  <2>7. Xsk!CountsSockets' /\ refcount' \in Nat
    <3>1. refcount = Xsk!Cardinality(xsk_open) + noFd /\ noFd \in Nat
      BY <2>1 DEF XskInv, Xsk!CountsSockets, Xsk!TypeOK
    <3>2. /\ Xsk!Cardinality(xsk_open) \in Nat /\ Xsk!Cardinality(xsk_open) > 0
          /\ Xsk!Cardinality(xsk_open \ {s}) = Xsk!Cardinality(xsk_open) - 1
      BY <2>1, CountOne DEF XskInv
    <3> QED
      BY <2>1, <3>1, <3>2 DEF Xsk!CountsSockets
  <2>8. Xsk!TypeOK'
    BY <2>1, <2>2, <2>5, <2>7 DEF XskInv, Xsk!TypeOK
  <2>9. HeldBy'
    BY <2>1, <2>2, <2>4, <2>6 DEF XskInv, HeldBy
  <2>10. OpenHas'
    BY <2>1, <2>3, <2>6 DEF XskInv, OpenHas, Xsk!TypeOK
  <2> QED
    BY <2>7, <2>8, <2>9, <2>10 DEF XskInv
<1> QED
  BY <1>1, <1>2, <1>3, <1>4, <1>5, <1>6, <1>7, <1>8 DEF Xsk!Next

\* What the invariant says of the sockets.
LEMMA XskInvEnough ==
  XskInv => Xsk!TypeOK /\ Xsk!SocketUsable /\ Xsk!NothingLost /\ Xsk!CountsSockets
<1> SUFFICES ASSUME XskInv PROVE Xsk!SocketUsable /\ Xsk!NothingLost
  BY DEF XskInv
<1>1. Xsk!SocketUsable
  BY DEF XskInv, OpenHas, Xsk!SocketUsable, Xsk!Of
<1>2. Xsk!NothingLost
  <2> SUFFICES ASSUME NEW r \in live
      PROVE  (r[2] = Xsk!Umem /\ Xsk!Exists) \/ r[2] \in xsk_open \/ r \in excused
    BY DEF Xsk!NothingLost
  <2>1. PICK kd \in Xsk!Kinds, o \in Socks \cup {Xsk!Umem} : r = <<kd, o>>
    BY DEF XskInv, Xsk!TypeOK
  <2> QED
    BY <2>1 DEF XskInv, HeldBy
<1> QED
  BY <1>1, <1>2
-----------------------------------------------------------------------------
\* What is taken from the kernel is given back, once, for any number of sockets that share a
\* UMEM, of hooks, links and calls, whichever system call fails: open sockets stay usable and
\* the UMEM counts them, a hook has one owner, no netlink call leaves a socket and neither perf
\* buffer of the suite a descriptor, a mapping or a map element (PerfBufferGivesBack has any
\* number of CPUs).
THEOREM KernelResourcesGivenBack == Spec => []ResourcesGivenBack
<1> DEFINE I == /\ part = "xsk" => XskInv
                /\ part = "probe" => ProbeInv
                /\ part = "netlink" => NetlinkInv
                /\ part = "perf_ring" => PerfRing!HeldAt
                /\ part = "perf_cpus" => PerfCpus!HeldAt
<1>0. PerfRing!PerfBufferAssumption /\ PerfCpus!PerfBufferAssumption
  BY KernelAssumption
<1>1. Init => I
  BY XskInvInit, ProbeInvInit, NetlinkInvInit, PerfRing!HeldAtInit, PerfCpus!HeldAtInit DEF Init
<1>2. I /\ [Next]_vars => I'
  <2> SUFFICES ASSUME I, [Next]_vars PROVE I'
    OBVIOUS
  <2>1. CASE part' = "xsk"
    <3>1. part = "xsk" /\ [Xsk!Next]_(Xsk!vars)
      BY <2>1 DEF Next, Step, MayStop, vars, xskVars, Xsk!vars
    <3> QED
      BY <2>1, <3>1, XskInvStep
  <2>2. CASE part' = "probe"
    <3>1. part = "probe" /\ [Probe!Next]_(Probe!vars)
      BY <2>2 DEF Next, Step, MayStop, vars, probeVars, Probe!vars, Probe!call, Probe!hooks
    <3> QED
      BY <2>2, <3>1, ProbeInvStep
  <2>3. CASE part' = "netlink"
    <3>1. part = "netlink" /\ [Netlinks!Next]_(Netlinks!vars)
      BY <2>3 DEF Next, Step, MayStop, vars, netlinkVars, Netlinks!vars, Netlinks!kernel,
         Netlinks!client, Netlinks!bounds
    <3> QED
      BY <2>3, <3>1, NetlinkInvStep
  <2>4. CASE part' = "perf_ring"
    <3>1. part = "perf_ring" /\ [PerfRing!Next]_(PerfRing!vars)
      BY <2>4 DEF Next, Step, MayStop, vars, perfVars, PerfRing!vars, PerfRing!setup,
         PerfRing!kernel, PerfRing!reader
    <3> QED
      BY <1>0, <2>4, <3>1, PerfRing!HeldAtStep
  <2>5. CASE part' = "perf_cpus"
    <3>1. part = "perf_cpus" /\ [PerfCpus!Next]_(PerfCpus!vars)
      BY <2>5 DEF Next, Step, MayStop, vars, perfVars, PerfCpus!vars, PerfCpus!setup,
         PerfCpus!kernel, PerfCpus!reader
    <3> QED
      BY <1>0, <2>5, <3>1, PerfCpus!HeldAtStep
  <2> QED
    BY <2>1, <2>2, <2>3, <2>4, <2>5
<1>3. I => ResourcesGivenBack
  <2>1. ProbeInv => Probe!OneOwner /\ Probe!LinkFires
    BY DEF ProbeInv
  <2>2. NetlinkInv => Netlinks!SocketClosed
    BY DEF NetlinkInv, Netlinks!SocketClosed
  <2> QED
    BY <2>1, <2>2, XskInvEnough, PerfRing!HeldAtEnough, PerfCpus!HeldAtEnough
    DEF ResourcesGivenBack
<1> QED
  BY <1>1, <1>2, <1>3, PTL DEF Spec
-----------------------------------------------------------------------------
(***************************************************************************)
(* XdpLink.  A step of a process is first reduced to one of four things it *)
(* can do to the hook (LinkStepDoes).  What a process has been told of the *)
(* hook is stale when it acts on it; that its socket is all the same with  *)
(* its own program is inductive with OwnSlot, as the removal looks at the  *)
(* slot of its mode, and with OneProgram, as the kernel tells of one only. *)
(***************************************************************************)
\* A process puts its programs where its mode says, and nowhere else.
OwnSlot ==
  \A p \in Procs, m \in Link!Slots :
    hook[m] \in Link!ProgramsOf(p) => m = Link!Slot(link_cfg[p].mode)

\* There is at most one program on the interface ...
OneProgram == \E m \in Link!Slots : hook[m] = Link!None

\* ... in native mode only where the driver has it, so that only there one can be in the way.
DriverHas ==
  /\ hook["drv"] # Link!None => Native
  /\ \A p \in Procs : link_pc[p] \in {"unloadOther", "again"} => Native

\* The one a process has been told of is its own, if that is there.
Told == \A p \in Procs : link_pc[p] = "lookup" =>
          \A g \in Link!ProgramsOf(p) : Link!Attached(g) => seen[p] = g

\* The invariant.
LinkInv ==
  /\ Link!TypeOK /\ OwnSlot /\ OneProgram /\ DriverHas /\ Told
  /\ Link!RetryClears /\ Link!OwnServes /\ Link!CleanExit

\* The slot of a mode.
LEMMA SlotOf ==
  ASSUME NEW mode \in Link!Modes
  PROVE  /\ Link!Slot(mode) \in Link!Slots /\ Link!OtherSlot(Link!Slot(mode)) \in Link!Slots
         /\ Link!OtherSlot(Link!Slot(mode)) # Link!Slot(mode)
         /\ \A m \in Link!Slots : m = Link!Slot(mode) \/ m = Link!OtherSlot(Link!Slot(mode))
<1>1. Link!Slot(mode) \in Link!Slots
  <2>1. CASE mode = "auto"
    BY <2>1 DEF Link!Slot, Link!Slots
  <2>2. CASE mode # "auto"
    BY <2>2 DEF Link!Slot, Link!Slots, Link!Modes
  <2> QED
    BY <2>1, <2>2
<1> QED
  BY <1>1 DEF Link!OtherSlot, Link!Slots

\* Where a driver has native mode, the code's opposite mode is that of the other slot.
LEMMA SlotOfOpposite ==
  ASSUME Native, NEW mode \in Link!Modes
  PROVE  Link!Slot(Link!Opposite(mode)) = Link!OtherSlot(Link!Slot(mode))
<1>1. CASE mode = "auto"
  BY <1>1 DEF Link!Slot, Link!Opposite, Link!OtherSlot
<1>2. CASE mode = "skb"
  BY <1>2 DEF Link!Slot, Link!Opposite, Link!OtherSlot
<1>3. CASE mode = "drv"
  BY <1>3 DEF Link!Slot, Link!Opposite, Link!OtherSlot
<1> QED
  BY <1>1, <1>2, <1>3 DEF Link!Modes

\* The programs of two processes, and those that are nobody's, are different ones.
LEMMA ProgramsDiffer ==
  /\ \A p \in Procs : /\ Link!Custom(p) # Link!None /\ Link!Default(p) # Link!None
                      /\ Link!Custom(p) # Link!Foreign /\ Link!Default(p) # Link!Foreign
  /\ \A p, q \in Procs : /\ Link!Custom(p) = Link!Custom(q) => p = q
                         /\ Link!Default(p) = Link!Default(q) => p = q
                         /\ Link!Custom(p) # Link!Default(q)
  /\ Link!None # Link!Foreign
<1>1. \A p, q \in Procs : Link!Custom(p).by = p /\ Link!Default(p).by = p
        /\ Link!Custom(p).kind = "custom" /\ Link!Default(p).kind = "default"
  BY DEF Link!Custom, Link!Default
<1>2. Link!None.kind = "none" /\ Link!Foreign.kind = "foreign"
  BY DEF Link!None, Link!Foreign
<1> QED
  BY <1>1, <1>2

\* What a request does that the kernel grants, and what EEXIST tells.
LEMMA SetLinkDoes ==
  ASSUME NEW prog1, NEW mode \in Link!Modes, NEW e, Link!bpf_set_link_xdp_fd(prog1, mode, e)
  PROVE  /\ e # "ok" => hook' = hook
         /\ e = "ok" =>
              /\ hook' = [hook EXCEPT ![Link!Slot(mode)] = prog1]
              /\ Link!Slot(mode) = "drv" => Native
              /\ prog1 # Link!None => hook[Link!OtherSlot(Link!Slot(mode))] = Link!None
         /\ e = "EEXIST" => /\ hook[Link!OtherSlot(Link!Slot(mode))] # Link!None
                            /\ Link!Slot(mode) = "drv" => Native
<1>1. hook' = IF e = "ok" THEN [hook EXCEPT ![Link!Slot(mode)] = prog1] ELSE hook
  BY DEF Link!bpf_set_link_xdp_fd, Link!SetLink
<1>2. ASSUME e = "ok" \/ e = "EEXIST" PROVE Link!Answer(prog1, mode) = e
  BY <1>2 DEF Link!bpf_set_link_xdp_fd
<1>3. ASSUME mode # "drv" \/ Native PROVE Link!Slot(mode) = "drv" => Native
  BY <1>3 DEF Link!Slot, Link!Modes
<1>4. ASSUME e = "ok"
      PROVE  /\ Link!Slot(mode) = "drv" => Native
             /\ prog1 # Link!None => hook[Link!OtherSlot(Link!Slot(mode))] = Link!None
  BY <1>2, <1>3, <1>4 DEF Link!Answer
<1>5. ASSUME e = "EEXIST"
      PROVE  /\ hook[Link!OtherSlot(Link!Slot(mode))] # Link!None
             /\ Link!Slot(mode) = "drv" => Native
  BY <1>2, <1>3, <1>5 DEF Link!Answer
<1> QED
  BY <1>1, <1>4, <1>5

\* The configuration of a process.
LEMMA ConfigOf ==
  ASSUME Link!TypeOK, NEW p \in Procs
  PROVE  /\ link_cfg[p] \in Configs
         /\ link_cfg[p].kind \in {"scenario", "unload", "monitor"}
         /\ link_cfg[p].mode \in Link!Modes
<1>1. link_cfg[p] \in Configs
  BY DEF Link!TypeOK
<1> QED
  BY <1>1, KernelAssumption DEF Link!ConfigAssumption, Link!MonitorConfigs, Link!Modes

\* What a step of a process does to the hook.  Nothing ...
Kept == hook' = hook

\* ... it puts a program of its own into its slot, whatever was there ...
Puts(p) ==
  \E g \in Link!ProgramsOf(p) :
    /\ hook' = [hook EXCEPT ![Link!Slot(link_cfg[p].mode)] = g]
    /\ hook[Link!OtherSlot(Link!Slot(link_cfg[p].mode))] = Link!None
    /\ Link!Slot(link_cfg[p].mode) = "drv" => Native
    /\ \/ link_pc[p] = "load" /\ link_pc'[p] = "running" /\ g = Link!Default(p) /\ joined'[p] = g
       \/ link_pc[p] \in {"attach", "again"} /\ link_pc'[p] = "setup"

\* ... it empties the slot of the opposite mode ...
EmptiesOther(p) ==
  /\ link_pc[p] = "unloadOther" /\ link_pc'[p] = "again"
  /\ hook' = [hook EXCEPT ![Link!Slot(Link!Opposite(link_cfg[p].mode))] = Link!None]

\* ... or it empties its own.
EmptiesOwn(p) ==
  /\ link_pc[p] = "remove" /\ link_pc'[p] = "done"
  /\ hook' = [hook EXCEPT ![Link!Slot(link_cfg[p].mode)] = Link!None]

\* Where a step leads: to the end only over an empty interface or by emptying it, to the
\* retry only when a program is in the way, and to what a process is told only by being told.
Leads(p) ==
  /\ link_cfg' = link_cfg
  /\ link_pc' = [link_pc EXCEPT ![p] = link_pc'[p]] /\ link_pc'[p] \in Link!PCs
  /\ seen' = [seen EXCEPT ![p] = seen'[p]] /\ seen'[p] \in Link!Programs
  /\ joined' = [joined EXCEPT ![p] = joined'[p]] /\ joined'[p] \in Link!Programs
  /\ link_pc[p] \notin {"done", "failed"}
  /\ link_pc'[p] = "done" =>
       EmptiesOwn(p) \/ (Kept /\ link_pc[p] = "query" /\ Link!Current(p) = Link!None)
  /\ link_pc'[p] = "unloadOther" =>
       /\ hook[Link!OtherSlot(Link!Slot(link_cfg[p].mode))] # Link!None
       /\ Link!Slot(link_cfg[p].mode) = "drv" => Native
  /\ link_pc'[p] = "again" => EmptiesOther(p)
  /\ link_pc'[p] = "lookup" => Kept /\ seen'[p] = Link!bpf_get_link_xdp_id
  /\ link_pc'[p] = "running" =>
       Puts(p) \/ (Kept /\ link_pc[p] = "lookup" /\ joined'[p] = seen[p])

\* Every step is one of these.
LEMMA LinkStepDoes ==
  ASSUME Link!TypeOK, NEW p \in Procs, Link!Step(p)
  PROVE  Leads(p) /\ (Kept \/ Puts(p) \/ EmptiesOther(p) \/ EmptiesOwn(p))
<1> DEFINE c == link_cfg[p]
<1>0. /\ c.kind \in {"scenario", "unload", "monitor"} /\ c.mode \in Link!Modes
      /\ Link!Opposite(c.mode) \in Link!Modes
  BY ConfigOf DEF Link!Opposite, Link!Modes
<1>a. /\ Link!Custom(p) # Link!None /\ Link!Default(p) # Link!None
      /\ Link!Custom(p) # Link!Default(p)
  BY ProgramsDiffer
<1>b. /\ link_pc \in [Procs -> Link!PCs] /\ seen \in [Procs -> Link!Programs]
      /\ joined \in [Procs -> Link!Programs]
  BY DEF Link!TypeOK
<1>c. /\ Link!None \in Link!Programs /\ Link!Custom(p) \in Link!Programs
      /\ Link!Default(p) \in Link!Programs /\ Link!bpf_get_link_xdp_id \in Link!Programs
  BY DEF Link!Programs, Link!TypeOK, Link!bpf_get_link_xdp_id, Link!Slots
<1> HIDE DEF c
<1>1. CASE Link!LoadFails(p) \/ Link!SetupFails(p)
  BY <1>1, <1>b DEF Link!LoadFails, Link!SetupFails, Link!Goto, Leads, Kept, Link!PCs
<1>2. CASE Link!xdp_link_attach(p)
  <2>1. PICK e \in {"ok", "EEXIST", "EOPNOTSUPP", "ENOMEM"} :
           /\ Link!bpf_set_link_xdp_fd(Link!Custom(p), c.mode, e)
           /\ Link!Goto(p, IF e = "ok" THEN "setup"
                           ELSE IF Link!Retries(e) THEN "unloadOther" ELSE "failed")
    BY <1>2 DEF Link!xdp_link_attach, c
  <2>2. link_pc[p] = "attach" /\ UNCHANGED <<link_cfg, seen, joined>>
    BY <1>2 DEF Link!xdp_link_attach
  <2>3. CASE e = "ok"
    <3>1. Puts(p)
      BY <1>0, <1>a, <1>b, <2>1, <2>2, <2>3, SetLinkDoes DEF Puts, Link!Goto, c, Link!ProgramsOf
    <3> QED
      BY <1>b, <2>1, <2>2, <2>3, <3>1 DEF Leads, Link!Goto, Link!PCs
  <2>4. CASE e # "ok"
    <3>1. Kept
      BY <2>1, <2>4 DEF Kept, Link!bpf_set_link_xdp_fd, Link!SetLink
    <3>2. link_pc' = [link_pc EXCEPT ![p] = IF Link!Retries(e) THEN "unloadOther" ELSE "failed"]
      BY <2>1, <2>4 DEF Link!Goto
    <3>3. Link!Retries(e) => /\ hook[Link!OtherSlot(Link!Slot(link_cfg[p].mode))] # Link!None
                             /\ Link!Slot(link_cfg[p].mode) = "drv" => Native
      BY <1>0, <2>1, SetLinkDoes DEF Link!Retries, c
    <3> QED
      BY <1>b, <2>2, <3>1, <3>2, <3>3 DEF Leads, Link!PCs
  <2> QED
    BY <2>3, <2>4
<1>3. CASE Link!UnloadOther(p)
  <2>1. PICK e \in {"ok", "EOPNOTSUPP", "ENOMEM"} :
           /\ Link!bpf_set_link_xdp_fd(Link!None, Link!Opposite(c.mode), e)
           /\ Link!Goto(p, IF e = "ok" THEN "again" ELSE "failed")
    BY <1>3 DEF Link!UnloadOther, c
  <2>2. link_pc[p] = "unloadOther" /\ UNCHANGED <<link_cfg, seen, joined>>
    BY <1>3 DEF Link!UnloadOther
  <2>3. CASE e = "ok"
    <3>1. EmptiesOther(p)
      BY <1>0, <1>b, <2>1, <2>2, <2>3, SetLinkDoes DEF EmptiesOther, Link!Goto, c
    <3> QED
      BY <1>b, <2>1, <2>2, <2>3, <3>1 DEF Leads, Link!Goto, Link!PCs
  <2>4. CASE e # "ok"
    <3>1. Kept
      BY <2>1, <2>4 DEF Kept, Link!bpf_set_link_xdp_fd, Link!SetLink
    <3> QED
      BY <1>b, <2>1, <2>2, <2>4, <3>1 DEF Leads, Link!Goto, Link!PCs
  <2> QED
    BY <2>3, <2>4
<1>4. CASE Link!AttachAgain(p)
  <2>1. PICK e \in {"ok", "EEXIST", "ENOMEM"} :
           /\ Link!bpf_set_link_xdp_fd(Link!Custom(p), c.mode, e)
           /\ Link!Goto(p, IF e = "ok" THEN "setup" ELSE "failed")
    BY <1>4 DEF Link!AttachAgain, c
  <2>2. link_pc[p] = "again" /\ UNCHANGED <<link_cfg, seen, joined>>
    BY <1>4 DEF Link!AttachAgain
  <2>3. CASE e = "ok"
    <3>1. Puts(p)
      BY <1>0, <1>a, <1>b, <2>1, <2>2, <2>3, SetLinkDoes DEF Puts, Link!Goto, c, Link!ProgramsOf
    <3> QED
      BY <1>b, <2>1, <2>2, <2>3, <3>1 DEF Leads, Link!Goto, Link!PCs
  <2>4. CASE e # "ok"
    <3>1. Kept
      BY <2>1, <2>4 DEF Kept, Link!bpf_set_link_xdp_fd, Link!SetLink
    <3> QED
      BY <1>b, <2>1, <2>2, <2>4, <3>1 DEF Leads, Link!Goto, Link!PCs
  <2> QED
    BY <2>3, <2>4
<1>5. CASE Link!xsk_setup_xdp_prog(p)
  BY <1>5, <1>b, <1>c DEF Link!xsk_setup_xdp_prog, Link!Goto, Leads, Kept, Link!PCs
<1>6. CASE Link!xsk_lookup_bpf_maps(p)
  BY <1>6, <1>b DEF Link!xsk_lookup_bpf_maps, Link!Goto, Leads, Kept, Link!PCs
<1>7. CASE Link!xsk_load_xdp_prog(p)
  <2>1. PICK e \in {"ok", "EEXIST", "EOPNOTSUPP", "ENOMEM"} :
           /\ Link!bpf_set_link_xdp_fd(Link!Default(p), c.mode, e)
           /\ joined' = [joined EXCEPT ![p] = IF e = "ok" THEN Link!Default(p) ELSE @]
           /\ Link!Goto(p, IF e = "ok" THEN "running" ELSE "failed")
    BY <1>7 DEF Link!xsk_load_xdp_prog, c
  <2>2. link_pc[p] = "load" /\ UNCHANGED <<link_cfg, seen>>
    BY <1>7 DEF Link!xsk_load_xdp_prog
  <2>3. CASE e = "ok"
    <3>1. Puts(p)
      BY <1>0, <1>a, <1>b, <2>1, <2>2, <2>3, SetLinkDoes DEF Puts, Link!Goto, c, Link!ProgramsOf
    <3> QED
      BY <1>b, <1>c, <2>1, <2>2, <2>3, <3>1 DEF Leads, Link!Goto, Link!PCs
  <2>4. CASE e # "ok"
    <3>1. Kept
      BY <2>1, <2>4 DEF Kept, Link!bpf_set_link_xdp_fd, Link!SetLink
    <3>2. joined' = joined
      BY <1>b, <2>1, <2>4
    <3> QED
      BY <1>b, <2>1, <2>2, <2>4, <3>1, <3>2 DEF Leads, Link!Goto, Link!PCs
  <2> QED
    BY <2>3, <2>4
<1>8. CASE Link!Stop(p)
  BY <1>8, <1>b, <1>c DEF Link!Stop, Link!Goto, Leads, Kept, Link!PCs
<1>9. CASE Link!xdp_link_detach(p)
  <2>1. Link!Current(p) \in Link!Programs
    BY <1>c DEF Link!Current
  <2> QED
    BY <1>9, <1>b, <2>1 DEF Link!xdp_link_detach, Link!Goto, Leads, Kept, Link!PCs
<1>10. CASE Link!Remove(p)
  <2>1. PICK e \in {"ok", "EOPNOTSUPP", "ENOMEM"} :
           /\ Link!bpf_set_link_xdp_fd(Link!None, c.mode, e)
           /\ Link!Goto(p, IF e = "ok" THEN "done" ELSE "failed")
    BY <1>10 DEF Link!Remove, c
  <2>2. link_pc[p] = "remove" /\ UNCHANGED <<link_cfg, seen, joined>>
    BY <1>10 DEF Link!Remove
  <2>3. CASE e = "ok"
    <3>1. EmptiesOwn(p)
      BY <1>0, <1>b, <2>1, <2>2, <2>3, SetLinkDoes DEF EmptiesOwn, Link!Goto, c
    <3> QED
      BY <1>b, <2>1, <2>2, <2>3, <3>1 DEF Leads, Link!Goto, Link!PCs
  <2>4. CASE e # "ok"
    <3>1. Kept
      BY <2>1, <2>4 DEF Kept, Link!bpf_set_link_xdp_fd, Link!SetLink
    <3> QED
      BY <1>b, <2>1, <2>2, <2>4, <3>1 DEF Leads, Link!Goto, Link!PCs
  <2> QED
    BY <2>3, <2>4
<1> QED
  BY <1>1, <1>2, <1>3, <1>4, <1>5, <1>6, <1>7, <1>8, <1>9, <1>10 DEF Link!Step

\* At first there is at most a program that belongs to none of the processes.
LEMMA LinkInvInit == Link!Init => LinkInv
<1> SUFFICES ASSUME Link!Init PROVE LinkInv
  OBVIOUS
<1>0. link_cfg \in [Procs -> Configs]
  BY DEF Link!Init
<1>1. \A p \in Procs : link_cfg[p].kind \in {"scenario", "unload", "monitor"}
  <2> SUFFICES ASSUME NEW p \in Procs PROVE link_cfg[p].kind \in {"scenario", "unload", "monitor"}
    OBVIOUS
  <2>1. link_cfg[p] \in Configs
    BY <1>0
  <2> QED
    BY <2>1, KernelAssumption DEF Link!ConfigAssumption, Link!MonitorConfigs
<1>2. \A p \in Procs : link_pc[p] \in {"attach", "setup", "query"}
  BY <1>1 DEF Link!Init, Link!First
<1>3. /\ hook \in [Link!Slots -> {Link!None, Link!Foreign}]
      /\ \E m \in Link!Slots : hook[m] = Link!None
      /\ hook["drv"] # Link!None => Native
  <2>1. \/ hook = [m \in Link!Slots |-> Link!None]
        \/ hook = [skb |-> Link!Foreign, drv |-> Link!None]
        \/ Native /\ hook = [skb |-> Link!None, drv |-> Link!Foreign]
    BY DEF Link!Init
  <2> QED
    BY <2>1 DEF Link!Slots
<1>4. Link!TypeOK
  <2>1. link_pc = [p \in Procs |-> link_pc[p]]
    BY DEF Link!Init
  <2>2. link_pc \in [Procs -> Link!PCs]
    BY <1>2, <2>1 DEF Link!PCs
  <2> QED
    BY <1>3, <2>2 DEF Link!Init, Link!TypeOK, Link!Programs
<1>5. \A p \in Procs, m \in Link!Slots : hook[m] \notin Link!ProgramsOf(p)
  BY <1>3, ProgramsDiffer DEF Link!ProgramsOf
<1>6. OwnSlot /\ OneProgram /\ DriverHas
  BY <1>2, <1>3, <1>5 DEF OwnSlot, OneProgram, DriverHas
<1>7. Told /\ Link!RetryClears /\ Link!OwnServes /\ Link!CleanExit
  BY <1>2 DEF Told, Link!RetryClears, Link!OwnServes, Link!CleanExit
<1> QED
  BY <1>4, <1>6, <1>7 DEF LinkInv

\* Every step of a process preserves the invariant, for all of them.
LEMMA LinkInvStep == LinkInv /\ [Link!Next]_(Link!vars) => LinkInv'
<1> SUFFICES ASSUME LinkInv, [Link!Next]_(Link!vars) PROVE LinkInv'
  OBVIOUS
<1>1. CASE UNCHANGED Link!vars
  BY <1>1 DEF Link!vars, LinkInv, OwnSlot, OneProgram, DriverHas, Told, Link!RetryClears,
     Link!OwnServes, Link!CleanExit, Link!TypeOK, Link!Attached, Link!InTheWay
<1>2. ASSUME NEW p \in Procs, Link!Step(p) PROVE LinkInv'
  <2>0. Link!TypeOK
    BY DEF LinkInv
  <2>1. Leads(p) /\ (Kept \/ Puts(p) \/ EmptiesOther(p) \/ EmptiesOwn(p))
    BY <1>2, <2>0, LinkStepDoes
  <2>2. PICK sl \in Link!Slots, ol \in Link!Slots :
           /\ sl = Link!Slot(link_cfg[p].mode) /\ ol = Link!OtherSlot(sl)
           /\ ol # sl /\ \A m \in Link!Slots : m = sl \/ m = ol
    BY <2>0, ConfigOf, SlotOf
  <2>3. PICK xl \in Link!Slots : xl = Link!Slot(Link!Opposite(link_cfg[p].mode))
    <3>1. Link!Opposite(link_cfg[p].mode) \in Link!Modes
      BY DEF Link!Opposite, Link!Modes
    <3> QED
      BY <3>1, SlotOf
  <2>4. /\ hook \in [Link!Slots -> Link!Programs] /\ link_pc \in [Procs -> Link!PCs]
        /\ seen \in [Procs -> Link!Programs] /\ joined \in [Procs -> Link!Programs]
        /\ link_cfg \in [Procs -> Configs]
    BY <2>0 DEF Link!TypeOK
  <2>5. \/ hook' = hook
        \/ hook' = [hook EXCEPT ![sl] = Link!Custom(p)]
        \/ hook' = [hook EXCEPT ![sl] = Link!Default(p)]
        \/ hook' = [hook EXCEPT ![xl] = Link!None]
        \/ hook' = [hook EXCEPT ![sl] = Link!None]
    BY <2>1, <2>2, <2>3 DEF Kept, Puts, EmptiesOther, EmptiesOwn, Link!ProgramsOf
  <2>6. Link!TypeOK'
    <3>1. hook' \in [Link!Slots -> Link!Programs]
      BY <2>2, <2>3, <2>4, <2>5 DEF Link!Programs
    <3>2. link_pc' \in [Procs -> Link!PCs]
      BY <2>1, <2>4 DEF Leads
    <3>3. seen' \in [Procs -> Link!Programs] /\ joined' \in [Procs -> Link!Programs]
      BY <2>1, <2>4 DEF Leads
    <3> QED
      BY <2>1, <2>4, <3>1, <3>2, <3>3 DEF Link!TypeOK, Leads
  \* Whose programs are where.
  <2>7. ASSUME NEW q \in Procs, NEW m \in Link!Slots, hook'[m] \in Link!ProgramsOf(q)
        PROVE  hook[m] = hook'[m] \/ (q = p /\ m = sl)
    BY <2>2, <2>3, <2>4, <2>5, <2>7, ProgramsDiffer DEF Link!ProgramsOf
  <2>8. OwnSlot'
    <3> SUFFICES ASSUME NEW q \in Procs, NEW m \in Link!Slots, hook'[m] \in Link!ProgramsOf(q)
                 PROVE  m = Link!Slot(link_cfg[q].mode)
      BY <2>1 DEF OwnSlot, Leads, Link!Slot
    <3> QED
      BY <2>2, <2>7 DEF LinkInv, OwnSlot
  \* The other processes stay where they are.
  <2>9. \A q \in Procs : q # p => /\ link_pc'[q] = link_pc[q] /\ seen'[q] = seen[q]
                                  /\ joined'[q] = joined[q]
    BY <2>1, <2>4 DEF Leads
  <2>10. Link!CleanExit'
    <3> SUFFICES ASSUME NEW q \in Procs, link_pc'[q] = "done", link_cfg[q].kind = "scenario",
                        NEW m \in Link!Slots, hook'[m] \in Link!ProgramsOf(q)
                 PROVE  FALSE
      BY <2>1 DEF Link!CleanExit, Link!Attached, Leads, Link!ProgramsOf
    <3>1. CASE q # p
      <4>1. link_pc[q] = "done" /\ hook[m] = hook'[m]
        BY <2>1, <2>4, <2>7, <3>1 DEF Leads
      <4> QED
        BY <4>1 DEF LinkInv, Link!CleanExit, Link!Attached, Link!ProgramsOf
    <3>2. CASE q = p
      <4>1. m = sl
        BY <2>2, <2>7, <3>2 DEF LinkInv, OwnSlot
      <4>2. CASE EmptiesOwn(p)
        <5>1. hook'[m] = Link!None
          BY <2>2, <2>4, <4>1, <4>2 DEF EmptiesOwn
        <5> QED
          BY <5>1, ProgramsDiffer DEF Link!ProgramsOf
      <4>3. CASE Kept /\ Link!Current(p) = Link!None
        <5>1. Link!bpf_get_link_xdp_id = Link!None
          BY <3>2, <4>3 DEF Link!Current
        <5>2. hook[m] = Link!None
          BY <5>1 DEF Link!bpf_get_link_xdp_id, Link!Slots
        <5> QED
          BY <4>3, <5>2, ProgramsDiffer DEF Kept, Link!ProgramsOf
      <4> QED
        BY <2>1, <3>2, <4>2, <4>3 DEF Leads
    <3> QED
      BY <3>1, <3>2
  <2>11. OneProgram'
    <3>1. CASE Puts(p)
      <4>1. hook[ol] = Link!None
        BY <2>2, <3>1 DEF Puts
      <4>2. hook'[ol] = hook[ol]
        BY <2>2, <2>4, <3>1 DEF Puts
      <4> QED
        BY <4>1, <4>2 DEF OneProgram
    <3>2. CASE ~ Puts(p)
      BY <2>1, <2>2, <2>3, <2>4, <3>2 DEF LinkInv, OneProgram, Kept, EmptiesOther, EmptiesOwn
    <3> QED
      BY <3>1, <3>2
  <2>12. DriverHas'
    <3>1. hook'["drv"] # Link!None => Native
      <4>1. CASE Puts(p)
        BY <2>2, <2>4, <4>1 DEF LinkInv, DriverHas, Puts, Link!Slots
      <4>2. CASE ~ Puts(p)
        BY <2>1, <2>2, <2>3, <2>4, <4>2
        DEF LinkInv, DriverHas, Kept, EmptiesOther, EmptiesOwn, Link!Slots
      <4> QED
        BY <4>1, <4>2
    <3>2. ASSUME link_pc'[p] = "unloadOther" PROVE Native
      BY <2>1, <2>2, <3>2 DEF Leads, LinkInv, DriverHas, Link!OtherSlot, Link!Slots
    <3>3. ASSUME link_pc'[p] = "again" PROVE Native
      BY <2>1, <3>3 DEF Leads, EmptiesOther, LinkInv, DriverHas
    <3> QED
      BY <2>9, <3>1, <3>2, <3>3 DEF LinkInv, DriverHas
  \* What attached programs of a process mean stays true while that process does nothing.
  <2>13. ASSUME NEW q \in Procs, NEW g \in Link!ProgramsOf(q), Link!Attached(g)', q # p
         PROVE  Link!Attached(g)
    BY <2>7, <2>13 DEF Link!Attached
  <2>14. ASSUME NEW g \in Link!ProgramsOf(p), Kept, Link!Attached(g)' PROVE Link!Attached(g)
    BY <2>14 DEF Kept, Link!Attached
  <2>15. Told'
    <3> SUFFICES ASSUME NEW q \in Procs, link_pc'[q] = "lookup", NEW g \in Link!ProgramsOf(q),
                        Link!Attached(g)'
                 PROVE  seen'[q] = g
      BY DEF Told
    <3>1. CASE q # p
      <4>1. Link!Attached(g)
        BY <2>13, <3>1
      <4>2. link_pc[q] = "lookup" /\ seen'[q] = seen[q]
        BY <2>9, <3>1
      <4> QED
        BY <4>1, <4>2 DEF LinkInv, Told
    <3>2. CASE q = p
      <4>1. Kept /\ seen'[p] = Link!bpf_get_link_xdp_id
        BY <2>1, <3>2 DEF Leads
      <4>2. PICK m \in Link!Slots : hook[m] = g
        BY <2>14, <3>2, <4>1 DEF Link!Attached
      <4>3. PICK n \in Link!Slots : hook[n] = Link!None
        BY DEF LinkInv, OneProgram
      <4>4. g # Link!None
        BY ProgramsDiffer DEF Link!ProgramsOf
      <4> QED
        BY <3>2, <4>1, <4>2, <4>3, <4>4 DEF Link!bpf_get_link_xdp_id, Link!Slots
    <3> QED
      BY <3>1, <3>2
  <2>16. Link!OwnServes'
    <3> SUFFICES ASSUME NEW q \in Procs, link_pc'[q] = "running", NEW g \in Link!ProgramsOf(q),
                        Link!Attached(g)'
                 PROVE  joined'[q] = g
      BY DEF Link!OwnServes
    <3>1. CASE q # p
      <4>1. Link!Attached(g)
        BY <2>13, <3>1
      <4>2. link_pc[q] = "running" /\ joined'[q] = joined[q]
        BY <2>9, <3>1
      <4> QED
        BY <4>1, <4>2 DEF LinkInv, Link!OwnServes
    <3>2. CASE q = p /\ Puts(p)
      <4>1. /\ hook' = [hook EXCEPT ![sl] = Link!Default(p)] /\ hook[ol] = Link!None
            /\ joined'[p] = Link!Default(p)
        BY <2>2, <3>2 DEF Puts
      <4>2. hook'[sl] = Link!Default(p) /\ hook'[ol] = Link!None
        BY <2>2, <2>4, <4>1
      <4>3. PICK m \in Link!Slots : hook'[m] = g
        BY DEF Link!Attached
      <4>4. g # Link!None
        BY ProgramsDiffer DEF Link!ProgramsOf
      <4> QED
        BY <2>2, <3>2, <4>1, <4>2, <4>3, <4>4
    <3>3. CASE q = p /\ ~ Puts(p)
      <4>1. Kept /\ link_pc[p] = "lookup" /\ joined'[p] = seen[p]
        BY <2>1, <3>3 DEF Leads
      <4>2. Link!Attached(g)
        BY <2>14, <3>3, <4>1
      <4> QED
        BY <3>3, <4>1, <4>2 DEF LinkInv, Told
    <3> QED
      BY <3>1, <3>2, <3>3
  <2>17. Link!RetryClears'
    <3> SUFFICES ASSUME NEW q \in Procs, link_pc'[q] = "again"
                 PROVE  \/ Link!InTheWay(q)' = Link!None
                        \/ \E r \in Procs \ {q} : Link!InTheWay(q)' \in Link!ProgramsOf(r)
      BY DEF Link!RetryClears
    <3>0. PICK w \in Link!Slots : w = Link!OtherSlot(Link!Slot(link_cfg[q].mode))
      BY <2>0, ConfigOf, SlotOf
    <3>a. Link!InTheWay(q) = hook[w] /\ Link!InTheWay(q)' = hook'[w]
      BY <2>1, <3>0 DEF Link!InTheWay, Leads, Link!OtherSlot, Link!Slot
    <3>1. CASE q = p
      <4>1. hook' = [hook EXCEPT ![xl] = Link!None] /\ link_pc[p] = "unloadOther"
        BY <2>1, <2>3, <3>1 DEF Leads, EmptiesOther
      <4>2. Native
        BY <4>1 DEF LinkInv, DriverHas
      <4>3. xl = w
        BY <2>0, <2>3, <3>0, <3>1, <4>2, ConfigOf, SlotOfOpposite
      <4> QED
        BY <2>4, <3>a, <4>1, <4>3
    <3>2. CASE q # p
      <4>1. link_pc[q] = "again"
        BY <2>9, <3>2
      <4>2. hook[w] = Link!None \/ \E r \in Procs \ {q} : hook[w] \in Link!ProgramsOf(r)
        BY <3>a, <4>1 DEF LinkInv, Link!RetryClears
      <4>3. hook'[w] \in {hook[w], Link!None} \/ hook'[w] \in Link!ProgramsOf(p)
        BY <2>2, <2>3, <2>4, <2>5 DEF Link!ProgramsOf
      <4>4. CASE hook'[w] \in Link!ProgramsOf(p)
        BY <3>2, <3>a, <4>4
      <4>5. CASE hook'[w] \in {hook[w], Link!None}
        BY <3>a, <4>2, <4>5
      <4> QED
        BY <4>3, <4>4, <4>5
    <3> QED
      BY <3>1, <3>2
  <2> QED
    BY <2>6, <2>8, <2>10, <2>11, <2>12, <2>15, <2>16, <2>17 DEF LinkInv
<1> QED
  BY <1>1, <1>2 DEF Link!Next

\* Any number of processes share an interface, with any command lines, on a driver with or
\* without native mode.  The retry of an attach has taken away what was in its way, and only a
\* process that attached in between can make it fail with EEXIST again; the socket of one that
\* runs is in the map of its own program while that is attached; and a process of the scenarios
\* that has cleaned up leaves none of its programs behind.
THEOREM ProcessesKeepTheHook == Spec => []HookKept
<1> DEFINE I == part = "link" => LinkInv
<1>1. Init => I
  BY LinkInvInit DEF Init
<1>2. [Next]_vars /\ part' = "link" => part = "link" /\ [Link!Next]_(Link!vars)
  BY DEF Next, Step, MayStop, vars, linkVars, Link!vars
<1>3. I /\ [Next]_vars => I'
  BY <1>2, LinkInvStep
<1>4. I => HookKept
  BY DEF LinkInv, HookKept
<1> QED
  BY <1>1, <1>3, <1>4, PTL DEF Spec
-----------------------------------------------------------------------------
(***************************************************************************)
(* XdpScenario.  The two programs differ in what is attached, in polling   *)
(* and in the thread that prints; the invariant is the same, and a step of *)
(* either preserves it.                                                    *)
(***************************************************************************)
\* Where main is: before it has given frames to the fill ring, while it receives, and after.
Preparing == {"attach", "umem", "socket", "fill"}
Serving == {"thread", "port", "test", "call", "poll", "receive", "process"}
Leaving == {"delete", "detach", "exit"}

\* The types, and how full rings and batch are.
NumbersAt ==
  /\ global_exit \in BOOLEAN /\ prog \in {"none", "sock", "echo", "default"}
  /\ xsks \subseteq Queues /\ port \in {0, PORT}
  /\ free \in Nat /\ fq \in Nat /\ rx \in Nat /\ rcvd \in Nat /\ done \in Nat
  /\ free <= NUM_FRAMES /\ fq <= FqSize /\ rx <= RxSize
  /\ rcvd <= RX_BATCH_SIZE /\ done <= rcvd

\* Every frame is in the pool, in a ring or in the batch, and the batch is in the ring.
FramesAt ==
  /\ scenario_pc \in Preparing \cup Serving \cup Leaving \cup {"failed", "crashed"}
  /\ scenario_pc \in Preparing => free = 0 /\ fq = 0 /\ rx = 0 /\ rcvd = 0 /\ done = 0
  /\ scenario_pc \in Serving \cup Leaving =>
       free + fq + rx - (IF scenario_pc = "process" THEN done ELSE 0) = NUM_FRAMES
  /\ scenario_pc = "process" => rcvd <= rx

\* The counter of bytes is ahead of the one of packets by what is processed of the batch.
CountedAt ==
  /\ stats \in [Echo!Fields -> Nat]
  /\ stats["packets"] + rx <= NPackets
  /\ stats["bytes"] = stats["packets"] + (IF scenario_pc = "process" THEN done ELSE 0)

\* A counter is ahead of its copy, which is ahead of what was printed of it, but for what
\* has been printed and not yet copied.
PrintedAt ==
  /\ previous \in [Echo!Fields -> Nat] /\ shown \in [Echo!Fields -> Nat]
  /\ todo \subseteq Echo!Fields
  /\ \A x \in Echo!Fields :
       /\ previous[x] <= stats[x] /\ shown[x] <= stats[x]
       /\ \/ shown[x] <= previous[x]
          \/ tpc = "print" /\ x \notin todo
          \/ tpc = "copy" /\ x \in todo

\* The thread runs once main has made it; the socket is in the map from its making to its
\* deletion.
MadeAt ==
  /\ scenario_pc \in Preparing \cup {"thread"} => tpc = "none"
  /\ scenario_pc \in Serving \cup {"fill"} => Queue \in xsks

\* The invariant.
ScenarioInv == NumbersAt /\ FramesAt /\ CountedAt /\ PrintedAt /\ MadeAt

\* The fields of the counters.
LEMMA FieldsAre ==
  /\ Echo!Fields = {"packets", "bytes"} /\ Stats!Fields = {"packets", "bytes"}
  /\ Echo!Zero \in [{"packets", "bytes"} -> {0}] /\ Stats!Zero = Echo!Zero
<1>1. Echo!Zero = [x \in {"packets", "bytes"} |-> 0] /\ Stats!Zero = Echo!Zero
  BY DEF Echo!Zero, Stats!Zero
<1> QED
  BY <1>1 DEF Echo!Fields, Stats!Fields

\* The constants.
LEMMA ScenarioConstants ==
  /\ Queue \in Queues /\ PORT \in Nat \ {0} /\ FqSize \in Nat \ {0} /\ RxSize \in Nat \ {0}
  /\ RX_BATCH_SIZE \in Nat \ {0} /\ NPackets \in Nat \ {0} /\ NUM_FRAMES \in Nat
  /\ NUM_FRAMES >= FqSize + RxSize
  BY KernelAssumption DEF Echo!ScenarioAssumption

\* Nothing is set up at first, and nothing counted.
LEMMA ScenarioInit == Echo!Init \/ Stats!Init => ScenarioInv
<1> SUFFICES ASSUME Echo!Init \/ Stats!Init PROVE ScenarioInv
  OBVIOUS
<1>1. /\ scenario_pc = "attach" /\ global_exit = FALSE /\ prog = "none" /\ xsks = {} /\ port = 0
      /\ free = 0 /\ fq = 0 /\ rx = 0 /\ rcvd = 0 /\ done = 0
      /\ stats = Echo!Zero /\ previous = Echo!Zero /\ shown = Echo!Zero
      /\ tpc = "none" /\ todo = {}
  BY FieldsAre DEF Echo!Init, Stats!Init
<1>2. Echo!Zero \in [Echo!Fields -> Nat] /\ \A x \in Echo!Fields : Echo!Zero[x] = 0
  BY FieldsAre
<1>3. NumbersAt
  <2>1. global_exit \in BOOLEAN
    BY <1>1
  <2>2. /\ prog \in {"none", "sock", "echo", "default"} /\ xsks \subseteq Queues
        /\ port \in {0, PORT}
    BY <1>1
  <2>3. /\ free \in Nat /\ fq \in Nat /\ rx \in Nat /\ rcvd \in Nat /\ done \in Nat
        /\ free <= NUM_FRAMES /\ fq <= FqSize /\ rx <= RxSize
        /\ rcvd <= RX_BATCH_SIZE /\ done <= rcvd
    BY <1>1, ScenarioConstants
  <2> QED
    BY <2>1, <2>2, <2>3 DEF NumbersAt
<1>4. FramesAt /\ MadeAt
  BY <1>1 DEF FramesAt, MadeAt, Preparing, Serving, Leaving
<1>5. CountedAt
  BY <1>1, <1>2, FieldsAre, ScenarioConstants DEF CountedAt
<1>6. PrintedAt
  BY <1>1, <1>2 DEF PrintedAt
<1> QED
  BY <1>3, <1>4, <1>5, <1>6 DEF ScenarioInv

\* The set-up of main, and its failures.
LEMMA ScenarioPrepares ==
  ASSUME ScenarioInv,
         \/ Echo!Fail \/ Stats!Fail
         \/ Echo!load_bpf_and_xdp_attach \/ Stats!load_bpf_and_xdp_attach
         \/ Echo!configure_xsk_umem \/ Stats!configure_xsk_umem
         \/ Echo!xsk_socket__create \/ Stats!xsk_socket__create
         \/ Echo!xsk_configure_socket \/ Stats!xsk_configure_socket
         \/ Echo!pthread_create \/ Stats!pthread_create
         \/ Echo!LoadPort \/ Stats!LoadPort
  PROVE  ScenarioInv'
<1> USE ScenarioConstants
    DEF Echo!frames, Stats!frames, Echo!main, Stats!main, Echo!thread, Stats!thread,
        ScenarioInv, NumbersAt, FramesAt, CountedAt, PrintedAt, MadeAt, Preparing, Serving,
        Leaving
<1>1. CASE Echo!Fail \/ Stats!Fail
  BY <1>1 DEF Echo!Fail, Stats!Fail
<1>2. CASE Echo!load_bpf_and_xdp_attach \/ Stats!load_bpf_and_xdp_attach
  BY <1>2 DEF Echo!load_bpf_and_xdp_attach, Stats!load_bpf_and_xdp_attach
<1>3. CASE Echo!configure_xsk_umem \/ Stats!configure_xsk_umem
  BY <1>3 DEF Echo!configure_xsk_umem, Stats!configure_xsk_umem
<1>4. CASE Echo!xsk_socket__create \/ Stats!xsk_socket__create
  BY <1>4 DEF Echo!xsk_socket__create, Stats!xsk_socket__create, Echo!queue_id, Stats!queue_id
<1>5. CASE Echo!xsk_configure_socket \/ Stats!xsk_configure_socket
  BY <1>5 DEF Echo!xsk_configure_socket, Stats!xsk_configure_socket
<1>6. CASE Echo!pthread_create \/ Stats!pthread_create
  BY <1>6 DEF Echo!pthread_create, Stats!pthread_create
<1>7. CASE Echo!LoadPort \/ Stats!LoadPort
  BY <1>7 DEF Echo!LoadPort, Stats!LoadPort
<1> QED
  BY <1>1, <1>2, <1>3, <1>4, <1>5, <1>6, <1>7

\* The smaller of two numbers.
LEMMA LesserOfTwo ==
  ASSUME NEW a \in Nat, NEW b \in Nat
  PROVE  /\ Min({a, b}) \in {a, b} /\ Min({a, b}) <= a /\ Min({a, b}) <= b
         /\ Echo!Min({a, b}) = Min({a, b}) /\ Stats!Min({a, b}) = Min({a, b})
<1>1. \E x \in {a, b} : \A y \in {a, b} : x <= y
  OBVIOUS
<1> QED
  BY <1>1 DEF Min, Echo!Min, Stats!Min

\* The loop of main, and its end.
LEMMA ScenarioReceives ==
  ASSUME ScenarioInv,
         \/ Echo!rx_and_process \/ Stats!rx_and_process
         \/ Echo!EnterPoll \/ Stats!EnterPoll
         \/ Echo!poll \/ Stats!poll
         \/ Echo!handle_receive_packets \/ Stats!handle_receive_packets
         \/ Echo!process_packet \/ Stats!process_packet
         \/ Echo!Released \/ Stats!Released
         \/ Echo!xsk_socket__delete \/ Stats!xsk_socket__delete
         \/ Echo!xdp_link_detach \/ Stats!xdp_link_detach
  PROVE  ScenarioInv'
<1> USE ScenarioConstants
    DEF Echo!frames, Stats!frames, Echo!main, Stats!main, Echo!thread, Stats!thread,
        ScenarioInv, NumbersAt, FramesAt, CountedAt, PrintedAt, MadeAt, Preparing, Serving,
        Leaving
<1>1. CASE Echo!rx_and_process \/ Stats!rx_and_process
  BY <1>1 DEF Echo!rx_and_process, Stats!rx_and_process
<1>2. CASE Echo!EnterPoll \/ Stats!EnterPoll \/ Echo!poll \/ Stats!poll
  BY <1>2 DEF Echo!EnterPoll, Stats!EnterPoll, Echo!poll, Stats!poll
<1>3. CASE Echo!handle_receive_packets \/ Stats!handle_receive_packets
  <2>1. rcvd' \in Nat /\ rcvd' <= rx /\ rcvd' <= RX_BATCH_SIZE
    <3>n. rx \in Nat /\ RX_BATCH_SIZE \in Nat
      OBVIOUS
    <3>1. CASE Echo!handle_receive_packets
      <4>1. rcvd' = Echo!Min({rx, RX_BATCH_SIZE})
        BY ONLY <3>1 DEF Echo!handle_receive_packets
      <4> QED
        BY ONLY <3>n, <4>1, LesserOfTwo
    <3>2. CASE Stats!handle_receive_packets
      <4>1. rcvd' = Stats!Min({rx, RX_BATCH_SIZE})
        BY ONLY <3>2 DEF Stats!handle_receive_packets
      <4> QED
        BY ONLY <3>n, <4>1, LesserOfTwo
    <3> QED
      BY <1>3, <3>1, <3>2
  <2>2. PICK n \in Nat : /\ n = IF rcvd' > 0 THEN FqSize - fq ELSE 0
                         /\ fq' = fq + n /\ free' = free - n
    BY <1>3 DEF Echo!handle_receive_packets, Stats!handle_receive_packets, Echo!Stock, Stats!Stock
  <2>3. /\ done' = 0 /\ scenario_pc = "receive" /\ scenario_pc' \in {"process", "test"}
        /\ UNCHANGED <<global_exit, prog, xsks, port, rx, stats, previous, shown, tpc, todo>>
    BY <1>3 DEF Echo!handle_receive_packets, Stats!handle_receive_packets
  <2>4. NumbersAt' /\ FramesAt'
    BY <2>1, <2>2, <2>3
  <2>5. CountedAt' /\ PrintedAt' /\ MadeAt'
    BY <2>3
  <2> QED
    BY <2>4, <2>5
<1>4. CASE Echo!process_packet \/ Stats!process_packet
  <2>1. /\ scenario_pc = "process" /\ done < rcvd /\ done' = done + 1 /\ free' = free + 1
        /\ stats' = [stats EXCEPT !["bytes"] = @ + 1]
        /\ UNCHANGED <<scenario_pc, global_exit, prog, xsks, port, fq, rx, rcvd, previous, shown,
                       tpc, todo>>
    BY <1>4 DEF Echo!process_packet, Stats!process_packet
  <2>2. NumbersAt' /\ FramesAt' /\ MadeAt'
    BY <2>1
  <2>3. /\ stats' \in [Echo!Fields -> Nat] /\ stats'["packets"] = stats["packets"]
        /\ stats'["bytes"] = stats["bytes"] + 1
        /\ \A x \in Echo!Fields : stats'[x] >= stats[x]
    BY <2>1, FieldsAre
  <2>4. CountedAt'
    BY <2>1, <2>3, FieldsAre
  <2>5. PrintedAt'
    BY <2>1, <2>3
  <2> QED
    BY <2>2, <2>4, <2>5
<1>5. CASE Echo!Released \/ Stats!Released
  <2>1. /\ scenario_pc = "process" /\ done = rcvd /\ rx' = rx - rcvd /\ scenario_pc' = "test"
        /\ stats' = [stats EXCEPT !["packets"] = @ + rcvd]
        /\ UNCHANGED <<global_exit, prog, xsks, port, free, fq, rcvd, done, previous, shown, tpc,
                       todo>>
    BY <1>5 DEF Echo!Released, Stats!Released
  <2>2. NumbersAt' /\ FramesAt' /\ MadeAt'
    BY <2>1
  <2>3. /\ stats' \in [Echo!Fields -> Nat] /\ stats'["packets"] = stats["packets"] + rcvd
        /\ stats'["bytes"] = stats["bytes"]
        /\ \A x \in Echo!Fields : stats'[x] >= stats[x]
    BY <2>1, FieldsAre
  <2>4. CountedAt'
    BY <2>1, <2>3, FieldsAre
  <2>5. PrintedAt'
    BY <2>1, <2>3
  <2> QED
    BY <2>2, <2>4, <2>5
<1>6. CASE \/ Echo!xsk_socket__delete \/ Stats!xsk_socket__delete
           \/ Echo!xdp_link_detach \/ Stats!xdp_link_detach
  BY <1>6 DEF Echo!xsk_socket__delete, Stats!xsk_socket__delete, Echo!xdp_link_detach,
     Stats!xdp_link_detach
<1> QED
  BY <1>1, <1>2, <1>3, <1>4, <1>5, <1>6

\* A difference printed brings what was shown up to the counter, and the copy follows.
LEMMA ScenarioPrints ==
  ASSUME ScenarioInv, Echo!Thread \/ Stats!Thread
  PROVE  ScenarioInv'
<1> USE DEF Echo!frames, Stats!frames, Echo!main, Stats!main
<1>1. /\ UNCHANGED <<scenario_pc, global_exit, prog, xsks, port, free, fq, rx, rcvd, done, stats>>
      /\ tpc # "none"
  BY DEF Echo!Thread, Stats!Thread, Echo!Ticks, Stats!Ticks, Echo!stats_print, Stats!stats_print,
     Echo!stats_poll, Stats!stats_poll
<1>2. NumbersAt' /\ FramesAt' /\ CountedAt'
  BY <1>1 DEF ScenarioInv, NumbersAt, FramesAt, CountedAt
<1>3. MadeAt'
  BY <1>1 DEF ScenarioInv, MadeAt
<1>4. PrintedAt'
  <2> USE DEF ScenarioInv, CountedAt, PrintedAt
  <2>1. CASE Echo!Ticks \/ Stats!Ticks
    BY <2>1, FieldsAre DEF Echo!Ticks, Stats!Ticks
  <2>2. ASSUME NEW y \in Echo!Fields, Echo!stats_print(y) \/ Stats!stats_print(y)
        PROVE  PrintedAt'
    <3>1. /\ tpc = "print" /\ y \in todo
          /\ shown' = [shown EXCEPT ![y] = @ + (stats[y] - previous[y])]
          /\ \/ todo = {y} /\ tpc' = "copy" /\ todo' = Echo!Fields
             \/ todo' = todo \ {y} /\ tpc' = tpc
          /\ UNCHANGED <<stats, previous>>
      BY <2>2, FieldsAre
      DEF Echo!stats_print, Stats!stats_print, Echo!Difference, Stats!Difference
    <3>2. shown[y] <= previous[y]
      BY <3>1
    <3>3. shown' \in [Echo!Fields -> Nat] /\ shown'[y] <= stats[y]
      BY <3>1, <3>2
    <3>4. \A x \in Echo!Fields : x # y => shown'[x] = shown[x]
      BY <3>1
    <3> QED
      BY <3>1, <3>3, <3>4
  <2>3. ASSUME NEW y \in Echo!Fields, Echo!stats_poll(y) \/ Stats!stats_poll(y)
        PROVE  PrintedAt'
    <3>1. /\ tpc = "copy" /\ y \in todo /\ todo' = todo \ {y}
          /\ previous' = [previous EXCEPT ![y] = stats[y]]
          /\ tpc' = tpc \/ todo' = {}
          /\ UNCHANGED <<stats, shown>>
      BY <2>3 DEF Echo!stats_poll, Stats!stats_poll
    <3>2. /\ previous' \in [Echo!Fields -> Nat] /\ previous'[y] = stats[y]
          /\ \A x \in Echo!Fields : x # y => previous'[x] = previous[x]
      BY <3>1
    <3> QED
      BY <3>1, <3>2
  <2> QED
    BY <2>1, <2>2, <2>3, FieldsAre DEF Echo!Thread, Stats!Thread
<1> QED
  BY <1>2, <1>3, <1>4 DEF ScenarioInv

\* Every step of either program, Ctrl+C and an arriving frame preserve the invariant.
LEMMA ScenarioStep ==
  ASSUME ScenarioInv,
         \/ Echo!Next \/ UNCHANGED Echo!vars
         \/ Stats!Next \/ UNCHANGED Stats!vars
  PROVE  ScenarioInv'
<1> USE DEF Echo!frames, Stats!frames, Echo!main, Stats!main, Echo!thread, Stats!thread
<1>1. CASE UNCHANGED Echo!vars \/ UNCHANGED Stats!vars
  BY <1>1 DEF Echo!vars, Stats!vars, ScenarioInv, NumbersAt, FramesAt, CountedAt, PrintedAt,
     MadeAt
<1>2. CASE Echo!exit_application \/ Stats!exit_application
  <2>1. /\ global_exit' = TRUE
        /\ scenario_pc' = scenario_pc \/ (scenario_pc = "poll" /\ scenario_pc' = "test")
        /\ UNCHANGED <<prog, xsks, port, free, fq, rx, rcvd, done, stats, previous, shown, tpc,
                       todo>>
    BY <1>2 DEF Echo!exit_application, Stats!exit_application
  <2>2. NumbersAt' /\ FramesAt'
    BY <2>1 DEF ScenarioInv, NumbersAt, FramesAt, Preparing, Serving, Leaving
  <2>3. CountedAt' /\ PrintedAt' /\ MadeAt'
    BY <2>1 DEF ScenarioInv, CountedAt, PrintedAt, MadeAt, Preparing, Serving
  <2> QED
    BY <2>2, <2>3 DEF ScenarioInv
<1>3. ASSUME NEW f \in Frames, Echo!Arrives(f) \/ Stats!Arrives(f) PROVE ScenarioInv'
  <2>1. /\ fq > 0 /\ rx < RxSize /\ stats["packets"] + rx < NPackets
        /\ fq' = fq - 1 /\ rx' = rx + 1
        /\ UNCHANGED <<scenario_pc, global_exit, prog, xsks, port, free, rcvd, done, stats,
                       previous, shown, tpc, todo>>
    BY <1>3 DEF Echo!Arrives, Stats!Arrives
  <2> QED
    BY <2>1, ScenarioConstants, FieldsAre DEF ScenarioInv, NumbersAt, FramesAt, CountedAt,
       PrintedAt, MadeAt, Preparing, Serving, Leaving
<1> QED
  BY <1>1, <1>2, <1>3, ScenarioPrepares, ScenarioReceives, ScenarioPrints
  DEF Echo!Next, Stats!Next, Echo!Main, Stats!Main

\* What the invariant says of either program.
LEMMA ScenarioInvEnough ==
  ASSUME ScenarioInv
  PROVE  /\ Echo!TypeOK /\ Echo!FramesKept
         /\ Stats!TypeOK /\ Stats!FramesKept /\ Stats!ShownOnce
<1>1. Echo!FramesKept /\ Stats!FramesKept
  BY DEF ScenarioInv, FramesAt, Echo!FramesKept, Stats!FramesKept, Serving, Leaving
<1>2. Stats!ShownOnce
  BY FieldsAre DEF ScenarioInv, PrintedAt, Stats!ShownOnce
<1>3. \A x \in Echo!Fields : stats[x] <= NPackets
  BY FieldsAre, ScenarioConstants DEF ScenarioInv, NumbersAt, FramesAt, CountedAt
<1>4. \A x \in Echo!Fields : /\ stats[x] \in 0 .. NPackets /\ previous[x] \in 0 .. NPackets
                             /\ shown[x] \in 0 .. NPackets
  BY <1>3, ScenarioConstants DEF ScenarioInv, CountedAt, PrintedAt
<1>5. {stats, previous, shown} \subseteq [Echo!Fields -> 0 .. NPackets]
  BY <1>4 DEF ScenarioInv, CountedAt, PrintedAt
<1>6. /\ free \in 0 .. NUM_FRAMES /\ fq \in 0 .. FqSize /\ rx \in 0 .. RxSize
      /\ rcvd \in 0 .. RX_BATCH_SIZE /\ done \in 0 .. rcvd
  BY ScenarioConstants DEF ScenarioInv, NumbersAt
<1>7. Echo!TypeOK
  BY <1>5, <1>6 DEF ScenarioInv, NumbersAt, PrintedAt, Echo!TypeOK
<1>8. Stats!TypeOK
  BY <1>7, FieldsAre DEF Echo!TypeOK, Stats!TypeOK
<1> QED
  BY <1>1, <1>2, <1>7, <1>8

\* While main receives its socket is in the map, and a program that redirects to it finds it.
LEMMA SocketIsFound ==
  ASSUME ScenarioInv
  PROVE  Echo!NotAborted /\ Stats!NotAborted
<1>1. ASSUME scenario_pc \in Serving, NEW f \in Frames
      PROVE  Echo!Verdict(f, Queue) # "aborted" /\ Stats!Verdict(f, Queue) # "aborted"
  <2>1. Queue \in xsks /\ prog \in {"none", "sock", "echo", "default"}
    BY <1>1 DEF ScenarioInv, MadeAt, NumbersAt
  <2>2. /\ Echo!xdp_sock_prog(Queue, xsks) # "aborted"
        /\ Stats!xdp_sock_prog(Queue, xsks) # "aborted"
    BY <2>1 DEF Echo!xdp_sock_prog, Stats!xdp_sock_prog, Echo!bpf_redirect_map,
       Stats!bpf_redirect_map
  <2>3. /\ Echo!xdp_echo_prog(f, Queue, xsks, port) # "aborted"
        /\ Stats!xdp_echo_prog(f, Queue, xsks, port) # "aborted"
    BY <2>1 DEF Echo!xdp_echo_prog, Stats!xdp_echo_prog, Echo!bpf_redirect_map,
       Stats!bpf_redirect_map
  <2>4. /\ Echo!default_prog(Queue, xsks) # "aborted" /\ Stats!default_prog(Queue, xsks) # "aborted"
    BY DEF Echo!default_prog, Stats!default_prog
  <2> QED
    BY <2>1, <2>2, <2>3, <2>4 DEF Echo!Verdict, Stats!Verdict
<1> QED
  BY <1>1 DEF Echo!NotAborted, Stats!NotAborted, Echo!Receiving, Stats!Receiving, Serving

\* The echo leaves what is not for its port, whether the port has been loaded or not.
LEMMA EchoLeavesOthers ==
  ASSUME ScenarioInv
  PROVE  Echo!OthersPass
<1> SUFFICES ASSUME prog = "echo", NEW f \in Frames, NEW q \in Queues,
                    Echo!Verdict(f, q) # "pass"
             PROVE  \/ f.etype = "ip" /\ f.tags = <<>> /\ f.protocol = "udp"
                    \/ /\ f.etype = "ip" /\ f.tags = <<>> /\ f.protocol = "tcp"
                       /\ f.dport \in {0, PORT}
  BY DEF Echo!OthersPass
<1>1. Echo!xdp_echo_prog(f, q, xsks, port) # "pass" /\ port \in {0, PORT}
  BY DEF Echo!Verdict, ScenarioInv, NumbersAt
<1>2. /\ Echo!h_proto(f) = "ip"
      /\ f.protocol = "tcp" => f.dport = port
      /\ f.protocol \in {"tcp", "udp"}
  <2>1. CASE Echo!h_proto(f) # "ip"
    BY <1>1, <2>1 DEF Echo!xdp_echo_prog
  <2>2. CASE f.protocol \notin {"tcp", "udp"}
    BY <1>1, <2>2 DEF Echo!xdp_echo_prog
  <2>3. CASE f.protocol = "tcp" /\ f.dport # port
    <3>1. f.protocol # "udp"
      BY <2>3
    <3> QED
      BY <1>1, <2>3, <3>1 DEF Echo!xdp_echo_prog
  <2> QED
    BY <2>1, <2>2, <2>3
<1>3. f.tags \in Seq(Nat) /\ f.etype = "ip" /\ f.tags = <<>>
  BY <1>2, KernelAssumption DEF Echo!FramesAssumption, Echo!h_proto, Echo!TypeBehind
<1> QED
  BY <1>1, <1>2, <1>3

\* What is sent back is the frame with its ends exchanged, and exchanging them again gives the
\* frame.
LEMMA EchoReplies ==
  ASSUME ScenarioInv
  PROVE  Echo!EchoIsReply
<1> SUFFICES ASSUME prog = "echo", NEW f \in Frames, NEW q \in Queues, Echo!Verdict(f, q) = "tx"
             PROVE  /\ Echo!Echoed(f).dmac = f.smac /\ Echo!Echoed(f).daddr = f.saddr
                    /\ Echo!Echoed(f).dport = f.sport
                    /\ Echo!Echoed(Echo!Echoed(f)) = f
                    /\ Echo!Verdict(Echo!Echoed(f), q) = "tx" => f.sport = port
  BY DEF Echo!EchoIsReply
<1>1. /\ f = [x \in DOMAIN f |-> f[x]]
      /\ {"smac", "dmac", "saddr", "daddr", "sport", "dport"} \subseteq DOMAIN f
  BY KernelAssumption DEF Echo!ScenarioAssumption
<1> DEFINE g == Echo!Echoed(f)
<1>2. /\ g = [x \in DOMAIN g |-> g[x]] /\ DOMAIN g = DOMAIN f
      /\ g.smac = f.dmac /\ g.dmac = f.smac /\ g.saddr = f.daddr /\ g.daddr = f.saddr
      /\ g.sport = f.dport /\ g.dport = f.sport
      /\ \A x \in DOMAIN f :
           x \notin {"smac", "dmac", "saddr", "daddr", "sport", "dport"} => g[x] = f[x]
  BY <1>1 DEF Echo!Echoed
<1>3. Echo!Echoed(g) = f
  BY <1>1, <1>2 DEF Echo!Echoed
<1>4. ASSUME Echo!Verdict(g, q) = "tx" PROVE f.sport = port
  <2>1. Echo!xdp_echo_prog(g, q, xsks, port) = "tx"
    BY <1>4 DEF Echo!Verdict
  <2>2. g.dport = port
    BY <2>1 DEF Echo!xdp_echo_prog, Echo!bpf_redirect_map
  <2> QED
    BY <1>2, <2>2
<1> QED
  BY <1>2, <1>3, <1>4
-----------------------------------------------------------------------------
(***************************************************************************)
(* Options.  Whatever was given before, an option that sets a mode or      *)
(* names the interface is the last of its kind once it has been applied.   *)
(***************************************************************************)
\* The text fields, the options and their arguments, and what struct config holds.
TextNames == {"filename", "progsec", "src_mac", "dest_mac"}
ModeLetters == {"A", "S", "N", "3"}
Letters == TextNames \cup ModeLetters
             \cup {"d", "r", "c", "z", "F", "M", "U", "p", "q", "Q", "h", "--"}
Arguments == Names \cup {"", "0", "1", "eth0"}
ConfigSet ==
  [xdp_flags : SUBSET {"SKB", "DRV", "HW"}, xsk_bind_flags : SUBSET {"COPY", "ZEROCOPY"},
   ifindex : Int, ifname : Names \cup {""}, redirect_ifindex : Int, do_unload : BOOLEAN,
   reuse_maps : BOOLEAN, xsk_poll_mode : BOOLEAN, verbose : BOOLEAN, xsk_if_queue : {0, 1},
   text : [TextNames -> Names \cup {"", "xdp_sock"}]]

\* While options are read, and where main goes on, the interface is the last that was named,
\* or none has been.
DeviceAt ==
  option_pc \in {"parse", "attach", "unload"} =>
    \/ option_pc = "parse" /\ option_cfg.ifindex = -1
    \/ /\ <<"d", option_cfg.ifname>> = Options!LastOf({"d"})
       /\ option_cfg.ifname \in DOMAIN Known
       /\ option_cfg.ifindex = Known[option_cfg.ifname]

\* The invariant.
OptionInv ==
  /\ option_pc \in {"parse", "attach", "unload", "usage", "overrun"}
  /\ option_cfg \in ConfigSet
  /\ given \in Seq(Letters \X Arguments) /\ Len(given) <= MaxArgs
  /\ Options!ModeIsLast /\ Options!GenericCopies /\ DeviceAt

\* The least element of a set of numbers.
LEMMA LeastNumber ==
  ASSUME NEW T \in SUBSET Nat, T # {}
  PROVE  \E m \in T : \A j \in T : m <= j
<1> DEFINE R == {p \in Nat \X Nat : p[1] < p[2]}
<1>1. IsWellFoundedOn(R, Nat)
  BY NatLessThanWellFounded DEF OpToRel
<1>2. PICK m \in T : \A y \in T : ~ (<<y, m>> \in R)
  BY ONLY <1>1, WFMin, T \in SUBSET Nat, T # {}
<1>3. \A y \in T : ~ (y < m)
  BY <1>2
<1> QED
  BY <1>2, <1>3

\* The greatest of some indices.
LEMMA LastIndex ==
  ASSUME NEW n \in Nat, NEW T \in SUBSET (1 .. n), T # {}
  PROVE  Options!Max(T) \in T /\ \A j \in T : j <= Options!Max(T)
<1> DEFINE U == {n - j : j \in T}
<1>0. \A j \in T : j \in Nat /\ n - j \in Nat
  OBVIOUS
<1>1. U \in SUBSET Nat /\ U # {}
  BY <1>0
<1> HIDE DEF U
<1>2. PICK u \in U : \A v \in U : u <= v
  BY ONLY <1>1, LeastNumber
<1>3. PICK m \in T : u = n - m
  BY DEF U
<1>4. \A j \in T : n - m <= n - j
  BY <1>2, <1>3 DEF U
<1>5. \A j \in T : m >= j
  BY <1>4
<1> QED
  BY <1>3, <1>5 DEF Options!Max

\* An option that is given is the last of a set it is in, and leaves the last of others.
LEMMA LastGiven ==
  ASSUME given \in Seq(Letters \X Arguments), NEW o \in Letters, NEW a \in Arguments,
         given' = Append(given, <<o, a>>), NEW os
  PROVE  Options!LastOf(os)' = IF o \in os THEN <<o, a>> ELSE Options!LastOf(os)
<1> DEFINE n == Len(given)
           I == {j \in 1 .. n : given[j][1] \in os}
           J == {j \in 1 .. n + 1 : given'[j][1] \in os}
<1>1. /\ n \in Nat /\ Len(given') = n + 1 /\ given'[n + 1] = <<o, a>>
      /\ \A j \in 1 .. n : given'[j] = given[j]
  OBVIOUS
<1>2. Options!LastOf(os) = IF (IF I # {} THEN Options!Max(I) ELSE 0) = 0 THEN <<"", "">>
                           ELSE given[IF I # {} THEN Options!Max(I) ELSE 0]
  BY DEF Options!LastOf, Options!SelectLastInSeq, Options!NULL
<1>3. Options!LastOf(os)' = IF (IF J # {} THEN Options!Max(J) ELSE 0) = 0 THEN <<"", "">>
                            ELSE given'[IF J # {} THEN Options!Max(J) ELSE 0]
  BY <1>1 DEF Options!LastOf, Options!SelectLastInSeq, Options!NULL
<1>4. J = IF o \in os THEN I \cup {n + 1} ELSE I
  BY <1>1
<1>5. /\ I \in SUBSET (1 .. n) /\ J \in SUBSET (1 .. n + 1) /\ n + 1 \in Nat
  BY <1>1
<1> HIDE DEF n, I, J
<1>6. CASE o \in os
  <2>1. J # {} /\ n + 1 \in J
    BY <1>4, <1>6
  <2>2. Options!Max(J) \in J /\ n + 1 <= Options!Max(J)
    BY ONLY <1>5, <2>1, LastIndex
  <2>3. Options!Max(J) \in 1 .. n + 1
    BY ONLY <1>5, <2>2
  <2>4. Options!Max(J) = n + 1 /\ n + 1 # 0
    BY ONLY <1>1, <2>2, <2>3
  <2>5. Options!LastOf(os)' = given'[n + 1]
    BY ONLY <1>3, <2>1, <2>4
  <2> QED
    BY ONLY <1>1, <1>6, <2>5
<1>7. CASE o \notin os /\ I = {}
  BY <1>2, <1>3, <1>4, <1>7
<1>8. CASE o \notin os /\ I # {}
  <2>1. Options!Max(I) \in I
    BY ONLY <1>1, <1>5, <1>8, LastIndex
  <2>2. Options!Max(I) \in 1 .. n
    BY <1>5, <2>1
  <2> QED
    BY <1>1, <1>2, <1>3, <1>4, <1>8, <2>2
<1> QED
  BY <1>6, <1>7, <1>8

\* The fields that hold text.
LEMMA TextFieldsAre == Options!Range(Options!TextFields) = TextNames
<1>1. DOMAIN Options!TextFields = {1, 2, 3, 4}
  BY DEF Options!TextFields
<1> QED
  BY <1>1 DEF Options!Range, Options!TextFields, TextNames

\* No option has been given at first.
LEMMA OptionInit == Options!Init => OptionInv
<1> SUFFICES ASSUME Options!Init PROVE OptionInv
  OBVIOUS
<1>1. Options!Range(Options!TextFields) = TextNames
  BY TextFieldsAre
<1>2. option_cfg \in ConfigSet
  <2> DEFINE t == [f \in TextNames |-> IF f = "progsec" THEN "xdp_sock" ELSE ""]
  <2>1. t \in [TextNames -> Names \cup {"", "xdp_sock"}]
    OBVIOUS
  <2>2. option_cfg = [xdp_flags |-> {}, xsk_bind_flags |-> {}, ifindex |-> -1, ifname |-> "",
            redirect_ifindex |-> 0, do_unload |-> FALSE, reuse_maps |-> FALSE,
            xsk_poll_mode |-> FALSE, verbose |-> TRUE, xsk_if_queue |-> 0, text |-> t]
    BY <1>1 DEF Options!Init, Options!NULL
  <2> HIDE DEF t
  <2>3. /\ {} \in SUBSET {"SKB", "DRV", "HW"} /\ {} \in SUBSET {"COPY", "ZEROCOPY"}
        /\ -1 \in Int /\ "" \in Names \cup {""} /\ 0 \in Int /\ 0 \in {0, 1}
    OBVIOUS
  <2>4. TRUE \in BOOLEAN /\ FALSE \in BOOLEAN
    OBVIOUS
  <2> QED
    BY ONLY <2>1, <2>2, <2>3, <2>4, Zenon DEF ConfigSet
<1>3. /\ option_pc = "parse" /\ given = <<>>
      /\ option_cfg.xdp_flags = {} /\ option_cfg.ifindex = -1
  BY DEF Options!Init
<1>4. given \in Seq(Letters \X Arguments) /\ Len(given) <= MaxArgs
  BY <1>3, KernelAssumption DEF Options!OptionsAssumption
<1>5. Options!LastOf({"A", "S", "N", "3"}) = <<"", "">>
  <2>1. \A x : {j \in 1 .. Len(given) : given[j][1] \in x} = {}
    BY <1>3
  <2> QED
    BY <2>1 DEF Options!LastOf, Options!SelectLastInSeq, Options!NULL
<1>6. Options!ModeIsLast
  <2> DEFINE l == Options!LastOf({"A", "S", "N", "3"})
             m == l[1]
  <2>1. l = <<"", "">>
    BY <1>5
  <2> HIDE DEF l
  <2>2. m = ""
    BY ONLY <2>1
  <2> HIDE DEF m
  <2>3. option_cfg.xdp_flags = IF m = "S" THEN {"SKB"} ELSE IF m = "N" THEN {"DRV"}
                               ELSE IF m = "3" THEN {"HW"} ELSE {}
    BY <1>3, <2>2
  <2> QED
    BY <2>3 DEF Options!ModeIsLast, l, m
<1>7. Options!GenericCopies /\ DeviceAt
  BY <1>3 DEF Options!GenericCopies, DeviceAt
<1> QED
  BY <1>2, <1>3, <1>4, <1>6, <1>7 DEF OptionInv

\* What an option may do to struct config for the invariant to go on.
LEMMA OptionApplied ==
  ASSUME OptionInv, Options!Parsing, NEW o \in Letters, NEW a \in Arguments,
         Options!Given(o, a), option_pc' \in {"parse", "usage", "overrun"},
         option_cfg' \in ConfigSet, Options!GenericCopies',
         option_cfg'.xdp_flags =
           IF o \notin ModeLetters THEN option_cfg.xdp_flags
           ELSE IF o = "S" THEN {"SKB"} ELSE IF o = "N" THEN {"DRV"} ELSE IF o = "3" THEN {"HW"}
           ELSE {},
         \/ option_pc' # "parse"
         \/ /\ o # "d" /\ option_cfg'.ifname = option_cfg.ifname
            /\ option_cfg'.ifindex = option_cfg.ifindex
         \/ /\ o = "d" /\ option_cfg'.ifname = a /\ a \in DOMAIN Known
            /\ option_cfg'.ifindex = Known[a]
  PROVE  OptionInv'
<1>1. /\ option_pc = "parse" /\ given \in Seq(Letters \X Arguments)
      /\ given' = Append(given, <<o, a>>) /\ Len(given) < MaxArgs
  BY DEF OptionInv, Options!Parsing, Options!Given
<1>2. given' \in Seq(Letters \X Arguments) /\ Len(given') <= MaxArgs
  BY <1>1, KernelAssumption DEF Options!OptionsAssumption
<1>3. \A os : Options!LastOf(os)' = IF o \in os THEN <<o, a>> ELSE Options!LastOf(os)
  BY <1>1, LastGiven
<1>4. Options!ModeIsLast'
  <2>1. /\ Options!LastOf({"A", "S", "N", "3"})' =
             IF o \in ModeLetters THEN <<o, a>> ELSE Options!LastOf({"A", "S", "N", "3"})
    BY <1>3 DEF ModeLetters
  <2>2. CASE o \notin ModeLetters
    BY <2>1, <2>2 DEF OptionInv, Options!ModeIsLast
  <2>3. CASE o \in ModeLetters
    BY <2>1, <2>3 DEF Options!ModeIsLast, ModeLetters
  <2> QED
    BY <2>2, <2>3
<1>5. DeviceAt'
  <2>1. Options!LastOf({"d"})' = IF o = "d" THEN <<o, a>> ELSE Options!LastOf({"d"})
    BY <1>3
  <2> QED
    BY <1>1, <2>1 DEF OptionInv, DeviceAt
<1> QED
  BY <1>2, <1>4, <1>5 DEF OptionInv

\* The interface of a struct config.
SameDevice(c, d) == d.ifname = c.ifname /\ d.ifindex = c.ifindex

\* struct config with other flags, another way to bind, or both.
Flagged(c, v) == [c EXCEPT !.xdp_flags = v]
Bound(c, w) == [c EXCEPT !.xsk_bind_flags = w]
FlaggedBound(c, v, w) == [c EXCEPT !.xdp_flags = v, !.xsk_bind_flags = w]

\* The mode is replaced, and nothing else.
LEMMA FlagsReplaced ==
  ASSUME NEW c \in ConfigSet, NEW v \in SUBSET {"SKB", "DRV", "HW"}
  PROVE  /\ Flagged(c, v) \in ConfigSet /\ Flagged(c, v).xdp_flags = v
         /\ Flagged(c, v).xsk_bind_flags = c.xsk_bind_flags /\ SameDevice(c, Flagged(c, v))
  BY DEF ConfigSet, SameDevice, Flagged

\* The binding is replaced, and nothing else.
LEMMA BindReplaced ==
  ASSUME NEW c \in ConfigSet, NEW w \in SUBSET {"COPY", "ZEROCOPY"}
  PROVE  /\ Bound(c, w) \in ConfigSet /\ Bound(c, w).xdp_flags = c.xdp_flags
         /\ Bound(c, w).xsk_bind_flags = w /\ SameDevice(c, Bound(c, w))
  BY DEF ConfigSet, SameDevice, Bound

\* Mode and binding together.
LEMMA BothReplaced ==
  ASSUME NEW c \in ConfigSet, NEW v \in SUBSET {"SKB", "DRV", "HW"},
         NEW w \in SUBSET {"COPY", "ZEROCOPY"}
  PROVE  /\ FlaggedBound(c, v, w) \in ConfigSet /\ FlaggedBound(c, v, w).xdp_flags = v
         /\ FlaggedBound(c, v, w).xsk_bind_flags = w /\ SameDevice(c, FlaggedBound(c, v, w))
  BY DEF ConfigSet, SameDevice, FlaggedBound

\* What else an option may set leaves flags and interface alone.
SameElse(c, d) ==
  /\ d \in ConfigSet /\ d.xdp_flags = c.xdp_flags /\ d.xsk_bind_flags = c.xsk_bind_flags
  /\ SameDevice(c, d)

\* The options without an argument.
LEMMA SwitchSet ==
  ASSUME NEW c \in ConfigSet
  PROVE  /\ SameElse(c, [c EXCEPT !.reuse_maps = TRUE])
         /\ SameElse(c, [c EXCEPT !.do_unload = TRUE])
         /\ SameElse(c, [c EXCEPT !.xsk_poll_mode = TRUE])
         /\ SameElse(c, [c EXCEPT !.verbose = FALSE])
<1>1. SameElse(c, [c EXCEPT !.reuse_maps = TRUE])
  BY DEF ConfigSet, SameElse, SameDevice
<1>2. SameElse(c, [c EXCEPT !.do_unload = TRUE])
  BY DEF ConfigSet, SameElse, SameDevice
<1>3. SameElse(c, [c EXCEPT !.xsk_poll_mode = TRUE])
  BY DEF ConfigSet, SameElse, SameDevice
<1>4. SameElse(c, [c EXCEPT !.verbose = FALSE])
  BY DEF ConfigSet, SameElse, SameDevice
<1> QED
  BY <1>1, <1>2, <1>3, <1>4

\* The interface to redirect to, and the queue.
LEMMA NumberSet ==
  ASSUME NEW c \in ConfigSet, NEW r \in Int, NEW q \in {0, 1}
  PROVE  /\ SameElse(c, [c EXCEPT !.redirect_ifindex = r])
         /\ SameElse(c, [c EXCEPT !.xsk_if_queue = q])
  BY DEF ConfigSet, SameElse, SameDevice

\* A text field.
LEMMA TextSet ==
  ASSUME NEW c \in ConfigSet, NEW f \in TextNames, NEW n \in Names
  PROVE  SameElse(c, [c EXCEPT !.text[f] = n])
  BY DEF ConfigSet, SameElse, SameDevice

\* struct config with another interface.
Renamed(c, n, x) == [c EXCEPT !.ifname = n, !.ifindex = x]

\* The interface is replaced, and nothing else.
LEMMA DeviceSet ==
  ASSUME NEW c \in ConfigSet, NEW n \in Names, NEW x \in Int
  PROVE  /\ Renamed(c, n, x) \in ConfigSet
         /\ Renamed(c, n, x).ifname = n /\ Renamed(c, n, x).ifindex = x
         /\ Renamed(c, n, x).xdp_flags = c.xdp_flags
         /\ Renamed(c, n, x).xsk_bind_flags = c.xsk_bind_flags
  BY DEF ConfigSet, Renamed

\* An option that leaves flags and interface alone.
LEMMA ElseApplied ==
  ASSUME OptionInv, Options!Parsing, NEW o \in Letters, NEW a \in Arguments,
         Options!Given(o, a), option_pc' \in {"parse", "usage", "overrun"},
         o \notin ModeLetters, o # "d" \/ option_pc' # "parse",
         SameElse(option_cfg, option_cfg') \/ option_cfg' = option_cfg
  PROVE  OptionInv'
<1>1. /\ option_cfg' \in ConfigSet /\ option_cfg'.xdp_flags = option_cfg.xdp_flags
      /\ option_cfg'.xsk_bind_flags = option_cfg.xsk_bind_flags
      /\ option_cfg'.ifname = option_cfg.ifname /\ option_cfg'.ifindex = option_cfg.ifindex
  BY DEF SameElse, SameDevice, OptionInv
<1>2. Options!GenericCopies'
  BY <1>1 DEF OptionInv, Options!GenericCopies
<1> QED
  BY <1>1, <1>2, OptionApplied

\* An option for the mode.
LEMMA ModeApplied ==
  ASSUME OptionInv, Options!Parsing, NEW o \in ModeLetters, Options!Given(o, ""),
         option_pc' = option_pc, option_cfg' \in ConfigSet, SameDevice(option_cfg, option_cfg'),
         option_cfg'.xdp_flags = IF o = "S" THEN {"SKB"} ELSE IF o = "N" THEN {"DRV"}
                                 ELSE IF o = "3" THEN {"HW"} ELSE {},
         o = "S" => "COPY" \in option_cfg'.xsk_bind_flags
  PROVE  OptionInv'
<1>1. /\ o \in Letters /\ o # "d" /\ "" \in Arguments
  BY DEF Letters, ModeLetters, Arguments
<1>2. option_pc' = "parse"
  BY DEF Options!Parsing
<1>3. Options!GenericCopies'
  <2>1. CASE o = "S"
    BY <2>1 DEF Options!GenericCopies
  <2>2. CASE o # "S"
    <3>1. option_cfg'.xdp_flags = IF o = "N" THEN {"DRV"} ELSE IF o = "3" THEN {"HW"} ELSE {}
      BY <2>2
    <3>2. "SKB" \notin {"DRV"} /\ "SKB" \notin {"HW"} /\ "SKB" \notin {}
      OBVIOUS
    <3>3. "SKB" \notin option_cfg'.xdp_flags
      <4>1. CASE o = "N"
        BY ONLY <3>1, <3>2, <4>1
      <4>2. CASE o # "N" /\ o = "3"
        BY ONLY <3>1, <3>2, <4>2
      <4>3. CASE o # "N" /\ o # "3"
        BY ONLY <3>1, <3>2, <4>3
      <4> QED
        BY <4>1, <4>2, <4>3
    <3> QED
      BY <3>3 DEF Options!GenericCopies
  <2> QED
    BY <2>1, <2>2
<1> QED
  BY <1>1, <1>2, <1>3, OptionApplied DEF SameDevice

\* The options for mode and binding.
LEMMA FlagsApplied ==
  ASSUME OptionInv,
         \/ Options!auto_mode \/ Options!skb_mode \/ Options!native_mode \/ Options!offload_mode
         \/ Options!copy \/ Options!zero_copy \/ Options!force
  PROVE  OptionInv'
<1>1. /\ option_cfg \in ConfigSet /\ option_cfg.xdp_flags \in SUBSET {"SKB", "DRV", "HW"}
      /\ option_cfg.xsk_bind_flags \in SUBSET {"COPY", "ZEROCOPY"}
  BY DEF OptionInv, ConfigSet
<1>2. /\ Options!Cleared = {} /\ "COPY" \in Options!Copying
      /\ Options!Copying \in SUBSET {"COPY", "ZEROCOPY"}
      /\ Options!ZeroCopying \in SUBSET {"COPY", "ZEROCOPY"}
      /\ "COPY" \in option_cfg.xsk_bind_flags => "COPY" \in Options!ZeroCopying
  BY <1>1 DEF Options!Cleared, Options!Modes, Options!Copying, Options!ZeroCopying
<1>3. {{}, {"SKB"}, {"DRV"}, {"HW"}, option_cfg.xdp_flags \ {"UPDATE_IF_NOEXIST"}}
        \subseteq SUBSET {"SKB", "DRV", "HW"}
  BY <1>1
<1>4. option_cfg.xdp_flags \ {"UPDATE_IF_NOEXIST"} = option_cfg.xdp_flags
  BY <1>1
<1>5. CASE Options!auto_mode
  <2>1. /\ Options!Parsing /\ Options!Given("A", "") /\ option_pc' = option_pc
        /\ option_cfg' = Flagged(option_cfg, {}) /\ "A" \in ModeLetters
    BY <1>2, <1>5 DEF Options!auto_mode, Options!Set, Options!NULL,
       ModeLetters, Flagged
  <2> QED
    BY <1>1, <1>2, <1>3, <2>1, FlagsReplaced, ModeApplied
<1>6. CASE Options!native_mode
  <2>1. /\ Options!Parsing /\ Options!Given("N", "") /\ option_pc' = option_pc
        /\ option_cfg' = Flagged(option_cfg, {"DRV"}) /\ "N" \in ModeLetters
    BY <1>2, <1>6 DEF Options!native_mode, Options!Set, Options!NULL,
       ModeLetters, Flagged
  <2> QED
    BY <1>1, <1>2, <1>3, <2>1, FlagsReplaced, ModeApplied
<1>7. CASE Options!offload_mode
  <2>1. /\ Options!Parsing /\ Options!Given("3", "") /\ option_pc' = option_pc
        /\ option_cfg' = Flagged(option_cfg, {"HW"}) /\ "3" \in ModeLetters
    BY <1>2, <1>7 DEF Options!offload_mode, Options!Set, Options!NULL,
       ModeLetters, Flagged
  <2> QED
    BY <1>1, <1>2, <1>3, <2>1, FlagsReplaced, ModeApplied
<1>8. CASE Options!skb_mode
  <2>1. /\ Options!Parsing /\ Options!Given("S", "") /\ option_pc' = option_pc
        /\ option_cfg' = FlaggedBound(option_cfg, {"SKB"}, Options!Copying) /\ "S" \in ModeLetters
    BY <1>2, <1>8 DEF Options!skb_mode, Options!Set, Options!NULL, ModeLetters, FlaggedBound
  <2>2. /\ option_cfg' \in ConfigSet /\ option_cfg'.xdp_flags = {"SKB"}
        /\ "COPY" \in option_cfg'.xsk_bind_flags /\ SameDevice(option_cfg, option_cfg')
    <3>1. {"SKB"} \in SUBSET {"SKB", "DRV", "HW"}
      OBVIOUS
    <3>2. LET d == FlaggedBound(option_cfg, {"SKB"}, Options!Copying)
          IN  /\ d \in ConfigSet /\ d.xdp_flags = {"SKB"} /\ d.xsk_bind_flags = Options!Copying
              /\ SameDevice(option_cfg, d)
      BY ONLY <1>1, <1>2, <3>1, BothReplaced
    <3> QED
      BY ONLY <1>2, <2>1, <3>2
  <2> QED
    BY <2>1, <2>2, ModeApplied
<1>9. ASSUME NEW w \in SUBSET {"COPY", "ZEROCOPY"}, NEW o \in {"c", "z"},
              "COPY" \in option_cfg.xsk_bind_flags => "COPY" \in w,
              Options!Set(o, "", Bound(option_cfg, w))
       PROVE  OptionInv'
  <2>1. /\ Options!Parsing /\ Options!Given(o, "") /\ option_pc' = option_pc
        /\ option_cfg' = Bound(option_cfg, w)
    BY <1>9 DEF Options!Set
  <2>2. /\ o \in Letters /\ o \notin ModeLetters /\ o # "d" /\ "" \in Arguments
    BY DEF Letters, ModeLetters, Arguments
  <2>3. /\ option_cfg' \in ConfigSet /\ option_cfg'.xdp_flags = option_cfg.xdp_flags
        /\ option_cfg'.xsk_bind_flags = w
        /\ option_cfg'.ifname = option_cfg.ifname /\ option_cfg'.ifindex = option_cfg.ifindex
    BY <1>1, <2>1, BindReplaced DEF SameDevice
  <2>4. Options!GenericCopies'
    BY <1>9, <2>3 DEF OptionInv, Options!GenericCopies
  <2>5. option_pc' = "parse"
    BY <2>1 DEF Options!Parsing
  <2> QED
    BY <2>1, <2>2, <2>3, <2>4, <2>5, OptionApplied
<1>10. CASE Options!copy
  BY <1>2, <1>9, <1>10 DEF Options!copy, Options!NULL, Bound
<1>11. CASE Options!zero_copy
  BY <1>2, <1>9, <1>11 DEF Options!zero_copy, Options!NULL, Bound
<1>12. CASE Options!force
  <2>1. /\ Options!Parsing /\ Options!Given("F", "") /\ option_pc' = option_pc
        /\ option_cfg' = Flagged(option_cfg, option_cfg.xdp_flags)
    BY <1>4, <1>12, Zenon DEF Options!force, Options!Set, Options!NULL, Flagged
  <2>2. "F" \in Letters /\ "F" \notin ModeLetters /\ "" \in Arguments
    BY DEF Letters, ModeLetters, Arguments
  <2>3. option_pc' = "parse"
    BY <2>1 DEF Options!Parsing
  <2>4. SameElse(option_cfg, option_cfg')
    BY <1>1, <2>1, FlagsReplaced DEF SameElse
  <2> QED
    BY <2>1, <2>2, <2>3, <2>4, ElseApplied
<1> QED
  BY <1>5, <1>6, <1>7, <1>8, <1>10, <1>11, <1>12

\* The options that set anything else.
LEMMA OthersApplied ==
  ASSUME OptionInv,
         \/ Options!Switch \/ \E q \in Options!QueueArgs : Options!queue(q)
         \/ \E n \in Names : Options!redirect_dev(n) \/ \E j \in 1 .. 4 : Options!Text(j, n)
         \/ Options!help \/ Options!option_wrappers_to_options
  PROVE  OptionInv'
<1>1. option_cfg \in ConfigSet
  BY DEF OptionInv
<1>2. ASSUME Options!Parsing, NEW o \in Letters, NEW a \in Arguments, Options!Given(o, a),
             o \notin ModeLetters \cup {"d"},
             option_pc' = option_pc \/ option_pc' \in {"usage", "overrun"},
             SameElse(option_cfg, option_cfg') \/ option_cfg' = option_cfg
      PROVE  OptionInv'
  BY <1>2, ElseApplied DEF Options!Parsing
<1>3. CASE Options!Switch
  <2>1. PICK o \in {"M", "U", "p", "q"} :
          /\ Options!Parsing /\ Options!Given(o, "") /\ option_pc' = option_pc
          /\ SameElse(option_cfg, option_cfg')
    BY <1>1, <1>3, SwitchSet DEF Options!Switch, Options!Set, Options!NULL
  <2>2. o \in Letters /\ o \notin ModeLetters \cup {"d"} /\ "" \in Arguments
    BY DEF Letters, ModeLetters, Arguments
  <2> QED
    BY <1>2, <2>1, <2>2
<1>4. ASSUME NEW q \in Options!QueueArgs, Options!queue(q) PROVE OptionInv'
  <2>1. /\ Options!Parsing /\ Options!Given("Q", q) /\ option_pc' = option_pc
        /\ option_cfg' = [option_cfg EXCEPT !.xsk_if_queue = Options!Atoi(q)]
    BY <1>4 DEF Options!queue, Options!Set
  <2>2. Options!Atoi(q) \in {0, 1} /\ 0 \in Int
    BY DEF Options!Atoi
  <2>3. SameElse(option_cfg, option_cfg')
    BY <1>1, <2>1, <2>2, NumberSet
  <2>4. "Q" \in Letters /\ "Q" \notin ModeLetters \cup {"d"} /\ q \in Arguments
    BY DEF Letters, ModeLetters, Arguments, Options!QueueArgs
  <2> QED
    BY <1>2, <2>1, <2>3, <2>4
<1>5. ASSUME NEW n \in Names, Options!redirect_dev(n) PROVE OptionInv'
  <2>1. Options!IfNameToIndex(n) \in Int /\ 0 \in {0, 1}
    BY KernelAssumption DEF Options!IfNameToIndex, Options!OptionsAssumption
  <2>2. SameElse(option_cfg, Options!Redirected(n))
    BY <1>1, <2>1, NumberSet DEF Options!Redirected
  <2>3. /\ Options!Parsing /\ Options!Given("r", n)
        /\ option_pc' = option_pc \/ option_pc' = "usage"
        /\ option_cfg' = option_cfg \/ option_cfg' = Options!Redirected(n)
    BY <1>5 DEF Options!redirect_dev, Options!DeviceTaken, Options!Set, Options!Usage
  <2>4. "r" \in Letters /\ "r" \notin ModeLetters \cup {"d"} /\ n \in Arguments
    BY DEF Letters, ModeLetters, Arguments
  <2> QED
    BY <1>2, <2>2, <2>3, <2>4
<1>6. ASSUME NEW n \in Names, NEW j \in 1 .. 4, Options!Text(j, n) PROVE OptionInv'
  <2>1. Options!TextFields[j] \in TextNames
    BY DEF Options!TextFields, TextNames
  <2>2. SameElse(option_cfg, [option_cfg EXCEPT !.text[Options!TextFields[j]] = n])
    BY <1>1, <2>1, TextSet
  <2>3. /\ Options!Parsing /\ Options!Given(Options!TextFields[j], n) /\ option_pc' = option_pc
        /\ option_cfg' = [option_cfg EXCEPT !.text[Options!TextFields[j]] = n]
    BY <1>6 DEF Options!Text, Options!Set
  <2>4. /\ Options!TextFields[j] \in Letters /\ n \in Arguments
        /\ Options!TextFields[j] \notin ModeLetters \cup {"d"}
    BY <2>1 DEF Letters, TextNames, ModeLetters, Arguments
  <2> QED
    BY <1>2, <2>2, <2>3, <2>4
<1>7. CASE Options!help \/ Options!option_wrappers_to_options
  <2>1. PICK o \in {"h", "--"} :
          /\ Options!Parsing /\ Options!Given(o, "") /\ option_pc' \in {"usage", "overrun"}
          /\ option_cfg' = option_cfg
    BY <1>7 DEF Options!help, Options!Usage, Options!option_wrappers_to_options, Options!NULL
  <2>2. o \in Letters /\ o \notin ModeLetters \cup {"d"} /\ "" \in Arguments
    BY DEF Letters, ModeLetters, Arguments
  <2> QED
    BY <1>2, <2>1, <2>2
<1> QED
  BY <1>3, <1>4, <1>5, <1>6, <1>7

\* An interface that is named: too long or unknown it ends in usage.
LEMMA DeviceApplied ==
  ASSUME OptionInv, NEW n \in Names, Options!dev(n)
  PROVE  OptionInv'
<1>1. /\ option_cfg \in ConfigSet /\ "d" \in Letters /\ "d" \notin ModeLetters
      /\ n \in Arguments
  BY DEF OptionInv, Letters, ModeLetters, Arguments
<1>2. Options!IfNameToIndex(n) \in Int
  BY KernelAssumption DEF Options!IfNameToIndex, Options!OptionsAssumption
<1>3. Options!Parsing /\ Options!Given("d", n) /\ option_pc = "parse"
  BY DEF Options!dev, Options!DeviceTaken, Options!Set, Options!Usage, Options!Parsing
<1>4. CASE option_pc' = "usage" /\ option_cfg' = option_cfg
  BY <1>1, <1>3, <1>4, ElseApplied
<1>5. CASE /\ option_cfg' = Options!Named(n)
           /\ option_pc' = "usage" \/ (option_pc' = "parse" /\ Options!IfNameToIndex(n) # 0)
  <2>1. /\ option_cfg' \in ConfigSet /\ option_cfg'.ifname = n
        /\ option_cfg'.ifindex = Options!IfNameToIndex(n)
        /\ option_cfg'.xdp_flags = option_cfg.xdp_flags
        /\ option_cfg'.xsk_bind_flags = option_cfg.xsk_bind_flags
    <3>1. option_cfg' = Renamed(option_cfg, n, Options!IfNameToIndex(n))
      BY <1>5 DEF Options!Named, Renamed
    <3> QED
      BY <1>1, <1>2, <3>1, DeviceSet
  <2>2. Options!GenericCopies'
    BY <2>1 DEF OptionInv, Options!GenericCopies
  <2>3. Options!IfNameToIndex(n) # 0 => n \in DOMAIN Known /\ Options!IfNameToIndex(n) = Known[n]
    BY DEF Options!IfNameToIndex
  <2>4. \/ option_pc' = "usage"
        \/ option_pc' = "parse" /\ n \in DOMAIN Known /\ option_cfg'.ifindex = Known[n]
    BY <1>5, <2>1, <2>3
  <2>5. option_pc' \in {"parse", "usage", "overrun"}
    BY <2>4
  <2> QED
    BY ONLY OptionInv, <1>1, <1>3, <2>1, <2>2, <2>4, <2>5, OptionApplied
<1> QED
  BY <1>3, <1>4, <1>5 DEF Options!dev, Options!DeviceTaken, Options!Set, Options!Usage

\* Every option and the decision of main preserve the invariant.
LEMMA OptionStep == OptionInv /\ [Options!Next]_(Options!vars) => OptionInv'
<1> SUFFICES ASSUME OptionInv, [Options!Next]_(Options!vars) PROVE OptionInv'
  OBVIOUS
<1>1. ASSUME UNCHANGED <<option_cfg, given>>,
             \/ option_pc' = option_pc \/ option_pc' = "usage"
             \/ /\ option_pc = "parse" /\ option_cfg.ifindex # -1
                /\ option_pc' \in {"unload", "attach"}
      PROVE  OptionInv'
  <2>1. \A os : Options!LastOf(os)' = Options!LastOf(os)
    BY <1>1 DEF Options!LastOf, Options!SelectLastInSeq
  <2>2. Options!ModeIsLast' /\ Options!GenericCopies'
    BY <1>1, <2>1 DEF OptionInv, Options!ModeIsLast, Options!GenericCopies
  <2>3. DeviceAt'
    BY <1>1, <2>1 DEF OptionInv, DeviceAt
  <2> QED
    BY <1>1, <2>2, <2>3 DEF OptionInv
<1>2. CASE Options!main
  BY <1>1, <1>2 DEF Options!main, Options!Required
<1>3. CASE Options!Done \/ UNCHANGED Options!vars
  BY <1>1, <1>3 DEF Options!Done, Options!vars
<1> QED
  BY <1>2, <1>3, FlagsApplied, OthersApplied, DeviceApplied DEF Options!Next

\* What the invariant says of the options.
LEMMA OptionInvEnough ==
  ASSUME OptionInv
  PROVE  Options!TypeOK /\ Options!ModeIsLast /\ Options!DeviceIsLast /\ Options!GenericCopies
<1>1. Options!DeviceIsLast
  BY KernelAssumption DEF OptionInv, DeviceAt, Options!DeviceIsLast, Options!Goes,
     Options!OptionsAssumption
<1>2. Options!TypeOK
  <2>1. Options!Range(Options!TextFields) = TextNames
    BY TextFieldsAre
  <2>2. \A f \in TextNames : option_cfg.text[f] \in Names \cup {"", "xdp_sock"}
    BY DEF OptionInv, ConfigSet
  <2>3. /\ option_cfg.xdp_flags \subseteq {"SKB", "DRV", "HW"}
        /\ option_cfg.xsk_bind_flags \subseteq {"COPY", "ZEROCOPY"}
        /\ option_cfg.ifindex \in Int /\ option_cfg.ifname \in Names \cup {""}
        /\ option_cfg.xsk_if_queue \in {0, 1}
    BY DEF OptionInv, ConfigSet
  <2> QED
    BY <2>1, <2>2, <2>3 DEF OptionInv, Options!TypeOK, Options!Modes, Options!NULL
<1> QED
  BY <1>1, <1>2 DEF OptionInv

\* The program of the scenarios serves its port and does as its options say, for any frames,
\* queues, sizes of the rings and of the batch, any names and any command line: the last option
\* decides; no frame of the socket's queue is aborted, whatever is not for the port is left to
\* the kernel and what is echoed is a reply; no frame of the UMEM is lost; and no packet is in
\* two of the printed rates.
THEOREM ScenarioKeepsItsPromises == Spec => []ScenarioServes
<1> DEFINE S == part \in {"echo", "stats"} => ScenarioInv
           O == part = "options" => OptionInv
<1>1. Init => S /\ O
  BY ScenarioInit, OptionInit DEF Init
<1>2. [Next]_vars /\ part' = "options" => part = "options" /\ [Options!Next]_(Options!vars)
  BY DEF Next, Step, MayStop, vars, optionVars, Options!vars
<1>3. [Next]_vars /\ part' \in {"echo", "stats"} =>
        /\ part \in {"echo", "stats"}
        /\ \/ Echo!Next \/ UNCHANGED Echo!vars
           \/ Stats!Next \/ UNCHANGED Stats!vars
  <2>1. UNCHANGED scenarioVars => UNCHANGED Echo!vars
    BY DEF scenarioVars, Echo!vars, Echo!main, Echo!frames, Echo!thread
  <2> QED
    BY <2>1 DEF Next, Step, MayStop, vars
<1>4. S /\ O /\ [Next]_vars => S' /\ O'
  BY <1>2, <1>3, ScenarioStep, OptionStep
<1>5. S /\ O => ScenarioServes
  BY ScenarioInvEnough, SocketIsFound, EchoLeavesOthers, EchoReplies, OptionInvEnough
  DEF ScenarioServes
<1> QED
  BY <1>1, <1>4, <1>5, PTL DEF Spec
=============================================================================
