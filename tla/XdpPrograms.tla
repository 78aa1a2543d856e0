---------------------------- MODULE XdpPrograms ----------------------------
(***************************************************************************)
(* What the XDP programs answer for a frame: the program of scenario 1     *)
(* (Escenarios 1 y 2/af_xdp_kern.c), the echo of scenario 2 (xdp_echo.c),  *)
(* the program of the flow monitor (flujos/libs/xdp/af_xdp_kern.c), and    *)
(* the one libbpf loads when there is none (xsk.c).                        *)
(*                                                                         *)
(* A frame is what these and parsePacket see of it: the fields they read,  *)
(* and how many bytes of it there are.  A field lies in the frame or       *)
(* behind its end, where the kernel's programs refuse to look and the      *)
(* monitor finds what an earlier packet left in the buffer.                *)
(*                                                                         *)
(* A cursor nh is an offset; a helper that refuses a header answers Fails. *)
(***************************************************************************)
EXTENDS Integers, Sequences, FiniteSets

CONSTANT Frames

\* 16-bit types: an EtherType, or a length when the frame is an 802.3 one; the
\* parser of the monitor compares them with the numbers of IP protocols too.
Types == {"vlan", "ip", "udp", "tcp", "icmp", "other"}

FramesAssumption ==
  \A f \in Frames :
    /\ f.tags \in Seq(Nat)                         \* 802.1Q identifiers, outermost first
    /\ f.etype \in Types \ {"vlan"}                \* the type behind the tags
    /\ f.ihl \in 0 .. 15 /\ f.tot_len \in Nat      \* of the IP header
    /\ f.protocol \in Types \ {"vlan", "ip"} /\ f.fragment \in BOOLEAN
    /\ f.doff \in 0 .. 15                          \* of the TCP header
    /\ f.udplen \in Nat                            \* of the UDP header
    /\ f.pktgen \in BOOLEAN                        \* the payload begins with its magic number
    /\ f.caplen \in Nat

ETH_ALEN == 6
ETH_HLEN == 14
TAG_SIZE == 4
IP_HLEN == 20
UDP_HLEN == 8
TCP_MIN_HLEN == 20
ICMP_HLEN == 8
PKTGEN_HLEN == 16

\* Offsets: the type behind n tags, the IP header, the header behind that.
TypeAt(n) == 2 * ETH_ALEN + n * TAG_SIZE
IpAt(f) == ETH_HLEN + Len(f.tags) * TAG_SIZE
L4At(f) == IpAt(f) + 4 * f.ihl

\* The bytes offset .. offset + size - 1 are in the frame.
Has(f, offset, size) == offset + size <= f.caplen

TypeBehind(f, n) == IF n < Len(f.tags) THEN "vlan" ELSE f.etype
-----------------------------------------------------------------------------
Fails == -1
-----------------------------------------------------------------------------
(***************************************************************************)
(* The helpers: the offset behind a header that passes its checks.         *)
(***************************************************************************)
\* parse_ethhdr of the programs, which knows no VLAN tags.
parse_ethhdr(f) == IF Has(f, 0, ETH_HLEN) THEN ETH_HLEN ELSE Fails
h_proto(f) == TypeBehind(f, 0)

parse_iphdr(f, nh) ==
  IF Has(f, nh, IP_HLEN) /\ 4 * f.ihl >= IP_HLEN /\ Has(f, nh, 4 * f.ihl)
    THEN nh + 4 * f.ihl
    ELSE Fails

\* A wrong length field is an answer of -1 too, but moves the cursor.
parse_udphdr(f, nh) == IF Has(f, nh, UDP_HLEN) THEN nh + UDP_HLEN ELSE Fails
UdpOk(f, nh) == parse_udphdr(f, nh) # Fails /\ f.udplen >= UDP_HLEN

\* sizeof(h) in xdp_echo.c is the size of a pointer: the check for a data offset of
\* less than five words lets three and four pass.
SizeofPointer == 8
parse_tcphdr(f, nh) ==
  IF Has(f, nh, TCP_MIN_HLEN) /\ 4 * f.doff >= SizeofPointer /\ Has(f, nh, 4 * f.doff)
    THEN nh + 4 * f.doff
    ELSE Fails

parse_pktgenhdr(f, nh) == Has(f, nh, PKTGEN_HLEN) /\ f.pktgen

\* bpf_redirect_map with flags 0: without a socket in the map for the queue, the
\* packet is dropped as XDP_ABORTED.
bpf_redirect_map(xsks, q) == IF q \in xsks THEN "redirect" ELSE "aborted"
-----------------------------------------------------------------------------
(***************************************************************************)
(* The programs.  xsks is the set of queues with a socket in xsks_map, q   *)
(* the queue the frame came in on, port the value of xdp_puerto_map.       *)
(***************************************************************************)
xdp_sock_prog(q, xsks) ==
  CASE q = 1 -> bpf_redirect_map(xsks, q)
    [] q = 2 -> "drop"
    [] OTHER -> "pass"

xdp_echo_prog(f, q, xsks, port) ==
  LET ip == parse_iphdr(f, ETH_HLEN) IN
  IF parse_ethhdr(f) = Fails \/ h_proto(f) # "ip" \/ ip = Fails THEN "pass" ELSE
  CASE f.protocol = "tcp" -> IF parse_tcphdr(f, ip) # Fails /\ f.dport = port THEN "drop" ELSE "pass"
    [] f.protocol = "udp" /\ ~ UdpOk(f, ip) -> "pass"
    [] f.protocol = "udp" /\ UdpOk(f, ip) /\ f.dport = port -> "tx"
    [] f.protocol = "udp" /\ UdpOk(f, ip) /\ f.dport # port -> bpf_redirect_map(xsks, q)
    [] OTHER -> "pass"

\* What xdp_echo_prog sends back: MAC and IP addresses and UDP ports exchanged.
Echoed(f) == [f EXCEPT !.smac = f.dmac, !.dmac = f.smac, !.saddr = f.daddr, !.daddr = f.saddr,
                       !.sport = f.dport, !.dport = f.sport]

\* The monitor's program ignores what parse_udphdr answers, not where it leaves nh.
monitor_prog(f, q, xsks) ==
  LET ip == parse_iphdr(f, ETH_HLEN)
      udp == IF parse_udphdr(f, ip) = Fails THEN ip ELSE parse_udphdr(f, ip)
  IN  IF /\ parse_ethhdr(f) # Fails /\ h_proto(f) = "ip"
         /\ ip # Fails /\ f.protocol = "udp"
         /\ parse_pktgenhdr(f, udp)
         /\ q \in xsks
      THEN bpf_redirect_map(xsks, q)
      ELSE "pass"

\* The program of xsk_load_xdp_prog: every frame to the queue's socket, if any.
default_prog(q, xsks) == IF q \in xsks THEN "redirect" ELSE "pass"
=============================================================================
