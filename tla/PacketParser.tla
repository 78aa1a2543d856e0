---------------------------- MODULE PacketParser ----------------------------
(***************************************************************************)
(* parsePacket (flujos/src/dp.c) and processL4Flow (IPflow.c): how a frame *)
(* becomes the packet of a flow.  One step is one turn of the while loop   *)
(* over aux16.  Bytes behind caplen are read too where the code does not   *)
(* check: they hold anything.                                              *)
(***************************************************************************)
EXTENDS XdpPrograms

CONSTANT VlanIds          \* what the 12 bits of an identifier hold, in a tag or behind the end

NoTag == 65535            \* vlanTag = -1 in 16 bits
IP_MAX_HLEN == 60
TCP_MAX_HLEN == 60

VARIABLES
  frame,
  num_tags, bp, aux16, vlanTag, ipHLen, ipLen,   \* of parsePacket
  addrs, ports,   \* does the flow hold the frame's addresses, its ports: "own", "none", "stale"
  outcome,        \* "parsing", "ignored", "malformed", "flow" (insertFlow is called)
  proto,          \* transport_protocol of the flow
  stale           \* has a byte behind caplen been used?

vars == <<frame, num_tags, bp, aux16, vlanTag, ipHLen, ipLen, addrs, ports, outcome, proto, stale>>

\* process_packet hands over frames of ETH_HLEN bytes and more.
Init ==
  /\ frame \in {f \in Frames : f.caplen >= ETH_HLEN}
  /\ num_tags = 0 /\ vlanTag = NoTag
  /\ bp = TypeAt(0) /\ aux16 = TypeBehind(frame, 0)
  /\ ipHLen = 0 /\ ipLen = 0
  /\ addrs = "none" /\ ports = "none" /\ proto = "other"
  /\ outcome = "parsing" /\ stale = FALSE

Returns(o) ==
  /\ outcome' = o
  /\ UNCHANGED <<frame, num_tags, bp, aux16, vlanTag, ipHLen, ipLen, addrs, ports, proto, stale>>

PastEnd == bp >= frame.caplen

Truncated ==
  /\ outcome = "parsing"
  /\ PastEnd
  /\ Returns("ignored")

\* The tag of a frame with nested tags that counts is the last one.
BugOuterTag(v) == IF vlanTag = NoTag THEN v ELSE vlanTag
TagKept(v) == v

QINQ_ETYPE ==
  /\ outcome = "parsing" /\ ~ PastEnd
  /\ aux16 = "vlan"
  /\ \E v \in VlanIds, t \in Types :
       LET vHere == num_tags < Len(frame.tags) /\ Has(frame, bp + 2, 2)
           tHere == num_tags < Len(frame.tags) /\ Has(frame, bp + 4, 2)
       IN /\ vHere => v = frame.tags[num_tags + 1]
          /\ tHere => t = TypeBehind(frame, num_tags + 1)
          /\ vlanTag' = TagKept(v)
          /\ aux16' = t
          /\ stale' = (stale \/ ~ vHere \/ ~ tHere)
  /\ num_tags' = num_tags + 1
  /\ bp' = bp + TAG_SIZE
  /\ UNCHANGED <<frame, ipHLen, ipLen, addrs, ports, outcome, proto>>

\* The IP header must end before the frame does.
IpFits == bp + 2 + IP_HLEN < frame.caplen
IpSane == 4 * frame.ihl \in IP_HLEN .. IP_MAX_HLEN /\ frame.tot_len >= 4 * frame.ihl

IpShort ==
  /\ outcome = "parsing" /\ ~ PastEnd
  /\ aux16 = "ip"
  /\ ~ IpFits
  /\ Returns("ignored")

IpMalformed ==
  /\ outcome = "parsing" /\ ~ PastEnd
  /\ aux16 = "ip"
  /\ IpFits /\ ~ IpSane
  /\ Returns("malformed")

IP_ETYPE ==
  /\ outcome = "parsing" /\ ~ PastEnd
  /\ aux16 = "ip"
  /\ IpFits /\ IpSane
  /\ addrs' = "own"
  /\ aux16' = frame.protocol
  /\ ipHLen' = 4 * frame.ihl /\ ipLen' = frame.tot_len
  /\ bp' = bp + 2 + 4 * frame.ihl
  /\ stale' = (stale \/ ~ Has(frame, bp + 2, IP_HLEN))
  /\ UNCHANGED <<frame, num_tags, vlanTag, ports, outcome, proto>>

\* processL4Flow: how many bytes of the header it reads, and its checks.
PortBytes(p) == CASE p = "tcp" -> 13 [] p = "udp" -> 4 [] p = "icmp" -> 2
L4Sane(p, doff) ==
  CASE p = "tcp" -> 4 * doff <= ipLen - ipHLen /\ 4 * doff \in TCP_MIN_HLEN .. TCP_MAX_HLEN
    [] p = "udp" -> UDP_HLEN <= ipLen - ipHLen
    [] p = "icmp" -> TRUE

processL4Flow ==
  /\ outcome = "parsing" /\ ~ PastEnd
  /\ aux16 \in {"udp", "tcp", "icmp"}
  /\ LET here == Has(frame, bp, PortBytes(aux16)) IN
       \E doff \in 0 .. 15 :
         /\ here => doff = frame.doff
         /\ outcome' = IF L4Sane(aux16, doff) THEN "flow" ELSE "malformed"
         /\ ports' = IF here THEN "own" ELSE "stale"
         /\ stale' = (stale \/ ~ here)
  /\ proto' = aux16
  /\ UNCHANGED <<frame, num_tags, bp, aux16, vlanTag, ipHLen, ipLen, addrs>>

OtherType ==
  /\ outcome = "parsing" /\ ~ PastEnd
  /\ aux16 = "other"
  /\ Returns("ignored")

Next == Truncated \/ QINQ_ETYPE \/ IpShort \/ IpMalformed \/ IP_ETYPE \/ processL4Flow \/ OtherType

\* The loop is one thread's: it goes on until it returns.
Spec == Init /\ [][Next]_vars /\ WF_vars(Next)
-----------------------------------------------------------------------------
TypeOK ==
  /\ frame \in Frames /\ num_tags \in Nat /\ bp \in Nat /\ aux16 \in Types
  /\ vlanTag \in VlanIds \cup {NoTag} /\ ipHLen \in 0 .. IP_MAX_HLEN /\ ipLen \in Nat
  /\ addrs \in {"own", "none"} /\ ports \in {"own", "none", "stale"}
  /\ outcome \in {"parsing", "ignored", "malformed", "flow"}
  /\ proto \in Types /\ stale \in BOOLEAN
-----------------------------------------------------------------------------
(***************************************************************************)
(* The reference: what a frame is, told from its fields alone.             *)
(***************************************************************************)
L4Header(f) ==
  CASE f.protocol = "tcp" -> TCP_MIN_HLEN [] f.protocol = "udp" -> UDP_HLEN
    [] f.protocol = "icmp" -> ICMP_HLEN [] OTHER -> 1

\* Nothing of the headers is cut off.
Complete(f) ==
  /\ Has(f, TypeAt(Len(f.tags)), 2)
  /\ f.etype = "ip" => Has(f, IpAt(f), IP_HLEN + 1) /\ Has(f, L4At(f), L4Header(f))

Kind(f) ==
  CASE f.etype # "ip" -> "ignored"
    [] f.etype = "ip" /\ (f.ihl < 5 \/ f.tot_len < 4 * f.ihl) -> "malformed"
    [] f.etype = "ip" /\ f.ihl >= 5 /\ f.tot_len >= 4 * f.ihl ->
         CASE f.protocol = "tcp" ->
                IF f.doff >= 5 /\ f.tot_len >= 4 * (f.ihl + f.doff) THEN "flow" ELSE "malformed"
           [] f.protocol = "udp" -> IF f.tot_len >= 4 * f.ihl + UDP_HLEN THEN "flow" ELSE "malformed"
           [] f.protocol = "icmp" -> "flow"
           [] OTHER -> "ignored"

\* A frame whose headers are all there is taken for what it is: parsePacket makes a
\* flow packet of a sane TCP, UDP or ICMP datagram, counts the ones with
\* contradictory lengths as malformed, and ignores the rest.
SeenForWhatItIs ==
  Complete(frame) /\ frame.etype \in {"ip", "other"} /\ outcome # "parsing" => outcome = Kind(frame)

\* The key of a flow packet is the frame's: its own addresses and ports, its protocol
\* and the tag nearest to the datagram, however many tags parsePacket skipped.
KeyIsTheFrames ==
  Complete(frame) /\ frame.etype = "ip" /\ outcome = "flow" =>
    /\ addrs = "own" /\ ports = "own" /\ proto = frame.protocol
    /\ vlanTag = IF frame.tags = <<>> THEN NoTag ELSE frame.tags[Len(frame.tags)]

\* What an earlier packet left in the buffer is never used for a frame whose headers
\* are complete: the checks parsePacket does not make are missed by cut frames only.
StaleOnlyIfCut == stale /\ frame.etype \in {"ip", "other"} => ~ Complete(frame)

\* Only IP datagrams become flows, as the comment of parsePacket has it.
OnlyDatagrams == outcome = "flow" => frame.etype = "ip"

\* A later fragment has no ports: parsePacket's comment leaves it to a function of
\* its own and not to processL4Flow.
FragmentsApart == outcome = "flow" => ~ frame.fragment
=============================================================================
