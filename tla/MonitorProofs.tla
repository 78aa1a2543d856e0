--------------------------- MODULE MonitorProofs ---------------------------
(***************************************************************************)
(* Proofs about the parts of the flow monitor beside its table, for every  *)
(* value of the constants of MCMonitor: parsePacket, the life of the       *)
(* process, the throttled log, the rings of list.c and the flow files.     *)
(*                                                                         *)
(* Each part has an invariant of its own, named after it (ParserInv,       *)
(* LifeInv, LogInv, RInv of NodeRing, FileInv).  A part leaves the others  *)
(* alone, so a theorem about the suite follows from the steps of its part. *)
(***************************************************************************)
EXTENDS MCMonitor, TLAPS
-----------------------------------------------------------------------------
(***************************************************************************)
(* Proof of ParsedRight.  Of a whole frame the invariant says which header *)
(* the loop of parsePacket is at, and that bp, aux16 and the lengths are   *)
(* those of that header.  Of frames that are cut it says the types.        *)
(***************************************************************************)
\* Every header of the frame is there, and what is behind its tags is a datagram or nothing that
\* the monitor knows.
Whole == Parser!Complete(frame) /\ frame.etype \in {"ip", "other"}

\* parsePacket is at the type behind the tags it has skipped ...
AtType ==
  /\ addrs = "none"
  /\ bp = Parser!TypeAt(num_tags)
  /\ aux16 = Parser!TypeBehind(frame, num_tags)
\* ... or at the header behind the IP header, whose lengths have been tested.
AtL4 ==
  /\ addrs = "own"
  /\ num_tags = Len(frame.tags) /\ frame.etype = "ip"
  /\ bp = Parser!L4At(frame) /\ aux16 = frame.protocol
  /\ ipHLen = 4 * frame.ihl /\ ipLen = frame.tot_len
  /\ frame.ihl >= 5 /\ frame.tot_len >= 4 * frame.ihl

\* The tag it has seen last.
SkippedRight ==
  /\ num_tags \in 0 .. Len(frame.tags)
  /\ vlanTag = IF num_tags = 0 THEN Parser!NoTag ELSE frame.tags[num_tags]

\* A flow has the addresses, ports and protocol of the frame, and all tags were skipped.
FlowRight ==
  addrs = "own" /\ ports = "own" /\ proto = frame.protocol /\ num_tags = Len(frame.tags)

\* Where parsePacket is in a whole frame, and what it has made of it at the end.
WholeRight ==
  /\ ~ stale
  /\ SkippedRight
  /\ outcome = "parsing" => AtType \/ AtL4
  /\ outcome # "parsing" => outcome = Parser!Kind(frame)
  /\ outcome = "flow" => FlowRight

\* The invariant.
ParserInv == Parser!TypeOK /\ (Whole => WholeRight)

\* What a frame is made of.
LEMMA FrameFacts ==
  ASSUME frame \in Frames
  PROVE  /\ Len(frame.tags) \in Nat /\ frame.tags \in Seq(Nat)
         /\ frame.etype \in {"ip", "udp", "tcp", "icmp", "other"}
         /\ frame.ihl \in 0 .. 15 /\ frame.tot_len \in Nat /\ frame.doff \in 0 .. 15
         /\ frame.protocol \in {"udp", "tcp", "icmp", "other"} /\ frame.caplen \in Nat
  BY MonitorAssumption DEF Parser!FramesAssumption, Parser!Types

\* At first parsePacket is at the type behind the addresses.
LEMMA ParserInit == Parser!Init => ParserInv
<1> SUFFICES ASSUME Parser!Init PROVE ParserInv
  OBVIOUS
<1>0. frame \in Frames
  BY DEF Parser!Init
<1>1. Parser!TypeOK
  <2>1. bp = 12 /\ aux16 \in Parser!Types
    BY <1>0, FrameFacts DEF Parser!Init, Parser!TypeAt, Parser!TypeBehind, Parser!Types,
       Parser!ETH_ALEN, Parser!TAG_SIZE
  <2>2. stale \in BOOLEAN /\ proto \in Parser!Types
    BY DEF Parser!Init, Parser!Types
  <2> QED
    BY <1>0, <2>1, <2>2 DEF Parser!Init, Parser!TypeOK, Parser!IP_MAX_HLEN
<1>2. WholeRight
  BY <1>0, FrameFacts DEF Parser!Init, WholeRight, SkippedRight, AtType, Parser!TypeAt
<1> QED
  BY <1>1, <1>2 DEF ParserInv

\* The headers of a whole frame lie in it.
LEMMA HeadersLieInside ==
  ASSUME frame \in Frames, Whole
  PROVE  /\ \A n \in 0 .. Len(frame.tags) :
              Parser!TypeAt(n) \in Nat /\ Parser!Has(frame, Parser!TypeAt(n), 2)
         /\ frame.etype = "ip" =>
              /\ Parser!TypeAt(Len(frame.tags)) + 2 = Parser!IpAt(frame)
              /\ Parser!Has(frame, Parser!IpAt(frame), Parser!IP_HLEN + 1)
              /\ Parser!L4At(frame) \in Nat /\ Parser!L4At(frame) < frame.caplen
              /\ frame.protocol # "other" => Parser!Has(frame, Parser!L4At(frame), 8)
              /\ frame.protocol = "tcp" => Parser!Has(frame, Parser!L4At(frame), 20)
<1>1. PICK t \in Nat, c \in Nat, h \in 0 .. 15 :
         t = Len(frame.tags) /\ c = frame.caplen /\ h = frame.ihl
  BY FrameFacts
<1> USE DEF Parser!Has, Parser!TypeAt, Parser!IpAt, Parser!L4At, Parser!IP_HLEN, Parser!ETH_HLEN,
            Parser!ETH_ALEN, Parser!TAG_SIZE
<1>2. 12 + t * 4 + 2 <= c
  BY <1>1 DEF Whole, Parser!Complete
<1>3. ASSUME NEW n \in 0 .. t
      PROVE  Parser!TypeAt(n) \in Nat /\ Parser!Has(frame, Parser!TypeAt(n), 2)
  BY <1>1, <1>2
<1>4. ASSUME frame.etype = "ip"
      PROVE  /\ Parser!TypeAt(t) + 2 = Parser!IpAt(frame)
             /\ Parser!Has(frame, Parser!IpAt(frame), Parser!IP_HLEN + 1)
             /\ Parser!L4At(frame) \in Nat /\ Parser!L4At(frame) < frame.caplen
             /\ frame.protocol # "other" => Parser!Has(frame, Parser!L4At(frame), 8)
             /\ frame.protocol = "tcp" => Parser!Has(frame, Parser!L4At(frame), 20)
  <2>1. /\ 14 + t * 4 + 21 <= c
        /\ 14 + t * 4 + 4 * h + Parser!L4Header(frame) <= c
    BY <1>1, <1>4 DEF Whole, Parser!Complete
  <2>2. /\ Parser!L4Header(frame) \in Nat \ {0}
        /\ frame.protocol # "other" => Parser!L4Header(frame) >= 8
        /\ frame.protocol = "tcp" => Parser!L4Header(frame) = 20
    <3>1. CASE frame.protocol = "tcp"
      BY <3>1 DEF Parser!L4Header, Parser!TCP_MIN_HLEN
    <3>2. CASE frame.protocol = "udp"
      BY <3>2 DEF Parser!L4Header, Parser!UDP_HLEN
    <3>3. CASE frame.protocol = "icmp"
      BY <3>3 DEF Parser!L4Header, Parser!ICMP_HLEN
    <3>4. CASE frame.protocol = "other"
      BY <3>4 DEF Parser!L4Header
    <3> QED
      BY <3>1, <3>2, <3>3, <3>4, FrameFacts
  <2>3. PICK g \in Nat \ {0} : g = Parser!L4Header(frame)
    BY <2>2
  <2>4. Parser!IpAt(frame) = 14 + t * 4 /\ Parser!L4At(frame) = 14 + t * 4 + 4 * h
    BY <1>1
  <2>5. 14 + t * 4 + 4 * h \in Nat /\ 14 + t * 4 + 4 * h < c
    BY <2>1, <2>3
  <2>6. /\ frame.protocol # "other" => 14 + t * 4 + 4 * h + 8 <= c
        /\ frame.protocol = "tcp" => 14 + t * 4 + 4 * h + 20 <= c
    BY <2>1, <2>2, <2>3
  <2> QED
    BY <1>1, <2>1, <2>4, <2>5, <2>6
<1> QED
  BY <1>1, <1>3, <1>4

\* The lengths of the datagram's header are allowed.
LEMMA SaneLengths ==
  ASSUME frame \in Frames
  PROVE  /\ Parser!IpSane <=> frame.ihl >= 5 /\ frame.tot_len >= 4 * frame.ihl
         /\ ~ Parser!IpSane <=> frame.ihl < 5 \/ frame.tot_len < 4 * frame.ihl
         /\ 4 * frame.ihl \in 0 .. Parser!IP_MAX_HLEN
<1>1. PICK h \in 0 .. 15, l \in Nat : h = frame.ihl /\ l = frame.tot_len
  BY FrameFacts
<1> QED
  BY <1>1 DEF Parser!IpSane, Parser!IP_HLEN, Parser!IP_MAX_HLEN

\* Every turn keeps the types, also in frames that are cut.
LEMMA ParserTypeStep == Parser!TypeOK /\ Parser!Next => Parser!TypeOK'
<1> SUFFICES ASSUME Parser!TypeOK, Parser!Next PROVE Parser!TypeOK'
  OBVIOUS
<1>0. frame \in Frames
  BY DEF Parser!TypeOK
<1> USE DEF Parser!TypeOK
<1>1. ASSUME NEW o \in {"ignored", "malformed"}, Parser!Returns(o) PROVE Parser!TypeOK'
  BY <1>1 DEF Parser!Returns
<1>2. CASE Parser!QINQ_ETYPE
  BY <1>0, <1>2, FrameFacts DEF Parser!QINQ_ETYPE, Parser!TagKept, Parser!TAG_SIZE
<1>3. CASE Parser!IP_ETYPE
  <2>0. PICK h \in 0 .. 15, b \in Nat : h = frame.ihl /\ b = bp
    BY <1>0, FrameFacts
  <2>1. bp + 2 + 4 * frame.ihl \in Nat
    BY <2>0
  <2>2. (stale \/ ~ Parser!Has(frame, bp + 2, Parser!IP_HLEN)) \in BOOLEAN
    OBVIOUS
  <2>3. stale' \in BOOLEAN
    BY <1>3, <2>2 DEF Parser!IP_ETYPE
  <2> QED
    BY <1>0, <1>3, <2>1, <2>3, FrameFacts, SaneLengths DEF Parser!IP_ETYPE, Parser!Types
<1>4. CASE Parser!processL4Flow
  BY <1>0, <1>4, FrameFacts DEF Parser!processL4Flow, Parser!Types
<1> QED
  BY <1>1, <1>2, <1>3, <1>4 DEF Parser!Next, Parser!Truncated, Parser!IpShort, Parser!IpMalformed,
     Parser!OtherType

\* What the reference makes of a datagram with sane lengths.
LEMMA KindOfSane ==
  ASSUME frame \in Frames, frame.etype = "ip", frame.ihl >= 5, frame.tot_len >= 4 * frame.ihl
  PROVE  /\ frame.protocol = "tcp" =>
              Parser!Kind(frame) =
                IF frame.doff >= 5 /\ frame.tot_len >= 4 * (frame.ihl + frame.doff)
                THEN "flow" ELSE "malformed"
         /\ frame.protocol = "udp" =>
              Parser!Kind(frame) =
                IF frame.tot_len >= 4 * frame.ihl + 8 THEN "flow" ELSE "malformed"
         /\ frame.protocol = "icmp" => Parser!Kind(frame) = "flow"
         /\ frame.protocol = "other" => Parser!Kind(frame) = "ignored"
<1>1. PICK h \in 0 .. 15, l \in Nat : h = frame.ihl /\ l = frame.tot_len
  BY FrameFacts
<1>2. /\ ~ (frame.etype # "ip")
      /\ ~ (frame.etype = "ip" /\ (frame.ihl < 5 \/ frame.tot_len < 4 * frame.ihl))
  BY <1>1
<1> QED
  BY <1>2 DEF Parser!Kind, Parser!UDP_HLEN

\* What it makes of one whose lengths contradict each other.
LEMMA KindOfShort ==
  ASSUME frame \in Frames, frame.etype = "ip",
         frame.ihl < 5 \/ ~ (frame.tot_len >= 4 * frame.ihl) \/ frame.tot_len < 4 * frame.ihl
  PROVE  Parser!Kind(frame) = "malformed"
<1>1. PICK h \in 0 .. 15, l \in Nat : h = frame.ihl /\ l = frame.tot_len
  BY FrameFacts
<1>2. /\ ~ (frame.etype # "ip")
      /\ frame.ihl < 5 \/ frame.tot_len < 4 * frame.ihl
      /\ ~ (frame.etype = "ip" /\ frame.ihl >= 5 /\ frame.tot_len >= 4 * frame.ihl)
  BY <1>1
<1> QED
  BY <1>2 DEF Parser!Kind

\* Each turn of the loop over a whole frame.
LEMMA ParserWholeStep ==
  ASSUME Parser!TypeOK, Whole, WholeRight, Parser!Next
  PROVE  WholeRight'
<1>0. frame \in Frames /\ frame' = frame
  BY DEF Parser!TypeOK, Parser!Next, Parser!Truncated, Parser!IpShort, Parser!IpMalformed,
     Parser!OtherType, Parser!Returns, Parser!QINQ_ETYPE, Parser!IP_ETYPE, Parser!processL4Flow
<1>1. outcome = "parsing"
  BY DEF Parser!Next, Parser!Truncated, Parser!IpShort, Parser!IpMalformed,
     Parser!OtherType, Parser!QINQ_ETYPE, Parser!IP_ETYPE, Parser!processL4Flow
<1>2. ASSUME NEW o \in {"ignored", "malformed"}, Parser!Returns(o), o = Parser!Kind(frame)
      PROVE  WholeRight'
  BY <1>0, <1>2 DEF WholeRight, Parser!Returns, SkippedRight
<1>3. CASE Parser!Truncated
  <2>1. frame.caplen \in Nat /\ num_tags \in 0 .. Len(frame.tags)
    BY <1>0, FrameFacts DEF WholeRight, SkippedRight
  <2>2. bp \in Nat /\ bp < frame.caplen
    BY <1>0, <1>1, <2>1, HeadersLieInside DEF WholeRight, AtType, AtL4, Parser!Has
  <2> QED
    BY <1>3, <2>1, <2>2 DEF Parser!Truncated, Parser!PastEnd
<1>4. CASE Parser!QINQ_ETYPE
  <2>1. AtType /\ num_tags < Len(frame.tags) /\ num_tags \in Nat /\ Len(frame.tags) \in Nat
    BY <1>0, <1>1, <1>4, FrameFacts DEF WholeRight, AtL4, AtType, SkippedRight, Parser!QINQ_ETYPE,
       Parser!TypeBehind
  <2>2. Parser!Has(frame, bp + 2, 2) /\ Parser!Has(frame, bp + 4, 2)
        /\ bp + Parser!TAG_SIZE = Parser!TypeAt(num_tags + 1)
    <3>1. Parser!Has(frame, Parser!TypeAt(num_tags + 1), 2) /\ frame.caplen \in Nat
      BY <1>0, <2>1, HeadersLieInside, FrameFacts
    <3> QED
      BY <2>1, <3>1 DEF AtType, Parser!TypeAt, Parser!Has, Parser!TAG_SIZE, Parser!ETH_ALEN
  <2>3. /\ vlanTag' = frame.tags[num_tags + 1]
        /\ aux16' = Parser!TypeBehind(frame, num_tags + 1)
        /\ stale' = stale
    BY <1>4, <2>1, <2>2 DEF Parser!QINQ_ETYPE, Parser!TagKept, Parser!TypeOK
  <2>4. /\ num_tags' = num_tags + 1 /\ bp' = bp + Parser!TAG_SIZE
        /\ UNCHANGED <<addrs, outcome>>
    BY <1>4 DEF Parser!QINQ_ETYPE
  <2> QED
    BY <1>0, <1>1, <2>1, <2>2, <2>3, <2>4 DEF WholeRight, SkippedRight, AtType
<1>5. CASE Parser!IpShort
  <2>1. AtType /\ frame.etype = "ip" /\ num_tags = Len(frame.tags) /\ Len(frame.tags) \in Nat
    BY <1>0, <1>1, <1>5, FrameFacts DEF WholeRight, AtL4, AtType, SkippedRight, Parser!IpShort,
       Parser!TypeBehind
  <2>2. ~ Parser!IpFits
    BY <1>5 DEF Parser!IpShort
  <2>3. Parser!IP_HLEN + 1 = 21 /\ Parser!IP_HLEN = 20
    BY DEF Parser!IP_HLEN
  <2>4. /\ bp + 2 = Parser!IpAt(frame) /\ bp \in Nat /\ frame.caplen \in Nat
        /\ Parser!IpAt(frame) + 21 <= frame.caplen
    BY <1>0, <2>1, <2>3, HeadersLieInside, FrameFacts DEF AtType, Parser!Has
  <2> QED
    BY <2>2, <2>3, <2>4 DEF Parser!IpFits
<1>6. CASE Parser!IpMalformed
  <2>1. AtType /\ frame.etype = "ip" /\ num_tags = Len(frame.tags) /\ Len(frame.tags) \in Nat
    BY <1>0, <1>1, <1>6, FrameFacts DEF WholeRight, AtL4, AtType, SkippedRight,
       Parser!IpMalformed, Parser!TypeBehind
  <2>2. frame.ihl < 5 \/ frame.tot_len < 4 * frame.ihl
    BY <1>0, <1>6, SaneLengths DEF Parser!IpMalformed
  <2>3. Parser!Kind(frame) = "malformed"
    BY <1>0, <2>1, <2>2, KindOfShort
  <2> QED
    BY <1>2, <1>6, <2>3 DEF Parser!IpMalformed
<1>7. CASE Parser!IP_ETYPE
  <2>1. AtType /\ frame.etype = "ip" /\ num_tags = Len(frame.tags) /\ Len(frame.tags) \in Nat
    BY <1>0, <1>1, <1>7, FrameFacts DEF WholeRight, AtL4, AtType, SkippedRight, Parser!IP_ETYPE,
       Parser!TypeBehind
  <2>2. frame.ihl >= 5 /\ frame.tot_len >= 4 * frame.ihl
    BY <1>0, <1>7, SaneLengths DEF Parser!IP_ETYPE
  <2>3. bp + 2 = Parser!IpAt(frame) /\ Parser!Has(frame, bp + 2, Parser!IP_HLEN)
        /\ bp + 2 + 4 * frame.ihl = Parser!L4At(frame)
    <3>1. Parser!IP_HLEN + 1 = 21 /\ Parser!IP_HLEN = 20
      BY DEF Parser!IP_HLEN
    <3>2. /\ bp + 2 = Parser!IpAt(frame) /\ bp \in Nat /\ frame.caplen \in Nat
          /\ Parser!IpAt(frame) + 21 <= frame.caplen
      BY <1>0, <2>1, <3>1, HeadersLieInside, FrameFacts DEF AtType, Parser!Has
    <3> QED
      BY <3>1, <3>2 DEF Parser!Has, Parser!L4At
  <2>4. stale' = stale
    BY <1>7, <2>3 DEF Parser!IP_ETYPE, Parser!TypeOK
  <2>5. /\ addrs' = "own" /\ aux16' = frame.protocol
        /\ ipHLen' = 4 * frame.ihl /\ ipLen' = frame.tot_len /\ bp' = bp + 2 + 4 * frame.ihl
        /\ UNCHANGED <<num_tags, vlanTag, outcome>>
    BY <1>7 DEF Parser!IP_ETYPE
  <2> QED
    BY <1>0, <1>1, <2>1, <2>2, <2>3, <2>4, <2>5 DEF WholeRight, SkippedRight, AtL4
<1>8. CASE Parser!processL4Flow
  <2>1. AtL4
    BY <1>0, <1>1, <1>8, FrameFacts DEF WholeRight, AtType, SkippedRight, Parser!processL4Flow,
       Parser!TypeBehind, Whole
  <2>2. frame.protocol \in {"udp", "tcp", "icmp"}
    BY <1>8, <2>1 DEF Parser!processL4Flow, AtL4
  <2>3. Parser!Has(frame, bp, Parser!PortBytes(aux16))
    BY <1>0, <2>1, <2>2, HeadersLieInside, FrameFacts DEF AtL4, Parser!Has, Parser!PortBytes
  <2>4. /\ outcome' = IF Parser!L4Sane(aux16, frame.doff) THEN "flow" ELSE "malformed"
        /\ ports' = "own" /\ stale' = stale
    BY <1>8, <2>3 DEF Parser!processL4Flow, Parser!TypeOK
  <2>5. Parser!Kind(frame) = IF Parser!L4Sane(aux16, frame.doff) THEN "flow" ELSE "malformed"
    <3>0. PICK h \in 0 .. 15, l \in Nat, d \in 0 .. 15 :
             /\ h = frame.ihl /\ l = frame.tot_len /\ d = frame.doff
             /\ ipHLen = 4 * h /\ ipLen = l /\ aux16 = frame.protocol
      BY <1>0, <2>1, FrameFacts DEF AtL4
    <3>4. /\ frame.protocol = "tcp" =>
              Parser!Kind(frame) = IF d >= 5 /\ l >= 4 * (h + d) THEN "flow" ELSE "malformed"
          /\ frame.protocol = "udp" =>
              Parser!Kind(frame) = IF l >= 4 * h + 8 THEN "flow" ELSE "malformed"
          /\ frame.protocol = "icmp" => Parser!Kind(frame) = "flow"
      BY <1>0, <2>1, <3>0, KindOfSane DEF AtL4
    <3>1. CASE frame.protocol = "tcp"
      <4>1. Parser!L4Sane(aux16, frame.doff) <=> 4 * d <= l - 4 * h /\ 4 * d \in 20 .. 60
        BY <3>0, <3>1 DEF Parser!L4Sane, Parser!TCP_MIN_HLEN, Parser!TCP_MAX_HLEN
      <4>2. 4 * d <= l - 4 * h /\ 4 * d \in 20 .. 60 <=> d >= 5 /\ l >= 4 * (h + d)
        OBVIOUS
      <4> QED
        BY <3>1, <3>4, <4>1, <4>2
    <3>2. CASE frame.protocol = "udp"
      <4>1. Parser!L4Sane(aux16, frame.doff) <=> 8 <= l - 4 * h
        BY <3>0, <3>2 DEF Parser!L4Sane, Parser!UDP_HLEN
      <4>2. 8 <= l - 4 * h <=> l >= 4 * h + 8
        OBVIOUS
      <4> QED
        BY <3>2, <3>4, <4>1, <4>2
    <3>3. CASE frame.protocol = "icmp"
      BY <3>0, <3>3, <3>4 DEF Parser!L4Sane
    <3> QED
      BY <2>2, <3>1, <3>2, <3>3
  <2>6. proto' = aux16 /\ UNCHANGED <<num_tags, vlanTag, addrs>>
    BY <1>8 DEF Parser!processL4Flow
  <2> QED
    BY <1>0, <2>1, <2>4, <2>5, <2>6 DEF WholeRight, SkippedRight, AtL4, FlowRight
<1>9. CASE Parser!OtherType
  <2>1. Parser!Kind(frame) = "ignored"
    <3>1. CASE AtType
      <4>1. frame.etype = "other"
        BY <1>0, <1>9, <3>1 DEF Parser!OtherType, AtType, Parser!TypeBehind
      <4> QED
        BY <4>1 DEF Parser!Kind
    <3>2. CASE AtL4
      <4>1. /\ frame.protocol = "other" /\ frame.etype = "ip" /\ frame.ihl >= 5
            /\ frame.tot_len >= 4 * frame.ihl
        BY <1>9, <3>2 DEF AtL4, Parser!OtherType
      <4> QED
        BY <1>0, <4>1, KindOfSane
    <3> QED
      BY <1>1, <3>1, <3>2 DEF WholeRight
  <2> QED
    BY <1>2, <1>9, <2>1 DEF Parser!OtherType
<1> QED
  BY <1>3, <1>4, <1>5, <1>6, <1>7, <1>8, <1>9 DEF Parser!Next

\* ParserInv is the invariant of parsePacket.
LEMMA ParserStep == ParserInv /\ [Parser!Next]_(Parser!vars) => ParserInv'
<1> SUFFICES ASSUME ParserInv, [Parser!Next]_(Parser!vars) PROVE ParserInv'
  OBVIOUS
<1>1. CASE Parser!Next
  <2>1. frame' = frame
    BY <1>1 DEF Parser!Next, Parser!Truncated, Parser!IpShort, Parser!IpMalformed,
       Parser!OtherType, Parser!Returns, Parser!QINQ_ETYPE, Parser!IP_ETYPE, Parser!processL4Flow
  <2>2. Whole' => Whole
    BY <2>1 DEF Whole, Parser!Complete, Parser!Has, Parser!TypeAt, Parser!IpAt, Parser!L4At,
       Parser!L4Header
  <2>3. Whole' => WholeRight'
    BY <1>1, <2>2, ParserWholeStep DEF ParserInv
  <2> QED
    BY <1>1, <2>3, ParserTypeStep DEF ParserInv
<1>2. CASE UNCHANGED Parser!vars
  BY <1>2 DEF ParserInv, Parser!vars, Parser!TypeOK, Whole, Parser!Complete, Parser!Has,
     Parser!IpAt, Parser!L4At, Parser!L4Header, WholeRight, SkippedRight, AtType, AtL4, FlowRight,
     Parser!Kind
<1> QED
  BY <1>1, <1>2

\* A frame that the XDP program gives to the socket is a whole datagram, and UDP.
LEMMA RedirectedIsWhole ==
  ASSUME frame \in Frames, Parser!monitor_prog(frame, 0, {0}) = "redirect"
  PROVE  Whole /\ frame.etype = "ip" /\ frame.protocol = "udp" /\ frame.ihl >= 5
<1>1. PICK t \in Nat, c \in Nat, h \in 0 .. 15 :
         t = Len(frame.tags) /\ c = frame.caplen /\ h = frame.ihl
  BY FrameFacts
<1>2. PICK ip : ip = Parser!parse_iphdr(frame, Parser!ETH_HLEN)
  OBVIOUS
<1>3. PICK udp : udp = IF Parser!parse_udphdr(frame, ip) = Parser!Fails
                       THEN ip ELSE Parser!parse_udphdr(frame, ip)
  OBVIOUS
<1>4. /\ Parser!parse_ethhdr(frame) # Parser!Fails /\ Parser!h_proto(frame) = "ip"
      /\ ip # Parser!Fails /\ frame.protocol = "udp" /\ Parser!parse_pktgenhdr(frame, udp)
  BY <1>2, <1>3 DEF Parser!monitor_prog
<1>5. t = 0 /\ frame.etype = "ip"
  BY <1>1, <1>4 DEF Parser!h_proto, Parser!TypeBehind
<1>6. h >= 5 /\ ip = 14 + 4 * h /\ 14 + 4 * h <= c
  BY <1>1, <1>2, <1>4 DEF Parser!parse_iphdr, Parser!Has, Parser!ETH_HLEN, Parser!IP_HLEN
<1>7. udp \in {ip, ip + 8}
  BY <1>3 DEF Parser!parse_udphdr, Parser!UDP_HLEN
<1>8. udp + 16 <= c
  BY <1>1, <1>4 DEF Parser!parse_pktgenhdr, Parser!Has, Parser!PKTGEN_HLEN
<1>9. 14 + 4 * h + 16 <= c
  BY <1>6, <1>7, <1>8
<1>10. Parser!L4Header(frame) = 8
  BY <1>4 DEF Parser!L4Header, Parser!UDP_HLEN
<1>11. /\ Parser!IpAt(frame) = 14 /\ Parser!L4At(frame) = 14 + 4 * h
       /\ Parser!TypeAt(Len(frame.tags)) = 12
  BY <1>1, <1>5 DEF Parser!IpAt, Parser!L4At, Parser!TypeAt, Parser!ETH_HLEN, Parser!TAG_SIZE,
     Parser!ETH_ALEN
<1>12. /\ Parser!Has(frame, 12, 2) /\ Parser!Has(frame, 14, Parser!IP_HLEN + 1)
       /\ Parser!Has(frame, 14 + 4 * h, 8)
  <2>1. 12 + 2 <= c /\ 14 + 21 <= c /\ 14 + 4 * h + 8 <= c
    BY ONLY <1>6, <1>9, c \in Nat, h \in 0 .. 15
  <2>2. Parser!IP_HLEN + 1 = 21
    BY DEF Parser!IP_HLEN
  <2> QED
    BY ONLY <1>1, <2>1, <2>2 DEF Parser!Has
<1> QED
  BY <1>1, <1>4, <1>5, <1>6, <1>10, <1>11, <1>12 DEF Whole, Parser!Complete

\* ParserInv is enough for what is to be shown of parsePacket.
LEMMA ParserInvEnough ==
  ASSUME ParserInv
  PROVE  /\ Parser!TypeOK /\ Parser!SeenForWhatItIs /\ Parser!KeyIsTheFrames
         /\ Parser!StaleOnlyIfCut /\ RedirectedIsCounted
<1>0. frame \in Frames /\ Parser!TypeOK
  BY DEF ParserInv, Parser!TypeOK
<1>1. Parser!SeenForWhatItIs /\ Parser!StaleOnlyIfCut
  BY DEF ParserInv, Whole, WholeRight, Parser!SeenForWhatItIs, Parser!StaleOnlyIfCut
<1>2. Parser!KeyIsTheFrames
  <2> SUFFICES ASSUME Parser!Complete(frame), frame.etype = "ip", outcome = "flow"
      PROVE  /\ addrs = "own" /\ ports = "own" /\ proto = frame.protocol
             /\ vlanTag = IF frame.tags = <<>> THEN Parser!NoTag ELSE frame.tags[Len(frame.tags)]
    BY DEF Parser!KeyIsTheFrames
  <2>1. FlowRight /\ SkippedRight
    BY DEF ParserInv, Whole, WholeRight
  <2>2. frame.tags = <<>> <=> Len(frame.tags) = 0
    BY <1>0, FrameFacts
  <2> QED
    BY <2>1, <2>2 DEF FlowRight, SkippedRight
<1>3. RedirectedIsCounted
  <2> SUFFICES ASSUME outcome # "parsing", Parser!monitor_prog(frame, 0, {0}) = "redirect"
      PROVE  outcome \in {"flow", "malformed"} /\ (outcome = "flow" => proto = "udp") /\ ~ stale
    BY DEF RedirectedIsCounted
  <2>1. Whole /\ frame.etype = "ip" /\ frame.protocol = "udp" /\ frame.ihl >= 5
    BY <1>0, RedirectedIsWhole
  <2>2. WholeRight
    BY <2>1 DEF ParserInv
  <2>3. Parser!Kind(frame) \in {"flow", "malformed"}
    <3>1. CASE frame.tot_len >= 4 * frame.ihl
      BY <1>0, <2>1, <3>1, KindOfSane
    <3>2. CASE ~ (frame.tot_len >= 4 * frame.ihl)
      BY <1>0, <2>1, <3>2, KindOfShort
    <3> QED
      BY <3>1, <3>2
  <2> QED
    BY <2>1, <2>2, <2>3 DEF WholeRight, FlowRight
<1> QED
  BY <1>0, <1>1, <1>2, <1>3

\* For frames with any number of tags, cut anywhere and with any lengths in their headers,
\* parsePacket takes what is whole for what it is and agrees with the XDP program before it.
THEOREM ParserTakesFramesForWhatTheyAre == Spec => []ParsedRight
<1> DEFINE I == part = "parser" => ParserInv
<1>1. Init => I
  BY ParserInit DEF Init
<1>2. I /\ [Next]_vars => I'
  <2> SUFFICES ASSUME I, [Next]_vars, part' = "parser" PROVE ParserInv'
    OBVIOUS
  <2>1. part = "parser" /\ [Parser!Next]_(Parser!vars)
    BY DEF Next, Step, MayStop, vars, parserVars, Parser!vars
  <2> QED
    BY <2>1, ParserStep
<1>3. I => ParsedRight
  BY ParserInvEnough DEF ParsedRight
<1> QED
  BY <1>1, <1>2, <1>3, PTL DEF Spec
-----------------------------------------------------------------------------
(***************************************************************************)
(* Proofs of ResourcesHeld and AllOnDisk.  What makes them inductive is    *)
(* which threads run, what is open and where flows can be at each of the   *)
(* statements of main.                                                     *)
(***************************************************************************)
\* The statements of main before there is a thread ...
Starting == {"startLog", "createXDPSocket", "alloc", "export"}
\* ... and those after the process thread is over.
Ending == {"reset", "stop_et", "join", "destroy", "exit"}

\* main is at one of its statements, and flows are counted.
LifeType ==
  /\ life_main \in Starting \cup {"process", "mask", "sigwait", "waiting", "capturaSenial"}
              \cup Ending \cup {"error", "killed"}
  /\ table \in Nat /\ expired \in Nat /\ buffered \in Nat /\ disk \in Nat /\ signals \in Nat

\* Which threads run at a statement of main.
ThreadsAt ==
  /\ life_main \in Starting => et = "none"
  /\ life_main \in Starting \cup {"process"} => pt = "none"
  /\ life_main \in Ending => pt = "done"
  /\ life_main \in {"destroy", "exit"} => et = "done"
  /\ life_stop_et => life_main \in {"join", "destroy", "exit", "error", "killed"}

\* What is open at a statement of main, unless the process has been cut off.
OpenAt ==
  ~ Life!Ended =>
    /\ life_main # "startLog" /\ life_main # "destroy" => session = "open"
    /\ life_main \notin {"startLog", "createXDPSocket"} => sock = "open"
    /\ life_main \notin Starting \ {"export"} /\ life_main # "destroy" => pools = "open"

\* Where flows cannot be any more: in the table once the export thread has been
\* told to stop, in the list and the buffer once it has.
FlowsGone ==
  /\ life_main \in Ending \ {"reset"} \/ life_stop_et => table = 0 /\ pt = "done"
  /\ et = "done" => life_stop_et /\ expired = 0 /\ buffered = 0

\* The invariant.
LifeInv == LifeType /\ ThreadsAt /\ OpenAt /\ FlowsGone

\* Nothing is open and no thread runs when main begins.
LEMMA LifeInvInit == Life!Init => LifeInv
  BY DEF Life!Init, LifeInv, LifeType, ThreadsAt, OpenAt, FlowsGone, Starting, Ending, Life!Ended

\* Each statement of main, each turn of a thread and each signal preserves the invariant.
LEMMA LifeInvStep == LifeInv /\ [Life!Next]_(Life!vars) => LifeInv'
<1> SUFFICES ASSUME LifeInv, [Life!Next]_(Life!vars) PROVE LifeInv'
  OBVIOUS
<1> USE DEF LifeInv, LifeType, ThreadsAt, OpenAt, FlowsGone, Starting, Ending, Life!Ended,
            Life!threads, Life!held, Life!flows, Life!Step, Life!Alive
<1>1. CASE UNCHANGED Life!vars
  BY <1>1 DEF Life!vars
<1>2. CASE \/ Life!startLog \/ Life!createXDPSocket \/ Life!create_init_xdp_sock
           \/ Life!AllocPools \/ Life!AllocFails
  BY <1>2 DEF Life!startLog, Life!createXDPSocket, Life!create_init_xdp_sock, Life!AllocPools,
     Life!AllocFails
<1>3. CASE Life!CreateExport \/ Life!CreateProcess \/ Life!pthread_sigmask \/ Life!sigwait
  BY <1>3 DEF Life!CreateExport, Life!CreateProcess, Life!pthread_sigmask, Life!sigwait
<1>4. CASE Life!Sigint
  BY <1>4 DEF Life!Sigint, Life!Masked
<1>5. CASE Life!capturaSenial \/ Life!reset_flow_table \/ Life!StopExport
  BY <1>5 DEF Life!capturaSenial, Life!ProcessOver, Life!reset_flow_table, Life!StopExport
<1>6. CASE Life!Free \/ Life!destroyXDPSocket
  BY <1>6 DEF Life!Free, Life!destroyXDPSocket
<1>7. CASE Life!process_packet \/ Life!cleanup_flows \/ Life!processThread
  BY <1>7 DEF Life!process_packet, Life!cleanup_flows, Life!processThread
<1>8. CASE Life!export_data \/ Life!Rotate \/ Life!RotateFails
  BY <1>8 DEF Life!export_data, Life!Rotate, Life!RotateFails
<1>9. CASE Life!exportThread
  BY <1>9 DEF Life!exportThread, Life!Drained
<1>10. CASE Life!Over
  BY <1>10 DEF Life!Over, Life!vars
<1> QED
  BY <1>1, <1>2, <1>3, <1>4, <1>5, <1>6, <1>7, <1>8, <1>9, <1>10 DEF Life!Next

\* When main returns no flow is left in the table, in the list of expired flows or in the
\* buffer of the flow file, and no thread of a living process runs without its socket, its
\* pools and its log: for any number of flows and of signals, whenever SIGINT comes and
\* whichever step of the set-up or of a rotation fails.
THEOREM MonitorShutsDownClean == Spec => []ShutdownKeepsFlows
<1> DEFINE I == part = "life" => LifeInv
<1>1. Init => I
  BY LifeInvInit DEF Init
<1>2. I /\ [Next]_vars => I'
  <2> SUFFICES ASSUME I, [Next]_vars, part' = "life" PROVE LifeInv'
    OBVIOUS
  <2>1. part = "life" /\ [Life!Next]_(Life!vars)
    BY DEF Next, Step, MayStop, vars, lifeVars, Life!vars, Life!threads, Life!held, Life!flows
  <2> QED
    BY <2>1, LifeInvStep
<1>3. LifeInv => Life!ResourcesHeld /\ Life!AllOnDisk
  BY DEF LifeInv, LifeType, ThreadsAt, OpenAt, FlowsGone, Life!ResourcesHeld, Life!AllOnDisk,
     Life!Alive, Life!Ended, Starting, Ending
<1>4. I => ShutdownKeepsFlows
  BY <1>3 DEF ShutdownKeepsFlows
<1> QED
  BY <1>1, <1>2, <1>4, PTL DEF Spec
-----------------------------------------------------------------------------
(***************************************************************************)
(* Proof of Throttled.  It is not inductive, since it does not say how far *)
(* the count of a type has come; Account does.                             *)
(***************************************************************************)
\* What message_count knows of the errors of a type: those since the one shown last, so that
\* with the ones that were shown it gives the errors that happened.
Account(e) ==
  /\ e \in Log!Types => message_count[e] \in Nat
  /\ happened[e] \in Nat /\ log_shown[e] \in Nat
  /\ e \notin Log!Types \/ happened[e] = 0 => log_shown[e] = 0
  /\ e \in Log!Types /\ happened[e] = 0 => message_count[e] = 0
  /\ e \in Log!Types /\ happened[e] > 0 =>
       /\ log_shown[e] > 0
       /\ message_count[e] \in 2 .. MESSAGE_COUNT_LIMIT
       /\ happened[e] - 1
            = (log_shown[e] - 1) * (MESSAGE_COUNT_LIMIT - 1) + (message_count[e] - 2)

\* The invariant: every type of error has its own account.
LogInv ==
  /\ message_count = [t \in Log!Types |-> message_count[t]]
  /\ happened = [e \in Errors |-> happened[e]]
  /\ log_shown = [e \in Errors |-> log_shown[e]]
  /\ \A e \in Errors : Account(e)

\* One more round of the count.
LEMMA Distribute ==
  ASSUME NEW q \in Int, NEW b \in Int
  PROVE  (q + 1) * b = q * b + b
  OBVIOUS

\* At first no error of any type has happened.
LEMMA LogInvInit == Log!LogAssumption /\ Log!Init => LogInv
  BY DEF Log!LogAssumption, Log!Init, LogInv, Account, Log!Types, Log!None

\* An error changes the account of its own type, and an error of no type changes none.
LEMMA LogInvStep == Log!LogAssumption /\ LogInv /\ [Log!Next]_(Log!vars) => LogInv'
<1> SUFFICES ASSUME Log!LogAssumption, LogInv, [Log!Next]_(Log!vars) PROVE LogInv'
  OBVIOUS
<1>1. CASE UNCHANGED Log!vars
  BY <1>1 DEF LogInv, Account, Log!vars
<1>2. ASSUME NEW e \in Errors, Log!logErrorCount(e) PROVE LogInv'
  <2>1. e \in Nat /\ (e \in Log!Types <=> e < NUM_ERROR_TYPES)
    BY DEF Log!LogAssumption, Log!Types
  <2>2. CASE e >= NUM_ERROR_TYPES
    <3>1. UNCHANGED <<message_count, log_shown>>
      BY <1>2, <2>1, <2>2 DEF Log!logErrorCount, Log!LogAssumption
    <3>2. happened' = [happened EXCEPT ![e] = @ + 1]
      BY <1>2 DEF Log!logErrorCount
    <3>3. e \notin Log!Types
      BY <2>1, <2>2 DEF Log!LogAssumption
    <3>4. ASSUME NEW f \in Errors PROVE Account(f)'
      <4>1. Account(f) /\ message_count'[f] = message_count[f] /\ log_shown'[f] = log_shown[f]
        BY <3>1 DEF LogInv
      <4>2. CASE f = e
        <5>1. happened'[e] = happened[e] + 1
          BY <3>2 DEF LogInv
        <5> QED
          BY <3>1, <3>3, <4>1, <4>2, <5>1 DEF Account
      <4>3. CASE f # e
        <5>1. happened'[f] = happened[f]
          BY <3>2, <4>3 DEF LogInv
        <5> QED
          BY <3>1, <4>1, <5>1 DEF Account
      <4> QED
        BY <4>2, <4>3
    <3> QED
      BY <3>1, <3>2, <3>4 DEF LogInv
  <2>3. CASE e < NUM_ERROR_TYPES
    <3>1. /\ happened' = [happened EXCEPT ![e] = @ + 1]
          /\ message_count' = [message_count EXCEPT ![e] = Log!CountAfter(e)]
          /\ log_shown' = [log_shown EXCEPT ![e] = IF Log!Shows(e) THEN @ + 1 ELSE @]
      BY <1>2, <2>3 DEF Log!logErrorCount
    <3>2. e \in Log!Types /\ Account(e)
      BY <2>1, <2>3 DEF LogInv
    <3>3. ASSUME NEW f \in Errors, f # e PROVE Account(f)'
      BY <3>1, <3>3 DEF LogInv, Account
    <3>4. /\ happened'[e] = happened[e] + 1
          /\ message_count'[e] = Log!CountAfter(e)
          /\ log_shown'[e] = IF Log!Shows(e) THEN log_shown[e] + 1 ELSE log_shown[e]
      BY <3>1, <3>2 DEF LogInv
    <3>5. PICK h \in Nat, s \in Nat, m \in Nat, b \in Nat :
             h = happened[e] /\ s = log_shown[e] /\ m = message_count[e]
             /\ b = MESSAGE_COUNT_LIMIT - 1 /\ b > 1
      BY <3>2 DEF Account, Log!LogAssumption
    <3>6. /\ h = 0 => s = 0 /\ m = 0
          /\ h > 0 => s > 0 /\ m \in 2 .. (b + 1) /\ h - 1 = (s - 1) * b + (m - 2)
      BY <3>2, <3>5 DEF Account, Log!LogAssumption
    <3>7. PICK h1 \in Nat, s1 \in Nat, m1 \in Nat :
             h1 = happened'[e] /\ s1 = log_shown'[e] /\ m1 = message_count'[e]
             /\ h1 = h + 1
             /\ (m = 0 \/ m >= b + 1 => s1 = s + 1 /\ m1 = 2)
             /\ (m # 0 /\ m < b + 1 => s1 = s /\ m1 = m + 1)
      BY <3>4, <3>5 DEF Log!CountAfter, Log!Shows, Log!LogAssumption
    <3>8. s1 > 0 /\ m1 \in 2 .. (b + 1) /\ h1 - 1 = (s1 - 1) * b + (m1 - 2)
      <4>1. CASE h = 0
        <5>1. s1 = 1 /\ m1 = 2 /\ h1 = 1
          BY <3>6, <3>7, <4>1
        <5>2. (1 - 1) * b = 0
          BY <3>5
        <5> QED
          BY <5>1, <5>2, <3>5
      <4>2. CASE h > 0 /\ m = b + 1
        <5>1. ((s - 1) + 1) * b = (s - 1) * b + b
          BY Distribute
        <5>2. s1 = (s - 1) + 1 + 1 /\ m1 = 2 /\ h = (s - 1) * b + b
          BY <3>6, <3>7, <4>2
        <5> QED
          BY <5>1, <5>2, <3>6, <3>7, <3>5, <4>2
      <4>3. CASE h > 0 /\ m # b + 1
        <5>1. s1 = s /\ m1 = m + 1 /\ s > 0 /\ m \in 2 .. b
          BY <3>6, <3>7, <4>3
        <5>2. PICK k \in Int : k = (s - 1) * b
          OBVIOUS
        <5> QED
          BY <5>1, <5>2, <3>6, <3>7, <4>3, <3>5, SMTT(30)
      <4> QED
        BY <4>1, <4>2, <4>3
    <3>9. Account(e)'
      BY <3>2, <3>5, <3>7, <3>8 DEF Account, Log!LogAssumption
    <3> QED
      BY <3>1, <3>3, <3>9 DEF LogInv
  <2> QED
    BY <2>1, <2>2, <2>3 DEF Log!LogAssumption
<1> QED
  BY <1>1, <1>2 DEF Log!Next

\* The arithmetic of an account: s errors of h are shown, b apart, and r came since.
LEMMA Apart ==
  ASSUME NEW q \in Nat, NEW b \in Nat, b > 0, NEW r \in Nat, r < b, NEW h \in Nat,
         h - 1 = q * b + r
  PROVE  h <= (b + 1) * (q + 1) /\ (b + 1) * q <= 2 * h
<1>1. PICK k \in Nat : k = q * b
  OBVIOUS
<1>2. (q + 1) * b = k + b
  BY <1>1
<1>3. (b + 1) * (q + 1) = (q + 1) * b + (q + 1)
  OBVIOUS
<1>4. (b + 1) * q = k + q
  BY <1>1
<1>5. q <= k
  <2>1. PICK c \in Nat : b = c + 1
    <3>1. b - 1 \in Nat /\ b = (b - 1) + 1
      OBVIOUS
    <3> QED
      BY <3>1
  <2>2. PICK z \in Nat : z = q * c
    OBVIOUS
  <2>3. q * (c + 1) = q * c + q
    OBVIOUS
  <2> QED
    BY <1>1, <2>1, <2>2, <2>3
<1> QED
  BY <1>1, <1>2, <1>3, <1>4, <1>5

\* An account in order shows as many as it should.
LEMMA LogInvThrottles == ASSUME Log!LogAssumption PROVE LogInv => Log!Throttled
<1> SUFFICES ASSUME LogInv, NEW e \in Errors
    PROVE  IF e \in Log!Types
           THEN /\ happened[e] <= MESSAGE_COUNT_LIMIT * log_shown[e]
                /\ MESSAGE_COUNT_LIMIT * (log_shown[e] - 1) <= 2 * happened[e]
           ELSE log_shown[e] = 0
  BY DEF Log!Throttled
<1>1. Account(e)
  BY DEF LogInv
<1>2. CASE e \notin Log!Types
  BY <1>1, <1>2 DEF Account
<1>3. CASE e \in Log!Types /\ happened[e] = 0
  BY <1>1, <1>3 DEF Account, Log!LogAssumption
<1>4. CASE e \in Log!Types /\ happened[e] > 0
  <2>1. PICK h \in Nat, s \in Nat, m \in Nat, b \in Nat :
           h = happened[e] /\ s = log_shown[e] /\ m = message_count[e]
           /\ b = MESSAGE_COUNT_LIMIT - 1 /\ b > 1
    BY <1>1, <1>4 DEF Account, Log!LogAssumption
  <2>2. h - 1 = (s - 1) * b + (m - 2) /\ s > 0 /\ m \in 2 .. (b + 1)
    BY <1>1, <1>4, <2>1 DEF Account, Log!LogAssumption
  <2>3. PICK q \in Nat, r \in Nat : q = s - 1 /\ r = m - 2 /\ r < b /\ b > 0
    <3>1. s - 1 \in Nat /\ m - 2 \in Nat /\ m - 2 < b /\ b > 0
      BY ONLY <2>1, <2>2, s \in Nat, m \in Nat, b \in Nat
    <3> QED
      BY ONLY <3>1
  <2>4. h - 1 = q * b + r
    BY <2>2, <2>3
  <2>5. h <= (b + 1) * (q + 1) /\ (b + 1) * q <= 2 * h
    BY ONLY <2>3, <2>4, Apart, h \in Nat, b \in Nat, q \in Nat, r \in Nat
  <2>6. b + 1 = MESSAGE_COUNT_LIMIT /\ q + 1 = log_shown[e] /\ q = log_shown[e] - 1
    BY <2>1, <2>3 DEF Log!LogAssumption
  <2> QED
    BY <1>4, <2>1, <2>5, <2>6
<1> QED
  BY <1>1, <1>2, <1>3, <1>4 DEF Account

\* A fault is heard of and does not fill the log, for every limit above 2, any number of types and
\* any mixture of their errors: the first error of a type is shown, never as many as the limit
\* are silent, and those shown are at least half of it apart.
THEOREM LogIsThrottled == Spec => []Throttled
<1> DEFINE I == part = "log" => LogInv
<1>0. Log!LogAssumption
  BY MonitorAssumption
<1>1. Init => I
  BY <1>0, LogInvInit DEF Init
<1>2. I /\ [Next]_vars => I'
  <2> SUFFICES ASSUME I, [Next]_vars, part' = "log" PROVE LogInv'
    OBVIOUS
  <2>1. part = "log" /\ [Log!Next]_(Log!vars)
    BY DEF Next, Step, MayStop, vars, logVars, Log!vars
  <2> QED
    BY <1>0, <2>1, LogInvStep
<1>3. I => Throttled
  BY <1>0, LogInvThrottles DEF Throttled
<1> QED
  BY <1>1, <1>2, <1>3, PTL DEF Spec
-----------------------------------------------------------------------------
(***************************************************************************)
(* Proof of ImplementsLists, from the lemmas of NodeRing.                  *)
(***************************************************************************)
\* The pointers of list.c implement lists, for any number of nodes and of lists: each operation
\* is the one of the same name on sequences and disturbs no other list, walks agree in both
\* directions, and no node is lost between two lists or in both.
THEOREM PointersImplementLists == Spec => ImplementsLists
<1> DEFINE I == part = "ring" => Ring!RInv
<1>0. Ring!NullAssumption
  BY MonitorAssumption
<1>1. Init => I
  BY <1>0, Ring!InitRInv DEF Init
<1>2. [Next]_vars /\ part' = "ring" => part = "ring" /\ [Ring!Next]_(Ring!vars)
  BY DEF Next, Step, MayStop, vars, ringVars, Ring!vars
<1>3. I /\ [Next]_vars => I'
  BY <1>0, <1>2, Ring!RInvStep
<1>4. Init => (part = "ring" => Ring!Seqs!Init)
  BY <1>0, Ring!InitRInv DEF Init
<1>5. I /\ [Next]_vars => [part = "ring" => Ring!OperationKept]_vars
  <2> SUFFICES ASSUME I, Next, part = "ring", vars' # vars PROVE Ring!OperationKept
    OBVIOUS
  <2>1. Ring!Next
    BY DEF Next, Step, MayStop
  <2> QED
    BY <1>0, <2>1, Ring!StepKept
<1>6. I => (part = "ring" => Ring!BothWaysAgree /\ Ring!LooseIsFree)
  BY <1>0, Ring!RInvAgrees, Ring!RInvLoose
<1> QED
  BY <1>1, <1>3, <1>4, <1>5, <1>6, PTL DEF Spec, ImplementsLists
-----------------------------------------------------------------------------
(***************************************************************************)
(* Proof of FilesFollowClock.  What makes it inductive is what prev_second *)
(* and the open file know of each other, and what the first reading of the *)
(* clock can still be worth when the second lets it pass.                  *)
(***************************************************************************)
\* The first second past those of an int32_t.
HalfWord == Word32 \div 2

\* What the first reading makes of the clock that main has reset.
Late == LastSecond + Offset

\* The period of a second of local time.
Div(x) == x \div FLOW_FILE_DUR

\* A remainder that is known.
LEMMA ModExact ==
  ASSUME NEW q \in Int, NEW w \in Nat \ {0}, NEW x \in Nat, x < w
  PROVE  (q * w + x) % w = x
  OBVIOUS

\* The order of the seconds that prev_second, the clock and its readings can take.
LEMMA FileNumbers ==
  /\ FLOW_FILE_DUR \in Nat \ {0} /\ HalfWord \in Nat \ {0} /\ Word32 = 2 * HalfWord
  /\ Word64 \in Nat /\ Word32 \in Nat \ {0} /\ Word64 % Word32 = 0
  /\ Offset \in Int /\ -HalfWord <= Offset /\ Offset < HalfWord
  /\ LastSecond \in Nat \ {0} /\ Late \in Nat /\ Word32 <= Late /\ Late <= Word64 - Word32
  /\ Late % Word32 >= HalfWord
  /\ Start \in Nat \ {0} /\ Start + Offset >= 0 /\ Start + Offset < HalfWord
  /\ Start < LastSecond
  /\ \A s \in Clock : s \in Nat /\ s >= Start /\ s + Offset < HalfWord /\ s < LastSecond
<1>1. File!PeriodAssumption /\ File!WidthAssumption /\ File!ClockAssumption
  BY MonitorAssumption
<1>2. /\ Word32 \in Nat \ {0} /\ Word32 % 2 = 0 /\ Word64 \in Nat /\ Word64 % Word32 = 0
      /\ LastSecond \in Nat /\ Late \in Word32 .. Word64 - Word32
      /\ Late % Word32 >= Word32 \div 2
  BY <1>1 DEF File!WidthAssumption, Late
<1>3. HalfWord \in Nat \ {0} /\ Word32 = 2 * HalfWord
  BY <1>2 DEF HalfWord
<1>4. Offset \in -HalfWord .. HalfWord - 1 /\ FLOW_FILE_DUR \in Nat \ {0}
  BY <1>1 DEF File!PeriodAssumption, HalfWord
<1>5. /\ Start \in Nat \ {0} /\ Start + Offset \in 0 .. HalfWord - 1
      /\ Clock \subseteq Nat /\ \A s \in Clock : s >= Start /\ s + Offset < HalfWord
  BY <1>1 DEF File!ClockAssumption, HalfWord
<1>6. Late = LastSecond + Offset /\ Late \in Nat /\ Word32 <= Late /\ Late <= Word64 - Word32
  BY <1>2 DEF Late
<1>7. LastSecond # 0
  BY <1>2, <1>3, <1>4, <1>6
<1>8. \A s \in Nat : s + Offset < HalfWord => s < LastSecond
  BY <1>2, <1>3, <1>4, <1>6
<1>9. Late % Word32 >= HalfWord
  BY <1>2 DEF HalfWord
<1> QED
  BY <1>2, <1>3, <1>4, <1>5, <1>6, <1>7, <1>8, <1>9

\* Periods follow seconds.
LEMMA PeriodOrder ==
  /\ \A x \in Int : Div(x) \in Int /\ (x >= 0 => Div(x) \in Nat /\ Div(x) <= x)
  /\ \A x, y \in Int : x <= y => Div(x) <= Div(y)
  /\ \A s : File!Period(s) = Div(s + Offset)
<1>1. FLOW_FILE_DUR \in Nat \ {0}
  BY FileNumbers
<1>2. ASSUME NEW d \in Nat \ {0}, NEW x \in Int, NEW y \in Int
      PROVE  /\ x \div d \in Int /\ (x >= 0 => x \div d \in Nat /\ x \div d <= x)
             /\ x <= y => x \div d <= y \div d
  OBVIOUS
<1>3. \A x, y \in Int : /\ Div(x) \in Int /\ (x >= 0 => Div(x) \in Nat /\ Div(x) <= x)
                        /\ x <= y => Div(x) <= Div(y)
  BY <1>1, <1>2 DEF Div
<1>4. \A s : File!Period(s) = Div(s + Offset)
  BY DEF File!Period, Div
<1> QED
  BY <1>3, <1>4

\* A comparison of the unsigned current_second with the signed prev_second.
LEMMA AsUnsigned ==
  /\ \A x \in Nat : x < Word64 => File!AsUint64(x) = x
  /\ \A x \in Int : -HalfWord <= x /\ x < 0 => File!AsUint64(x) = x + Word64
<1>1. HalfWord \in Nat \ {0} /\ Word64 \in Nat /\ Word32 = 2 * HalfWord
      /\ Word32 <= Late /\ Late <= Word64 - Word32 /\ Late \in Nat
  BY FileNumbers
<1>2. HalfWord < Word64
  BY <1>1
<1>3. ASSUME NEW x \in Nat, x < Word64 PROVE x % Word64 = x
  BY <1>1, <1>3
<1>4. ASSUME NEW x \in Int, -HalfWord <= x, x < 0 PROVE x % Word64 = x + Word64
  <2>1. x + Word64 \in Nat /\ x + Word64 < Word64 /\ Word64 \in Nat \ {0}
    BY <1>1, <1>2, <1>4
  <2>2. (-1 * Word64 + (x + Word64)) % Word64 = x + Word64
    BY <2>1, ModExact
  <2>3. -1 * Word64 + (x + Word64) = x
    BY <1>1
  <2> QED
    BY <2>2, <2>3
<1> QED
  BY <1>3, <1>4 DEF File!AsUint64

\* What prev_second makes of the unsigned current_second.
LEMMA AsSigned ==
  /\ \A x \in Nat : x < HalfWord => File!AsInt32(x) = x
  /\ File!AsInt32(Late) \in -HalfWord .. -1
  /\ File!Unset = (IF Offset >= 0 THEN Offset ELSE Offset + Word64)
  /\ File!AsInt32(File!Unset) = Offset
<1> USE FileNumbers
<1>1. ASSUME NEW x \in Nat, x < HalfWord PROVE x % Word32 = x
  BY <1>1
<1>2. ASSUME NEW x \in Nat, x < HalfWord PROVE File!AsInt32(x) = x
  BY <1>1, <1>2 DEF File!AsInt32, HalfWord
<1>3. Late % Word32 \in 0 .. Word32 - 1
  OBVIOUS
<1>4. File!AsInt32(Late) \in -HalfWord .. -1
  BY <1>3 DEF File!AsInt32, HalfWord
<1>5. File!Unset = IF Offset >= 0 THEN Offset ELSE Offset + Word64
  BY AsUnsigned DEF File!Unset
<1>6. ASSUME Offset < 0 PROVE (Offset + Word64) % Word32 = Offset + Word32
  <2>1. PICK q \in Int : Word64 = q * Word32
    <3>1. Word64 \div Word32 \in Int /\ Word64 = (Word64 \div Word32) * Word32
      OBVIOUS
    <3> QED
      BY ONLY <3>1
  <2>2. Offset + Word32 \in Nat /\ Offset + Word32 < Word32
    BY <1>6
  <2>3. PICK k \in Int, r \in Nat : k = q - 1 /\ r = Offset + Word32
    BY <2>1, <2>2
  <2>4. (k * Word32 + r) % Word32 = r
    <3>1. Word32 \in Nat \ {0} /\ r < Word32
      BY <2>2, <2>3
    <3> QED
      BY ONLY <3>1, ModExact
  <2>5. k * Word32 + r = Offset + Word64
    BY <2>1, <2>3
  <2> QED
    BY <2>3, <2>4, <2>5
<1>7. File!AsInt32(File!Unset) = Offset
  <2>1. CASE Offset >= 0
    BY <1>2, <1>5, <2>1
  <2>2. CASE Offset < 0
    <3>1. File!Unset = Offset + Word64
      BY <1>5, <2>2
    <3>2. ~ (Offset + Word32 < Word32 \div 2)
      BY DEF HalfWord
    <3> QED
      BY <1>6, <2>2, <3>1, <3>2 DEF File!AsInt32
  <2> QED
    BY <2>1, <2>2
<1> QED
  BY <1>2, <1>4, <1>5, <1>7

\* prev_second is the second noted last and the file is that second's, except at first, after
\* a first packet between the readings, and once the reset has been noted.
NotedRight ==
  \/ prev_second = 0 /\ file = File!Period(Start)
  \/ /\ prev_second = Offset /\ second # 0
     /\ \/ file = Div(File!Unset)
        \/ Div(File!Unset) = 0 /\ file = File!Period(Start)
  \/ /\ second # 0 /\ file \in file_shown
     /\ \E s \in Clock : prev_second = s + Offset /\ file = File!Period(s)
  \/ /\ second = LastSecond /\ prev_second = File!AsInt32(Late)
     /\ file = File!Period(LastSecond)

\* Between the two readings current_second is a second that packets have shown, unless no
\* packet had come at the first or main has reset the clock.
ReadRight ==
  file_pc = "test" =>
    \/ current_second = File!Unset /\ prev_second = 0 /\ file = File!Period(Start)
    \/ /\ second # 0
       /\ \E s \in Clock : current_second = s + Offset /\ File!Period(s) \in file_shown
    \/ second = LastSecond /\ current_second = Late

\* Who writes the clock.
ClockRight ==
  /\ file_main = "run" => second \in Clock \cup {0}
  /\ file_main \in {"reset", "stopped"} => second = LastSecond
  /\ second \in Clock => File!Period(second) \in file_shown
  /\ File!Period(Start) \in file_shown

\* How far the clock, its reading and the file have come since the last record.
PrintedRight ==
  /\ printed # 0 => printed <= second
  /\ file_pc = "test" /\ printed # 0 => current_second >= printed + Offset
  /\ file_pc \in {"loop", "list"} /\ printed # 0 => file >= File!Period(printed)

\* The invariant.
FileInv == File!TypeOK /\ NotedRight /\ ReadRight /\ ClockRight /\ PrintedRight

\* The types of what is computed with, and where the periods lie.
LEMMA FileTypes ==
  ASSUME FileInv
  PROVE  /\ second \in Nat /\ printed \in Nat /\ file \in Nat /\ prev_second \in Int
         /\ current_second \in Nat /\ current_second < Word64
         /\ File!Period(Start) = Div(Start + Offset) /\ File!Period(Start) \in Nat
         /\ File!Period(LastSecond) = Div(Late)
  BY FileNumbers, PeriodOrder DEF FileInv, File!TypeOK, Late

\* The numbers that prev_second is compared as, when it is not negative.
LEMMA KnownPrev ==
  ASSUME NEW p \in Nat, p < HalfWord, prev_second = p, current_second \in Nat
  PROVE  /\ File!LaterSecond <=> second # 0 /\ current_second > p
         /\ File!NewPeriod <=> Div(current_second) > Div(p)
<1>1. File!AsUint64(p) = p
  BY AsUnsigned, FileNumbers
<1>2. File!Quotient(p, FLOW_FILE_DUR) = Div(p)
  BY DEF File!Quotient, Div
<1>3. Div(p) \in Nat /\ Div(p) <= p
  BY PeriodOrder
<1>4. File!AsUint64(Div(p)) = Div(p)
  BY <1>3, AsUnsigned, FileNumbers
<1> QED
  BY <1>1, <1>2, <1>4 DEF File!LaterSecond, File!NewPeriod, Div

\* A negative prev_second is compared as a number that no reading reaches.
LEMMA NegativePrev ==
  ASSUME prev_second \in -HalfWord .. -1, current_second \in Nat, current_second <= Late
  PROVE  ~ File!LaterSecond
<1>1. File!AsUint64(prev_second) = prev_second + Word64
  BY AsUnsigned, FileNumbers
<1> QED
  BY <1>1, FileNumbers DEF File!LaterSecond

\* What the test decides: whether the file is behind the reading.
LEMMA Turn ==
  ASSUME FileInv, file_pc = "test"
  PROVE  /\ second # 0 /\ ~ (File!LaterSecond /\ File!NewPeriod) => Div(current_second) <= file
         /\ File!LaterSecond /\ ~ File!NewPeriod =>
              Div(current_second) = file \/ current_second = File!Unset
         /\ File!LaterSecond /\ File!NewPeriod =>
              file <= Div(current_second) \/ current_second = File!Unset
         /\ File!LaterSecond /\ File!NewPeriod /\ prev_second \notin {0, Offset} =>
              file # Div(current_second)
<1> DEFINE Goal == /\ second # 0 /\ ~ (File!LaterSecond /\ File!NewPeriod)
                        => Div(current_second) <= file
                   /\ File!LaterSecond /\ ~ File!NewPeriod =>
                        Div(current_second) = file \/ current_second = File!Unset
                   /\ File!LaterSecond /\ File!NewPeriod =>
                        file <= Div(current_second) \/ current_second = File!Unset
                   /\ File!LaterSecond /\ File!NewPeriod /\ prev_second \notin {0, Offset} =>
                        file # Div(current_second)
<1>1. /\ second \in Nat /\ file \in Nat /\ prev_second \in Int /\ current_second \in Nat
      /\ File!Period(Start) = Div(Start + Offset) /\ File!Period(Start) \in Nat
      /\ File!Period(LastSecond) = Div(Late)
  BY FileTypes
<1>2. Div(0) = 0 /\ Div(current_second) \in Nat
  BY <1>1, PeriodOrder
<1>3. \/ current_second = File!Unset /\ prev_second = 0
      \/ /\ second # 0 /\ current_second >= Start + Offset /\ current_second > Offset
         /\ current_second <= Late
  <2>1. ASSUME NEW s \in Clock, current_second = s + Offset
        PROVE  /\ current_second >= Start + Offset /\ current_second > Offset
               /\ current_second <= Late
    BY <2>1, FileNumbers
  <2>2. Late >= Start + Offset /\ Late > Offset
    BY FileNumbers DEF Late
  <2> QED
    BY <2>1, <2>2, FileNumbers DEF FileInv, ReadRight
<1>4. CASE prev_second = 0 /\ file = File!Period(Start)
  <2>1. /\ File!LaterSecond <=> second # 0 /\ current_second > 0
        /\ File!NewPeriod <=> Div(current_second) > 0
    BY <1>1, <1>2, <1>4, KnownPrev, FileNumbers
  <2>2. current_second = File!Unset \/ Div(Start + Offset) <= Div(current_second)
    BY <1>1, <1>3, FileNumbers, PeriodOrder
  <2>3. current_second = 0 => Div(current_second) = 0
    BY <1>2
  <2> QED
    BY <1>1, <1>2, <1>4, <2>1, <2>2, <2>3
<1>5. CASE prev_second = 0 /\ current_second = File!Unset
  <2>1. /\ File!LaterSecond <=> second # 0 /\ current_second > 0
        /\ File!NewPeriod <=> Div(current_second) > 0
    BY <1>1, <1>2, <1>5, KnownPrev, FileNumbers
  <2> QED
    BY <1>1, <1>2, <1>5, <2>1
<1>6. CASE /\ prev_second = Offset /\ Offset >= 0 /\ current_second >= Start + Offset
           /\ current_second > Offset
           /\ \/ file = Div(File!Unset)
              \/ Div(File!Unset) = 0 /\ file = File!Period(Start)
  <2>1. File!Unset = Offset
    BY <1>6, AsSigned
  <2>2. /\ File!LaterSecond <=> second # 0 /\ current_second > Offset
        /\ File!NewPeriod <=> Div(current_second) > Div(Offset)
    BY <1>1, <1>6, KnownPrev, FileNumbers
  <2>3. Div(Start + Offset) <= Div(current_second) /\ Div(Offset) <= Div(current_second)
        /\ Div(Offset) \in Nat
    BY <1>1, <1>6, FileNumbers, PeriodOrder
  <2> QED
    BY <1>1, <1>2, <1>6, <2>1, <2>2, <2>3
<1>7. CASE /\ prev_second = Offset /\ Offset < 0 /\ current_second <= Late
           /\ \/ file = Div(File!Unset)
              \/ Div(File!Unset) = 0 /\ file = File!Period(Start)
  <2>1. File!Unset = Offset + Word64 /\ File!Unset \in Nat /\ current_second <= File!Unset
    BY <1>1, <1>7, AsSigned, FileNumbers
  <2>2. ~ File!LaterSecond
    BY <1>1, <1>7, NegativePrev, FileNumbers
  <2>3. Div(current_second) <= Div(File!Unset)
    BY <1>1, <2>1, PeriodOrder
  <2> QED
    BY <1>1, <1>2, <1>7, <2>2, <2>3
<1>8. CASE \E s \in Clock : prev_second = s + Offset /\ file = File!Period(s)
  <2>1. PICK s \in Clock : prev_second = s + Offset /\ file = File!Period(s)
    BY <1>8
  <2>2. PICK p \in Nat : p = prev_second /\ p < HalfWord /\ file = Div(p)
    BY <2>1, FileNumbers, PeriodOrder
  <2>3. /\ File!LaterSecond <=> second # 0 /\ current_second > p
        /\ File!NewPeriod <=> Div(current_second) > Div(p)
    BY <1>1, <2>2, KnownPrev
  <2>4. /\ current_second <= p => Div(current_second) <= Div(p)
        /\ current_second > p => Div(p) <= Div(current_second)
    BY <1>1, <2>2, PeriodOrder
  <2> QED
    BY <1>1, <1>2, <2>2, <2>3, <2>4
<1>9. CASE /\ prev_second = File!AsInt32(Late) /\ file = File!Period(LastSecond)
           /\ current_second <= Late
  <2>1. ~ File!LaterSecond
    BY <1>1, <1>9, NegativePrev, AsSigned
  <2>2. Div(current_second) <= Div(Late)
    BY <1>1, <1>9, FileNumbers, PeriodOrder
  <2> QED
    BY <1>1, <1>2, <1>9, <2>1, <2>2
<1>10. \/ prev_second = 0 /\ file = File!Period(Start)
       \/ prev_second = 0 /\ current_second = File!Unset
       \/ /\ prev_second = Offset /\ Offset >= 0 /\ current_second >= Start + Offset
          /\ current_second > Offset
          /\ \/ file = Div(File!Unset)
             \/ Div(File!Unset) = 0 /\ file = File!Period(Start)
       \/ /\ prev_second = Offset /\ Offset < 0 /\ current_second <= Late
          /\ \/ file = Div(File!Unset)
             \/ Div(File!Unset) = 0 /\ file = File!Period(Start)
       \/ \E s \in Clock : prev_second = s + Offset /\ file = File!Period(s)
       \/ /\ prev_second = File!AsInt32(Late) /\ file = File!Period(LastSecond)
          /\ current_second <= Late
  BY <1>3, FileNumbers DEF FileInv, NotedRight
<1> HIDE DEF Goal
<1> QED
  BY <1>4, <1>5, <1>6, <1>7, <1>8, <1>9, <1>10 DEF Goal

\* At first the open file is the wall clock's.
LEMMA FileInvInit == File!Init => FileInv
<1> SUFFICES ASSUME File!Init PROVE FileInv
  OBVIOUS
<1>1. File!Period(Start) \in Nat
  BY FileNumbers, PeriodOrder
<1>2. 0 \in -(Word32 \div 2) .. Word32 \div 2 - 1 /\ 0 \in 0 .. Word64 - 1
  BY FileNumbers DEF HalfWord
<1>3. File!TypeOK
  BY <1>1, <1>2 DEF File!Init, File!TypeOK
<1> QED
  BY <1>3, FileNumbers
     DEF File!Init, FileInv, NotedRight, ReadRight, ClockRight, PrintedRight

\* The process thread and main: what the export thread has read stays a second that packets
\* have shown.
LEMMA FileClockStep ==
  ASSUME FileInv,
         (\E s \in Clock : File!process_packet(s)) \/ File!reset_flow_table \/ File!Stop
  PROVE  FileInv'
<1> USE DEF FileInv
<1>1. /\ second \in Nat /\ printed \in Nat /\ 0 # LastSecond
      /\ LastSecond \notin Clock /\ 0 \notin Clock
      /\ LastSecond \in Nat /\ \A s \in Clock : s \in Nat /\ s < LastSecond
  BY FileTypes, FileNumbers
<1>2. ASSUME NEW s \in Clock, File!process_packet(s) PROVE FileInv'
  <2>1. /\ second' = s /\ second \in Clock \cup {0} /\ second # LastSecond /\ s # 0
        /\ file_shown' = file_shown \cup {File!Period(s)}
        /\ printed' = (IF s < second THEN 0 ELSE printed)
        /\ UNCHANGED <<file_stop_et, file, prev_second, current_second, file_pc, file_main>>
        /\ file_main = "run"
    BY <1>1, <1>2 DEF File!process_packet, ClockRight
  <2>2. File!Period(s) \in Nat
    BY FileNumbers, PeriodOrder
  <2>3. File!TypeOK'
    BY <2>1, <2>2 DEF File!TypeOK
  <2>4. NotedRight'
    BY <2>1 DEF NotedRight
  <2>5. ReadRight'
    BY <2>1 DEF ReadRight
  <2>6. ClockRight'
    BY <2>1 DEF ClockRight
  <2>7. PrintedRight'
    BY <1>1, <2>1 DEF PrintedRight
  <2> QED
    BY <2>3, <2>4, <2>5, <2>6, <2>7
<1>3. CASE File!reset_flow_table
  <2>1. /\ second' = LastSecond /\ second \in Clock \cup {0} /\ second # LastSecond
        /\ UNCHANGED <<file_stop_et, file, prev_second, current_second, file_pc, file_shown,
                       printed>>
        /\ file_main = "run" /\ file_main' = "reset"
    BY <1>1, <1>3 DEF File!reset_flow_table, ClockRight
  <2>2. File!TypeOK'
    BY <2>1 DEF File!TypeOK
  <2>3. NotedRight' /\ ReadRight' /\ ClockRight'
    BY <1>1, <2>1 DEF NotedRight, ReadRight, ClockRight
  <2>4. PrintedRight'
    BY <1>1, <2>1 DEF PrintedRight
  <2> QED
    BY <2>2, <2>3, <2>4
<1>4. CASE File!Stop
  BY <1>4 DEF File!Stop, File!TypeOK, NotedRight, ReadRight, ClockRight, PrintedRight
<1> QED
  BY <1>2, <1>3, <1>4

\* The export thread before its test.
LEMMA FileReadStep ==
  ASSUME FileInv,
         File!WhileTest \/ File!export_data \/ File!NothingExpired \/ File!ReadClock \/ File!Drain
           \/ File!RotateFails
  PROVE  FileInv'
<1> USE DEF FileInv
<1>1. CASE File!WhileTest \/ File!NothingExpired
  BY <1>1 DEF File!WhileTest, File!NothingExpired, File!TypeOK, NotedRight, ReadRight, ClockRight,
              PrintedRight
<1>2. CASE File!export_data \/ File!Drain
  <2>1. second \in Nat /\ second \in Clock \cup {0, LastSecond}
    BY FileTypes DEF File!TypeOK
  <2>2. /\ printed' = second /\ file_pc' \in {"stamp", "done"}
        /\ UNCHANGED <<second, file_stop_et, file, prev_second, current_second, file_main,
                       file_shown>>
    BY <1>2 DEF File!export_data, File!Drain
  <2>3. File!TypeOK'
    BY <2>1, <2>2 DEF File!TypeOK
  <2>4. NotedRight' /\ ReadRight' /\ ClockRight'
    BY <2>2 DEF NotedRight, ReadRight, ClockRight
  <2>5. PrintedRight'
    BY <2>1, <2>2 DEF PrintedRight
  <2> QED
    BY <2>3, <2>4, <2>5
<1>3. CASE File!RotateFails
  BY <1>3 DEF File!RotateFails, File!TypeOK, NotedRight, ReadRight, ClockRight, PrintedRight
<1>4. CASE File!ReadClock
  <2>1. /\ current_second' = File!AsUint64(second + Offset) /\ file_pc' = "test"
        /\ UNCHANGED <<second, file_stop_et, file, prev_second, file_main, file_shown, printed>>
    BY <1>4 DEF File!ReadClock
  <2>2. second \in Clock \cup {0, LastSecond} /\ second \in Nat /\ printed \in Nat
    BY FileTypes DEF File!TypeOK
  <2>3. CASE second = 0
    <3>1. 0 + Offset = Offset
      BY FileNumbers
    <3>2. current_second' = File!Unset
      BY <2>1, <2>3, <3>1 DEF File!Unset
    <3>3. File!Unset \in 0 .. Word64 - 1
      BY AsSigned, FileNumbers
    <3>4. prev_second = 0 /\ file = File!Period(Start) /\ printed = 0
      BY <2>2, <2>3, FileNumbers DEF NotedRight, PrintedRight
    <3>5. File!TypeOK'
      BY <2>1, <3>2, <3>3 DEF File!TypeOK
    <3> QED
      BY <2>1, <2>3, <3>2, <3>4, <3>5 DEF NotedRight, ReadRight, ClockRight, PrintedRight
  <2>4. CASE second # 0
    <3>1. PICK c : c = second + Offset
      OBVIOUS
    <3>2. c \in Nat /\ c < Word64
      BY <2>2, <2>4, <3>1, FileNumbers DEF Late
    <3>3. current_second' = c
      BY <2>1, <3>1, <3>2, AsUnsigned
    <3>4. printed # 0 => c >= printed + Offset
      BY <2>2, <3>1, FileNumbers DEF PrintedRight
    <3>5. \/ second \in Clock /\ c = second + Offset /\ File!Period(second) \in file_shown
          \/ second = LastSecond /\ c = Late
      BY <2>2, <2>4, <3>1 DEF Late, ClockRight
    <3>6. File!TypeOK'
      BY <2>1, <3>2, <3>3, FileNumbers DEF File!TypeOK
    <3> QED
      BY <2>1, <2>4, <3>3, <3>4, <3>5, <3>6 DEF NotedRight, ReadRight, ClockRight, PrintedRight
  <2> QED
    BY <2>3, <2>4
<1> QED
  BY <1>1, <1>2, <1>3, <1>4

\* A reading that is noted: the file is opened for it, or is its own already.
LEMMA NotedAgain ==
  ASSUME FileInv, file_pc = "test", second # 0, second' = second, file_shown' = file_shown,
         prev_second' = File!AsInt32(current_second),
         \/ file' = Div(current_second)
         \/ file' = file /\ File!LaterSecond /\ ~ File!NewPeriod
  PROVE  /\ prev_second' \in -HalfWord .. HalfWord - 1 /\ file' \in Nat
         /\ NotedRight'
<1>1. /\ second \in Nat /\ file \in Nat /\ current_second \in Nat
      /\ File!Period(Start) \in Nat /\ File!Period(LastSecond) = Div(Late)
  BY FileTypes
<1>2. Div(current_second) \in Nat /\ Div(0) = 0
  BY <1>1, PeriodOrder
<1>3. CASE current_second = File!Unset /\ prev_second = 0 /\ file = File!Period(Start)
  <2>1. prev_second' = Offset
    BY <1>3, AsSigned
  <2>2. File!NewPeriod <=> Div(current_second) > 0
    BY <1>1, <1>2, <1>3, KnownPrev, FileNumbers
  <2>3. file' = Div(File!Unset) \/ (Div(File!Unset) = 0 /\ file' = File!Period(Start))
    BY <1>2, <1>3, <2>2
  <2>4. prev_second' \in -HalfWord .. HalfWord - 1 /\ file' \in Nat
    BY <1>1, <1>2, <1>3, <2>1, <2>3, FileNumbers
  <2> QED
    BY <2>1, <2>3, <2>4 DEF NotedRight
<1>4. ASSUME current_second # File!Unset PROVE file' = Div(current_second)
  BY <1>4, Turn
<1>5. CASE \E s \in Clock : current_second = s + Offset /\ File!Period(s) \in file_shown
  <2>1. PICK s \in Clock : current_second = s + Offset /\ File!Period(s) \in file_shown
    BY <1>5
  <2>2. current_second # File!Unset /\ current_second < HalfWord
    BY <2>1, AsSigned, FileNumbers
  <2>3. prev_second' = s + Offset
    BY <1>1, <2>1, <2>2, AsSigned
  <2>4. file' = File!Period(s)
    BY <1>4, <2>1, <2>2, PeriodOrder
  <2>5. prev_second' \in -HalfWord .. HalfWord - 1 /\ file' \in Nat
    BY <1>1, <1>2, <1>4, <2>1, <2>2, <2>3, FileNumbers
  <2> QED
    BY <2>1, <2>3, <2>4, <2>5 DEF NotedRight
<1>6. CASE second = LastSecond /\ current_second = Late
  <2>1. current_second # File!Unset
    BY <1>6, AsSigned, FileNumbers DEF Late
  <2>2. prev_second' = File!AsInt32(Late) /\ file' = File!Period(LastSecond)
    BY <1>1, <1>4, <1>6, <2>1
  <2>3. prev_second' \in -HalfWord .. HalfWord - 1 /\ file' \in Nat
    BY <1>2, <1>4, <2>1, <2>2, AsSigned, FileNumbers
  <2> QED
    BY <1>6, <2>2, <2>3 DEF NotedRight
<1> QED
  BY <1>3, <1>5, <1>6 DEF FileInv, ReadRight

\* The test and what follows it.
LEMMA FileTestStep ==
  ASSUME FileInv, File!SamePeriod \/ File!Rotate
  PROVE  FileInv'
<1>1. /\ file_pc = "test" /\ file_pc' = "loop"
      /\ UNCHANGED <<second, file_stop_et, current_second, file_main, file_shown, printed>>
  BY DEF File!SamePeriod, File!Rotate
<1>2. /\ second \in Nat /\ printed \in Nat /\ file \in Nat /\ current_second \in Nat
      /\ prev_second \in Int
  BY FileTypes
<1>3. Div(current_second) \in Nat
  BY <1>2, PeriodOrder
<1>4. /\ prev_second' \in -HalfWord .. HalfWord - 1 /\ file' \in Nat /\ NotedRight'
      /\ second # 0 => file' >= Div(current_second)
  <2>1. CASE File!SamePeriod /\ ~ File!LaterSecond
    <3>1. UNCHANGED <<prev_second, file>>
      BY <2>1 DEF File!SamePeriod
    <3>2. prev_second \in -HalfWord .. HalfWord - 1
      BY DEF FileInv, File!TypeOK, HalfWord
    <3>3. second # 0 => Div(current_second) <= file
      BY <1>1, <2>1, Turn
    <3>4. NotedRight'
      BY <1>1, <3>1 DEF FileInv, NotedRight
    <3> QED
      BY <1>2, <1>3, <3>1, <3>2, <3>3, <3>4
  <2>2. CASE File!SamePeriod /\ File!LaterSecond
    <3>1. /\ prev_second' = File!AsInt32(current_second) /\ file' = file
          /\ ~ File!NewPeriod /\ second # 0
      BY <2>2 DEF File!SamePeriod, File!LaterSecond
    <3>2. Div(current_second) <= file
      BY <1>1, <3>1, Turn
    <3> QED
      BY <1>1, <1>2, <1>3, <2>2, <3>1, <3>2, NotedAgain
  <2>3. CASE File!Rotate
    <3>1. /\ prev_second' = File!AsInt32(current_second) /\ file' = Div(current_second)
          /\ second # 0
      BY <2>3 DEF File!Rotate, File!LaterSecond, File!NextFile, File!Noted, Div
    <3> QED
      BY <1>1, <1>3, <3>1, NotedAgain
  <2> QED
    BY <2>1, <2>2, <2>3
<1>5. File!TypeOK'
  BY <1>1, <1>4 DEF FileInv, File!TypeOK, HalfWord
<1>6. PrintedRight'
  <2>1. printed # 0 => printed <= second /\ current_second >= printed + Offset
    BY <1>1 DEF FileInv, PrintedRight
  <2>2. printed # 0 => second # 0
    BY <1>2, <2>1
  <2>3. printed # 0 => Div(current_second) >= File!Period(printed)
    BY <1>2, <2>1, FileNumbers, PeriodOrder
  <2>4. File!Period(printed) \in Int
    BY <1>2, FileNumbers, PeriodOrder
  <2>5. printed # 0 => file' >= File!Period(printed)
    BY <1>3, <1>4, <2>2, <2>3, <2>4
  <2> QED
    BY <1>1, <2>1, <2>5 DEF PrintedRight, File!Period
<1>7. ReadRight' /\ ClockRight'
  BY <1>1 DEF FileInv, ReadRight, ClockRight, File!Period
<1> QED
  BY <1>4, <1>5, <1>6, <1>7 DEF FileInv

\* Every step preserves the invariant.
LEMMA FileInvStep == FileInv /\ [File!Next]_(File!vars) => FileInv'
<1> SUFFICES ASSUME FileInv, [File!Next]_(File!vars) PROVE FileInv'
  OBVIOUS
<1>1. CASE UNCHANGED File!vars
  BY <1>1 DEF File!vars, FileInv, File!TypeOK, NotedRight, ReadRight, ClockRight, PrintedRight
<1> QED
  BY <1>1, FileClockStep, FileReadStep, FileTestStep DEF File!Next, File!Export

\* The properties of a state.
LEMMA FileInvEnough == FileInv => File!TypeOK /\ File!AtMostOneLate /\ File!NamedByClock
<1> SUFFICES ASSUME FileInv PROVE File!AtMostOneLate /\ File!NamedByClock
  BY DEF FileInv
<1>1. File!AtMostOneLate
  BY DEF FileInv, PrintedRight, File!AtMostOneLate
<1>2. File!NamedByClock
  BY DEF FileInv, NotedRight, ClockRight, File!NamedByClock, Div
<1> QED
  BY <1>1, <1>2

\* What a step does to the file.
LEMMA FileStepDoes ==
  ASSUME FileInv, File!Next
  PROVE  File!GoesForward /\ File!OpensAnother
<1>1. file \in Nat /\ current_second \in Nat
  BY FileTypes
<1>2. CASE File!Rotate
  <2>1. /\ file_pc = "test" /\ file' = Div(current_second)
        /\ File!LaterSecond /\ File!NewPeriod
    BY <1>2 DEF File!Rotate, File!NextFile, Div
  <2>2. Div(current_second) \in Nat
    BY <1>1, PeriodOrder
  <2> QED
    BY <1>1, <2>1, <2>2, Turn DEF File!GoesForward, File!OpensAnother
<1>3. CASE ~ File!Rotate
  <2>1. file' = file
    BY <1>3 DEF File!Next, File!Export, File!process_packet, File!reset_flow_table, File!Stop,
       File!WhileTest, File!export_data, File!NothingExpired, File!ReadClock, File!SamePeriod,
       File!RotateFails, File!Drain
  <2> QED
    BY <1>1, <1>3, <2>1 DEF File!GoesForward, File!OpensAnother
<1> QED
  BY <1>2, <1>3

\* The flow files follow the clock of the packets for every length of a period, every offset
\* from Greenwich and every order of packets before 2038, whichever of the two readings of the
\* clock the export thread acts on, with the exceptions that FilesFollowClock names.
THEOREM FilesAreFollowed == Spec => FilesFollowClock
<1> DEFINE I == part = "file" => FileInv
<1>1. Init => I
  BY FileInvInit DEF Init
<1>2. [Next]_vars /\ part' = "file" => part = "file" /\ [File!Next]_(File!vars)
  BY DEF Next, Step, MayStop, vars, fileVars, File!vars
<1>3. I /\ [Next]_vars => I'
  BY <1>2, FileInvStep
<1>4. I => (part = "file" => File!TypeOK /\ File!AtMostOneLate /\ File!NamedByClock)
  BY FileInvEnough
<1>5. I /\ [Next]_vars => [part = "file" => File!GoesForward /\ File!OpensAnother]_vars
  <2> SUFFICES ASSUME I, Next, part = "file", vars' # vars
               PROVE  File!GoesForward /\ File!OpensAnother
    OBVIOUS
  <2>1. File!Next
    BY DEF Next, Step, MayStop
  <2> QED
    BY <2>1, FileStepDoes
<1> QED
  BY <1>1, <1>3, <1>4, <1>5, PTL DEF Spec, FilesFollowClock
=============================================================================
