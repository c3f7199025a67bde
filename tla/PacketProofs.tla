---------------------------- MODULE PacketProofs ----------------------------
(***************************************************************************)
(* Proofs about Packet.tla, for every set of frames.                       *)
(*                                                                         *)
(* They rest on two facts about the parser: its fast path sees what the    *)
(* general path sees, and where it finds a payload, the payload starts     *)
(* where the layout of the packet says that it does.  Truncation changes   *)
(* nothing of that layout.                                                 *)
(***************************************************************************)
EXTENDS Packet, TLAPS

-----------------------------------------------------------------------------
(* The parser.                                                             *)

\* A number of 16 bits.
LEMMA Words ==
    ASSUME NEW n
    PROVE  n \in Word <=> n \in Int /\ 0 <= n /\ n <= 65535
<1> DEFINE last == 65535
<1>1. last \in Int
  OBVIOUS
<1>2. Word = 0..last
  BY DEF Word
<1> HIDE DEF last
<1>3. n \in Word <=> n \in Int /\ 0 <= n /\ n <= last
  BY <1>1, <1>2
<1> QED
  BY <1>3 DEF last

\* The fields that are computed with are numbers.
LEMMA Fields ==
    ASSUME NEW f \in FrameType
    PROVE  /\ f.len \in Nat /\ f.tags \in Nat /\ f.ihl \in 5..15 /\ f.doff \in 0..15
           /\ f.iplen \in Nat /\ f.iplen <= 65535
           /\ f.ext \in Nat /\ f.ext <= 65535
           /\ f.proto \in {"tcp", "udp", "other"}
           /\ f.ether \in {"ipv4", "ipv6", "other"}
<1>1. /\ f.len \in Nat /\ f.tags \in Nat /\ f.ihl \in 5..15 /\ f.doff \in 0..15
      /\ f.iplen \in Word
      /\ f.ext \in {0} \union {n \in Word : n >= 8}
      /\ f.proto \in {"tcp", "udp", "other"}
      /\ f.ether \in {"ipv4", "ipv6", "other"}
  BY DEF FrameType
<1>2. f.ext = 0 \/ f.ext \in Word
  BY <1>1
<1>3. \A n \in Word : n \in Nat /\ n <= 65535
  BY Words
<1>4. f.iplen \in Nat /\ f.iplen <= 65535 /\ f.ext \in Nat /\ f.ext <= 65535
  BY <1>1, <1>2, <1>3
<1> QED
  BY <1>1, <1>4

\* What the fast path accepts, it parses as the general path does.
LEMMA FastIsGeneral ==
    ASSUME NEW f \in FrameType, ParsePlain(f) # NotPlain
    PROVE  ParsePlain(f) = ParseTagged(f)
<1> DEFINE l4 == CASE f.proto = "tcp" -> L4Info("tcp", 34, 20)
                   [] f.proto = "udp" -> L4Info("udp", 34, 8)
                   [] OTHER -> NoL4
<1> DEFINE room == SaturatingSub(f.iplen, 20)
<1>1. /\ f.len \in Nat /\ f.tags \in Nat /\ f.ihl \in 5..15 /\ f.iplen \in Nat
      /\ f.doff \in 0..15 /\ f.proto \in {"tcp", "udp", "other"}
  BY Fields
<1>2. room \in Nat
  BY <1>1 DEF SaturatingSub
<1>3. ~ \/ f.len < 54 \/ f.tags > 0 \/ f.ether # "ipv4" \/ ~f.version \/ f.ihl # 5
        \/ f.fragment \/ f.len < 14 + f.iplen
        \/ f.proto = "tcp" /\ (room < 20 \/ f.doff # 5)
        \/ f.proto = "udp" /\ room < 8
  BY Zenon DEF ParsePlain
<1>4. ParsePlain(f) = Parsed(14, 20, FALSE, l4)
  BY <1>3, Zenon DEF ParsePlain
<1>5. /\ f.len >= 54 /\ f.tags = 0 /\ f.ihl = 5
      /\ f.proto = "tcp" => room >= 20 /\ f.doff = 5
      /\ f.proto = "udp" => room >= 8
  <2> HIDE DEF room
  <2> QED
    BY <1>1, <1>2, <1>3
<1>6. f.ether = "ipv4" /\ f.version
  BY <1>3, Zenon
<1>7. IpStart(f) = 14 /\ 4 * f.ihl = 20
  BY <1>5 DEF IpStart
<1>8. ParseL4(f, 34, room) = l4
  <2> HIDE DEF room
  <2>1. f.proto = "tcp" => ParseTcp(f, 34, room) = L4Info("tcp", 34, 20)
    BY <1>1, <1>2, <1>5 DEF ParseTcp
  <2>2. f.proto = "udp" => ParseUdp(f, 34, room) = L4Info("udp", 34, 8)
    BY <1>1, <1>2, <1>5 DEF ParseUdp
  <2> QED
    BY <1>1, <2>1, <2>2 DEF ParseL4
<1>9. ParseTagged(f) = ParseIpv4(f)
  BY <1>1, <1>5, <1>6, <1>7 DEF ParseTagged
<1>10. ParseIpv4(f) = Parsed(14, 20, FALSE, ParseL4(f, 34, room))
  <2>1. ~(f.len < 14 + 20) /\ 14 + 20 = 34
    BY <1>1, <1>5
  <2> QED
    BY <1>6, <1>7, <2>1 DEF ParseIpv4
<1> QED
  BY <1>4, <1>8, <1>9, <1>10

LEMMA ParseIsGeneral ==
    ASSUME NEW f \in FrameType
    PROVE  ParseFrame(f) = ParseTagged(f)
BY FastIsGeneral DEF ParseFrame

\* The layout of a frame in numbers.
LEMMA Layout ==
    ASSUME NEW f \in FrameType
    PROVE  /\ IpStart(f) \in Nat /\ IpStart(f) >= 14
           /\ IpHeaderLen(f) \in Nat /\ IpHeaderLen(f) >= 20
           /\ L4HeaderLen(f) \in 0..60
           /\ f.ether = "ipv4" => IpHeaderLen(f) = 4 * f.ihl /\ 4 * f.ihl \in 20..60
           /\ f.ether # "ipv4" => IpHeaderLen(f) = 40 + f.ext
           /\ DataStart(f) = IpStart(f) + IpHeaderLen(f) + L4HeaderLen(f)
BY Fields DEF IpStart, IpHeaderLen, L4HeaderLen, DataStart

LEMMA L4Here ==
    ASSUME NEW f \in FrameType, NEW start \in Nat, NEW room \in Nat
    PROVE  /\ ParseL4(f, start, room) # NoL4 <=>
                 /\ f.proto = "udp" \/ (f.proto = "tcp" /\ f.doff >= 5)
                 /\ start + L4HeaderLen(f) <= f.len
                 /\ L4HeaderLen(f) <= room
           /\ ParseL4(f, start, room) # NoL4 =>
                 ParseL4(f, start, room) = L4Info(f.proto, start, L4HeaderLen(f))
BY Fields DEF ParseL4, ParseTcp, ParseUdp, L4HeaderLen, NoL4, L4Info

\* The parser finds an L4 header in the well-formed frames, and there it
\* finds the headers where the layout has them.
AsLaidOut(f) ==
    Parsed(IpStart(f), IF f.ether = "ipv4" THEN 4 * f.ihl ELSE 40, f.ether = "ipv6",
           L4Info(f.proto, IpStart(f) + IpHeaderLen(f), L4HeaderLen(f)))

LEMMA ParsesIpv4 ==
    ASSUME NEW f \in FrameType, f.ether = "ipv4"
    PROVE  /\ ParseIpv4(f).l4 # NoL4 <=> WellFormed(f) /\ f.len >= IpStart(f)
           /\ WellFormed(f) => ParseIpv4(f) = AsLaidOut(f)
<1> DEFINE ip == IpStart(f)
           hdr == 4 * f.ihl
           room == SaturatingSub(f.iplen, hdr)
<1>1. /\ ip \in Nat /\ ip >= 14 /\ hdr \in 20..60 /\ L4HeaderLen(f) \in 0..60
      /\ f.len \in Nat /\ f.iplen \in Nat /\ room \in Nat
      /\ ip + hdr \in Nat
      /\ IpHeaderLen(f) = hdr
      /\ DataStart(f) = ip + hdr + L4HeaderLen(f)
      /\ PacketEnd(f) = ip + f.iplen
  BY Fields, Layout DEF SaturatingSub, PacketEnd
<1>2. f.proto = "udp" \/ (f.proto = "tcp" /\ f.doff >= 5) => L4HeaderLen(f) >= 8
  BY Fields DEF L4HeaderLen
<1> DEFINE l4 == ParseL4(f, ip + hdr, room)
<1>3. /\ l4 # NoL4 <=> /\ f.proto = "udp" \/ (f.proto = "tcp" /\ f.doff >= 5)
                       /\ ip + hdr + L4HeaderLen(f) <= f.len
                       /\ L4HeaderLen(f) <= room
      /\ l4 # NoL4 => l4 = L4Info(f.proto, ip + hdr, L4HeaderLen(f))
  BY <1>1, L4Here
<1>4. CASE f.len < ip + hdr \/ ~f.version
  <2>1. ~WellFormed(f)
    BY <1>1, <1>4 DEF WellFormed
  <2>2. ParseIpv4(f).l4 = NoL4
    BY <1>1, <1>4 DEF ParseIpv4, Parsed
  <2> QED
    BY <2>1, <2>2
<1>5. CASE f.len >= ip + hdr /\ f.version
  <2>1. ParseIpv4(f) = Parsed(ip, hdr, FALSE, l4)
    <3>1. ~(f.len < ip + 20 \/ ~f.version) /\ ~(f.len < ip + hdr)
      BY <1>1, <1>5
    <3> QED
      BY <3>1, Zenon DEF ParseIpv4
  <2>2. L4HeaderLen(f) <= room <=> (DataStart(f) <= PacketEnd(f) \/ L4HeaderLen(f) = 0)
    <3> DEFINE l == L4HeaderLen(f)
               w == f.iplen
    <3>1. /\ l \in Nat /\ w \in Nat /\ ip \in Nat /\ hdr \in Nat
          /\ DataStart(f) = ip + hdr + l /\ PacketEnd(f) = ip + w
          /\ room = SaturatingSub(w, hdr)
      BY <1>1
    <3> HIDE DEF l, w, ip, hdr, room
    <3>2. l <= room <=> (DataStart(f) <= PacketEnd(f) \/ l = 0)
      BY ONLY <3>1 DEF SaturatingSub
    <3> QED
      BY <3>2 DEF l
  <2>3. l4 # NoL4 <=> WellFormed(f)
    BY <1>1, <1>2, <1>3, <1>5, <2>2 DEF WellFormed
  <2>4. l4 # NoL4 => Parsed(ip, hdr, FALSE, l4) = AsLaidOut(f)
    BY <1>1, <1>3 DEF AsLaidOut
  <2>5. Parsed(ip, hdr, FALSE, l4).l4 = l4
    BY DEF Parsed
  <2> HIDE DEF l4, ip, hdr
  <2>6. f.len >= IpStart(f)
    BY <1>1, <1>5 DEF ip
  <2> QED
    BY <2>1, <2>3, <2>4, <2>5, <2>6
<1> QED
  BY <1>1, <1>4, <1>5

LEMMA ParsesIpv6 ==
    ASSUME NEW f \in FrameType, f.ether = "ipv6"
    PROVE  /\ ParseIpv6(f).l4 # NoL4 <=> WellFormed(f) /\ f.len >= IpStart(f)
           /\ WellFormed(f) => ParseIpv6(f) = AsLaidOut(f)
<1> DEFINE ip == IpStart(f)
           end == Lesser(ip + 40 + f.iplen, f.len)
           start == ip + 40 + f.ext
           room == end - start
<1>1. /\ ip \in Nat /\ ip >= 14 /\ L4HeaderLen(f) \in 0..60
      /\ f.len \in Nat /\ f.iplen \in Nat /\ f.ext \in Nat
      /\ end \in Nat /\ start \in Nat
      /\ ip + IpHeaderLen(f) = start
      /\ DataStart(f) = start + L4HeaderLen(f)
      /\ PacketEnd(f) = ip + f.iplen + 40
  BY Fields, Layout DEF Lesser, PacketEnd
<1>2. f.proto = "udp" \/ (f.proto = "tcp" /\ f.doff >= 5) => L4HeaderLen(f) >= 8
  BY Fields DEF L4HeaderLen
<1>3. end <= f.len /\ end <= PacketEnd(f) /\ end \in {f.len, PacketEnd(f)}
  BY <1>1 DEF Lesser
<1> DEFINE l4 == ParseL4(f, start, room)
<1>4. CASE f.len < ip + 40 \/ ~f.version \/ start >= end
  <2>1. ~WellFormed(f)
    <3> HIDE DEF start, end, ip
    <3> QED
      BY <1>1, <1>2, <1>3, <1>4 DEF WellFormed, start
  <2>2. ParseIpv6(f).l4 = NoL4
    BY <1>4 DEF ParseIpv6, Parsed
  <2> QED
    BY <2>1, <2>2
<1>5. CASE ~(f.len < ip + 40 \/ ~f.version \/ start >= end)
  <2>1. room \in Nat
    BY <1>1, <1>5
  <2>2. /\ l4 # NoL4 <=> /\ f.proto = "udp" \/ (f.proto = "tcp" /\ f.doff >= 5)
                         /\ start + L4HeaderLen(f) <= f.len
                         /\ L4HeaderLen(f) <= room
        /\ l4 # NoL4 => l4 = L4Info(f.proto, start, L4HeaderLen(f))
    BY <1>1, <2>1, L4Here
  <2>3. ParseIpv6(f) = Parsed(ip, 40, TRUE, l4)
    BY <1>5 DEF ParseIpv6
  <2>4. l4 # NoL4 <=> WellFormed(f)
    <3>1. L4HeaderLen(f) <= room <=> DataStart(f) <= f.len /\ DataStart(f) <= PacketEnd(f)
      <4> HIDE DEF start, end, ip
      <4> QED
        BY <1>1, <1>3, <2>1
    <3>2. start + L4HeaderLen(f) <= f.len <=> DataStart(f) <= f.len
      BY <1>1
    <3> HIDE DEF l4, start, room
    <3> QED
      BY <1>5, <2>2, <3>1, <3>2 DEF WellFormed
  <2>5. l4 # NoL4 => Parsed(ip, 40, TRUE, l4) = AsLaidOut(f)
    BY <1>1, <2>2 DEF AsLaidOut
  <2>6. Parsed(ip, 40, TRUE, l4).l4 = l4
    BY DEF Parsed
  <2>7. f.len >= IpStart(f)
    BY <1>1, <1>5
  <2> HIDE DEF l4, ip
  <2> QED
    BY <2>3, <2>4, <2>5, <2>6, <2>7
<1> QED
  BY <1>4, <1>5

LEMMA ParsesLayout ==
    ASSUME NEW f \in FrameType
    PROVE  /\ ParseFrame(f).l4 # NoL4 <=> WellFormed(f)
           /\ WellFormed(f) => ParseFrame(f) = AsLaidOut(f)
<1>1. f.ether \in {"ipv4", "ipv6", "other"}
  BY Fields
<1>2. WellFormed(f) => f.len >= IpStart(f)
  BY Fields, Layout DEF WellFormed
<1>3. CASE f.len < IpStart(f) \/ f.ether = "other"
  <2>1. ~WellFormed(f)
    BY <1>2, <1>3, Fields, Layout DEF WellFormed
  <2>2. ParseTagged(f).l4 = NoL4
    BY <1>3 DEF ParseTagged, NoIp, Parsed
  <2> QED
    BY <2>1, <2>2, ParseIsGeneral
<1>4. CASE ~(f.len < IpStart(f)) /\ f.ether = "ipv4"
  <2>1. ParseTagged(f) = ParseIpv4(f)
    BY <1>4 DEF ParseTagged
  <2> QED
    BY <1>2, <1>4, <2>1, ParsesIpv4, ParseIsGeneral
<1>5. CASE ~(f.len < IpStart(f)) /\ f.ether = "ipv6"
  <2>1. ParseTagged(f) = ParseIpv6(f)
    BY <1>5 DEF ParseTagged
  <2> QED
    BY <1>2, <1>5, <2>1, ParsesIpv6, ParseIsGeneral
<1> QED
  BY <1>1, <1>3, <1>4, <1>5

-----------------------------------------------------------------------------
(* The payload, and its truncation.                                        *)

\* The bytes of the IP header that iplen does not count.
Uncounted(f) == IF f.ether = "ipv4" THEN 0 ELSE 40

\* What PayloadLen takes for payload beyond the end of the packet: it does
\* not subtract the extension headers of IPv6.
Beyond(f) == IF f.ether = "ipv4" THEN 0 ELSE f.ext

LEMMA PayloadLaidOut ==
    ASSUME NEW f \in FrameType, WellFormed(f)
    PROVE  /\ PayloadStart(ParseFrame(f)) = DataStart(f)
           /\ PayloadLen(f, ParseFrame(f)) = Lesser(f.len, PacketEnd(f) + Beyond(f)) - DataStart(f)
<1> DEFINE p == AsLaidOut(f)
           ipTotal == IF p.v6 THEN p.hdr + f.iplen ELSE f.iplen
           claimed == SaturatingSub(SaturatingSub(ipTotal, p.hdr), p.l4.len)
           end == Lesser(f.len, PayloadStart(p) + claimed)
<1>1. ParseFrame(f) = p /\ p.l4 # NoL4
  BY ParsesLayout
<1>2. /\ p.ip = IpStart(f) /\ p.v6 = (f.ether = "ipv6")
      /\ p.hdr = (IF f.ether = "ipv4" THEN 4 * f.ihl ELSE 40)
      /\ p.l4.start = IpStart(f) + IpHeaderLen(f)
      /\ p.l4.len = L4HeaderLen(f)
  BY DEF AsLaidOut, Parsed, L4Info
<1>3. f.ether \in {"ipv4", "ipv6"}
  BY Fields DEF WellFormed
<1>4. /\ IpStart(f) \in Nat /\ L4HeaderLen(f) \in Nat /\ f.len \in Nat
      /\ f.iplen \in Nat /\ f.ext \in Nat /\ DataStart(f) \in Nat
      /\ DataStart(f) <= f.len /\ DataStart(f) <= PacketEnd(f)
  BY Fields, Layout DEF WellFormed
<1>5. PayloadStart(p) = DataStart(f)
  BY <1>2, Layout DEF PayloadStart
<1>6. claimed = PacketEnd(f) + Beyond(f) - DataStart(f)
  <2>1. CASE f.ether = "ipv4"
    <3>1. ~p.v6 /\ p.hdr = 4 * f.ihl /\ 4 * f.ihl \in Nat
      BY <1>2, <2>1, Layout
    <3>2. /\ DataStart(f) = IpStart(f) + 4 * f.ihl + L4HeaderLen(f)
          /\ PacketEnd(f) = IpStart(f) + f.iplen
          /\ Beyond(f) = 0
      BY <1>4, <2>1, Layout DEF PacketEnd, Beyond
    <3>3. SaturatingSub(f.iplen, 4 * f.ihl) = f.iplen - 4 * f.ihl
      BY <1>4, <3>1, <3>2 DEF SaturatingSub
    <3>4. SaturatingSub(f.iplen - 4 * f.ihl, L4HeaderLen(f)) = f.iplen - 4 * f.ihl - L4HeaderLen(f)
      BY <1>4, <3>1, <3>2 DEF SaturatingSub
    <3>5. claimed = f.iplen - 4 * f.ihl - L4HeaderLen(f)
      BY <1>2, <3>1, <3>3, <3>4
    <3> QED
      BY <1>4, <3>1, <3>2, <3>5
  <2>2. CASE f.ether = "ipv6"
    <3>1. p.v6 /\ p.hdr = 40
      BY <1>2, <2>2
    <3>2. /\ DataStart(f) = IpStart(f) + 40 + f.ext + L4HeaderLen(f)
          /\ PacketEnd(f) = IpStart(f) + f.iplen + 40
          /\ Beyond(f) = f.ext
      BY <1>4, <2>2, Layout DEF PacketEnd, Beyond
    <3>3. SaturatingSub(40 + f.iplen, 40) = f.iplen
      BY <1>4 DEF SaturatingSub
    <3>4. SaturatingSub(f.iplen, L4HeaderLen(f)) = f.iplen - L4HeaderLen(f)
      BY <1>4, <3>2 DEF SaturatingSub
    <3>5. claimed = f.iplen - L4HeaderLen(f)
      BY <1>2, <3>1, <3>3, <3>4
    <3> QED
      BY <1>4, <3>2, <3>5
  <2> QED
    BY <1>3, <2>1, <2>2
<1>7. PacketEnd(f) \in Nat /\ Beyond(f) \in Nat
  BY <1>4 DEF PacketEnd, Beyond
<1>8. PayloadLen(f, p) = SaturatingSub(end, DataStart(f))
  BY <1>1, <1>5 DEF PayloadLen
<1>9. end = Lesser(f.len, PacketEnd(f) + Beyond(f))
  <2> HIDE DEF claimed, p
  <2>1. PayloadStart(p) + claimed = PacketEnd(f) + Beyond(f)
    BY <1>4, <1>5, <1>6, <1>7
  <2> QED
    BY <2>1
<1>10. SaturatingSub(end, DataStart(f)) = end - DataStart(f)
  <2> HIDE DEF end
  <2>1. end \in Nat /\ end >= DataStart(f)
    BY <1>4, <1>7, <1>9 DEF Lesser
  <2> QED
    BY <1>4, <2>1 DEF SaturatingSub
<1> QED
  BY <1>1, <1>5, <1>8, <1>9, <1>10

\* What the decision comes to in a frame: the parts of it that Truncate needs.
Cuts(f) == DecideAction(f, ParseFrame(f)) = "truncate" /\ Shortens(f, ParseFrame(f))

LEMMA CutIsWellFormed ==
    ASSUME NEW f \in FrameType, Cuts(f)
    PROVE  WellFormed(f)
<1>1. ParseFrame(f).l4 # NoL4
  BY DEF Cuts, DecideAction
<1> QED
  BY <1>1, ParsesLayout

\* Only the length fields of a frame change.
WithLengths(f, len, iplen, udplen) ==
    [f EXCEPT !.len = len, !.iplen = iplen, !.udplen = udplen]

LEMMA U16 ==
    ASSUME NEW n \in Int
    PROVE  AsU16(n) \in Word /\ (n \in Word => AsU16(n) = n)
<1>1. n % 65536 \in Int /\ 0 <= n % 65536 /\ n % 65536 <= 65535
  OBVIOUS
<1>2. ASSUME 0 <= n, n <= 65535 PROVE n % 65536 = n
  BY <1>2
<1>3. n % 65536 \in Word
  BY <1>1, Words
<1>4. ASSUME n \in Word PROVE n % 65536 = n
  BY <1>2, <1>4, Words
<1> QED
  BY <1>3, <1>4 DEF AsU16

LEMMA Relengthened ==
    ASSUME NEW f \in FrameType, NEW len \in Nat, NEW iplen \in Word, NEW udplen \in Word,
           NEW g, g = WithLengths(f, len, iplen, udplen)
    PROVE  /\ g \in FrameType
           /\ g.len = len /\ g.iplen = iplen /\ g.udplen = udplen
           /\ IpStart(g) = IpStart(f) /\ IpHeaderLen(g) = IpHeaderLen(f)
           /\ L4HeaderLen(g) = L4HeaderLen(f) /\ DataStart(g) = DataStart(f)
           /\ g.ether = f.ether /\ g.proto = f.proto /\ g.ext = f.ext
           /\ g.version = f.version /\ g.doff = f.doff
<1>1. g \in FrameType
  BY DEF FrameType, WithLengths
<1>2. /\ g.len = len /\ g.iplen = iplen /\ g.udplen = udplen
      /\ g.tags = f.tags /\ g.ihl = f.ihl /\ g.ether = f.ether /\ g.proto = f.proto
      /\ g.ext = f.ext /\ g.version = f.version /\ g.doff = f.doff
  BY DEF FrameType, WithLengths
<1> QED
  BY <1>1, <1>2 DEF IpStart, IpHeaderLen, L4HeaderLen, DataStart

LEMMA Shortened ==
    ASSUME NEW f \in FrameType, WellFormed(f),
           NEW g, g = Truncated(f, ParseFrame(f))
    PROVE  /\ g \in FrameType
           /\ IpStart(g) = IpStart(f) /\ DataStart(g) = DataStart(f)
           /\ g.len = DataStart(g) + 24
           /\ g.iplen = AsU16(g.len - IpStart(g) - Uncounted(g))
           /\ g.proto = "udp" => g.udplen = 32
           /\ g.ether \in {"ipv4", "ipv6"} /\ g.version
           /\ g.proto = "udp" \/ (g.proto = "tcp" /\ g.doff >= 5)
<1> DEFINE p == ParseFrame(f)
           len == PayloadStart(p) + TRUNCATE_PAYLOAD_BYTES
           iplen == AsU16(IF p.v6 THEN len - p.ip - p.hdr ELSE len - p.ip)
           udplen == IF p.l4.proto = "udp" THEN p.l4.len + TRUNCATE_PAYLOAD_BYTES ELSE f.udplen
<1>1. /\ p.ip = IpStart(f)
      /\ f.ether = "ipv4" => ~p.v6
      /\ f.ether = "ipv6" => p.v6 /\ p.hdr = 40
      /\ p.l4.proto = f.proto /\ p.l4.len = L4HeaderLen(f)
  <2>1. p = AsLaidOut(f)
    BY ParsesLayout
  <2> HIDE DEF p
  <2> QED
    BY <2>1 DEF AsLaidOut, Parsed, L4Info
<1>2. f.ether \in {"ipv4", "ipv6"} /\ f.version
      /\ (f.proto = "udp" \/ (f.proto = "tcp" /\ f.doff >= 5))
  BY Fields DEF WellFormed
<1>3. len = DataStart(f) + 24 /\ len \in Nat
  BY PayloadLaidOut, Layout DEF TRUNCATE_PAYLOAD_BYTES
<1>4. iplen = AsU16(len - IpStart(f) - Uncounted(f))
  <2> HIDE DEF len, p
  <2>1. CASE f.ether = "ipv4"
    <3>1. ~p.v6 /\ len - p.ip = len - IpStart(f) - 0
      BY <1>1, <1>3, <2>1, Layout
    <3> QED
      BY <2>1, <3>1 DEF Uncounted
  <2>2. CASE f.ether = "ipv6"
    BY <1>1, <2>2 DEF Uncounted
  <2> QED
    BY <1>2, <2>1, <2>2
<1>5. iplen \in Word
  <2>1. len - IpStart(f) - Uncounted(f) \in Int
    BY <1>3, Layout DEF Uncounted
  <2> HIDE DEF iplen
  <2> QED
    BY <1>4, <2>1, U16
<1>6. udplen \in Word /\ (f.proto = "udp" => udplen = 32)
  <2> HIDE DEF p
  <2>1. CASE f.proto = "udp"
    BY <1>1, <2>1 DEF L4HeaderLen, Word, TRUNCATE_PAYLOAD_BYTES
  <2>2. CASE f.proto # "udp"
    BY <1>1, <2>2 DEF FrameType
  <2> QED
    BY <2>1, <2>2
<1>7. g = WithLengths(f, len, iplen, udplen)
  BY DEF Truncated, FrameType, WithLengths
<1> HIDE DEF len, iplen, udplen
<1>8. /\ g \in FrameType
      /\ g.len = len /\ g.iplen = iplen /\ g.udplen = udplen
      /\ IpStart(g) = IpStart(f) /\ DataStart(g) = DataStart(f)
      /\ g.ether = f.ether /\ g.proto = f.proto
      /\ g.version = f.version /\ g.doff = f.doff
  BY <1>3, <1>5, <1>6, <1>7, Relengthened
<1> QED
  BY <1>2, <1>3, <1>4, <1>6, <1>8 DEF Uncounted

\* What is left after a cut is not cut again.
LEMMA CutOnce ==
    ASSUME NEW f \in FrameType, Cuts(f)
    PROVE  /\ Truncated(f, ParseFrame(f)) \in FrameType
           /\ ~Cuts(Truncated(f, ParseFrame(f)))
<1> DEFINE g == Truncated(f, ParseFrame(f))
<1>1. g \in FrameType /\ g.len = DataStart(g) + 24
  BY CutIsWellFormed, Shortened
<1> HIDE DEF g
<1>2. SUFFICES ASSUME Cuts(g) PROVE FALSE
  BY <1>1 DEF g
<1>3. WellFormed(g)
  BY <1>1, <1>2, CutIsWellFormed
<1>4. PayloadStart(ParseFrame(g)) = DataStart(g)
  BY <1>1, <1>3, PayloadLaidOut
<1>5. PayloadStart(ParseFrame(g)) + 24 < g.len
  BY <1>2 DEF Cuts, Shortens, TRUNCATE_PAYLOAD_BYTES
<1>6. DataStart(g) \in Nat
  BY <1>1, Layout
<1> QED
  BY <1>1, <1>4, <1>5, <1>6

-----------------------------------------------------------------------------
(* The invariant.                                                          *)

\* After a first pass the frame is one that no pass cuts.
PInv == TypeOK /\ (passes > 0 => ~Cuts(frame))

LEMMA Initially == Init => PInv
<1> SUFFICES ASSUME Init PROVE PInv
  OBVIOUS
<1>1. TypeOK
  BY FramesAssumption DEF Init, TypeOK
<1>2. passes = 0
  BY DEF Init
<1> QED
  BY <1>1, <1>2 DEF PInv

LEMMA Preserved == PInv /\ [Next]_vars => PInv'
<1> SUFFICES ASSUME PInv, [Next]_vars PROVE PInv'
  OBVIOUS
<1> USE DEF PInv
<1>1. CASE Keep
  <2>1. frame' = frame /\ ~Cuts(frame)
    BY <1>1 DEF Keep, Cuts
  <2>2. TypeOK'
    BY <1>1, FramesAssumption DEF TypeOK, Keep, Pass
  <2> QED
    BY <2>1, <2>2 DEF Cuts
<1>2. CASE Truncate
  <2>1. Cuts(frame) /\ frame' = Truncated(frame, ParseFrame(frame))
    BY <1>2 DEF Truncate, Cuts
  <2>2. frame \in FrameType
    BY DEF TypeOK
  <2>3. frame' \in FrameType /\ ~Cuts(frame')
    BY <2>1, <2>2, CutOnce
  <2>4. TypeOK'
    BY <1>2, <2>3, FramesAssumption DEF TypeOK, Truncate, Pass
  <2> QED
    BY <2>3, <2>4
<1>3. CASE Panic
  <2>1. frame' = frame /\ ~Cuts(frame)
    BY <1>3 DEF Panic, Cuts
  <2>2. TypeOK'
    BY <1>3, FramesAssumption DEF TypeOK, Panic, Pass
  <2> QED
    BY <2>1, <2>2 DEF Cuts
<1>4. CASE UNCHANGED vars
  BY <1>4 DEF vars, TypeOK
<1> QED
  BY <1>1, <1>2, <1>3, <1>4 DEF Next

\* The types hold, and what was processed once is settled.
THEOREM Invariance == Spec => []PInv
<1> QED
  BY Initially, Preserved, PTL DEF Spec

-----------------------------------------------------------------------------
(* The theorems.                                                           *)

\* try_parse_ipv4_plain agrees with the general parser on every frame.
THEOREM FastPath == Spec => []FastPathAgrees
<1>1. TypeOK => FastPathAgrees
  BY FastIsGeneral DEF TypeOK, FastPathAgrees
<1> QED
  BY <1>1, Invariance, PTL DEF PInv

\* A slimmed capture stays as it is when it is slimmed again.
THEOREM SecondPass == Spec => SecondPassKeeps
<1>1. PInv /\ [Next]_vars => [passes > 0 => frame' = frame]_vars
  <2> SUFFICES ASSUME PInv, Next, passes > 0 PROVE frame' = frame
    BY DEF vars
  <2>1. ~Truncate
    BY DEF PInv, Truncate, Cuts
  <2> QED
    BY <2>1 DEF Next, Keep, Panic
<1> QED
  BY <1>1, Invariance, PTL DEF Spec, SecondPassKeeps

\* The length fields of a frame that was cut say what is left of it.
LEMMA LengthsOfCut ==
    ASSUME NEW f \in FrameType, WellFormed(f), ~Wraps(f),
           NEW g, g = Truncated(f, ParseFrame(f))
    PROVE  /\ WellFormed(g)
           /\ PacketEnd(g) = g.len
           /\ g.len = IpStart(g) + g.iplen + Uncounted(g)
<1>1. /\ g \in FrameType
      /\ IpStart(g) = IpStart(f) /\ DataStart(g) = DataStart(f)
      /\ g.len = DataStart(g) + 24
      /\ g.iplen = AsU16(g.len - IpStart(g) - Uncounted(g))
      /\ g.ether \in {"ipv4", "ipv6"} /\ g.version
      /\ g.proto = "udp" \/ (g.proto = "tcp" /\ g.doff >= 5)
  BY Shortened
<1>2. /\ IpStart(g) \in Nat /\ IpHeaderLen(g) \in Nat /\ L4HeaderLen(g) \in 0..60
      /\ DataStart(g) = IpStart(g) + IpHeaderLen(g) + L4HeaderLen(g)
      /\ g.ether = "ipv4" => IpHeaderLen(g) \in 20..60
      /\ g.ether = "ipv6" => IpHeaderLen(g) = 40 + g.ext
      /\ g.ext \in Nat /\ g.iplen \in Nat
  BY <1>1, Layout, Fields
<1>3. g.ether = "ipv6" => g.ext <= 65000
  <2>1. g.ext = f.ext
    BY DEF Truncated, FrameType
  <2> QED
    BY <1>2, <2>1 DEF Wraps
<1> DEFINE rest == g.len - IpStart(g) - Uncounted(g)
<1>4. rest \in Int /\ 0 <= rest /\ rest <= 65535
  <2>1. g.len = IpStart(g) + IpHeaderLen(g) + L4HeaderLen(g) + 24
    BY <1>1, <1>2
  <2>2. Uncounted(g) = (IF g.ether = "ipv4" THEN 0 ELSE 40)
    BY DEF Uncounted
  <2>3. rest = IpHeaderLen(g) - Uncounted(g) + L4HeaderLen(g) + 24
    BY <1>2, <2>1, <2>2
  <2> HIDE DEF rest
  <2>4. CASE g.ether = "ipv4"
    BY <1>2, <2>2, <2>3, <2>4
  <2>5. CASE g.ether = "ipv6"
    BY <1>2, <1>3, <2>2, <2>3, <2>5
  <2> QED
    BY <1>1, <2>4, <2>5
<1>5. g.iplen = rest
  <2>1. g.iplen = AsU16(rest)
    BY <1>1
  <2> QED
    <3> HIDE DEF rest
    <3> QED
      BY <1>4, <2>1, U16, Words
<1>6. g.len = IpStart(g) + g.iplen + Uncounted(g)
  BY <1>1, <1>2, <1>5 DEF Uncounted
<1>7. PacketEnd(g) = g.len
  BY <1>1, <1>2, <1>6 DEF PacketEnd, Uncounted
<1>8. DataStart(g) <= g.len /\ DataStart(g) <= PacketEnd(g)
  <2>1. DataStart(g) \in Nat
    BY <1>2
  <2>2. g.len = DataStart(g) + 24
    BY <1>1
  <2> QED
    BY <2>1, <2>2, <1>7
<1>9. WellFormed(g)
  BY <1>1, <1>8 DEF WellFormed
<1> QED
  BY <1>6, <1>7, <1>9

LEMMA LengthsOfCutParsed ==
    ASSUME NEW g \in FrameType, WellFormed(g), PacketEnd(g) = g.len,
           g.len = DataStart(g) + 24, NEW p, p = ParseFrame(g)
    PROVE  /\ p.l4.proto = g.proto
           /\ PayloadLen(g, p) = 24
           /\ PayloadStart(p) = DataStart(g)
           /\ p.ip = IpStart(g)
           /\ (IF p.v6 THEN p.hdr ELSE 0) = Uncounted(g)
<1>1. /\ p.ip = IpStart(g) /\ p.l4.proto = g.proto
      /\ p.v6 = (g.ether = "ipv6")
      /\ p.hdr = (IF g.ether = "ipv4" THEN 4 * g.ihl ELSE 40)
  <2>1. p = AsLaidOut(g)
    BY ParsesLayout
  <2> QED
    BY <2>1 DEF AsLaidOut, Parsed, L4Info
<1>2. g.ether \in {"ipv4", "ipv6"}
  BY Fields DEF WellFormed
<1>3. /\ PayloadStart(p) = DataStart(g)
      /\ PayloadLen(g, p) = Lesser(g.len, g.len + Beyond(g)) - DataStart(g)
  BY PayloadLaidOut
<1>4. Lesser(g.len, g.len + Beyond(g)) = g.len
  BY Fields DEF Beyond, Lesser
<1>5. PayloadLen(g, p) = 24
  BY <1>3, <1>4, Layout
<1>6. (IF p.v6 THEN p.hdr ELSE 0) = Uncounted(g)
  BY <1>1, <1>2 DEF Uncounted
<1> QED
  BY <1>1, <1>3, <1>5, <1>6

\* Lengths and layout after a cut.
THEOREM Lengths == Spec => []LengthsAgree
<1>1. Init => LengthsAgree
  BY DEF Init, LengthsAgree
<1>2. PInv /\ LengthsAgree /\ [Next]_vars => LengthsAgree'
  <2> SUFFICES ASSUME PInv, LengthsAgree, [Next]_vars, fate' = "truncate", ~Wraps(frame')
               PROVE  LengthsAgree'
    BY DEF LengthsAgree
  <2>1. CASE Truncate
    <3> DEFINE g == frame'
               p == ParseFrame(g)
    <3>1. frame \in FrameType /\ Cuts(frame) /\ g = Truncated(frame, ParseFrame(frame))
      BY <2>1 DEF PInv, TypeOK, Truncate, Cuts
    <3>2. WellFormed(frame) /\ ~Wraps(frame)
      <4>1. g.ext = frame.ext
        BY <3>1 DEF Truncated, FrameType
      <4> QED
        BY <3>1, <4>1, CutIsWellFormed DEF Wraps
    <3>3. /\ WellFormed(g) /\ PacketEnd(g) = g.len
          /\ g.len = IpStart(g) + g.iplen + Uncounted(g)
      BY <3>1, <3>2, LengthsOfCut
    <3>4. g \in FrameType /\ g.len = DataStart(g) + 24 /\ (g.proto = "udp" => g.udplen = 32)
      BY <3>1, <3>2, Shortened
    <3>5. /\ p.l4.proto = g.proto
          /\ PayloadLen(g, p) = 24
          /\ PayloadStart(p) = DataStart(g)
          /\ p.ip = IpStart(g)
          /\ (IF p.v6 THEN p.hdr ELSE 0) = Uncounted(g)
      BY <3>3, <3>4, LengthsOfCutParsed
    <3> QED
      BY <3>3, <3>4, <3>5 DEF LengthsAgree, TRUNCATE_PAYLOAD_BYTES
  <2>2. CASE Keep \/ Panic
    BY <2>2 DEF Keep, Panic, Pass
  <2>3. CASE UNCHANGED vars
    BY <2>3 DEF vars, LengthsAgree
  <2> QED
    BY <2>1, <2>2, <2>3 DEF Next
<1> QED
  BY <1>1, <1>2, Invariance, PTL DEF Spec

\* The decision, and the offsets it rests on, are the documented rule.
LEMMA DecidesAsDocumented ==
    ASSUME NEW f \in FrameType, ~Divergent(f)
    PROVE  Cuts(f) <=> ToBeCut(f)
<1> DEFINE p == ParseFrame(f)
<1>1. SUFFICES ASSUME WellFormed(f) PROVE Cuts(f) <=> ToBeCut(f)
  BY CutIsWellFormed DEF ToBeCut
<1>2. /\ p.ip = IpStart(f) /\ p.l4.proto = f.proto /\ p.l4 # NoL4
      /\ f.ether = "ipv4" => ~p.v6
      /\ f.ether = "ipv6" => p.v6
  <2>1. p = AsLaidOut(f) /\ p.l4 # NoL4
    BY <1>1, ParsesLayout
  <2> HIDE DEF p
  <2> QED
    BY <2>1 DEF AsLaidOut, Parsed, L4Info
<1>3. /\ f.ether \in {"ipv4", "ipv6"} /\ f.proto \in {"tcp", "udp"}
      /\ IpStart(f) \in Nat /\ IpStart(f) >= 14
      /\ f.len \in Nat /\ DataStart(f) \in Nat /\ PacketEnd(f) \in Nat
      /\ Beyond(f) \in Nat
      /\ DataStart(f) <= f.len /\ f.len >= IpStart(f) + 8
  BY <1>1, Fields, Layout DEF WellFormed, PacketEnd, Beyond
<1>4. PayloadStart(p) = DataStart(f) /\ PayloadLen(f, p) = Data(f)
  <2>1. PayloadLen(f, p) = Lesser(f.len, PacketEnd(f) + Beyond(f)) - DataStart(f)
    BY <1>1, PayloadLaidOut
  <2>2. Beyond(f) = 0 \/ f.len <= PacketEnd(f)
    BY <1>3, Fields DEF Beyond, Divergent
  <2>3. Lesser(f.len, PacketEnd(f) + Beyond(f)) = Lesser(f.len, PacketEnd(f))
    BY <1>3, <2>2 DEF Lesser
  <2> QED
    BY <1>1, <2>1, <2>3, PayloadLaidOut DEF Data
<1>5. f.fragment => ~p.v6
  BY <1>2, <1>3 DEF Divergent
<1>6. (p.l4.proto = "tcp" /\ DecideTcp(f)) \/ (p.l4.proto = "udp" /\ DecideUdp(f))
        <=> Encrypted(f)
  BY <1>2, <1>3 DEF DecideTcp, DecideUdp, Encrypted
<1>7. Data(f) \in Int /\ (Data(f) > 24 => DataStart(f) + 24 < f.len)
  BY <1>3 DEF Data, Lesser
<1> HIDE DEF p
<1>8. DecideAction(f, p) = "truncate" <=> ~f.fragment /\ Data(f) > 24 /\ Encrypted(f)
  BY <1>2, <1>3, <1>4, <1>5, <1>6, <1>7 DEF DecideAction, TRUNCATE_PAYLOAD_BYTES
<1>9. Data(f) > 24 => Shortens(f, p)
  BY <1>4, <1>7 DEF Shortens, TRUNCATE_PAYLOAD_BYTES
<1> QED
  BY <1>1, <1>8, <1>9 DEF ToBeCut, Cuts, p

\* Outside the divergences that the runs show, a frame is cut exactly when
\* the documented rule says so.
THEOREM RuleKept == Spec => CutsWhatItShould
<1>1. TypeOK /\ [Next]_vars => [Divergent(frame) \/ (fate' = "truncate" <=> ToBeCut(frame))]_vars
  <2> SUFFICES ASSUME TypeOK, Next, ~Divergent(frame)
               PROVE  fate' = "truncate" <=> ToBeCut(frame)
    BY DEF vars
  <2>1. Cuts(frame) <=> ToBeCut(frame)
    BY DecidesAsDocumented DEF TypeOK
  <2>2. fate' = "truncate" <=> Cuts(frame)
    BY DEF Next, Keep, Truncate, Panic, Pass, Cuts
  <2> QED
    BY <2>1, <2>2
<1> QED
  BY <1>1, Invariance, PTL DEF Spec, CutsWhatItShould, PInv
=============================================================================
