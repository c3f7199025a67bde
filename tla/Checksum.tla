------------------------------ MODULE Checksum ------------------------------
(***************************************************************************)
(* What becomes of the bytes of one packet when its payload is cut         *)
(* (truncate.rs, checksum.rs, and ipv4_pseudo_dst in parse.rs): the IP and *)
(* UDP lengths are rewritten, then the checksum of an IPv4 header, then    *)
(* that of TCP or UDP.  A step is one turn of a loop of the code: a 16-bit *)
(* word summed, a sum folded, an IPv4 option passed.  The bytes are those  *)
(* from the start of the IP header on.                                     *)
(***************************************************************************)
EXTENDS Integers, Sequences

CONSTANTS
    Packets,                 \* the packets that are tried, see IsPacket
    TRUNCATE_PAYLOAD_BYTES

Byte == 0..255

IP_OPT_EOL == 0
IP_OPT_LSRR == 3
IP_OPT_SSRR == 9

(***************************************************************************)
(*   buf      the bytes, counted from 0                                    *)
(*   ipv6     is it IPv6?                                                  *)
(*   ihl      ip_header_len, without the extension headers of IPv6         *)
(*   l4, hlen where the TCP or UDP header begins, and its length           *)
(*   proto    the protocol number, of TCP or UDP                           *)
(*   payload  the length of the payload, as far as it was captured         *)
(*   final    the address of the host that checks the TCP or UDP checksum  *)
(*   hidden   is that address not the Destination that the code finds: it  *)
(*            is in a source route after a no-operation option, which is   *)
(*            taken for an option with a length, in an IPv6 routing        *)
(*            header, or in the IPv4 header, of a route that is used up    *)
(* The total length of IPv4 has 16 bits, and the extension headers of IPv6 *)
(* are not so long that the new length needs more.                         *)
(***************************************************************************)
TCP == 6
UDP == 17

\* Bytes a to b - 1 as a sequence, and a 16-bit number as two bytes.
Slice(b, from, to) == [k \in 1..(to - from) |-> b[from + k - 1]]
Hi(n) == (n \div 256) % 256
Lo(n) == n % 256
Word(n) == <<Hi(n), Lo(n)>>
Patch(b, at, n) == [b EXCEPT ![at] = Hi(n), ![at + 1] = Lo(n)]

\* In the IPv4 header of p: is a whole option at i, and is it a source route
\* with an address?
Whole(p, i) == /\ i + 1 < p.ihl /\ p.buf[i] # IP_OPT_EOL
               /\ p.buf[i + 1] >= 2 /\ i + p.buf[i + 1] <= p.ihl
Routes(p, i) == p.buf[i] % 32 \in {IP_OPT_LSRR, IP_OPT_SSRR} /\ p.buf[i + 1] >= 7

\* Where the options from i on lead when each but their end has a length: to the
\* end of the first source route with an address, or where the header says.
RouteEnd(p) ==
    LET leads[i \in 20..p.ihl] ==
            IF ~Whole(p, i) THEN Slice(p.buf, 16, 20)
            ELSE LET next == i + p.buf[i + 1] IN
                 IF Routes(p, i) THEN Slice(p.buf, next - 4, next) ELSE leads[next]
    IN leads

Destination(p) == IF p.ipv6 THEN Slice(p.buf, 24, 40) ELSE RouteEnd(p)[20]

IsPacket(p) ==
    /\ p.len \in Nat
    /\ p.buf \in [0..(p.len - 1) -> Byte]
    /\ p.ipv6 \in BOOLEAN
    /\ p.ihl \in Nat /\ p.ihl >= 20 /\ p.ihl <= 60 /\ (p.ipv6 => p.ihl = 40)
    /\ p.proto \in {TCP, UDP}
    /\ p.hlen \in Nat /\ p.hlen >= (IF p.proto = TCP THEN 20 ELSE 8)
    /\ p.payload \in Nat
    /\ p.l4 \in Nat /\ p.l4 >= p.ihl /\ p.l4 + p.hlen + p.payload <= p.len
    /\ IF p.ipv6 THEN p.l4 + p.hlen + TRUNCATE_PAYLOAD_BYTES < 40 + 65536
       ELSE p.l4 + p.hlen + p.payload < 65536
    /\ p.hidden \in BOOLEAN
    /\ ~p.hidden => p.final = Destination(p)

ASSUME ConstantsAssumption ==
    /\ \A p \in Packets : IsPacket(p)
    /\ TRUNCATE_PAYLOAD_BYTES \in Nat

VARIABLES
    packet,     \* the packet as captured
    buf,        \* its bytes now
    pc,
    field,      \* the checksum that is being computed: "ip" or "l4"
    opt, dst,   \* ipv4_pseudo_dst: the option that it looks at, its result
    parts,      \* the ranges of bytes that checksum_sum has yet to add up
    pos, sum,   \* checksum_sum: the bytes added of the first one, their sum
    acc,        \* the sum of the ranges that are done
    total       \* what the sums would be without folding and, in the end, with
                \*   the checksum itself: what a receiver adds up

walk == <<opt, dst>>
sums == <<parts, pos, sum, acc, total>>
vars == <<packet, buf, pc, field, walk, sums>>

PCs == {"cut", "header", "lengths", "route", "sum", "kept", "done"}

Init ==
    /\ packet \in Packets
    /\ buf = packet.buf
    /\ pc = "cut"
    /\ field = "ip"
    /\ opt = 0 /\ dst = <<>>
    /\ parts = <<>> /\ pos = 0 /\ sum = 0 /\ acc = 0 /\ total = 0

-----------------------------------------------------------------------------
(* The fields of the packet.                                               *)

\* Where the packet ends once it is cut.
End == packet.l4 + packet.hlen + TRUNCATE_PAYLOAD_BYTES

ChecksumAt(p, which) ==
    IF which = "ip" THEN 10 ELSE p.l4 + (IF p.proto = TCP THEN 16 ELSE 6)

\* Variant: what is cut off stays in the buffer.
CutLengthOnly ==
    /\ pc = "cut"
    /\ IF packet.payload <= TRUNCATE_PAYLOAD_BYTES \/ End >= packet.len
       THEN pc' = "kept" /\ UNCHANGED buf
       ELSE IF packet.ipv6
            THEN buf' = Patch(buf, 4, End - packet.ihl) /\ pc' = "lengths"
            ELSE buf' = Patch(buf, 2, End) /\ pc' = "header"
    /\ UNCHANGED <<packet, field, walk, sums>>

\* apply_truncate_fields: the cut, and the length in the IP header.
Cut ==
    /\ pc = "cut"
    /\ IF packet.payload <= TRUNCATE_PAYLOAD_BYTES \/ End >= packet.len
       THEN pc' = "kept" /\ UNCHANGED buf
       ELSE LET rest == [k \in 0..(End - 1) |-> buf[k]] IN
            IF packet.ipv6
            THEN buf' = Patch(rest, 4, End - packet.ihl) /\ pc' = "lengths"
            ELSE buf' = Patch(rest, 2, End) /\ pc' = "header"
    /\ UNCHANGED <<packet, field, walk, sums>>

\* A checksum over these ranges begins.
Begin(ranges) ==
    /\ pc' = "sum"
    /\ parts' = ranges
    /\ pos' = 0 /\ sum' = 0 /\ acc' = 0 /\ total' = 0

\* update_ipv4_header_checksum.
IpHeader ==
    /\ pc = "header"
    /\ field' = "ip"
    /\ buf' = Patch(buf, 10, 0)
    /\ Begin(<<Slice(buf', 0, packet.ihl)>>)
    /\ UNCHANGED <<packet, walk>>

\* Variant: the UDP length is written where the TCP header has its sequence
\* number.
LengthsOfBoth ==
    /\ pc = "lengths"
    /\ field' = "l4"
    /\ LET sized == Patch(buf, packet.l4 + 4, packet.hlen + TRUNCATE_PAYLOAD_BYTES)
       IN buf' = Patch(sized, ChecksumAt(packet, "l4"), 0)
    /\ opt' = 20
    /\ dst' = IF packet.ipv6 THEN Slice(buf, 24, 40) ELSE Slice(buf, 16, 20)
    /\ pc' = "route"
    /\ UNCHANGED <<packet, sums>>

\* The UDP length, then what update_tcp_checksum and update_udp_checksum do
\* first: the checksum is zeroed and the destination read.
Lengths ==
    /\ pc = "lengths"
    /\ field' = "l4"
    /\ LET sized == IF packet.proto = UDP
                    THEN Patch(buf, packet.l4 + 4, packet.hlen + TRUNCATE_PAYLOAD_BYTES)
                    ELSE buf
       IN buf' = Patch(sized, ChecksumAt(packet, "l4"), 0)
    /\ opt' = 20
    /\ dst' = IF packet.ipv6 THEN Slice(buf, 24, 40) ELSE Slice(buf, 16, 20)
    /\ pc' = "route"
    /\ UNCHANGED <<packet, sums>>

-----------------------------------------------------------------------------
(* ipv4_pseudo_dst.                                                        *)

\* Variant: an option may have any length, none at all for instance.
AtOptionAnyLength ==
    /\ ~packet.ipv6
    /\ opt + 1 < packet.ihl
    /\ buf[opt] # IP_OPT_EOL
    /\ opt + buf[opt + 1] <= packet.ihl

\* A whole option is at opt, and no end of the options.
AtOption ==
    /\ ~packet.ipv6
    /\ opt + 1 < packet.ihl
    /\ buf[opt] # IP_OPT_EOL
    /\ buf[opt + 1] >= 2
    /\ opt + buf[opt + 1] <= packet.ihl

\* It is a source route with at least one address.
AtRoute == buf[opt] % 32 \in {IP_OPT_LSRR, IP_OPT_SSRR} /\ buf[opt + 1] >= 7

\* Variant: the first address of the route is taken, which is the next hop.
PassOptionFirst ==
    /\ pc = "route"
    /\ AtOption
    /\ IF AtRoute
       THEN dst' = Slice(buf, opt + 3, opt + 7) /\ opt' = packet.ihl
       ELSE opt' = opt + buf[opt + 1] /\ UNCHANGED dst
    /\ UNCHANGED <<packet, buf, pc, field, sums>>

\* The last address of the first source route is the destination.
PassOption ==
    /\ pc = "route"
    /\ AtOption
    /\ LET next == opt + buf[opt + 1] IN
       IF AtRoute
       THEN dst' = Slice(buf, next - 4, next) /\ opt' = packet.ihl
       ELSE opt' = next /\ UNCHANGED dst
    /\ UNCHANGED <<packet, buf, pc, field, sums>>

\* The pseudo-header and the segment.
Transport ==
    /\ pc = "route"
    /\ ~AtOption
    /\ LET segment == Slice(buf, packet.l4, End)
           length == End - packet.l4
       IN Begin(IF packet.ipv6
                THEN <<Slice(buf, 8, 24), dst, Word(length \div 65536) \o Word(length),
                       Word(packet.proto), segment>>
                ELSE <<Slice(buf, 12, 16) \o dst \o Word(packet.proto) \o Word(length),
                       segment>>)
    /\ UNCHANGED <<packet, buf, field, walk>>

-----------------------------------------------------------------------------
(* checksum_sum, what adds its results up, finish.                         *)

\* The last byte, if it is without a partner, is the high one.
NextWord ==
    LET part == Head(parts) IN
    IF pos + 1 < Len(part) THEN 256 * part[pos + 1] + part[pos + 2]
    ELSE 256 * part[pos + 1]

AddWord ==
    /\ pc = "sum"
    /\ parts # <<>> /\ pos < Len(Head(parts))
    /\ sum' = sum + NextWord
    /\ total' = total + NextWord
    /\ pos' = pos + 2
    /\ UNCHANGED <<packet, buf, pc, field, walk, parts, acc>>

\* Variant: the carry is lost.
FoldedNoCarry(n) == n % 65536

\* (sum & 0xffff) + (sum >> 16).
Folded(n) == (n % 65536) + (n \div 65536)

FoldSum ==
    /\ pc = "sum"
    /\ parts # <<>> /\ pos >= Len(Head(parts))
    /\ sum >= 65536
    /\ sum' = Folded(sum)
    /\ UNCHANGED <<packet, buf, pc, field, walk, parts, pos, acc, total>>

EndPart ==
    /\ pc = "sum"
    /\ parts # <<>> /\ pos >= Len(Head(parts))
    /\ sum < 65536
    /\ acc' = acc + sum
    /\ sum' = 0 /\ pos' = 0
    /\ parts' = Tail(parts)
    /\ UNCHANGED <<packet, buf, pc, field, walk, total>>

FoldAcc ==
    /\ pc = "sum"
    /\ parts = <<>>
    /\ acc >= 65536
    /\ acc' = Folded(acc)
    /\ UNCHANGED <<packet, buf, pc, field, walk, parts, pos, sum, total>>

\* Variant: the checksum of UDP may be zero.
OnTheWireZero == 65535 - acc

\* The complement; udp_checksum_wire has 0 replaced by its other form.
OnTheWire ==
    IF field = "l4" /\ packet.proto = UDP /\ acc = 65535 THEN 65535 ELSE 65535 - acc

WriteChecksum ==
    /\ pc = "sum"
    /\ parts = <<>>
    /\ acc < 65536
    /\ buf' = Patch(buf, ChecksumAt(packet, field), OnTheWire)
    /\ total' = total + OnTheWire
    /\ pc' = IF field = "ip" THEN "lengths" ELSE "done"
    /\ UNCHANGED <<packet, field, walk, parts, pos, sum, acc>>

-----------------------------------------------------------------------------
Next == \/ Cut \/ IpHeader \/ Lengths \/ PassOption \/ Transport
        \/ AddWord \/ FoldSum \/ EndPart \/ FoldAcc \/ WriteChecksum

Spec == Init /\ [][Next]_vars

\* The program runs.
FairSpec == Spec /\ WF_vars(Next)

-----------------------------------------------------------------------------
(* Properties.                                                             *)

TypeOK ==
    /\ packet \in Packets
    /\ buf \in [0..((IF pc \in {"cut", "kept"} THEN packet.len ELSE End) - 1) -> Byte]
    /\ pc \in PCs
    /\ field \in {"ip", "l4"}
    /\ opt \in Nat
    /\ dst \in Seq(Byte)
    /\ parts \in Seq(Seq(Byte))
    /\ pos \in Nat
    /\ sum \in Nat
    /\ acc \in Nat
    /\ total \in Nat

\* Folding loses nothing: what was folded stands, modulo 65535, for the sum
\* of the words, and with the checksum in place that sum is zero.
FoldingKeeps ==
    /\ pc = "sum" => (total - acc - sum) % 65535 = 0
    /\ pc \in {"lengths", "done"} => total % 65535 = 0

\* The ones' complement sum that RFC 1071 has the receiver of these bytes
\* compute: 256 times the bytes at even places, and those at odd ones.
Weight(b, k) == IF k % 2 = 1 THEN 256 * b[k] ELSE b[k]
Sums(b) ==
    LET first[n \in 0..Len(b)] == IF n = 0 THEN 0 ELSE first[n - 1] + Weight(b, n)
    IN first
Weighed(b) == Sums(b)[Len(b)]

Sound(b) == Weighed(b) % 65535 = 0

\* A packet that was cut has checksums that its receiver accepts, which looks
\* for the lengths in the packet and takes the final destination into account.
ReceiverAccepts ==
    pc = "done" /\ ~packet.hidden =>
       LET number(k) == 256 * buf[k] + buf[k + 1]
           end == IF packet.ipv6 THEN 40 + number(4) ELSE number(2)
           length == IF packet.proto = UDP THEN number(packet.l4 + 4) ELSE end - packet.l4
           src == IF packet.ipv6 THEN Slice(buf, 8, 24) ELSE Slice(buf, 12, 16)
       IN /\ ~packet.ipv6 => Sound(Slice(buf, 0, packet.ihl))
          /\ Sound(src \o packet.final \o Word(packet.proto) \o Word(length)
                      \o Slice(buf, packet.l4, packet.l4 + length))

\* A UDP checksum of zero would say that there is none: it is never written.
UdpChecksumPresent ==
    pc = "done" /\ packet.proto = UDP => buf[packet.l4 + 6] # 0 \/ buf[packet.l4 + 7] # 0

\* The bytes where lengths and checksums are.
Rewritten(p) ==
    UNION {{k, k + 1} : k \in {ChecksumAt(p, "l4")}
                                 \union (IF p.ipv6 THEN {4} ELSE {2, ChecksumAt(p, "ip")})
                                 \union (IF p.proto = UDP THEN {p.l4 + 4} ELSE {})}

\* Nothing else changes: headers, options and what is left of the payload are
\* those of the capture.
OthersKept == \A k \in DOMAIN buf \ Rewritten(packet) : buf[k] = packet.buf[k]

\* The loops end: those that fold until nothing is carried, and the one over
\* the options, whatever lengths they claim to have.
Terminates == <>(pc \in {"kept", "done"})
=============================================================================
