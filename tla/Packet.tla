------------------------------- MODULE Packet -------------------------------
(***************************************************************************)
(* What pcap-slim does to one frame of a capture (parse.rs, policy.rs,     *)
(* truncate.rs, packet.rs), and what happens when a capture is slimmed     *)
(* more than once, as it is after a crash between the rename and the       *)
(* marker.                                                                 *)
(*                                                                         *)
(* A frame is what the code reads of it: the number of bytes captured, and *)
(* the fields that decide where its headers end and whether its payload is *)
(* encrypted.  A field that lies beyond the bytes captured is never used   *)
(* before the code has seen that it is there, but for one: see             *)
(* DecideAction.                                                           *)
(***************************************************************************)
EXTENDS Integers

CONSTANTS Frames,   \* the frames of the capture
          MaxPasses \* bound on the number of times it is slimmed

Word == 0..65535

(***************************************************************************)
(*   len       bytes captured (incl_len)                                   *)
(*   tags      number of 802.1Q tags                                       *)
(*   ether     ethertype after the tags                                    *)
(*   version   does the version nibble agree with the ethertype?           *)
(*   ihl       IPv4 header length in words; below 5 it makes headers       *)
(*             overlap, which is not modelled                              *)
(*   ext       bytes of IPv6 extension headers                             *)
(*   iplen     IPv4 total length, IPv6 payload length                      *)
(*   fragment  IPv4 MF flag or offset, IPv6 fragment header                *)
(*   proto     protocol after the IP headers                               *)
(*   doff      TCP data offset in words                                    *)
(*   udplen    UDP length                                                  *)
(*   first     how the payload begins: a TLS handshake byte, TLS           *)
(*             application data, "SSH-", or anything else                  *)
(***************************************************************************)
FrameType ==
    [len : Nat, tags : Nat, ether : {"ipv4", "ipv6", "other"}, version : BOOLEAN,
     ihl : 5..15, ext : {0} \union {n \in Word : n >= 8}, iplen : Word,
     fragment : BOOLEAN, proto : {"tcp", "udp", "other"}, doff : 0..15,
     sport : Word, dport : Word, udplen : Word,
     first : {"handshake", "appdata", "ssh", "other"}]

ASSUME FramesAssumption == Frames \subseteq FrameType /\ MaxPasses \in Nat

VARIABLES frame,    \* the frame as it is in the capture now
          fate,     \* what the last pass did: "none", "keep", "truncate", "panic"
          passes    \* the number of passes so far

vars == <<frame, fate, passes>>

Init == frame \in Frames /\ fate = "none" /\ passes = 0

-----------------------------------------------------------------------------
(* Parsing (parse.rs).                                                     *)

Lesser(m, n) == IF m < n THEN m ELSE n
SaturatingSub(m, n) == IF m > n THEN m - n ELSE 0

NoL4 == [proto |-> "none", start |-> 0, len |-> 0]
L4Info(proto, start, len) == [proto |-> proto, start |-> start, len |-> len]

\* The ports of an L4 header are those of the frame.
Parsed(ip, hdr, v6, l4) == [ip |-> ip, hdr |-> hdr, v6 |-> v6, l4 |-> l4]

\* A frame without an IP header that the code can find.
NoIp == Parsed(0, 0, FALSE, NoL4)
NotPlain == Parsed(0, 0, FALSE, L4Info("not plain", 0, 0))

\* Where the tag stack says that the IP header starts.
IpStart(f) == 14 + 4 * f.tags

\* An L4 header at start, with room bytes of IP payload left for it.
ParseTcp(f, start, room) ==
    IF /\ f.len >= start + 20 /\ room >= 20
       /\ 4 * f.doff >= 20 /\ f.len >= start + 4 * f.doff
       /\ room >= 4 * f.doff
    THEN L4Info("tcp", start, 4 * f.doff) ELSE NoL4

ParseUdp(f, start, room) ==
    IF f.len >= start + 8 /\ room >= 8 THEN L4Info("udp", start, 8) ELSE NoL4

ParseL4(f, start, room) ==
    CASE f.proto = "tcp" -> ParseTcp(f, start, room)
      [] f.proto = "udp" -> ParseUdp(f, start, room)
      [] OTHER -> NoL4

ParseIpv4(f) ==
    LET ip == IpStart(f)
        hdr == 4 * f.ihl
    IN IF f.len < ip + 20 \/ ~f.version THEN Parsed(ip, 0, FALSE, NoL4)
       ELSE IF f.len < ip + hdr THEN Parsed(ip, hdr, FALSE, NoL4)
       ELSE Parsed(ip, hdr, FALSE, ParseL4(f, ip + hdr, SaturatingSub(f.iplen, hdr)))

\* The walk along the extension headers, each of which must end within the
\* packet, comes to an L4 header that must begin within it.
ParseIpv6(f) ==
    LET ip == IpStart(f)
        end == Lesser(ip + 40 + f.iplen, f.len)
        start == ip + 40 + f.ext
    IN Parsed(ip, 40, TRUE,
              IF f.len < ip + 40 \/ ~f.version \/ start >= end THEN NoL4
              ELSE ParseL4(f, start, end - start))

\* Any frame, by its tag stack and ethertype.
ParseTagged(f) ==
    IF f.len < IpStart(f) \/ f.ether = "other" THEN NoIp
    ELSE IF f.ether = "ipv4" THEN ParseIpv4(f) ELSE ParseIpv6(f)

\* Variant: the data offset of the TCP header is not looked at.
ParsePlainAnyOffset(f) ==
    IF \/ f.len < 54 \/ f.tags > 0 \/ f.ether # "ipv4" \/ ~f.version \/ f.ihl # 5
       \/ f.fragment \/ f.len < 14 + f.iplen
       \/ f.proto = "tcp" /\ SaturatingSub(f.iplen, 20) < 20
       \/ f.proto = "udp" /\ SaturatingSub(f.iplen, 20) < 8
    THEN NotPlain
    ELSE Parsed(14, 20, FALSE,
                CASE f.proto = "tcp" -> L4Info("tcp", 34, 20)
                  [] f.proto = "udp" -> L4Info("udp", 34, 8)
                  [] OTHER -> NoL4)

\* try_parse_ipv4_plain, the fast path: no tags, options or fragments, and
\* the whole packet captured.
ParsePlain(f) ==
    IF \/ f.len < 54 \/ f.tags > 0 \/ f.ether # "ipv4" \/ ~f.version \/ f.ihl # 5
       \/ f.fragment \/ f.len < 14 + f.iplen
       \/ f.proto = "tcp" /\ (SaturatingSub(f.iplen, 20) < 20 \/ f.doff # 5)
       \/ f.proto = "udp" /\ SaturatingSub(f.iplen, 20) < 8
    THEN NotPlain
    ELSE Parsed(14, 20, FALSE,
                CASE f.proto = "tcp" -> L4Info("tcp", 34, 20)
                  [] f.proto = "udp" -> L4Info("udp", 34, 8)
                  [] OTHER -> NoL4)

ParseFrame(f) == IF ParsePlain(f) # NotPlain THEN ParsePlain(f) ELSE ParseTagged(f)

\* Where the payload starts, and the bytes of it that were captured.
PayloadStart(p) == p.l4.start + p.l4.len

PayloadLen(f, p) ==
    LET ipTotal == IF p.v6 THEN p.hdr + f.iplen ELSE f.iplen
        claimed == SaturatingSub(SaturatingSub(ipTotal, p.hdr), p.l4.len)
        end == Lesser(f.len, PayloadStart(p) + claimed)
    IN IF p.l4 = NoL4 THEN 0 ELSE SaturatingSub(end, PayloadStart(p))

-----------------------------------------------------------------------------
(* The decision (policy.rs).                                               *)

TRUNCATE_PAYLOAD_BYTES == 24

TLS_PORTS   == {443, 853, 465, 993, 995, 8443, 5061}
QUIC_PORTS  == {443}
IPSEC_PORTS == {500, 4500}
SSH_PORTS   == {22}

OnPort(f, ports) == f.sport \in ports \/ f.dport \in ports

\* Variant: only the server's side of a connection is known by its port.
DecideTcpOneSide(f) ==
    \/ f.sport \in TLS_PORTS /\ f.first # "handshake"
    \/ f.sport \notin TLS_PORTS /\ f.first = "appdata"
    \/ OnPort(f, SSH_PORTS) /\ f.first # "ssh"

\* Is a payload of more than TRUNCATE_PAYLOAD_BYTES to be cut?
DecideTcp(f) ==
    \/ OnPort(f, TLS_PORTS) /\ f.first # "handshake"
    \/ ~OnPort(f, TLS_PORTS) /\ f.first = "appdata"
    \/ OnPort(f, SSH_PORTS) /\ f.first # "ssh"

DecideUdp(f) == OnPort(f, QUIC_PORTS) \/ OnPort(f, IPSEC_PORTS)

\* The flags of an IPv4 header are read even where the parser found that it
\* was not captured: indexing beyond the frame panics.  A frame that is not
\* IP is kept whatever the bytes at that place say.
DecideAction(f, p) ==
    IF ~p.v6 /\ p.ip > 0 /\ f.len < p.ip + 8 THEN "panic"
    ELSE IF \/ ~p.v6 /\ p.ip > 0 /\ f.fragment
            \/ p.l4 = NoL4
            \/ PayloadLen(f, p) <= TRUNCATE_PAYLOAD_BYTES
         THEN "keep"
    ELSE IF \/ p.l4.proto = "tcp" /\ DecideTcp(f)
            \/ p.l4.proto = "udp" /\ DecideUdp(f)
         THEN "truncate" ELSE "keep"

-----------------------------------------------------------------------------
(* Truncation (truncate.rs, packet.rs).  Checksums are left out.           *)

\* The low 16 bits, which are all that a length field has.
AsU16(n) == n % 65536

\* Variant: IPv6's payload length is set as if it were IPv4's total length.
TruncatedTotal(f, p) ==
    LET len == PayloadStart(p) + TRUNCATE_PAYLOAD_BYTES IN
    [f EXCEPT !.len = len,
              !.iplen = AsU16(len - p.ip),
              !.udplen = IF p.l4.proto = "udp" THEN p.l4.len + TRUNCATE_PAYLOAD_BYTES ELSE @]

\* Variant: what follows the payload is kept.
TruncatedInPlace(f, p) ==
    LET len == f.len - (PayloadLen(f, p) - TRUNCATE_PAYLOAD_BYTES) IN
    [f EXCEPT !.len = len,
              !.iplen = AsU16(IF p.v6 THEN len - p.ip - p.hdr ELSE len - p.ip),
              !.udplen = IF p.l4.proto = "udp" THEN p.l4.len + TRUNCATE_PAYLOAD_BYTES ELSE @]

\* The frame ends with the 24th byte of its payload.
Truncated(f, p) ==
    LET len == PayloadStart(p) + TRUNCATE_PAYLOAD_BYTES IN
    [f EXCEPT !.len = len,
              !.iplen = AsU16(IF p.v6 THEN len - p.ip - p.hdr ELSE len - p.ip),
              !.udplen = IF p.l4.proto = "udp" THEN p.l4.len + TRUNCATE_PAYLOAD_BYTES ELSE @]

\* apply_truncate_on_parsed leaves alone a frame that it would not shorten.
Shortens(f, p) ==
    /\ PayloadLen(f, p) > TRUNCATE_PAYLOAD_BYTES
    /\ PayloadStart(p) + TRUNCATE_PAYLOAD_BYTES < f.len

\* process_packet on the frame, once in each pass; a frame too short for an
\* Ethernet header is one that ParseTagged finds no IP header in.
Pass(outcome) ==
    /\ passes < MaxPasses
    /\ passes' = passes + 1
    /\ fate' = outcome

Keep ==
    LET p == ParseFrame(frame) IN
    /\ \/ DecideAction(frame, p) = "keep"
       \/ DecideAction(frame, p) = "truncate" /\ ~Shortens(frame, p)
    /\ Pass("keep")
    /\ UNCHANGED frame

Truncate ==
    LET p == ParseFrame(frame) IN
    /\ DecideAction(frame, p) = "truncate" /\ Shortens(frame, p)
    /\ frame' = Truncated(frame, p)
    /\ Pass("truncate")

\* The pass ends here, and the capture stays as it is.
Panic ==
    /\ DecideAction(frame, ParseFrame(frame)) = "panic"
    /\ Pass("panic")
    /\ UNCHANGED frame

Next == Keep \/ Truncate \/ Panic

Spec == Init /\ [][Next]_vars

-----------------------------------------------------------------------------
(* Properties.                                                             *)

TypeOK ==
    /\ frame \in FrameType
    /\ fate \in {"none", "keep", "truncate", "panic"}
    /\ passes \in 0..MaxPasses

\* The fast path sees in a frame what the general parser sees in it
\* (try_parse_ipv4_plain, parse_ipv4).
FastPathAgrees == ParsePlain(frame) # NotPlain => ParsePlain(frame) = ParseTagged(frame)

\* Long enough chains of extension headers make the new length wrap.
Wraps(f) == f.ext > 65000

\* After a cut the length fields say exactly what is there, and what is there
\* is the headers and TRUNCATE_PAYLOAD_BYTES of payload
\* (apply_truncate_fields).
LengthsAgree ==
    fate = "truncate" /\ ~Wraps(frame) =>
        LET p == ParseFrame(frame) IN
        /\ p.l4.proto = frame.proto
        /\ PayloadLen(frame, p) = TRUNCATE_PAYLOAD_BYTES
        /\ frame.len = PayloadStart(p) + TRUNCATE_PAYLOAD_BYTES
        /\ frame.len = p.ip + frame.iplen + (IF p.v6 THEN p.hdr ELSE 0)
        /\ p.l4.proto = "udp" => frame.udplen = 8 + TRUNCATE_PAYLOAD_BYTES

\* A second pass over a slimmed capture changes nothing, so that a capture
\* that was slimmed and not yet marked may be slimmed again.
SecondPassKeeps == [][passes > 0 => frame' = frame]_vars

(***************************************************************************)
(* The documented rule, from the layout of the packet rather than the      *)
(* parser's steps.                                                         *)
(***************************************************************************)
IpHeaderLen(f) == IF f.ether = "ipv4" THEN 4 * f.ihl ELSE 40 + f.ext
L4HeaderLen(f) == IF f.proto = "tcp" THEN 4 * f.doff ELSE 8

DataStart(f) == IpStart(f) + IpHeaderLen(f) + L4HeaderLen(f)
PacketEnd(f) == IpStart(f) + f.iplen + (IF f.ether = "ipv4" THEN 0 ELSE 40)

\* All headers are there, in the capture and within the packet.
WellFormed(f) ==
    /\ f.ether # "other" /\ f.version
    /\ f.proto = "udp" \/ (f.proto = "tcp" /\ f.doff >= 5)
    /\ DataStart(f) <= f.len /\ DataStart(f) <= PacketEnd(f)

\* The bytes of payload that were captured.
Data(f) == Lesser(f.len, PacketEnd(f)) - DataStart(f)

Encrypted(f) ==
    \/ f.proto = "tcp" /\ f.first = "appdata"
    \/ f.proto = "tcp" /\ OnPort(f, TLS_PORTS) /\ f.first # "handshake"
    \/ f.proto = "tcp" /\ OnPort(f, SSH_PORTS) /\ f.first # "ssh"
    \/ f.proto = "udp" /\ (OnPort(f, QUIC_PORTS) \/ OnPort(f, IPSEC_PORTS))

ToBeCut(f) == WellFormed(f) /\ ~f.fragment /\ Data(f) > 24 /\ Encrypted(f)

\* Frames that the code treats otherwise than documented: IPv6 fragments, and
\* IPv6 packets with extension headers that are followed by other bytes (an
\* Ethernet trailer).
Divergent(f) == f.ether = "ipv6" /\ (f.fragment \/ (f.ext > 0 /\ f.len > PacketEnd(f)))

\* What is encrypted is cut and nothing else is: neither a handshake, a
\* banner or cleartext, nor a fragment, nor what has an incomplete header
\* (decide_action and the offsets it relies on).
CutsWhatItShould == [][Divergent(frame) \/ (fate' = "truncate" <=> ToBeCut(frame))]_vars

\* Fragments are left alone, as the list of edge cases has it.
FragmentsKept == [][frame.fragment => frame' = frame]_vars

\* So are frames whose header is incomplete: processing one never panics.
NeverPanics == fate # "panic"

\* And packets whose payload is short already, by the length of the packet.
ShortPayloadKept == [][WellFormed(frame) /\ PacketEnd(frame) - DataStart(frame) <= 24
                          => frame' = frame]_vars
=============================================================================
