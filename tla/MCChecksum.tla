----------------------------- MODULE MCChecksum -----------------------------
(***************************************************************************)
(* The packets that TLC tries, put together from an IP header, a TCP or    *)
(* UDP header and a payload, with lengths and checksums as they would have *)
(* been, or not.                                                           *)
(***************************************************************************)
EXTENDS Checksum, SequencesExt

Src == <<10, 255, 0, 1>>
Dst == <<192, 168, 255, 254>>
Hop == <<172, 16, 0, 9>>
Via(n) == [k \in 1..16 |-> IF k = 16 THEN n ELSE IF k < 3 THEN 253 ELSE 0]

\* The options of an IPv4 header, where their route ends, and whether the code
\* overlooks it.
Plain(bytes) == [bytes |-> bytes, final |-> Dst, hidden |-> FALSE]
Routed(before, kind, hops, pad, hidden) ==
    [bytes |-> before \o <<kind, 3 + 4 * Len(hops), 4>> \o FlattenSeq(hops) \o pad,
     final |-> hops[Len(hops)], hidden |-> hidden]

Timestamp == <<68, 4, 5, 0>>
Options ==
    {Plain(<<>>), Plain(Timestamp),
     Plain(<<131, 3, 4, 0>>),                \* a route without an address
     Plain(<<0, 131, 7, 4>> \o Hop),         \* a route after the end
     Plain(<<131, 9, 4>> \o Hop \o <<0>>),   \* one that exceeds the header
     Plain(<<7, 0, 4, 0>>),
     Plain(<<1, 1, 7, 2>>),
     Routed(<<>>, 131, <<Hop, <<10, 0, 0, 77>> >>, <<0>>, FALSE),
     Routed(Timestamp, 137, <<Hop>>, <<1>>, FALSE),
     Routed(<<1>>, 137, <<Hop>>, <<>>, TRUE)}

\* Extension headers of IPv6: none, destination options, a routing header.
Extensions ==
    {[next |-> 0, bytes |-> <<>>, final |-> Via(2), hidden |-> FALSE],
     [next |-> 60, bytes |-> <<0, 0, 1, 4, 0, 0, 0, 0>>, final |-> Via(2), hidden |-> FALSE],
     [next |-> 43, bytes |-> <<0, 2, 0, 1, 0, 0, 0, 0>> \o Via(3),
      final |-> Via(3), hidden |-> TRUE]}

Payloads == {<<x, y, z, 7>> : x, y \in {0, 1, 255}, z \in {0, 255}} \union {<<1, 2, 3>>}

Segment(proto, checksum, data) ==
    (IF proto = TCP
     THEN <<1, 187, 156, 64, 1, 2, 3, 4, 255, 255, 255, 255, 80, 24, 255, 0>>
             \o checksum \o <<0, 0>>
     ELSE <<1, 187, 156, 64>> \o Word(8 + Len(data)) \o checksum)
    \o data

Packet(ipv6, header, ihl, proto, segment, payload, final, hidden) ==
    LET bytes == header \o segment IN
    [buf |-> [k \in 0..(Len(bytes) - 1) |-> bytes[k + 1]], len |-> Len(bytes),
     ipv6 |-> ipv6, ihl |-> ihl, l4 |-> Len(header),
     proto |-> proto, hlen |-> IF proto = TCP THEN 20 ELSE 8,
     payload |-> payload, final |-> final, hidden |-> hidden]

Ipv4(o, proto, checksum, data) ==
    LET segment == Segment(proto, checksum, data)
        header == <<69 + Len(o.bytes) \div 4, 0>> \o Word(20 + Len(o.bytes) + Len(segment))
                     \o <<255, 255, 64, 0, 64, proto>> \o checksum \o Src \o Dst \o o.bytes
    IN Packet(FALSE, header, 20 + Len(o.bytes), proto, segment, Len(data), o.final, o.hidden)

Ipv6(x, proto, checksum, data) ==
    LET segment == Segment(proto, checksum, data)
        header == <<96, 0, 0, 0>> \o Word(Len(x.bytes) + Len(segment)) \o <<x.next, 64>>
                     \o Via(1) \o Via(2) \o x.bytes
    IN Packet(TRUE, header, 40, proto, segment, Len(data), x.final, x.hidden)

Checksums == {<<0, 0>>, <<171, 205>>}

Cuttable ==
    {Ipv4(o, proto, c, data) :
        o \in Options, proto \in {TCP, UDP}, c \in Checksums, data \in Payloads}
    \union
    {Ipv6(x, proto, c, data) :
        x \in Extensions, proto \in {TCP, UDP}, c \in Checksums, data \in Payloads}

\* UDP packets that sum up to 65535 once they are cut: their source port is
\* what is missing.
Missing(p) ==
    LET end == p.l4 + 11
        rest == Slice(p.buf, p.l4 + 2, p.l4 + 4) \o Word(11) \o <<0, 0>>
                   \o Slice(p.buf, p.l4 + 8, end)
        src == IF p.ipv6 THEN Slice(p.buf, 8, 24) ELSE Slice(p.buf, 12, 16)
    IN 65535 - (Weighed(src \o p.final \o Word(p.proto) \o Word(11) \o rest) % 65535)

Balanced ==
    {[p EXCEPT !.buf = Patch(@, p.l4, Missing(p))] : p \in {q \in Cuttable : q.proto = UDP}}

TryPackets == Cuttable \union Balanced
=============================================================================
