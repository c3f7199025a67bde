------------------------------ MODULE MCPacket ------------------------------
(***************************************************************************)
(* The frames that TLC tries: every combination of the fields that decide  *)
(* where the headers end, captured up to every place that matters, and     *)
(* every combination of ports and first bytes on one layout.               *)
(***************************************************************************)
EXTENDS Packet

\* The layers of a frame: IP header or extension headers, and L4 header.
Ips == {[ether |-> "ipv4", ihl |-> n, ext |-> 0, fragment |-> b] : n \in {5, 6}, b \in BOOLEAN}
       \union {[ether |-> "ipv6", ihl |-> 5, ext |-> n, fragment |-> FALSE] : n \in {0, 8}}
       \union {[ether |-> "ipv6", ihl |-> 5, ext |-> 8, fragment |-> TRUE]}
       \union {[ether |-> "other", ihl |-> 5, ext |-> 0, fragment |-> FALSE]}

L4s == {[proto |-> "tcp", doff |-> n] : n \in {4, 5, 8}}
       \union {[proto |-> p, doff |-> 5] : p \in {"udp", "other"}}

Flow == [port : {22, 80, 443, 500}, peer : {22, 443, 4500, 40000},
         first : {"handshake", "appdata", "ssh", "other"}]

\* A frame as it was on the wire, with that many bytes of payload.
Wire(tags, ip, l4, flow, data) ==
    [tags |-> tags, ether |-> ip.ether, version |-> TRUE, ihl |-> ip.ihl, ext |-> ip.ext,
     fragment |-> ip.fragment, proto |-> l4.proto, doff |-> l4.doff, udplen |-> 8 + data,
     sport |-> flow.port, dport |-> flow.peer, first |-> flow.first, len |-> 0,
     iplen |-> (IF ip.ether = "ipv4" THEN 4 * ip.ihl ELSE ip.ext)
                  + (IF l4.proto = "tcp" THEN 4 * l4.doff ELSE 8) + data]

\* Captured up to just before or at the end of a header, the 24 bytes, the
\* packet, or a trailer of 5 bytes.
Places(f) == {14, IpStart(f), IpStart(f) + 8, IpStart(f) + 20, DataStart(f) - 4, DataStart(f),
              DataStart(f) + 24, PacketEnd(f), PacketEnd(f) + 5}
Captures(f) == {[f EXCEPT !.len = n + d] : n \in Places(f), d \in {-1, 0}}

\* The length field as sent, 0 (segmentation offload), and cutting the payload.
Lengths(f) == {f, [f EXCEPT !.iplen = 0], [f EXCEPT !.iplen = @ - 2]}

Bulk == [port |-> 443, peer |-> 40000, first |-> "appdata"]

Shapes ==
    UNION {Captures(g) : g \in UNION {Lengths(f) :
        f \in {Wire(tags, ip, l4, Bulk, data) :
                  tags \in {0, 2}, ip \in Ips, l4 \in L4s, data \in {0, 24, 25, 40}}}}

Flows ==
    {[Wire(0, ip, l4, flow, 40) EXCEPT !.len = 140, !.version = ok] :
        ip \in Ips, l4 \in L4s, flow \in Flow, ok \in BOOLEAN}

TryFrames == Shapes \union Flows
=============================================================================
