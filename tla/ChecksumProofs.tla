--------------------------- MODULE ChecksumProofs ---------------------------
(***************************************************************************)
(* What holds of every packet, whatever its bytes: types, the arithmetic   *)
(* of folding, the UDP checksum, and what is left alone.                   *)
(***************************************************************************)
EXTENDS Checksum, TLAPS

-----------------------------------------------------------------------------
(* Arithmetic.                                                             *)

LEMMA Bytes ==
    ASSUME NEW n \in Nat
    PROVE  Hi(n) \in Byte /\ Lo(n) \in Byte
BY DEF Hi, Lo, Byte

LEMMA NonZero ==
    ASSUME NEW n \in Nat, 0 < n, n < 65536
    PROVE  Hi(n) # 0 \/ Lo(n) # 0
BY DEF Hi, Lo

\* A fold takes off a multiple of 65535.
LEMMA FoldTakes ==
    ASSUME NEW n \in Nat
    PROVE  /\ Folded(n) \in Nat
           /\ n - Folded(n) = 65535 * (n \div 65536)
<1>1. n \div 65536 \in Nat /\ n % 65536 \in Nat
  OBVIOUS
<1>2. n = 65536 * (n \div 65536) + (n % 65536)
  OBVIOUS
<1> QED
  BY <1>1, <1>2 DEF Folded

LEMMA Multiples ==
    ASSUME NEW n \in Int, NEW k \in Int, n % 65535 = 0
    PROVE  (n + 65535 * k) % 65535 = 0
OBVIOUS

-----------------------------------------------------------------------------
(* Bytes.                                                                  *)

LEMMA ByteNat == \A b \in Byte : b \in Nat
BY DEF Byte

LEMMA Numbers ==
    ASSUME NEW p \in Packets
    PROVE  /\ p.len \in Nat
           /\ p.buf \in [0..(p.len - 1) -> Byte]
           /\ p.ipv6 \in BOOLEAN
           /\ p.ihl \in Nat /\ p.ihl >= 20 /\ (p.ipv6 => p.ihl = 40)
           /\ p.proto \in {TCP, UDP} /\ p.proto \in Nat
           /\ p.hlen \in Nat /\ p.hlen >= 8 /\ (p.proto = TCP => p.hlen >= 20)
           /\ p.payload \in Nat
           /\ p.l4 \in Nat /\ p.l4 >= p.ihl /\ p.l4 + p.hlen + p.payload <= p.len
           /\ TRUNCATE_PAYLOAD_BYTES \in Nat
<1>1. IsPacket(p) /\ TRUNCATE_PAYLOAD_BYTES \in Nat
  BY ConstantsAssumption
<1>2. TCP \in Nat /\ UDP \in Nat /\ p.proto \in {TCP, UDP}
  BY <1>1 DEF IsPacket, TCP, UDP
<1>3. p.hlen \in Nat /\ p.hlen >= 8 /\ (p.proto = TCP => p.hlen >= 20)
  BY <1>1 DEF IsPacket
<1> QED
  BY <1>1, <1>2, <1>3 DEF IsPacket

LEMMA SliceType ==
    ASSUME NEW n \in Int, NEW b \in [0..(n - 1) -> Byte],
           NEW from \in Nat, NEW to \in Nat, from <= to, to <= n
    PROVE  Slice(b, from, to) \in Seq(Byte)
<1>1. to - from \in Nat
  OBVIOUS
<1>2. \A k \in 1..(to - from) : b[from + k - 1] \in Byte
  OBVIOUS
<1> QED
  BY <1>1, <1>2 DEF Slice

LEMMA WordType ==
    ASSUME NEW n \in Nat
    PROVE  Word(n) \in Seq(Byte)
BY Bytes DEF Word

LEMMA PatchType ==
    ASSUME NEW n \in Int, NEW b \in [0..(n - 1) -> Byte], NEW at \in Nat, NEW v \in Nat
    PROVE  /\ Patch(b, at, v) \in [0..(n - 1) -> Byte]
           /\ DOMAIN Patch(b, at, v) = DOMAIN b
           /\ \A k \in DOMAIN b \ {at, at + 1} : Patch(b, at, v)[k] = b[k]
           /\ at + 1 < n => Patch(b, at, v)[at] = Hi(v) /\ Patch(b, at, v)[at + 1] = Lo(v)
<1> DEFINE S == 0..(n - 1)
<1>1. Hi(v) \in Byte /\ Lo(v) \in Byte
  BY Bytes
<1>2. b \in [S -> Byte] /\ DOMAIN b = S /\ (at + 1 < n => at \in S /\ at + 1 \in S) /\ at # at + 1
  OBVIOUS
<1> HIDE DEF S
<1> QED
  BY <1>1, <1>2 DEF Patch

LEMMA FieldPlace ==
    ASSUME NEW p \in Packets, NEW which \in {"ip", "l4"}
    PROVE  /\ ChecksumAt(p, which) \in Nat
           /\ which = "l4" => ChecksumAt(p, which) + 1 < p.l4 + p.hlen
BY Numbers DEF ChecksumAt, TCP, UDP

LEMMA NextWordType ==
    ASSUME parts \in Seq(Seq(Byte)), parts # <<>>, pos \in Nat, pos < Len(Head(parts))
    PROVE  NextWord \in Nat
<1> DEFINE part == Head(parts)
<1>1. part \in Seq(Byte)
  OBVIOUS
<1>2. part[pos + 1] \in Byte /\ (pos + 1 < Len(part) => part[pos + 2] \in Byte)
  BY <1>1
<1> HIDE DEF part
<1>3. part[pos + 1] \in Nat /\ (pos + 1 < Len(part) => part[pos + 2] \in Nat)
  BY <1>2, ByteNat
<1>4. NextWord = IF pos + 1 < Len(part) THEN 256 * part[pos + 1] + part[pos + 2]
                 ELSE 256 * part[pos + 1]
  BY DEF NextWord, part
<1>5. CASE pos + 1 < Len(part)
  <2> DEFINE x == part[pos + 1]
             y == part[pos + 2]
  <2>1. x \in Nat /\ y \in Nat /\ NextWord = 256 * x + y
    BY <1>3, <1>4, <1>5
  <2> HIDE DEF x, y
  <2> QED
    BY ONLY <2>1
<1>6. CASE ~(pos + 1 < Len(part))
  <2> DEFINE x == part[pos + 1]
  <2>1. x \in Nat /\ NextWord = 256 * x
    BY <1>3, <1>4, <1>6
  <2> HIDE DEF x
  <2> QED
    BY ONLY <2>1
<1> QED
  BY <1>5, <1>6

-----------------------------------------------------------------------------
(* Types.                                                                  *)

LEMMA Shape ==
    ASSUME TypeOK
    PROVE  /\ packet \in Packets
           /\ End \in Nat /\ packet.l4 + packet.hlen <= End
           /\ packet.ihl \in Nat /\ packet.ihl >= 20 /\ packet.ihl <= packet.l4
           /\ packet.ipv6 => packet.ihl = 40
           /\ packet.l4 \in Nat /\ packet.hlen \in Nat /\ packet.hlen >= 8
           /\ packet.proto \in Nat /\ packet.ipv6 \in BOOLEAN
           /\ packet.hlen + TRUNCATE_PAYLOAD_BYTES \in Nat
           /\ pc \notin {"cut", "kept"} => buf \in [0..(End - 1) -> Byte]
<1>1. packet \in Packets
  BY DEF TypeOK
<1>2. pc \notin {"cut", "kept"} => buf \in [0..(End - 1) -> Byte]
  BY DEF TypeOK
<1> QED
  BY <1>1, <1>2, Numbers DEF End

LEMMA TypeStep == TypeOK /\ [Next]_vars => TypeOK'
<1> SUFFICES ASSUME TypeOK, [Next]_vars PROVE TypeOK'
  OBVIOUS
<1> DEFINE inside == [0..(End - 1) -> Byte]
<1>0. UNCHANGED packet => End' = End /\ packet' \in Packets
  BY DEF TypeOK, End
<1>1. CASE Cut
  <2>1. CASE pc' = "kept"
    BY <1>1, <2>1, <1>0 DEF Cut, walk, sums, TypeOK, PCs
  <2>2. CASE pc' # "kept"
    <3> DEFINE rest == [k \in 0..(End - 1) |-> buf[k]]
    <3>1. End < packet.len /\ packet.len \in Nat /\ End \in Nat
      <4>1. packet \in Packets /\ End \in Nat
        BY Shape
      <4>2. packet.len \in Nat
        BY <4>1, Numbers
      <4>3. ~(End >= packet.len)
        BY <1>1, <2>2 DEF Cut
      <4> QED
        BY <4>1, <4>2, <4>3
    <3>2. buf \in [0..(packet.len - 1) -> Byte]
      BY <1>1 DEF Cut, TypeOK
    <3>3. rest \in inside
      BY <3>1, <3>2
    <3>4. End - packet.ihl \in Nat
      BY Shape
    <3>5. buf' \in {Patch(rest, 4, End - packet.ihl), Patch(rest, 2, End)}
      BY <1>1, <2>2 DEF Cut
    <3> HIDE DEF rest
    <3>6. buf' \in inside
      BY <3>1, <3>3, <3>4, <3>5, PatchType
    <3>7. pc' \in {"lengths", "header"} /\ UNCHANGED <<packet, field, walk, sums>>
      BY <1>1, <2>2 DEF Cut
    <3> QED
      BY <3>6, <3>7, <1>0 DEF walk, sums, TypeOK, PCs
  <2> QED
    BY <2>1, <2>2
<1>2. CASE IpHeader
  <2>1. buf \in inside /\ buf' = Patch(buf, 10, 0)
    BY <1>2, Shape DEF IpHeader
  <2>2. buf' \in inside
    <3>1. End \in Int /\ 10 \in Nat /\ 0 \in Nat
      BY Shape
    <3> QED
      BY <2>1, <3>1, PatchType
  <2>3. Slice(buf', 0, packet.ihl) \in Seq(Byte)
    <3>1. 0 <= packet.ihl /\ packet.ihl <= End /\ packet.ihl \in Nat /\ End \in Int
      BY Shape
    <3> QED
      BY <2>2, <3>1, SliceType
  <2> QED
    BY <1>2, <1>0, <2>2, <2>3 DEF IpHeader, Begin, walk, TypeOK, PCs
<1>3. CASE Lengths
  <2> DEFINE sized == IF packet.proto = UDP
                      THEN Patch(buf, packet.l4 + 4, packet.hlen + TRUNCATE_PAYLOAD_BYTES)
                      ELSE buf
  <2>1. buf \in inside /\ End \in Int
    BY <1>3, Shape DEF Lengths
  <2>2. sized \in inside
    <3>1. packet.l4 + 4 \in Nat /\ packet.hlen + TRUNCATE_PAYLOAD_BYTES \in Nat
      BY Shape
    <3> QED
      BY <2>1, <3>1, PatchType
  <2>3. buf' = Patch(sized, ChecksumAt(packet, "l4"), 0)
    BY <1>3 DEF Lengths
  <2>4. buf' \in inside
    <3> HIDE DEF sized
    <3> QED
      BY <2>1, <2>2, <2>3, Shape, FieldPlace, PatchType
  <2>5. dst' \in Seq(Byte)
    <3>1. CASE packet.ipv6
      <4>1. dst' = Slice(buf, 24, 40) /\ 40 <= End
        BY <3>1, <1>3, Shape DEF Lengths
      <4> QED
        BY <4>1, <2>1, SliceType
    <3>2. CASE ~packet.ipv6
      <4>1. dst' = Slice(buf, 16, 20) /\ 20 <= End
        BY <3>2, <1>3, Shape DEF Lengths
      <4> QED
        BY <4>1, <2>1, SliceType
    <3> QED
      BY <3>1, <3>2
  <2> QED
    BY <1>3, <1>0, <2>4, <2>5 DEF Lengths, sums, TypeOK, PCs
<1>4. CASE PassOption
  <2> DEFINE next == opt + buf[opt + 1]
  <2>1. buf \in inside /\ opt \in Nat /\ opt + 1 < packet.ihl /\ End \in Int
    BY <1>4, Shape DEF PassOption, AtOption, TypeOK
  <2>2. buf[opt + 1] \in Nat
    <3>1. opt + 1 \in 0..(End - 1)
      BY <2>1, Shape
    <3> QED
      BY <2>1, <3>1, ByteNat
  <2>3. next \in Nat /\ next <= packet.ihl /\ (AtRoute => next >= opt + 7)
    <3> DEFINE len == buf[opt + 1]
    <3>1. len >= 2 /\ next <= packet.ihl /\ (AtRoute => len >= 7)
      BY <1>4 DEF PassOption, AtOption, AtRoute
    <3>2. len \in Nat /\ opt \in Nat /\ next = opt + len
      BY <2>1, <2>2
    <3> HIDE DEF len, next
    <3> QED
      BY <3>1, <3>2
  <2>4. AtRoute => Slice(buf, next - 4, next) \in Seq(Byte)
    <3> HIDE DEF next
    <3> SUFFICES ASSUME AtRoute PROVE Slice(buf, next - 4, next) \in Seq(Byte)
      OBVIOUS
    <3>1. next - 4 \in Nat /\ next - 4 <= next /\ next <= End
      BY <2>1, <2>3, Shape
    <3> QED
      BY <3>1, <2>1, <2>3, SliceType
  <2>5. dst' \in Seq(Byte)
    BY <1>4, <2>4 DEF PassOption, TypeOK
  <2>6. opt' \in Nat
    BY <1>4, <2>3, Shape DEF PassOption
  <2> QED
    BY <1>4, <1>0, <2>5, <2>6 DEF PassOption, sums, TypeOK, PCs
<1>5. CASE Transport
  <2> DEFINE segment == Slice(buf, packet.l4, End)
             length == End - packet.l4
             wide == Word(length \div 65536) \o Word(length)
             pseudo == Slice(buf, 12, 16) \o dst \o Word(packet.proto) \o Word(length)
             src == Slice(buf, 8, 24)
  <2>1. buf \in inside /\ length \in Nat /\ End \in Int
    <3>1. buf \in inside
      BY <1>5, Shape DEF Transport
    <3>2. End \in Nat /\ packet.l4 \in Nat /\ packet.l4 <= End
      BY Shape
    <3> QED
      BY <3>1, <3>2
  <2>2. segment \in Seq(Byte)
    <3>1. packet.l4 <= End /\ packet.l4 \in Nat /\ End \in Nat
      BY Shape
    <3> QED
      BY <2>1, <3>1, SliceType
  <2>3. packet.ipv6 => src \in Seq(Byte)
    <3>1. packet.ipv6 => 24 <= End
      BY Shape
    <3> QED
      BY <2>1, <3>1, SliceType
  <2>4. Slice(buf, 12, 16) \in Seq(Byte) /\ dst \in Seq(Byte)
    <3>1. 16 <= End
      BY Shape
    <3> QED
      BY <2>1, <3>1, SliceType DEF TypeOK
  <2>5. /\ Word(length) \in Seq(Byte) /\ Word(length \div 65536) \in Seq(Byte)
        /\ Word(packet.proto) \in Seq(Byte)
    <3> HIDE DEF length
    <3> DEFINE high == length \div 65536
    <3>1. length \in Nat /\ high \in Nat
      BY <2>1
    <3>2. packet.proto \in Nat
      BY Shape
    <3> HIDE DEF high
    <3>3. Word(length) \in Seq(Byte) /\ Word(high) \in Seq(Byte)
      BY <3>1, WordType
    <3>4. Word(packet.proto) \in Seq(Byte)
      BY <3>2, WordType
    <3> QED
      BY <3>3, <3>4 DEF high
  <2>6. wide \in Seq(Byte) /\ pseudo \in Seq(Byte)
    <3> HIDE DEF length
    <3> QED
      BY <2>4, <2>5
  <2>7. parts' = IF packet.ipv6 THEN <<src, dst, wide, Word(packet.proto), segment>>
                 ELSE <<pseudo, segment>>
    BY <1>5 DEF Transport, Begin
  <2>8. parts' \in Seq(Seq(Byte))
    <3> HIDE DEF segment, length, wide, pseudo, src
    <3>1. packet.ipv6 => <<src, dst, wide, Word(packet.proto), segment>> \in Seq(Seq(Byte))
      BY <2>2, <2>3, <2>4, <2>5, <2>6
    <3>2. <<pseudo, segment>> \in Seq(Seq(Byte))
      BY <2>2, <2>6
    <3> QED
      BY <2>7, <3>1, <3>2
  <2> QED
    BY <1>5, <1>0, <2>8 DEF Transport, Begin, walk, TypeOK, PCs
<1>6. CASE AddWord
  <2>1. NextWord \in Nat
    BY <1>6, NextWordType DEF AddWord, TypeOK
  <2> QED
    BY <1>6, <2>1, <1>0 DEF AddWord, walk, TypeOK
<1>7. CASE FoldSum
  BY <1>7, <1>0, FoldTakes DEF FoldSum, walk, TypeOK
<1>8. CASE EndPart
  BY <1>8, <1>0 DEF EndPart, walk, TypeOK
<1>9. CASE FoldAcc
  BY <1>9, <1>0, FoldTakes DEF FoldAcc, walk, TypeOK
<1>10. CASE WriteChecksum
  <2>1. OnTheWire \in Nat
    BY <1>10 DEF WriteChecksum, OnTheWire, TypeOK
  <2>2. ChecksumAt(packet, field) \in Nat
    BY FieldPlace DEF TypeOK
  <2>3. buf \in inside /\ buf' = Patch(buf, ChecksumAt(packet, field), OnTheWire)
    BY <1>10, Shape DEF WriteChecksum
  <2>4. buf' \in inside
    <3>1. End \in Int
      BY Shape
    <3> QED
      BY <2>1, <2>2, <2>3, <3>1, PatchType
  <2> QED
    BY <1>10, <1>0, <2>1, <2>4 DEF WriteChecksum, walk, TypeOK, PCs
<1>11. CASE UNCHANGED vars
  BY <1>11, <1>0 DEF vars, walk, sums, TypeOK
<1> QED
  BY <1>1, <1>2, <1>3, <1>4, <1>5, <1>6, <1>7, <1>8, <1>9, <1>10, <1>11 DEF Next

LEMMA TypeInit == Init => TypeOK
<1> SUFFICES ASSUME Init PROVE TypeOK
  OBVIOUS
<1>1. buf \in [0..(packet.len - 1) -> Byte]
  BY Numbers DEF Init
<1> QED
  BY <1>1 DEF Init, TypeOK, PCs

\* The bytes of a packet stay bytes, and every range that is summed up lies
\* within what is left of it, whatever the options and lengths claim.
THEOREM TypeCorrect == Spec => []TypeOK
BY TypeInit, TypeStep, PTL DEF Spec

-----------------------------------------------------------------------------
(* Folding.                                                                *)

\* What the sums are when they begin, and between two ranges.
Resets ==
    /\ pc = "cut" => total = 0
    /\ pc = "sum" /\ parts = <<>> => sum = 0

LEMMA FoldingStep ==
    ASSUME TypeOK, Resets, FoldingKeeps, [Next]_vars
    PROVE  Resets' /\ FoldingKeeps'
<1>0. sum \in Nat /\ acc \in Nat /\ total \in Nat
  BY DEF TypeOK
<1>1. CASE Cut
  BY <1>1 DEF Cut, Resets, FoldingKeeps, sums
<1>2. CASE IpHeader
  BY <1>2 DEF IpHeader, Begin, Resets, FoldingKeeps
<1>3. CASE Lengths
  BY <1>3 DEF Lengths, Resets, FoldingKeeps
<1>4. CASE PassOption
  BY <1>4 DEF PassOption, Resets, FoldingKeeps
<1>5. CASE Transport
  BY <1>5 DEF Transport, Begin, Resets, FoldingKeeps
<1>6. CASE AddWord
  <2>1. NextWord \in Nat
    BY <1>6, NextWordType DEF AddWord, TypeOK
  <2>2. total' - acc' - sum' = total - acc - sum
    BY <1>6, <2>1, <1>0 DEF AddWord
  <2> QED
    BY <1>6, <2>2 DEF AddWord, Resets, FoldingKeeps
<1>7. CASE FoldSum
  <2>1. sum - sum' = 65535 * (sum \div 65536) /\ sum' \in Nat
    BY <1>7, <1>0, FoldTakes DEF FoldSum
  <2>2. total' - acc' - sum' = (total - acc - sum) + 65535 * (sum \div 65536)
    BY <1>7, <2>1, <1>0 DEF FoldSum
  <2>3. (total - acc - sum) % 65535 = 0
    BY <1>7 DEF FoldSum, FoldingKeeps
  <2>4. (total' - acc' - sum') % 65535 = 0
    BY <2>2, <2>3, <1>0, Multiples
  <2> QED
    BY <1>7, <2>4 DEF FoldSum, Resets, FoldingKeeps
<1>8. CASE EndPart
  <2>1. total' - acc' - sum' = total - acc - sum /\ sum' = 0
    BY <1>8, <1>0 DEF EndPart
  <2> QED
    BY <1>8, <2>1 DEF EndPart, Resets, FoldingKeeps
<1>9. CASE FoldAcc
  <2>1. acc - acc' = 65535 * (acc \div 65536) /\ acc' \in Nat
    BY <1>9, <1>0, FoldTakes DEF FoldAcc
  <2>2. total' - acc' - sum' = (total - acc - sum) + 65535 * (acc \div 65536)
    BY <1>9, <2>1, <1>0 DEF FoldAcc
  <2>3. (total - acc - sum) % 65535 = 0
    BY <1>9 DEF FoldAcc, FoldingKeeps
  <2>4. (total' - acc' - sum') % 65535 = 0
    BY <2>2, <2>3, <1>0, Multiples
  <2> QED
    BY <1>9, <2>4 DEF FoldAcc, Resets, FoldingKeeps
<1>10. CASE WriteChecksum
  <2>1. (total - acc) % 65535 = 0
    BY <1>10, <1>0 DEF WriteChecksum, Resets, FoldingKeeps
  <2>2. \E k \in Int : total' = (total - acc) + 65535 * k
    <3>1. CASE OnTheWire = 65535 - acc
      <4>1. total' = (total - acc) + 65535 * 1
        BY <1>10, <3>1, <1>0 DEF WriteChecksum
      <4> QED
        BY <4>1
    <3>2. CASE OnTheWire # 65535 - acc
      <4>1. acc = 65535 /\ OnTheWire = 65535
        BY <3>2 DEF OnTheWire
      <4>2. total' = (total - acc) + 65535 * 2
        BY <1>10, <4>1, <1>0 DEF WriteChecksum
      <4> QED
        BY <4>2
    <3> QED
      BY <3>1, <3>2
  <2>3. total' % 65535 = 0
    BY <2>1, <2>2, <1>0, Multiples
  <2> QED
    BY <1>10, <2>3 DEF WriteChecksum, Resets, FoldingKeeps
<1>11. CASE UNCHANGED vars
  BY <1>11 DEF vars, sums, Resets, FoldingKeeps
<1> QED
  BY <1>1, <1>2, <1>3, <1>4, <1>5, <1>6, <1>7, <1>8, <1>9, <1>10, <1>11 DEF Next

\* Whatever the bytes, a checksum and the words that it was computed from sum
\* up to zero modulo 65535: no carry is lost, and the two forms of zero that
\* a UDP checksum may have are alike.
THEOREM Folding == Spec => []FoldingKeeps
<1>1. Init => Resets /\ FoldingKeeps
  BY DEF Init, Resets, FoldingKeeps
<1>2. TypeOK /\ Resets /\ FoldingKeeps /\ [Next]_vars => Resets' /\ FoldingKeeps'
  BY FoldingStep
<1> QED
  BY <1>1, <1>2, TypeCorrect, PTL DEF Spec

-----------------------------------------------------------------------------
(* The UDP checksum.                                                       *)

\* No packet is left without a UDP checksum, whatever its words sum up to.
THEOREM UdpChecksum == Spec => []UdpChecksumPresent
<1>1. Init => UdpChecksumPresent
  BY DEF Init, UdpChecksumPresent
<1>2. TypeOK /\ UdpChecksumPresent /\ [Next]_vars => UdpChecksumPresent'
  <2> SUFFICES ASSUME TypeOK, UdpChecksumPresent, [Next]_vars PROVE UdpChecksumPresent'
    OBVIOUS
  <2>1. CASE WriteChecksum /\ field = "l4" /\ packet.proto = UDP
    <3>1. OnTheWire \in Nat /\ 0 < OnTheWire /\ OnTheWire < 65536
      BY <2>1 DEF WriteChecksum, OnTheWire, TypeOK
    <3>2. packet \in Packets /\ ChecksumAt(packet, "l4") = packet.l4 + 6
      BY <2>1 DEF ChecksumAt, TypeOK, TCP, UDP
    <3>3. buf \in [0..(End - 1) -> Byte] /\ End \in Int /\ packet.l4 + 6 \in Nat
          /\ packet.l4 + 6 + 1 = packet.l4 + 7 /\ packet.l4 + 6 + 1 < End
      <4>1. /\ packet.l4 \in Nat /\ packet.hlen \in Nat /\ packet.hlen >= 8 /\ End \in Nat
            /\ packet.l4 + packet.hlen <= End
        BY Shape
      <4>2. buf \in [0..(End - 1) -> Byte]
        BY <2>1, Shape DEF WriteChecksum
      <4> QED
        BY <4>1, <4>2
    <3>4. buf' = Patch(buf, packet.l4 + 6, OnTheWire) /\ packet' = packet
      BY <2>1, <3>2 DEF WriteChecksum
    <3>5. buf'[packet.l4 + 6] = Hi(OnTheWire) /\ buf'[packet.l4 + 6 + 1] = Lo(OnTheWire)
      BY <3>1, <3>3, <3>4, PatchType
    <3> QED
      BY <3>1, <3>3, <3>4, <3>5, NonZero DEF UdpChecksumPresent
  <2>2. CASE WriteChecksum /\ ~(field = "l4" /\ packet.proto = UDP)
    BY <2>2 DEF WriteChecksum, UdpChecksumPresent, TypeOK
  <2>3. CASE Next /\ ~WriteChecksum
    BY <2>3 DEF Next, Cut, IpHeader, Lengths, PassOption, Transport, Begin, AddWord, FoldSum,
                EndPart, FoldAcc, UdpChecksumPresent
  <2>4. CASE UNCHANGED vars
    BY <2>4 DEF vars, UdpChecksumPresent
  <2> QED
    BY <2>1, <2>2, <2>3, <2>4
<1> QED
  BY <1>1, <1>2, TypeCorrect, PTL DEF Spec

-----------------------------------------------------------------------------
(* What is left alone.                                                     *)

\* A checksum of the IP header is computed for IPv4 only.
OnlyIpv4 ==
    /\ pc = "header" \/ (pc = "sum" /\ field = "ip") => ~packet.ipv6
    /\ pc = "route" => field = "l4"

LEMMA RewrittenHas ==
    ASSUME NEW p \in Packets
    PROVE  /\ {ChecksumAt(p, "l4"), ChecksumAt(p, "l4") + 1} \subseteq Rewritten(p)
           /\ p.ipv6 => {4, 5} \subseteq Rewritten(p)
           /\ ~p.ipv6 => {2, 3, 10, 11} \subseteq Rewritten(p)
           /\ p.proto = UDP => {p.l4 + 4, p.l4 + 4 + 1} \subseteq Rewritten(p)
<1> DEFINE starts == {ChecksumAt(p, "l4")} \union (IF p.ipv6 THEN {4} ELSE {2, ChecksumAt(p, "ip")})
                        \union (IF p.proto = UDP THEN {p.l4 + 4} ELSE {})
<1>1. \A k \in starts : {k, k + 1} \subseteq Rewritten(p)
  BY DEF Rewritten
<1>2. /\ ChecksumAt(p, "l4") \in starts
      /\ p.ipv6 => 4 \in starts
      /\ ~p.ipv6 => 2 \in starts /\ 10 \in starts
      /\ p.proto = UDP => p.l4 + 4 \in starts
  BY DEF ChecksumAt
<1> HIDE DEF starts
<1> QED
  BY <1>1, <1>2

\* A field that is among the rewritten ones may be patched.
LEMMA PatchKeeps ==
    ASSUME TypeOK, NEW b \in [0..(End - 1) -> Byte], NEW at \in Nat, NEW v \in Nat,
           {at, at + 1} \subseteq Rewritten(packet),
           \A k \in DOMAIN b \ Rewritten(packet) : b[k] = packet.buf[k]
    PROVE  /\ Patch(b, at, v) \in [0..(End - 1) -> Byte]
           /\ \A k \in DOMAIN Patch(b, at, v) \ Rewritten(packet) :
                 Patch(b, at, v)[k] = packet.buf[k]
<1>1. End \in Int
  BY Shape
<1>2. /\ DOMAIN Patch(b, at, v) = DOMAIN b
      /\ \A k \in DOMAIN b \ {at, at + 1} : Patch(b, at, v)[k] = b[k]
      /\ Patch(b, at, v) \in [0..(End - 1) -> Byte]
  BY <1>1, PatchType
<1> QED
  BY <1>2

\* Headers, options and what is left of the payload are those of the capture,
\* in every packet.
THEOREM Others == Spec => []OthersKept
<1>1. Init => OnlyIpv4 /\ OthersKept
  BY DEF Init, OnlyIpv4, OthersKept
<1>2. TypeOK /\ OnlyIpv4 /\ OthersKept /\ [Next]_vars => OnlyIpv4' /\ OthersKept'
  <2> SUFFICES ASSUME TypeOK, OnlyIpv4, OthersKept, [Next]_vars PROVE OnlyIpv4' /\ OthersKept'
    OBVIOUS
  <2>0. packet \in Packets
    BY DEF TypeOK
  <2>1. CASE Cut
    <3>1. CASE pc' = "kept"
      BY <2>1, <3>1 DEF Cut, OnlyIpv4, OthersKept
    <3>2. CASE pc' # "kept"
      <4> DEFINE rest == [k \in 0..(End - 1) |-> buf[k]]
      <4>1. End < packet.len /\ packet.len \in Nat /\ End \in Nat
        BY <2>1, <3>2, Shape, Numbers DEF Cut
      <4>2. buf \in [0..(packet.len - 1) -> Byte]
        BY <2>1 DEF Cut, TypeOK
      <4>3. rest \in [0..(End - 1) -> Byte]
        BY <4>1, <4>2
      <4>4. \A k \in DOMAIN rest \ Rewritten(packet) : rest[k] = packet.buf[k]
        BY <4>1, <4>2 DEF OthersKept
      <4>5. \/ packet.ipv6 /\ buf' = Patch(rest, 4, End - packet.ihl) /\ pc' = "lengths"
            \/ ~packet.ipv6 /\ buf' = Patch(rest, 2, End) /\ pc' = "header"
        BY <2>1, <3>2, Shape DEF Cut
      <4>6. packet' = packet
        BY <2>1 DEF Cut
      <4>7. End - packet.ihl \in Nat /\ (packet.ipv6 => {4, 4 + 1} \subseteq Rewritten(packet))
            /\ (~packet.ipv6 => {2, 2 + 1} \subseteq Rewritten(packet))
        BY <2>0, Shape, RewrittenHas
      <4> HIDE DEF rest
      <4>8. CASE packet.ipv6
        BY <4>1, <4>3, <4>4, <4>5, <4>6, <4>7, <4>8, PatchKeeps DEF OnlyIpv4, OthersKept
      <4>9. CASE ~packet.ipv6
        BY <4>1, <4>3, <4>4, <4>5, <4>6, <4>7, <4>9, PatchKeeps DEF OnlyIpv4, OthersKept
      <4> QED
        BY <4>8, <4>9
    <3> QED
      BY <3>1, <3>2
  <2>2. CASE IpHeader
    <3>1. ~packet.ipv6 /\ {10, 10 + 1} \subseteq Rewritten(packet)
      BY <2>2, <2>0, RewrittenHas DEF IpHeader, OnlyIpv4
    <3>2. buf \in [0..(End - 1) -> Byte]
      BY <2>2, Shape DEF IpHeader
    <3>3. buf' = Patch(buf, 10, 0) /\ packet' = packet
      BY <2>2 DEF IpHeader
    <3>4. \A k \in DOMAIN buf \ Rewritten(packet) : buf[k] = packet.buf[k]
      BY DEF OthersKept
    <3>5. \A k \in DOMAIN Patch(buf, 10, 0) \ Rewritten(packet) :
             Patch(buf, 10, 0)[k] = packet.buf[k]
      <4>1. 10 \in Nat /\ 0 \in Nat
        OBVIOUS
      <4> QED
        BY <3>1, <3>2, <3>4, <4>1, PatchKeeps
    <3>6. OthersKept'
      BY <3>3, <3>5 DEF OthersKept
    <3>7. pc' = "sum" /\ ~packet'.ipv6
      BY <2>2, <3>1, <3>3 DEF IpHeader, Begin
    <3> QED
      BY <3>6, <3>7 DEF OnlyIpv4
  <2>3. CASE Lengths
    <3> DEFINE sized == IF packet.proto = UDP
                        THEN Patch(buf, packet.l4 + 4, packet.hlen + TRUNCATE_PAYLOAD_BYTES)
                        ELSE buf
    <3>1. buf \in [0..(End - 1) -> Byte]
      BY <2>3, Shape DEF Lengths
    <3>2. /\ sized \in [0..(End - 1) -> Byte]
          /\ \A k \in DOMAIN sized \ Rewritten(packet) : sized[k] = packet.buf[k]
      <4>1. packet.l4 + 4 \in Nat /\ packet.hlen + TRUNCATE_PAYLOAD_BYTES \in Nat
        BY Shape
      <4>2. packet.proto = UDP => {packet.l4 + 4, packet.l4 + 4 + 1} \subseteq Rewritten(packet)
        BY <2>0, RewrittenHas
      <4> QED
        BY <3>1, <4>1, <4>2, PatchKeeps DEF OthersKept
    <3>3. buf' = Patch(sized, ChecksumAt(packet, "l4"), 0) /\ packet' = packet
      BY <2>3 DEF Lengths
    <3>4. OthersKept'
      <4> HIDE DEF sized
      <4>1. /\ ChecksumAt(packet, "l4") \in Nat
            /\ {ChecksumAt(packet, "l4"), ChecksumAt(packet, "l4") + 1} \subseteq Rewritten(packet)
        BY <2>0, FieldPlace, RewrittenHas
      <4>2. 0 \in Nat
        OBVIOUS
      <4> DEFINE place == ChecksumAt(packet, "l4")
      <4> HIDE DEF place
      <4>3. \A k \in DOMAIN Patch(sized, place, 0) \ Rewritten(packet) :
               Patch(sized, place, 0)[k] = packet.buf[k]
        BY <3>2, <4>1, <4>2, PatchKeeps DEF place
      <4> QED
        BY <3>3, <4>3 DEF OthersKept, place
    <3> QED
      BY <2>3, <3>4 DEF Lengths, OnlyIpv4
  <2>4. CASE PassOption
    BY <2>4 DEF PassOption, OnlyIpv4, OthersKept
  <2>5. CASE Transport
    <3>1. field = "l4"
      BY <2>5 DEF Transport, OnlyIpv4
    <3> QED
      BY <2>5, <3>1 DEF Transport, Begin, OnlyIpv4, OthersKept
  <2>6. CASE AddWord \/ FoldSum \/ EndPart \/ FoldAcc
    BY <2>6 DEF AddWord, FoldSum, EndPart, FoldAcc, OnlyIpv4, OthersKept
  <2>7. CASE WriteChecksum
    <3> DEFINE place == ChecksumAt(packet, field)
    <3>1. place \in Nat /\ {place, place + 1} \subseteq Rewritten(packet)
      <4>1. CASE field = "ip"
        <5>1. ~packet.ipv6 /\ place = 10
          BY <2>7, <4>1 DEF WriteChecksum, OnlyIpv4, ChecksumAt
        <5> QED
          BY <5>1, <2>0, RewrittenHas
      <4>2. CASE field = "l4"
        BY <4>2, <2>0, FieldPlace, RewrittenHas
      <4> QED
        BY <4>1, <4>2 DEF TypeOK
    <3>2. OnTheWire \in Nat
      BY <2>7 DEF WriteChecksum, OnTheWire, TypeOK
    <3>3. buf \in [0..(End - 1) -> Byte]
      BY <2>7, Shape DEF WriteChecksum
    <3>4. buf' = Patch(buf, place, OnTheWire) /\ packet' = packet
      BY <2>7 DEF WriteChecksum
    <3>5. OthersKept'
      <4> HIDE DEF place
      <4> QED
        <5>1. \A k \in DOMAIN buf \ Rewritten(packet) : buf[k] = packet.buf[k]
          BY DEF OthersKept
        <5>2. \A k \in DOMAIN Patch(buf, place, OnTheWire) \ Rewritten(packet) :
                 Patch(buf, place, OnTheWire)[k] = packet.buf[k]
          BY <3>1, <3>2, <3>3, <5>1, PatchKeeps
        <5> QED
          BY <3>4, <5>2 DEF OthersKept
    <3> QED
      BY <2>7, <3>5 DEF WriteChecksum, OnlyIpv4
  <2>8. CASE UNCHANGED vars
    BY <2>8 DEF vars, OnlyIpv4, OthersKept
  <2> QED
    BY <2>1, <2>2, <2>3, <2>4, <2>5, <2>6, <2>7, <2>8 DEF Next
<1> QED
  BY <1>1, <1>2, TypeCorrect, PTL DEF Spec
=============================================================================
