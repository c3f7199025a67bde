---------------------------- MODULE StreamProofs ----------------------------
(***************************************************************************)
(* Proofs about Stream.tla, for every capture, buffer size and number of   *)
(* faults.                                                                 *)
(***************************************************************************)
EXTENDS Stream, SequenceTheorems, TLAPS

-----------------------------------------------------------------------------
(* Captures.                                                               *)

LEMMA Layout ==
    ASSUME NEW c \in Captures
    PROVE  /\ Len(c.recs) \in Nat /\ c.magic \in BOOLEAN
           /\ c.end[0] = 24 /\ c.slim[0] = 24
           /\ \A k \in Nat : k <= Len(c.recs) => c.end[k] \in Nat /\ c.slim[k] \in Nat
           /\ \A k \in Nat : k < Len(c.recs) =>
                 /\ c.recs[k + 1].incl \in Nat /\ c.recs[k + 1].out \in Nat
                 /\ c.recs[k + 1].out <= c.recs[k + 1].incl
                 /\ c.end[k + 1] = c.end[k] + 16 + c.recs[k + 1].incl
                 /\ c.slim[k + 1] = c.slim[k] + 16 + c.recs[k + 1].out
           /\ \A j, k \in Nat : j < k /\ k <= Len(c.recs) =>
                 c.end[j] + 16 <= c.end[k] /\ c.slim[j] + 16 <= c.slim[k]
<1>1. IsCapture(c)
  BY ConstantsAssumption
<1> DEFINE incls == [k \in DOMAIN c.recs |-> c.recs[k].incl]
           outs == [k \in DOMAIN c.recs |-> c.recs[k].out]
<1>2. /\ c.recs \in Seq(Record) /\ c.magic \in BOOLEAN
      /\ LaidOut(c.end, incls, c.recs) /\ LaidOut(c.slim, outs, c.recs)
  BY <1>1 DEF IsCapture
<1>3. Len(c.recs) \in Nat /\ DOMAIN c.recs = 1..Len(c.recs)
  BY <1>2
<1>4. \A k \in Nat : k <= Len(c.recs) => c.end[k] \in Nat /\ c.slim[k] \in Nat
  BY <1>2, <1>3 DEF LaidOut
<1>5. ASSUME NEW k \in Nat, k < Len(c.recs)
      PROVE  /\ c.recs[k + 1].incl \in Nat /\ c.recs[k + 1].out \in Nat
             /\ c.recs[k + 1].out <= c.recs[k + 1].incl
             /\ c.end[k + 1] = c.end[k] + 16 + c.recs[k + 1].incl
             /\ c.slim[k + 1] = c.slim[k] + 16 + c.recs[k + 1].out
  <2>1. k + 1 \in 1..Len(c.recs) /\ (k + 1) - 1 = k
    BY <1>3, <1>5
  <2>2. c.recs[k + 1] \in Record
    BY <1>2, <2>1
  <2>3. incls[k + 1] = c.recs[k + 1].incl /\ outs[k + 1] = c.recs[k + 1].out
    BY <1>3, <2>1
  <2>4. /\ c.end[k + 1] = c.end[(k + 1) - 1] + PCAP_REC_HDR_LEN + incls[k + 1]
        /\ c.slim[k + 1] = c.slim[(k + 1) - 1] + PCAP_REC_HDR_LEN + outs[k + 1]
    BY <1>2, <2>1 DEF LaidOut
  <2> QED
    BY <2>1, <2>2, <2>3, <2>4 DEF Record, PCAP_REC_HDR_LEN
<1>6. \A j, k \in Nat : j < k /\ k <= Len(c.recs) =>
         c.end[j] + 16 <= c.end[k] /\ c.slim[j] + 16 <= c.slim[k]
  <2> SUFFICES ASSUME NEW j \in Nat, NEW k \in Nat, j < k, k <= Len(c.recs)
               PROVE  c.end[j] + 16 <= c.end[k] /\ c.slim[j] + 16 <= c.slim[k]
    OBVIOUS
  <2>1. j \in 0..Len(c.recs) /\ k \in 0..Len(c.recs)
    BY <1>3
  <2> QED
    BY <1>2, <2>1 DEF LaidOut, PCAP_REC_HDR_LEN
<1>7. c.end[0] = 24 /\ c.slim[0] = 24
  BY <1>2 DEF LaidOut, PCAP_HDR_LEN
<1> QED
  BY <1>2, <1>3, <1>4, <1>5, <1>6, <1>7

\* The slimmed form of the first n records of capture c.
SlimOf(c, n) ==
    [i \in 1..(n + 1) |-> IF i = 1 THEN Header
                          ELSE LET out == c.recs[i - 1].out IN Piece(i - 1, out, out)]

LEMMA SlimOfFacts ==
    ASSUME NEW c \in Captures, NEW n \in Nat, n <= Len(c.recs)
    PROVE  /\ SlimOf(c, n) \in Seq(PieceType)
           /\ Len(SlimOf(c, n)) = n + 1
           /\ SlimOf(c, 0) = <<Header>>
           /\ \A k \in Nat : k < n => SlimOf(c, n)[k + 2].incl = c.recs[k + 1].out
<1>1. \A i \in 1..(n + 1) : i # 1 => c.recs[i - 1].out \in Nat
  <2> SUFFICES ASSUME NEW i \in 1..(n + 1), i # 1 PROVE c.recs[i - 1].out \in Nat
    OBVIOUS
  <2>1. i - 2 \in Nat /\ i - 2 < Len(c.recs) /\ (i - 2) + 1 = i - 1
    BY Layout
  <2> QED
    BY <2>1, Layout
<1>2. \A i \in 1..(n + 1) : SlimOf(c, n)[i] \in PieceType
  <2> SUFFICES ASSUME NEW i \in 1..(n + 1) PROVE SlimOf(c, n)[i] \in PieceType
    OBVIOUS
  <2>1. CASE i = 1
    BY <2>1 DEF SlimOf, Header, PieceType, PCAP_HDR_LEN
  <2>2. CASE i # 1
    <3> DEFINE out == c.recs[i - 1].out
    <3>1. out \in Nat /\ i - 1 \in Nat /\ SlimOf(c, n)[i] = Piece(i - 1, out, out)
      BY <1>1, <2>2 DEF SlimOf
    <3> HIDE DEF out
    <3> QED
      BY <3>1 DEF Piece, PieceType, PCAP_REC_HDR_LEN
  <2> QED
    BY <2>1, <2>2
<1>3. SlimOf(c, n) \in [1..(n + 1) -> PieceType]
  BY <1>2 DEF SlimOf
<1>4. SlimOf(c, 0) = <<Header>>
  BY DEF SlimOf
<1>5. \A k \in Nat : k < n => SlimOf(c, n)[k + 2].incl = c.recs[k + 1].out
  BY DEF SlimOf, Piece
<1>6. SlimOf(c, n) \in Seq(PieceType) /\ Len(SlimOf(c, n)) = n + 1
  <2> DEFINE s == SlimOf(c, n)
             m == n + 1
  <2>1. m \in Nat
    OBVIOUS
  <2>2. s \in [1..m -> PieceType]
    BY <1>3
  <2> HIDE DEF s, m
  <2>3. s \in Seq(PieceType) /\ Len(s) = m
    BY <2>1, <2>2
  <2> QED
    BY <2>3 DEF s, m
<1> QED
  BY <1>4, <1>5, <1>6

LEMMA Extends ==
    ASSUME NEW c \in Captures, NEW n \in Nat, n < Len(c.recs)
    PROVE  LET out == c.recs[n + 1].out
           IN SlimOf(c, n) \o <<Piece(n + 1, out, out)>> = SlimOf(c, n + 1)
<1> DEFINE out == c.recs[n + 1].out
           piece == Piece(n + 1, out, out)
           short == SlimOf(c, n)
           long == SlimOf(c, n + 1)
<1>1. /\ short \in Seq(PieceType) /\ Len(short) = n + 1
      /\ long \in Seq(PieceType) /\ Len(long) = n + 2
  BY Layout, SlimOfFacts
<1>2. piece \in PieceType
  BY Layout DEF Piece, PieceType, PCAP_REC_HDR_LEN
<1>3. \A i \in 1..(n + 1) : long[i] = short[i]
  BY DEF SlimOf
<1>4. long[n + 2] = piece
  BY DEF SlimOf
<1> HIDE DEF short, long, piece
<1>5. /\ short \o <<piece>> \in Seq(PieceType) /\ Len(short \o <<piece>>) = n + 2
      /\ \A i \in 1..(n + 2) :
            (short \o <<piece>>)[i] = IF i <= n + 1 THEN short[i] ELSE piece
  BY <1>1, <1>2
<1>6. \A i \in 1..Len(long) : (short \o <<piece>>)[i] = long[i]
  BY <1>1, <1>3, <1>4, <1>5
<1>7. short \o <<piece>> = long
  BY <1>1, <1>5, <1>6, SeqEqual
<1> QED
  BY <1>7 DEF short, long, piece

-----------------------------------------------------------------------------
(* Chunks.                                                                 *)

\* A chunk that has pieces has bytes.
Solid(chunk) == chunk.len = 0 => chunk.pieces = <<>>

LEMMA JoinFacts ==
    ASSUME NEW a \in Chunk, NEW b \in Chunk
    PROVE  /\ Join(a, b) \in Chunk
           /\ Join(a, b).pieces = a.pieces \o b.pieces
           /\ Join(a, b).len = a.len + b.len
           /\ Solid(a) /\ Solid(b) => Solid(Join(a, b))
BY DEF Chunk, Join, Solid

LEMMA EmptyFacts ==
    /\ Empty \in Chunk /\ Solid(Empty) /\ Empty.pieces = <<>> /\ Empty.len = 0
    /\ One(Header) \in Chunk /\ Solid(One(Header))
    /\ One(Header).pieces = <<Header>> /\ One(Header).len = 24
BY DEF Empty, Chunk, Solid, One, Header, PieceType, PCAP_HDR_LEN

LEMMA PieceFacts ==
    ASSUME NEW k \in Nat, NEW n \in Nat
    PROVE  /\ One(Piece(k, n, n)) \in Chunk /\ Solid(One(Piece(k, n, n)))
           /\ One(Piece(k, n, n)).pieces = <<Piece(k, n, n)>>
           /\ One(Piece(k, n, n)).len = 16 + n
BY DEF Chunk, Solid, One, Piece, PieceType, PCAP_REC_HDR_LEN

LEMMA Concat ==
    ASSUME NEW s \in Seq(PieceType), NEW t \in Seq(PieceType), NEW u \in Seq(PieceType)
    PROVE  /\ s \o t \in Seq(PieceType)
           /\ (s \o t) \o u = s \o (t \o u)
           /\ s \o <<>> = s /\ <<>> \o s = s
<1>1. s \o t \in Seq(PieceType)
  BY ConcatProperties
<1>2. (s \o t) \o u = s \o (t \o u)
  BY ConcatAssociative
<1>3. s \o <<>> = s /\ <<>> \o s = s
  BY ConcatEmptySeq
<1> QED
  BY <1>1, <1>2, <1>3

\* However the BufWriter stores it, a chunk comes after what came before it.
LEMMA WriteAllKeeps ==
    ASSUME NEW chunk \in Chunk, tmp \in Chunk, buf \in Chunk, Solid(buf), Solid(chunk),
           WriteAll(chunk)
    PROVE  /\ tmp' \in Chunk /\ buf' \in Chunk /\ Solid(buf')
           /\ tmp'.pieces \o buf'.pieces = (tmp.pieces \o buf.pieces) \o chunk.pieces
           /\ tmp'.len + buf'.len = tmp.len + buf.len + chunk.len
           /\ tmp'.len >= tmp.len
<1> DEFINE t == tmp.pieces
           b == buf.pieces
           c == chunk.pieces
           tb == Join(tmp, buf)
           bc == Join(buf, chunk)
           tc == Join(tmp, chunk)
           tbc == Join(tb, chunk)
           ec == Join(Empty, chunk)
<1>0. /\ t \in Seq(PieceType) /\ b \in Seq(PieceType) /\ c \in Seq(PieceType)
      /\ tmp.len \in Nat /\ buf.len \in Nat /\ chunk.len \in Nat
      /\ <<>> \in Seq(PieceType)
  BY DEF Chunk
<1>1. tb \in Chunk /\ tb.pieces = t \o b /\ tb.len = tmp.len + buf.len
  BY JoinFacts
<1>2. bc \in Chunk /\ bc.pieces = b \o c /\ bc.len = buf.len + chunk.len /\ Solid(bc)
  BY JoinFacts
<1>3. tc \in Chunk /\ tc.pieces = t \o c /\ tc.len = tmp.len + chunk.len
  BY JoinFacts
<1>4. ec \in Chunk /\ ec.pieces = <<>> \o c /\ ec.len = 0 + chunk.len /\ Solid(ec)
  <2>1. Empty \in Chunk /\ Solid(Empty) /\ Empty.pieces = <<>> /\ Empty.len = 0
    BY EmptyFacts
  <2>2. /\ ec \in Chunk /\ ec.pieces = Empty.pieces \o chunk.pieces
        /\ ec.len = Empty.len + chunk.len /\ Solid(ec)
    BY <2>1, JoinFacts
  <2> QED
    BY <2>1, <2>2
<1>5. \/ tmp' = tbc /\ buf' = Empty
      \/ tmp' = tb /\ buf' = ec
      \/ tmp' = tc /\ buf' = buf /\ buf.len = 0
      \/ tmp' = tmp /\ buf' = bc
  <2>1. BufferCap \in Nat
    BY ConstantsAssumption
  <2> HIDE DEF tb, bc, tc, tbc, ec
  <2> QED
    BY <1>0, <2>1 DEF WriteAll, tb, bc, tc, tbc, ec
<1>6. tbc \in Chunk /\ tbc.pieces = tb.pieces \o c /\ tbc.len = tb.len + chunk.len
  <2> HIDE DEF tb
  <2> QED
    BY <1>1, JoinFacts
<1>7. /\ (t \o b) \o c = t \o (b \o c)
      /\ t \o b \in Seq(PieceType) /\ (t \o b) \o c \in Seq(PieceType)
  <2> HIDE DEF t, b, c
  <2>1. t \o b \in Seq(PieceType) /\ (t \o b) \o c = t \o (b \o c)
    <3>1. t \in Seq(PieceType) /\ b \in Seq(PieceType) /\ c \in Seq(PieceType)
      BY <1>0
    <3> QED
      BY ONLY <3>1, Concat
  <2>2. (t \o b) \o c \in Seq(PieceType)
    BY <1>0, <2>1, Concat
  <2> QED
    BY <2>1, <2>2
<1>8. /\ ((t \o b) \o c) \o <<>> = (t \o b) \o c
      /\ <<>> \o c = c
  <2> HIDE DEF t, b, c
  <2> QED
    BY <1>0, <1>7, Concat
<1>9. /\ t \o <<>> = t
      /\ (t \o c) \o <<>> = t \o c
  <2> HIDE DEF t, b, c
  <2>1. t \o c \in Seq(PieceType)
    BY <1>0, Concat
  <2> QED
    BY <1>0, <2>1, Concat
<1> HIDE DEF tb, bc, tc, tbc, ec, t, b, c
<1>10. CASE tmp' = tbc /\ buf' = Empty
  <2>1. /\ tmp'.pieces = (t \o b) \o c /\ buf'.pieces = <<>>
        /\ tmp'.len = tmp.len + buf.len + chunk.len /\ buf'.len = 0
        /\ tmp' \in Chunk /\ buf' \in Chunk /\ Solid(buf')
    BY <1>0, <1>1, <1>6, <1>10, EmptyFacts
  <2> QED
    BY <1>0, <1>8, <2>1 DEF t, b, c
<1>11. CASE tmp' = tb /\ buf' = ec
  <2>1. /\ tmp'.pieces = t \o b /\ buf'.pieces = c
        /\ tmp'.len = tmp.len + buf.len /\ buf'.len = chunk.len
        /\ tmp' \in Chunk /\ buf' \in Chunk /\ Solid(buf')
    BY <1>0, <1>1, <1>4, <1>8, <1>11
  <2> QED
    BY <1>0, <2>1 DEF t, b, c
<1>12. CASE tmp' = tc /\ buf' = buf /\ buf.len = 0
  <2>1. b = <<>>
    BY <1>12 DEF Solid, b
  <2>2. /\ tmp'.pieces \o buf'.pieces = (t \o b) \o c
        /\ tmp'.len = tmp.len + chunk.len
        /\ tmp' \in Chunk /\ buf' \in Chunk /\ Solid(buf')
    BY <1>3, <1>9, <1>12, <2>1 DEF b
  <2> QED
    BY <1>0, <1>12, <2>2 DEF t, b, c
<1>13. CASE tmp' = tmp /\ buf' = bc
  <2>1. /\ tmp'.pieces = t /\ buf'.pieces = b \o c
        /\ tmp'.len = tmp.len /\ buf'.len = buf.len + chunk.len
        /\ tmp' \in Chunk /\ buf' \in Chunk /\ Solid(buf')
    BY <1>0, <1>2, <1>13 DEF t
  <2> QED
    BY <1>0, <1>7, <2>1 DEF t, b, c
<1> QED
  BY <1>5, <1>10, <1>11, <1>12, <1>13
-----------------------------------------------------------------------------
(* The inductive invariant.                                                *)

N == Len(capture.recs)

\* What a pass has not come to is as it was.
Fresh ==
    /\ pc = "open" => view = Growing
    /\ pc \in {"open", "header"} => at = 0 /\ off = 0 /\ remaining = 0 /\ charged[pass] = 0
    /\ pass # "count" => stats["count"] = NoStats /\ charged["count"] = 0
    /\ pass # "count" \/ pc # "over" => outcome["count"] = "none"
    /\ pass = "check" \/ (pass = "slim" /\ pc \in {"open", "header"}) =>
          /\ batch = Empty /\ buf = Empty /\ tmp = Empty
          /\ stats["slim"] = NoStats /\ charged["slim"] = 0
    /\ pass = "check" \/ (pass = "slim" /\ pc # "over") => outcome["slim"] = "none"
    /\ outcome["slim"] # "ok" => cut = 0

\* What the pass can see of its file.
Seen ==
    /\ size <= capture.end[N]
    /\ pass # "count" /\ view # Growing => view <= capture.end[N]
    /\ pass = "count" => view \in {Growing, cut}
    /\ pass = "slim" /\ pc \in {"header", "record", "body", "write"} /\ due > 0 =>
          capture.end[due - 1] + 16 <= Extent

\* A pass has not taken more of its file than there is.
NotPast == off <= Extent

\* Where a pass over the source is.
Reading ==
    pass # "count" =>
       /\ pc = "record" => off = capture.end[at]
       /\ pc = "body" => /\ at < N
                         /\ off = capture.end[at] + 16
                         /\ remaining = capture.recs[at + 1].incl
       /\ pc = "write" => pass = "slim" /\ at < N /\ off = capture.end[at + 1]
       /\ pc = "sync" => /\ pass = "slim"
                         /\ capture.end[at] <= off /\ off < capture.end[at] + 16
       /\ pass = "check" /\ pc \in {"record", "body"} => charged["check"] = off

\* Where the records are that have been slimmed.
Writing ==
    pass = "slim" /\ pc \in {"record", "body", "write", "sync"} =>
       /\ capture.magic
       /\ (tmp.pieces \o buf.pieces) \o batch.pieces = SlimOf(capture, at)
       /\ tmp.len + buf.len + batch.len = capture.slim[at]
       /\ stats["slim"].in_pkts = IF pc = "write" THEN at + 1 ELSE at
       /\ stats["slim"].in_pkts = stats["slim"].truncated + stats["slim"].kept
       /\ charged["slim"] =
             (IF pc = "sync" THEN capture.end[at] ELSE off) + tmp.len + buf.len
       /\ Solid(buf) /\ Solid(batch)
       /\ pc = "sync" => /\ batch.pieces = <<>> /\ batch.len = 0
                        /\ due <= at /\ unflushed = 0

\* What a slim has left that returned Ok.
Done ==
    outcome["slim"] = "ok" =>
       /\ capture.magic
       /\ stats["slim"].in_pkts <= N
       /\ due <= stats["slim"].in_pkts
       /\ tmp.pieces = SlimOf(capture, stats["slim"].in_pkts)
       /\ tmp.len = capture.slim[stats["slim"].in_pkts]
       /\ stats["slim"].out_bytes = tmp.len
       /\ stats["slim"].in_pkts = stats["slim"].truncated + stats["slim"].kept
       /\ faults = 0 => cut = tmp.len

\* Where the count of its packets is.
Counting ==
    pass = "count" =>
       /\ outcome["slim"] = "ok"
       /\ pc \notin {"write", "sync"}
       /\ pc \in {"open", "header"} => stats["count"].in_pkts = 0
       /\ pc \in {"record", "body"} => stats["count"].in_pkts = at /\ off <= cut
       /\ pc = "record" => /\ at <= stats["slim"].in_pkts
                           /\ off = capture.slim[at]
                           /\ charged["count"] = off
       /\ pc = "body" => /\ at < stats["slim"].in_pkts
                         /\ off + remaining = capture.slim[at + 1]
                         /\ charged["count"] = capture.slim[at] + 16

IInv ==
    /\ TypeOK
    /\ Fresh
    /\ Seen
    /\ NotPast
    /\ Reading
    /\ Writing
    /\ Done
    /\ Counting
    /\ VerifiedMeansComplete
    /\ NoFalseAlarm
    /\ AccountedInFull

USE DEF PCAP_HDR_LEN, PCAP_REC_HDR_LEN, Growing, Passes, PCs

LEMMA Types ==
    ASSUME TypeOK
    PROVE  /\ capture \in Captures /\ N \in Nat /\ capture.end[N] \in Nat
           /\ size \in Nat /\ off \in Nat /\ remaining \in Nat /\ cut \in Nat
           /\ unflushed \in Nat /\ faults \in Nat /\ MaxFaults \in Nat
           /\ at \in Nat /\ at <= N /\ due \in Nat /\ due <= N
           /\ due > 0 => due - 1 \in Nat /\ capture.end[due - 1] \in Nat
           /\ tmp \in Chunk /\ buf \in Chunk /\ batch \in Chunk
           /\ tmp.len \in Nat /\ buf.len \in Nat /\ batch.len \in Nat
           /\ cut <= tmp.len /\ faults <= MaxFaults
           /\ Extent \in Nat
<1>1. capture \in Captures /\ N \in Nat /\ capture.end[N] \in Nat
  <2>1. capture \in Captures
    BY DEF TypeOK
  <2>2. Len(capture.recs) \in Nat /\ Len(capture.recs) <= Len(capture.recs)
    BY <2>1, Layout
  <2> QED
    BY <2>1, <2>2, Layout DEF N
<1>2. /\ at \in Nat /\ at <= N /\ due \in Nat /\ due <= N
      /\ size \in Nat /\ off \in Nat /\ remaining \in Nat /\ unflushed \in Nat
  BY <1>1 DEF TypeOK, N
<1>3. tmp \in Chunk /\ buf \in Chunk /\ batch \in Chunk
  BY DEF TypeOK
<1>4. tmp.len \in Nat /\ buf.len \in Nat /\ batch.len \in Nat
  BY <1>3 DEF Chunk
<1>5. cut \in Nat /\ cut <= tmp.len
  BY <1>4 DEF TypeOK
<1>6. MaxFaults \in Nat /\ faults \in Nat /\ faults <= MaxFaults
  BY ConstantsAssumption DEF TypeOK
<1>7. Extent \in Nat
  BY <1>2, <1>5 DEF TypeOK, Extent
<1>8. due > 0 => due - 1 \in Nat /\ capture.end[due - 1] \in Nat
  <2> SUFFICES ASSUME due > 0 PROVE due - 1 \in Nat /\ capture.end[due - 1] \in Nat
    OBVIOUS
  <2>1. due - 1 \in Nat /\ due - 1 <= N
    BY <1>1, <1>2
  <2> QED
    BY <1>1, <2>1, Layout DEF N
<1> QED
  BY <1>1, <1>2, <1>3, <1>4, <1>5, <1>6, <1>7, <1>8

LEMMA Initially == Init => IInv
<1> SUFFICES ASSUME Init PROVE IInv
  OBVIOUS
<1>1. capture \in Captures /\ N \in Nat /\ capture.end[N] \in Nat
  BY Layout DEF Init, N
<1>2. TypeOK
  <2>1. Empty \in Chunk /\ Empty.len = 0
    BY EmptyFacts
  <2>2. NoStats \in [in_pkts : Nat, truncated : Nat, kept : Nat, out_bytes : Nat]
    BY DEF NoStats
  <2>3. size \in Nat /\ MaxFaults \in Nat
    BY ConstantsAssumption DEF Init
  <2> QED
    BY <1>1, <2>1, <2>2, <2>3 DEF Init, TypeOK, N
<1>3. Fresh /\ Seen /\ Reading /\ Writing /\ Done /\ Counting
  BY <1>1 DEF Init, Fresh, Seen, Reading, Writing, Done, Counting, N
<1>4. VerifiedMeansComplete /\ NoFalseAlarm /\ AccountedInFull
  BY DEF Init, VerifiedMeansComplete, NoFalseAlarm, AccountedInFull
<1>5. NotPast
  BY <1>1, ConstantsAssumption DEF Init, NotPast, Extent
<1> QED
  BY <1>2, <1>3, <1>4, <1>5 DEF IInv

LEMMA GrowKeeps == IInv /\ Grow => IInv'
<1> SUFFICES ASSUME IInv, Grow PROVE IInv'
  OBVIOUS
<1>1. /\ size \in Nat /\ size' \in Nat /\ size < size' /\ size' <= capture.end[N]
      /\ capture.end[N] \in Nat
  BY ConstantsAssumption, Types DEF IInv, Grow, N
<1>2. /\ UNCHANGED <<capture, pass, pc, reader, writer, stats, outcome, limits, due, faults>>
      /\ still' \in BOOLEAN
  BY DEF Grow, IInv, TypeOK, Here
<1>3. TypeOK'
  BY <1>1, <1>2 DEF IInv, TypeOK, reader, writer, limits
<1>4. Fresh' /\ Reading' /\ Done'
  BY <1>2 DEF IInv, Fresh, Reading, Done, reader, writer, limits, N
<1>5. Writing' /\ Counting'
  BY <1>2 DEF IInv, Writing, Counting, reader, writer, limits, N
<1>6. Seen'
  <2>1. pass = "slim" => Extent <= Extent'
    BY <1>1, <1>2 DEF IInv, TypeOK, Extent, reader
  <2>2. Extent \in Nat /\ Extent' \in Nat
    BY <1>1, <1>2, <1>3, Types DEF IInv, Extent, TypeOK, reader, writer
  <2>3. UNCHANGED <<capture, pass, pc, view, cut, due, N>>
    BY <1>2 DEF reader, writer, N
  <2>4. ASSUME pass = "slim", pc \in {"header", "record", "body", "write"}, due > 0
        PROVE  capture.end[due - 1] + 16 <= Extent'
    <3>1. capture.end[due - 1] + 16 <= Extent /\ capture.end[due - 1] \in Nat
      BY <2>4, Types DEF IInv, Seen
    <3> QED
      BY <2>1, <2>2, <2>4, <3>1
  <2> QED
    BY <1>1, <2>3, <2>4 DEF IInv, Seen
<1>7. VerifiedMeansComplete' /\ NoFalseAlarm' /\ AccountedInFull'
  BY <1>2 DEF IInv, VerifiedMeansComplete, NoFalseAlarm, AccountedInFull, Whole, reader,
              writer, limits
<1>8. NotPast'
  BY <1>1, <1>2, Types DEF IInv, NotPast, Extent, reader, writer
<1> QED
  BY <1>3, <1>4, <1>5, <1>6, <1>7, <1>8 DEF IInv

LEMMA DamageKeeps == IInv /\ Damage => IInv'
<1> SUFFICES ASSUME IInv, Damage PROVE IInv'
  OBVIOUS
<1>1. /\ cut' \in Nat /\ cut' < cut /\ faults \in Nat /\ faults' = faults + 1
      /\ faults' \in 0..MaxFaults
      /\ pass = "count" /\ pc = "open"
  BY ConstantsAssumption DEF IInv, TypeOK, Damage, Fault, Here
<1>2. UNCHANGED <<source, pass, pc, reader, batch, buf, tmp, stats, outcome, limits, due,
                  still>>
  BY DEF Damage
<1>3. TypeOK'
  <2>1. cut' \in 0..tmp.len
    BY <1>1, Types DEF IInv
  <2> QED
    BY <1>1, <1>2, <2>1 DEF IInv, TypeOK, source, reader, limits
<1>4. Fresh' /\ Seen' /\ Reading' /\ Writing' /\ Counting'
  BY <1>1, <1>2 DEF IInv, Fresh, Seen, Reading, Writing, Counting, source, reader, limits, N
<1>5. Done'
  BY <1>1, <1>2 DEF IInv, Done, source, N
<1>6. VerifiedMeansComplete' /\ NoFalseAlarm' /\ AccountedInFull'
  BY <1>1, <1>2 DEF IInv, VerifiedMeansComplete, NoFalseAlarm, AccountedInFull, source,
                    reader, limits, Fresh
<1>7. NotPast'
  BY <1>1, <1>2, <1>3, Types DEF IInv, Fresh, NotPast, Extent, TypeOK, reader
<1> QED
  BY <1>3, <1>4, <1>5, <1>6, <1>7 DEF IInv

\* Nothing but a fault fails the count.
LEMMA FailKeeps ==
    ASSUME IInv, Fail, pc # "over", faults' \in 0..MaxFaults, faults' >= faults,
           UNCHANGED <<source, pass, still>>, pass = "count" => faults' > 0
    PROVE  IInv'
<1>1. /\ pc' = "over" /\ outcome' = [outcome EXCEPT ![pass] = "err"]
      /\ UNCHANGED <<source, pass, reader, cut, stats, limits, due, still>>
      /\ pass # "slim" => UNCHANGED <<tmp, batch, buf>>
  BY DEF Fail, End
<1>2. pass \in Passes /\ outcome \in [Passes -> {"none", "ok", "err"}]
  BY DEF IInv, TypeOK
<1>3. /\ outcome' \in [Passes -> {"none", "ok", "err"}]
      /\ outcome'[pass] = "err"
      /\ \A p \in Passes : p # pass => outcome'[p] = outcome[p]
  BY <1>1, <1>2
<1>4. /\ tmp' \in Chunk /\ batch' \in Chunk /\ buf' \in Chunk
      /\ tmp.len \in Nat /\ tmp'.len \in Nat /\ tmp.len <= tmp'.len
  <2>1. tmp \in Chunk /\ batch \in Chunk /\ buf \in Chunk
    BY DEF IInv, TypeOK
  <2>2. tmp.len \in Nat /\ buf.len \in Nat
    BY <2>1 DEF Chunk
  <2>3. Join(tmp, buf) \in Chunk /\ Join(tmp, buf).len = tmp.len + buf.len
    BY <2>1, JoinFacts
  <2>4. Empty \in Chunk
    BY EmptyFacts
  <2> QED
    BY <2>1, <2>2, <2>3, <2>4 DEF Fail
<1>5. TypeOK'
  <2>1. cut' \in 0..tmp'.len
    BY <1>1, <1>4, Types DEF IInv, reader
  <2> QED
    BY <1>1, <1>3, <1>4, <2>1 DEF IInv, TypeOK, source, reader, limits
<1>6. Fresh' /\ Seen'
  BY <1>1, <1>2, <1>3 DEF IInv, Fresh, Seen, Counting, source, reader, limits, N
<1>7. Reading' /\ Writing' /\ Counting'
  BY <1>1, <1>2, <1>3 DEF IInv, Reading, Writing, Counting, source, reader, N
<1>8. Done'
  <2> SUFFICES ASSUME outcome'["slim"] = "ok" PROVE Done'
    BY DEF Done
  <2>1. pass # "slim" /\ outcome["slim"] = "ok" /\ UNCHANGED tmp
    BY <1>1, <1>2, <1>3
  <2>2. faults' = 0 => faults = 0
    BY Types DEF IInv
  <2> QED
    BY <1>1, <2>1, <2>2 DEF IInv, Done, source, N
<1>9. VerifiedMeansComplete' /\ NoFalseAlarm' /\ AccountedInFull'
  BY <1>1, <1>2, <1>3 DEF IInv, TypeOK, VerifiedMeansComplete, NoFalseAlarm, AccountedInFull,
     Fresh
<1>10. NotPast'
  BY <1>1 DEF IInv, NotPast, Extent, source, reader
<1> QED
  BY <1>5, <1>6, <1>7, <1>8, <1>9, <1>10 DEF IInv

LEMMA Accounted ==
    ASSUME TypeOK, NEW n \in Nat, Account(n) \/ FlushLimits(n)
    PROVE  /\ charged' \in [Passes -> Nat] /\ unflushed' \in Nat
           /\ charged'[pass] = charged[pass] + n /\ charged[pass] \in Nat
           /\ \A p \in Passes : p # pass => charged'[p] = charged[p]
           /\ FlushLimits(n) => unflushed' = 0
<1>1. /\ charged \in [Passes -> Nat] /\ pass \in Passes /\ unflushed \in Nat
      /\ charged' = [charged EXCEPT ![pass] = charged[pass] + n]
      /\ unflushed' \in {0, unflushed + n}
  BY DEF TypeOK, Account, FlushLimits
<1>2. charged[pass] + n \in Nat /\ unflushed + n \in Nat
  BY <1>1
<1> QED
  BY <1>1, <1>2 DEF FlushLimits

LEMMA Ended ==
    ASSUME TypeOK, NEW verdict \in {"none", "ok", "err"}, End(verdict)
    PROVE  /\ pc' = "over"
           /\ outcome' \in [Passes -> {"none", "ok", "err"}]
           /\ outcome'[pass] = verdict
           /\ \A p \in Passes : p # pass => outcome'[p] = outcome[p]
BY DEF TypeOK, End

LEMMA OpenKeeps == IInv /\ Open => IInv'
<1> SUFFICES ASSUME IInv, Open PROVE IInv'
  OBVIOUS
<1>1. /\ pc = "open" /\ pc' = "header"
      /\ UNCHANGED <<source, pass, at, off, remaining, batch, buf, cut, stats, outcome, limits,
                     still, faults>>
      /\ pass # "slim" => UNCHANGED <<tmp, due>>
      /\ pass = "slim" => tmp' = Empty /\ tmp = Empty
  BY DEF Open, IInv, Fresh
<1>2. UNCHANGED tmp
  BY <1>1
<1>3. view' \in Nat \union {Growing} /\ Extent' = IF pass = "count" THEN cut ELSE size
  BY <1>1, Types DEF IInv, Open, Extent, source
<1>4. /\ due' \in 0..N
      /\ pass = "slim" /\ due' > 0 => capture.end[due' - 1] + 16 <= size
  BY <1>1 DEF IInv, TypeOK, Open, IsBegun, N
<1>5. TypeOK'
  BY <1>1, <1>2, <1>3, <1>4 DEF IInv, TypeOK, source, limits, N
<1>6. Fresh'
  BY <1>1, <1>2 DEF IInv, Fresh, source, limits
<1>7. Seen'
  <2>1. view' # Growing => view' = IF pass = "count" THEN cut ELSE size
    BY <1>1 DEF Open
  <2> QED
    BY <1>1, <1>3, <1>4, <2>1 DEF IInv, Seen, Open, source, N
<1>8. Reading' /\ Writing'
  BY <1>1 DEF Reading, Writing
<1>9. Done' /\ Counting'
  <2>1. pass = "slim" => outcome["slim"] = "none"
    BY <1>1 DEF IInv, Fresh
  <2> QED
    BY <1>1, <1>2, <2>1 DEF IInv, Done, Counting, source, limits, N
<1>10. VerifiedMeansComplete' /\ NoFalseAlarm' /\ AccountedInFull'
  BY <1>1, <1>2 DEF IInv, VerifiedMeansComplete, NoFalseAlarm, AccountedInFull
<1>11. NotPast'
  BY <1>1, <1>3, <1>5, Types DEF IInv, Fresh, NotPast, TypeOK
<1> QED
  BY <1>5, <1>6, <1>7, <1>8, <1>9, <1>10, <1>11 DEF IInv

\* What is there to be counted, as long as nothing has failed.
LEMMA WholeCopy ==
    ASSUME IInv, pass = "count"
    PROVE  /\ stats["slim"].in_pkts \in Nat /\ stats["slim"].in_pkts <= N
           /\ Extent = cut /\ capture.magic
           /\ tmp.len = capture.slim[stats["slim"].in_pkts]
           /\ tmp.pieces = SlimOf(capture, stats["slim"].in_pkts)
           /\ 24 <= tmp.len
           /\ faults = 0 => cut = tmp.len
<1> DEFINE n == stats["slim"].in_pkts
<1>1. n \in Nat
  BY DEF IInv, TypeOK
<1>2. /\ n <= N /\ capture.magic /\ tmp.len = capture.slim[n]
      /\ tmp.pieces = SlimOf(capture, n)
      /\ faults = 0 => cut = tmp.len
  BY DEF IInv, Counting, Done
<1>3. Extent = cut
  BY Types DEF IInv, Seen, Extent
<1>4. 24 <= tmp.len
  <2>1. capture \in Captures /\ capture.slim[0] = 24 /\ N \in Nat
    BY Types, Layout DEF IInv
  <2>2. 0 < n => capture.slim[0] + 16 <= capture.slim[n] /\ capture.slim[n] \in Nat
    BY <1>1, <1>2, <2>1, Layout DEF N
  <2> QED
    BY <1>1, <1>2, <2>1, <2>2
<1> QED
  BY <1>1, <1>2, <1>3, <1>4

LEMMA ReadGlobalHeaderKeeps == IInv /\ ReadGlobalHeader => IInv'
<1> SUFFICES ASSUME IInv, ReadGlobalHeader PROVE IInv'
  OBVIOUS
<1>1. pc = "header" /\ UNCHANGED <<source, pass, still, faults>>
  BY DEF ReadGlobalHeader
<1>2. /\ capture \in Captures /\ faults \in Nat /\ N \in Nat /\ Extent \in Nat
      /\ cut \in Nat /\ tmp.len \in Nat /\ faults \in 0..MaxFaults
      /\ at = 0 /\ off = 0 /\ remaining = 0 /\ charged[pass] = 0
  BY <1>1, Types DEF IInv, Fresh
<1>3. CASE ~(Readable(24) /\ capture.magic)
  <2>1. Fail
    BY <1>3 DEF ReadGlobalHeader
  <2>2. pass = "count" => faults > 0
    BY <1>2, <1>3, WholeCopy DEF Readable
  <2> QED
    BY <1>1, <1>2, <2>1, <2>2, FailKeeps
<1>4. CASE Readable(24) /\ capture.magic
  <2>1. /\ pc' = "record" /\ off' = 24
        /\ UNCHANGED <<view, at, remaining, batch, tmp, cut, stats, outcome, due>>
        /\ IF pass = "slim" THEN buf' = One(Header) /\ Account(48)
                            ELSE Account(24) /\ UNCHANGED buf
    BY <1>2, <1>4 DEF ReadGlobalHeader
  <2>2. /\ charged' \in [Passes -> Nat] /\ unflushed' \in Nat
        /\ charged'[pass] = IF pass = "slim" THEN 48 ELSE 24
        /\ \A p \in Passes : p # pass => charged'[p] = charged[p]
    BY <1>2, <2>1, Accounted DEF IInv
  <2>3. capture.end[0] = 24 /\ capture.slim[0] = 24
    BY <1>2, Layout
  <2>4. TypeOK'
    BY <1>1, <2>1, <2>2, EmptyFacts DEF IInv, TypeOK, source
  <2>5. Fresh' /\ Seen'
    BY <1>1, <2>1, <2>2 DEF IInv, Fresh, Seen, Extent, source, TypeOK, N
  <2>6. Reading'
    BY <1>1, <1>2, <2>1, <2>2, <2>3 DEF Reading, source
  <2>7. Writing'
    <3> SUFFICES ASSUME pass = "slim" PROVE Writing'
      BY <1>1 DEF Writing
    <3>1. /\ tmp' = Empty /\ batch' = Empty /\ stats'["slim"] = NoStats
          /\ buf' = One(Header)
      BY <1>1, <2>1 DEF IInv, Fresh
    <3>2. /\ Empty.pieces = <<>> /\ Empty.len = 0 /\ Solid(Empty)
          /\ One(Header).pieces = <<Header>> /\ One(Header).len = 24 /\ Solid(One(Header))
      BY EmptyFacts
    <3>3. (<<>> \o <<Header>>) \o <<>> = SlimOf(capture, 0)
      <4>1. Header \in PieceType
        BY DEF Header, PieceType
      <4>2. <<Header>> \in Seq(PieceType) /\ <<>> \in Seq(PieceType)
        BY <4>1
      <4>3. <<>> \o <<Header>> = <<Header>> /\ <<Header>> \o <<>> = <<Header>>
        BY <4>2, Concat
      <4> QED
        BY <1>2, <4>3, SlimOfFacts DEF N
    <3> QED
      BY <1>1, <1>2, <1>4, <2>1, <2>2, <2>3, <3>1, <3>2, <3>3 DEF Writing, NoStats, source
  <2>8. Done'
    BY <1>1, <2>1 DEF IInv, Done, Fresh, source, N
  <2>9. Counting'
    BY <1>1, <1>2, <1>4, <2>1, <2>2, <2>3, WholeCopy
       DEF IInv, Counting, Readable, source, TypeOK
  <2>10. VerifiedMeansComplete' /\ NoFalseAlarm' /\ AccountedInFull'
    BY <1>1, <2>1 DEF IInv, VerifiedMeansComplete, NoFalseAlarm, AccountedInFull
  <2>11. NotPast'
    BY <1>1, <1>2, <1>4, <2>1 DEF NotPast, Readable, Extent, source
  <2> QED
    BY <2>4, <2>5, <2>6, <2>7, <2>8, <2>9, <2>10, <2>11 DEF IInv
<1> QED
  BY <1>3, <1>4

LEMMA NextPassKeeps == IInv /\ NextPass => IInv'
<1> SUFFICES ASSUME IInv, NextPass PROVE IInv'
  OBVIOUS
<1>1. /\ pc = "over" /\ pc' = "open"
      /\ view' = Growing /\ at' = 0 /\ off' = 0 /\ remaining' = 0 /\ unflushed' = 0
      /\ UNCHANGED <<source, writer, stats, outcome, charged, due, still, faults>>
      /\ \/ pass = "check" /\ pass' = "slim"
         \/ pass = "slim" /\ outcome["slim"] = "ok" /\ pass' = "count"
  BY DEF NextPass
<1>2. TypeOK'
  BY <1>1, Types DEF IInv, TypeOK, source, writer, N
<1>3. Fresh' /\ Seen'
  BY <1>1 DEF IInv, Fresh, Seen, source, writer, N
<1>4. Reading' /\ Writing' /\ Counting'
  BY <1>1 DEF IInv, Fresh, Reading, Writing, Counting, NoStats
<1>5. Done'
  BY <1>1 DEF IInv, Done, source, writer, N
<1>6. VerifiedMeansComplete' /\ NoFalseAlarm' /\ AccountedInFull'
  BY <1>1 DEF IInv, VerifiedMeansComplete, NoFalseAlarm, AccountedInFull, writer
<1>7. NotPast'
  BY <1>1, <1>2, Types DEF NotPast, Extent, TypeOK, Growing
<1> QED
  BY <1>2, <1>3, <1>4, <1>5, <1>6, <1>7 DEF IInv

LEMMA Room ==
    ASSUME NEW c \in Captures, NEW n \in Nat, n <= Len(c.recs), NEW k \in Nat, k <= n
    PROVE  /\ c.end[k] \in Nat /\ c.slim[k] \in Nat /\ c.end[n] \in Nat /\ c.slim[n] \in Nat
           /\ c.end[k] + 16 <= c.end[n] => k < n
           /\ c.slim[k] + 16 <= c.slim[n] => k < n
           /\ k < n => c.end[k] + 16 <= c.end[n] /\ c.slim[k] + 16 <= c.slim[n]
<1>1. Len(c.recs) \in Nat /\ k <= Len(c.recs)
  BY Layout
<1>2. c.end[k] \in Nat /\ c.slim[k] \in Nat /\ c.end[n] \in Nat /\ c.slim[n] \in Nat
  BY <1>1, Layout
<1>3. k < n => c.end[k] + 16 <= c.end[n] /\ c.slim[k] + 16 <= c.slim[n]
  BY <1>1, Layout
<1>4. k = n \/ k < n
  OBVIOUS
<1> QED
  BY <1>2, <1>3, <1>4

LEMMA Frame ==
    ASSUME NEW c \in Captures, NEW k \in Nat, k < Len(c.recs)
    PROVE  /\ c.recs[k + 1].incl \in Nat /\ c.recs[k + 1].out \in Nat
           /\ c.end[k] \in Nat /\ c.end[k + 1] = c.end[k] + 16 + c.recs[k + 1].incl
           /\ c.slim[k] \in Nat /\ c.slim[k + 1] = c.slim[k] + 16 + c.recs[k + 1].out
<1>1. Len(c.recs) \in Nat /\ k <= Len(c.recs)
  BY Layout
<1> QED
  BY <1>1, Layout

\* A record whose header can be read is there.
LEMMA HeaderSeen ==
    ASSUME IInv, pc = "record", Readable(16)
    PROVE  /\ pass # "count" => at < N
           /\ pass = "count" => at < stats["slim"].in_pkts
           /\ at < N
<1>1. /\ capture \in Captures /\ at \in Nat /\ at <= N /\ N \in Nat /\ N <= Len(capture.recs)
      /\ size \in Nat /\ Extent \in Nat /\ capture.end[N] \in Nat /\ cut <= tmp.len
      /\ cut \in Nat /\ tmp.len \in Nat
  BY Types DEF IInv, N
<1>2. ASSUME pass # "count" PROVE at < N
  <2>1. Extent <= capture.end[N]
    BY <1>1, <1>2 DEF IInv, Seen, Extent
  <2>2. capture.end[at] + 16 <= Extent /\ capture.end[at] \in Nat
    BY <1>1, <1>2, Room DEF IInv, Reading, Readable
  <2>3. capture.end[at] + 16 <= capture.end[N]
    BY <1>1, <2>1, <2>2
  <2> QED
    BY <1>1, <2>3, Room
<1>3. ASSUME pass = "count" PROVE at < stats["slim"].in_pkts /\ at < N
  <2> DEFINE n == stats["slim"].in_pkts
  <2>1. n \in Nat /\ n <= N /\ tmp.len = capture.slim[n] /\ Extent = cut
    BY <1>3, WholeCopy
  <2>2. at <= n /\ capture.slim[at] + 16 <= cut
    BY <1>3, <2>1 DEF IInv, Counting, Readable
  <2> HIDE DEF n
  <2>3. capture.slim[at] \in Nat /\ n <= Len(capture.recs)
    BY <1>1, <2>1, <2>2, Room
  <2>4. capture.slim[at] + 16 <= capture.slim[n]
    BY <1>1, <2>1, <2>2, <2>3
  <2>5. at < n
    BY <1>1, <2>1, <2>2, <2>3, <2>4, Room
  <2> QED
    BY <1>1, <2>1, <2>5 DEF n
<1> QED
  BY <1>2, <1>3

\* The lengths that the headers of the copy state.
LEMMA CopiedLength ==
    ASSUME IInv, pass = "count", at < stats["slim"].in_pkts
    PROVE  NextIncl = capture.recs[at + 1].out
<1>1. /\ stats["slim"].in_pkts \in Nat /\ stats["slim"].in_pkts <= N
      /\ tmp.pieces = SlimOf(capture, stats["slim"].in_pkts)
      /\ capture \in Captures /\ at \in Nat
  BY WholeCopy, Types DEF IInv
<1> QED
  BY <1>1, SlimOfFacts DEF NextIncl, N

LEMMA ReadRecordHeaderKeeps == IInv /\ ReadRecordHeader => IInv'
<1> SUFFICES ASSUME IInv, ReadRecordHeader PROVE IInv'
  OBVIOUS
<1>1. /\ pc = "record" /\ pc' = "body" /\ Readable(16)
      /\ off' = off + 16 /\ remaining' = NextIncl /\ Account(16)
      /\ UNCHANGED <<source, pass, view, at, writer, stats, outcome, due, still, faults>>
  BY DEF ReadRecordHeader
<1>2. /\ capture \in Captures /\ at \in Nat /\ off \in Nat /\ N \in Nat
      /\ pass \in Passes /\ cut \in Nat
  BY Types DEF IInv, TypeOK
<1>3. /\ charged' \in [Passes -> Nat] /\ unflushed' \in Nat
      /\ charged'[pass] = charged[pass] + 16 /\ charged[pass] \in Nat
      /\ \A p \in Passes : p # pass => charged'[p] = charged[p]
  BY <1>1, Accounted DEF IInv
<1>4. at < N /\ (pass = "count" => at < stats["slim"].in_pkts)
  BY <1>1, HeaderSeen
<1>5. /\ capture.recs[at + 1].incl \in Nat /\ capture.recs[at + 1].out \in Nat
      /\ capture.slim[at] \in Nat
      /\ capture.slim[at + 1] = capture.slim[at] + 16 + capture.recs[at + 1].out
  BY <1>2, <1>4, Frame DEF N
<1>6. remaining' = IF pass = "count" THEN capture.recs[at + 1].out
                                     ELSE capture.recs[at + 1].incl
  BY <1>1, <1>4, CopiedLength DEF NextIncl
<1>7. TypeOK'
  <2>1. off' \in Nat /\ remaining' \in Nat
    BY <1>1, <1>2, <1>5, <1>6
  <2> QED
    BY <1>1, <1>3, <2>1 DEF IInv, TypeOK, source, writer
<1>8. Fresh' /\ Seen'
  BY <1>1, <1>2, <1>3 DEF IInv, Fresh, Seen, Extent, source, writer, N
<1>9. Reading'
  BY <1>1, <1>2, <1>3, <1>4, <1>6 DEF IInv, Reading, source, N
<1>10. Writing'
  <2> SUFFICES ASSUME pass = "slim" PROVE Writing'
    BY <1>1 DEF Writing
  <2>1. tmp.len \in Nat /\ buf.len \in Nat
    BY Types DEF IInv
  <2>2. charged'["slim"] = off' + tmp'.len + buf'.len
    <3>1. charged["slim"] = off + tmp.len + buf.len
      BY <1>1 DEF IInv, Writing
    <3>2. UNCHANGED <<tmp, buf>>
      BY <1>1 DEF writer
    <3> QED
      BY <1>1, <1>2, <1>3, <2>1, <3>1, <3>2
  <2> QED
    BY <1>1, <2>2 DEF IInv, Writing, source, writer
<1>11. Done'
  BY <1>1 DEF IInv, Done, source, writer, N
<1>12. Counting'
  <2> SUFFICES ASSUME pass = "count" PROVE Counting'
    BY <1>1 DEF Counting
  <2>1. Extent = cut
    BY WholeCopy
  <2>2. off' <= cut /\ off = capture.slim[at] /\ charged["count"] = off
    BY <1>1, <2>1 DEF IInv, Counting, Readable
  <2> QED
    BY <1>1, <1>2, <1>3, <1>4, <1>5, <1>6, <2>2 DEF IInv, Counting, source, writer
<1>13. VerifiedMeansComplete' /\ NoFalseAlarm' /\ AccountedInFull'
  BY <1>1 DEF IInv, VerifiedMeansComplete, NoFalseAlarm, AccountedInFull, writer
<1>14. NotPast'
  BY <1>1 DEF NotPast, Readable, Extent, source, writer
<1> QED
  BY <1>7, <1>8, <1>9, <1>10, <1>11, <1>12, <1>13, <1>14 DEF IInv

LEMMA CountedFacts ==
    ASSUME TypeOK, NEW n
    PROVE  /\ Counted(n) \in [in_pkts : Nat, truncated : Nat, kept : Nat, out_bytes : Nat]
           /\ Counted(n).in_pkts = stats[pass].in_pkts + 1
           /\ Counted(n).truncated + Counted(n).kept
                 = stats[pass].truncated + stats[pass].kept + 1
           /\ stats[pass].in_pkts \in Nat /\ stats[pass].truncated \in Nat
           /\ stats[pass].kept \in Nat /\ stats[pass].out_bytes \in Nat
<1> DEFINE s == stats[pass]
<1>1. s \in [in_pkts : Nat, truncated : Nat, kept : Nat, out_bytes : Nat]
  BY DEF TypeOK
<1> HIDE DEF s
<1>2. Counted(n) = [s EXCEPT !.in_pkts = s.in_pkts + 1,
                             !.truncated = IF n < remaining THEN s.truncated + 1
                                                            ELSE s.truncated,
                             !.kept = IF n < remaining THEN s.kept ELSE s.kept + 1]
  BY DEF Counted, s
<1>3. /\ s.in_pkts \in Nat /\ s.truncated \in Nat /\ s.kept \in Nat /\ s.out_bytes \in Nat
      /\ Counted(n).in_pkts = s.in_pkts + 1
      /\ Counted(n).truncated = IF n < remaining THEN s.truncated + 1 ELSE s.truncated
      /\ Counted(n).kept = IF n < remaining THEN s.kept ELSE s.kept + 1
  BY <1>1, <1>2
<1>4. Counted(n) \in [in_pkts : Nat, truncated : Nat, kept : Nat, out_bytes : Nat]
  <2> DEFINE tr == IF n < remaining THEN s.truncated + 1 ELSE s.truncated
             ke == IF n < remaining THEN s.kept ELSE s.kept + 1
  <2>1. s.in_pkts + 1 \in Nat /\ tr \in Nat /\ ke \in Nat
    BY <1>3
  <2>2. Counted(n) = [s EXCEPT !.in_pkts = s.in_pkts + 1, !.truncated = tr, !.kept = ke]
    BY <1>2
  <2> HIDE DEF tr, ke
  <2> QED
    BY <1>1, <2>1, <2>2
<1>5. Counted(n).truncated + Counted(n).kept = s.truncated + s.kept + 1
  BY <1>3
<1> QED
  BY <1>3, <1>4, <1>5 DEF s

LEMMA AnalyzeKeeps == IInv /\ Analyze => IInv'
<1> SUFFICES ASSUME IInv, Analyze PROVE IInv'
  OBVIOUS
<1> DEFINE n == capture.recs[at + 1].out
<1>1. /\ pass = "check" /\ pc = "body" /\ pc' = "record"
      /\ stats' = [stats EXCEPT !["check"] =
                      [Counted(n) EXCEPT !.out_bytes = Counted(n).out_bytes + 16 + n]]
      /\ Readable(remaining)
      /\ off' = off + remaining /\ remaining' = 0 /\ at' = at + 1 /\ Account(remaining)
      /\ UNCHANGED <<source, pass, view, writer, outcome, due, still, faults>>
  BY DEF Analyze, Here
<1>2. /\ capture \in Captures /\ at \in Nat /\ off \in Nat /\ N \in Nat /\ remaining \in Nat
      /\ at < N /\ off = capture.end[at] + 16 /\ remaining = capture.recs[at + 1].incl
      /\ charged["check"] = off
  BY <1>1, Types DEF IInv, Reading
<1>3. /\ charged' \in [Passes -> Nat] /\ unflushed' \in Nat
      /\ charged'[pass] = charged[pass] + remaining
      /\ \A p \in Passes : p # pass => charged'[p] = charged[p]
  BY <1>1, <1>2, Accounted DEF IInv
<1>4. /\ n \in Nat /\ capture.end[at] \in Nat
      /\ capture.end[at + 1] = capture.end[at] + 16 + capture.recs[at + 1].incl
  BY <1>2, Frame DEF N
<1> HIDE DEF n
<1>5. /\ stats' \in [Passes -> [in_pkts : Nat, truncated : Nat, kept : Nat, out_bytes : Nat]]
      /\ stats'["slim"] = stats["slim"] /\ stats'["count"] = stats["count"]
  <2> DEFINE s == Counted(n)
  <2>1. s \in [in_pkts : Nat, truncated : Nat, kept : Nat, out_bytes : Nat]
    BY CountedFacts DEF IInv
  <2> HIDE DEF s
  <2>2. [s EXCEPT !.out_bytes = s.out_bytes + 16 + n]
           \in [in_pkts : Nat, truncated : Nat, kept : Nat, out_bytes : Nat]
    BY <1>4, <2>1
  <2> QED
    BY <1>1, <2>2 DEF IInv, TypeOK, s
<1>6. TypeOK'
  <2>1. off' \in Nat /\ remaining' \in Nat /\ at' \in 0..N
    BY <1>1, <1>2
  <2> QED
    BY <1>1, <1>3, <1>5, <2>1 DEF IInv, TypeOK, source, writer, N
<1>7. Fresh' /\ Seen'
  BY <1>1, <1>3, <1>5 DEF IInv, Fresh, Seen, Extent, source, writer, N
<1>8. Reading'
  BY <1>1, <1>2, <1>3, <1>4 DEF Reading, source
<1>9. Writing' /\ Counting'
  BY <1>1 DEF Writing, Counting
<1>10. Done'
  BY <1>1 DEF IInv, Fresh, Done
<1>11. VerifiedMeansComplete' /\ NoFalseAlarm' /\ AccountedInFull'
  BY <1>1 DEF IInv, VerifiedMeansComplete, NoFalseAlarm, AccountedInFull, writer
<1>12. NotPast'
  BY <1>1 DEF NotPast, Readable, Extent, source, writer
<1> QED
  BY <1>6, <1>7, <1>8, <1>9, <1>10, <1>11, <1>12 DEF IInv

LEMMA ReadFrameKeeps == IInv /\ ReadFrame => IInv'
<1> SUFFICES ASSUME IInv, ReadFrame PROVE IInv'
  OBVIOUS
<1> DEFINE n == capture.recs[at + 1].out
           s == Counted(n)
<1>1. /\ pass = "slim" /\ pc = "body" /\ pc' = "write"
      /\ stats' = [stats EXCEPT !["slim"] = s]
      /\ Readable(remaining)
      /\ off' = off + remaining /\ remaining' = 0 /\ Account(remaining)
      /\ UNCHANGED <<source, pass, view, at, writer, outcome, due, still, faults>>
  BY DEF ReadFrame, Here
<1>2. /\ capture \in Captures /\ at \in Nat /\ off \in Nat /\ N \in Nat /\ remaining \in Nat
      /\ at < N /\ off = capture.end[at] + 16 /\ remaining = capture.recs[at + 1].incl
  BY <1>1, Types DEF IInv, Reading
<1>3. /\ charged' \in [Passes -> Nat] /\ unflushed' \in Nat
      /\ charged'[pass] = charged[pass] + remaining /\ charged[pass] \in Nat
      /\ \A p \in Passes : p # pass => charged'[p] = charged[p]
  BY <1>1, <1>2, Accounted DEF IInv
<1>4. /\ capture.end[at] \in Nat
      /\ capture.end[at + 1] = capture.end[at] + 16 + capture.recs[at + 1].incl
  BY <1>2, Frame DEF N
<1>5. /\ s \in [in_pkts : Nat, truncated : Nat, kept : Nat, out_bytes : Nat]
      /\ s.in_pkts = stats["slim"].in_pkts + 1
      /\ s.truncated + s.kept = stats["slim"].truncated + stats["slim"].kept + 1
  BY <1>1, CountedFacts DEF IInv
<1> HIDE DEF n, s
<1>6. /\ stats' \in [Passes -> [in_pkts : Nat, truncated : Nat, kept : Nat, out_bytes : Nat]]
      /\ stats'["slim"] = s /\ stats'["count"] = stats["count"]
  BY <1>1, <1>5 DEF IInv, TypeOK
<1>7. TypeOK'
  <2>1. off' \in Nat /\ remaining' \in Nat
    BY <1>1, <1>2
  <2> QED
    BY <1>1, <1>3, <1>6, <2>1 DEF IInv, TypeOK, source, writer
<1>8. Fresh' /\ Seen'
  BY <1>1, <1>3, <1>6 DEF IInv, Fresh, Seen, Extent, source, writer, N
<1>9. Reading'
  BY <1>1, <1>2, <1>4 DEF Reading, source, N
<1>10. Writing'
  <2>1. tmp.len \in Nat /\ buf.len \in Nat
    BY Types DEF IInv
  <2>2. charged'["slim"] = off' + tmp'.len + buf'.len
    <3>1. charged["slim"] = off + tmp.len + buf.len
      BY <1>1 DEF IInv, Writing
    <3>2. UNCHANGED <<tmp, buf>>
      BY <1>1 DEF writer
    <3> QED
      BY <1>1, <1>2, <1>3, <2>1, <3>1, <3>2
  <2>3. /\ stats'["slim"].in_pkts = at + 1
        /\ stats'["slim"].in_pkts = stats'["slim"].truncated + stats'["slim"].kept
    BY <1>1, <1>5, <1>6 DEF IInv, Writing
  <2> QED
    BY <1>1, <2>2, <2>3 DEF IInv, Writing, source, writer
<1>11. Done' /\ Counting'
  BY <1>1 DEF IInv, Fresh, Done, Counting
<1>12. VerifiedMeansComplete' /\ NoFalseAlarm' /\ AccountedInFull'
  BY <1>1 DEF IInv, VerifiedMeansComplete, NoFalseAlarm, AccountedInFull, writer
<1>13. NotPast'
  BY <1>1 DEF NotPast, Readable, Extent, source, writer
<1> QED
  BY <1>7, <1>8, <1>9, <1>10, <1>11, <1>12, <1>13 DEF IInv

LEMMA SkipFrameKeeps == IInv /\ SkipFrame => IInv'
<1> SUFFICES ASSUME IInv, SkipFrame PROVE IInv'
  OBVIOUS
<1> DEFINE n == Lesser(remaining, SKIP_BUF_CAP)
<1>1. /\ pass = "count" /\ pc = "body" /\ Readable(n)
      /\ off' = off + n /\ remaining' = remaining - n
      /\ UNCHANGED <<source, pass, pc, view, at, writer, stats, outcome, limits, due, still,
                     faults>>
  BY DEF SkipFrame, Here
<1>2. /\ remaining \in Nat /\ off \in Nat /\ n \in Nat /\ n <= remaining
  BY Types, ConstantsAssumption DEF IInv, Lesser
<1> HIDE DEF n
<1>3. off' \in Nat /\ remaining' \in Nat /\ off' + remaining' = off + remaining
  BY <1>1, <1>2
<1>4. off' <= cut
  BY <1>1, WholeCopy DEF Readable
<1>5. TypeOK'
  BY <1>1, <1>3 DEF IInv, TypeOK, source, writer, limits
<1>6. Fresh' /\ Seen'
  BY <1>1 DEF IInv, Fresh, Seen, source, writer, limits, N
<1>7. Reading' /\ Writing'
  BY <1>1 DEF Reading, Writing
<1>8. Done'
  BY <1>1 DEF IInv, Done, source, writer, N
<1>9. Counting'
  BY <1>1, <1>3, <1>4 DEF IInv, Counting, source, writer, limits
<1>10. VerifiedMeansComplete' /\ NoFalseAlarm' /\ AccountedInFull'
  BY <1>1 DEF IInv, VerifiedMeansComplete, NoFalseAlarm, AccountedInFull, writer
<1>11. NotPast'
  BY <1>1 DEF NotPast, Readable, Extent, source, writer
<1> QED
  BY <1>5, <1>6, <1>7, <1>8, <1>9, <1>10, <1>11 DEF IInv

LEMMA CountPacketKeeps == IInv /\ CountPacket => IInv'
<1> SUFFICES ASSUME IInv, CountPacket PROVE IInv'
  OBVIOUS
<1>1. /\ pass = "count" /\ pc = "body" /\ pc' = "record" /\ remaining = 0
      /\ at' = at + 1 /\ stats' = [stats EXCEPT !["count"].in_pkts = @ + 1]
      /\ Account(NextIncl)
      /\ UNCHANGED <<source, pass, view, off, remaining, writer, outcome, due, still, faults>>
  BY DEF CountPacket, Here
<1>2. /\ at < stats["slim"].in_pkts /\ off + remaining = capture.slim[at + 1]
      /\ charged["count"] = capture.slim[at] + 16 /\ off <= cut
      /\ stats["count"].in_pkts = at
  BY <1>1 DEF IInv, Counting
<1>3. /\ capture \in Captures /\ at \in Nat /\ off \in Nat /\ N \in Nat
      /\ stats["slim"].in_pkts \in Nat /\ stats["slim"].in_pkts <= N
  BY <1>1, Types, WholeCopy DEF IInv
<1>4. at < N /\ at + 1 <= stats["slim"].in_pkts
  BY <1>2, <1>3
<1>5. /\ capture.recs[at + 1].out \in Nat /\ capture.slim[at] \in Nat
      /\ capture.slim[at + 1] = capture.slim[at] + 16 + capture.recs[at + 1].out
  BY <1>3, <1>4, Frame DEF N
<1>6. NextIncl = capture.recs[at + 1].out
  BY <1>1, <1>2, CopiedLength
<1>7. /\ charged' \in [Passes -> Nat] /\ unflushed' \in Nat
      /\ charged'[pass] = charged[pass] + NextIncl
      /\ \A p \in Passes : p # pass => charged'[p] = charged[p]
  BY <1>1, <1>5, <1>6, Accounted DEF IInv
<1>8. /\ stats' \in [Passes -> [in_pkts : Nat, truncated : Nat, kept : Nat, out_bytes : Nat]]
      /\ stats'["slim"] = stats["slim"] /\ stats'["count"].in_pkts = at + 1
  <2> DEFINE s == stats["count"]
             next == [s EXCEPT !.in_pkts = at + 1]
  <2>1. s \in [in_pkts : Nat, truncated : Nat, kept : Nat, out_bytes : Nat]
    BY DEF IInv, TypeOK
  <2>2. stats' = [stats EXCEPT !["count"] = next]
    BY <1>1, <1>2
  <2>3. next \in [in_pkts : Nat, truncated : Nat, kept : Nat, out_bytes : Nat]
    <3> HIDE DEF s
    <3> QED
      BY <1>3, <2>1
  <2>4. next.in_pkts = at + 1
    <3> HIDE DEF s
    <3> QED
      BY <2>1
  <2> HIDE DEF next
  <2> QED
    BY <2>2, <2>3, <2>4 DEF IInv, TypeOK
<1>9. TypeOK'
  <2>1. at' \in 0..N
    BY <1>1, <1>3, <1>4
  <2> QED
    BY <1>1, <1>7, <1>8, <2>1 DEF IInv, TypeOK, source, writer, N
<1>10. Fresh' /\ Seen'
  BY <1>1 DEF IInv, Fresh, Seen, source, writer, N
<1>11. Reading' /\ Writing'
  BY <1>1 DEF Reading, Writing
<1>12. Done'
  BY <1>1, <1>8 DEF IInv, Done, source, writer, N
<1>13. Counting'
  BY <1>1, <1>2, <1>3, <1>4, <1>5, <1>6, <1>7, <1>8
     DEF IInv, Counting, source, writer
<1>14. VerifiedMeansComplete' /\ NoFalseAlarm' /\ AccountedInFull'
  BY <1>1 DEF IInv, VerifiedMeansComplete, NoFalseAlarm, AccountedInFull, writer
<1>15. NotPast'
  BY <1>1 DEF IInv, NotPast, Extent, source, writer
<1> QED
  BY <1>9, <1>10, <1>11, <1>12, <1>13, <1>14, <1>15 DEF IInv

LEMMA FrameCutOffKeeps == IInv /\ FrameCutOff => IInv'
<1> SUFFICES ASSUME IInv, FrameCutOff PROVE IInv'
  OBVIOUS
<1>1. /\ pc = "body" /\ Fail /\ UNCHANGED <<source, pass, still, faults>>
      /\ pass = "count" => ~Readable(Lesser(remaining, SKIP_BUF_CAP))
  BY DEF FrameCutOff
<1>2. faults \in Nat /\ faults \in 0..MaxFaults
  BY Types DEF IInv, TypeOK
<1>3. ASSUME pass = "count", faults = 0 PROVE FALSE
  <2> DEFINE n == stats["slim"].in_pkts
  <2>1. /\ n \in Nat /\ n <= N /\ cut = capture.slim[n] /\ Extent = cut
        /\ capture \in Captures /\ at \in Nat /\ N \in Nat /\ cut \in Nat
        /\ off \in Nat /\ remaining \in Nat
    BY <1>3, WholeCopy, Types DEF IInv
  <2>2. at < n /\ off + remaining = capture.slim[at + 1]
    BY <1>1, <1>3 DEF IInv, Counting
  <2> HIDE DEF n
  <2>3. capture.slim[at + 1] <= capture.slim[n]
    <3>1. at + 1 \in Nat /\ at + 1 <= n /\ n <= Len(capture.recs)
      BY <2>1, <2>2 DEF N
    <3>2. /\ capture.slim[at + 1] \in Nat /\ capture.slim[n] \in Nat
          /\ at + 1 < n => capture.slim[at + 1] + 16 <= capture.slim[n]
      BY <2>1, <3>1, Room
    <3> QED
      BY <3>1, <3>2, <2>1
  <2>4. SKIP_BUF_CAP \in Nat
    BY ConstantsAssumption
  <2>5. Readable(Lesser(remaining, SKIP_BUF_CAP))
    BY <2>1, <2>2, <2>3, <2>4 DEF Readable, Lesser
  <2> QED
    BY <1>1, <1>3, <2>5
<1>4. pass = "count" => faults > 0
  BY <1>2, <1>3
<1> QED
  BY <1>1, <1>2, <1>4, FailKeeps

LEMMA WriteRecordKeepsInv == IInv /\ WriteRecord => IInv'
<1> SUFFICES ASSUME IInv, WriteRecord PROVE IInv'
  OBVIOUS
<1> DEFINE out == capture.recs[at + 1].out
           rec == Piece(at + 1, out, out)
           piece == One(rec)
<1>1. /\ pass = "slim" /\ pc = "write" /\ pc' = "record" /\ at' = at + 1
      /\ UNCHANGED <<source, pass, view, off, remaining, cut, stats, outcome, due, still,
                     faults>>
      /\ \/ WriteAll(batch) /\ batch' = piece /\ Account(batch.len)
         \/ batch' = Join(batch, piece) /\ UNCHANGED <<buf, tmp, limits>>
  BY DEF WriteRecord, Here
<1>2. /\ capture \in Captures /\ at \in Nat /\ off \in Nat /\ N \in Nat /\ cut \in Nat
      /\ tmp \in Chunk /\ buf \in Chunk /\ batch \in Chunk
      /\ tmp.len \in Nat /\ buf.len \in Nat /\ batch.len \in Nat /\ cut <= tmp.len
      /\ at < N /\ off = capture.end[at + 1]
  BY <1>1, Types DEF IInv, Reading
<1>3. /\ capture.magic /\ Solid(buf) /\ Solid(batch)
      /\ (tmp.pieces \o buf.pieces) \o batch.pieces = SlimOf(capture, at)
      /\ tmp.len + buf.len + batch.len = capture.slim[at]
      /\ stats["slim"].in_pkts = at + 1
      /\ stats["slim"].in_pkts = stats["slim"].truncated + stats["slim"].kept
      /\ charged["slim"] = off + tmp.len + buf.len
  BY <1>1 DEF IInv, Writing
<1>4. /\ out \in Nat /\ capture.slim[at] \in Nat
      /\ capture.slim[at + 1] = capture.slim[at] + 16 + out
  BY <1>2, Frame DEF N
<1>5. SlimOf(capture, at) \o <<rec>> = SlimOf(capture, at + 1)
  BY <1>2, Extends DEF N
<1> HIDE DEF out
<1>6. /\ piece \in Chunk /\ Solid(piece) /\ piece.pieces = <<rec>> /\ piece.len = 16 + out
  <2>1. at + 1 \in Nat
    BY <1>2
  <2> QED
    BY <1>4, <2>1, PieceFacts
<1> HIDE DEF rec, piece
<1>7. /\ tmp' \in Chunk /\ buf' \in Chunk /\ batch' \in Chunk
      /\ Solid(buf') /\ Solid(batch')
      /\ (tmp'.pieces \o buf'.pieces) \o batch'.pieces = SlimOf(capture, at + 1)
      /\ tmp'.len + buf'.len + batch'.len = capture.slim[at + 1]
      /\ tmp'.len >= tmp.len
      /\ charged' \in [Passes -> Nat] /\ unflushed' \in Nat
      /\ charged'["slim"] = off + tmp'.len + buf'.len
      /\ charged'["count"] = charged["count"] /\ charged'["check"] = charged["check"]
  <2>1. CASE WriteAll(batch) /\ batch' = piece /\ Account(batch.len)
    <3>1. /\ tmp' \in Chunk /\ buf' \in Chunk /\ Solid(buf')
          /\ tmp'.pieces \o buf'.pieces = (tmp.pieces \o buf.pieces) \o batch.pieces
          /\ tmp'.len + buf'.len = tmp.len + buf.len + batch.len
          /\ tmp'.len >= tmp.len
      BY <1>2, <1>3, <2>1, WriteAllKeeps
    <3>2. tmp'.len \in Nat /\ buf'.len \in Nat
      BY <3>1 DEF Chunk
    <3>3. /\ charged' \in [Passes -> Nat] /\ unflushed' \in Nat
          /\ charged'["slim"] = charged["slim"] + batch.len
          /\ charged'["count"] = charged["count"] /\ charged'["check"] = charged["check"]
      BY <1>1, <1>2, <2>1, Accounted DEF IInv
    <3>4. (tmp'.pieces \o buf'.pieces) \o batch'.pieces = SlimOf(capture, at + 1)
      BY <1>3, <1>5, <1>6, <2>1, <3>1
    <3>5. /\ tmp'.len + buf'.len + batch'.len = capture.slim[at + 1]
          /\ charged'["slim"] = off + tmp'.len + buf'.len
      <4>1. /\ tmp.len + buf.len + batch.len = capture.slim[at]
            /\ charged["slim"] = off + tmp.len + buf.len
            /\ batch'.len = 16 + out
        BY <1>3, <1>6, <2>1
      <4>2. /\ tmp.len \in Nat /\ buf.len \in Nat /\ batch.len \in Nat /\ off \in Nat
            /\ tmp'.len + buf'.len = tmp.len + buf.len + batch.len
        BY <1>2, <3>1
      <4>3. charged'["slim"] = charged["slim"] + batch.len
        BY <3>3
      <4>4. tmp'.len + buf'.len + batch'.len = capture.slim[at + 1]
        BY <1>4, <3>2, <4>1, <4>2
      <4>5. charged'["slim"] = off + tmp'.len + buf'.len
        BY <3>2, <4>1, <4>2, <4>3
      <4> QED
        BY <4>4, <4>5
    <3> QED
      BY <1>6, <2>1, <3>1, <3>3, <3>4, <3>5
  <2>2. CASE batch' = Join(batch, piece) /\ UNCHANGED <<buf, tmp, limits>>
    <3>1. /\ batch' \in Chunk /\ Solid(batch')
          /\ batch'.pieces = batch.pieces \o <<rec>> /\ batch'.len = batch.len + (16 + out)
      <4>1. /\ batch \in Chunk /\ Solid(batch) /\ piece \in Chunk /\ Solid(piece)
            /\ piece.pieces = <<rec>> /\ piece.len = 16 + out
        BY <1>2, <1>3, <1>6
      <4> HIDE DEF piece, rec, out
      <4>2. /\ Join(batch, piece) \in Chunk /\ Solid(Join(batch, piece))
            /\ Join(batch, piece).pieces = batch.pieces \o piece.pieces
            /\ Join(batch, piece).len = batch.len + piece.len
        BY <4>1, JoinFacts
      <4> QED
        BY <2>2, <4>1, <4>2
    <3>2. (tmp'.pieces \o buf'.pieces) \o batch'.pieces = SlimOf(capture, at + 1)
      <4> DEFINE t == tmp.pieces \o buf.pieces
                 b == batch.pieces
                 r == <<rec>>
      <4>1. t \in Seq(PieceType) /\ b \in Seq(PieceType) /\ r \in Seq(PieceType)
        <5>1. /\ tmp.pieces \in Seq(PieceType) /\ buf.pieces \in Seq(PieceType)
              /\ b \in Seq(PieceType)
          BY <1>2 DEF Chunk
        <5>2. r \in Seq(PieceType)
          BY <1>6 DEF Chunk
        <5> QED
          BY <5>1, <5>2, Concat
      <4>2. t \o b = SlimOf(capture, at) /\ tmp'.pieces \o buf'.pieces = t
        BY <1>3, <2>2
      <4> HIDE DEF t, b, r
      <4>3. (t \o b) \o r = t \o (b \o r)
        BY <4>1, Concat
      <4> QED
        BY <1>5, <3>1, <4>2, <4>3 DEF b, r
    <3>3. /\ tmp'.len + buf'.len + batch'.len = capture.slim[at + 1]
          /\ tmp'.len >= tmp.len
          /\ charged'["slim"] = off + tmp'.len + buf'.len
      <4>1. /\ tmp.len + buf.len + batch.len = capture.slim[at]
            /\ charged["slim"] = off + tmp.len + buf.len
            /\ batch'.len = batch.len + (16 + out)
            /\ tmp'.len = tmp.len /\ buf'.len = buf.len
            /\ charged'["slim"] = charged["slim"]
        BY <1>3, <2>2, <3>1 DEF limits
      <4> QED
        BY <1>2, <1>4, <4>1
    <3> QED
      BY <1>2, <1>3, <2>2, <3>1, <3>2, <3>3 DEF IInv, TypeOK, limits
  <2> QED
    BY <1>1, <2>1, <2>2
<1>8. TypeOK'
  <2>1. at' \in 0..N
    BY <1>1, <1>2
  <2>2. cut' \in 0..tmp'.len
    <3>1. tmp'.len \in Nat
      BY <1>7 DEF Chunk
    <3> QED
      BY <1>1, <1>2, <1>7, <3>1
  <2> QED
    BY <1>1, <1>7, <2>1, <2>2 DEF IInv, TypeOK, source, N
<1>9. Fresh' /\ Seen'
  BY <1>1, <1>7 DEF IInv, Fresh, Seen, Extent, source, N
<1>10. Reading'
  BY <1>1, <1>2 DEF Reading, source
<1>11. Writing'
  BY <1>1, <1>3, <1>7 DEF Writing, source
<1>12. Done' /\ Counting'
  BY <1>1 DEF IInv, Fresh, Done, Counting
<1>13. VerifiedMeansComplete' /\ NoFalseAlarm' /\ AccountedInFull'
  BY <1>1 DEF IInv, Fresh, VerifiedMeansComplete, NoFalseAlarm, AccountedInFull
<1>14. NotPast'
  BY <1>1 DEF IInv, NotPast, Extent, source
<1> QED
  BY <1>8, <1>9, <1>10, <1>11, <1>12, <1>13, <1>14 DEF IInv

LEMMA EndOfSourceKeeps == IInv /\ EndOfSource => IInv'
<1> SUFFICES ASSUME IInv, EndOfSource PROVE IInv'
  OBVIOUS
<1>1. /\ pass = "slim" /\ pc = "record" /\ pc' = "sync" /\ ~Readable(16)
      /\ off' = Extent
      /\ UNCHANGED <<source, pass, view, at, remaining, cut, stats, outcome, due, still,
                     faults>>
      /\ FlushLimits(batch.len)
      /\ IF batch.len > 0 THEN WriteAll(batch) /\ batch' = Empty
                          ELSE UNCHANGED <<batch, buf, tmp>>
  BY DEF EndOfSource, AtEnd, Here
<1>2. /\ capture \in Captures /\ at \in Nat /\ off \in Nat /\ N \in Nat /\ cut \in Nat
      /\ tmp \in Chunk /\ buf \in Chunk /\ batch \in Chunk /\ at <= N /\ due <= N
      /\ tmp.len \in Nat /\ buf.len \in Nat /\ batch.len \in Nat /\ cut <= tmp.len
      /\ due \in Nat /\ off = capture.end[at] /\ Extent \in Nat
  BY <1>1, Types DEF IInv, Reading
<1>3. /\ capture.magic /\ Solid(buf) /\ Solid(batch)
      /\ (tmp.pieces \o buf.pieces) \o batch.pieces = SlimOf(capture, at)
      /\ stats["slim"].in_pkts = at
      /\ stats["slim"].in_pkts = stats["slim"].truncated + stats["slim"].kept
  BY <1>1 DEF IInv, Writing
<1>4. /\ tmp.len + buf.len + batch.len = capture.slim[at]
      /\ charged["slim"] = off + tmp.len + buf.len
  BY <1>1 DEF IInv, Writing
<1>5. /\ charged' \in [Passes -> Nat] /\ unflushed' = 0
      /\ charged'["slim"] = charged["slim"] + batch.len
      /\ charged'["count"] = charged["count"] /\ charged'["check"] = charged["check"]
  BY <1>1, <1>2, Accounted DEF IInv
<1>6. /\ tmp' \in Chunk /\ buf' \in Chunk /\ batch' \in Chunk /\ Solid(buf')
      /\ batch'.pieces = <<>> /\ batch'.len = 0
      /\ (tmp'.pieces \o buf'.pieces) \o <<>> = SlimOf(capture, at)
      /\ tmp'.len + buf'.len = tmp.len + buf.len + batch.len
      /\ tmp'.len >= tmp.len
  <2>1. CASE batch.len > 0
    <3>1. /\ tmp' \in Chunk /\ buf' \in Chunk /\ Solid(buf')
          /\ tmp'.pieces \o buf'.pieces = (tmp.pieces \o buf.pieces) \o batch.pieces
          /\ tmp'.len + buf'.len = tmp.len + buf.len + batch.len
          /\ tmp'.len >= tmp.len
      BY <1>1, <1>2, <1>3, <2>1, WriteAllKeeps
    <3>2. batch' \in Chunk /\ batch'.pieces = <<>> /\ batch'.len = 0
      BY <1>1, <2>1, EmptyFacts
    <3>3. SlimOf(capture, at) \o <<>> = SlimOf(capture, at)
      <4>1. SlimOf(capture, at) \in Seq(PieceType)
        BY <1>2, SlimOfFacts DEF N
      <4> QED
        BY <4>1, Concat
    <3> QED
      BY <1>3, <3>1, <3>2, <3>3
  <2>2. CASE ~(batch.len > 0)
    <3>1. UNCHANGED <<batch, buf, tmp>> /\ batch.len = 0
      BY <1>1, <1>2, <2>2
    <3>2. batch.pieces = <<>>
      BY <1>3, <3>1 DEF Solid
    <3>3. tmp'.len + buf'.len = tmp.len + buf.len + batch.len /\ tmp'.len >= tmp.len
      BY <1>2, <3>1
    <3> QED
      BY <1>2, <1>3, <3>1, <3>2, <3>3
  <2> QED
    BY <2>1, <2>2
<1>7. due <= at
  <2> SUFFICES ASSUME at < due PROVE FALSE
    BY <1>2
  <2>1. /\ due - 1 \in Nat /\ at <= due - 1 /\ due - 1 <= Len(capture.recs) /\ due > 0
    BY <1>2 DEF N
  <2>2. capture.end[due - 1] + 16 <= Extent
    BY <1>1, <2>1 DEF IInv, Seen
  <2>3. /\ capture.end[at] \in Nat /\ capture.end[due - 1] \in Nat
        /\ at < due - 1 => capture.end[at] + 16 <= capture.end[due - 1]
    BY <1>2, <2>1, Room
  <2>4. capture.end[at] <= capture.end[due - 1]
    BY <1>2, <2>1, <2>3
  <2>5. Readable(16)
    BY <1>2, <2>2, <2>3, <2>4 DEF Readable
  <2> QED
    BY <1>1, <2>5
<1>8. TypeOK'
  <2>1. cut' \in 0..tmp'.len
    <3>1. tmp'.len \in Nat
      BY <1>6 DEF Chunk
    <3> QED
      BY <1>1, <1>2, <1>6, <3>1
  <2>2. unflushed' \in Nat
    BY <1>5
  <2> QED
    BY <1>1, <1>2, <1>5, <1>6, <2>1, <2>2 DEF IInv, TypeOK, source
<1>9. Fresh' /\ Seen'
  BY <1>1, <1>5 DEF IInv, Fresh, Seen, Extent, source, N
<1>10. Reading'
  <2>1. off <= Extent /\ Extent < off + 16
    BY <1>1, <1>2 DEF IInv, NotPast, Readable
  <2> QED
    BY <1>1, <1>2, <2>1 DEF Reading, source
<1>11. Writing'
  <2>1. tmp'.len \in Nat /\ buf'.len \in Nat
    BY <1>6 DEF Chunk
  <2>2. tmp'.len + buf'.len + batch'.len = capture.slim[at]
    BY <1>4, <1>6, <2>1
  <2>3. charged'["slim"] = capture.end[at] + tmp'.len + buf'.len
    <3>1. tmp'.len + buf'.len = tmp.len + buf.len + batch.len
      BY <1>6
    <3> QED
      BY <1>2, <1>4, <1>5, <2>1, <3>1
  <2>4. Solid(batch')
    BY <1>6 DEF Solid
  <2> QED
    BY <1>1, <1>3, <1>5, <1>6, <1>7, <2>2, <2>3, <2>4 DEF Writing, source
<1>12. Done' /\ Counting'
  BY <1>1 DEF IInv, Fresh, Done, Counting
<1>13. VerifiedMeansComplete' /\ NoFalseAlarm' /\ AccountedInFull'
  BY <1>1 DEF IInv, Fresh, VerifiedMeansComplete, NoFalseAlarm, AccountedInFull
<1>14. NotPast'
  BY <1>1, <1>2 DEF NotPast, Extent, source
<1> QED
  BY <1>8, <1>9, <1>10, <1>11, <1>12, <1>13, <1>14 DEF IInv

LEMMA SyncKeeps == IInv /\ Sync => IInv'
<1> SUFFICES ASSUME IInv, Sync PROVE IInv'
  OBVIOUS
<1>1. /\ pass = "slim" /\ pc = "sync" /\ tmp' = Join(tmp, buf) /\ buf' = Empty
      /\ cut' = tmp'.len /\ stats' = [stats EXCEPT !["slim"].out_bytes = tmp'.len]
      /\ End("ok")
      /\ UNCHANGED <<source, pass, view, at, off, remaining, batch, limits, due, still, faults>>
  BY DEF Sync, Here, reader
<1>2. /\ pc' = "over" /\ outcome' \in [Passes -> {"none", "ok", "err"}]
      /\ outcome'["slim"] = "ok" /\ outcome'["count"] = outcome["count"]
  BY <1>1, Ended DEF IInv
<1>3. /\ capture \in Captures /\ at \in Nat /\ N \in Nat /\ at <= N
      /\ tmp \in Chunk /\ buf \in Chunk /\ tmp.len \in Nat /\ buf.len \in Nat
  BY Types DEF IInv
<1>4. /\ capture.magic /\ batch.pieces = <<>> /\ batch.len = 0 /\ due <= at
      /\ (tmp.pieces \o buf.pieces) \o batch.pieces = SlimOf(capture, at)
      /\ stats["slim"].in_pkts = at
      /\ stats["slim"].in_pkts = stats["slim"].truncated + stats["slim"].kept
      /\ unflushed = 0
  BY <1>1 DEF IInv, Writing
<1>5. /\ tmp.len + buf.len + batch.len = capture.slim[at]
      /\ charged["slim"] = capture.end[at] + tmp.len + buf.len
      /\ capture.end[at] <= off /\ off < capture.end[at] + 16
  BY <1>1 DEF IInv, Writing, Reading
<1>6. /\ tmp' \in Chunk /\ tmp'.pieces = tmp.pieces \o buf.pieces
      /\ tmp'.len = tmp.len + buf.len /\ tmp'.len \in Nat
  <2>1. /\ tmp' \in Chunk /\ tmp'.pieces = tmp.pieces \o buf.pieces
        /\ tmp'.len = tmp.len + buf.len
    BY <1>1, <1>3, JoinFacts
  <2> QED
    BY <1>3, <2>1
<1>7. tmp'.pieces = SlimOf(capture, at)
  <2>1. tmp'.pieces \in Seq(PieceType)
    BY <1>6 DEF Chunk
  <2>2. tmp'.pieces \o <<>> = tmp'.pieces
    BY <2>1, Concat
  <2> QED
    BY <1>4, <1>6, <2>2
<1>8. /\ stats' \in [Passes -> [in_pkts : Nat, truncated : Nat, kept : Nat, out_bytes : Nat]]
      /\ stats'["count"] = stats["count"] /\ stats'["slim"].out_bytes = tmp'.len
      /\ stats'["slim"].in_pkts = at
      /\ stats'["slim"].in_pkts = stats'["slim"].truncated + stats'["slim"].kept
  <2> DEFINE s == stats["slim"]
             next == [s EXCEPT !.out_bytes = tmp'.len]
  <2>1. s \in [in_pkts : Nat, truncated : Nat, kept : Nat, out_bytes : Nat]
    BY DEF IInv, TypeOK
  <2>2. stats' = [stats EXCEPT !["slim"] = next]
    BY <1>1
  <2>3. /\ next \in [in_pkts : Nat, truncated : Nat, kept : Nat, out_bytes : Nat]
        /\ next.out_bytes = tmp'.len /\ next.in_pkts = s.in_pkts
        /\ next.truncated = s.truncated /\ next.kept = s.kept
    <3> HIDE DEF s
    <3> QED
      BY <1>6, <2>1
  <2> HIDE DEF next
  <2>4. /\ stats' \in [Passes -> [in_pkts : Nat, truncated : Nat, kept : Nat, out_bytes : Nat]]
        /\ stats'["slim"] = next /\ stats'["count"] = stats["count"]
    BY <2>2, <2>3 DEF IInv, TypeOK
  <2> QED
    BY <1>4, <2>3, <2>4
<1>9. TypeOK'
  <2>1. cut' \in 0..tmp'.len /\ buf' \in Chunk
    BY <1>1, <1>6, EmptyFacts
  <2> QED
    BY <1>1, <1>2, <1>6, <1>8, <2>1 DEF IInv, TypeOK, source, limits
<1>10. Fresh' /\ Seen'
  BY <1>1, <1>2, <1>8 DEF IInv, Fresh, Seen, source, limits, N
<1>11. Reading' /\ Writing' /\ Counting'
  BY <1>1, <1>2 DEF Reading, Writing, Counting
<1>12. Done'
  <2>1. tmp'.len = capture.slim[at]
    BY <1>3, <1>4, <1>5, <1>6
  <2> QED
    BY <1>1, <1>3, <1>4, <1>7, <1>8, <2>1 DEF Done, source, N
<1>13. VerifiedMeansComplete' /\ NoFalseAlarm'
  BY <1>1, <1>2 DEF IInv, Fresh, VerifiedMeansComplete, NoFalseAlarm
<1>14. AccountedInFull'
  <2>1. capture.end[at] \in Nat
    BY <1>3, Layout DEF N
  <2>2. charged["slim"] = capture.end[at] + tmp'.len
    BY <1>3, <1>5, <1>6, <2>1
  <2> QED
    BY <1>1, <1>4, <1>5, <2>2 DEF AccountedInFull, Whole, limits, source
<1>15. NotPast'
  BY <1>1 DEF IInv, NotPast, Extent, source
<1> QED
  BY <1>9, <1>10, <1>11, <1>12, <1>13, <1>14, <1>15 DEF IInv

LEMMA AnalyzedKeeps == IInv /\ Analyzed => IInv'
<1> SUFFICES ASSUME IInv, Analyzed PROVE IInv'
  OBVIOUS
<1>1. /\ pass = "check" /\ pc = "record" /\ ~Readable(16)
      /\ stats' = [stats EXCEPT !["check"].out_bytes = @ + 24]
      /\ FlushLimits(0) /\ End("ok") /\ off' = Extent /\ Extent \in Nat
      /\ UNCHANGED <<source, pass, view, at, remaining, writer, due, still, faults>>
  BY Types DEF IInv, Analyzed, AtEnd, Here
<1>2. /\ pc' = "over" /\ outcome' \in [Passes -> {"none", "ok", "err"}]
      /\ outcome'["slim"] = outcome["slim"] /\ outcome'["count"] = outcome["count"]
  BY <1>1, Ended DEF IInv
<1>3. /\ charged' \in [Passes -> Nat] /\ unflushed' = 0
      /\ charged'["check"] = charged["check"] + 0 /\ charged["check"] \in Nat
      /\ charged'["slim"] = charged["slim"] /\ charged'["count"] = charged["count"]
  BY <1>1, Accounted DEF IInv
<1>4. /\ stats' \in [Passes -> [in_pkts : Nat, truncated : Nat, kept : Nat, out_bytes : Nat]]
      /\ stats'["count"] = stats["count"] /\ stats'["slim"] = stats["slim"]
  <2> DEFINE s == stats["check"]
             next == [s EXCEPT !.out_bytes = s.out_bytes + 24]
  <2>1. s \in [in_pkts : Nat, truncated : Nat, kept : Nat, out_bytes : Nat]
    BY DEF IInv, TypeOK
  <2>2. stats' = [stats EXCEPT !["check"] = next]
    BY <1>1
  <2>3. next \in [in_pkts : Nat, truncated : Nat, kept : Nat, out_bytes : Nat]
    <3> HIDE DEF s
    <3> QED
      BY <2>1
  <2> HIDE DEF next
  <2> QED
    BY <2>2, <2>3 DEF IInv, TypeOK
<1>5. TypeOK'
  BY <1>1, <1>2, <1>3, <1>4 DEF IInv, TypeOK, source, writer
<1>6. Fresh' /\ Seen'
  BY <1>1, <1>2, <1>3, <1>4 DEF IInv, Fresh, Seen, Extent, source, writer, N
<1>7. Reading' /\ Writing' /\ Counting' /\ Done'
  BY <1>1, <1>2 DEF IInv, Reading, Writing, Counting, Done, Fresh
<1>8. VerifiedMeansComplete' /\ NoFalseAlarm'
  BY <1>1, <1>2 DEF IInv, VerifiedMeansComplete, NoFalseAlarm, writer
<1>9. AccountedInFull'
  <2>1. /\ charged["check"] = off /\ off = capture.end[at]
        /\ off <= Extent /\ Extent < off + 16
    BY <1>1, Types DEF IInv, Reading, NotPast, Readable
  <2> QED
    BY <1>1, <1>3, <2>1 DEF AccountedInFull, Whole, source
<1>10. NotPast'
  BY <1>1, Types DEF IInv, NotPast, Extent, source, writer
<1> QED
  BY <1>5, <1>6, <1>7, <1>8, <1>9, <1>10 DEF IInv

LEMMA CountDoneKeeps == IInv /\ CountDone => IInv'
<1> SUFFICES ASSUME IInv, CountDone PROVE IInv'
  OBVIOUS
<1> DEFINE n == stats["slim"].in_pkts
           verdict == IF Verified THEN "ok" ELSE "err"
<1>1. /\ pass = "count" /\ pc = "record" /\ ~Readable(16)
      /\ FlushLimits(0) /\ End(verdict) /\ off' = Extent /\ Extent \in Nat
      /\ UNCHANGED <<source, pass, view, at, remaining, writer, stats, due, still, faults>>
  BY Types DEF IInv, CountDone, AtEnd, Here
<1>2. /\ pc' = "over" /\ outcome' \in [Passes -> {"none", "ok", "err"}]
      /\ outcome'["slim"] = outcome["slim"] /\ outcome'["count"] = verdict
  BY <1>1, Ended DEF IInv
<1>3. /\ charged' \in [Passes -> Nat] /\ unflushed' = 0
      /\ charged'["count"] = charged["count"] + 0 /\ charged["count"] \in Nat
      /\ charged'["slim"] = charged["slim"] /\ charged'["check"] = charged["check"]
  BY <1>1, Accounted DEF IInv
<1>4. /\ n \in Nat /\ n <= N /\ tmp.len = capture.slim[n] /\ Extent = cut
      /\ faults = 0 => cut = tmp.len
  BY <1>1, WholeCopy DEF IInv
<1>5. /\ at <= n /\ off = capture.slim[at] /\ off <= cut /\ charged["count"] = off
      /\ stats["count"].in_pkts = at
  BY <1>1 DEF IInv, Counting
<1>6. /\ capture \in Captures /\ at \in Nat /\ off \in Nat /\ N \in Nat /\ cut \in Nat
      /\ cut <= tmp.len /\ tmp.len \in Nat /\ faults \in Nat
  BY Types DEF IInv
<1> HIDE DEF n
<1>7. ASSUME Verified PROVE cut = tmp.len
  <2>1. at = n
    BY <1>5, <1>7 DEF Verified, n
  <2> QED
    BY <1>4, <1>5, <1>6, <2>1
<1>8. ASSUME faults = 0 PROVE Verified
  <2>1. /\ capture.slim[at] \in Nat /\ capture.slim[n] \in Nat
        /\ at < n => capture.slim[at] + 16 <= capture.slim[n]
    BY <1>4, <1>5, <1>6, Room DEF N
  <2>2. ~(at < n)
    BY <1>1, <1>4, <1>5, <1>6, <1>8, <2>1 DEF Readable
  <2>3. at = n
    BY <1>4, <1>5, <1>6, <2>2
  <2> QED
    BY <1>5, <2>3 DEF Verified, n
<1>9. TypeOK'
  BY <1>1, <1>2, <1>3 DEF IInv, TypeOK, source, writer
<1>10. Fresh' /\ Seen'
  BY <1>1, <1>2, <1>3 DEF IInv, Fresh, Seen, Counting, source, writer, N
<1>11. Reading' /\ Writing' /\ Counting'
  BY <1>1, <1>2 DEF IInv, Reading, Writing, Counting
<1>12. Done'
  BY <1>1, <1>2 DEF IInv, Done, source, writer, N
<1>13. VerifiedMeansComplete' /\ NoFalseAlarm'
  BY <1>1, <1>2, <1>6, <1>7, <1>8 DEF VerifiedMeansComplete, NoFalseAlarm, writer
<1>14. AccountedInFull'
  BY <1>1, <1>3, <1>4, <1>5, <1>6 DEF AccountedInFull, Whole, Readable, source
<1>15. NotPast'
  BY <1>1, Types DEF IInv, NotPast, Extent, source, writer
<1> QED
  BY <1>9, <1>10, <1>11, <1>12, <1>13, <1>14, <1>15 DEF IInv

-----------------------------------------------------------------------------
(* The theorems.                                                           *)

LEMMA StepKeeps == IInv /\ [Next]_vars => IInv'
<1> SUFFICES ASSUME IInv, [Next]_vars PROVE IInv'
  OBVIOUS
<1>1. ASSUME NextPass \/ Open \/ ReadGlobalHeader \/ ReadRecordHeader PROVE IInv'
  BY <1>1, NextPassKeeps, OpenKeeps, ReadGlobalHeaderKeeps, ReadRecordHeaderKeeps
<1>2. ASSUME Analyze \/ ReadFrame \/ SkipFrame \/ CountPacket \/ FrameCutOff PROVE IInv'
  BY <1>2, AnalyzeKeeps, ReadFrameKeeps, SkipFrameKeeps, CountPacketKeeps, FrameCutOffKeeps
<1>3. ASSUME WriteRecord \/ EndOfSource \/ Sync \/ Analyzed \/ CountDone PROVE IInv'
  BY <1>3, WriteRecordKeepsInv, EndOfSourceKeeps, SyncKeeps, AnalyzedKeeps, CountDoneKeeps
<1>4. ASSUME IoError PROVE IInv'
  <2>1. /\ Fail /\ pc # "over" /\ UNCHANGED <<source, pass, still>>
        /\ faults < MaxFaults /\ faults' = faults + 1
    BY <1>4 DEF IoError, Fault
  <2>2. faults' \in 0..MaxFaults /\ faults' >= faults /\ faults' > 0
    BY <2>1, Types DEF IInv
  <2> QED
    BY <2>1, <2>2, FailKeeps
<1>5. ASSUME Damage \/ Grow PROVE IInv'
  BY <1>5, DamageKeeps, GrowKeeps
<1>6. ASSUME UNCHANGED vars PROVE IInv'
  <2>1. /\ UNCHANGED <<source, pass, pc, reader, writer, stats, outcome, limits, due, still,
                       faults>>
    BY <1>6 DEF vars
  <2>2. TypeOK'
    BY <2>1 DEF IInv, TypeOK, source, reader, writer, limits
  <2>3. Fresh' /\ Seen' /\ Reading'
    BY <2>1 DEF IInv, Fresh, Seen, Extent, Reading, source, reader, writer, limits, N
  <2>4. Writing' /\ Done' /\ Counting'
    BY <2>1 DEF IInv, Writing, Done, Counting, source, reader, writer, limits, N
  <2>5. VerifiedMeansComplete' /\ NoFalseAlarm' /\ AccountedInFull'
    BY <2>1 DEF IInv, VerifiedMeansComplete, NoFalseAlarm, AccountedInFull, Whole, source,
                reader, writer, limits
  <2>6. NotPast'
    BY <2>1 DEF IInv, NotPast, Extent, source, reader, writer
  <2> QED
    BY <2>2, <2>3, <2>4, <2>5, <2>6 DEF IInv
<1> QED
  BY <1>1, <1>2, <1>3, <1>4, <1>5, <1>6 DEF Next, Step

LEMMA Invariance == Spec => []IInv
<1> QED
  BY Initially, StepKeeps, PTL DEF Spec

LEMMA SlimmedIsSlimOf == \A n : Slimmed(n) = SlimOf(capture, n)
BY DEF Slimmed, SlimOf

\* The invariant's parts say what the runs check.
LEMMA Consequences == IInv => TypeOK /\ InOrder /\ OkMeansAll
<1> SUFFICES ASSUME IInv PROVE TypeOK /\ InOrder /\ OkMeansAll
  OBVIOUS
<1>1. InOrder
  <2> SUFFICES ASSUME pass = "slim", pc \in {"record", "body", "write", "sync"}
               PROVE  tmp.pieces \o buf.pieces \o batch.pieces = Slimmed(at)
    BY DEF InOrder
  <2> QED
    BY SlimmedIsSlimOf DEF IInv, Writing
<1>2. OkMeansAll
  <2> DEFINE s == stats["slim"]
  <2> SUFFICES ASSUME outcome["slim"] = "ok"
               PROVE  /\ s.in_pkts >= due
                      /\ tmp.pieces = Slimmed(s.in_pkts)
                      /\ s.out_bytes = tmp.len /\ tmp.len = capture.slim[s.in_pkts]
                      /\ s.in_pkts = s.truncated + s.kept
    BY DEF OkMeansAll
  <2>1. s.in_pkts \in Nat /\ due \in Nat
    BY Types DEF IInv, TypeOK
  <2> QED
    BY <2>1, SlimmedIsSlimOf DEF IInv, Done
<1> QED
  BY <1>1, <1>2 DEF IInv

\* Every variable keeps its type.
THEOREM TypeCorrect == Spec => []TypeOK
<1> QED
  BY Invariance, Consequences, PTL

\* Wherever the batch and the BufWriter spill, each record that was read is in
\* the file, the buffer or the batch once, in order (WriteBatch::write_record).
THEOREM NothingLostOnTheWay == Spec => []InOrder
<1> QED
  BY Invariance, Consequences, PTL

\* A slim that returns Ok has all records begun when the source was opened,
\* on a source that grows and may end anywhere (slim_pcap).
THEOREM OkIsComplete == Spec => []OkMeansAll
<1> QED
  BY Invariance, Consequences, PTL

\* The verification of a temporary file passes only if none of it has been
\* lost (count_packets, verify_tmp_packet_count).
THEOREM CutIsNoticed == Spec => []VerifiedMeansComplete
<1>1. IInv => VerifiedMeansComplete
  BY DEF IInv
<1> QED
  BY <1>1, Invariance, PTL

\* The verification fails after a fault only.
THEOREM AlarmMeansFault == Spec => []NoFalseAlarm
<1>1. IInv => NoFalseAlarm
  BY DEF IInv
<1> QED
  BY <1>1, Invariance, PTL

\* The resource limits are told of every byte of a pass that returns Ok.
THEOREM NoBytesUncharged == Spec => []AccountedInFull
<1>1. IInv => AccountedInFull
  BY DEF IInv
<1> QED
  BY <1>1, Invariance, PTL

-----------------------------------------------------------------------------
(* The passes end.                                                         *)

\* What is left to do, most significant first: passes, phases of one, bytes of
\* its file, and what is to be done with a record.
PassesLeft == IF pass = "check" THEN 2 ELSE IF pass = "slim" THEN 1 ELSE 0
PhasesLeft ==
    CASE pc = "open" -> 4
      [] pc = "header" -> 3
      [] pc \in {"record", "body", "write"} -> 2
      [] pc = "sync" -> 1
      [] OTHER -> 0
FileEnd == IF pass = "count" THEN tmp.len ELSE capture.end[N]
BytesLeft == IF off <= FileEnd THEN FileEnd - off ELSE 0
RecordLeft == IF pc = "body" THEN 2 ELSE IF pc = "write" THEN 1 ELSE 0

Nearer ==
    \/ PassesLeft' < PassesLeft
    \/ PassesLeft' = PassesLeft /\ PhasesLeft' < PhasesLeft
    \/ /\ PassesLeft' = PassesLeft /\ PhasesLeft' = PhasesLeft
       /\ \/ BytesLeft' < BytesLeft
          \/ BytesLeft' = BytesLeft /\ RecordLeft' < RecordLeft

AsFar == UNCHANGED <<PassesLeft, PhasesLeft, BytesLeft, RecordLeft>>

LEMMA ExtentInFile == IInv => Extent <= FileEnd /\ FileEnd \in Nat /\ off \in Nat
<1> SUFFICES ASSUME IInv PROVE Extent <= FileEnd /\ FileEnd \in Nat /\ off \in Nat
  OBVIOUS
<1>1. TypeOK /\ Seen
  BY DEF IInv
<1>2. /\ capture.end[N] \in Nat /\ size \in Nat /\ off \in Nat /\ cut \in Nat /\ cut <= tmp.len
      /\ tmp.len \in Nat
  BY <1>1, Types
<1>3. Extent <= FileEnd
  BY <1>1, <1>2 DEF Seen, Extent, FileEnd, TypeOK
<1> QED
  BY <1>2, <1>3 DEF FileEnd

\* Reading n bytes leaves n bytes less.
LEMMA ReadOn ==
    ASSUME IInv, NEW n \in Nat, Readable(n), off' = off + n, FileEnd' = FileEnd
    PROVE  BytesLeft' <= BytesLeft /\ (n > 0 => BytesLeft' < BytesLeft)
<1>1. /\ off \in Nat /\ FileEnd \in Nat /\ off + n <= FileEnd
  <2>1. Extent \in Nat /\ Extent <= FileEnd /\ FileEnd \in Nat /\ off \in Nat /\ off + n <= Extent
    BY ExtentInFile, Types DEF IInv, Readable
  <2> QED
    BY <2>1
<1> QED
  BY <1>1 DEF BytesLeft

LEMMA PassSinks ==
    ASSUME IInv, Next
    PROVE  \/ (Step \/ IoError) /\ Nearer
           \/ (Damage \/ Grow) /\ AsFar
<1>t. /\ TypeOK /\ pass \in Passes /\ off \in Nat /\ remaining \in Nat
      /\ SKIP_BUF_CAP \in Nat /\ SKIP_BUF_CAP > 0
  BY ConstantsAssumption DEF IInv, TypeOK
<1>f. UNCHANGED <<pass, capture, tmp>> => FileEnd' = FileEnd /\ PassesLeft' = PassesLeft
  BY DEF FileEnd, N, PassesLeft
<1>1. CASE Open
  <2>1. pc = "open" /\ pc' = "header" /\ pass' = pass
    BY <1>1 DEF Open
  <2> QED
    BY <1>1, <2>1 DEF Step, Nearer, PassesLeft, PhasesLeft
<1>2. CASE ReadGlobalHeader
  <2>1. pc = "header" /\ pc' \in {"record", "over"} /\ pass' = pass
    BY <1>2 DEF ReadGlobalHeader, Fail, End
  <2> QED
    BY <1>2, <2>1 DEF Step, Nearer, PassesLeft, PhasesLeft
<1>3. CASE ReadRecordHeader
  <2>1. /\ pc = "record" /\ pc' = "body" /\ UNCHANGED <<pass, capture, tmp>>
        /\ Readable(16) /\ off' = off + 16
    BY <1>3 DEF ReadRecordHeader, source, writer
  <2>2. 16 \in Nat /\ 16 > 0
    OBVIOUS
  <2>3. BytesLeft' < BytesLeft
    BY <1>f, <2>1, <2>2, ReadOn
  <2> QED
    BY <1>3, <1>f, <2>1, <2>3 DEF Step, Nearer, PhasesLeft
<1>4. CASE Analyze \/ ReadFrame
  <2>1. /\ pc = "body" /\ pc' \in {"record", "write"} /\ UNCHANGED <<pass, capture, tmp>>
        /\ Readable(remaining) /\ off' = off + remaining
    BY <1>4 DEF Analyze, ReadFrame, source, writer, Here
  <2>2. BytesLeft' <= BytesLeft
    BY <1>t, <1>f, <2>1, ReadOn
  <2>3. BytesLeft' \in Nat /\ BytesLeft \in Nat
    BY <1>f, <1>t, <2>1, ExtentInFile DEF BytesLeft
  <2>4. BytesLeft' < BytesLeft \/ BytesLeft' = BytesLeft
    BY <2>2, <2>3
  <2>5. RecordLeft' < RecordLeft
    BY <2>1 DEF RecordLeft
  <2>6. PhasesLeft' = PhasesLeft
    BY <2>1 DEF PhasesLeft
  <2> QED
    BY <1>4, <1>f, <2>1, <2>4, <2>5, <2>6 DEF Step, Nearer
<1>5. CASE SkipFrame
  <2> DEFINE n == Lesser(remaining, SKIP_BUF_CAP)
  <2>1. /\ pc' = pc /\ UNCHANGED <<pass, capture, tmp>> /\ remaining > 0
        /\ Readable(n) /\ off' = off + n
    BY <1>5 DEF SkipFrame, source, writer
  <2>2. n \in Nat /\ n > 0
    BY <1>t, <2>1 DEF Lesser
  <2> HIDE DEF n
  <2>3. BytesLeft' < BytesLeft
    BY <1>f, <2>1, <2>2, ReadOn
  <2> QED
    BY <1>5, <1>f, <2>1, <2>3 DEF Step, Nearer, PhasesLeft
<1>6. CASE CountPacket
  <2>1. pc = "body" /\ pc' = "record" /\ UNCHANGED <<pass, capture, tmp, off>>
    BY <1>6 DEF CountPacket, source, writer, Here
  <2> QED
    BY <1>6, <1>f, <2>1 DEF Step, Nearer, PhasesLeft, BytesLeft, RecordLeft
<1>7. CASE FrameCutOff \/ IoError
  <2>1. pc # "over" /\ pc' = "over" /\ pass' = pass /\ pc \in PCs
    BY <1>7, <1>t DEF FrameCutOff, IoError, Fail, End, TypeOK
  <2>2. PhasesLeft' < PhasesLeft
    BY <2>1 DEF PhasesLeft
  <2> QED
    BY <1>7, <2>1, <2>2 DEF Step, Nearer, PassesLeft
<1>8. CASE WriteRecord
  <2>1. pc = "write" /\ pc' = "record" /\ UNCHANGED <<pass, capture, off>> /\ pass = "slim"
    BY <1>8 DEF WriteRecord, source, Here
  <2>2. FileEnd' = FileEnd
    BY <2>1 DEF FileEnd, N
  <2> QED
    BY <1>8, <2>1, <2>2 DEF Step, Nearer, PassesLeft, PhasesLeft, BytesLeft, RecordLeft
<1>9. CASE EndOfSource \/ Sync \/ Analyzed \/ CountDone
  <2>1. /\ pass' = pass
        /\ \/ pc = "record" /\ pc' \in {"sync", "over"}
           \/ pc = "sync" /\ pc' = "over"
    BY <1>9 DEF EndOfSource, Sync, Analyzed, CountDone, End, Here
  <2> QED
    BY <1>9, <2>1 DEF Step, Nearer, PassesLeft, PhasesLeft
<1>10. CASE NextPass
  <2>1. \/ pass = "check" /\ pass' = "slim"
        \/ pass = "slim" /\ pass' = "count"
    BY <1>10 DEF NextPass
  <2> QED
    BY <1>10, <2>1 DEF Step, Nearer, PassesLeft
<1>11. CASE Damage \/ Grow
  <2>1. UNCHANGED <<pass, pc, capture, off, tmp>>
    BY <1>11 DEF Damage, Grow, reader, writer, source
  <2> QED
    BY <1>11, <1>f, <2>1 DEF PhasesLeft, BytesLeft, RecordLeft, AsFar
<1> QED
  BY <1>1, <1>2, <1>3, <1>4, <1>5, <1>6, <1>7, <1>8, <1>9, <1>10, <1>11 DEF Next, Step

\* Every step of a pass leaves less to do, wherever its file ends, and no growth
\* of the capture makes it more: no loop over records, or over the chunks of
\* one, can go on for ever, since what is left are numbers.
THEOREM PassesEnd ==
    Spec => /\ []({PassesLeft, PhasesLeft, BytesLeft, RecordLeft} \subseteq Nat)
            /\ [][\/ (Step \/ IoError) /\ Nearer
                  \/ (Damage \/ Grow) /\ AsFar]_vars
<1>1. IInv => {PassesLeft, PhasesLeft, BytesLeft, RecordLeft} \subseteq Nat
  <2> SUFFICES ASSUME IInv
               PROVE  {PassesLeft, PhasesLeft, BytesLeft, RecordLeft} \subseteq Nat
    OBVIOUS
  <2>1. PassesLeft \in Nat /\ PhasesLeft \in Nat /\ RecordLeft \in Nat
    BY DEF PassesLeft, PhasesLeft, RecordLeft
  <2>2. BytesLeft \in Nat
    BY ExtentInFile DEF BytesLeft
  <2> QED
    BY <2>1, <2>2
<1>2. IInv /\ [Next]_vars => [\/ (Step \/ IoError) /\ Nearer
                              \/ (Damage \/ Grow) /\ AsFar]_vars
  BY PassSinks
<1> QED
  BY <1>1, <1>2, Invariance, PTL DEF Spec
=============================================================================
