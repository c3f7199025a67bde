-------------------------- MODULE StreamRefinement --------------------------
(***************************************************************************)
(* Proof that the passes of Stream.tla implement the copy of CopyPass.tla: *)
(* every step, seen through the refinement mapping, is one of the copy or  *)
(* changes nothing.                                                        *)
(***************************************************************************)
EXTENDS StreamProofs, WellFoundedInduction

\* What the mapping makes of a state of the passes.
Begun == CHOOSE k \in 0..Len(capture.recs) : IsBegun(k, size)
CopiedOf(pieces) ==
    IF pieces = <<>> THEN 0 ELSE IF SlimPrefix(pieces) THEN Len(pieces) - 1 ELSE -1
Copied == CopiedOf(tmp.pieces)
Intact == outcome["slim"] = "ok" => cut = tmp.len
StateOf(slim, count, copying) ==
    IF slim = "err" \/ count = "err" THEN "rejected"
    ELSE IF count = "ok" THEN "accepted"
    ELSE IF slim = "ok" THEN "written"
    ELSE IF copying THEN "copying" ELSE "idle"
State == StateOf(outcome["slim"], outcome["count"], pass = "slim" /\ pc # "open")

\* A step of the copy, or a stutter.
Maps == [Promise!Next]_(Promise!vars)

\* A pass over the source has not read beyond it.
NotBeyond == pass # "count" => off <= size /\ (view # Growing => view <= size)

\* A slim that returned Ok has copied nothing else.
SourceCovers == outcome["slim"] = "ok" => capture.end[stats["slim"].in_pkts] <= size

Within == NotBeyond /\ SourceCovers

RInv == IInv /\ Within

USE DEF PCAP_HDR_LEN, PCAP_REC_HDR_LEN, Growing, Passes, PCs

-----------------------------------------------------------------------------
(* The records that are begun.                                             *)

LEMMA Less == OpToRel(<, Nat) = {ss \in Nat \X Nat : ss[1] < ss[2]}
BY DEF OpToRel

LEMMA Least ==
    ASSUME NEW T, T \subseteq Nat, T # {}
    PROVE  \E x \in T : \A y \in T : x <= y
<1> DEFINE R == {ss \in Nat \X Nat : ss[1] < ss[2]}
<1>1. IsWellFoundedOn(R, Nat)
  BY NatLessThanWellFounded, Less
<1> HIDE DEF R
<1>2. \E x \in T : \A y \in T : ~(<<y, x>> \in R)
  BY <1>1, WFMin
<1>3. ASSUME NEW x \in T, NEW y \in T, ~(<<y, x>> \in R) PROVE x <= y
  <2>1. x \in Nat /\ y \in Nat
    OBVIOUS
  <2>2. ~(y < x)
    BY <1>3, <2>1 DEF R
  <2> QED
    BY <2>1, <2>2
<1> QED
  BY <1>2, <1>3

\* So many records are begun, and no others.
LEMMA BegunExists ==
    ASSUME capture \in Captures, NEW n \in Nat
    PROVE  \E k \in 0..Len(capture.recs) : IsBegun(k, n)
<1>1. N \in Nat /\ N = Len(capture.recs)
  BY Layout DEF N
<1> DEFINE T == {k \in Nat : k < N => n < capture.end[k] + 16}
<1>2. N \in T
  BY <1>1
<1>3. PICK k \in T : \A j \in T : k <= j
  BY <1>2, Least
<1>4. k \in Nat /\ k <= N /\ (k < N => n < capture.end[k] + 16)
  BY <1>1, <1>2, <1>3
<1>5. ASSUME k > 0 PROVE capture.end[k - 1] + 16 <= n
  <2>1. k - 1 \in Nat /\ k - 1 < N /\ k - 1 <= N /\ ~(k <= k - 1)
    BY <1>1, <1>4, <1>5
  <2>2. k - 1 \notin T
    BY <1>3, <2>1
  <2>3. ~(n < capture.end[k - 1] + 16)
    BY <2>1, <2>2
  <2>4. capture.end[k - 1] \in Nat
    BY <1>1, <2>1, Layout
  <2> QED
    BY <2>3, <2>4
<1>6. IsBegun(k, n)
  BY <1>1, <1>4, <1>5 DEF IsBegun
<1> QED
  BY <1>1, <1>4, <1>6

LEMMA BegunOrder ==
    ASSUME capture \in Captures, NEW m \in Nat, NEW n \in Nat, m <= n,
           NEW j \in 0..Len(capture.recs), NEW k \in 0..Len(capture.recs),
           IsBegun(j, m), IsBegun(k, n)
    PROVE  j <= k
<1> SUFFICES ASSUME k < j PROVE FALSE
  BY Layout
<1>1. /\ N \in Nat /\ N = Len(capture.recs)
      /\ j \in Nat /\ k \in Nat /\ j <= N /\ k < N /\ j - 1 \in Nat /\ k <= j - 1 /\ j > 0
  BY Layout DEF N
<1>2. capture.end[k] \in Nat /\ capture.end[j - 1] \in Nat
  BY <1>1, Layout
<1>3. capture.end[k] <= capture.end[j - 1]
  <2>1. CASE k = j - 1
    BY <1>2, <2>1
  <2>2. CASE k < j - 1
    <3>1. capture.end[k] + 16 <= capture.end[j - 1]
      BY <1>1, <2>2, Layout
    <3> QED
      BY <1>2, <3>1
  <2> QED
    BY <1>1, <2>1, <2>2
<1>4. capture.end[j - 1] + 16 <= m /\ n < capture.end[k] + 16
  BY <1>1 DEF IsBegun
<1> QED
  BY <1>2, <1>3, <1>4

LEMMA BegunFacts ==
    ASSUME TypeOK
    PROVE  /\ Begun \in 0..Len(capture.recs) /\ IsBegun(Begun, size)
           /\ Begun \in Nat /\ Begun <= N
           /\ \A k \in 0..N : IsBegun(k, size) => k = Begun
           /\ \A k \in Nat : k > 0 /\ k <= N /\ capture.end[k - 1] + 16 <= size => k <= Begun
<1>1. capture \in Captures /\ size \in Nat /\ N \in Nat /\ N = Len(capture.recs)
  BY Types DEF N
<1>2. Begun \in 0..N /\ IsBegun(Begun, size)
  <2>1. \E k \in 0..Len(capture.recs) : IsBegun(k, size)
    BY <1>1, BegunExists
  <2> QED
    BY <1>1, <2>1 DEF Begun
<1>3. ASSUME NEW k \in 0..N, IsBegun(k, size) PROVE k = Begun
  <2>1. k <= Begun /\ Begun <= k
    BY <1>1, <1>2, <1>3, BegunOrder
  <2> QED
    BY <1>1, <1>2, <2>1
<1>4. ASSUME NEW k \in Nat, k > 0, k <= N, capture.end[k - 1] + 16 <= size PROVE k <= Begun
  <2> SUFFICES ASSUME Begun < k PROVE FALSE
    BY <1>1, <1>2
  <2> DEFINE b == Begun
  <2>1. b \in Nat /\ b < k /\ b < N /\ k - 1 \in Nat /\ k - 1 <= N /\ b <= k - 1
    BY <1>1, <1>2, <1>4
  <2>2. size < capture.end[b] + 16
    BY <1>1, <1>2, <2>1 DEF IsBegun
  <2> HIDE DEF b
  <2>3. capture.end[b] \in Nat /\ capture.end[k - 1] \in Nat
    BY <1>1, <2>1, Layout
  <2>4. capture.end[b] <= capture.end[k - 1]
    <3>1. b = k - 1 \/ b < k - 1
      BY <2>1
    <3>2. b < k - 1 => capture.end[b] + 16 <= capture.end[k - 1]
      BY <1>1, <2>1, Layout
    <3> QED
      BY <2>3, <3>1, <3>2
  <2> QED
    BY <1>1, <1>4, <2>2, <2>3, <2>4
<1> QED
  BY <1>1, <1>2, <1>3, <1>4

LEMMA EndIsBegun ==
    ASSUME TypeOK, NEW k \in Nat, k <= N, capture.end[k] <= size
    PROVE  k <= Begun
<1>1. capture \in Captures /\ size \in Nat /\ N \in Nat /\ N = Len(capture.recs)
  BY Types DEF N
<1>2. CASE k = 0
  BY <1>2, BegunFacts
<1>3. CASE k > 0
  <2>1. k - 1 \in Nat /\ k - 1 < k /\ k - 1 <= N
    BY <1>1, <1>3
  <2>2. capture.end[k - 1] + 16 <= capture.end[k]
    BY <1>1, <2>1, Layout
  <2>3. capture.end[k - 1] \in Nat /\ capture.end[k] \in Nat
    BY <1>1, <2>1, Layout
  <2>4. capture.end[k - 1] + 16 <= size
    BY <1>1, <2>2, <2>3
  <2> QED
    BY <1>3, <2>4, BegunFacts
<1> QED
  BY <1>2, <1>3

\* What a pass has read is begun.
LEMMA ReadIsBegun ==
    ASSUME RInv, pass = "slim"
    PROVE  /\ pc \in {"record", "body", "sync"} => at <= Begun
           /\ pc = "write" => at + 1 <= Begun
<1>1. /\ TypeOK /\ capture \in Captures /\ at \in Nat /\ at <= N /\ N \in Nat
      /\ size \in Nat /\ off <= size /\ off \in Nat /\ N = Len(capture.recs)
  BY Types DEF RInv, IInv, Within, NotBeyond, N
<1>2. ASSUME pc \in {"record", "body", "sync"} PROVE at <= Begun
  <2>1. capture.end[at] <= off
    <3>1. \/ off = capture.end[at] \/ off = capture.end[at] + 16 \/ capture.end[at] <= off
      BY <1>2 DEF RInv, IInv, Reading
    <3> QED
      BY <1>1, <3>1, Layout
  <2>2. capture.end[at] \in Nat
    BY <1>1, Layout
  <2>3. capture.end[at] <= size
    BY <1>1, <2>1, <2>2
  <2> QED
    BY <1>1, <2>3, EndIsBegun
<1>3. ASSUME pc = "write" PROVE at + 1 <= Begun
  <2>1. off = capture.end[at + 1] /\ at < N
    BY <1>3 DEF RInv, IInv, Reading
  <2>2. at + 1 \in Nat /\ at + 1 <= N
    BY <1>1, <2>1
  <2> QED
    BY <1>1, <2>1, <2>2, EndIsBegun
<1> QED
  BY <1>2, <1>3

-----------------------------------------------------------------------------
(* The mapping, step by step.                                              *)

LEMMA Mapping ==
    /\ Promise!vars = <<Begun, due, Copied, Intact, State>>
    /\ UNCHANGED <<Begun, due, Copied, Intact, State>> => Maps
    /\ Begun' \in Nat /\ Begun' > Begun /\ UNCHANGED <<due, Copied, Intact, State>> => Maps
    /\ /\ State = "idle" /\ State' = "copying" /\ due' = Begun
       /\ UNCHANGED <<Begun, Copied, Intact>>
       => Maps
    /\ /\ State = "copying" /\ Copied' \in (Copied + 1)..Begun
       /\ UNCHANGED <<Begun, due, Intact, State>>
       => Maps
    /\ /\ State = "copying" /\ Copied' \in Copied..Begun /\ Copied' >= due
       /\ State' = "written" /\ UNCHANGED <<Begun, due, Intact>>
       => Maps
    /\ State = "written" /\ Intact' = FALSE /\ UNCHANGED <<Begun, due, Copied, State>> => Maps
    /\ /\ State = "written" /\ Intact /\ State' = "accepted"
       /\ UNCHANGED <<Begun, due, Copied, Intact>>
       => Maps
    /\ /\ State \in {"idle", "copying", "written"} /\ State' = "rejected"
       /\ Copied' \in Copied..Begun /\ (State # "copying" => Copied' = Copied)
       /\ UNCHANGED <<Begun, due, Intact>>
       => Maps
BY DEF Maps, Promise!vars, Promise!Next, Promise!Record, Promise!Start, Promise!Store,
       Promise!Finish, Promise!Damage, Promise!Accept, Promise!Reject,
       Begun, Copied, CopiedOf, Intact, State, StateOf

LEMMA StateFacts ==
    ASSUME NEW slim \in {"none", "ok", "err"}, NEW count \in {"none", "ok", "err"},
           NEW copying \in BOOLEAN
    PROVE  /\ slim = "err" \/ count = "err" => StateOf(slim, count, copying) = "rejected"
           /\ slim # "err" /\ count = "ok" => StateOf(slim, count, copying) = "accepted"
           /\ slim = "ok" /\ count = "none" => StateOf(slim, count, copying) = "written"
           /\ slim = "none" /\ count = "none" =>
                 StateOf(slim, count, copying) = IF copying THEN "copying" ELSE "idle"
BY DEF StateOf

\* The first pieces of the slimmed form are those of its first records.
LEMMA PrefixCopied ==
    ASSUME capture \in Captures, NEW n \in Nat, n <= N,
           NEW s \in Seq(PieceType), NEW t \in Seq(PieceType), s \o t = SlimOf(capture, n)
    PROVE  /\ CopiedOf(s) = IF Len(s) = 0 THEN 0 ELSE Len(s) - 1
           /\ CopiedOf(s) \in Nat /\ CopiedOf(s) <= n
<1>1. Len(s) \in Nat /\ Len(t) \in Nat /\ Len(s \o t) = Len(s) + Len(t)
  BY ConcatProperties
<1>2. Len(SlimOf(capture, n)) = n + 1
  BY SlimOfFacts DEF N
<1>3. Len(s) <= n + 1
  BY <1>1, <1>2
<1>4. CASE Len(s) = 0
  <2>1. s = <<>>
    BY <1>4
  <2> QED
    BY <1>4, <2>1 DEF CopiedOf
<1>5. CASE Len(s) # 0
  <2> DEFINE k == Len(s) - 1
  <2>1. k \in Nat /\ k <= n /\ Len(s) = k + 1 /\ k <= N
    BY <1>1, <1>3, <1>5, Layout DEF N
  <2>2. SlimOf(capture, k) \in Seq(PieceType) /\ Len(SlimOf(capture, k)) = k + 1
    BY <2>1, SlimOfFacts DEF N
  <2>3. \A i \in 1..(k + 1) : s[i] = SlimOf(capture, n)[i]
    BY <1>1, <2>1, ConcatProperties
  <2>4. \A i \in 1..(k + 1) : SlimOf(capture, n)[i] = SlimOf(capture, k)[i]
    BY <2>1 DEF SlimOf
  <2>5. s = SlimOf(capture, k)
    <3> HIDE DEF k
    <3> QED
      BY <2>1, <2>2, <2>3, <2>4, SeqEqual
  <2>6. SlimPrefix(s)
    BY <1>5, <2>5, SlimmedIsSlimOf DEF SlimPrefix
  <2> QED
    BY <1>5, <2>1, <2>6 DEF CopiedOf
<1> QED
  BY <1>4, <1>5

\* What is in the temporary file while it is written.
LEMMA CopiedWriting ==
    ASSUME IInv, pass = "slim", pc \in {"record", "body", "write", "sync"}
    PROVE  /\ Copied = IF Len(tmp.pieces) = 0 THEN 0 ELSE Len(tmp.pieces) - 1
           /\ Copied \in Nat /\ Copied <= at
<1>1. /\ capture \in Captures /\ at \in Nat /\ at <= N
      /\ tmp.pieces \in Seq(PieceType) /\ buf.pieces \in Seq(PieceType)
      /\ batch.pieces \in Seq(PieceType)
  BY Types DEF IInv, Chunk
<1>2. (tmp.pieces \o buf.pieces) \o batch.pieces = SlimOf(capture, at)
  BY DEF IInv, Writing
<1> DEFINE s == tmp.pieces
           b == buf.pieces
           c == batch.pieces
<1>3. s \o (b \o c) = SlimOf(capture, at) /\ b \o c \in Seq(PieceType)
  <2>1. s \in Seq(PieceType) /\ b \in Seq(PieceType) /\ c \in Seq(PieceType)
    BY <1>1
  <2>2. (s \o b) \o c = SlimOf(capture, at)
    BY <1>2
  <2> HIDE DEF s, b, c
  <2>3. (s \o b) \o c = s \o (b \o c)
    BY <2>1, Concat
  <2>4. b \o c \in Seq(PieceType)
    BY <2>1, Concat
  <2> QED
    BY <2>2, <2>3, <2>4
<1> QED
  BY <1>1, <1>3, PrefixCopied DEF Copied

\* What is in it when the job has returned Ok.
LEMMA CopiedDone ==
    ASSUME RInv, outcome["slim"] = "ok"
    PROVE  /\ Copied = stats["slim"].in_pkts
           /\ Copied \in Nat /\ Copied <= Begun /\ due <= Copied
<1> DEFINE n == stats["slim"].in_pkts
<1>1. /\ TypeOK /\ capture \in Captures /\ n \in Nat /\ n <= N /\ due <= n
      /\ tmp.pieces = SlimOf(capture, n) /\ tmp.pieces \in Seq(PieceType)
      /\ capture.end[n] <= size
  BY Types DEF RInv, IInv, TypeOK, Done, Within, SourceCovers, Chunk
<1> HIDE DEF n
<1>2. tmp.pieces \o <<>> = SlimOf(capture, n) /\ <<>> \in Seq(PieceType)
  <2>1. <<>> \in Seq(PieceType)
    OBVIOUS
  <2> QED
    BY <1>1, <2>1, Concat
<1>3. Len(tmp.pieces) = n + 1
  BY <1>1, SlimOfFacts DEF N
<1>4. Copied = IF Len(tmp.pieces) = 0 THEN 0 ELSE Len(tmp.pieces) - 1
  BY <1>1, <1>2, PrefixCopied DEF Copied
<1>5. Copied = n
  BY <1>1, <1>3, <1>4
<1>6. n <= Begun
  BY <1>1, EndIsBegun
<1> QED
  BY <1>1, <1>5, <1>6 DEF n

CopyInBounds ==
    /\ Copied = stats["slim"].in_pkts
    /\ Copied \in Nat /\ Copied <= Begun /\ due <= Copied

LEMMA CopiedInBounds == RInv /\ outcome["slim"] = "ok" => CopyInBounds
BY CopiedDone DEF CopyInBounds

\* What is in it before.
LEMMA CopiedFresh ==
    ASSUME tmp = Empty
    PROVE  Copied = 0
BY DEF Copied, CopiedOf, Empty

\* Where the outcomes put the copy.
LEMMA States ==
    ASSUME IInv
    PROVE  /\ pass = "check" => State = "idle" /\ Intact = TRUE
           /\ pass = "slim" /\ pc = "open" => State = "idle" /\ Intact = TRUE
           /\ pass = "slim" /\ pc \notin {"open", "over"} => State = "copying" /\ Intact = TRUE
           /\ pass = "slim" /\ pc = "over" /\ outcome["slim"] = "ok" => State = "written"
           /\ pass = "count" /\ pc # "over" => State = "written"
           /\ outcome["slim"] = "err" => State = "rejected"
<1>1. /\ pass \in Passes /\ outcome["slim"] \in {"none", "ok", "err"}
      /\ outcome["count"] \in {"none", "ok", "err"}
  BY DEF IInv, TypeOK
<1>2. /\ pass = "check" \/ (pass = "slim" /\ pc # "over") => outcome["slim"] = "none"
      /\ pass # "count" \/ pc # "over" => outcome["count"] = "none"
      /\ pass = "count" => outcome["slim"] = "ok"
  BY DEF IInv, Fresh, Counting
<1>3. pass = "check" => State = "idle" /\ Intact = TRUE
  BY <1>1, <1>2, StateFacts DEF State, Intact
<1>4. pass = "slim" /\ pc = "open" => State = "idle" /\ Intact = TRUE
  BY <1>1, <1>2, StateFacts DEF State, Intact
<1>5. pass = "slim" /\ pc \notin {"open", "over"} => State = "copying" /\ Intact = TRUE
  BY <1>1, <1>2, StateFacts DEF State, Intact
<1>6. pass = "slim" /\ pc = "over" /\ outcome["slim"] = "ok" => State = "written"
  BY <1>1, <1>2, StateFacts DEF State
<1>7. pass = "count" /\ pc # "over" => State = "written"
  BY <1>1, <1>2, StateFacts DEF State
<1>8. outcome["slim"] = "err" => State = "rejected"
  BY <1>1, StateFacts DEF State
<1> QED
  BY <1>3, <1>4, <1>5, <1>6, <1>7, <1>8

\* A step that leaves the files and the verdicts on the copy alone.
LEMMA QuietMaps ==
    ASSUME UNCHANGED <<source, tmp, cut, due>>,
           outcome'["slim"] = outcome["slim"], outcome'["count"] = outcome["count"],
           (pass' = "slim" /\ pc' # "open") <=> (pass = "slim" /\ pc # "open")
    PROVE  Maps
<1>1. UNCHANGED <<capture, size, tmp, cut, due>>
  BY DEF source
<1>2. Begun' = Begun /\ Copied' = Copied
  BY <1>1 DEF Begun, IsBegun, Copied, CopiedOf, SlimPrefix, Slimmed
<1>3. Intact' = Intact /\ State' = State
  BY <1>1 DEF Intact, State, StateOf
<1> QED
  BY <1>1, <1>2, <1>3, Mapping

LEMMA OpenMaps == ASSUME IInv, IInv', Open PROVE Maps
<1>1. /\ pc = "open" /\ pc' = "header" /\ UNCHANGED <<source, pass, cut, outcome>>
      /\ pass # "slim" => UNCHANGED <<tmp, due>>
  BY DEF Open
<1>2. CASE pass # "slim"
  BY <1>1, <1>2, QuietMaps
<1>3. CASE pass = "slim"
  <2>1. PICK k \in 0..Len(capture.recs) : IsBegun(k, size) /\ due' = k
    BY <1>3 DEF Open
  <2>2. due' = Begun
    BY <2>1, BegunFacts DEF IInv, N
  <2>3. tmp = Empty /\ tmp' = Empty
    BY <1>1, <1>3 DEF Open, IInv, Fresh
  <2>4. Copied = 0 /\ Copied' = 0
    BY <2>3, CopiedFresh DEF Copied, CopiedOf, Empty
  <2>5. Begun' = Begun
    BY <1>1 DEF Begun, IsBegun, source
  <2>6. State = "idle" /\ Intact = TRUE
    BY <1>1, <1>3, States
  <2>7. /\ outcome["slim"] = "none" /\ outcome["count"] = "none"
        /\ outcome' = outcome /\ pass' = "slim"
    BY <1>1, <1>3 DEF IInv, Fresh
  <2>8. State' = "copying" /\ Intact' = TRUE
    BY <1>1, <2>7 DEF State, StateOf, Intact
  <2> QED
    BY <2>2, <2>4, <2>5, <2>6, <2>8, Mapping
<1> QED
  BY <1>2, <1>3

\* A pass that fails gives the copy up, whatever of the buffer was stored.
LEMMA FailMaps ==
    ASSUME RInv, Fail, pc # "over", UNCHANGED <<source, pass>>
    PROVE  Maps
<1>1. /\ pc' = "over" /\ outcome' = [outcome EXCEPT ![pass] = "err"]
      /\ UNCHANGED <<source, pass, cut, due>>
      /\ pass # "slim" => UNCHANGED tmp
  BY DEF Fail, End
<1>2. IInv /\ pass \in Passes /\ outcome \in [Passes -> {"none", "ok", "err"}]
  BY DEF RInv, IInv, TypeOK
<1>3. /\ outcome'[pass] = "err" /\ \A p \in Passes : p # pass => outcome'[p] = outcome[p]
  BY <1>1, <1>2
<1>4. Begun' = Begun /\ Begun \in Nat
  BY <1>1, <1>2, BegunFacts DEF Begun, IsBegun, source, IInv
<1>5. CASE pass = "check"
  BY <1>1, <1>3, <1>5, QuietMaps
<1>6. CASE pass = "count"
  <2>1. State = "written" /\ outcome["slim"] = "ok" /\ outcome'["slim"] = "ok"
    BY <1>2, <1>3, <1>6, States DEF IInv, Counting
  <2>2. State' = "rejected"
    BY <1>3, <1>6 DEF State, StateOf
  <2>3. Copied' = Copied /\ Intact' = Intact /\ UNCHANGED <<Begun, due>>
    BY <1>1, <1>4, <1>6, <2>1 DEF Copied, CopiedOf, SlimPrefix, Slimmed, Intact, source
  <2>4. Copied \in Nat /\ Copied <= Begun
    BY <2>1, CopiedDone
  <2>5. Copied' \in Copied..Begun
    BY <1>4, <2>3, <2>4
  <2> QED
    BY <2>1, <2>2, <2>3, <2>5, Mapping
<1>7. CASE pass = "slim"
  <2>1. /\ outcome["slim"] = "none" /\ outcome'["slim"] = "err"
        /\ State' = "rejected" /\ Intact = TRUE /\ Intact' = TRUE
    BY <1>2, <1>3, <1>7 DEF IInv, Fresh, State, StateOf, Intact
  <2>2. tmp' = tmp \/ tmp' = Join(tmp, buf)
    BY <1>7 DEF Fail
  <2>3. CASE pc \in {"open", "header"}
    <3>1. tmp = Empty /\ buf = Empty
      BY <1>2, <1>7, <2>3 DEF IInv, Fresh
    <3>2. tmp'.pieces = <<>>
      <4>1. /\ Empty \in Chunk /\ Empty.pieces = <<>>
            /\ Join(Empty, Empty).pieces = Empty.pieces \o Empty.pieces
        BY EmptyFacts, JoinFacts
      <4>2. <<>> \in Seq(PieceType)
        OBVIOUS
      <4>3. <<>> \o <<>> = <<>>
        BY <4>2, Concat
      <4>4. tmp' = Empty \/ tmp' = Join(Empty, Empty)
        BY <2>2, <3>1
      <4> QED
        BY <4>1, <4>3, <4>4
    <3>3. Copied = 0 /\ Copied' = 0
      BY <3>1, <3>2, CopiedFresh DEF Copied, CopiedOf
    <3>4. State \in {"idle", "copying"}
      BY <1>2, <1>7, <2>3, States
    <3>5. Copied' \in Copied..Begun
      BY <1>4, <3>3
    <3> QED
      BY <1>1, <1>4, <2>1, <3>3, <3>4, <3>5, Mapping
  <2>4. CASE pc \in {"record", "body", "write", "sync"}
    <3> DEFINE s == tmp.pieces
               b == buf.pieces
               c == batch.pieces
               r == tmp'.pieces
    <3>1. /\ capture \in Captures /\ at \in Nat /\ at <= N
          /\ s \in Seq(PieceType) /\ b \in Seq(PieceType) /\ c \in Seq(PieceType)
      BY <1>2, Types DEF IInv, Chunk
    <3>2. (s \o b) \o c = SlimOf(capture, at)
      BY <1>2, <1>7, <2>4 DEF IInv, Writing
    <3>3. r = s \/ r = s \o b
      <4>1. Join(tmp, buf).pieces = s \o b
        BY DEF Join
      <4>2. CASE tmp' = tmp
        BY <4>2
      <4>3. CASE tmp' = Join(tmp, buf)
        BY <4>1, <4>3
      <4> QED
        BY <2>2, <4>2, <4>3
    <3>4. Copied = (IF Len(s) = 0 THEN 0 ELSE Len(s) - 1) /\ Copied \in Nat /\ Copied <= at
      BY <1>2, <1>7, <2>4, CopiedWriting
    <3>5. Copied' = CopiedOf(r)
      BY <1>1 DEF Copied, CopiedOf, SlimPrefix, Slimmed, source
    <3>6. CopiedOf(s) = Copied
      BY DEF Copied
    <3> HIDE DEF s, b, c, r
    <3>7. s \o b \in Seq(PieceType) /\ Len(s \o b) = Len(s) + Len(b)
          /\ Len(s) \in Nat /\ Len(b) \in Nat
      BY <3>1, Concat, ConcatProperties
    <3>8. /\ CopiedOf(s \o b) = IF Len(s \o b) = 0 THEN 0 ELSE Len(s \o b) - 1
          /\ CopiedOf(s \o b) \in Nat /\ CopiedOf(s \o b) <= at
      BY <3>1, <3>2, <3>7, PrefixCopied
    <3>9. Copied' \in Nat /\ Copied <= Copied' /\ Copied' <= at
      <4>1. CASE r = s
        BY <3>4, <3>5, <3>6, <4>1
      <4>2. CASE r = s \o b
        <5> DEFINE m == Len(s)
                   n == Len(b)
        <5>1. Copied' = (IF m + n = 0 THEN 0 ELSE m + n - 1) /\ Copied' \in Nat /\ Copied' <= at
          BY <3>5, <3>7, <3>8, <4>2
        <5>2. m \in Nat /\ n \in Nat /\ Copied = IF m = 0 THEN 0 ELSE m - 1
          BY <3>4, <3>7
        <5> HIDE DEF m, n
        <5> QED
          BY <5>1, <5>2
      <4> QED
        BY <3>3, <4>1, <4>2
    <3>10. at <= Begun
      <4>1. at <= Begun \/ at + 1 <= Begun
        BY <1>7, <2>4, ReadIsBegun
      <4> QED
        BY <1>4, <3>1, <4>1
    <3>11. Copied' \in Copied..Begun
      BY <1>4, <3>1, <3>4, <3>9, <3>10
    <3>12. State = "copying"
      BY <1>2, <1>7, <2>4, States
    <3> QED
      BY <1>1, <1>4, <2>1, <3>11, <3>12, Mapping
  <2> QED
    BY <1>2, <1>7, <2>3, <2>4 DEF IInv, TypeOK
<1> QED
  BY <1>2, <1>5, <1>6, <1>7

LEMMA ReadGlobalHeaderMaps == ASSUME RInv, ReadGlobalHeader PROVE Maps
<1>1. pc = "header" /\ UNCHANGED <<source, pass>>
  BY DEF ReadGlobalHeader
<1>2. CASE Readable(PCAP_HDR_LEN) /\ capture.magic
  <2>1. pc' = "record" /\ UNCHANGED <<tmp, cut, outcome, due>>
    BY <1>2 DEF ReadGlobalHeader
  <2> QED
    BY <1>1, <2>1, QuietMaps
<1>3. CASE ~(Readable(PCAP_HDR_LEN) /\ capture.magic)
  <2>1. Fail
    BY <1>3 DEF ReadGlobalHeader
  <2> QED
    BY <1>1, <2>1, FailMaps
<1> QED
  BY <1>2, <1>3

LEMMA LoopMaps ==
    ASSUME ReadRecordHeader \/ Analyze \/ ReadFrame \/ SkipFrame \/ CountPacket
    PROVE  Maps
<1>1. /\ UNCHANGED <<source, pass, writer, outcome, due>>
      /\ pc # "open" /\ pc' # "open"
  BY DEF ReadRecordHeader, Analyze, ReadFrame, SkipFrame, CountPacket, Here
<1>2. UNCHANGED <<tmp, cut>>
  BY <1>1 DEF writer
<1> QED
  BY <1>1, <1>2, QuietMaps

LEMMA AnalyzedMaps == ASSUME IInv, Analyzed PROVE Maps
<1>1. /\ UNCHANGED <<source, pass, writer, due>> /\ pass = "check"
      /\ outcome' = [outcome EXCEPT !["check"] = "ok"]
      /\ outcome \in [Passes -> {"none", "ok", "err"}]
  BY DEF Analyzed, Here, End, IInv, TypeOK
<1>2. UNCHANGED <<tmp, cut>>
  BY <1>1 DEF writer
<1> QED
  BY <1>1, <1>2, QuietMaps

\* Nothing that is in the file leaves it.
LEMMA WriteAllAppends ==
    ASSUME NEW chunk \in Chunk, tmp \in Chunk, buf \in Chunk, WriteAll(chunk)
    PROVE  Len(tmp'.pieces) >= Len(tmp.pieces)
<1> DEFINE t == tmp.pieces
           b == buf.pieces
           c == chunk.pieces
<1>1. /\ t \in Seq(PieceType) /\ b \in Seq(PieceType) /\ c \in Seq(PieceType)
  BY DEF Chunk
<1>2. \/ tmp'.pieces = t \/ tmp'.pieces = t \o b
      \/ tmp'.pieces = (t \o b) \o c \/ tmp'.pieces = t \o c
  <2>1. \/ tmp' = tmp \/ tmp' = Join(tmp, buf)
        \/ tmp' = Join(Join(tmp, buf), chunk) \/ tmp' = Join(tmp, chunk)
    BY DEF WriteAll
  <2>2. /\ Join(tmp, buf).pieces = t \o b /\ Join(tmp, chunk).pieces = t \o c
        /\ Join(Join(tmp, buf), chunk).pieces = (t \o b) \o c
    BY DEF Join
  <2> HIDE DEF t, b, c
  <2>3. tmp' = tmp => tmp'.pieces = t
    BY DEF t
  <2> QED
    BY <2>1, <2>2, <2>3
<1> HIDE DEF t, b, c
<1>3. /\ Len(t \o b) = Len(t) + Len(b) /\ Len(t \o c) = Len(t) + Len(c)
      /\ t \o b \in Seq(PieceType)
      /\ Len(t) \in Nat /\ Len(b) \in Nat /\ Len(c) \in Nat
  BY <1>1, ConcatProperties
<1>4. Len((t \o b) \o c) = Len(t \o b) + Len(c)
  BY <1>1, <1>3, ConcatProperties
<1>5. Len(tmp'.pieces) >= Len(t)
  BY <1>2, <1>3, <1>4
<1> QED
  BY <1>5 DEF t

\* More of the records that have been read are in the file, or as many.
LEMMA StoreMaps ==
    ASSUME RInv, IInv', pass = "slim", pc \in {"record", "write"},
           pass' = "slim", pc' \in {"record", "sync"},
           UNCHANGED <<source, outcome, cut, due>>,
           tmp' = tmp \/ WriteAll(batch), at' <= Begun
    PROVE  Maps
<1>1. IInv /\ capture \in Captures /\ tmp \in Chunk /\ buf \in Chunk /\ batch \in Chunk
  BY Types DEF RInv, IInv
<1>2. /\ Copied = IF Len(tmp.pieces) = 0 THEN 0 ELSE Len(tmp.pieces) - 1
      /\ Copied \in Nat
  BY <1>1, CopiedWriting
<1>3. /\ Copied' = IF Len(tmp'.pieces) = 0 THEN 0 ELSE Len(tmp'.pieces) - 1
      /\ Copied' \in Nat /\ Copied' <= at' /\ at' \in Nat
  <2> DEFINE s == tmp'.pieces
             b == buf'.pieces
             c == batch'.pieces
  <2>1. capture' = capture /\ N' = N
    BY DEF source, N
  <2>2. /\ s \in Seq(PieceType) /\ b \in Seq(PieceType) /\ c \in Seq(PieceType)
        /\ at' \in Nat /\ at' <= N /\ (s \o b) \o c = SlimOf(capture, at')
    <3>1. /\ tmp' \in Chunk /\ buf' \in Chunk /\ batch' \in Chunk
          /\ at' \in 0..Len(capture'.recs)
      BY DEF IInv, TypeOK
    <3>2. (s \o b) \o c = SlimOf(capture, at')
      BY <2>1 DEF IInv, Writing
    <3>3. at' \in Nat /\ at' <= N
      BY <1>1, <2>1, <3>1, Layout DEF N
    <3> QED
      BY <3>1, <3>2, <3>3 DEF Chunk
  <2>3. s \o (b \o c) = SlimOf(capture, at') /\ b \o c \in Seq(PieceType)
    <3>0. s \in Seq(PieceType) /\ b \in Seq(PieceType) /\ c \in Seq(PieceType)
      BY <2>2
    <3> HIDE DEF s, b, c
    <3>1. (s \o b) \o c = s \o (b \o c)
      BY <3>0, Concat
    <3>2. b \o c \in Seq(PieceType)
      BY <3>0, Concat
    <3>3. (s \o b) \o c = SlimOf(capture, at')
      BY <2>2
    <3> QED
      BY <3>1, <3>2, <3>3
  <2>4. /\ CopiedOf(s) = IF Len(s) = 0 THEN 0 ELSE Len(s) - 1
        /\ CopiedOf(s) \in Nat /\ CopiedOf(s) <= at'
    <3> HIDE DEF s, b, c
    <3> QED
      BY <1>1, <2>2, <2>3, PrefixCopied
  <2>5. Copied' = CopiedOf(s)
    BY <2>1 DEF Copied, CopiedOf, SlimPrefix, Slimmed
  <2> QED
    BY <2>2, <2>4, <2>5
<1>4. Begun' = Begun /\ Begun \in Nat
  BY <1>1, BegunFacts DEF Begun, IsBegun, source, IInv
<1>5. Len(tmp'.pieces) >= Len(tmp.pieces) /\ Len(tmp.pieces) \in Nat /\ Len(tmp'.pieces) \in Nat
  <2>1. tmp' \in Chunk
    BY DEF IInv, TypeOK
  <2>2. Len(tmp.pieces) \in Nat /\ Len(tmp'.pieces) \in Nat
    BY <1>1, <2>1 DEF Chunk
  <2> QED
    BY <1>1, <2>2, WriteAllAppends
<1>6. Copied <= Copied'
  <2> DEFINE m == Len(tmp.pieces)
             n == Len(tmp'.pieces)
  <2>1. /\ Copied = (IF m = 0 THEN 0 ELSE m - 1) /\ Copied' = (IF n = 0 THEN 0 ELSE n - 1)
        /\ m \in Nat /\ n \in Nat /\ n >= m
    BY <1>2, <1>3, <1>5
  <2> HIDE DEF m, n
  <2> QED
    BY <2>1
<1>7. State = "copying" /\ State' = State /\ Intact' = Intact
  BY <1>1, States DEF State, StateOf, Intact
<1>8. Copied' = Copied \/ Copied' \in (Copied + 1)..Begun
  BY <1>2, <1>3, <1>4, <1>6
<1> QED
  BY <1>4, <1>7, <1>8, Mapping

LEMMA WriteRecordMaps == ASSUME RInv, IInv', WriteRecord PROVE Maps
<1>1. /\ pass = "slim" /\ pc = "write" /\ pc' = "record" /\ at' = at + 1
      /\ UNCHANGED <<source, pass, cut, outcome, due>>
      /\ tmp' = tmp \/ WriteAll(batch)
  BY DEF WriteRecord, Here
<1>2. at' <= Begun
  BY <1>1, ReadIsBegun
<1> QED
  BY <1>1, <1>2, StoreMaps

LEMMA EndOfSourceMaps == ASSUME RInv, IInv', EndOfSource PROVE Maps
<1>1. /\ pass = "slim" /\ pc = "record" /\ pc' = "sync" /\ at' = at
      /\ UNCHANGED <<source, pass, cut, outcome, due>>
      /\ tmp' = tmp \/ WriteAll(batch)
  BY DEF EndOfSource, AtEnd, Here
<1>2. at' <= Begun
  BY <1>1, ReadIsBegun
<1> QED
  BY <1>1, <1>2, StoreMaps

LEMMA SyncMaps == ASSUME RInv, RInv', Sync PROVE Maps
<1>1. /\ pass = "slim" /\ pc = "sync" /\ pc' = "over" /\ pass' = "slim"
      /\ outcome' = [outcome EXCEPT !["slim"] = "ok"]
      /\ UNCHANGED <<source, pass, due>>
      /\ cut' = tmp'.len
      /\ stats' = [stats EXCEPT !["slim"].out_bytes = tmp'.len]
  BY DEF Sync, Here, End
<1>2. /\ IInv /\ outcome \in [Passes -> {"none", "ok", "err"}]
      /\ stats \in [Passes -> [in_pkts : Nat, truncated : Nat, kept : Nat, out_bytes : Nat]]
  BY DEF RInv, IInv, TypeOK
<1>3. /\ outcome["slim"] = "none" /\ outcome'["slim"] = "ok"
      /\ outcome["count"] = "none" /\ outcome'["count"] = "none"
  BY <1>1, <1>2 DEF IInv, Fresh
<1>4. State = "copying" /\ State' = "written" /\ Intact = TRUE /\ Intact' = TRUE
  BY <1>1, <1>2, <1>3, States DEF State, StateOf, Intact
<1>5. Begun' = Begun /\ Begun \in Nat
  BY <1>1, <1>2, BegunFacts DEF Begun, IsBegun, source, IInv
<1>6. Copied \in Nat /\ Copied <= at /\ at \in Nat
  BY <1>1, <1>2, CopiedWriting, Types DEF IInv
<1>7. stats'["slim"].in_pkts = at
  <2> DEFINE s == stats["slim"]
             next == [s EXCEPT !.out_bytes = tmp'.len]
  <2>1. s \in [in_pkts : Nat, truncated : Nat, kept : Nat, out_bytes : Nat]
    BY <1>2
  <2>2. next.in_pkts = s.in_pkts
    <3> HIDE DEF s
    <3> QED
      BY <2>1
  <2>3. stats'["slim"] = next
    BY <1>1, <1>2
  <2>4. s.in_pkts = at
    BY <1>1, <1>2 DEF IInv, Writing
  <2> QED
    BY <2>2, <2>3, <2>4
<1>8. CopyInBounds'
  <2>1. (RInv /\ outcome["slim"] = "ok")' => CopyInBounds'
    BY CopiedInBounds, PTL
  <2> QED
    BY <1>3, <2>1
<1>9. Copied' = at /\ Copied' \in Nat /\ Copied' <= Begun /\ due <= Copied'
  BY <1>1, <1>5, <1>7, <1>8 DEF CopyInBounds
<1>10. Copied' \in Copied..Begun /\ Copied' >= due
  <2>1. due \in Nat
    BY <1>2, Types DEF IInv, TypeOK
  <2> QED
    BY <1>5, <1>6, <1>9, <2>1
<1> QED
  BY <1>1, <1>4, <1>5, <1>10, Mapping

LEMMA CountDoneMaps == ASSUME RInv, RInv', CountDone PROVE Maps
<1> DEFINE verdict == IF Verified THEN "ok" ELSE "err"
<1>1. /\ pass = "count" /\ pc = "record"
      /\ outcome' = [outcome EXCEPT !["count"] = verdict]
      /\ UNCHANGED <<source, writer, due>>
  BY DEF CountDone, Here, End
<1>2. UNCHANGED <<capture, size, tmp, cut, due>>
  BY <1>1 DEF source, writer
<1>3. /\ IInv /\ outcome \in [Passes -> {"none", "ok", "err"}] /\ outcome["slim"] = "ok"
  BY <1>1 DEF RInv, IInv, TypeOK, Counting
<1>4. outcome'["slim"] = "ok" /\ outcome'["count"] = verdict
  BY <1>1, <1>3
<1>5. State = "written"
  BY <1>1, <1>3, States
<1>6. UNCHANGED <<Begun, Copied, Intact>>
  BY <1>2, <1>3, <1>4 DEF Begun, IsBegun, Copied, CopiedOf, SlimPrefix, Slimmed, Intact
<1>7. CASE Verified
  <2>1. outcome'["count"] = "ok" /\ State' = "accepted"
    BY <1>4, <1>7 DEF State, StateOf
  <2>2. cut = tmp.len
    BY <1>2, <2>1 DEF RInv, IInv, VerifiedMeansComplete
  <2> QED
    BY <1>2, <1>5, <1>6, <2>1, <2>2, Mapping DEF Intact
<1>8. CASE ~Verified
  <2>1. State' = "rejected"
    BY <1>4, <1>8 DEF State, StateOf
  <2>2. Copied' \in Copied..Begun
    <3>1. Copied \in Nat /\ Copied <= Begun /\ Begun \in Nat
      BY <1>3, CopiedDone, BegunFacts DEF IInv
    <3> QED
      BY <1>6, <3>1
  <2> QED
    BY <1>2, <1>5, <1>6, <2>1, <2>2, Mapping
<1> QED
  BY <1>7, <1>8

LEMMA NextPassMaps == ASSUME RInv, NextPass PROVE Maps
<1>1. /\ pc = "over" /\ pc' = "open"
      /\ \/ pass = "check" /\ pass' = "slim"
         \/ pass = "slim" /\ outcome["slim"] = "ok" /\ pass' = "count"
      /\ UNCHANGED <<source, writer, outcome, due>>
  BY DEF NextPass
<1>2. UNCHANGED <<capture, size, tmp, cut, due>>
  BY <1>1 DEF source, writer
<1>3. CASE pass = "check"
  BY <1>1, <1>2, <1>3, QuietMaps DEF source
<1>4. CASE pass = "slim" /\ outcome["slim"] = "ok" /\ pass' = "count"
  <2>1. UNCHANGED <<Begun, Copied, Intact>>
    BY <1>1, <1>2 DEF Begun, IsBegun, Copied, CopiedOf, SlimPrefix, Slimmed, Intact
  <2>2. outcome["count"] = "none"
    BY <1>4 DEF RInv, IInv, Fresh
  <2>3. State' = State
    BY <1>1, <1>4, <2>2 DEF State, StateOf
  <2> QED
    BY <1>2, <2>1, <2>3, Mapping
<1> QED
  BY <1>1, <1>3, <1>4

LEMMA DamageMaps == ASSUME RInv, Damage PROVE Maps
<1>1. /\ pass = "count" /\ pc = "open"
      /\ UNCHANGED <<source, pass, pc, tmp, outcome, due>>
  BY DEF Damage, Here
<1>2. /\ IInv /\ outcome["slim"] = "ok" /\ tmp \in Chunk /\ cut \in 0..tmp.len
  BY <1>1 DEF RInv, IInv, TypeOK, Counting
<1>3. cut' \in Nat /\ cut' < cut /\ cut <= tmp.len /\ tmp.len \in Nat /\ cut \in Nat
  <2>1. tmp.len \in Nat
    BY <1>2 DEF Chunk
  <2>2. cut' \in Nat /\ cut' < cut
    BY ConstantsAssumption DEF Damage
  <2> QED
    BY <1>2, <2>1, <2>2
<1>4. UNCHANGED <<Begun, Copied, State>>
  BY <1>1 DEF Begun, IsBegun, Copied, CopiedOf, SlimPrefix, Slimmed, State, StateOf, source
<1>5. Intact' = FALSE
  <2>1. cut' # tmp.len
    BY <1>3
  <2> QED
    BY <1>1, <1>2, <2>1 DEF Intact
<1>6. State = "written"
  BY <1>1, <1>2, States
<1> QED
  BY <1>1, <1>4, <1>5, <1>6, Mapping

LEMMA GrowMaps == ASSUME RInv, Grow PROVE Maps
<1>1. /\ UNCHANGED <<capture, pass, pc, writer, outcome, due>>
      /\ size \in Nat /\ size' \in Nat /\ size < size'
  BY ConstantsAssumption, Types DEF RInv, IInv, Grow
<1>2. TypeOK /\ capture \in Captures
  BY Types DEF RInv, IInv
<1>3. UNCHANGED <<due, Copied, Intact, State>>
  BY <1>1 DEF Copied, CopiedOf, SlimPrefix, Slimmed, Intact, State, StateOf, writer
<1>4. Begun \in 0..Len(capture.recs) /\ IsBegun(Begun, size) /\ Begun \in Nat
  BY <1>2, BegunFacts
<1>5. Begun' \in 0..Len(capture.recs) /\ IsBegun(Begun', size')
  <2> DEFINE b == CHOOSE k \in 0..Len(capture.recs) : IsBegun(k, size')
  <2>1. b \in 0..Len(capture.recs) /\ IsBegun(b, size')
    <3>1. \E k \in 0..Len(capture.recs) : IsBegun(k, size')
      BY <1>1, <1>2, BegunExists
    <3> QED
      BY <3>1
  <2>2. Begun' = b
    BY <1>1 DEF Begun, IsBegun
  <2> HIDE DEF b
  <2> QED
    BY <2>1, <2>2
<1>6. Begun <= Begun'
  <2> DEFINE b == Begun'
             n == size'
  <2>1. b \in 0..Len(capture.recs) /\ IsBegun(b, n) /\ n \in Nat /\ size <= n
    BY <1>1, <1>5
  <2> HIDE DEF b, n
  <2>2. Begun <= b
    BY <1>1, <1>2, <1>4, <2>1, BegunOrder
  <2> QED
    BY <2>2 DEF b
<1>7. Begun' \in Nat
  <2>1. Len(capture.recs) \in Nat
    BY <1>2, Layout
  <2> QED
    BY <1>5, <2>1
<1>8. Begun' = Begun \/ Begun' > Begun
  BY <1>4, <1>6, <1>7
<1> QED
  BY <1>3, <1>7, <1>8, Mapping

-----------------------------------------------------------------------------
(* Nothing beyond the source is read.                                      *)

\* A step that returns no copy.
LEMMA CoversKept ==
    ASSUME IInv, SourceCovers, capture' = capture, size' \in Nat, size <= size',
           outcome'["slim"] = "ok" => outcome["slim"] = "ok" /\ stats'["slim"] = stats["slim"]
    PROVE  SourceCovers'
<1> SUFFICES ASSUME outcome'["slim"] = "ok"
             PROVE  capture.end[stats["slim"].in_pkts] <= size'
  BY DEF SourceCovers
<1>1. /\ capture \in Captures /\ size \in Nat
      /\ stats["slim"].in_pkts \in Nat /\ stats["slim"].in_pkts <= Len(capture.recs)
      /\ capture.end[stats["slim"].in_pkts] <= size
  BY Types DEF IInv, TypeOK, Done, SourceCovers, N
<1>2. capture.end[stats["slim"].in_pkts] \in Nat
  BY <1>1, Layout
<1> QED
  BY <1>1, <1>2

\* A step that does not read.
LEMMA NotBeyondKept ==
    ASSUME IInv, NotBeyond, size' \in Nat, size <= size', UNCHANGED <<pass, off, view>>
    PROVE  NotBeyond'
<1>1. /\ size \in Nat /\ off \in Nat /\ (view # Growing => view \in Nat)
  BY Types DEF IInv, TypeOK
<1>2. CASE pass = "count"
  BY <1>2 DEF NotBeyond
<1>3. CASE pass # "count"
  <2>1. off <= size' /\ (view # Growing => view <= size')
    BY <1>1, <1>3 DEF NotBeyond
  <2> QED
    BY <2>1 DEF NotBeyond
<1> QED
  BY <1>2, <1>3

LEMMA FailWithin ==
    ASSUME IInv, Within, Fail, UNCHANGED <<source, pass>>
    PROVE  Within'
<1>1. /\ outcome' = [outcome EXCEPT ![pass] = "err"]
      /\ UNCHANGED <<capture, size, pass, off, view, stats>>
  BY DEF Fail, End, source, reader
<1>2. size \in Nat /\ outcome \in [Passes -> {"none", "ok", "err"}]
  BY Types DEF IInv, TypeOK
<1>3. outcome'["slim"] = "ok" => outcome["slim"] = "ok"
  BY <1>1, <1>2
<1> QED
  BY <1>1, <1>2, <1>3, NotBeyondKept, CoversKept DEF Within

\* A step that reads n bytes of what it sees of the source.
LEMMA ReadWithin ==
    ASSUME IInv, NotBeyond, NEW n \in Nat, Readable(n), off' = off + n,
           UNCHANGED <<size, pass, view>>
    PROVE  NotBeyond'
<1> SUFFICES ASSUME pass # "count" PROVE off + n <= size /\ (view # Growing => view <= size)
  BY DEF NotBeyond
<1>1. size \in Nat /\ off \in Nat /\ (view # Growing => view \in Nat /\ view <= size)
  BY Types DEF IInv, TypeOK, NotBeyond
<1>2. Extent <= size /\ Extent \in Nat
  BY <1>1 DEF Extent
<1> QED
  BY <1>1, <1>2 DEF Readable

LEMMA ReadsWithin ==
    ASSUME IInv, Within, ReadRecordHeader \/ Analyze \/ ReadFrame
    PROVE  Within'
<1>1. UNCHANGED <<capture, size, pass, view, outcome>> /\ size \in Nat
  BY Types DEF ReadRecordHeader, Analyze, ReadFrame, source, IInv
<1>2. outcome'["slim"] = "ok" => outcome["slim"] = "ok" /\ stats'["slim"] = stats["slim"]
  <2>1. CASE ReadRecordHeader
    BY <1>1, <2>1 DEF ReadRecordHeader
  <2>2. CASE Analyze
    BY <1>1, <2>2 DEF Analyze, Here, IInv, TypeOK
  <2>3. CASE ReadFrame
    BY <1>1, <2>3 DEF ReadFrame, Here, IInv, Fresh
  <2> QED
    BY <2>1, <2>2, <2>3
<1>3. NotBeyond'
  <2>1. CASE ReadRecordHeader
    BY <1>1, <2>1, ReadWithin DEF ReadRecordHeader, Within
  <2>2. CASE Analyze \/ ReadFrame
    <3>1. remaining \in Nat
      BY Types DEF IInv
    <3> QED
      BY <1>1, <2>2, <3>1, ReadWithin DEF Analyze, ReadFrame, Within
  <2> QED
    BY <2>1, <2>2
<1> QED
  BY <1>1, <1>2, <1>3, CoversKept DEF Within

LEMMA ReadGlobalHeaderWithin ==
    ASSUME IInv, Within, ReadGlobalHeader
    PROVE  Within'
<1>1. UNCHANGED <<source, capture, size, pass>> /\ size \in Nat
  BY Types DEF ReadGlobalHeader, source, IInv
<1>2. CASE Readable(PCAP_HDR_LEN) /\ capture.magic
  <2>1. off' = off + PCAP_HDR_LEN /\ UNCHANGED <<view, stats, outcome>>
    BY <1>2 DEF ReadGlobalHeader
  <2>2. NotBeyond'
    BY <1>1, <1>2, <2>1, ReadWithin DEF Within
  <2> QED
    BY <1>1, <2>1, <2>2, CoversKept DEF Within
<1>3. CASE ~(Readable(PCAP_HDR_LEN) /\ capture.magic)
  <2>1. Fail
    BY <1>3 DEF ReadGlobalHeader
  <2> QED
    BY <1>1, <2>1, FailWithin
<1> QED
  BY <1>2, <1>3

LEMMA CountsWithin ==
    ASSUME IInv, Within, SkipFrame \/ CountPacket
    PROVE  Within'
<1>1. /\ UNCHANGED <<capture, size, pass, outcome>> /\ size \in Nat /\ pass = "count"
      /\ stats \in [Passes -> [in_pkts : Nat, truncated : Nat, kept : Nat, out_bytes : Nat]]
  BY Types DEF SkipFrame, CountPacket, Here, source, IInv, TypeOK
<1>2. stats'["slim"] = stats["slim"]
  BY <1>1 DEF SkipFrame, CountPacket
<1>3. NotBeyond'
  BY <1>1 DEF NotBeyond
<1> QED
  BY <1>1, <1>2, <1>3, CoversKept DEF Within

LEMMA WritesWithin ==
    ASSUME IInv, Within, WriteRecord \/ EndOfSource \/ Analyzed \/ CountDone \/ Damage \/ Grow
    PROVE  Within'
<1>1. /\ size \in Nat /\ outcome \in [Passes -> {"none", "ok", "err"}]
      /\ stats \in [Passes -> [in_pkts : Nat, truncated : Nat, kept : Nat, out_bytes : Nat]]
  BY Types DEF IInv, TypeOK
<1>2. UNCHANGED <<capture, pass, view>>
  BY DEF WriteRecord, EndOfSource, Analyzed, CountDone, AtEnd, Damage, Grow, source, reader
<1>3. size' \in Nat /\ size <= size'
  <2>1. CASE Grow
    BY <1>1, <2>1, ConstantsAssumption DEF Grow
  <2>2. CASE WriteRecord \/ EndOfSource \/ Analyzed \/ CountDone \/ Damage
    BY <1>1, <2>2 DEF WriteRecord, EndOfSource, Analyzed, CountDone, Damage, source
  <2> QED
    BY <2>1, <2>2
<1>4. outcome'["slim"] = "ok" => outcome["slim"] = "ok" /\ stats'["slim"] = stats["slim"]
  <2>1. CASE WriteRecord \/ EndOfSource \/ Damage \/ Grow
    BY <2>1 DEF WriteRecord, EndOfSource, Damage, Grow
  <2>2. CASE Analyzed
    BY <1>1, <2>2 DEF Analyzed, Here, End
  <2>3. CASE CountDone
    BY <1>1, <2>3 DEF CountDone, Here, End
  <2> QED
    BY <2>1, <2>2, <2>3
<1>5. NotBeyond'
  <2>1. CASE WriteRecord \/ Damage \/ Grow
    <3>1. UNCHANGED off
      BY <2>1 DEF WriteRecord, Damage, Grow, reader
    <3> QED
      BY <1>2, <1>3, <3>1, NotBeyondKept DEF Within
  <2>2. CASE EndOfSource \/ Analyzed \/ CountDone
    <3>1. off' = Extent /\ UNCHANGED size
      BY <2>2 DEF EndOfSource, Analyzed, CountDone, AtEnd, source
    <3> QED
      BY <1>1, <1>2, <3>1 DEF Within, NotBeyond, Extent
  <2> QED
    BY <2>1, <2>2
<1> QED
  BY <1>1, <1>2, <1>3, <1>4, <1>5, CoversKept DEF Within

LEMMA OpenWithin == ASSUME IInv, Within, Open PROVE Within'
<1>1. /\ UNCHANGED <<capture, size, pass, off, stats, outcome>> /\ size \in Nat
      /\ view' \in {Growing, IF pass = "count" THEN cut ELSE size}
  BY Types DEF Open, source, IInv
<1>2. NotBeyond'
  BY <1>1 DEF Within, NotBeyond
<1> QED
  BY <1>1, <1>2, CoversKept DEF Within

LEMMA NextPassWithin == ASSUME IInv, Within, NextPass PROVE Within'
<1>1. /\ UNCHANGED <<capture, size, stats, outcome>> /\ size \in Nat
      /\ view' = Growing /\ off' = 0
  BY Types DEF NextPass, source, IInv
<1>2. NotBeyond'
  BY <1>1 DEF NotBeyond
<1> QED
  BY <1>1, <1>2, CoversKept DEF Within

LEMMA SyncWithin == ASSUME IInv, Within, Sync PROVE Within'
<1>1. /\ UNCHANGED <<source, capture, size, pass, off, view>> /\ size \in Nat
      /\ pass = "slim" /\ pc = "sync"
      /\ stats' = [stats EXCEPT !["slim"].out_bytes = tmp'.len]
  BY Types DEF Sync, Here, source, reader, IInv
<1>2. stats'["slim"].in_pkts = at
  <2> DEFINE s == stats["slim"]
             next == [s EXCEPT !.out_bytes = tmp'.len]
  <2>1. s \in [in_pkts : Nat, truncated : Nat, kept : Nat, out_bytes : Nat]
    BY DEF IInv, TypeOK
  <2>2. next.in_pkts = s.in_pkts
    <3> HIDE DEF s
    <3> QED
      BY <2>1
  <2>3. stats'["slim"] = next
    BY <1>1 DEF IInv, TypeOK
  <2>4. s.in_pkts = at
    BY <1>1 DEF IInv, Writing
  <2> QED
    BY <2>2, <2>3, <2>4
<1>3. capture.end[at] <= size
  <2>1. capture.end[at] <= off /\ off <= size
    BY <1>1 DEF IInv, Reading, Within, NotBeyond
  <2>2. capture.end[at] \in Nat /\ off \in Nat
    BY Types, Layout DEF IInv, N
  <2> QED
    BY <1>1, <2>1, <2>2
<1>4. SourceCovers'
  BY <1>1, <1>2, <1>3 DEF SourceCovers
<1>5. NotBeyond'
  BY <1>1, NotBeyondKept DEF Within
<1> QED
  BY <1>4, <1>5 DEF Within

LEMMA WithinKeeps == ASSUME RInv, [Next]_vars PROVE Within'
<1>1. IInv /\ Within
  BY DEF RInv
<1>2. CASE Open \/ ReadGlobalHeader \/ ReadRecordHeader \/ Analyze \/ ReadFrame
  BY <1>1, <1>2, OpenWithin, ReadGlobalHeaderWithin, ReadsWithin
<1>3. CASE SkipFrame \/ CountPacket \/ WriteRecord \/ EndOfSource \/ Analyzed \/ CountDone
           \/ Damage \/ Grow
  BY <1>1, <1>3, CountsWithin, WritesWithin
<1>4. CASE FrameCutOff \/ IoError
  BY <1>1, <1>4, FailWithin DEF FrameCutOff, IoError
<1>5. CASE Sync \/ NextPass
  BY <1>1, <1>5, SyncWithin, NextPassWithin
<1>6. CASE UNCHANGED vars
  BY <1>1, <1>6 DEF Within, NotBeyond, SourceCovers, vars, source, reader
<1> QED
  BY <1>2, <1>3, <1>4, <1>5, <1>6 DEF Next, Step

LEMMA RefinementInit == Init => RInv
<1>1. Init => Within
  <2> SUFFICES ASSUME Init PROVE Within
    OBVIOUS
  <2>1. /\ size \in Nat /\ off = 0 /\ view = Growing
        /\ outcome = [p \in Passes |-> "none"]
    BY ConstantsAssumption DEF Init
  <2> QED
    BY <2>1 DEF Within, NotBeyond, SourceCovers
<1> QED
  BY <1>1, Initially DEF RInv

LEMMA RInvKeeps == RInv /\ [Next]_vars => RInv'
BY StepKeeps, WithinKeeps DEF RInv

-----------------------------------------------------------------------------
(* The refinement.                                                         *)

LEMMA StepImplements == ASSUME RInv, RInv', [Next]_vars PROVE Maps
<1>1. IInv /\ IInv'
  BY DEF RInv
<1>2. CASE Open \/ ReadGlobalHeader \/ ReadRecordHeader \/ Analyze \/ ReadFrame \/ SkipFrame
           \/ CountPacket
  BY <1>1, <1>2, OpenMaps, ReadGlobalHeaderMaps, LoopMaps
<1>3. CASE WriteRecord \/ EndOfSource \/ Sync
  BY <1>1, <1>3, WriteRecordMaps, EndOfSourceMaps, SyncMaps
<1>4. CASE Analyzed \/ CountDone \/ NextPass
  BY <1>1, <1>4, AnalyzedMaps, CountDoneMaps, NextPassMaps
<1>5. CASE FrameCutOff \/ IoError
  <2>1. Fail /\ pc # "over" /\ UNCHANGED <<source, pass>>
    BY <1>5 DEF FrameCutOff, IoError
  <2> QED
    BY <2>1, FailMaps
<1>6. CASE Damage \/ Grow
  BY <1>6, DamageMaps, GrowMaps
<1>7. CASE UNCHANGED vars
  BY <1>7, QuietMaps DEF vars, source, writer
<1> QED
  BY <1>2, <1>3, <1>4, <1>5, <1>6, <1>7 DEF Next, Step

\* The passes over a capture, whatever its records, wherever the buffers spill
\* and whatever fails, make the copy that CopyPass promises (slim_pcap,
\* verify_tmp_packet_count).
THEOREM CopyImplemented == Spec => ImplementsPromise
<1>1. Init => Promise!Init
  <2> SUFFICES ASSUME Init PROVE Promise!Init
    OBVIOUS
  <2>1. IInv
    BY Initially
  <2>2. Begun \in Nat
    BY <2>1, BegunFacts DEF IInv
  <2>3. State = "idle" /\ Intact = TRUE
    BY <2>1, States DEF Init
  <2>4. Copied = 0
    BY CopiedFresh DEF Init
  <2>5. due = 0
    BY DEF Init
  <2> QED
    BY <2>2, <2>3, <2>4, <2>5
    DEF Promise!Init, Begun, State, StateOf, Intact, Copied, CopiedOf
<1>2. RInv /\ RInv' /\ [Next]_vars => [Promise!Next]_(Promise!vars)
  BY StepImplements DEF Maps
<1> QED
  BY <1>1, <1>2, RefinementInit, RInvKeeps, PTL DEF Spec, ImplementsPromise, Promise!Spec
=============================================================================
