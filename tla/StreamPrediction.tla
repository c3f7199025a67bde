-------------------------- MODULE StreamPrediction --------------------------
(***************************************************************************)
(* Proof that --check-only predicts what slimming does to a capture that   *)
(* does not change (Stream.tla).  Both passes end Ok on the same captures, *)
(* and where they do they have read the same records.                      *)
(***************************************************************************)
EXTENDS StreamRefinement, FiniteSetTheorems

\* The records of capture c that slimming shortens, among the first n.
Shortened(c, n) == {k \in 1..n : c.recs[k].out < c.recs[k].incl}
Cuts(c, n) == Cardinality(Shortened(c, n))

\* Statistics s are those of the first n records of c.
Tally(c, s, n, bytes) ==
    /\ s.in_pkts = n
    /\ s.truncated = Cuts(c, n)
    /\ s.kept = n - Cuts(c, n)
    /\ s.out_bytes = bytes

\* Of m bytes of c the last record is n, and less than a header follows it.
Fits(c, m, n) == c.end[n] <= m /\ (n < Len(c.recs) => m < c.end[n] + 16)
Ends(c, m) == c.magic /\ \E n \in 0..Len(c.recs) : Fits(c, m, n)

-----------------------------------------------------------------------------
(* The invariant.                                                          *)

\* What the statistics say of the records read.
Tallies ==
    /\ pass = "check" /\ pc # "over" =>
          Tally(capture, stats["check"], at, capture.slim[at] - 24)
    /\ outcome["check"] = "ok" =>
          LET n == stats["check"].in_pkts IN
          n <= N /\ Tally(capture, stats["check"], n, capture.slim[n])
    /\ pass = "slim" /\ pc # "over" =>
          Tally(capture, stats["slim"], IF pc = "write" THEN at + 1 ELSE at, 0)
    /\ outcome["slim"] = "ok" =>
          LET n == stats["slim"].in_pkts IN Tally(capture, stats["slim"], n, capture.slim[n])

\* A pass that returned Ok has come to the end of the source, as it still is.
Endings ==
    /\ still /\ pass # "count" /\ view # Growing => view = size
    /\ pass = "check" /\ pc \in {"record", "body"} => capture.magic
    /\ outcome["check"] = "ok" =>
          capture.magic /\ (still => Fits(capture, size, stats["check"].in_pkts))
    /\ still /\ pass = "slim" /\ pc = "sync" => Fits(capture, size, at)
    /\ still /\ outcome["slim"] = "ok" => Fits(capture, size, stats["slim"].in_pkts)

\* A pass fails on a source that does not end so, or by a fault.
Verdicts ==
    /\ pass = "check" /\ pc # "over" <=> outcome["check"] = "none"
    /\ still /\ faults = 0 =>
          \A p \in {"check", "slim"} : outcome[p] = "err" => ~Ends(capture, size)

PInv == Tallies /\ Endings /\ Verdicts

USE DEF PCAP_HDR_LEN, PCAP_REC_HDR_LEN, Growing, Passes, PCs

-----------------------------------------------------------------------------
(* Captures.                                                               *)

LEMMA CutsFacts ==
    ASSUME NEW c, NEW n \in Nat
    PROVE  /\ Cuts(c, n) \in Nat /\ Cuts(c, 0) = 0
           /\ Cuts(c, n + 1) = IF c.recs[n + 1].out < c.recs[n + 1].incl
                               THEN Cuts(c, n) + 1 ELSE Cuts(c, n)
<1> DEFINE S == Shortened(c, n)
           T == Shortened(c, n + 1)
<1>1. IsFiniteSet(1..n) /\ S \in SUBSET (1..n)
  BY FS_Interval DEF Shortened
<1>2. IsFiniteSet(S)
  BY <1>1, FS_Subset
<1>3. Cardinality(S) \in Nat
  BY <1>2, FS_CardinalityType
<1>4. Shortened(c, 0) = {}
  BY DEF Shortened
<1>5. Cuts(c, 0) = 0
  BY <1>4, FS_EmptySet DEF Cuts
<1>6. CASE c.recs[n + 1].out < c.recs[n + 1].incl
  <2>1. T = S \union {n + 1} /\ n + 1 \notin S
    BY <1>6 DEF Shortened
  <2>2. Cardinality(T) = Cardinality(S) + 1
    <3> HIDE DEF S, T
    <3> QED
      BY <1>2, <2>1, FS_AddElement
  <2> QED
    BY <1>3, <1>5, <1>6, <2>2 DEF Cuts
<1>7. CASE ~(c.recs[n + 1].out < c.recs[n + 1].incl)
  <2>1. T = S
    BY <1>7 DEF Shortened
  <2> QED
    BY <1>3, <1>5, <1>7, <2>1 DEF Cuts
<1> QED
  BY <1>6, <1>7

LEMMA FitsOrder ==
    ASSUME NEW c \in Captures, NEW m \in Nat, NEW j \in Nat, NEW k \in Nat,
           j < k, k <= Len(c.recs), c.end[k] <= m
    PROVE  ~Fits(c, m, j)
<1>1. Len(c.recs) \in Nat /\ j < Len(c.recs)
  BY Layout
<1>2. c.end[j] \in Nat /\ c.end[k] \in Nat /\ c.end[j] + 16 <= c.end[k]
  BY <1>1, Layout
<1>3. ~(m < c.end[j] + 16)
  BY <1>2
<1> QED
  BY <1>1, <1>3 DEF Fits

LEMMA FitsOnce ==
    ASSUME NEW c \in Captures, NEW m \in Nat, NEW j \in Nat, NEW k \in Nat,
           j <= Len(c.recs), k <= Len(c.recs), Fits(c, m, j), Fits(c, m, k)
    PROVE  j = k
<1>1. ~(j < k) /\ ~(k < j)
  BY FitsOrder DEF Fits
<1> QED
  BY <1>1

\* A source that ends within the global header or a frame.
LEMMA ShortSource ==
    ASSUME NEW c \in Captures, NEW m \in Nat, m < 24
    PROVE  ~Ends(c, m)
<1> SUFFICES ASSUME NEW n \in 0..Len(c.recs), Fits(c, m, n) PROVE FALSE
  BY DEF Ends
<1>1. n \in Nat /\ n <= Len(c.recs) /\ Len(c.recs) \in Nat
  BY Layout
<1>2. c.end[n] \in Nat /\ c.end[0] = 24 /\ (0 < n => c.end[0] + 16 <= c.end[n])
  BY <1>1, Layout
<1>3. c.end[n] >= 24
  BY <1>1, <1>2
<1> QED
  BY <1>2, <1>3 DEF Fits

LEMMA CutSource ==
    ASSUME NEW c \in Captures, NEW m \in Nat, NEW k \in Nat, k < Len(c.recs),
           c.end[k] + 16 <= m, m < c.end[k + 1]
    PROVE  ~Ends(c, m)
<1> SUFFICES ASSUME NEW n \in 0..Len(c.recs), Fits(c, m, n) PROVE FALSE
  BY DEF Ends
<1>1. n \in Nat /\ n <= Len(c.recs) /\ Len(c.recs) \in Nat
  BY Layout
<1>2. c.end[n] \in Nat /\ c.end[k] \in Nat /\ c.end[k + 1] \in Nat
  BY <1>1, Layout
<1>3. CASE n <= k
  <2>1. c.end[n] <= c.end[k]
    <3>1. n = k \/ n < k
      BY <1>3
    <3>2. n < k => c.end[n] + 16 <= c.end[k]
      BY <1>1, Layout
    <3> QED
      BY <1>2, <3>1, <3>2
  <2>2. m < c.end[n] + 16
    BY <1>1, <1>3 DEF Fits
  <2> QED
    BY <1>2, <2>1, <2>2
<1>4. CASE n > k
  <2>1. c.end[k + 1] <= c.end[n]
    <3>1. n = k + 1 \/ k + 1 < n
      BY <1>1, <1>4
    <3>2. k + 1 < n => c.end[k + 1] + 16 <= c.end[n]
      BY <1>1, Layout
    <3> QED
      BY <1>2, <3>1, <3>2
  <2>2. c.end[n] <= m
    BY DEF Fits
  <2> QED
    BY <1>2, <2>1, <2>2
<1> QED
  BY <1>1, <1>3, <1>4

-----------------------------------------------------------------------------
(* The steps.                                                              *)

LEMMA PredictionInit == Init => PInv
<1> SUFFICES ASSUME Init PROVE PInv
  OBVIOUS
<1>1. /\ capture \in Captures /\ capture.slim[0] = 24 /\ Cuts(capture, 0) = 0
      /\ pass = "check" /\ pc = "open" /\ at = 0 /\ view = Growing
      /\ stats["check"] = NoStats /\ outcome = [p \in Passes |-> "none"]
  BY Layout, CutsFacts DEF Init
<1>2. Tally(capture, stats["check"], at, capture.slim[at] - 24)
  BY <1>1 DEF Tally, NoStats
<1>3. Tallies
  BY <1>1, <1>2 DEF Tallies
<1> QED
  BY <1>1, <1>3 DEF PInv, Endings, Verdicts

\* A step that neither changes the source nor returns.
LEMMA VerdictsKept ==
    ASSUME IInv, Verdicts, UNCHANGED <<source, still, outcome>>, faults' \in Nat,
           faults <= faults',
           (pass' = "check" /\ pc' # "over") <=> (pass = "check" /\ pc # "over")
    PROVE  Verdicts'
<1>1. UNCHANGED <<capture, size>> /\ faults \in Nat
  BY DEF source, IInv, TypeOK
<1>2. faults' = 0 => faults = 0
  BY <1>1
<1> QED
  BY <1>1, <1>2 DEF Verdicts

\* A step that leaves the statistics and the outcomes alone.
LEMMA TalliesKept ==
    ASSUME Tallies, UNCHANGED <<capture, pass, stats, outcome>>, pc # "over", pc' # "over",
           pass # "count" =>
              (IF pc' = "write" THEN at' + 1 ELSE at') = IF pc = "write" THEN at + 1 ELSE at,
           pass = "check" => at' = at
    PROVE  Tallies'
<1>1. UNCHANGED N
  BY DEF N
<1> QED
  BY <1>1 DEF Tallies

LEMMA QuietPrediction ==
    ASSUME IInv, PInv,
           Open \/ ReadRecordHeader \/ SkipFrame \/ WriteRecord \/ Damage
    PROVE  PInv'
<1>1. /\ UNCHANGED <<source, capture, size, pass, stats, outcome, still>>
      /\ pc # "over" /\ pc' # "over" /\ faults \in Nat
  <2>1. UNCHANGED <<source, pass, stats, outcome, still>>
    BY DEF Open, ReadRecordHeader, SkipFrame, WriteRecord, Damage
  <2>2. pc # "over" /\ pc' # "over"
    BY DEF Open, ReadRecordHeader, SkipFrame, WriteRecord, Damage, Here
  <2> QED
    BY <2>1, <2>2 DEF source, IInv, TypeOK
<1>2. faults' \in Nat /\ faults <= faults'
  BY <1>1 DEF Open, ReadRecordHeader, SkipFrame, WriteRecord, Damage, Fault
<1>3. Verdicts'
  BY <1>1, <1>2, VerdictsKept DEF PInv
<1>4. CASE Open
  <2>1. /\ pc = "open" /\ pc' = "header" /\ at' = at
        /\ pass # "count" => view' \in {Growing, size}
    BY <1>4 DEF Open
  <2>2. Tallies'
    BY <1>1, <2>1, TalliesKept DEF PInv
  <2>3. Endings'
    BY <1>1, <2>1 DEF PInv, Endings
  <2> QED
    BY <1>3, <2>2, <2>3 DEF PInv
<1>5. CASE ReadRecordHeader
  <2>1. pc = "record" /\ pc' = "body" /\ at' = at /\ view' = view
    BY <1>5 DEF ReadRecordHeader
  <2>2. Tallies'
    BY <1>1, <2>1, TalliesKept DEF PInv
  <2>3. Endings'
    BY <1>1, <2>1 DEF PInv, Endings
  <2> QED
    BY <1>3, <2>2, <2>3 DEF PInv
<1>6. CASE SkipFrame \/ Damage
  <2>1. pass = "count" /\ UNCHANGED <<pc, view, at>>
    BY <1>6 DEF SkipFrame, Damage, Here, reader
  <2>2. Tallies'
    BY <1>1, <2>1, TalliesKept DEF PInv
  <2>3. Endings'
    BY <1>1, <2>1 DEF PInv, Endings
  <2> QED
    BY <1>3, <2>2, <2>3 DEF PInv
<1>7. CASE WriteRecord
  <2>1. pass = "slim" /\ pc = "write" /\ pc' = "record" /\ at' = at + 1 /\ view' = view
    BY <1>7 DEF WriteRecord, Here
  <2>2. Tallies'
    BY <1>1, <2>1, TalliesKept DEF PInv
  <2>3. Endings'
    BY <1>1, <2>1 DEF PInv, Endings
  <2> QED
    BY <1>3, <2>2, <2>3 DEF PInv
<1> QED
  BY <1>4, <1>5, <1>6, <1>7

\* A pass that fails, for want of a whole frame or by a fault.
LEMMA FailPrediction ==
    ASSUME IInv, PInv, Fail, pc # "over", UNCHANGED <<source, pass, still>>,
           faults' \in Nat, faults <= faults',
           still /\ faults' = 0 /\ pass # "count" => ~Ends(capture, size)
    PROVE  PInv'
<1>1. /\ pc' = "over" /\ outcome' = [outcome EXCEPT ![pass] = "err"]
      /\ UNCHANGED <<capture, size, pass, view, at, stats, still>>
  BY DEF Fail, End, source, reader
<1>2. /\ outcome \in [Passes -> {"none", "ok", "err"}] /\ pass \in Passes /\ faults \in Nat
  BY DEF IInv, TypeOK
<1>3. outcome'[pass] = "err" /\ \A p \in Passes : p # pass => outcome'[p] = outcome[p]
  BY <1>1, <1>2
<1>4. UNCHANGED N
  BY <1>1 DEF N
<1>5. \A p \in {"check", "slim"} : outcome'[p] = "ok" => outcome[p] = "ok"
  BY <1>2, <1>3
<1>6. Tallies'
  BY <1>1, <1>4, <1>5 DEF PInv, Tallies
<1>7. Endings'
  BY <1>1, <1>5 DEF PInv, Endings
<1>8. Verdicts'
  <2>1. faults' = 0 => faults = 0
    BY <1>2
  <2>2. (pass' = "check" /\ pc' # "over") <=> outcome'["check"] = "none"
    <3>1. pass = "check" => outcome'["check"] # "none"
      BY <1>3
    <3>2. pass # "check" => outcome'["check"] = outcome["check"]
      BY <1>3
    <3>3. pass # "check" => outcome["check"] # "none"
      BY DEF PInv, Verdicts
    <3> QED
      BY <1>1, <3>1, <3>2, <3>3
  <2>3. ASSUME still, faults' = 0, NEW p \in {"check", "slim"}, outcome'[p] = "err"
        PROVE  ~Ends(capture, size)
    <3>1. CASE p = pass
      BY <2>3, <3>1
    <3>2. CASE p # pass
      <4>1. outcome[p] = "err"
        BY <1>3, <2>3, <3>2
      <4> QED
        BY <2>1, <2>3, <4>1 DEF PInv, Verdicts
    <3> QED
      BY <3>1, <3>2
  <2> QED
    BY <1>1, <2>2, <2>3 DEF Verdicts
<1> QED
  BY <1>6, <1>7, <1>8 DEF PInv

\* What a pass sees of a source that is as it was.
LEMMA SeesAll ==
    ASSUME IInv, Endings, still, pass # "count"
    PROVE  Extent = size
BY DEF Endings, Extent

LEMMA ReadGlobalHeaderPrediction == ASSUME IInv, PInv, ReadGlobalHeader PROVE PInv'
<1>1. /\ pc = "header" /\ UNCHANGED <<source, capture, size, pass, still, faults>>
      /\ faults \in Nat /\ capture \in Captures /\ size \in Nat
  BY Types DEF ReadGlobalHeader, source, IInv, TypeOK
<1>2. CASE Readable(PCAP_HDR_LEN) /\ capture.magic
  <2>1. pc' = "record" /\ UNCHANGED <<view, at, stats, outcome>>
    BY <1>2 DEF ReadGlobalHeader
  <2>2. Tallies' /\ Verdicts'
    BY <1>1, <2>1, TalliesKept, VerdictsKept DEF PInv
  <2>3. Endings'
    BY <1>1, <1>2, <2>1 DEF PInv, Endings
  <2> QED
    BY <2>2, <2>3 DEF PInv
<1>3. CASE ~(Readable(PCAP_HDR_LEN) /\ capture.magic)
  <2>1. Fail
    BY <1>3 DEF ReadGlobalHeader
  <2>2. ASSUME still, pass # "count" PROVE ~Ends(capture, size)
    <3>1. CASE ~capture.magic
      BY <3>1 DEF Ends
    <3>2. CASE ~Readable(PCAP_HDR_LEN)
      <4>1. Extent = size /\ off = 0
        BY <1>1, <2>2, SeesAll DEF PInv, IInv, Fresh
      <4>2. size < 24
        BY <1>1, <3>2, <4>1 DEF Readable
      <4> QED
        BY <1>1, <4>2, ShortSource
    <3> QED
      BY <1>3, <3>1, <3>2
  <2> QED
    BY <1>1, <2>1, <2>2, FailPrediction
<1> QED
  BY <1>2, <1>3

LEMMA FrameCutOffPrediction == ASSUME RInv, PInv, FrameCutOff PROVE PInv'
<1>1. /\ pc = "body" /\ Fail /\ UNCHANGED <<source, pass, still, faults>>
      /\ pass # "count" => ~Readable(remaining)
  BY DEF FrameCutOff
<1>2. /\ IInv /\ capture \in Captures /\ size \in Nat /\ off \in Nat /\ faults \in Nat
      /\ at \in Nat /\ N \in Nat
  BY Types DEF RInv, IInv, TypeOK
<1>3. ASSUME still, pass # "count" PROVE ~Ends(capture, size)
  <2>1. /\ off = capture.end[at] + 16 /\ remaining = capture.recs[at + 1].incl /\ at < N
        /\ off <= size
    BY <1>1, <1>3 DEF RInv, IInv, Reading, Within, NotBeyond
  <2>2. /\ capture.recs[at + 1].incl \in Nat /\ capture.end[at] \in Nat
        /\ capture.end[at + 1] = capture.end[at] + 16 + capture.recs[at + 1].incl
    BY <1>2, <2>1, Frame DEF N
  <2>3. Extent = size
    BY <1>2, <1>3, SeesAll DEF PInv
  <2>4. size < capture.end[at + 1]
    BY <1>1, <1>2, <1>3, <2>1, <2>2, <2>3 DEF Readable
  <2> QED
    BY <1>2, <2>1, <2>4, CutSource DEF N
<1> QED
  BY <1>1, <1>2, <1>3, FailPrediction

LEMMA IoErrorPrediction == ASSUME IInv, PInv, IoError PROVE PInv'
<1>1. /\ Fail /\ pc # "over" /\ UNCHANGED <<source, pass, still>>
      /\ faults' = faults + 1 /\ faults \in Nat
  BY DEF IoError, Fault, IInv, TypeOK
<1>2. faults' \in Nat /\ faults <= faults' /\ faults' # 0
  BY <1>1
<1> QED
  BY <1>1, <1>2, FailPrediction

\* One more record in the statistics.
LEMMA TallyNext ==
    ASSUME TypeOK, NEW n \in Nat, NEW b \in Nat, NEW out, remaining = capture.recs[n + 1].incl,
           out = capture.recs[n + 1].out,
           Tally(capture, stats[pass], n, b)
    PROVE  Tally(capture, Counted(out), n + 1, b)
<1> DEFINE s == stats[pass]
           cut0 == Cuts(capture, n)
           cut1 == Cuts(capture, n + 1)
<1>1. s \in [in_pkts : Nat, truncated : Nat, kept : Nat, out_bytes : Nat]
  BY DEF TypeOK
<1>2. /\ cut0 \in Nat
      /\ cut1 = IF out < remaining THEN cut0 + 1 ELSE cut0
  BY CutsFacts
<1>3. s.in_pkts = n /\ s.truncated = cut0 /\ s.kept = n - cut0 /\ s.out_bytes = b
  BY DEF Tally
<1>4. /\ Counted(out).in_pkts = s.in_pkts + 1
      /\ Counted(out).truncated = IF out < remaining THEN s.truncated + 1 ELSE s.truncated
      /\ Counted(out).kept = IF out < remaining THEN s.kept ELSE s.kept + 1
      /\ Counted(out).out_bytes = s.out_bytes
  <2>1. Counted(out) = [s EXCEPT !.in_pkts = s.in_pkts + 1,
                                 !.truncated = IF out < remaining THEN s.truncated + 1
                                                                  ELSE s.truncated,
                                 !.kept = IF out < remaining THEN s.kept ELSE s.kept + 1]
    BY DEF Counted
  <2> HIDE DEF s
  <2> QED
    BY <1>1, <2>1
<1> HIDE DEF s, cut0, cut1
<1>5. /\ Counted(out).in_pkts = n + 1 /\ Counted(out).truncated = cut1
      /\ Counted(out).kept = (n + 1) - cut1 /\ Counted(out).out_bytes = b
  BY <1>2, <1>3, <1>4
<1> QED
  BY <1>5 DEF Tally, cut1

LEMMA AnalyzePrediction == ASSUME IInv, PInv, Analyze PROVE PInv'
<1> DEFINE n == capture.recs[at + 1].out
           s == Counted(n)
           b == capture.slim[at] - 24
           next == [s EXCEPT !.out_bytes = s.out_bytes + 16 + n]
<1>1. /\ pass = "check" /\ pc = "body" /\ pc' = "record"
      /\ stats' = [stats EXCEPT !["check"] = next]
      /\ at' = at + 1
      /\ UNCHANGED <<source, capture, size, pass, view, outcome, still, faults>>
  BY DEF Analyze, Here, source
<1>2. /\ capture \in Captures /\ at \in Nat /\ N \in Nat /\ at < N /\ faults \in Nat
      /\ remaining = capture.recs[at + 1].incl /\ TypeOK
  BY <1>1, Types DEF IInv, TypeOK, Reading
<1>3. /\ n \in Nat /\ capture.slim[at] \in Nat
      /\ capture.slim[at + 1] = capture.slim[at] + 16 + n
  BY <1>2, Frame DEF N
<1>4. b \in Nat
  <2>1. capture.slim[0] = 24 /\ (0 < at => capture.slim[0] + 16 <= capture.slim[at])
    BY <1>2, Layout DEF N
  <2> QED
    BY <1>2, <1>3, <2>1
<1>5. Tally(capture, stats["check"], at, b)
  BY <1>1 DEF PInv, Tallies
<1> HIDE DEF n, b
<1>6. Tally(capture, s, at + 1, b)
  BY <1>1, <1>2, <1>4, <1>5, TallyNext DEF n
<1>7. Tally(capture, next, at + 1, b + 16 + n)
  <2>1. s \in [in_pkts : Nat, truncated : Nat, kept : Nat, out_bytes : Nat]
    BY <1>2, CountedFacts
  <2> HIDE DEF s
  <2>2. /\ next.in_pkts = s.in_pkts /\ next.truncated = s.truncated /\ next.kept = s.kept
        /\ next.out_bytes = s.out_bytes + 16 + n
    BY <2>1
  <2> HIDE DEF next
  <2> QED
    BY <1>6, <2>2 DEF Tally
<1> HIDE DEF next
<1>8. stats'["check"] = next /\ stats'["slim"] = stats["slim"]
  BY <1>1 DEF IInv, TypeOK
<1>9. b + 16 + n = capture.slim[at + 1] - 24
  BY <1>3, <1>4 DEF b
<1>10. outcome["check"] = "none" /\ outcome["slim"] = "none"
  BY <1>1 DEF PInv, Verdicts, IInv, Fresh
<1>11. Tallies'
  BY <1>1, <1>7, <1>8, <1>9, <1>10 DEF Tallies
<1>12. Endings'
  BY <1>1, <1>10 DEF PInv, Endings
<1>13. Verdicts'
  BY <1>1, <1>2, VerdictsKept DEF PInv
<1> QED
  BY <1>11, <1>12, <1>13 DEF PInv

LEMMA ReadFramePrediction == ASSUME IInv, PInv, ReadFrame PROVE PInv'
<1> DEFINE n == capture.recs[at + 1].out
           s == Counted(n)
<1>1. /\ pass = "slim" /\ pc = "body" /\ pc' = "write"
      /\ stats' = [stats EXCEPT !["slim"] = s]
      /\ UNCHANGED <<source, capture, size, pass, view, at, outcome, still, faults>>
  BY DEF ReadFrame, Here, source
<1>2. /\ at \in Nat /\ faults \in Nat /\ remaining = capture.recs[at + 1].incl /\ TypeOK
  BY <1>1, Types DEF IInv, TypeOK, Reading
<1>3. Tally(capture, stats["slim"], at, 0)
  BY <1>1 DEF PInv, Tallies
<1>4. Tally(capture, s, at + 1, 0)
  BY <1>1, <1>2, <1>3, TallyNext
<1> HIDE DEF s
<1>5. stats'["slim"] = s /\ stats'["check"] = stats["check"]
  BY <1>1 DEF IInv, TypeOK
<1>6. outcome["slim"] = "none"
  BY <1>1 DEF IInv, Fresh
<1>7. Tallies'
  <2>1. UNCHANGED N
    BY <1>1 DEF N
  <2> QED
    BY <1>1, <1>4, <1>5, <1>6, <2>1 DEF PInv, Tallies
<1>8. Endings'
  BY <1>1, <1>5, <1>6 DEF PInv, Endings
<1>9. Verdicts'
  BY <1>1, <1>2, VerdictsKept DEF PInv
<1> QED
  BY <1>7, <1>8, <1>9 DEF PInv

\* A step of the count.
LEMMA CountPrediction == ASSUME IInv, PInv, CountPacket \/ CountDone PROVE PInv'
<1>1. /\ pass = "count" /\ UNCHANGED <<source, capture, size, pass, view, still, faults>>
      /\ faults \in Nat
  BY DEF CountPacket, CountDone, AtEnd, Here, source, IInv, TypeOK
<1>2. stats'["check"] = stats["check"] /\ stats'["slim"] = stats["slim"]
  BY DEF CountPacket, CountDone, IInv, TypeOK
<1>3. outcome'["check"] = outcome["check"] /\ outcome'["slim"] = outcome["slim"]
  BY <1>1 DEF CountPacket, CountDone, End, IInv, TypeOK
<1>4. UNCHANGED N
  BY <1>1 DEF N
<1>5. Tallies' /\ Endings' /\ Verdicts'
  BY <1>1, <1>2, <1>3, <1>4 DEF PInv, Tallies, Endings, Verdicts
<1> QED
  BY <1>5 DEF PInv

\* Where a pass comes to the end of a source that is as it was.
LEMMA EndFits ==
    ASSUME RInv, PInv, still, pass # "count", pc = "record", ~Readable(16)
    PROVE  Fits(capture, size, at)
<1>1. off = capture.end[at] /\ off <= size /\ off \in Nat /\ size \in Nat /\ Extent = size
  BY SeesAll, Types DEF RInv, PInv, IInv, Reading, Within, NotBeyond
<1>2. size < capture.end[at] + 16
  BY <1>1 DEF Readable
<1> QED
  BY <1>1, <1>2 DEF Fits

LEMMA EndOfSourcePrediction == ASSUME RInv, PInv, EndOfSource PROVE PInv'
<1>1. /\ pass = "slim" /\ pc = "record" /\ pc' = "sync" /\ ~Readable(16)
      /\ UNCHANGED <<source, capture, size, pass, view, at, stats, outcome, still, faults>>
      /\ IInv /\ faults \in Nat
  BY DEF EndOfSource, AtEnd, Here, source, RInv, IInv, TypeOK
<1>2. Tallies' /\ Verdicts'
  BY <1>1, TalliesKept, VerdictsKept DEF PInv
<1>3. still => Fits(capture, size, at)
  BY <1>1, EndFits
<1>4. Endings'
  BY <1>1, <1>3 DEF PInv, Endings
<1> QED
  BY <1>2, <1>4 DEF PInv

LEMMA SyncPrediction == ASSUME IInv, IInv', PInv, Sync PROVE PInv'
<1>1. /\ pass = "slim" /\ pc = "sync" /\ pc' = "over"
      /\ stats' = [stats EXCEPT !["slim"].out_bytes = tmp'.len]
      /\ outcome' = [outcome EXCEPT !["slim"] = "ok"]
      /\ UNCHANGED <<source, capture, size, pass, view, at, still, faults>>
  BY DEF Sync, Here, End, source, reader
<1>2. /\ outcome' = [outcome EXCEPT !["slim"] = "ok"]
      /\ outcome'["slim"] = "ok" /\ outcome'["check"] = outcome["check"]
      /\ outcome["check"] # "none" /\ UNCHANGED N
  BY <1>1 DEF IInv, TypeOK, PInv, Verdicts, N
<1>3. Tally(capture, stats["slim"], at, 0)
  BY <1>1 DEF PInv, Tallies
<1>4. Tally(capture, stats'["slim"], at, tmp'.len) /\ stats'["check"] = stats["check"]
  <2> DEFINE s == stats["slim"]
             next == [s EXCEPT !.out_bytes = tmp'.len]
  <2>1. s \in [in_pkts : Nat, truncated : Nat, kept : Nat, out_bytes : Nat]
    BY DEF IInv, TypeOK
  <2>2. stats'["slim"] = next /\ stats'["check"] = stats["check"]
    BY <1>1 DEF IInv, TypeOK
  <2> HIDE DEF s
  <2>3. /\ next.in_pkts = s.in_pkts /\ next.truncated = s.truncated /\ next.kept = s.kept
        /\ next.out_bytes = tmp'.len
    BY <2>1
  <2> HIDE DEF next
  <2>4. Tally(capture, s, at, 0)
    BY <1>3 DEF s
  <2> QED
    BY <2>2, <2>3, <2>4 DEF Tally
<1>5. stats'["slim"].in_pkts = at
  BY <1>4 DEF Tally
<1>6. tmp'.len = capture.slim[at]
  BY <1>1, <1>2, <1>5 DEF IInv, Done
<1>7. Tallies'
  BY <1>1, <1>2, <1>4, <1>5, <1>6 DEF PInv, Tallies
<1>8. Endings'
  BY <1>1, <1>2, <1>4, <1>5 DEF PInv, Endings
<1>9. Verdicts'
  BY <1>1, <1>2 DEF PInv, Verdicts
<1> QED
  BY <1>7, <1>8, <1>9 DEF PInv

LEMMA AnalyzedPrediction == ASSUME RInv, PInv, Analyzed PROVE PInv'
<1> DEFINE b == capture.slim[at] - 24
           s == stats["check"]
           next == [s EXCEPT !.out_bytes = s.out_bytes + 24]
<1>1. /\ pass = "check" /\ pc = "record" /\ pc' = "over" /\ ~Readable(16)
      /\ stats' = [stats EXCEPT !["check"] = next]
      /\ outcome' = [outcome EXCEPT !["check"] = "ok"]
      /\ UNCHANGED <<source, capture, size, pass, view, at, still, faults>>
  BY DEF Analyzed, AtEnd, Here, End, source
<1>2. /\ IInv /\ capture \in Captures /\ at \in Nat /\ at <= N
      /\ outcome["slim"] = "none" /\ capture.slim[at] \in Nat
      /\ s \in [in_pkts : Nat, truncated : Nat, kept : Nat, out_bytes : Nat]
  BY <1>1, Types, Layout DEF RInv, IInv, TypeOK, Fresh, N
<1>3. /\ outcome'["check"] = "ok" /\ outcome'["slim"] = "none" /\ UNCHANGED N
      /\ stats'["check"] = next /\ stats'["slim"] = stats["slim"]
  BY <1>1, <1>2 DEF IInv, TypeOK, N
<1>4. Tally(capture, s, at, b)
  BY <1>1 DEF PInv, Tallies
<1>5. Tally(capture, next, at, capture.slim[at])
  <2>1. b + 24 = capture.slim[at]
    BY <1>2
  <2> HIDE DEF s, b
  <2>2. /\ next.in_pkts = s.in_pkts /\ next.truncated = s.truncated /\ next.kept = s.kept
        /\ next.out_bytes = s.out_bytes + 24
    BY <1>2
  <2> HIDE DEF next
  <2> QED
    BY <1>4, <2>1, <2>2 DEF Tally
<1> HIDE DEF next, s, b
<1>6. stats'["check"].in_pkts = at
  BY <1>3, <1>5 DEF Tally
<1>7. Tallies'
  BY <1>1, <1>2, <1>3, <1>5, <1>6 DEF Tallies
<1>8. still => Fits(capture, size, at)
  BY <1>1, EndFits
<1>9. Endings'
  BY <1>1, <1>3, <1>6, <1>8 DEF PInv, Endings
<1>10. Verdicts'
  BY <1>1, <1>3 DEF Verdicts
<1> QED
  BY <1>7, <1>9, <1>10 DEF PInv

LEMMA NextPassPrediction == ASSUME IInv, PInv, NextPass PROVE PInv'
<1>1. /\ pc = "over" /\ pc' = "open" /\ at' = 0 /\ view' = Growing
      /\ pass' \in {"slim", "count"} /\ (pass' = "slim" => pass = "check")
      /\ UNCHANGED <<capture, size, stats, outcome, still, faults>>
  BY DEF NextPass, source
<1>2. UNCHANGED N
  BY <1>1 DEF N
<1>3. pass' = "slim" => Tally(capture, stats["slim"], 0, 0)
  <2>1. Cuts(capture, 0) = 0
    BY CutsFacts
  <2>2. pass = "check" => stats["slim"] = NoStats
    BY DEF IInv, Fresh
  <2> QED
    BY <1>1, <2>1, <2>2 DEF Tally, NoStats
<1>4. Tallies'
  BY <1>1, <1>2, <1>3 DEF PInv, Tallies
<1>5. Endings' /\ Verdicts'
  BY <1>1 DEF PInv, Endings, Verdicts
<1> QED
  BY <1>4, <1>5 DEF PInv

LEMMA GrowPrediction == ASSUME IInv, PInv, Grow PROVE PInv'
<1>1. /\ still' => still /\ pass = "check" /\ pc = "open"
      /\ UNCHANGED <<capture, pass, pc, view, at, stats, outcome, faults>>
  BY DEF Grow, Here, reader, IInv, TypeOK
<1>2. UNCHANGED N
  BY <1>1 DEF N
<1>3. still' => outcome["check"] = "none" /\ outcome["slim"] = "none" /\ view = Growing
  BY <1>1 DEF PInv, Verdicts, IInv, Fresh
<1>4. Tallies'
  BY <1>1, <1>2 DEF PInv, Tallies
<1>5. Endings' /\ Verdicts'
  BY <1>1, <1>3 DEF PInv, Endings, Verdicts
<1> QED
  BY <1>4, <1>5 DEF PInv

LEMMA PredictionKeeps == ASSUME RInv, RInv', PInv, [Next]_vars PROVE PInv'
<1>1. IInv /\ IInv'
  BY DEF RInv
<1>2. CASE Open \/ ReadRecordHeader \/ SkipFrame \/ WriteRecord \/ Damage
  BY <1>1, <1>2, QuietPrediction
<1>3. CASE ReadGlobalHeader \/ FrameCutOff \/ IoError
  BY <1>1, <1>3, ReadGlobalHeaderPrediction, FrameCutOffPrediction, IoErrorPrediction
<1>4. CASE Analyze \/ ReadFrame \/ CountPacket \/ CountDone
  BY <1>1, <1>4, AnalyzePrediction, ReadFramePrediction, CountPrediction
<1>5. CASE EndOfSource \/ Sync \/ Analyzed
  BY <1>1, <1>5, EndOfSourcePrediction, SyncPrediction, AnalyzedPrediction
<1>6. CASE NextPass \/ Grow
  BY <1>1, <1>6, NextPassPrediction, GrowPrediction
<1>7. CASE UNCHANGED vars
  <2>1. /\ UNCHANGED <<capture, size, pass, pc, view, at, stats, outcome, still, faults>>
        /\ UNCHANGED N
    BY <1>7 DEF vars, source, reader, N
  <2> QED
    BY <2>1 DEF PInv, Tallies, Endings, Verdicts
<1> QED
  BY <1>2, <1>3, <1>4, <1>5, <1>6, <1>7 DEF Next, Step

-----------------------------------------------------------------------------
(* The prediction.                                                         *)

LEMMA Predicted == ASSUME RInv, PInv PROVE CheckPredictsSlim
<1> SUFFICES ASSUME still, outcome["slim"] # "none"
             PROVE  /\ outcome["check"] = "ok" /\ outcome["slim"] = "ok" =>
                          stats["check"] = stats["slim"]
                    /\ faults = 0 => outcome["check"] = outcome["slim"]
  BY DEF CheckPredictsSlim
<1> DEFINE a == stats["check"]
           b == stats["slim"]
<1>1. /\ capture \in Captures /\ size \in Nat /\ N \in Nat /\ N = Len(capture.recs)
      /\ outcome \in [Passes -> {"none", "ok", "err"}]
      /\ a \in [in_pkts : Nat, truncated : Nat, kept : Nat, out_bytes : Nat]
      /\ b \in [in_pkts : Nat, truncated : Nat, kept : Nat, out_bytes : Nat]
  BY Types DEF RInv, IInv, TypeOK, N
<1>2. outcome["check"] \in {"ok", "err"} /\ outcome["slim"] \in {"ok", "err"}
  BY <1>1 DEF RInv, IInv, Fresh, PInv, Verdicts
<1>3. outcome["check"] = "ok" =>
         /\ a.in_pkts <= N /\ Fits(capture, size, a.in_pkts) /\ capture.magic
         /\ Tally(capture, a, a.in_pkts, capture.slim[a.in_pkts])
  BY DEF PInv, Tallies, Endings
<1>4. outcome["slim"] = "ok" =>
         /\ b.in_pkts <= N /\ Fits(capture, size, b.in_pkts) /\ capture.magic
         /\ Tally(capture, b, b.in_pkts, capture.slim[b.in_pkts])
  BY DEF PInv, Tallies, Endings, RInv, IInv, Done
<1>5. a.in_pkts \in Nat /\ b.in_pkts \in Nat
  BY <1>1
<1>6. ASSUME outcome["check"] = "ok", outcome["slim"] = "ok" PROVE a = b
  <2> DEFINE n == a.in_pkts
  <2>1. b.in_pkts = n
    BY <1>1, <1>3, <1>4, <1>5, <1>6, FitsOnce
  <2>2. Tally(capture, a, n, capture.slim[n]) /\ Tally(capture, b, n, capture.slim[n])
    BY <1>3, <1>4, <1>6, <2>1
  <2> HIDE DEF a, b
  <2>3. /\ a.in_pkts = b.in_pkts /\ a.truncated = b.truncated /\ a.kept = b.kept
        /\ a.out_bytes = b.out_bytes
    BY <2>2 DEF Tally
  <2> QED
    BY <1>1, <2>3
<1>7. ASSUME faults = 0 PROVE outcome["check"] = outcome["slim"]
  <2>1. outcome["check"] = "err" => ~Ends(capture, size)
    BY <1>7 DEF PInv, Verdicts
  <2>2. outcome["slim"] = "err" => ~Ends(capture, size)
    BY <1>7 DEF PInv, Verdicts
  <2>3. outcome["check"] = "ok" => Ends(capture, size)
    BY <1>1, <1>3, <1>5 DEF Ends
  <2>4. outcome["slim"] = "ok" => Ends(capture, size)
    BY <1>1, <1>4, <1>5 DEF Ends
  <2> QED
    BY <1>2, <2>1, <2>2, <2>3, <2>4
<1> QED
  BY <1>6, <1>7

\* Of a capture that does not change, the analysis tells whether slimming it
\* will succeed, and to the byte with what statistics (analyze_pcap against
\* slim_pcap), whatever the sizes of the buffers and of its frames.
THEOREM PredictionHolds == Spec => []CheckPredictsSlim
<1>1. Init => RInv /\ PInv
  BY RefinementInit, PredictionInit
<1>2. RInv /\ PInv /\ [Next]_vars => RInv' /\ PInv'
  BY RInvKeeps, PredictionKeeps
<1>3. RInv /\ PInv => CheckPredictsSlim
  BY Predicted
<1> QED
  BY <1>1, <1>2, <1>3, PTL DEF Spec
=============================================================================
