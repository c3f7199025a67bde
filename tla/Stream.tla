------------------------------- MODULE Stream -------------------------------
(***************************************************************************)
(* The passes over a capture (pcap_io.rs) that one file goes through: a    *)
(* --check-only analysis, then a job that slims it into the temporary file *)
(* and counts what that file holds (coord.rs).  Files are laid out in      *)
(* bytes: a global header, then records of a header and a frame, and they  *)
(* may end anywhere.  The capture may be growing while it is read; any     *)
(* system call may fail; and the temporary file may lose its end before it *)
(* is counted.  What becomes of a frame is its new length: Packet.tla says *)
(* which.  What Coord.tla calls a unit is a header or a record here.       *)
(***************************************************************************)
EXTENDS Integers, Sequences

CONSTANTS
    Captures,        \* the captures that are tried, see CaptureType
    Places,          \* the byte lengths that a file may have when it is cut off
    WRITE_BATCH_CAP,
    BufferCap,       \* READ_BUF_CAP, the capacity of the BufWriter
    SKIP_BUF_CAP,
    MaxFaults        \* bound on the I/O errors and damages

PCAP_HDR_LEN == 24
PCAP_REC_HDR_LEN == 16

(***************************************************************************)
(*   magic     is the global header that of a pcap file?                   *)
(*   recs      the records: incl, the length of the frame as captured, and *)
(*             out, its length after process_packet; a frame is truncated  *)
(*             exactly when it gets shorter                                *)
(*   end       end[k] is where record k ends, end[0] the global header     *)
(*   slim      slim[k] is where it ends in the slimmed form of the capture *)
(***************************************************************************)
Record == {r \in [incl : Nat, out : Nat] : r.out <= r.incl}

\* The records lie one after the other, n[k] bytes of frame in record k.
LaidOut(place, n, recs) ==
    /\ place \in [0..Len(recs) -> Nat]
    /\ place[0] = PCAP_HDR_LEN
    /\ \A k \in 1..Len(recs) : place[k] = place[k - 1] + PCAP_REC_HDR_LEN + n[k]
    /\ \A j, k \in 0..Len(recs) : j < k => place[j] + PCAP_REC_HDR_LEN <= place[k]

IsCapture(c) ==
    /\ c.magic \in BOOLEAN
    /\ c.recs \in Seq(Record)
    /\ LaidOut(c.end, [k \in DOMAIN c.recs |-> c.recs[k].incl], c.recs)
    /\ LaidOut(c.slim, [k \in DOMAIN c.recs |-> c.recs[k].out], c.recs)

ASSUME ConstantsAssumption ==
    /\ \A c \in Captures : IsCapture(c)
    /\ Places \subseteq Nat
    /\ WRITE_BATCH_CAP \in Nat
    /\ BufferCap \in Nat /\ BufferCap > PCAP_HDR_LEN
    /\ SKIP_BUF_CAP \in Nat \ {0}
    /\ MaxFaults \in Nat

VARIABLES
    capture, size,  \* the source, and the bytes of it that exist so far
    pass, pc,       \* the pass over a file, and where it is
    view,           \* how much of its file a pass can see, or Growing
    at, off,        \* the reader: the records it is past, and the bytes it has
                    \*   taken, unless an error ends the pass
    remaining,      \* the bytes of a frame that it has yet to read
    batch, buf,     \* WriteBatch.buf and the BufWriter's buffer
    tmp, cut,       \* the temporary file, and how much of it is still there
    stats,          \* stats[p]: SlimStats of pass p, or its count of packets
    outcome,        \* outcome[p]: what pass p returned
    charged,        \* charged[p]: the bytes that pass p accounted to the limits
    unflushed,      \* those since its last flush_limits
    due, still,     \* the records begun when the source was opened for slimming,
                    \*   and whether it has been as it is since it was analysed
    faults          \* faults spent

source == <<capture, size>>
reader == <<view, at, off, remaining>>
writer == <<batch, buf, tmp, cut>>
limits == <<charged, unflushed>>
vars == <<source, pass, pc, reader, writer, stats, outcome, limits, due, still, faults>>

Passes == {"check", "slim", "count"}
PCs == {"open", "header", "record", "body", "write", "sync", "over"}
Growing == -1

NoStats == [in_pkts |-> 0, truncated |-> 0, kept |-> 0, out_bytes |-> 0]

\* Bytes on their way to a file: the pieces, and the length of them all.
PieceType == [rec : Nat, incl : Nat, len : Nat]
Chunk == [pieces : Seq(PieceType), len : Nat]
Empty == [pieces |-> <<>>, len |-> 0]
Join(a, b) == [pieces |-> a.pieces \o b.pieces, len |-> a.len + b.len]

\* A piece is the global header (rec 0) or a record: the length that its
\* header states, and the bytes that it has.
Header == [rec |-> 0, incl |-> 0, len |-> PCAP_HDR_LEN]
Piece(k, incl, n) == [rec |-> k, incl |-> incl, len |-> PCAP_REC_HDR_LEN + n]
One(piece) == [pieces |-> <<piece>>, len |-> piece.len]

Init ==
    /\ capture \in Captures
    /\ size \in Places /\ size <= capture.end[Len(capture.recs)]
    /\ pass = "check"
    /\ pc = "open"
    /\ view = Growing /\ at = 0 /\ off = 0 /\ remaining = 0
    /\ batch = Empty /\ buf = Empty /\ tmp = Empty /\ cut = 0
    /\ stats = [p \in Passes |-> NoStats]
    /\ outcome = [p \in Passes |-> "none"]
    /\ charged = [p \in Passes |-> 0]
    /\ unflushed = 0
    /\ due = 0
    /\ still = TRUE
    /\ faults = 0

-----------------------------------------------------------------------------
(* The file that the pass reads.                                           *)

\* How much of it the reader can see: a mapped file has the length that it
\* had when it was opened.
Extent == IF view # Growing THEN view
          ELSE IF pass = "count" THEN cut ELSE size

Readable(n) == off + n <= Extent

\* read_exact finds less than a record header: what there is of it is taken from
\* the reader, and the pass goes on to its end without accounting it.
AtEnd ==
    /\ ~Readable(PCAP_REC_HDR_LEN)
    /\ off' = Extent
    /\ UNCHANGED <<view, at, remaining>>

\* The length field of the next record header.
NextIncl == IF pass = "count" THEN tmp.pieces[at + 2].incl ELSE capture.recs[at + 1].incl

\* Of how many records the first n bytes of the source have the header.
IsBegun(k, n) ==
    /\ k > 0 => capture.end[k - 1] + PCAP_REC_HDR_LEN <= n
    /\ k < Len(capture.recs) => n < capture.end[k] + PCAP_REC_HDR_LEN

Lesser(m, n) == IF m < n THEN m ELSE n

Here(p, place) == pass = p /\ pc = place
Account(n) ==
    /\ charged' = [charged EXCEPT ![pass] = @ + n]
    /\ unflushed' = unflushed + n
FlushLimits(n) ==
    /\ charged' = [charged EXCEPT ![pass] = @ + n]
    /\ unflushed' = 0
End(verdict) ==
    /\ outcome' = [outcome EXCEPT ![pass] = verdict]
    /\ pc' = "over"

\* The pass returns an error.  The limits are not flushed and the batch is lost;
\* dropping the BufWriter tries to write what it holds.
Fail ==
    /\ End("err")
    /\ IF pass = "slim"
       THEN /\ tmp' \in {tmp, Join(tmp, buf)}
            /\ batch' = Empty /\ buf' = Empty
       ELSE UNCHANGED <<tmp, batch, buf>>
    /\ UNCHANGED <<reader, cut, stats, limits, due>>

-----------------------------------------------------------------------------
(* What all passes do.                                                     *)

\* A slimming pass creates its temporary file before it opens the source.
Open ==
    /\ pc = "open"
    /\ pc' = "header"
    /\ view' \in {Growing, IF pass = "count" THEN cut ELSE size}
    /\ IF pass = "slim"
       THEN tmp' = Empty /\ \E k \in 0..Len(capture.recs) : IsBegun(k, size) /\ due' = k
       ELSE UNCHANGED <<tmp, due>>
    /\ UNCHANGED <<source, pass, at, off, remaining, batch, buf, cut, stats, outcome, limits,
                   still, faults>>

\* read_global_header; the slimming pass writes it past the batch.
ReadGlobalHeader ==
    /\ pc = "header"
    /\ IF Readable(PCAP_HDR_LEN) /\ capture.magic
       THEN /\ pc' = "record"
            /\ off' = off + PCAP_HDR_LEN
            /\ IF pass = "slim"
               THEN buf' = One(Header) /\ Account(2 * PCAP_HDR_LEN)
               ELSE Account(PCAP_HDR_LEN) /\ UNCHANGED buf
            /\ UNCHANGED <<view, at, remaining, batch, tmp, cut, stats, outcome, due>>
       ELSE Fail
    /\ UNCHANGED <<source, pass, still, faults>>

\* Variant: the header of a record is not accounted.
ReadRecordHeaderFree ==
    /\ pc = "record"
    /\ Readable(PCAP_REC_HDR_LEN)
    /\ pc' = "body"
    /\ off' = off + PCAP_REC_HDR_LEN
    /\ remaining' = NextIncl
    /\ Account(IF pass = "count" THEN 0 ELSE PCAP_REC_HDR_LEN)
    /\ UNCHANGED <<source, pass, view, at, writer, stats, outcome, due, still, faults>>

ReadRecordHeader ==
    /\ pc = "record"
    /\ Readable(PCAP_REC_HDR_LEN)
    /\ pc' = "body"
    /\ off' = off + PCAP_REC_HDR_LEN
    /\ remaining' = NextIncl
    /\ Account(PCAP_REC_HDR_LEN)
    /\ UNCHANGED <<source, pass, view, at, writer, stats, outcome, due, still, faults>>

\* What the stats say of a packet whose frame comes out n bytes long.
Counted(n) ==
    [stats[pass] EXCEPT !.in_pkts = @ + 1,
                        !.truncated = IF n < remaining THEN @ + 1 ELSE @,
                        !.kept = IF n < remaining THEN @ ELSE @ + 1]

\* Variant: the analysis takes half a frame for the end of the file.
AnalyzeLenient ==
    /\ Here("check", "body")
    /\ LET n == capture.recs[at + 1].out IN
       /\ pc' = "record"
       /\ stats' = [stats EXCEPT !["check"] =
                       [Counted(n) EXCEPT !.out_bytes = @ + PCAP_REC_HDR_LEN + n]]
    /\ off' = off + remaining
    /\ remaining' = 0
    /\ at' = at + 1
    /\ Account(remaining)
    /\ UNCHANGED <<source, pass, view, writer, outcome, due, still, faults>>

\* analyze_pcap adds up the lengths that the records would have.
Analyze ==
    /\ Here("check", "body")
    /\ Readable(remaining)
    /\ LET n == capture.recs[at + 1].out IN
       /\ pc' = "record"
       /\ stats' = [stats EXCEPT !["check"] =
                       [Counted(n) EXCEPT !.out_bytes = @ + PCAP_REC_HDR_LEN + n]]
    /\ off' = off + remaining
    /\ remaining' = 0
    /\ at' = at + 1
    /\ Account(remaining)
    /\ UNCHANGED <<source, pass, view, writer, outcome, due, still, faults>>

\* read_frame_into and process_packet in the slimming pass.
ReadFrame ==
    /\ Here("slim", "body")
    /\ Readable(remaining)
    /\ pc' = "write"
    /\ stats' = [stats EXCEPT !["slim"] = Counted(capture.recs[at + 1].out)]
    /\ off' = off + remaining
    /\ remaining' = 0
    /\ Account(remaining)
    /\ UNCHANGED <<source, pass, view, at, writer, outcome, due, still, faults>>

\* Variant: the last chunk is taken for a whole one.
SkipFrameWhole ==
    /\ Here("count", "body")
    /\ remaining > 0
    /\ Readable(Lesser(remaining, SKIP_BUF_CAP))
    /\ off' = off + Lesser(remaining, SKIP_BUF_CAP)
    /\ remaining' = remaining - SKIP_BUF_CAP
    /\ UNCHANGED <<source, pass, pc, view, at, writer, stats, outcome, limits, due, still, faults>>

\* skip_packet_body, one chunk at a time.
SkipFrame ==
    /\ Here("count", "body")
    /\ remaining > 0
    /\ Readable(Lesser(remaining, SKIP_BUF_CAP))
    /\ off' = off + Lesser(remaining, SKIP_BUF_CAP)
    /\ remaining' = remaining - Lesser(remaining, SKIP_BUF_CAP)
    /\ UNCHANGED <<source, pass, pc, view, at, writer, stats, outcome, limits, due, still, faults>>

CountPacket ==
    /\ Here("count", "body")
    /\ remaining = 0
    /\ pc' = "record"
    /\ at' = at + 1
    /\ stats' = [stats EXCEPT !["count"].in_pkts = @ + 1]
    /\ Account(NextIncl)
    /\ UNCHANGED <<source, pass, view, off, remaining, writer, outcome, due, still, faults>>

\* Variant: the rest of the frame is waited for.
FrameAwaited ==
    /\ pc = "body"
    /\ ~Readable(IF pass = "count" THEN Lesser(remaining, SKIP_BUF_CAP) ELSE remaining)
    /\ UNCHANGED vars

\* Variant: what there is of the frame is passed over.
FramePassedOver ==
    /\ pc = "body"
    /\ ~Readable(IF pass = "count" THEN Lesser(remaining, SKIP_BUF_CAP) ELSE remaining)
    /\ pc' = "record"
    /\ off' = Extent
    /\ remaining' = 0
    /\ UNCHANGED <<source, pass, view, at, writer, stats, outcome, limits, due, still, faults>>

\* The file ends within a frame.
FrameCutOff ==
    /\ pc = "body"
    /\ ~Readable(IF pass = "count" THEN Lesser(remaining, SKIP_BUF_CAP) ELSE remaining)
    /\ Fail
    /\ UNCHANGED <<source, pass, still, faults>>

-----------------------------------------------------------------------------
(* The slimming pass: WriteBatch, BufWriter, flush and sync.               *)

\* BufWriter::write_all: room is made first, and what is larger than the
\* whole buffer goes past it.
WriteAll(chunk) ==
    LET spilled == buf.len + chunk.len > BufferCap
        rest == IF spilled THEN Empty ELSE buf
        stored == IF spilled THEN Join(tmp, buf) ELSE tmp
    IN IF chunk.len >= BufferCap
       THEN tmp' = Join(stored, chunk) /\ buf' = rest
       ELSE tmp' = stored /\ buf' = Join(rest, chunk)

\* Variant: the batch is not cleared after it has been written.
WriteRecordKeeps ==
    /\ Here("slim", "write")
    /\ LET out == capture.recs[at + 1].out
           piece == One(Piece(at + 1, out, out))
       IN IF batch.len > 0 /\ batch.len + piece.len > WRITE_BATCH_CAP
          THEN WriteAll(batch) /\ batch' = Join(batch, piece) /\ Account(batch.len)
          ELSE batch' = Join(batch, piece) /\ UNCHANGED <<buf, tmp, limits>>
    /\ pc' = "record"
    /\ at' = at + 1
    /\ UNCHANGED <<source, pass, view, off, remaining, cut, stats, outcome, due, still, faults>>

\* Variant: the record header keeps the length it had.
WriteRecordOldHeader ==
    /\ Here("slim", "write")
    /\ LET out == capture.recs[at + 1].out
           piece == One(Piece(at + 1, capture.recs[at + 1].incl, out))
       IN IF batch.len > 0 /\ batch.len + piece.len > WRITE_BATCH_CAP
          THEN WriteAll(batch) /\ batch' = piece /\ Account(batch.len)
          ELSE batch' = Join(batch, piece) /\ UNCHANGED <<buf, tmp, limits>>
    /\ pc' = "record"
    /\ at' = at + 1
    /\ UNCHANGED <<source, pass, view, off, remaining, cut, stats, outcome, due, still, faults>>

\* WriteBatch::write_record: a full batch is flushed before the record is
\* added; the record header gets the new length.
WriteRecord ==
    /\ Here("slim", "write")
    /\ LET out == capture.recs[at + 1].out
           piece == One(Piece(at + 1, out, out))
       IN IF batch.len > 0 /\ batch.len + piece.len > WRITE_BATCH_CAP
          THEN WriteAll(batch) /\ batch' = piece /\ Account(batch.len)
          ELSE batch' = Join(batch, piece) /\ UNCHANGED <<buf, tmp, limits>>
    /\ pc' = "record"
    /\ at' = at + 1
    /\ UNCHANGED <<source, pass, view, off, remaining, cut, stats, outcome, due, still, faults>>

\* Variant: the last batch is not flushed.
EndOfSourceDrops ==
    /\ Here("slim", "record")
    /\ AtEnd
    /\ pc' = "sync"
    /\ batch' = Empty
    /\ FlushLimits(0)
    /\ UNCHANGED <<source, pass, buf, tmp, cut, stats, outcome, due, still, faults>>

\* The end of the source in the slimming pass: the last batch is flushed.
EndOfSource ==
    /\ Here("slim", "record")
    /\ AtEnd
    /\ pc' = "sync"
    /\ IF batch.len > 0
       THEN WriteAll(batch) /\ batch' = Empty
       ELSE UNCHANGED <<batch, buf, tmp>>
    /\ FlushLimits(batch.len)
    /\ UNCHANGED <<source, pass, cut, stats, outcome, due, still, faults>>

\* slim_pcap: flush the BufWriter, sync_data, and stat the result.
Sync ==
    /\ Here("slim", "sync")
    /\ tmp' = Join(tmp, buf)
    /\ buf' = Empty
    /\ cut' = tmp'.len
    /\ stats' = [stats EXCEPT !["slim"].out_bytes = tmp'.len]
    /\ End("ok")
    /\ UNCHANGED <<source, pass, reader, batch, limits, due, still, faults>>

-----------------------------------------------------------------------------
(* The end of the other passes.                                            *)

\* The end of the analysis: projected_file_size adds the global header.
Analyzed ==
    /\ Here("check", "record")
    /\ AtEnd
    /\ stats' = [stats EXCEPT !["check"].out_bytes = @ + PCAP_HDR_LEN]
    /\ FlushLimits(0)
    /\ End("ok")
    /\ UNCHANGED <<source, pass, writer, due, still, faults>>

\* Variant: as many packets as were read, or more.
VerifiedAtLeast == stats["count"].in_pkts <= stats["slim"].in_pkts

\* verify_tmp_packet_count.
Verified == stats["count"].in_pkts = stats["slim"].in_pkts

\* The end of the temporary file.
CountDone ==
    /\ Here("count", "record")
    /\ AtEnd
    /\ FlushLimits(0)
    /\ End(IF Verified THEN "ok" ELSE "err")
    /\ UNCHANGED <<source, pass, writer, stats, due, still, faults>>

\* After the analysis the file is slimmed, and after that the result counted.
NextPass ==
    /\ pc = "over"
    /\ \/ pass = "check" /\ pass' = "slim"
       \/ pass = "slim" /\ outcome["slim"] = "ok" /\ pass' = "count"
    /\ pc' = "open"
    /\ view' = Growing /\ at' = 0 /\ off' = 0 /\ remaining' = 0
    /\ unflushed' = 0
    /\ UNCHANGED <<source, writer, stats, outcome, charged, due, still, faults>>

-----------------------------------------------------------------------------
(* The environment.                                                        *)

Fault == faults < MaxFaults /\ faults' = faults + 1

\* A system call of the pass fails.
IoError ==
    /\ Fault
    /\ pc # "over"
    /\ Fail
    /\ UNCHANGED <<source, pass, still>>

\* The temporary file loses its end before it is counted.
Damage ==
    /\ Fault
    /\ Here("count", "open")
    /\ \E n \in Places : n < cut /\ cut' = n
    /\ UNCHANGED <<source, pass, pc, reader, batch, buf, tmp, stats, outcome, limits, due, still>>

\* The capture process writes on.
Grow ==
    /\ \E n \in Places : size < n /\ n <= capture.end[Len(capture.recs)] /\ size' = n
    /\ still' = (still /\ Here("check", "open"))
    /\ UNCHANGED <<capture, pass, pc, reader, writer, stats, outcome, limits, due, faults>>

-----------------------------------------------------------------------------
Step == \/ Open \/ ReadGlobalHeader \/ ReadRecordHeader
        \/ Analyze \/ ReadFrame \/ SkipFrame \/ CountPacket \/ FrameCutOff
        \/ WriteRecord \/ EndOfSource \/ Sync \/ Analyzed \/ CountDone
        \/ NextPass

Next == Step \/ IoError \/ Damage \/ Grow

Spec == Init /\ [][Next]_vars

\* The worker runs; a capture need not grow.
FairSpec == Spec /\ WF_vars(Step)

-----------------------------------------------------------------------------
(* Properties.                                                             *)

TypeOK ==
    /\ capture \in Captures
    /\ size \in Nat
    /\ pass \in Passes
    /\ pc \in PCs
    /\ view \in Nat \union {Growing}
    /\ at \in 0..Len(capture.recs)
    /\ off \in Nat
    /\ remaining \in Nat
    /\ batch \in Chunk /\ buf \in Chunk /\ tmp \in Chunk
    /\ cut \in 0..tmp.len
    /\ stats \in [Passes -> [in_pkts : Nat, truncated : Nat, kept : Nat, out_bytes : Nat]]
    /\ outcome \in [Passes -> {"none", "ok", "err"}]
    /\ charged \in [Passes -> Nat]
    /\ unflushed \in Nat
    /\ due \in 0..Len(capture.recs)
    /\ still \in BOOLEAN
    /\ faults \in 0..MaxFaults

\* The global header and the first n records, slimmed.
Slimmed(n) ==
    [i \in 1..(n + 1) |-> IF i = 1 THEN Header
                           ELSE LET out == capture.recs[i - 1].out IN Piece(i - 1, out, out)]

\* What has been read is in the file, the BufWriter or the batch: each record
\* once, in order and in its slimmed form, wherever a buffer spills.
InOrder ==
    pass = "slim" /\ pc \in {"record", "body", "write", "sync"} =>
       tmp.pieces \o buf.pieces \o batch.pieces = Slimmed(at)

\* A slim that returns Ok has every record that was begun in the source when
\* it was opened, all of them in the file: a record cut off within its frame is
\* an error and never the end of the file.  The stats are those of the file.
OkMeansAll ==
    outcome["slim"] = "ok" =>
       LET s == stats["slim"] IN
       /\ s.in_pkts >= due
       /\ tmp.pieces = Slimmed(s.in_pkts)
       /\ s.out_bytes = tmp.len /\ tmp.len = capture.slim[s.in_pkts]
       /\ s.in_pkts = s.truncated + s.kept

\* Of a capture that does not change, --check-only predicts what slimming it
\* does, to the byte, and fails where that fails.
CheckPredictsSlim ==
    still /\ outcome["slim"] # "none" =>
       /\ outcome["check"] = "ok" /\ outcome["slim"] = "ok" => stats["check"] = stats["slim"]
       /\ faults = 0 => outcome["check"] = outcome["slim"]

\* The count of packets notices whatever has been cut off the temporary file,
\* were it the last byte only.
VerifiedMeansComplete == outcome["count"] = "ok" => cut = tmp.len

\* Nothing but a fault makes a verification fail.
NoFalseAlarm == outcome["count"] = "err" => faults > 0

\* A pass that returns Ok has accounted every byte of the headers and records
\* that it read whole, and every byte that it wrote, and has flushed the limits
\* after the last one.  All that it takes from its file and does not account is
\* the beginning of a record header that the file ends with.
Whole == IF pass = "count" THEN capture.slim[at] ELSE capture.end[at]

AccountedInFull ==
    pc = "over" /\ outcome[pass] = "ok" =>
       /\ charged[pass] = Whole + (IF pass = "slim" THEN tmp.len ELSE 0)
       /\ Whole <= off /\ off < Whole + PCAP_REC_HDR_LEN
       /\ unflushed = 0

\* Every pass comes to its end, also on a file that grows meanwhile.
JobEnds == <>(pc = "over" /\ (outcome["slim"] = "err" \/ outcome["count"] # "none"))

\* The passes implement the copy they promise.
SlimPrefix(pieces) == pieces # <<>> /\ pieces = Slimmed(Len(pieces) - 1)

Promise == INSTANCE CopyPass WITH
    begun <- CHOOSE k \in 0..Len(capture.recs) : IsBegun(k, size),
    copied <- IF tmp.pieces = <<>> THEN 0
              ELSE IF SlimPrefix(tmp.pieces) THEN Len(tmp.pieces) - 1 ELSE -1,
    intact <- outcome["slim"] = "ok" => cut = tmp.len,
    state <- IF outcome["slim"] = "err" \/ outcome["count"] = "err" THEN "rejected"
             ELSE IF outcome["count"] = "ok" THEN "accepted"
             ELSE IF outcome["slim"] = "ok" THEN "written"
             ELSE IF pass = "slim" /\ pc # "open" THEN "copying" ELSE "idle"

ImplementsPromise == Promise!Spec
=============================================================================
