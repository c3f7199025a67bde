# Formal verification of pcap-slim

`pcap-slim` rewrites a directory of pcap files in place: it cuts the encrypted
payload of every packet down to 24 bytes, keeps all packets, headers and
cleartext, and leaves a marker beside each file it has finished. It is run by
cron and by hand, in several processes and threads, on files that nobody can
record again. This directory holds TLA+ models of the program, what TLC checks
of them and what TLAPS proves of them.

Contents: [the system](#the-system) · [modules](#modules-and-how-they-correspond-to-the-code)
· [runs](#runs) · [bounds](#bounds) · [fairness](#fairness) · [proofs](#proofs)
· [findings](#findings) · [not modelled](#what-is-not-modelled) · [plan](#plan)

## The system

Paths are relative to the repository; the crate's source is in `src/`.

| Component | State | Operations | Interacts with |
|---|---|---|---|
| File coordination, `src/coord.rs` | none in memory; in the file system: `*.pcap`, `*.pcap.tmp`, `.slim_markers/*`, mtimes | `cleanup_tmp_older_than`, `list_pending_pcaps`, `slim_file_in_place`, `check_file`, `verify_tmp_packet_count`, `create_marker` | every other process working on the directory, by names and mtimes only: there is no lock |
| Run loop, `src/main.rs` | one phase after another; a rayon pool; counters | `run`: clean, list, jobs, summary, exit code | file coordination; builds the limits |
| Streaming, `src/pcap_io.rs` | per pass over a file: reader position, write batch, BufWriter, statistics, unaccounted bytes | `slim_pcap`: read frames, batch, flush, sync; `count_packets`; `analyze_pcap` | parser and policy per frame; limits per batch and every 64 packets |
| Resource limits, `src/limit.rs` | token bucket, pending bytes, CPU samples, all behind one mutex | `acquire_io`, `flush_io`, `cpu_tick` | all workers of a process |
| Parser, `src/parse.rs` | none | `parse_frame`, its fast path, payload length, `ipv4_pseudo_dst` | policy, truncation, checksums |
| Policy, `src/policy.rs`, `src/packet.rs` | none | `decide_action`, `process_packet` | parser, truncation |
| Truncation, `src/truncate.rs` | none | cut the frame, set the length fields, update checksums | checksums |
| Checksums, `src/checksum.rs` | none | Internet checksum, incremental sums | – |
| mmap policy, `src/mmap_policy.rs`; reports, `src/output.rs` | none | choose a reader; format the summary | run loop |

### What is hard here

- **Processes that share only a file system.** A cron run, a manual run, a
  `--check-only` and a `--dry-run` may be on the same directory. Each looks at a
  name, an age or a marker, and acts on it later. All workers give the temporary
  file of a capture the same name.
- **Failure between any two steps.** A run can die, the machine can lose power,
  any system call can fail, between the copy, the sync, the verification, the
  rename and the marker. The original is replaced, so a mistake is final.
- **Captures that still grow.** Only `--age-minutes` keeps a run from slimming a
  capture that is being written.
- **Waiting with the mutex.** A throttled worker sleeps with the mutex of all
  limits; bytes are charged after the fact, in batches, by whichever worker
  happens to fill a batch.
- **Buffers between reader and file.** A record goes through a batch and a
  `BufWriter` that spill at different moments, and is counted and accounted in
  several places; the source may end anywhere, or grow under the reader. The
  analysis, the copy and the count are three loops that must agree.
- **Several lengths for one packet.** What was captured, what the IP header
  says, what its extension headers take, what the payload is. Two parsers look
  at the same frame, and slimmed output is slimmed again after a crash.
- **Checksums from parts.** A checksum is put together from sums that were each
  folded on their own, over bytes of which some have just been rewritten, with a
  destination that may hide in options whose lengths cannot be trusted.

### What makes the components correct

- Coordination: no record is ever lost; only slimmed files are marked; no file is
  replaced again unless something failed; a malformed file keeps its original; exit code 0 is not a
  lie; every good capture is slimmed at last; no temporary file stays.
- Limits: what the passes account stays within the cap from whatever moment one
  measures; no accounted byte goes uncharged; a worker waits only for an empty budget; every call returns.
- Streaming: whatever buffers spill, each record read is in the copy once and in
  order; `Ok` means that all records are there; a copy that lost its end is
  noticed, and only such a one; `--check-only` predicts what slimming does; no
  header, frame or write escapes the limits; every pass ends.
- Packets: what the documented rule has cut is cut and nothing else is; length
  fields agree with what is left; slimming twice is slimming once; the fast path
  changes nothing.
- Checksums: the receiver of a cut packet accepts it; a UDP checksum is never
  taken for none; nothing else in the packet changes; all loops end.

## Modules, and how they correspond to the code

| Module | Holds |
|---|---|
| `SlimDir` | abstract specification: what the program promises of a directory |
| `Coord` | coordination, run loop and jobs of any number of invocations; its environment; its properties; the refinement of `SlimDir` |
| `MCCoord` | instances of `Coord` for TLC |
| `CoordProofs` | theorems about `Coord` |
| `Limiter`, `MCLimiter`, `LimiterProofs` | the resource limits shared by the workers of a run, their instances, their theorems |
| `CopyPass` | abstract specification: what slimming one capture promises |
| `Stream`, `MCStream`, `StreamProofs` | the three passes over one capture, its buffers and byte positions, the refinement of `CopyPass`; the captures for TLC; the theorems |
| `StreamRefinement`, `StreamPrediction` | proofs that `Stream` implements `CopyPass`, and that the analysis predicts the slim |
| `Packet`, `MCPacket`, `PacketProofs` | parser, policy and truncation of one frame, over repeated passes; the frames for TLC; the theorems |
| `Checksum`, `MCChecksum`, `ChecksumProofs` | lengths and checksums of one packet that is cut, byte by byte; the packets for TLC; the theorems |
| `ReceiverProofs` | proof that a receiver accepts what was cut, and that the sums fit and the loops end |

The modules meet where one leaves open what another says. `Coord` has a capture as
a set of units and a job that reads and writes them one by one; `Stream` says in
bytes how a unit is read, buffered and counted. `Stream` takes from `Packet` that
a frame comes out no longer than it was, and only the new length; `Packet` leaves
the bytes it rewrites to `Checksum`. `Limiter` takes from `Stream` that a pass accounts
its bytes and flushes at its end (`AccountedInFull`).

### Coord

A *file* is a directory entry and the inode behind it (`src`, `tmp`), and an
inode holds a set of *units* (`data`): unit 1 is the pcap global header, unit
n + 1 the n-th record. Every copy of a capture has the same unit at the same
place, so a set shows what is missing. What is *in* a record does not matter to
the coordination; `Packet` is about that. `synced` is the set of inodes whose
data would survive a power loss, `stale` and `aged` are what the two comparisons
of mtimes (300 s, `--age-minutes`) would answer.

| State | In the code |
|---|---|
| `phase[p]` | how far `run()` of invocation p is |
| `pc[p][f]` | how far p's cleanup, and then its job for f, is |
| `rino`, `rpos` | the source a job has open, how many units it has read |
| `wino`, `wpos` | the temporary file a job has open, how many units reached it |

Actions follow `run()` (`Start`, `CleanStat`, `CleanRemove`, `CleanDone`,
`List`, `EndRun`) and `slim_file_in_place` (`Take`, `CreateTmp`, `OpenSrc`,
`ReadUnit`, `Flush`, `Sync`, `Verify`, `RemoveTmp`, `Rename`, `Mark`), one action
per system call that others can see, so that any other process may act between
two of them. `CheckFile` is one step: it reads and reports. An action of a job
is per file, and at most `Workers` jobs of an invocation run at once, which is
the rayon pool. `ReadFails`, `Panic` and `DropJob` are the ways a malformed or
panicking capture ends its job and, for a panic, the jobs behind it.

The environment: any system call may fail, with the handling the code has for
it. `IoError` is an error in a job (before the rename, remove the temporary file;
after it, nothing; `Mark` may fail with or without the marker having been made), or
in one entry of the cleanup, which passes over it. `CleanFails` and `ListFails` are
`read_dir`. `Path::exists` and `Path::is_file` return no error but "no": `ListMisread`
has the listing take a marked file for an unmarked one, or leave a file out, and
`TakeUnseen` has the job not see the marker. `Crash`
ends a process. `PowerLoss` ends all of them and may empty any file that was not
synced; directory operations are taken to survive in order, as on a journaling
file system. `Append` and `Close` are the capture process; `SrcAges` and
`TmpStales` let time pass. `Hazards` switches on what the operator must not do
(`"overlap"`: two slimming runs on one file) and what the machine seldom does
(`"stall"`: five minutes without a write to a temporary file).

`rewrites` only counts how often a file has been replaced. That a marked file is not
replaced again cannot be claimed, as a marker may go unread; `RewrittenOnce` says
that it takes a fault for each time, either that or one that ended a job between its
rename and its marker. What the second slim does to the file is in `NothingLost` and
in `Packet`'s `SecondPassKeeps`.

A file that several processes wrote may have gaps, which read as zeroes; what
such a file counts as in `verify_tmp_packet_count` is left open (`MayCountAs`).

### SlimDir, and the refinement

`SlimDir` has no processes, temporary files, crashes or retries: a closed
capture is replaced by its slimmed form in one step that keeps every record, then
marked, and a marked file keeps its form and its records. `ImplementsPromise` is `SlimDir`'s
specification with `form` read off the inode a name stands for and `units` off
that inode's contents. Everything else `Coord` does, errors, power losses and the
replacement of a slimmed file by its like included, must be a stutter.

### Limiter

`tokens`, `last` and `pending` are the fields of `IoBucket` and
`ResourceLimits`; `owner` is the worker that keeps the mutex over a sleep. Time
passes in ticks, bytes in chunks. A call is two or more steps: the worker wants
the mutex (`AccountIo`, `AskFlush`, `AskCpuTick`), gets it (`AcquireIo`,
`FlushIo`, `CpuTick`), and may then go through rounds of `Acquire` and `Wake`,
which are the loop of `IoBucket::acquire`. How much CPU is used is left open, so
the governor may send a worker to sleep at any sample. `Observe` lets an
observer begin to measure at any moment; `accounted` and `charged` count for it.
`Fail` is a job that ends in an error and so does not flush.

Bytes are *accounted* when a pass has taken them from its read buffer or put them
into its write buffer (`account_io`). The `BufReader` and the `BufWriter` hold 4 MiB
each, so that the disk may be that much ahead or behind of each worker; the
properties are about accounted bytes.

### Stream

One capture goes through the pass of `--check-only` (`analyze_pcap`), then through
a job: `slim_pcap` into the temporary file, and `count_packets` over that. A file
is laid out in bytes: a global header of 24, then records of a header of 16 and a
frame. Of a frame only its length counts, as captured (`incl`) and as
`process_packet` leaves it (`out`).

| State | In the code |
|---|---|
| `pass`, `pc` | which of the three functions runs, and where in its loop |
| `view` | a mapped file's length is that at its opening; a file that is read by `read` shows what has been appended since |
| `at`, `off`, `remaining` | records read, bytes taken from the reader, what `skip_packet_body` still has to skip |
| `batch`, `buf`, `tmp` | `WriteBatch::buf`, the buffer in the `BufWriter`, the temporary file: *pieces*, each the header or a record with the length that its header states |
| `cut` | what is left of the temporary file when it is counted |
| `stats`, `outcome` | `SlimStats` or the count, and `Ok` or `Err` |
| `charged`, `unflushed` | bytes accounted to the limits, and those since the last `flush_limits` |

`ReadGlobalHeader`, `ReadRecordHeader` and `FrameCutOff` are common to the passes,
as in the code the reader is; `Analyze`, `ReadFrame` with `WriteRecord`, and
`SkipFrame` with `CountPacket` are the three loop bodies; `Analyzed`, `EndOfSource` with
`Sync`, and `CountDone` their ends. A file may end within a record header; `read_exact`
takes what there is of it before it reports the end (`AtEnd`), and no pass accounts
those bytes, 15 at most: `AccountedInFull` says so. `WriteAll` is `BufWriter::write_all` of the
standard library, with its spill and its way past the buffer for large writes.
`Fail` is every `?`: the limits are not flushed, the batch is lost, and dropping
the `BufWriter` writes what it holds, or does not.

The environment: `IoError` fails any system call, `Grow` is the capture process,
`Damage` cuts the temporary file short before it is counted. `due` and `still` only
observe: the records begun when the job opened its source, and whether the source
has changed since it was analysed.

### CopyPass, and the refinement

`CopyPass` has neither bytes nor buffers: the copy is at every moment the slimmed
form of the first `copied` records; it is declared written only once it has every
record begun when the job started (`due`), and accepted only while it is intact.
`Stream`'s `ImplementsPromise` reads `copied` off the temporary file, and off
nothing else: what a spill moves between buffers must be a stutter, and records
must reach the file in order.

### Packet

A frame is the record of what the code reads of it (the fields listed at
`FrameType`), bytes that play no part being left out. `ParsePlain` is
`try_parse_ipv4_plain`, `ParseTagged` the general path, `PayloadLen` the payload
that was captured, `DecideAction` the policy, `Truncated` the new frame. One step
is one frame through `process_packet`, and a second step is the frame as it comes
up in the next pass over the file. `Divergent` names the two kinds of frames that
the code treats otherwise than documented; see the findings.

### Checksum

The bytes of a packet from its IP header on, as a function from offsets, and the
order in which `apply_truncate_fields` and what it calls rewrite them: `Cut` (the
buffer and the IP length), `IpHeader` (the header checksum, IPv4 only), `Lengths` (the
UDP length, the zeroed checksum, the destination as it is in the header),
`PassOption` (one turn of the loop in `ipv4_pseudo_dst`), `Transport` (pseudo-header
and segment). A checksum is a sequence of byte ranges in `parts`, each summed by
`AddWord` and folded by `FoldSum` as `checksum_sum` does it, added up in `acc` by
`EndPart`, folded again by `FoldAcc` and complemented and stored by
`WriteChecksum`, UDP's zero being replaced. `total` observes what the
sum would be without any folding.

The properties look at the bytes from the other side: a receiver finds lengths
and protocol in the packet, adds up its pseudo-header and its segment (`Weighed`: 256
times the even bytes and once the odd ones, without words or folding, as the last of
the partial `Sums`) and wants a multiple of 65535. It takes itself for the
destination (`final`), which is where the options lead: `Destination`, a recursion over
the options from front to back, says where that is for a walk that reads a length in
every option. Where the host in question is another one (`hidden`) nothing is claimed.

## Runs

| Run | Result | Distinct states | What it shows |
|---|---|---|---|
| `coord_safe` | passes | 803,192 | two captures, one growing, a cron job, a manual `--single` run in turns with it, a dry run that cleans, one fault anywhere: nothing is lost (`NothingLost`), markers are truthful (`MarkedIsSlim`), a file is replaced once, and again only for a fault (`RewrittenOnce`), and `SlimDir` is implemented |
| `coord_faulty` | passes | 3.30 million | a malformed and a panicking capture beside a good one, and a `--check-only` run: originals stay (`BadUntouched`), exit code 0 is truthful (`ExitZeroMeansDone`), `--check-only` writes nothing |
| `coord_live` | passes | 166,134 | after two faults anywhere, re-runs slim and mark the good capture (`EventuallySlim`) and no temporary file stays (`OrphansGo`) |
| `coord_overlap` | violated, finding 1 | – | two slimming runs on one file lose records |
| `limiter` | passes | 866,123 | two workers and an observer: the bucket keeps its rate (`RateHeld`), the bytes accounted keep the cap (`AccountedCapped`), all are charged (`AllCharged`), workers wait only on a bucket that is not full (`BlocksOnlyWhenExhausted`), and every call into the limits returns (`EveryCallReturns`) |
| `limiter_stuck` | violated, finding 2 | – | a batch larger than the bucket waits on a full bucket |
| `stream` | passes | 360,336 | a capture that ends anywhere and may grow, an error or a damage anywhere: each record read is in the copy, a buffer or the batch once and in order (`InOrder`), `Ok` means that all are in the file (`OkMeansAll`), the count notices every loss (`VerifiedMeansComplete`) and nothing else (`NoFalseAlarm`), the analysis predicts the slim (`CheckPredictsSlim`), the limits get every byte of whole headers and records and of the copy (`AccountedInFull`), every pass ends (`JobEnds`), and `CopyPass` is implemented |
| `packet_passes` | passes | 61,088 | every shape of frame, twice: the parsers agree (`FastPathAgrees`), length fields agree with the frame (`LengthsAgree`), a second pass changes nothing (`SecondPassKeeps`), the documented rule holds (`CutsWhatItShould`) |
| `packet_panic` | violated, finding 3 | – | a frame cut within its IPv4 header panics |
| `packet_fragment` | violated, finding 4 | – | IPv6 fragments are cut |
| `packet_trailer` | violated, finding 5 | – | IPv6 extension headers count as payload |
| `checksum` | passes | 57,084 | packets with every kind of option, header and carry: folding loses nothing (`FoldingKeeps`), a receiver accepts every checksum (`ReceiverAccepts`), no UDP checksum is zero (`UdpChecksumPresent`), no other byte changes (`OthersKept`), all loops end (`Terminates`) |

Deadlock is checked in the runs of `Coord`, where some process can always start
again. It is not in the others: workers end and time is bounded in `Limiter`, a
capture's last pass ends in `Stream`, a frame goes through a bounded number of
passes in `Packet`, and a packet is done in `Checksum`.

Every property of a passing run has a mutant: an operator in the module (marked
"Variant") that differs from the one after it by a bug the code could have had,
and with which the same run finds the property violated.

## Bounds

- **Files and processes** (`Files`, `Procs`): two or three files, two or three
  invocations. Conflicts are between two jobs of one file, or a job and a
  cleanup; jobs of different files meet only in the pool and in the exit code.
- **`MaxLen`** (units of a capture): 2 where records are lost or appended: a
  header and a record, so that a copy can be empty, half written or complete. 1
  where only the outcome of a job matters; a malformed capture fails and a
  panicking one panics after its header.
- **`Inodes`**: two temporary inodes beyond the captures suffice in safe use, as
  a truncated temporary file is reused; inode names are interchangeable, which is
  the symmetry in `coord_safe` and `coord_faulty`. The liveness run has none.
- **`MaxFaults`**: 1 in the safety runs, 2 in the liveness run, so that the
  recovery from one fault can meet another. The proofs have no such bound.
- **`Rate`, `Second`, `Batch`, `Sizes`**: a bucket of 8 that gains 2 a tick,
  batches of 2, calls of 1 and 5, so that a call is below a batch, above one, and
  two of them are together more than the bucket. Two workers with 2 calls and a
  flush each, and 3 ticks beside the sleeps, drain the bucket, refill it in part and ask
  again. `Watch` lets the measurement begin after the burst.
- **Captures in `stream`**: none to four records, with frames that are empty, kept,
  cut, and larger than both buffers. A batch of 60 and a `BufWriter` of 80 bytes
  each spill in the middle and at the end of a capture, and are passed by; frames
  are skipped in chunks of 16, the last one whole or not. A file may end at
  any `Places`: empty, within the global header, where a record begins, one byte
  before the end of its header, at it, and one byte into its frame. One fault. Sizes and
  capacities are parameters of the proofs, which have no bound.
- **Frames**: every combination of 0 or 2 tags, 5 IP layers, 5 L4 layers, 4
  payload sizes around 24 and 3 length fields (as sent, zero, too short), each
  captured up to and just before the end of each layer, the 24th byte, the packet
  and a trailer; and every combination of ports and first bytes on each layer.
- **Packets in `checksum`**: the ten lists of options and three chains of extension
  headers of `MCChecksum`, TCP and UDP, payloads of 4 bytes of which 3 stay, so
  that segments end in an odd byte, and of 3, which are kept; words of
  65535 and 0 for carries, and packets balanced to sum to 65535, so that the
  checksum of UDP comes out as zero.
- **`MaxPasses`**: 2, as a second pass that changes nothing has the third
  change nothing.

## Fairness

`coord_live` assumes weak fairness of every invocation (`ProcStep`: the
operating system runs what can run, and cron starts invocations again and again,
which is how the program is deployed), and of `Close`, `SrcAges` and
`TmpStales`: captures end and time passes. Faults are bounded, never fair. The run
has one slimming invocation; a second one on the same file could only take turns
with it and do the same work.

`limiter` assumes weak fairness of each worker and of the clock. The mutex need
not be fair: between two waits a worker makes a bounded number of calls, and a
bounded model of them shows that each returns.

`stream` assumes weak fairness of the pass (`Step`), as a thread that can run
does; neither growth nor faults are fair, and a capture is finite. `checksum`
assumes that the program runs.

Liveness, which needs fairness, is checked by TLC only.

## Proofs

The theorems hold for all values of the constants that satisfy the named
assumptions: any number of files, invocations, workers, faults, records, calls; any
frame, capture and packet, and any size of the buffers. Every safety property of a
passing run is a theorem, and so are both refinements.

**Coord.** Part of the theorems assume `SafeUse`: slimming runs do not overlap on a
file, and those that can reach a growing capture have `--age-minutes`; stalls are
allowed. No property is inductive alone. A rename is safe because the temporary file has been
complete and synced since the end of the copy, because nobody but the job can
have written it since, and because the capture ended before the job was listed.
The invariant `IInv` says so in parts: `TypeOK`; `Exclusive` (slimming runs in
progress have no file in common), `Placed` (what the phase says of the place),
`Names` (no inode has two names), `Reach` (growing captures are out of reach),
`Whole` (contents complete and durable), `Writers` (an inode being written has
one writer and one name), `Copies` (what was written is a prefix of what was
read), `Complete` (from the verification on the temporary file is complete or
gone), `WellFormed` (only good captures get that far), `Markers`. `Invariance`
proves it, one lemma per action; from it follow `NoRecordLost` and
`Implementation`: every step is a step of `SlimDir` or a stutter. `RewritesCost` needs
in addition what each rewrite has been paid with (`PaidFor`): a file was rewritten at
most as often as there were faults, or once more and is then `Settled`: its job is about
to set the marker, or the marker is there and no job is on its way to another rename.
Each way out of that state (a crash or an error before the marker is there, a
`stat` of it that fails) is a fault. `coord_overlap` shows that the assumption is needed.

The other theorems assume nothing of how the program is used, so that they say what
overlapping runs, or a run on a growing capture, cannot do. `Sane` has the types, the
place of a file in its run (`Placed`), and that a job which writes has its files
`Opened`; `Honest` has that no temporary file is the inode of a capture, that only
complete passes over good captures get to the rename, and that a marker, and a job that
reports success, come after it. `Sanity` and `Honesty` prove both; from them follow
`TypeCorrect`, `CheckOnlyReads`, `MarkersTruthful`, `BadKept` and `ExitZeroTruthful`. Before
they were proved, TLC checked both on instances with `"overlap"` and `"stall"`.

`RunsEnd` is what of `EventuallySlim` needs no fairness: once a run has begun, each of
its steps and each of its failures leaves it less to do (phases; for each file, steps of
its job and units to copy), and neither other runs, nor captures, the clock or a
power loss ever leave it more. What liveness adds is that runs are scheduled and begun
again.

**Limiter.** `LInv` adds to `TypeOK` that only a flush comes after the last counted
call (`LastCall`) and the account that makes the rate hold (`Accounted`): what was handed out since the
window began, with what is in the bucket, is no more than a burst and what
the rate has added up to `last_refill`. `RateLimit` needs nothing but the typing
of the constants; `NoWaitOnFullBucket` assumes `Ample`: no request
exceeds the bucket. `limiter_stuck` shows that the assumption is needed.
What the workers account is more than what the bucket hands out, by what waits
to be charged. `Ledger` is the account of it: every byte accounted is charged, being
charged (`need`), pending, or owed by a call that has not got the mutex yet
(`Balanced`); at most one call is being charged, and less than a batch and that
call's bytes (`Charging`); once every worker has flushed nothing is pending
(`Flushed`), which is what `LastCall` is needed for. What the calls owe together
is the size of a set of bytes (`Owing`), so that the sum over workers is a
cardinality; for that `FiniteAssumption` has finitely many workers and a largest
call. From `LedgerHolds` follow `NothingUncharged`, and with `RateLimit` `CapHeld`.

`CallsEnd` is what of `EveryCallReturns` needs no fairness, and assumes `Ample` as well:
each step of a worker, and each tick of its sleep, makes a lexicographic measure
smaller (the calls left, the place in the call, the tokens lacking when it next
looks into the bucket, the sleep left), and neither the clock nor other workers ever make
it larger. The code sleeps a second at most, so one sleep need not bring all the tokens;
but each lasts a tick at least, and a tick brings a token (`SleepLasts`, `SleepPays`).
Without `Ample` the bucket is full before it has enough.

**Stream** (assumes only that captures are laid out as pcap files are,
`IsCapture`, and that the `BufWriter` holds more than the global header). The
properties speak of the end of a pass; the invariant has to say what is true in
the middle of one. `IInv` adds to `TypeOK`: `Fresh` (what is zero or empty until a
pass begins), `Seen` (how much of its file a pass may see, and that `due` is no more
than that), `NotPast` (no pass takes more than that), `Reading` (the offset is where record `at` ends, or `remaining` short
of it), `Writing` (the three places together are the slimmed form of what was
read, in pieces and in bytes, and every byte is charged), `Done` (the same of the
file alone once `Ok` is returned), `Counting` (the count is at the end of record
`at` of the copy, and no further than what is left of it). The invariant was first
checked by TLC on all states of `stream`. Each action has its lemma, and
`WriteAllKeeps` says once that a spill, whatever the sizes, keeps pieces and lengths.
From `Invariance` follow `TypeCorrect`, `NothingLostOnTheWay`, `OkIsComplete`,
`CutIsNoticed`, `AlarmMeansFault` and `NoBytesUncharged`.

`PassesEnd` is what of `JobEnds` needs no fairness: every step of a pass, and every
fault, makes a lexicographic measure smaller (the passes left, the phases of the
pass, the bytes of its file, what is to be done with a record), and growth and damage
leave it as it is. A pass that went on for ever would have to stop moving.

`StreamRefinement` proves `CopyImplemented`. The mapping chooses how many records are
begun in the source, and how many of them the temporary file holds; that there
is one such number of begun records, and that it grows with the source, is the
least-element principle (`Least`, from the library's well-foundedness of the
natural numbers) applied to the layout (`BegunExists`, `BegunOrder`). The
invariant needs one more part: no pass over the source has read beyond it, and a
slim that returned `Ok` covers no more than there is (`Within`). Then a step of the
passes stores records in order (`StoreMaps`), finishes (`SyncMaps`), accepts
(`CountDoneMaps`), gives up with what the buffer may have left (`FailMaps`), or is a stutter.

`StreamPrediction` proves `PredictionHolds`, that the two loops agree. `PInv` has three
parts: the statistics of a pass are those of the records it has read, the cut ones
among them counted as a set (`Tallies`); a pass that returned `Ok` stopped where less
than a record header was left of the source, as it still is (`Endings`); without a
fault a pass fails only on a source that does not end so (`Verdicts`). Only one
record can be the last of a source (`FitsOnce`), so both passes read the same ones.

**Packet.** `PInv` says that a frame which has been through a pass is no longer
one to be cut. `FastPath` (the fast path is the general parser where it
applies), `ParsesLayout` (on a well-formed packet the parser finds the layout),
`CutOnce` (a cut frame has 24 bytes of payload left, and so is kept),
`SecondPass`, `Lengths`, and `RuleKept` (outside `Divergent`, a step cuts a frame
exactly when the rule says so).

**Checksum** (assumes of a packet that its headers lie one after the other and
within it, and that its lengths have 16 bits, `IsPacket`). `TypeCorrect` says that every index stays in its range,
also along options that lie about their lengths. `Folding` is the argument that
end-around carry needs: `FoldingKeeps`, with `65536 = 1` modulo 65535, over any number of
parts. `UdpChecksum` and `Others` follow from what is patched where.

`ReceiverProofs` proves `Receiver`, that every packet which was cut is accepted. It
needs to know what `Sums` and `RouteEnd` compute, which are recursive functions. The
library's induction theorems cannot be used here, but the least element can: if the
function did not exist up to some length, there would be a first length up to which it
does not, and the one before can be extended (`SumsExist`, `LeadsExist`; `NoneFails`
is the principle). From the recursion equations follow that whole words may be summed
range by range (`WeighedConcat`), and so that a field that was zero adds its value to
the sum around it (`FieldCounts`). `RInv` has these parts: the order of the checksums
(`Phases`); the lengths in the packet are those of what is left (`LengthsWritten`); a
field is zero while its checksum is computed (`Zeroed`); from the option that the
code looks at the way leads to where all options lead, or it is there (`Found`); what
has been added, and the ranges still in `parts`, are together what the checksum is
about (`Adding`); then the header, and in the end the segment, sum up to zero
(`HeaderSound`, `SegmentSound`). TLC checked each part on the packets of
`checksum` before it was proved. `OthersKept` and `FoldingKeeps` enter
as theorems: without the first the options could change under way, and the second turns
a complete sum into one that is zero modulo 65535 once the checksum is in place.

From the same invariant follows `SumsFit`: all sums stay within the 32 bits that the
code has for them. `Descent` is what of `Terminates` needs no fairness: each
step makes a lexicographic measure smaller, an option taking at least two bytes
and a fold making its sum smaller.

Only model-checked: the liveness properties (`EventuallySlim`, `OrphansGo`,
`EveryCallReturns`, `JobEnds`, `Terminates`), which are beyond the prover. Of each but
`OrphansGo` the part that needs no fairness is proved, by the measures above
(`RunsEnd`, `CallsEnd`, `PassesEnd`, `Descent`).

## Findings

1. **Overlapping runs lose records** (`coord_overlap`, `src/pcap_io.rs:299`). The
   algorithm document (165–169) calls the race of two workers on one file
   harmless, since both write the same bytes. But both write the same *file*:
   one truncates it when the other has verified it and is about to rename it. The
   second then writes into what is by now the capture; a crash or a look at the
   file in between finds records missing. Taking turns on a file (`SafeUse`) is
   what the theorems about records assume; those about markers, exit codes, malformed
   captures and `--check-only` hold in spite of overlaps.
2. **A full bucket may never suffice** (`limiter_stuck`, `src/limit.rs:88`). The
   bucket holds two seconds' worth; a batch of 256 KiB exceeds it below
   0.131 MB/s and so waits for ever, with the mutex. `src/limit.rs:41` says
   that it blocks only when the budget is exhausted.
3. **A frame cut within its IPv4 header panics** (`packet_panic`,
   `src/policy.rs:29`), though captured bytes are never to be read beyond
   (document, 245–249). By `Coord`, the run then ends with exit code 101 and
   without a summary, and jobs not yet begun are dropped; nothing is lost.
4. **IPv6 fragments are cut** (`packet_fragment`, `src/parse.rs:346`); the
   document (242) has fragments left alone.
5. **IPv6 extension headers count as payload** (`packet_trailer`,
   `src/parse.rs:69`). It matters when bytes follow the packet: as many of them
   as there are header bytes are then taken for payload, and a packet with 24
   bytes or less of payload is cut.

Seen while modelling, without a run of its own:

- The cleanup can remove the temporary file of a worker that has not written for
  5 minutes (`src/coord.rs:72`), which the document (148–149) has the threshold
  avoid: the mtime stands still during the verification and a throttled read. No
  record is lost by it: the job fails and the original stays (`"stall"`,
  which the theorems about `Coord` allow).
- `Path::exists` reports a marker that cannot be read as missing (`src/coord.rs:45`),
  so that a run slims and replaces a file that is done, where the document (126–127)
  says that "re-runs are no-ops". It costs time and a new mtime, but no record
  (`NothingLost`, with `ListMisread` and `TakeUnseen`).
- `--dry-run` removes stale temporary files (`src/main.rs:151`), where the
  repository's README says "no writes".
- `ipv4_pseudo_dst` reads the no-operation option, a single byte, as one with a
  length (`src/parse.rs:100`), and so may overlook a source route after it; the
  routing header of IPv6 is not looked at. Nor is the pointer of a source route:
  the address at its end is taken also when the route is used up and the header has
  the destination. The checksum is then that of another
  destination. `ReceiverAccepts` leaves such packets out (`hidden`).
- A debug assertion (`src/checksum.rs:4`) expects at most 64 bytes, which a TCP
  header with more than 20 bytes of options and 24 of payload exceeds.

## What is not modelled

- **IPv4 header lengths below 5 words**, which `parse_ipv4` does not reject:
  headers would overlap in the frame.
- **Chains of IPv6 extension headers above 65,000 bytes**, for which the new
  16-bit length wraps: excluded by `Wraps`, only in `LengthsAgree`, and by `IsPacket`.
- **Read-ahead and write-behind** of the 4 MiB buffers in `Limiter`; see there.
- **Partial records in `Coord`.** Its units are whole; where within a record a
  file ends is in `Stream`.
- **What frames contain, in `Stream`**: their lengths only; and of headers only the
  length field. Byte order and timestamp precision are carried over by the code and left out.
- **Damage to a temporary file that is being written or counted.** It is cut
  short between the two, as by a full disk that was not reported or by a power loss.
- **mmap** beyond the length it freezes. That a capture truncated while mapped
  ends the process has the effect of `Crash`.
- **Marker reuse.** Captures are not replaced by new ones of the same name.
- **What the CPU governor measures**: its sleeps are modelled as possible at any
  sample, which covers every measurement.
- **`--single` with `--dry-run`**, which is excluded by assumption.
- **Runs without an I/O limit**: `acquire_io` returns at once then.
- Command line, logs, reports, benchmarks, scripts, test helpers.

## Plan

In order of importance:

1. Done: `SlimDir`, `Coord`; `Limiter`; `Packet`; `CopyPass`, `Stream`;
   `Checksum`; each with its proofs.
2. Done: `AccountedCapped` and `AllCharged` from the ledger of bytes;
   `CheckPredictsSlim`; the steps of `Stream` as steps of `CopyPass`;
   `ReceiverAccepts`; the measures by which runs, calls, passes and loops end; what
   holds of `Coord` even when runs overlap.
3. The panic's consequences for the other captures of a directory, run after
   run, from a model of the order in which the pool takes jobs.
4. The CPU governor (`effective_target_percent`, its windows and samples) as a
   module of its own, in place of the free choice in `CpuTick`.
5. Capture names that are used again, and rotation between runs.
