------------------------------- MODULE Coord -------------------------------
(***************************************************************************)
(* File-level coordination of pcap-slim (coord.rs and the run loop of      *)
(* main.rs): several invocations of the program, each with a pool of       *)
(* worker threads, work on one directory of captures with nothing between  *)
(* them but the file system: temporary files, an atomic rename, marker     *)
(* files and modification times.                                           *)
(*                                                                         *)
(* A file is its directory entry and the inode behind it; what an inode    *)
(* holds is the set of its units, unit 1 being the pcap global header and  *)
(* unit n + 1 the n-th record.  Every copy of a capture puts the same unit *)
(* at the same place, so a set is enough to see what is missing.  The      *)
(* capture process, crashes, power losses, I/O errors and the passing of   *)
(* time are the environment.                                               *)
(*                                                                         *)
(* An operator introduced as a variant is the one after it with a bug that *)
(* the code could well have had; nothing uses it but the runs that show    *)
(* that the properties notice.                                             *)
(***************************************************************************)
EXTENDS Integers, FiniteSets

CONSTANTS
    Files,      \* the *.pcap names of the directory
    Inodes,
    NoInode,    \* a directory entry that does not exist
    Orig,       \* Orig[f]: the inode the capture process writes
    Kind,       \* Kind[f]: "good", "bad" (malformed), "panic" (has a frame
                \*   that makes the packet code panic)
    Live,       \* the files still being captured at first
    Procs,      \* the invocations of pcap-slim
    Mode,       \* Mode[p]: "slim", "check" (--check-only), "dry" (--dry-run)
    Dir,        \* Dir[p]: the files p is pointed at
    Single,     \* the invocations with --single
    AgeFilter,  \* the invocations with --age-minutes
    Workers,    \* --workers
    Hazards,    \* what the operator and the machine may do: see below
    MaxLen,     \* bound on the units of a capture
    MaxFaults   \* bound on the I/O errors, crashes and power losses

(***************************************************************************)
(* "overlap": two slimming invocations may work on the same file at once.  *)
(* "stall":   a worker may leave its temporary file unwritten for more     *)
(*            than five minutes (a throttled or a long verification pass). *)
(***************************************************************************)
ASSUME ConstantsAssumption ==
    /\ NoInode \notin Inodes
    /\ Orig \in [Files -> Inodes]
    /\ \A f, g \in Files : f # g => Orig[f] # Orig[g]
    /\ Kind \in [Files -> {"good", "bad", "panic"}]
    /\ Live \subseteq Files
    /\ Mode \in [Procs -> {"slim", "check", "dry"}]
    /\ Dir \in [Procs -> SUBSET Files]
    /\ Single \subseteq Procs
    /\ AgeFilter \subseteq Procs \ Single
    /\ \A p \in Single : Mode[p] # "dry"
    /\ Workers \in Nat \ {0}
    /\ Hazards \subseteq {"overlap", "stall"}
    /\ MaxLen \in Nat \ {0}
    /\ MaxFaults \in Nat

VARIABLES
    src,        \* src[f]: the inode named f
    tmp,        \* tmp[f]: the inode named f.tmp, or NoInode
    data,       \* data[i]: the units inode i holds
    synced,     \* the inodes whose data has reached the disk
    marked,     \* the files with a marker in .slim_markers
    stale,      \* the files whose f.tmp was last written over 300 s ago
    aged,       \* the files last written over --age-minutes ago
    captured,   \* captured[f]: the number of units captured
    capturing,  \* the files still being captured
    rewrites,   \* rewrites[f]: how often f has been replaced (history only)
    phase,      \* phase[p]: where run() is
    pc,         \* pc[p][f]: where p's cleanup, then p's job, is for f
    rino, wino, \* the source and temporary inodes a job has open
    rpos, wpos, \* the units a job has read and written
    faults      \* faults spent

disk    == <<src, tmp, data, synced, marked>>
clock   == <<stale, aged>>
capture == <<captured, capturing, rewrites>>
job     == <<pc, rino, wino, rpos, wpos>>
vars    == <<disk, clock, capture, phase, job, faults>>

Phases == {"idle", "clean", "list", "jobs"}
\* What a finished job reports; "dropped" is a job a panic kept from running.
Finished == {"ok", "skip", "fail", "panic", "dropped"}
Writing  == {"open", "copy", "verify", "rename"}
Running  == Writing \union {"create", "check", "mark", "undo"}
PCs == {"none", "doomed", "seen", "todo"} \union Running \union Finished

Init ==
    /\ src = Orig
    /\ tmp = [f \in Files |-> NoInode]
    /\ captured \in [Files -> 1..MaxLen]
    /\ data = [i \in Inodes |-> UNION {1..captured[f] : f \in {g \in Files : Orig[g] = i}}]
    /\ synced = {Orig[f] : f \in Files}
    /\ marked = {}
    /\ stale = {}
    /\ aged = {}
    /\ capturing = Live
    /\ rewrites = [f \in Files |-> 0]
    /\ phase = [p \in Procs |-> "idle"]
    /\ pc = [p \in Procs |-> [f \in Files |-> "none"]]
    /\ rino = [p \in Procs |-> [f \in Files |-> NoInode]]
    /\ wino = [p \in Procs |-> [f \in Files |-> NoInode]]
    /\ rpos = [p \in Procs |-> [f \in Files |-> 0]]
    /\ wpos = [p \in Procs |-> [f \in Files |-> 0]]
    /\ faults = 0

-----------------------------------------------------------------------------
(* run(): what an invocation does around its jobs (main.rs).               *)

\* All of p's files at once take the place that to[f] gives them.
Goto(p, to) == pc' = [pc EXCEPT ![p] = to]

Finish(p) ==
    /\ phase' = [phase EXCEPT ![p] = "idle"]
    /\ Goto(p, [f \in Files |-> "none"])

\* The operator starts p, unless another slimming run overlaps with it.
MayStart(p) ==
    \/ "overlap" \in Hazards
    \/ Mode[p] # "slim"
    \/ \A q \in Procs \ {p} :
          Mode[q] = "slim" /\ phase[q] # "idle" => Dir[p] \intersect Dir[q] = {}

\* Variant: every --dir run cleans up, --check-only too.
CleanAlways(p) == IF p \in Single THEN "jobs" ELSE "clean"

\* Cleanup comes first in --dir mode unless --check-only; --single has one
\* job and no listing.
FirstPhase(p) == IF p \in Single THEN "jobs"
                 ELSE IF Mode[p] = "check" THEN "list" ELSE "clean"

Start(p) ==
    /\ phase[p] = "idle"
    /\ MayStart(p)
    /\ phase' = [phase EXCEPT ![p] = FirstPhase(p)]
    /\ Goto(p, [f \in Files |-> IF p \in Single /\ f \in Dir[p] THEN "todo" ELSE "none"])
    /\ UNCHANGED <<disk, clock, capture, rino, wino, rpos, wpos, faults>>

\* It is the turn of f in p's cleanup.
CleanTurn(p, f) ==
    /\ phase[p] = "clean"
    /\ f \in Dir[p]
    /\ pc[p][f] = "none"
    /\ \A g \in Files : pc[p][g] # "doomed"

\* cleanup_tmp_older_than, one entry at a time: the age of the entry is read,
CleanStat(p, f) ==
    /\ CleanTurn(p, f)
    /\ pc' = [pc EXCEPT ![p][f] =
                 IF tmp[f] # NoInode /\ f \in stale THEN "doomed" ELSE "seen"]
    /\ UNCHANGED <<disk, clock, capture, phase, rino, wino, rpos, wpos, faults>>

\* and then whatever has that name is removed.
CleanRemove(p, f) ==
    /\ pc[p][f] = "doomed"
    /\ pc' = [pc EXCEPT ![p][f] = "seen"]
    /\ tmp' = [tmp EXCEPT ![f] = NoInode]
    /\ stale' = stale \ {f}
    /\ UNCHANGED <<src, data, synced, marked, aged, capture, phase, rino, wino, rpos,
                   wpos, faults>>

CleanDone(p) ==
    /\ phase[p] = "clean"
    /\ \A f \in Dir[p] : pc[p][f] = "seen"
    /\ phase' = [phase EXCEPT ![p] = "list"]
    /\ Goto(p, [f \in Files |-> "none"])
    /\ UNCHANGED <<disk, clock, capture, rino, wino, rpos, wpos, faults>>

\* The files old enough to be listed.
OldEnough(p) == {f \in Dir[p] : p \in AgeFilter => f \in aged}

\* Variant: the age of a capture is not looked at.
PendingAnyAge(p) == Dir[p] \ marked

\* Variant: the comparison of the age is the wrong way round.
PendingYoung(p) == {f \in Dir[p] \ marked : p \in AgeFilter => f \notin aged}

\* list_pending_pcaps: old enough and not marked.
Pending(p) == OldEnough(p) \ marked

\* Without files to work on, or under --dry-run, the run ends here, with exit
\* code 0.
ListAs(p, listed) ==
    /\ phase[p] = "list"
    /\ IF listed = {} \/ Mode[p] = "dry"
       THEN Finish(p)
       ELSE /\ phase' = [phase EXCEPT ![p] = "jobs"]
            /\ Goto(p, [f \in Files |-> IF f \in listed THEN "todo" ELSE "none"])
    /\ UNCHANGED <<disk, clock, capture, rino, wino, rpos, wpos>>

List(p) == ListAs(p, Pending(p)) /\ UNCHANGED faults

\* The exit code: a panic unwinds through install() before any report; a
\* failed file fails the run.
AllFinished(p) == \A f \in Files : pc[p][f] \in Finished \union {"none"}

\* Variant: failed files do not count.
ExitCodeOfPanic(p) == IF \E f \in Files : pc[p][f] = "panic" THEN "101" ELSE "0"

ExitCode(p) == IF \E f \in Files : pc[p][f] = "panic" THEN "101"
               ELSE IF \E f \in Files : pc[p][f] = "fail" THEN "1" ELSE "0"

EndRun(p) ==
    /\ phase[p] = "jobs"
    /\ AllFinished(p)
    /\ Finish(p)
    /\ UNCHANGED <<disk, clock, capture, rino, wino, rpos, wpos, faults>>

-----------------------------------------------------------------------------
(* slim_file_in_place and check_file: the job of p for one file.           *)

At(p, f, here) == pc[p][f] = here
Step(p, f, next) == pc' = [pc EXCEPT ![p][f] = next]

\* The job is over for the copying pass: it holds no file open.
Drop(p, f) == /\ rino' = [rino EXCEPT ![p][f] = NoInode]
              /\ wino' = [wino EXCEPT ![p][f] = NoInode]
              /\ wpos' = [wpos EXCEPT ![p][f] = 0]

\* A free worker takes the file up.
TakeUp(p, f, next) ==
    /\ At(p, f, "todo")
    /\ Cardinality({g \in Files : pc[p][g] \in Running}) < Workers
    /\ Step(p, f, next)
    /\ UNCHANGED <<disk, clock, capture, phase, rino, wino, rpos, wpos>>

FirstStep(p) == IF Mode[p] = "check" THEN "check" ELSE "create"

\* Variant: the marker is looked at when listing only.
TakeUnchecked(p, f) == TakeUp(p, f, FirstStep(p)) /\ UNCHANGED faults

\* The job looks for the marker once more.
Take(p, f) ==
    /\ TakeUp(p, f, IF f \in marked THEN "skip" ELSE FirstStep(p))
    /\ UNCHANGED faults

\* check_file reads the source and writes nothing.
CheckFile(p, f) ==
    /\ At(p, f, "check")
    /\ Step(p, f, CASE Kind[f] = "good" -> "ok"
                    [] Kind[f] = "bad" -> "fail"
                    [] OTHER -> "panic")
    /\ UNCHANGED <<disk, clock, capture, phase, rino, wino, rpos, wpos, faults>>

\* The inodes with no name and no open handle.
Free == {i \in Inodes : \A f \in Files : /\ i \notin {src[f], tmp[f], Orig[f]}
                                        /\ \A p \in Procs : i \notin {wino[p][f], rino[p][f]}}

\* File::create truncates the file that has the name, or makes a new one.
CreateTmp(p, f) ==
    /\ At(p, f, "create")
    /\ \E i \in IF tmp[f] # NoInode THEN {tmp[f]} ELSE Free :
          /\ tmp' = [tmp EXCEPT ![f] = i]
          /\ data' = [data EXCEPT ![i] = {}]
          /\ synced' = synced \ {i}
          /\ wino' = [wino EXCEPT ![p][f] = i]
    /\ stale' = stale \ {f}
    /\ Step(p, f, "open")
    /\ UNCHANGED <<src, marked, aged, capture, phase, rino, rpos, wpos, faults>>

OpenSrc(p, f) ==
    /\ At(p, f, "open")
    /\ rino' = [rino EXCEPT ![p][f] = src[f]]
    /\ rpos' = [rpos EXCEPT ![p][f] = 0]
    /\ Step(p, f, "copy")
    /\ UNCHANGED <<disk, clock, capture, phase, wino, wpos, faults>>

\* Variant: the end of the source goes unnoticed.
ReadAnyUnit(p, f) ==
    /\ At(p, f, "copy")
    /\ rpos' = [rpos EXCEPT ![p][f] = @ + 1]
    /\ UNCHANGED <<disk, clock, capture, phase, pc, rino, wino, wpos, faults>>

\* The next unit is read, and its slimmed form buffered.
ReadUnit(p, f) ==
    /\ At(p, f, "copy")
    /\ rpos[p][f] + 1 \in data[rino[p][f]]
    /\ rpos' = [rpos EXCEPT ![p][f] = @ + 1]
    /\ UNCHANGED <<disk, clock, capture, phase, pc, rino, wino, wpos, faults>>

\* Buffered units reach the temporary file; its mtime becomes now.
Flush(p, f) ==
    /\ At(p, f, "copy")
    /\ wpos[p][f] < rpos[p][f]
    /\ LET i == wino[p][f] IN
       /\ data' = [data EXCEPT ![i] = @ \union {wpos[p][f] + 1}]
       /\ synced' = synced \ {i}
       /\ stale' = stale \ {g \in Files : tmp[g] = i}
       /\ aged' = aged \ {g \in Files : src[g] = i}
    /\ wpos' = [wpos EXCEPT ![p][f] = @ + 1]
    /\ UNCHANGED <<src, tmp, marked, capture, phase, pc, rino, wino, rpos, faults>>

\* The source is malformed, or has no global header: the pass ends in Err.
ReadFails(p, f) ==
    /\ At(p, f, "copy")
    /\ Kind[f] = "bad" \/ (rpos[p][f] = 0 /\ 1 \notin data[rino[p][f]])
    /\ Step(p, f, "undo")
    /\ Drop(p, f)
    /\ rpos' = [rpos EXCEPT ![p][f] = 0]
    /\ UNCHANGED <<disk, clock, capture, phase, faults>>

\* A frame makes the packet code panic: nothing is undone.
Panic(p, f) ==
    /\ At(p, f, "copy")
    /\ Kind[f] = "panic" /\ rpos[p][f] > 0
    /\ Step(p, f, "panic")
    /\ Drop(p, f)
    /\ rpos' = [rpos EXCEPT ![p][f] = 0]
    /\ UNCHANGED <<disk, clock, capture, phase, faults>>

\* Variant: flush without sync_data.
SyncNothing(p, f) ==
    /\ At(p, f, "copy")
    /\ Kind[f] = "good"
    /\ rpos[p][f] > 0 /\ rpos[p][f] + 1 \notin data[rino[p][f]]
    /\ wpos[p][f] = rpos[p][f]
    /\ Step(p, f, IF tmp[f] = NoInode THEN "undo" ELSE "verify")
    /\ Drop(p, f)
    /\ UNCHANGED <<src, tmp, data, synced, marked, clock, capture, phase, rpos, faults>>

\* Variant: a malformed record is taken for the end of the source.
SyncMalformed(p, f) ==
    /\ At(p, f, "copy")
    /\ rpos[p][f] > 0 /\ rpos[p][f] + 1 \notin data[rino[p][f]]
    /\ wpos[p][f] = rpos[p][f]
    /\ synced' = synced \union {wino[p][f]}
    /\ Step(p, f, IF tmp[f] = NoInode THEN "undo" ELSE "verify")
    /\ Drop(p, f)
    /\ UNCHANGED <<src, tmp, data, marked, clock, capture, phase, rpos, faults>>

\* End of the source: flush, sync_data, and stat of the temporary path.
Sync(p, f) ==
    /\ At(p, f, "copy")
    /\ Kind[f] = "good"
    /\ rpos[p][f] > 0 /\ rpos[p][f] + 1 \notin data[rino[p][f]]
    /\ wpos[p][f] = rpos[p][f]
    /\ synced' = synced \union {wino[p][f]}
    /\ Step(p, f, IF tmp[f] = NoInode THEN "undo" ELSE "verify")
    /\ Drop(p, f)
    /\ UNCHANGED <<src, tmp, data, marked, clock, capture, phase, rpos, faults>>

\* A gap reads as zeroes, which parse as any number of records or none.
Holed(units) == \A n \in 0..MaxLen : units # 1..n

\* verify_tmp_packet_count, by path: as many units as the pass has read?
CountsAs(f, n) == tmp[f] # NoInode /\ data[tmp[f]] = 1..n
MayCountAs(f, n) == CountsAs(f, n) \/ (tmp[f] # NoInode /\ Holed(data[tmp[f]]))

Verify(p, f) ==
    /\ At(p, f, "verify")
    /\ \/ MayCountAs(f, rpos[p][f]) /\ Step(p, f, "rename")
       \/ ~CountsAs(f, rpos[p][f]) /\ Step(p, f, "undo")
    /\ rpos' = [rpos EXCEPT ![p][f] = 0]
    /\ UNCHANGED <<disk, clock, capture, phase, rino, wino, wpos, faults>>

\* Variant: an error leaves the temporary file behind.
KeepTmp(p, f) ==
    /\ At(p, f, "undo")
    /\ Step(p, f, "fail")
    /\ UNCHANGED <<disk, clock, capture, phase, rino, wino, rpos, wpos, faults>>

\* remove_file after an error; that it may fail too is part of IoError.
RemoveTmp(p, f) ==
    /\ At(p, f, "undo")
    /\ tmp' = [tmp EXCEPT ![f] = NoInode]
    /\ stale' = stale \ {f}
    /\ Step(p, f, "fail")
    /\ UNCHANGED <<src, data, synced, marked, aged, capture, phase, rino, wino, rpos,
                   wpos, faults>>

\* Variant: the result of the rename is ignored.
RenameUnchecked(p, f) ==
    /\ At(p, f, "rename")
    /\ IF tmp[f] = NoInode
       THEN Step(p, f, "mark") /\ UNCHANGED <<src, tmp, clock, rewrites>>
       ELSE /\ src' = [src EXCEPT ![f] = tmp[f]]
            /\ tmp' = [tmp EXCEPT ![f] = NoInode]
            /\ stale' = stale \ {f}
            /\ aged' = aged \ {f}
            /\ rewrites' = [rewrites EXCEPT ![f] = @ + 1]
            /\ Step(p, f, "mark")
    /\ UNCHANGED <<data, synced, marked, captured, capturing, phase, rino, wino, rpos,
                   wpos, faults>>

Rename(p, f) ==
    /\ At(p, f, "rename")
    /\ IF tmp[f] = NoInode
       THEN Step(p, f, "fail") /\ UNCHANGED <<src, tmp, clock, rewrites>>
       ELSE /\ src' = [src EXCEPT ![f] = tmp[f]]
            /\ tmp' = [tmp EXCEPT ![f] = NoInode]
            /\ stale' = stale \ {f}
            /\ aged' = aged \ {f}
            /\ rewrites' = [rewrites EXCEPT ![f] = @ + 1]
            /\ Step(p, f, "mark")
    /\ UNCHANGED <<data, synced, marked, captured, capturing, phase, rino, wino, rpos,
                   wpos, faults>>

Mark(p, f) ==
    /\ At(p, f, "mark")
    /\ marked' = marked \union {f}
    /\ Step(p, f, "ok")
    /\ UNCHANGED <<src, tmp, data, synced, clock, capture, phase, rino, wino, rpos,
                   wpos, faults>>

\* Once a job has panicked, a job not yet taken may never run.
DropJob(p, f) ==
    /\ At(p, f, "todo")
    /\ \E g \in Files : pc[p][g] = "panic"
    /\ Step(p, f, "dropped")
    /\ UNCHANGED <<disk, clock, capture, phase, rino, wino, rpos, wpos, faults>>

-----------------------------------------------------------------------------
(* Errors, crashes and power losses.                                       *)

Fault == faults < MaxFaults /\ faults' = faults + 1

\* read_dir fails in the cleanup, which then reports that it cleaned nothing.
CleanFails(p) ==
    /\ Fault
    /\ phase[p] = "clean"
    /\ \A f \in Files : pc[p][f] = "none"
    /\ phase' = [phase EXCEPT ![p] = "list"]
    /\ Goto(p, [f \in Files |-> "none"])
    /\ UNCHANGED <<disk, clock, capture, rino, wino, rpos, wpos>>

\* read_dir or metadata fails while listing: the run ends with exit code 1.
ListFails(p) ==
    /\ Fault
    /\ phase[p] = "list"
    /\ Finish(p)
    /\ UNCHANGED <<disk, clock, capture, rino, wino, rpos, wpos>>

\* Path::exists and is_file take any error for "no": a marked file is listed
\* as unmarked, or a capture is left out.
ListMisread(p) ==
    /\ Fault
    /\ \/ \E f \in OldEnough(p) \intersect marked : ListAs(p, Pending(p) \union {f})
       \/ \E f \in Pending(p) : ListAs(p, Pending(p) \ {f})

\* The job takes a marked file for an unmarked one.
TakeUnseen(p, f) ==
    /\ Fault
    /\ f \in marked
    /\ TakeUp(p, f, FirstStep(p))

\* Any other system call for f fails.  A temporary file whose age cannot be
\* read, or that cannot be removed, stays where it is.  Up to the verification
\* the error is handled by removing the temporary file; after it by nothing.
IoError(p, f) ==
    /\ Fault
    /\ \/ /\ pc[p][f] \in {"create", "open", "copy", "verify"}
          /\ Step(p, f, "undo")
          /\ UNCHANGED marked
       \/ /\ pc[p][f] \in {"check", "undo", "rename"}
          /\ Step(p, f, "fail")
          /\ UNCHANGED marked
       \/ /\ CleanTurn(p, f) \/ pc[p][f] = "doomed"
          /\ Step(p, f, "seen")
          /\ UNCHANGED marked
       \/ /\ pc[p][f] = "mark"
          /\ Step(p, f, "fail")
          /\ marked' \in {marked, marked \union {f}}
    /\ Drop(p, f)
    /\ rpos' = [rpos EXCEPT ![p][f] = 0]
    /\ UNCHANGED <<src, tmp, data, synced, clock, capture, phase>>

\* All the processes in ps die.
Die(ps) ==
    /\ phase' = [p \in Procs |-> IF p \in ps THEN "idle" ELSE phase[p]]
    /\ pc' = [p \in Procs |-> IF p \in ps THEN [f \in Files |-> "none"] ELSE pc[p]]
    /\ rino' = [p \in Procs |-> IF p \in ps THEN [f \in Files |-> NoInode] ELSE rino[p]]
    /\ wino' = [p \in Procs |-> IF p \in ps THEN [f \in Files |-> NoInode] ELSE wino[p]]
    /\ rpos' = [p \in Procs |-> IF p \in ps THEN [f \in Files |-> 0] ELSE rpos[p]]
    /\ wpos' = [p \in Procs |-> IF p \in ps THEN [f \in Files |-> 0] ELSE wpos[p]]

Crash(p) ==
    /\ Fault
    /\ phase[p] # "idle"
    /\ Die({p})
    /\ UNCHANGED <<disk, clock, capture>>

\* Directory changes survive in order; data not yet synced may be lost.
PowerLoss ==
    /\ Fault
    /\ \E lost \in SUBSET ({src[f] : f \in Files} \union {tmp[f] : f \in Files}) :
          /\ lost \subseteq Inodes \ synced
          /\ data' = [i \in Inodes |-> IF i \in lost THEN {} ELSE data[i]]
    /\ Die(Procs)
    /\ UNCHANGED <<src, tmp, synced, marked, clock, capture>>

-----------------------------------------------------------------------------
(* The capture process and the passing of time.                            *)

Append(f) ==
    /\ f \in capturing
    /\ captured[f] < MaxLen
    /\ captured' = [captured EXCEPT ![f] = @ + 1]
    /\ data' = [data EXCEPT ![Orig[f]] = @ \union {captured[f] + 1}]
    /\ UNCHANGED <<src, tmp, synced, marked, clock, capturing, rewrites, phase, job, faults>>

Close(f) ==
    /\ f \in capturing
    /\ capturing' = capturing \ {f}
    /\ UNCHANGED <<disk, clock, captured, rewrites, phase, job, faults>>

\* A capture is written more often than every --age-minutes minutes.
SrcAges(f) ==
    /\ f \notin capturing \union aged
    /\ aged' = aged \union {f}
    /\ UNCHANGED <<disk, stale, capture, phase, job, faults>>

\* Without "stall", a worker writes its temporary file, or is done with it,
\* within five minutes.
TmpStales(f) ==
    /\ tmp[f] # NoInode /\ f \notin stale
    /\ "stall" \in Hazards \/ \A p \in Procs : pc[p][f] \notin Writing
    /\ stale' = stale \union {f}
    /\ UNCHANGED <<disk, aged, capture, phase, job, faults>>

-----------------------------------------------------------------------------
RunStep(p) == Start(p) \/ CleanDone(p) \/ List(p) \/ EndRun(p)

JobStep(p, f) ==
    \/ CleanStat(p, f) \/ CleanRemove(p, f)
    \/ Take(p, f) \/ CheckFile(p, f)
    \/ CreateTmp(p, f) \/ OpenSrc(p, f) \/ ReadUnit(p, f) \/ Flush(p, f)
    \/ ReadFails(p, f) \/ Panic(p, f) \/ Sync(p, f)
    \/ Verify(p, f) \/ RemoveTmp(p, f) \/ Rename(p, f) \/ Mark(p, f)
    \/ DropJob(p, f)

ProcStep(p) == RunStep(p) \/ \E f \in Files : JobStep(p, f)

Environment ==
    \/ \E p \in Procs : CleanFails(p) \/ ListFails(p) \/ ListMisread(p) \/ Crash(p)
    \/ \E p \in Procs, f \in Files : TakeUnseen(p, f) \/ IoError(p, f)
    \/ PowerLoss
    \/ \E f \in Files : Append(f) \/ Close(f) \/ SrcAges(f) \/ TmpStales(f)

Next == (\E p \in Procs : ProcStep(p)) \/ Environment

Spec == Init /\ [][Next]_vars

\* The operating system runs every process that can run, cron starts every
\* invocation again and again, captures end and time passes.
Fairness == /\ \A p \in Procs : WF_vars(ProcStep(p))
            /\ \A f \in Files : WF_vars(Close(f)) /\ WF_vars(SrcAges(f)) /\ WF_vars(TmpStales(f))

FairSpec == Spec /\ Fairness

-----------------------------------------------------------------------------
(* Properties.                                                             *)

\* How the program is meant to be used: one slimming run per file at a time,
\* and captures in progress kept out of reach by --age-minutes.
SafeUse == /\ "overlap" \notin Hazards
           /\ \A p \in Procs : Mode[p] = "slim" /\ p \notin AgeFilter => Dir[p] \intersect Live = {}

Slimmed(f) == src[f] # Orig[f]

TypeOK ==
    /\ src \in [Files -> Inodes]
    /\ tmp \in [Files -> Inodes \union {NoInode}]
    /\ data \in [Inodes -> SUBSET (1..MaxLen)]
    /\ synced \subseteq Inodes
    /\ marked \subseteq Files
    /\ stale \subseteq Files
    /\ aged \subseteq Files
    /\ captured \in [Files -> 1..MaxLen]
    /\ capturing \subseteq Live
    /\ rewrites \in [Files -> Nat]
    /\ phase \in [Procs -> Phases]
    /\ pc \in [Procs -> [Files -> PCs]]
    /\ rino \in [Procs -> [Files -> Inodes \union {NoInode}]]
    /\ wino \in [Procs -> [Files -> Inodes \union {NoInode}]]
    /\ rpos \in [Procs -> [Files -> 0..MaxLen]]
    /\ wpos \in [Procs -> [Files -> 0..MaxLen]]
    /\ faults \in 0..MaxFaults

\* Whatever crashes, fails or loses power, and whenever it does, the file
\* that has a capture's name holds every record captured so far: the copy
\* that replaces the original is complete and on the disk
\* (slim_file_in_place, slim_pcap_with_options).
NothingLost == \A f \in Files : data[src[f]] = 1..captured[f]

\* A marker is only ever set on a file that was slimmed, so skipping marked
\* files skips nothing that is still to be done (create_marker, is_marked).
MarkedIsSlim == \A f \in marked : Slimmed(f) /\ Kind[f] = "good"

\* A capture that cannot be slimmed keeps its original, unmarked, so that a
\* later version of the program may still slim it.
BadUntouched == \A f \in Files : Kind[f] # "good" => src[f] = Orig[f] /\ f \notin marked

\* A run that exits with 0 has left every file it listed slimmed and marked
\* (the summary and exit code of run()).
ExitZeroMeansDone ==
    \A p \in Procs :
       phase[p] = "jobs" /\ AllFinished(p) /\ ExitCode(p) = "0" /\ Mode[p] = "slim"
          => \A f \in Files : pc[p][f] # "none" => f \in marked /\ Slimmed(f)

\* Re-runs are no-ops: a capture is replaced once, and again at most once for
\* each fault.  Two kinds of fault do cause it: one that stops a job between
\* its rename and its marker, and a marker that cannot be read, which
\* is_marked reports as none (is_marked, slim_file_in_place).
RewrittenOnce == \A f \in Files : rewrites[f] <= 1 + faults

\* p itself takes a step that does not fail.
Acts(p) == <<phase[p], pc[p]>>' # <<phase[p], pc[p]>> /\ UNCHANGED faults

\* --check-only leaves the directory as it found it: no step of such a run
\* changes an entry, a file's contents or a marker.
CheckOnlyWritesNothing ==
    [][\A p \in Procs :
          Mode[p] = "check" /\ Acts(p) => UNCHANGED <<src, tmp, data, marked>>]_vars

\* Every well-formed capture that a slimming run is pointed at ends up
\* slimmed and marked, whatever went wrong on the way.
EventuallySlim ==
    \A f \in Files :
       Kind[f] = "good" /\ (\E p \in Procs : Mode[p] = "slim" /\ f \in Dir[p])
          => <>[](f \in marked /\ Slimmed(f))

\* No temporary file stays for ever, whatever has left it behind.
OrphansGo == \A f \in Files : []<>(tmp[f] = NoInode)

\* The coordination implements the directory it promises.
Promise == INSTANCE SlimDir WITH
    Slimmable <- {f \in Files : Kind[f] = "good"},
    form <- [f \in Files |-> IF Slimmed(f) THEN "slim" ELSE "raw"],
    units <- [f \in Files |-> data[src[f]]],
    recorded <- captured,
    open <- capturing

ImplementsPromise == Promise!Spec
=============================================================================
