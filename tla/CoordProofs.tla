---------------------------- MODULE CoordProofs ----------------------------
(***************************************************************************)
(* The properties of Coord for any number of files, invocations, workers   *)
(* and faults, with stalls.  That no record is lost, that a capture is     *)
(* rewritten again only after a fault and that SlimDir is implemented      *)
(* takes SafeUse; that a run writes only what it may, that what it marks   *)
(* and reports is so, and that it ends holds however the program is used.  *)
(*                                                                         *)
(* None of it is inductive alone.  What makes a rename safe is that the    *)
(* temporary file has been complete and synced since the end of the copy;  *)
(* that nobody but its job can have written it since; and that the capture *)
(* had ended before the job was listed.  IInv says so, part by part.       *)
(***************************************************************************)
EXTENDS Coord, TLAPS

\* A job that will write, is writing or has written, up to its marker.
Pre     == {"create", "open", "copy", "verify", "rename", "mark"}
SlimPCs == Pre \union {"undo"}
JobPCs  == {"todo"} \union Running \union Finished

-----------------------------------------------------------------------------
(* The parts of the inductive invariant.                                   *)

\* Slimming runs in progress have no file in common.
Exclusive ==
    \A p, q \in Procs :
       p # q /\ Mode[p] = "slim" /\ Mode[q] = "slim"
         /\ phase[p] # "idle" /\ phase[q] # "idle"
          => Dir[p] \intersect Dir[q] = {}

\* Where a file's place can be follows from the phase and mode of the run.
Placed ==
    \A p \in Procs, f \in Files :
       /\ phase[p] \in {"idle", "list"} => pc[p][f] = "none"
       /\ phase[p] = "clean" => pc[p][f] \in {"none", "doomed", "seen"}
       /\ pc[p][f] # "none" => f \in Dir[p]
       /\ pc[p][f] \in SlimPCs => Mode[p] = "slim"
       /\ pc[p][f] = "todo" => Mode[p] # "dry"
       /\ pc[p][f] = "check" => Mode[p] = "check"
       /\ phase[p] = "clean" \/ pc[p][f] = "doomed" => Mode[p] # "check"

\* Inodes have at most one name, and no temporary file is a capture.
Names ==
    \A f, g \in Files :
       /\ f # g => src[f] # src[g] /\ src[f] # Orig[g]
       /\ tmp[f] # src[g] /\ tmp[f] # Orig[g]
       /\ f # g /\ tmp[f] # NoInode => tmp[f] # tmp[g]

\* Captures in progress are out of every slimming job's reach.
Reach ==
    /\ \A f \in capturing : src[f] = Orig[f] /\ f \notin aged
    /\ \A p \in Procs, f \in Files :
          Mode[p] = "slim" /\ pc[p][f] \in JobPCs => f \notin capturing

\* A file's contents are complete and durable.
Whole == \A f \in Files : data[src[f]] = 1..captured[f] /\ src[f] \in synced

\* An inode being written has no other writer, and no name but f.tmp.
WriterOK(p, f) ==
    /\ pc[p][f] \notin {"open", "copy"} => wino[p][f] = NoInode /\ wpos[p][f] = 0
    /\ pc[p][f] \in {"open", "copy"} =>
          /\ wino[p][f] \in Inodes
          /\ tmp[f] \in {wino[p][f], NoInode}
          /\ \A g \in Files : /\ wino[p][f] # src[g] /\ wino[p][f] # Orig[g]
                              /\ g # f => tmp[g] # wino[p][f]
          /\ \A q \in Procs, g \in Files : q # p \/ g # f => wino[q][g] # wino[p][f]

\* The copying pass writes a prefix of what it has read.
CopyOK(p, f) ==
    /\ pc[p][f] = "open" => wpos[p][f] = 0
    /\ pc[p][f] \in {"open", "copy"} => data[wino[p][f]] = 1..wpos[p][f]
    /\ pc[p][f] = "copy" => /\ rino[p][f] = src[f]
                            /\ wpos[p][f] <= rpos[p][f] /\ rpos[p][f] <= captured[f]

\* After it, the temporary file is complete and durable, or gone.
TmpOK(p, f) ==
    /\ pc[p][f] = "verify" => rpos[p][f] = captured[f]
    /\ pc[p][f] \in {"verify", "rename"} =>
          tmp[f] = NoInode \/ (data[tmp[f]] = 1..captured[f] /\ tmp[f] \in synced)

Writers  == \A p \in Procs, f \in Files : WriterOK(p, f)
Copies   == \A p \in Procs, f \in Files : CopyOK(p, f)
Complete == \A p \in Procs, f \in Files : TmpOK(p, f)

\* Only well-formed captures get that far.
WellFormed ==
    /\ \A f \in Files : Slimmed(f) => Kind[f] = "good"
    /\ \A p \in Procs, f \in Files : pc[p][f] \in {"verify", "rename", "mark"} =>
          Kind[f] = "good"

\* Markers come last.
Markers ==
    /\ \A f \in marked : Slimmed(f)
    /\ \A p \in Procs, f \in Files :
          /\ pc[p][f] = "mark" => Slimmed(f)
          /\ pc[p][f] \in {"ok", "skip"} /\ Mode[p] = "slim" => f \in marked
          /\ pc[p][f] = "dropped" => \E g \in Files : pc[p][g] = "panic"

IInv == /\ TypeOK /\ Exclusive /\ Placed /\ Names /\ Reach /\ Whole
        /\ Writers /\ Copies /\ Complete /\ WellFormed /\ Markers

-----------------------------------------------------------------------------
(* Facts used throughout.                                                  *)

\* One more unit after a prefix makes a longer prefix.
LEMMA Extend == \A n \in Nat : (1..n) \union {n + 1} = 1..(n + 1)
OBVIOUS

\* At most one invocation works on a file.
LEMMA OneJob ==
    ASSUME SafeUse, IInv, NEW p \in Procs, NEW q \in Procs, NEW f \in Files,
           pc[p][f] \in SlimPCs, pc[q][f] \in SlimPCs
    PROVE  p = q
BY ConstantsAssumption DEF IInv, Exclusive, Placed, SlimPCs, Pre, TypeOK

-----------------------------------------------------------------------------
(* Every step preserves IInv: first the steps of run().                    *)

\* The files with a job to do are in reach of p.
RowOK(p, ph, row) ==
    \A f \in Files : row[f] = "todo" =>
       /\ ph = "jobs" /\ f \in Dir[p] /\ Mode[p] # "dry"
       /\ Mode[p] = "slim" => f \notin capturing

\* A run moves to its next phase, and some of its files become jobs to do.
LEMMA NewRowsInv ==
    ASSUME SafeUse, IInv, NEW p \in Procs,
           NEW ph \in Phases, phase' = [phase EXCEPT ![p] = ph],
           NEW row \in [Files -> {"none", "todo"}], pc' = [pc EXCEPT ![p] = row],
           UNCHANGED <<disk, clock, capture, rino, wino, rpos, wpos>>,
           faults' \in 0..MaxFaults,
           \A f \in Files : pc[p][f] \notin {"open", "copy"},
           RowOK(p, ph, row), ph = "clean" => Mode[p] # "check",
           Exclusive'
    PROVE  IInv'
<1> USE ConstantsAssumption DEF IInv, disk, clock, capture, Phases, RowOK
<1>1. TypeOK' BY DEF TypeOK, PCs, Running, Writing, Finished
<1>2. Exclusive'
  OBVIOUS
<1>3. Placed' BY DEF Placed, TypeOK, SlimPCs, Pre
<1>4. Reach' BY DEF Reach, TypeOK, JobPCs, Running, Writing, Finished
<1>5. Writers' BY DEF Writers, WriterOK, TypeOK
<1>6. Copies' BY DEF Copies, CopyOK, Writers, WriterOK, TypeOK
<1>7. Complete' BY DEF Complete, TmpOK, TypeOK
<1>8. WellFormed' BY DEF WellFormed, TypeOK, Slimmed
<1>9. Markers' BY DEF Markers, TypeOK, Slimmed, Pre, Placed
<1>10. (Names /\ Whole)' BY DEF Names, Whole
<1> QED BY <1>1, <1>2, <1>3, <1>4, <1>5, <1>6, <1>7, <1>8, <1>9, <1>10

LEMMA StartInv == ASSUME SafeUse, IInv, NEW p \in Procs, Start(p) PROVE IInv'
<1> DEFINE row == [f \in Files |->
                     IF p \in Single /\ f \in Dir[p] THEN "todo" ELSE "none"]
<1> USE ConstantsAssumption
<1>1. row \in [Files -> {"none", "todo"}] /\ FirstPhase(p) \in Phases
  BY DEF FirstPhase, Phases
<1>2. pc' = [pc EXCEPT ![p] = row] /\ phase' = [phase EXCEPT ![p] = FirstPhase(p)]
  BY DEF Start, Goto
<1>3. \A f \in Files : pc[p][f] \notin {"open", "copy"}
  BY DEF IInv, Placed, Start
<1>4. \A f \in Files : row[f] = "todo" =>
        /\ FirstPhase(p) = "jobs" /\ f \in Dir[p] /\ Mode[p] # "dry"
        /\ Mode[p] = "slim" => f \notin capturing
  BY DEF FirstPhase, SafeUse, IInv, TypeOK
<1>5. /\ UNCHANGED <<disk, clock, capture, rino, wino, rpos, wpos>>
      /\ faults' \in 0..MaxFaults /\ MayStart(p)
  BY DEF Start, IInv, TypeOK
<1> HIDE DEF row
<1>6. ASSUME NEW ph \in Phases, FirstPhase(p) = ph PROVE IInv'
  <2>1. RowOK(p, ph, row)
    BY <1>4, <1>6 DEF RowOK
  <2>2. phase' = [phase EXCEPT ![p] = ph]
    BY <1>2, <1>6
  <2>3. Exclusive'
    BY <1>5, <2>2 DEF IInv, Exclusive, TypeOK, MayStart, SafeUse
  <2>4. ph = "clean" => Mode[p] # "check"
    BY <1>6 DEF FirstPhase
  <2> QED BY <1>1, <1>2, <1>3, <1>5, <2>1, <2>2, <2>3, <2>4, NewRowsInv
<1> QED BY <1>1, <1>6

\* The end of a run, and the end of its cleanup, leave it without jobs.
LEMMA NoRowsInv ==
    ASSUME SafeUse, IInv, NEW p \in Procs, NEW ph \in Phases \ {"clean"},
           phase[p] # "idle",
           phase' = [phase EXCEPT ![p] = ph], Goto(p, [f \in Files |-> "none"]),
           UNCHANGED <<disk, clock, capture, rino, wino, rpos, wpos>>,
           faults' \in 0..MaxFaults,
           \A f \in Files : pc[p][f] \notin {"open", "copy"}
    PROVE  IInv'
<1> DEFINE row == [f \in Files |-> "none"]
<1>1. row \in [Files -> {"none", "todo"}] /\ RowOK(p, ph, row)
  BY DEF RowOK
<1>2. pc' = [pc EXCEPT ![p] = row]
  BY DEF Goto
<1> HIDE DEF row
<1>3. Exclusive'
  BY DEF IInv, TypeOK, Exclusive
<1> QED BY <1>1, <1>2, <1>3, NewRowsInv

LEMMA CleanDoneInv == ASSUME SafeUse, IInv, NEW p \in Procs, CleanDone(p) PROVE IInv'
BY NoRowsInv DEF IInv, TypeOK, Placed, Phases, CleanDone

LEMMA EndRunInv == ASSUME SafeUse, IInv, NEW p \in Procs, EndRun(p) PROVE IInv'
BY NoRowsInv DEF IInv, TypeOK, Phases, Finish, EndRun, AllFinished, Finished

LEMMA ListFailsInv == ASSUME SafeUse, IInv, NEW p \in Procs, ListFails(p) PROVE IInv'
<1>1. faults' \in 0..MaxFaults
  BY ConstantsAssumption DEF IInv, TypeOK, ListFails, Fault
<1>2. phase[p] # "idle" /\ \A f \in Files : pc[p][f] \notin {"open", "copy"}
  BY DEF IInv, Placed, ListFails
<1> QED BY <1>1, <1>2, NoRowsInv DEF Phases, Finish, ListFails

LEMMA CleanFailsInv == ASSUME SafeUse, IInv, NEW p \in Procs, CleanFails(p) PROVE IInv'
<1>1. faults' \in 0..MaxFaults
  BY ConstantsAssumption DEF IInv, TypeOK, CleanFails, Fault
<1>2. phase[p] # "idle" /\ \A f \in Files : pc[p][f] \notin {"open", "copy"}
  BY DEF CleanFails
<1> QED BY <1>1, <1>2, NoRowsInv DEF Phases, CleanFails

\* Whatever old enough the run takes for pending.
LEMMA ListAsInv ==
    ASSUME SafeUse, IInv, NEW p \in Procs, NEW listed \in SUBSET OldEnough(p),
           ListAs(p, listed), faults' \in 0..MaxFaults
    PROVE  IInv'
<1> DEFINE row == [f \in Files |-> IF f \in listed THEN "todo" ELSE "none"]
<1> USE ConstantsAssumption
<1>1. CASE listed = {} \/ Mode[p] = "dry"
  <2>1. phase[p] # "idle"
    BY DEF ListAs, IInv, TypeOK
  <2>2. \A f \in Files : pc[p][f] \notin {"open", "copy"}
    BY DEF ListAs, IInv, Placed
  <2>3. phase' = [phase EXCEPT ![p] = "idle"] /\ Goto(p, [f \in Files |-> "none"])
    BY <1>1 DEF ListAs, Finish
  <2>4. UNCHANGED <<disk, clock, capture, rino, wino, rpos, wpos>>
    BY DEF ListAs
  <2> QED BY <2>1, <2>2, <2>3, <2>4, NoRowsInv DEF Phases
<1>2. CASE ~(listed = {} \/ Mode[p] = "dry")
  <2>1. row \in [Files -> {"none", "todo"}] /\ "jobs" \in Phases
    BY DEF Phases
  <2>2. pc' = [pc EXCEPT ![p] = row] /\ phase' = [phase EXCEPT ![p] = "jobs"]
    BY <1>2 DEF ListAs, Goto
  <2>3. phase[p] # "idle" /\ \A f \in Files : pc[p][f] = "none"
    BY DEF ListAs, IInv, Placed
  <2>4. RowOK(p, "jobs", row)
    BY <1>2 DEF RowOK, OldEnough, SafeUse, IInv, Reach, TypeOK
  <2>5. UNCHANGED <<disk, clock, capture, rino, wino, rpos, wpos>>
    BY DEF ListAs
  <2>6. \A f \in Files : pc[p][f] \notin {"open", "copy"}
    BY <2>3
  <2> HIDE DEF row
  <2>7. Exclusive'
    BY <2>2, <2>3 DEF IInv, TypeOK, Exclusive
  <2> QED BY <2>1, <2>2, <2>3, <2>4, <2>5, <2>6, <2>7, NewRowsInv
<1> QED BY <1>1, <1>2

LEMMA ListInv == ASSUME SafeUse, IInv, NEW p \in Procs, List(p) PROVE IInv'
<1>1. faults' \in 0..MaxFaults BY DEF List, IInv, TypeOK
<1>2. Pending(p) \in SUBSET OldEnough(p) BY DEF Pending
<1> QED BY <1>1, <1>2, ListAsInv DEF List

\* What a misread listing takes for pending is old enough too.
LEMMA Misread ==
    ASSUME NEW p \in Procs, ListMisread(p)
    PROVE  \E listed \in SUBSET OldEnough(p) : ListAs(p, listed)
<1>1. CASE \E f \in OldEnough(p) \intersect marked : ListAs(p, Pending(p) \union {f})
  <2>1. PICK f \in OldEnough(p) : ListAs(p, Pending(p) \union {f})
    BY <1>1
  <2> QED BY <2>1 DEF Pending
<1>2. CASE \E f \in Pending(p) : ListAs(p, Pending(p) \ {f})
  BY <1>2 DEF Pending
<1> QED BY <1>1, <1>2 DEF ListMisread

LEMMA ListMisreadInv ==
    ASSUME SafeUse, IInv, NEW p \in Procs, ListMisread(p) PROVE IInv'
<1>1. faults' \in 0..MaxFaults
  BY ConstantsAssumption DEF IInv, TypeOK, ListMisread, Fault
<1> QED BY <1>1, Misread, ListAsInv

LEMMA RunStepInv == ASSUME SafeUse, IInv, NEW p \in Procs, RunStep(p) PROVE IInv'
BY StartInv, CleanDoneInv, ListInv, EndRunInv DEF RunStep

-----------------------------------------------------------------------------
(* The steps of the cleanup and of the jobs.                               *)

LEMMA CleanStatInv ==
    ASSUME SafeUse, IInv, NEW p \in Procs, NEW f \in Files, CleanStat(p, f)
    PROVE  IInv'
<1> USE ConstantsAssumption DEF IInv, CleanStat, CleanTurn, disk, clock, capture
<1>1. TypeOK' BY DEF TypeOK, PCs, Running, Writing, Finished
<1>2. Placed' BY DEF Placed, TypeOK, SlimPCs, Pre
<1>3. Reach' BY DEF Reach, TypeOK, JobPCs, Running, Writing, Finished
<1>4. Writers' BY DEF Writers, WriterOK, TypeOK
<1>5. Copies' BY DEF Copies, CopyOK, Writers, WriterOK, TypeOK
<1>6. Complete' BY DEF Complete, TmpOK, TypeOK
<1>7. WellFormed' BY DEF WellFormed, TypeOK, Slimmed
<1>8. Markers' BY DEF Markers, TypeOK, Slimmed, Pre, Placed
<1>9. (Exclusive /\ Names /\ Whole)' BY DEF Exclusive, Names, Whole
<1> QED BY <1>1, <1>2, <1>3, <1>4, <1>5, <1>6, <1>7, <1>8, <1>9

\* A temporary file that is removed leaves the names of the others apart.
LEMMA TmpRemoved ==
    ASSUME IInv, NEW f \in Files, tmp' = [tmp EXCEPT ![f] = NoInode], src' = src
    PROVE  Names'
<1>1. \A g \in Files : /\ tmp'[g] = IF g = f THEN NoInode ELSE tmp[g]
                       /\ src[g] # NoInode /\ Orig[g] # NoInode
  BY ConstantsAssumption DEF IInv, TypeOK
<1> QED BY <1>1 DEF IInv, Names

LEMMA CleanRemoveInv ==
    ASSUME SafeUse, IInv, NEW p \in Procs, NEW f \in Files, CleanRemove(p, f)
    PROVE  IInv'
<1> USE ConstantsAssumption DEF IInv, CleanRemove, disk, clock, capture
<1>1. TypeOK' BY DEF TypeOK, PCs, Running, Writing, Finished
<1>2. Placed' BY DEF Placed, TypeOK, SlimPCs, Pre
<1>3. Names' BY TmpRemoved
<1>4. Reach' BY DEF Reach, TypeOK, JobPCs, Running, Writing, Finished
<1>5. Writers' BY DEF Writers, WriterOK, TypeOK
<1>6. Copies' BY DEF Copies, CopyOK, Writers, WriterOK, TypeOK
<1>7. Complete' BY DEF Complete, TmpOK, TypeOK
<1>8. WellFormed' BY DEF WellFormed, TypeOK, Slimmed
<1>9. Markers' BY DEF Markers, TypeOK, Slimmed, Pre, Placed
<1>10. (Exclusive /\ Whole)' BY DEF Exclusive, Whole
<1> QED BY <1>1, <1>2, <1>3, <1>4, <1>5, <1>6, <1>7, <1>8, <1>9, <1>10

\* A job begins, or its file is skipped.
LEMMA TakeUpInv ==
    ASSUME SafeUse, IInv, NEW p \in Procs, NEW f \in Files,
           NEW next \in {FirstStep(p), "skip"}, TakeUp(p, f, next),
           next = "skip" => f \in marked, faults' \in 0..MaxFaults
    PROVE  IInv'
<1> USE ConstantsAssumption DEF IInv, TakeUp, At, Step, disk, clock, capture
<1>1. next \in {"create", "check", "skip"} BY DEF FirstStep
<1>2. TypeOK' BY <1>1 DEF TypeOK, PCs, Running, Writing, Finished
<1>3. Placed'
  <2>1. phase[p] = "jobs" /\ f \in Dir[p] /\ Mode[p] # "dry"
    BY DEF Placed, TypeOK, Phases
  <2>2. \A q \in Procs, g \in Files : q # p \/ g # f => pc'[q][g] = pc[q][g]
    BY DEF TypeOK
  <2>3. pc'[p][f] = next
    BY DEF TypeOK
  <2>4. /\ next = "create" => Mode[p] = "slim"
        /\ next = "check" => Mode[p] = "check"
    BY <2>1 DEF FirstStep
  <2> QED BY <1>1, <2>1, <2>2, <2>3, <2>4 DEF Placed, SlimPCs, Pre
<1>4. Reach' BY <1>1 DEF Reach, TypeOK, JobPCs, Running, Writing, Finished
<1>5. Writers' BY <1>1 DEF Writers, WriterOK, TypeOK
<1>6. Copies' BY <1>1 DEF Copies, CopyOK, Writers, WriterOK, TypeOK
<1>7. Complete' BY <1>1 DEF Complete, TmpOK, TypeOK
<1>8. WellFormed' BY <1>1 DEF WellFormed, TypeOK, Slimmed
<1>9. Markers' BY <1>1 DEF Markers, TypeOK, Slimmed
<1>10. (Exclusive /\ Names /\ Whole)' BY DEF Exclusive, Names, Whole
<1> QED BY <1>2, <1>3, <1>4, <1>5, <1>6, <1>7, <1>8, <1>9, <1>10

LEMMA TakeInv ==
    ASSUME SafeUse, IInv, NEW p \in Procs, NEW f \in Files, Take(p, f)
    PROVE  IInv'
<1>1. faults' \in 0..MaxFaults BY DEF Take, IInv, TypeOK
<1>2. CASE f \in marked
  <2>1. TakeUp(p, f, "skip") BY <1>2 DEF Take
  <2> QED BY <1>1, <1>2, <2>1, TakeUpInv
<1>3. CASE f \notin marked
  <2>1. TakeUp(p, f, FirstStep(p)) BY <1>3 DEF Take
  <2>2. FirstStep(p) # "skip" BY DEF FirstStep
  <2> QED BY <1>1, <2>1, <2>2, TakeUpInv
<1> QED BY <1>2, <1>3

LEMMA TakeUnseenInv ==
    ASSUME SafeUse, IInv, NEW p \in Procs, NEW f \in Files, TakeUnseen(p, f)
    PROVE  IInv'
<1>1. faults' \in 0..MaxFaults
  BY ConstantsAssumption DEF IInv, TypeOK, TakeUnseen, Fault
<1>2. TakeUp(p, f, FirstStep(p)) /\ FirstStep(p) # "skip"
  BY DEF TakeUnseen, FirstStep
<1> QED BY <1>1, <1>2, TakeUpInv

LEMMA CheckFileInv ==
    ASSUME SafeUse, IInv, NEW p \in Procs, NEW f \in Files, CheckFile(p, f)
    PROVE  IInv'
<1> USE ConstantsAssumption DEF IInv, CheckFile, At, Step, disk, clock, capture
<1>1. TypeOK' BY DEF TypeOK, PCs, Running, Writing, Finished
<1>2. Placed' BY DEF Placed, TypeOK, SlimPCs, Pre
<1>3. Reach' BY DEF Reach, TypeOK, JobPCs, Running, Writing, Finished
<1>4. Writers' BY DEF Writers, WriterOK, TypeOK
<1>5. Copies' BY DEF Copies, CopyOK, Writers, WriterOK, TypeOK
<1>6. Complete' BY DEF Complete, TmpOK, TypeOK
<1>7. WellFormed' BY DEF WellFormed, TypeOK, Slimmed
<1>8. Markers' BY DEF Markers, TypeOK, Slimmed, Pre, Placed
<1>9. (Exclusive /\ Names /\ Whole)' BY DEF Exclusive, Names, Whole
<1> QED BY <1>1, <1>2, <1>3, <1>4, <1>5, <1>6, <1>7, <1>8, <1>9

LEMMA CreateTmpInv ==
    ASSUME SafeUse, IInv, NEW p \in Procs, NEW f \in Files, CreateTmp(p, f)
    PROVE  IInv'
<1> USE ConstantsAssumption DEF IInv, CreateTmp, At, Step, disk, clock, capture
<1>1. PICK i \in IF tmp[f] # NoInode THEN {tmp[f]} ELSE Free :
        /\ tmp' = [tmp EXCEPT ![f] = i]
        /\ data' = [data EXCEPT ![i] = {}]
        /\ synced' = synced \ {i}
        /\ wino' = [wino EXCEPT ![p][f] = i]
  OBVIOUS
<1>2. \A q \in Procs : pc[q][f] \in SlimPCs => q = p
  BY OneJob DEF SlimPCs, Pre
<1>3. i \in Inodes /\ \A g \in Files : src[g] # i /\ Orig[g] # i /\ (g # f => tmp[g] # i)
  BY <1>1 DEF Names, Free, TypeOK
<1>4. \A q \in Procs, g \in Files : wino[q][g] # i
  <2>1. CASE tmp[f] = NoInode
    BY <1>1, <2>1 DEF Free
  <2>2. CASE tmp[f] # NoInode
    BY <1>1, <1>2, <2>2 DEF Writers, WriterOK, SlimPCs, Pre
  <2> QED BY <2>1, <2>2
<1>5. TypeOK' BY <1>1, <1>3 DEF TypeOK, PCs, Running, Writing
<1>6. Placed' BY DEF Placed, TypeOK, SlimPCs, Pre
<1>7. Names' BY <1>1, <1>3 DEF Names, TypeOK
<1>8. Reach' BY DEF Reach, TypeOK, JobPCs, Running, Writing
<1>9. Whole' BY <1>1, <1>3 DEF Whole, TypeOK
<1>10. Writers'
  <2> SUFFICES ASSUME NEW q \in Procs, NEW g \in Files PROVE WriterOK(q, g)'
    BY DEF Writers
  <2>1. CASE q = p /\ g = f
    BY <1>1, <1>3, <1>4, <2>1 DEF WriterOK, Writers, TypeOK
  <2>2. CASE g = f /\ q # p
    BY <1>1, <1>2, <2>2 DEF WriterOK, Writers, TypeOK, SlimPCs, Pre
  <2>3. CASE g # f
    BY <1>1, <1>3, <1>4, <2>3 DEF WriterOK, Writers, TypeOK
  <2> QED BY <2>1, <2>2, <2>3
<1>11. Copies'
  <2> SUFFICES ASSUME NEW q \in Procs, NEW g \in Files PROVE CopyOK(q, g)'
    BY DEF Copies
  <2>1. CASE q = p /\ g = f
    <3>1. wpos'[p][f] = 0 /\ 1..0 = {}
      BY DEF Writers, WriterOK
    <3>2. pc'[p][f] = "open" /\ wino'[p][f] = i /\ data'[i] = {}
      BY <1>1, <1>3 DEF TypeOK
    <3> QED BY <2>1, <3>1, <3>2 DEF CopyOK
  <2>2. CASE ~(q = p /\ g = f)
    <3>1. pc'[q][g] = pc[q][g] /\ wino'[q][g] = wino[q][g]
      BY <1>1, <2>2 DEF TypeOK
    <3>2. CopyOK(q, g) /\ WriterOK(q, g)
      BY DEF Copies, Writers
    <3>3. pc[q][g] \in {"open", "copy"} => data'[wino[q][g]] = data[wino[q][g]]
      BY <1>1, <1>4, <3>2 DEF TypeOK, WriterOK
    <3> QED BY <3>1, <3>2, <3>3 DEF CopyOK
  <2> QED BY <2>1, <2>2
<1>12. Complete'
  <2> SUFFICES ASSUME NEW q \in Procs, NEW g \in Files PROVE TmpOK(q, g)'
    BY DEF Complete
  <2>1. CASE g = f
    BY <1>2, <2>1 DEF Complete, TmpOK, TypeOK, SlimPCs, Pre
  <2>2. CASE g # f
    BY <1>1, <1>3, <2>2 DEF Complete, TmpOK, TypeOK
  <2> QED BY <2>1, <2>2
<1>13. WellFormed' BY DEF WellFormed, TypeOK, Slimmed
<1>14. Markers' BY DEF Markers, TypeOK, Slimmed, Pre
<1>15. Exclusive' BY DEF Exclusive
<1> QED BY <1>5, <1>6, <1>7, <1>8, <1>9, <1>10, <1>11, <1>12, <1>13, <1>14, <1>15

LEMMA OpenSrcInv ==
    ASSUME SafeUse, IInv, NEW p \in Procs, NEW f \in Files, OpenSrc(p, f)
    PROVE  IInv'
<1> USE ConstantsAssumption DEF IInv, OpenSrc, At, Step, disk, clock, capture
<1>1. TypeOK' BY DEF TypeOK, PCs, Running, Writing, Finished
<1>2. Placed' BY DEF Placed, TypeOK, SlimPCs, Pre
<1>3. Reach' BY DEF Reach, TypeOK, JobPCs, Running, Writing, Finished
<1>4. Writers' BY DEF Writers, WriterOK, TypeOK
<1>5. Copies' BY DEF Copies, CopyOK, Writers, WriterOK, TypeOK
<1>6. Complete' BY DEF Complete, TmpOK, TypeOK
<1>7. WellFormed' BY DEF WellFormed, TypeOK, Slimmed
<1>8. Markers' BY DEF Markers, TypeOK, Slimmed, Pre, Placed
<1>9. (Exclusive /\ Names /\ Whole)' BY DEF Exclusive, Names, Whole
<1> QED BY <1>1, <1>2, <1>3, <1>4, <1>5, <1>6, <1>7, <1>8, <1>9

LEMMA ReadUnitInv ==
    ASSUME SafeUse, IInv, NEW p \in Procs, NEW f \in Files, ReadUnit(p, f)
    PROVE  IInv'
<1> USE ConstantsAssumption DEF IInv, ReadUnit, At, Step, disk, clock, capture
<1>1. rpos[p][f] + 1 \in 1..captured[f]
  <2>1. rino[p][f] = src[f] BY DEF Copies, CopyOK
  <2> QED BY <2>1 DEF Whole
<1>2. TypeOK' BY <1>1 DEF TypeOK
<1>3. Copies' BY <1>1 DEF Copies, CopyOK, Writers, WriterOK, TypeOK
<1>4. Complete' BY DEF Complete, TmpOK, TypeOK
<1>5. (/\ Exclusive /\ Placed /\ Names /\ Reach /\ Whole
       /\ Writers /\ WellFormed /\ Markers)'
  BY DEF Exclusive, Placed, Names, Reach, Whole, Writers, WriterOK, WellFormed,
      Markers, Slimmed
<1> QED BY <1>2, <1>3, <1>4, <1>5

LEMMA FlushInv ==
    ASSUME SafeUse, IInv, NEW p \in Procs, NEW f \in Files, Flush(p, f)
    PROVE  IInv'
<1> USE ConstantsAssumption DEF IInv, Flush, At, Step, disk, clock, capture
<1>1. WriterOK(p, f) /\ CopyOK(p, f)
  BY DEF Writers, Copies
<1>2. wino[p][f] \in Inodes /\ data[wino[p][f]] = 1..wpos[p][f]
  BY <1>1 DEF WriterOK, CopyOK
<1>3. wpos[p][f] \in Nat /\ wpos[p][f] + 1 \in 1..MaxLen /\ wpos[p][f] + 1 <= rpos[p][f]
  BY DEF TypeOK
<1>4. data' = [data EXCEPT ![wino[p][f]] = 1..(wpos[p][f] + 1)]
  BY <1>2, <1>3, Extend
<1>5. TypeOK' BY <1>2, <1>3 DEF TypeOK
<1>6. Whole' BY <1>1 DEF Whole, WriterOK, TypeOK
<1>7. Copies'
  <2> SUFFICES ASSUME NEW q \in Procs, NEW g \in Files PROVE CopyOK(q, g)'
    BY DEF Copies
  <2>1. CASE q = p /\ g = f
    <3>1. /\ wpos'[p][f] = wpos[p][f] + 1
          /\ UNCHANGED <<pc, wino, rino, rpos, src, captured>>
      BY DEF TypeOK
    <3>2. data'[wino'[p][f]] = 1..wpos'[p][f]
      <4>1. wino'[p][f] = wino[p][f]
        BY <3>1
      <4>2. data'[wino[p][f]] = 1..(wpos[p][f] + 1)
        BY <1>2, <1>4 DEF TypeOK
      <4> QED BY <3>1, <4>1, <4>2
    <3>3. pc[p][f] = "copy"
      OBVIOUS
    <3> QED
      BY <1>1, <1>3, <2>1, <3>1, <3>2, <3>3 DEF CopyOK
  <2>2. CASE ~(q = p /\ g = f)
    <3>1. wpos'[q][g] = wpos[q][g]
      BY <2>2 DEF TypeOK
    <3>2. CopyOK(q, g) /\ WriterOK(q, g) /\ wino[q][g] # wino[p][f]
      BY <1>1, <2>2 DEF Copies, Writers, WriterOK
    <3>3. pc[q][g] \in {"open", "copy"} => data'[wino[q][g]] = data[wino[q][g]]
      BY <1>4, <3>2 DEF TypeOK, WriterOK
    <3> QED BY <3>1, <3>2, <3>3 DEF CopyOK
  <2> QED BY <2>1, <2>2
<1>8. Complete'
  <2> SUFFICES ASSUME NEW q \in Procs, NEW g \in Files PROVE TmpOK(q, g)'
    BY DEF Complete
  <2>1. CASE g = f
    BY <2>1, OneJob DEF Complete, TmpOK, TypeOK, SlimPCs, Pre
  <2>2. CASE g # f
    BY <1>1, <2>2 DEF Complete, TmpOK, TypeOK, WriterOK
  <2> QED BY <2>1, <2>2
<1>9. Reach' BY DEF Reach, TypeOK
<1>10. Writers' BY DEF Writers, WriterOK, TypeOK
<1>11. (Exclusive /\ Placed /\ Names /\ WellFormed /\ Markers)'
  BY DEF Exclusive, Placed, Names, WellFormed, Markers, Slimmed
<1> QED BY <1>5, <1>6, <1>7, <1>8, <1>9, <1>10, <1>11

LEMMA ReadFailsInv ==
    ASSUME SafeUse, IInv, NEW p \in Procs, NEW f \in Files, ReadFails(p, f)
    PROVE  IInv'
<1> USE ConstantsAssumption DEF IInv, ReadFails, At, Step, Drop, disk, clock, capture
<1>1. TypeOK' BY DEF TypeOK, PCs, Running, Writing, Finished
<1>2. Placed' BY DEF Placed, TypeOK, SlimPCs, Pre
<1>3. Reach' BY DEF Reach, TypeOK, JobPCs, Running, Writing, Finished
<1>4. Writers' BY DEF Writers, WriterOK, TypeOK
<1>5. Copies' BY DEF Copies, CopyOK, Writers, WriterOK, TypeOK
<1>6. Complete' BY DEF Complete, TmpOK, TypeOK
<1>7. WellFormed' BY DEF WellFormed, TypeOK, Slimmed
<1>8. Markers' BY DEF Markers, TypeOK, Slimmed, Pre, Placed
<1>9. (Exclusive /\ Names /\ Whole)' BY DEF Exclusive, Names, Whole
<1> QED BY <1>1, <1>2, <1>3, <1>4, <1>5, <1>6, <1>7, <1>8, <1>9

LEMMA PanicInv ==
    ASSUME SafeUse, IInv, NEW p \in Procs, NEW f \in Files, Panic(p, f)
    PROVE  IInv'
<1> USE ConstantsAssumption DEF IInv, Panic, At, Step, Drop, disk, clock, capture
<1>1. TypeOK' BY DEF TypeOK, PCs, Running, Writing, Finished
<1>2. Placed' BY DEF Placed, TypeOK, SlimPCs, Pre
<1>3. Reach' BY DEF Reach, TypeOK, JobPCs, Running, Writing, Finished
<1>4. Writers' BY DEF Writers, WriterOK, TypeOK
<1>5. Copies' BY DEF Copies, CopyOK, Writers, WriterOK, TypeOK
<1>6. Complete' BY DEF Complete, TmpOK, TypeOK
<1>7. WellFormed' BY DEF WellFormed, TypeOK, Slimmed
<1>8. Markers' BY DEF Markers, TypeOK, Slimmed, Pre, Placed
<1>9. (Exclusive /\ Names /\ Whole)' BY DEF Exclusive, Names, Whole
<1> QED BY <1>1, <1>2, <1>3, <1>4, <1>5, <1>6, <1>7, <1>8, <1>9

LEMMA SyncInv ==
    ASSUME SafeUse, IInv, NEW p \in Procs, NEW f \in Files, Sync(p, f)
    PROVE  IInv'
<1> USE ConstantsAssumption DEF IInv, Sync, At, Step, Drop, disk, clock, capture
<1>1. WriterOK(p, f) /\ CopyOK(p, f)
  BY DEF Writers, Copies
<1>2. /\ rpos[p][f] = captured[f]
      /\ data[wino[p][f]] = 1..captured[f] /\ wino[p][f] \in Inodes
  BY <1>1 DEF CopyOK, WriterOK, Whole, TypeOK
<1>3. TypeOK' BY <1>2 DEF TypeOK, PCs, Running, Writing
<1>4. Placed' BY DEF Placed, TypeOK, SlimPCs, Pre
<1>5. Reach' BY DEF Reach, TypeOK, JobPCs, Running, Writing, Finished
<1>6. Whole' BY DEF Whole, Names, TypeOK
<1>7. Writers' BY DEF Writers, WriterOK, TypeOK
<1>8. Copies' BY DEF Copies, CopyOK, Writers, WriterOK, TypeOK
<1>9. Complete'
  <2> SUFFICES ASSUME NEW q \in Procs, NEW g \in Files PROVE TmpOK(q, g)'
    BY DEF Complete
  <2>1. CASE q = p /\ g = f
    BY <1>1, <1>2, <2>1 DEF TmpOK, WriterOK, TypeOK
  <2>2. CASE ~(q = p /\ g = f)
    <3>1. pc'[q][g] = pc[q][g]
      BY <2>2 DEF TypeOK
    <3>2. synced \subseteq synced'
      OBVIOUS
    <3> QED BY <3>1, <3>2 DEF Complete, TmpOK
  <2> QED BY <2>1, <2>2
<1>10. WellFormed' BY DEF WellFormed, TypeOK, Slimmed
<1>11. Markers' BY DEF Markers, TypeOK, Slimmed, Pre, Placed
<1>12. (Exclusive /\ Names)' BY DEF Exclusive, Names
<1> QED BY <1>3, <1>4, <1>5, <1>6, <1>7, <1>8, <1>9, <1>10, <1>11, <1>12

LEMMA VerifyInv ==
    ASSUME SafeUse, IInv, NEW p \in Procs, NEW f \in Files, Verify(p, f)
    PROVE  IInv'
<1> USE ConstantsAssumption DEF IInv, Verify, At, disk, clock, capture
<1>1. PICK next \in {"rename", "undo"} : pc' = [pc EXCEPT ![p][f] = next]
  BY DEF Step
<1>2. TypeOK' BY <1>1 DEF TypeOK, PCs, Running, Writing, Finished
<1>3. Placed' BY <1>1 DEF Placed, TypeOK, SlimPCs, Pre
<1>4. Reach' BY <1>1 DEF Reach, TypeOK, JobPCs, Running, Writing, Finished
<1>5. Writers' BY <1>1 DEF Writers, WriterOK, TypeOK
<1>6. Copies' BY <1>1 DEF Copies, CopyOK, Writers, WriterOK, TypeOK
<1>7. Complete' BY <1>1 DEF Complete, TmpOK, TypeOK
<1>8. WellFormed' BY <1>1 DEF WellFormed, TypeOK, Slimmed
<1>9. Markers' BY <1>1 DEF Markers, TypeOK, Slimmed, Pre, Placed
<1>10. (Exclusive /\ Names /\ Whole)' BY DEF Exclusive, Names, Whole
<1> QED BY <1>2, <1>3, <1>4, <1>5, <1>6, <1>7, <1>8, <1>9, <1>10

LEMMA RemoveTmpInv ==
    ASSUME SafeUse, IInv, NEW p \in Procs, NEW f \in Files, RemoveTmp(p, f)
    PROVE  IInv'
<1> USE ConstantsAssumption DEF IInv, RemoveTmp, At, Step, disk, clock, capture
<1>1. TypeOK' BY DEF TypeOK, PCs, Running, Writing, Finished
<1>2. Placed' BY DEF Placed, TypeOK, SlimPCs, Pre
<1>3. Names' BY TmpRemoved
<1>4. Reach' BY DEF Reach, TypeOK, JobPCs, Running, Writing, Finished
<1>5. Writers' BY DEF Writers, WriterOK, TypeOK
<1>6. Copies' BY DEF Copies, CopyOK, Writers, WriterOK, TypeOK
<1>7. Complete' BY DEF Complete, TmpOK, TypeOK
<1>8. WellFormed' BY DEF WellFormed, TypeOK, Slimmed
<1>9. Markers' BY DEF Markers, TypeOK, Slimmed, Pre, Placed
<1>10. (Exclusive /\ Whole)' BY DEF Exclusive, Whole
<1> QED BY <1>1, <1>2, <1>3, <1>4, <1>5, <1>6, <1>7, <1>8, <1>9, <1>10

LEMMA RenameInv ==
    ASSUME SafeUse, IInv, NEW p \in Procs, NEW f \in Files, Rename(p, f)
    PROVE  IInv'
<1> USE ConstantsAssumption DEF IInv, Rename, At, Step, disk, clock, capture
<1>1. CASE tmp[f] = NoInode
  <2>1. pc' = [pc EXCEPT ![p][f] = "fail"] /\ UNCHANGED <<src, tmp, stale, aged>>
    BY <1>1
  <2>2. TypeOK' BY <2>1 DEF TypeOK, PCs, Running, Writing, Finished
  <2>3. Placed' BY <2>1 DEF Placed, TypeOK, SlimPCs, Pre
  <2>4. Reach' BY <2>1 DEF Reach, TypeOK, JobPCs, Running, Writing, Finished
  <2>5. Writers' BY <2>1 DEF Writers, WriterOK, TypeOK
  <2>6. Copies' BY <2>1 DEF Copies, CopyOK, Writers, WriterOK, TypeOK
  <2>7. Complete' BY <2>1 DEF Complete, TmpOK, TypeOK
  <2>8. WellFormed' BY <2>1 DEF WellFormed, TypeOK, Slimmed
  <2>9. Markers' BY <2>1 DEF Markers, TypeOK, Slimmed, Pre, Placed
  <2>10. (Exclusive /\ Names /\ Whole)' BY <2>1 DEF Exclusive, Names, Whole
  <2> QED BY <2>2, <2>3, <2>4, <2>5, <2>6, <2>7, <2>8, <2>9, <2>10
<1>2. CASE tmp[f] # NoInode
  <2>1. /\ src' = [src EXCEPT ![f] = tmp[f]] /\ tmp' = [tmp EXCEPT ![f] = NoInode]
        /\ stale' = stale \ {f} /\ aged' = aged \ {f}
        /\ rewrites' = [rewrites EXCEPT ![f] = @ + 1]
        /\ pc' = [pc EXCEPT ![p][f] = "mark"]
    BY <1>2
  <2>2. /\ data[tmp[f]] = 1..captured[f] /\ tmp[f] \in synced /\ tmp[f] \in Inodes
        /\ f \notin capturing /\ Kind[f] = "good"
    BY <1>2 DEF Complete, TmpOK, TypeOK, Reach, JobPCs, Running, Writing, Pre,
                WellFormed, Placed, SlimPCs
  <2>3. \A g \in Files : tmp[f] # src[g] /\ tmp[f] # Orig[g] /\ (g # f => tmp[g] # tmp[f])
    BY <1>2 DEF Names
  <2>4. \A q \in Procs : pc[q][f] \in SlimPCs => q = p
    BY OneJob DEF SlimPCs, Pre
  <2>5. \A q \in Procs, g \in Files :
          pc[q][g] \in {"open", "copy"} => g # f /\ wino[q][g] # tmp[f]
    BY <2>4 DEF Writers, WriterOK, SlimPCs, Pre
  <2>6. TypeOK'
    <3>1. rewrites' \in [Files -> Nat] BY <2>1 DEF TypeOK
    <3>2. pc' \in [Procs -> [Files -> PCs]] BY <2>1 DEF TypeOK, PCs, Running
    <3> QED BY <2>1, <2>2, <3>1, <3>2 DEF TypeOK
  <2>7. Placed' BY <2>1 DEF Placed, TypeOK, SlimPCs, Pre
  <2>8. Names' BY <2>1, <2>2, <2>3 DEF Names, TypeOK
  <2>9. Reach' BY <2>1, <2>2 DEF Reach, TypeOK, JobPCs, Running, Writing, Finished
  <2>10. Whole' BY <2>1, <2>2 DEF Whole, TypeOK
  <2>11. Writers'
    <3> SUFFICES ASSUME NEW q \in Procs, NEW g \in Files PROVE WriterOK(q, g)'
      BY DEF Writers
    <3>1. WriterOK(q, g) BY DEF Writers
    <3>2. pc'[q][g] \in {"open", "copy"} <=> pc[q][g] \in {"open", "copy"}
      BY <2>1 DEF TypeOK
    <3>3. CASE pc[q][g] \notin {"open", "copy"}
      BY <3>1, <3>2, <3>3 DEF WriterOK
    <3>4. CASE pc[q][g] \in {"open", "copy"}
      <4>1. \A h \in Files : /\ src'[h] \in {src[h], tmp[f]}
                            /\ tmp'[h] \in {tmp[h], NoInode}
        BY <2>1 DEF TypeOK
      <4>2. wino[q][g] # tmp[f] /\ g # f /\ tmp'[g] = tmp[g]
        BY <2>1, <2>5, <3>4 DEF TypeOK
      <4>3. wino[q][g] # NoInode BY <3>1, <3>4 DEF WriterOK
      <4> QED BY <3>1, <3>2, <3>4, <4>1, <4>2, <4>3 DEF WriterOK
    <3> QED BY <3>3, <3>4
  <2>12. Copies'
    <3> SUFFICES ASSUME NEW q \in Procs, NEW g \in Files PROVE CopyOK(q, g)'
      BY DEF Copies
    <3>1. CopyOK(q, g) BY DEF Copies
    <3>2. pc'[q][g] \in {"open", "copy"} => pc[q][g] = pc'[q][g] /\ src'[g] = src[g]
      BY <2>1, <2>5 DEF TypeOK
    <3> QED BY <3>1, <3>2 DEF CopyOK
  <2>13. Complete'
    <3> SUFFICES ASSUME NEW q \in Procs, NEW g \in Files PROVE TmpOK(q, g)'
      BY DEF Complete
    <3>1. TmpOK(q, g) BY DEF Complete
    <3>2. pc'[q][g] \in {"verify", "rename"} => pc[q][g] = pc'[q][g] /\ tmp'[g] = tmp[g]
      BY <2>1, <2>4 DEF TypeOK, SlimPCs, Pre
    <3> QED BY <3>1, <3>2 DEF TmpOK
  <2>14. WellFormed' BY <2>1, <2>2 DEF WellFormed, TypeOK, Slimmed
  <2>15. Markers'
    <3>1. src'[f] # Orig[f] /\ \A g \in Files : g # f => src'[g] = src[g]
      BY <2>1, <2>3 DEF TypeOK
    <3>2. \A q \in Procs, g \in Files :
            pc'[q][g] = IF q = p /\ g = f THEN "mark" ELSE pc[q][g]
      BY <2>1 DEF TypeOK
    <3>3. \A q \in Procs, g \in Files :
            pc'[q][g] = "dropped" => \E h \in Files : pc'[q][h] = "panic"
      <4> SUFFICES ASSUME NEW q \in Procs, NEW g \in Files, pc'[q][g] = "dropped"
                   PROVE  \E h \in Files : pc'[q][h] = "panic"
        OBVIOUS
      <4>1. PICK h \in Files : pc[q][h] = "panic"
        BY <3>2 DEF Markers
      <4> QED BY <3>2, <4>1
    <3>4. \A g \in Files : Slimmed(g) => Slimmed(g)'
      BY <3>1 DEF Slimmed
    <3>5. Slimmed(f)' BY <3>1 DEF Slimmed
    <3>6. \A g \in marked : g \in Files BY DEF TypeOK
    <3> QED BY <3>2, <3>3, <3>4, <3>5, <3>6 DEF Markers
  <2>16. Exclusive' BY DEF Exclusive
  <2> QED BY <2>6, <2>7, <2>8, <2>9, <2>10, <2>11, <2>12, <2>13, <2>14, <2>15, <2>16
<1> QED BY <1>1, <1>2

LEMMA MarkInv ==
    ASSUME SafeUse, IInv, NEW p \in Procs, NEW f \in Files, Mark(p, f)
    PROVE  IInv'
<1> USE ConstantsAssumption DEF IInv, Mark, At, Step, disk, clock, capture
<1>1. TypeOK' BY DEF TypeOK, PCs, Running, Writing, Finished
<1>2. Placed' BY DEF Placed, TypeOK, SlimPCs, Pre
<1>3. Reach' BY DEF Reach, TypeOK, JobPCs, Running, Writing, Finished
<1>4. Writers' BY DEF Writers, WriterOK, TypeOK
<1>5. Copies' BY DEF Copies, CopyOK, Writers, WriterOK, TypeOK
<1>6. Complete' BY DEF Complete, TmpOK, TypeOK
<1>7. WellFormed' BY DEF WellFormed, TypeOK, Slimmed
<1>8. Markers'
  <2>1. \A q \in Procs, g \in Files :
          pc'[q][g] = IF q = p /\ g = f THEN "ok" ELSE pc[q][g]
    BY DEF TypeOK
  <2> QED BY <2>1 DEF Markers, Slimmed
<1>9. (Exclusive /\ Names /\ Whole)' BY DEF Exclusive, Names, Whole
<1> QED BY <1>1, <1>2, <1>3, <1>4, <1>5, <1>6, <1>7, <1>8, <1>9

LEMMA DropJobInv ==
    ASSUME SafeUse, IInv, NEW p \in Procs, NEW f \in Files, DropJob(p, f)
    PROVE  IInv'
<1> USE ConstantsAssumption DEF IInv, DropJob, At, Step, disk, clock, capture
<1>1. TypeOK' BY DEF TypeOK, PCs, Running, Writing, Finished
<1>2. Placed' BY DEF Placed, TypeOK, SlimPCs, Pre
<1>3. Reach' BY DEF Reach, TypeOK, JobPCs, Running, Writing, Finished
<1>4. Writers' BY DEF Writers, WriterOK, TypeOK
<1>5. (Copies /\ Complete)'
  <2>1. \A q \in Procs, g \in Files : pc'[q][g] = pc[q][g] \/ pc'[q][g] = "dropped"
    BY DEF TypeOK
  <2>2. ASSUME NEW q \in Procs, NEW g \in Files
        PROVE  CopyOK(q, g)' /\ TmpOK(q, g)'
    BY <2>1, <2>2 DEF Copies, CopyOK, Complete, TmpOK
  <2> QED BY <2>2 DEF Copies, Complete
<1>6. WellFormed' BY DEF WellFormed, TypeOK, Slimmed
<1>7. Markers' BY DEF Markers, TypeOK, Slimmed, Pre, Placed
<1>8. (Exclusive /\ Names /\ Whole)' BY DEF Exclusive, Names, Whole
<1> QED BY <1>1, <1>2, <1>3, <1>4, <1>5, <1>6, <1>7, <1>8

LEMMA JobStepInv ==
    ASSUME SafeUse, IInv, NEW p \in Procs, NEW f \in Files, JobStep(p, f)
    PROVE  IInv'
BY CleanStatInv, CleanRemoveInv, TakeInv, CheckFileInv, CreateTmpInv, OpenSrcInv,
   ReadUnitInv, FlushInv, ReadFailsInv, PanicInv, SyncInv, VerifyInv, RemoveTmpInv,
   RenameInv, MarkInv, DropJobInv
   DEF JobStep

-----------------------------------------------------------------------------
(* The steps of the environment.                                           *)

LEMMA IoErrorInv ==
    ASSUME SafeUse, IInv, NEW p \in Procs, NEW f \in Files, IoError(p, f)
    PROVE  IInv'
<1> USE ConstantsAssumption DEF IInv, IoError, Fault, Drop, disk, clock, capture
<1>1. PICK next \in {"undo", "fail", "seen"} :
        /\ pc' = [pc EXCEPT ![p][f] = next]
        /\ next = "undo" => pc[p][f] \in {"create", "open", "copy", "verify"}
        /\ next = "fail" => pc[p][f] \in {"check", "undo", "rename", "mark"}
        /\ next = "seen" => CleanTurn(p, f) \/ pc[p][f] = "doomed"
        /\ marked' = marked \/ (pc[p][f] = "mark" /\ marked' = marked \union {f})
  BY DEF Step
<1> USE DEF CleanTurn
<1>2. TypeOK' BY <1>1 DEF TypeOK, PCs, Running, Writing, Finished
<1>3. Placed' BY <1>1 DEF Placed, TypeOK, SlimPCs, Pre
<1>4. Reach' BY <1>1 DEF Reach, TypeOK, JobPCs, Running, Writing, Finished
<1>5. Writers' BY <1>1 DEF Writers, WriterOK, TypeOK
<1>6. Copies' BY <1>1 DEF Copies, CopyOK, Writers, WriterOK, TypeOK
<1>7. Complete'
  <2>1. \A q \in Procs, g \in Files :
          \/ pc'[q][g] = pc[q][g] /\ rpos'[q][g] = rpos[q][g]
          \/ pc'[q][g] \in {"undo", "fail", "seen"}
    BY <1>1 DEF TypeOK
  <2>2. ASSUME NEW q \in Procs, NEW g \in Files PROVE TmpOK(q, g)'
    BY <2>1 DEF Complete, TmpOK
  <2> QED BY <2>2 DEF Complete
<1>8. WellFormed' BY <1>1 DEF WellFormed, TypeOK, Slimmed
<1>9. Markers'
  <2>1. \A q \in Procs, g \in Files :
          q # p \/ g # f => pc'[q][g] = pc[q][g]
    BY <1>1 DEF TypeOK
  <2>2. pc'[p][f] \in {"undo", "fail", "seen"} /\ pc[p][f] # "panic"
    BY <1>1 DEF TypeOK
  <2> QED BY <1>1, <2>1, <2>2 DEF Markers, Slimmed
<1>10. (Exclusive /\ Names /\ Whole)' BY DEF Exclusive, Names, Whole
<1> QED BY <1>2, <1>3, <1>4, <1>5, <1>6, <1>7, <1>8, <1>9, <1>10

LEMMA CrashInv ==
    ASSUME SafeUse, IInv, NEW p \in Procs, Crash(p)
    PROVE  IInv'
<1> USE ConstantsAssumption DEF IInv, Crash, Fault, Die, Phases, disk, clock, capture
<1>1. TypeOK' BY DEF TypeOK, PCs, Running, Writing, Finished
<1>2. Exclusive' BY DEF Exclusive, TypeOK
<1>3. Placed' BY DEF Placed, TypeOK, SlimPCs, Pre
<1>4. Reach' BY DEF Reach, TypeOK, JobPCs, Running, Writing, Finished
<1>5. Writers' BY DEF Writers, WriterOK, TypeOK
<1>6. Copies' BY DEF Copies, CopyOK, Writers, WriterOK, TypeOK
<1>7. Complete' BY DEF Complete, TmpOK, TypeOK
<1>8. WellFormed' BY DEF WellFormed, TypeOK, Slimmed
<1>9. Markers' BY DEF Markers, TypeOK, Slimmed, Pre, Placed
<1>10. (Names /\ Whole)' BY DEF Names, Whole
<1> QED BY <1>1, <1>2, <1>3, <1>4, <1>5, <1>6, <1>7, <1>8, <1>9, <1>10

LEMMA PowerLossInv ==
    ASSUME SafeUse, IInv, PowerLoss
    PROVE  IInv'
<1> USE ConstantsAssumption DEF IInv, PowerLoss, Fault, Die, Phases, disk, clock, capture
<1>1. TypeOK' BY DEF TypeOK, PCs, Running, Writing, Finished
<1>2. Exclusive' BY DEF Exclusive, TypeOK
<1>3. Placed' BY DEF Placed, TypeOK, SlimPCs, Pre
<1>4. Reach' BY DEF Reach, TypeOK, JobPCs, Running, Writing, Finished
<1>5. Whole' BY DEF Whole, Names, TypeOK
<1>6. Writers' BY DEF Writers, WriterOK, TypeOK
<1>7. Copies' BY DEF Copies, CopyOK, Writers, WriterOK, TypeOK
<1>8. Complete' BY DEF Complete, TmpOK, TypeOK
<1>9. WellFormed' BY DEF WellFormed, TypeOK, Slimmed
<1>10. Markers' BY DEF Markers, TypeOK, Slimmed, Pre, Placed
<1>11. Names' BY DEF Names
<1> QED BY <1>1, <1>2, <1>3, <1>4, <1>5, <1>6, <1>7, <1>8, <1>9, <1>10, <1>11

LEMMA AppendInv ==
    ASSUME SafeUse, IInv, NEW f \in Files, Append(f)
    PROVE  IInv'
<1> USE ConstantsAssumption DEF IInv, Append, job, disk, clock, capture
<1>1. src[f] = Orig[f] /\ captured[f] \in Nat /\ captured[f] + 1 \in 1..MaxLen
  BY DEF Reach, TypeOK
<1>2. data' = [data EXCEPT ![Orig[f]] = 1..(captured[f] + 1)]
  BY <1>1, Extend DEF Whole
<1>3. TypeOK' BY <1>1 DEF TypeOK
<1>4. Whole'
  <2> SUFFICES ASSUME NEW g \in Files
               PROVE  data'[src[g]] = 1..captured'[g] /\ src[g] \in synced
    BY DEF Whole
  <2>1. CASE g = f
    <3>1. captured'[f] = captured[f] + 1 /\ src[f] \in synced
      BY DEF TypeOK, Whole
    <3>2. data'[Orig[f]] = 1..(captured[f] + 1)
      BY <1>2 DEF TypeOK
    <3> QED BY <1>1, <2>1, <3>1, <3>2
  <2>2. CASE g # f
    BY <1>2, <2>2 DEF Whole, Names, TypeOK
  <2> QED BY <2>1, <2>2
<1>5. Copies' BY DEF Copies, CopyOK, Writers, WriterOK, TypeOK
<1>6. Complete'
  <2> SUFFICES ASSUME NEW q \in Procs, NEW g \in Files PROVE TmpOK(q, g)'
    BY DEF Complete
  <2>1. TmpOK(q, g) /\ tmp[g] # Orig[f]
    BY DEF Complete, Names
  <2>2. pc[q][g] \in {"verify", "rename"} => g # f
    BY DEF Reach, Placed, SlimPCs, Pre, JobPCs, Running, Writing
  <2> QED BY <1>2, <2>1, <2>2 DEF TmpOK, TypeOK
<1>7. (Exclusive /\ Placed /\ Names /\ Reach /\ Writers /\ WellFormed /\ Markers)'
  BY DEF Exclusive, Placed, Names, Reach, Writers, WriterOK, WellFormed, Markers,
      Slimmed
<1> QED BY <1>3, <1>4, <1>5, <1>6, <1>7

LEMMA CloseInv ==
    ASSUME SafeUse, IInv, NEW f \in Files, Close(f)
    PROVE  IInv'
<1> USE ConstantsAssumption DEF IInv, Close, job, disk, clock, capture
<1>1. TypeOK' BY DEF TypeOK, PCs, Running, Writing, Finished
<1>2. Reach' BY DEF Reach, TypeOK, JobPCs, Running, Writing, Finished
<1>3. (/\ Exclusive /\ Placed /\ Names /\ Whole /\ Writers
       /\ Copies /\ Complete /\ WellFormed /\ Markers)'
  BY DEF Exclusive, Placed, Names, Whole, Writers, WriterOK, Copies, CopyOK, Complete,
      TmpOK, WellFormed, Markers, Slimmed
<1> QED BY <1>1, <1>2, <1>3

LEMMA SrcAgesInv ==
    ASSUME SafeUse, IInv, NEW f \in Files, SrcAges(f)
    PROVE  IInv'
<1> USE ConstantsAssumption DEF IInv, SrcAges, job, disk, clock, capture
<1>1. TypeOK' BY DEF TypeOK, PCs, Running, Writing, Finished
<1>2. Reach' BY DEF Reach, TypeOK, JobPCs, Running, Writing, Finished
<1>3. (/\ Exclusive /\ Placed /\ Names /\ Whole /\ Writers
       /\ Copies /\ Complete /\ WellFormed /\ Markers)'
  BY DEF Exclusive, Placed, Names, Whole, Writers, WriterOK, Copies, CopyOK, Complete,
      TmpOK, WellFormed, Markers, Slimmed
<1> QED BY <1>1, <1>2, <1>3

LEMMA TmpStalesInv ==
    ASSUME SafeUse, IInv, NEW f \in Files, TmpStales(f)
    PROVE  IInv'
<1> USE ConstantsAssumption DEF IInv, TmpStales, job, disk, clock, capture
<1>1. TypeOK' BY DEF TypeOK, PCs, Running, Writing, Finished
<1>2. (/\ Exclusive /\ Placed /\ Names /\ Reach /\ Whole /\ Writers
       /\ Copies /\ Complete /\ WellFormed /\ Markers)'
  BY DEF Exclusive, Placed, Names, Reach, Whole, Writers, WriterOK, Copies, CopyOK,
      Complete, TmpOK, WellFormed, Markers, Slimmed
<1> QED BY <1>1, <1>2

LEMMA EnvironmentInv == ASSUME SafeUse, IInv, Environment PROVE IInv'
BY CleanFailsInv, ListFailsInv, ListMisreadInv, CrashInv, TakeUnseenInv, IoErrorInv,
   PowerLossInv, AppendInv, CloseInv, SrcAgesInv, TmpStalesInv
   DEF Environment

-----------------------------------------------------------------------------
LEMMA InitInv == ASSUME SafeUse, Init PROVE IInv
<1> USE ConstantsAssumption DEF Init, IInv
<1>1. \A f \in Files : data[Orig[f]] = 1..captured[f]
  OBVIOUS
<1>2. \A i \in Inodes : data[i] \in SUBSET (1..MaxLen)
  OBVIOUS
<1>3. TypeOK BY <1>2 DEF TypeOK, PCs, Phases
<1>4. Exclusive BY DEF Exclusive
<1>5. Placed BY DEF Placed, SlimPCs, Pre
<1>6. Names BY DEF Names
<1>7. Reach BY DEF Reach, JobPCs, Running, Writing, Finished
<1>8. Whole BY <1>1 DEF Whole
<1>9. Writers BY DEF Writers, WriterOK
<1>10. Copies /\ Complete BY DEF Copies, CopyOK, Complete, TmpOK
<1>11. WellFormed BY DEF WellFormed, Slimmed
<1>12. Markers BY DEF Markers, Pre
<1> QED BY <1>3, <1>4, <1>5, <1>6, <1>7, <1>8, <1>9, <1>10, <1>11, <1>12

LEMMA NextInv == ASSUME SafeUse, IInv, [Next]_vars PROVE IInv'
<1>1. CASE Next
  BY <1>1, RunStepInv, JobStepInv, EnvironmentInv DEF Next, ProcStep
<1>2. CASE UNCHANGED vars
  <2> USE <1>2 DEF vars, disk, clock, capture, job
  <2>1. (TypeOK /\ Exclusive /\ Placed /\ Names /\ Reach /\ Whole)'
    BY DEF IInv, TypeOK, Exclusive, Placed, Names, Reach, Whole
  <2>2. (Writers /\ Copies /\ Complete /\ WellFormed /\ Markers)'
    BY DEF IInv, Writers, WriterOK, Copies, CopyOK, Complete, TmpOK, WellFormed,
       Markers, Slimmed
  <2> QED BY <2>1, <2>2 DEF IInv
<1> QED BY <1>1, <1>2

\* IInv holds of every state that an execution reaches.
THEOREM Invariance == ASSUME SafeUse PROVE Spec => []IInv
BY InitInv, NextInv, PTL DEF Spec

-----------------------------------------------------------------------------
(* What follows from it.                                                   *)

\* Whatever crashes, fails, stalls or loses power, and whenever it does, the
\* file that has a capture's name holds every record captured so far.
THEOREM NoRecordLost == ASSUME SafeUse PROVE Spec => []NothingLost
<1>1. IInv => NothingLost BY DEF IInv, Whole, NothingLost
<1> QED BY <1>1, Invariance, PTL

-----------------------------------------------------------------------------
(* Rewriting a capture again takes a fault.  For that a marker must be     *)
(* there, or about to be, as soon as a capture has been rewritten once     *)
(* more than there were faults; and no job may be on its way to another    *)
(* rename of it.                                                           *)

Settled(f) ==
    \/ \E p \in Procs : pc[p][f] = "mark"
    \/ f \in marked /\ \A p \in Procs : pc[p][f] \notin Pre

PaidFor(f) ==
    rewrites[f] <= faults \/ (rewrites[f] = faults + 1 /\ Settled(f))

AllPaidFor == \A f \in Files : PaidFor(f)

\* A step that rewrites nothing, sets no marker aside and begins no job for a
\* marked file, unless it is a fault.
LEMMA PaidForStill ==
    ASSUME IInv, AllPaidFor, rewrites' = rewrites,
           \/ faults' = faults + 1
           \/ /\ faults' = faults /\ marked \subseteq marked'
              /\ \A p \in Procs, f \in Files :
                    /\ pc[p][f] = "mark" => pc'[p][f] = "mark"
                    /\ f \in marked /\ pc'[p][f] \in Pre => pc[p][f] \in Pre
    PROVE  AllPaidFor'
<1> SUFFICES ASSUME NEW f \in Files PROVE PaidFor(f)'
  BY DEF AllPaidFor
<1>1. rewrites[f] \in Nat /\ faults \in Nat
  BY ConstantsAssumption DEF IInv, TypeOK
<1>2. PaidFor(f) BY DEF AllPaidFor
<1>3. CASE faults' = faults + 1
  BY <1>1, <1>2, <1>3 DEF PaidFor
<1>4. CASE faults' = faults /\ (Settled(f) => Settled(f)')
  BY <1>2, <1>4 DEF PaidFor
<1> QED BY <1>3, <1>4 DEF Settled

LEMMA RunStepPaid ==
    ASSUME IInv, AllPaidFor, NEW p \in Procs, RunStep(p) PROVE AllPaidFor'
<1>1. UNCHANGED <<rewrites, faults, marked>>
  BY DEF RunStep, Start, CleanDone, List, ListAs, EndRun, disk, capture
<1>2. \A f \in Files : pc[p][f] # "mark" /\ pc'[p][f] \in {"none", "todo"}
  <2>1. CASE Start(p)
    <3>1. pc'[p] = [f \in Files |-> IF p \in Single /\ f \in Dir[p] THEN "todo" ELSE "none"]
      BY <2>1 DEF Start, Goto, IInv, TypeOK
    <3>2. phase[p] = "idle" BY <2>1 DEF Start
    <3> QED BY <3>1, <3>2 DEF IInv, Placed
  <2>2. CASE CleanDone(p)
    <3>1. phase[p] = "clean" /\ pc'[p] = [f \in Files |-> "none"]
      BY <2>2 DEF CleanDone, Goto, IInv, TypeOK
    <3> QED BY <3>1 DEF IInv, Placed
  <2>3. CASE List(p)
    BY <2>3 DEF List, ListAs, Finish, Goto, IInv, TypeOK, Placed
  <2>4. CASE EndRun(p)
    BY <2>4 DEF EndRun, AllFinished, Finished, Finish, Goto, IInv, TypeOK
  <2> QED BY <2>1, <2>2, <2>3, <2>4 DEF RunStep
<1>3. \A q \in Procs \ {p} : pc'[q] = pc[q]
  BY DEF RunStep, Start, CleanDone, List, ListAs, EndRun, Finish, Goto, IInv, TypeOK
<1>4. \A q \in Procs, f \in Files :
        /\ pc[q][f] = "mark" => pc'[q][f] = "mark"
        /\ f \in marked /\ pc'[q][f] \in Pre => pc[q][f] \in Pre
  BY <1>2, <1>3 DEF Pre
<1> QED BY <1>1, <1>4, PaidForStill

LEMMA MovePaid ==
    ASSUME IInv, AllPaidFor, NEW p \in Procs, NEW f \in Files, NEW next,
           pc' = [pc EXCEPT ![p][f] = next], UNCHANGED <<rewrites, faults, marked>>,
           pc[p][f] # "mark", f \in marked /\ next \in Pre => pc[p][f] \in Pre
    PROVE  AllPaidFor'
<1>1. \A q \in Procs, g \in Files :
        pc'[q][g] = IF q = p /\ g = f THEN next ELSE pc[q][g]
  BY DEF IInv, TypeOK
<1>2. \A q \in Procs, g \in Files :
        /\ pc[q][g] = "mark" => pc'[q][g] = "mark"
        /\ g \in marked /\ pc'[q][g] \in Pre => pc[q][g] \in Pre
  BY <1>1
<1> QED BY <1>2, PaidForStill

LEMMA RenamePaid ==
    ASSUME SafeUse, IInv, AllPaidFor, NEW p \in Procs, NEW f \in Files, Rename(p, f)
    PROVE  AllPaidFor'
<1>1. pc[p][f] = "rename" /\ UNCHANGED <<faults, marked>>
  BY DEF Rename, At
<1>2. CASE tmp[f] = NoInode
  BY <1>1, <1>2, MovePaid DEF Rename, Step, Pre
<1>3. CASE tmp[f] # NoInode
  <2>1. \A q \in Procs, g \in Files :
          pc'[q][g] = IF q = p /\ g = f THEN "mark" ELSE pc[q][g]
    BY <1>3 DEF Rename, Step, IInv, TypeOK
  <2>2. \A g \in Files : rewrites'[g] = IF g = f THEN rewrites[f] + 1 ELSE rewrites[g]
    BY <1>3 DEF Rename, IInv, TypeOK
  <2>3. rewrites[f] \in Nat /\ faults \in Nat
    BY ConstantsAssumption DEF IInv, TypeOK
  <2>4. ~Settled(f)
    <3>1. \A q \in Procs : pc[q][f] # "mark"
      BY <1>1, OneJob DEF SlimPCs, Pre
    <3> QED BY <1>1, <3>1 DEF Settled, Pre
  <2>5. PaidFor(f)'
    <3>1. rewrites[f] <= faults BY <2>4 DEF AllPaidFor, PaidFor
    <3>2. Settled(f)' BY <2>1 DEF Settled
    <3> QED BY <1>1, <2>2, <2>3, <3>1, <3>2 DEF PaidFor
  <2>6. ASSUME NEW g \in Files, g # f PROVE PaidFor(g)'
    <3>1. Settled(g)' <=> Settled(g) BY <1>1, <2>1, <2>6 DEF Settled
    <3> QED BY <1>1, <2>2, <2>6, <3>1 DEF AllPaidFor, PaidFor
  <2> QED BY <2>5, <2>6 DEF AllPaidFor
<1> QED BY <1>2, <1>3

LEMMA MarkPaid ==
    ASSUME SafeUse, IInv, AllPaidFor, NEW p \in Procs, NEW f \in Files, Mark(p, f)
    PROVE  AllPaidFor'
<1>1. /\ pc[p][f] = "mark" /\ marked' = marked \union {f}
      /\ UNCHANGED <<faults, rewrites>>
  BY DEF Mark, At, capture
<1>2. \A q \in Procs, g \in Files :
        pc'[q][g] = IF q = p /\ g = f THEN "ok" ELSE pc[q][g]
  BY DEF Mark, Step, IInv, TypeOK
<1>3. Settled(f) /\ Settled(f)'
  <2>1. \A q \in Procs : pc[q][f] \in Pre => q = p
    BY <1>1, OneJob DEF SlimPCs, Pre
  <2> QED BY <1>1, <1>2, <2>1 DEF Settled, Pre
<1>4. \A g \in Files : g # f => (Settled(g)' <=> Settled(g))
  BY <1>1, <1>2 DEF Settled
<1> QED BY <1>1, <1>3, <1>4 DEF AllPaidFor, PaidFor

LEMMA JobStepPaid ==
    ASSUME SafeUse, IInv, AllPaidFor, NEW p \in Procs, NEW f \in Files, JobStep(p, f)
    PROVE  AllPaidFor'
<1> USE DEF At, Step, disk, capture
<1>1. CASE CleanStat(p, f)
  <2>1. PICK next \in {"doomed", "seen"} : pc' = [pc EXCEPT ![p][f] = next]
    BY <1>1 DEF CleanStat
  <2>2. pc[p][f] = "none" /\ UNCHANGED <<rewrites, faults, marked>>
    BY <1>1 DEF CleanStat, CleanTurn
  <2> QED BY <2>1, <2>2, MovePaid DEF Pre
<1>2. CASE CleanRemove(p, f)
  BY <1>2, MovePaid DEF CleanRemove, Pre
<1>3. CASE Take(p, f)
  <2>1. PICK next : /\ pc' = [pc EXCEPT ![p][f] = next]
                    /\ f \in marked => next = "skip"
    BY <1>3 DEF Take, TakeUp
  <2>2. pc[p][f] = "todo" /\ UNCHANGED <<rewrites, faults, marked>>
    BY <1>3 DEF Take, TakeUp
  <2> QED BY <2>1, <2>2, MovePaid DEF Pre
<1>4. CASE CheckFile(p, f)
  <2>1. PICK next \in Finished : pc' = [pc EXCEPT ![p][f] = next]
    BY <1>4 DEF CheckFile, Finished
  <2>2. pc[p][f] = "check" /\ UNCHANGED <<rewrites, faults, marked>>
    BY <1>4 DEF CheckFile
  <2> QED BY <2>1, <2>2, MovePaid DEF Pre, Finished
<1>5. CASE CreateTmp(p, f)
  BY <1>5, MovePaid DEF CreateTmp, Pre
<1>6. CASE OpenSrc(p, f)
  BY <1>6, MovePaid DEF OpenSrc, Pre
<1>7. CASE ReadUnit(p, f) \/ Flush(p, f)
  BY <1>7, PaidForStill DEF ReadUnit, Flush
<1>8. CASE ReadFails(p, f)
  BY <1>8, MovePaid DEF ReadFails, Pre
<1>9. CASE Panic(p, f)
  BY <1>9, MovePaid DEF Panic, Pre
<1>10. CASE Sync(p, f)
  <2>1. PICK next : pc' = [pc EXCEPT ![p][f] = next]
    BY ONLY <1>10 DEF Sync, Step
  <2>2. pc[p][f] = "copy" /\ UNCHANGED <<rewrites, faults, marked>>
    BY <1>10 DEF Sync
  <2> QED BY <2>1, <2>2, MovePaid DEF Pre
<1>11. CASE Verify(p, f)
  <2>1. PICK next : pc' = [pc EXCEPT ![p][f] = next]
    BY ONLY <1>11 DEF Verify, Step
  <2>2. pc[p][f] = "verify" /\ UNCHANGED <<rewrites, faults, marked>>
    BY <1>11 DEF Verify
  <2> QED BY <2>1, <2>2, MovePaid DEF Pre
<1>12. CASE RemoveTmp(p, f)
  BY <1>12, MovePaid DEF RemoveTmp, Pre
<1>13. CASE DropJob(p, f)
  BY <1>13, MovePaid DEF DropJob, Pre
<1> QED BY <1>1, <1>2, <1>3, <1>4, <1>5, <1>6, <1>7, <1>8, <1>9, <1>10, <1>11, <1>12,
           <1>13, RenamePaid, MarkPaid DEF JobStep

LEMMA EnvironmentPaid == ASSUME IInv, AllPaidFor, Environment PROVE AllPaidFor'
<1> USE DEF disk, capture, Fault
<1>1. ASSUME NEW p \in Procs,
             CleanFails(p) \/ ListFails(p) \/ ListMisread(p) \/ Crash(p)
      PROVE  AllPaidFor'
  BY <1>1, PaidForStill DEF CleanFails, ListFails, ListMisread, ListAs, Crash
<1>2. ASSUME NEW p \in Procs, NEW f \in Files, TakeUnseen(p, f) \/ IoError(p, f)
      PROVE  AllPaidFor'
  BY <1>2, PaidForStill DEF TakeUnseen, TakeUp, IoError
<1>3. CASE PowerLoss
  BY <1>3, PaidForStill DEF PowerLoss
<1>4. ASSUME NEW f \in Files, Append(f) \/ Close(f) \/ SrcAges(f) \/ TmpStales(f)
      PROVE  AllPaidFor'
  BY <1>4, PaidForStill DEF Append, Close, SrcAges, TmpStales, job
<1> QED BY <1>1, <1>2, <1>3, <1>4 DEF Environment

\* Re-runs are no-ops: a capture is replaced once, and again at most once for
\* each fault, whatever fails, crashes or cannot be read, and however often
\* the program is run.
THEOREM RewritesCost == ASSUME SafeUse PROVE Spec => []RewrittenOnce
<1>1. Init => AllPaidFor
  BY ConstantsAssumption DEF Init, AllPaidFor, PaidFor
<1>2. IInv /\ AllPaidFor /\ [Next]_vars => AllPaidFor'
  <2> SUFFICES ASSUME IInv, AllPaidFor, [Next]_vars PROVE AllPaidFor'
    OBVIOUS
  <2>1. CASE UNCHANGED vars
    BY <2>1, PaidForStill DEF vars, disk, capture, job
  <2> QED BY <2>1, RunStepPaid, JobStepPaid, EnvironmentPaid DEF Next, ProcStep
<1>3. IInv /\ AllPaidFor => RewrittenOnce
  <2> SUFFICES ASSUME IInv, AllPaidFor, NEW f \in Files PROVE rewrites[f] <= 1 + faults
    BY DEF RewrittenOnce
  <2>1. rewrites[f] \in Nat /\ faults \in Nat
    BY ConstantsAssumption DEF IInv, TypeOK
  <2> QED BY <2>1 DEF AllPaidFor, PaidFor
<1> QED BY <1>1, <1>2, <1>3, Invariance, PTL DEF Spec

-----------------------------------------------------------------------------
(* What holds however the program is used, overlapping runs included.      *)

\* A job that is writing has its temporary file open, and one that is copying
\* its source too.
Opened ==
    \A p \in Procs, f \in Files :
       /\ pc[p][f] \in {"open", "copy"} => wino[p][f] \in Inodes
       /\ pc[p][f] = "copy" => rino[p][f] \in Inodes

Sane == TypeOK /\ Placed /\ Opened

\* What p may have to do in phase ph.
Assigned(p, ph, row) ==
    /\ ph = "clean" => Mode[p] # "check"
    /\ \A f \in Files : row[f] = "todo" => ph = "jobs" /\ f \in Dir[p] /\ Mode[p] # "dry"

\* A run that moves to its next phase.
LEMMA NewRowsSane ==
    ASSUME Sane, NEW p \in Procs,
           NEW ph \in Phases, phase' = [phase EXCEPT ![p] = ph],
           NEW row \in [Files -> {"none", "todo"}], pc' = [pc EXCEPT ![p] = row],
           UNCHANGED <<disk, clock, capture, rino, wino, rpos, wpos>>,
           faults' \in 0..MaxFaults, Assigned(p, ph, row)
    PROVE  Sane'
<1> USE ConstantsAssumption DEF Sane, disk, clock, capture, Phases, Assigned
<1>1. TypeOK' BY DEF TypeOK, PCs, Running, Writing, Finished
<1>2. Placed' BY DEF Placed, TypeOK, SlimPCs, Pre
<1>3. Opened' BY DEF Opened, TypeOK
<1> QED BY <1>1, <1>2, <1>3

LEMMA FinishSane ==
    ASSUME Sane, NEW p \in Procs, NEW ph \in {"idle", "list"},
           phase' = [phase EXCEPT ![p] = ph], Goto(p, [f \in Files |-> "none"]),
           faults' \in 0..MaxFaults,
           UNCHANGED <<disk, clock, capture, rino, wino, rpos, wpos>>
    PROVE  Sane'
<1> DEFINE row == [f \in Files |-> "none"]
<1>1. row \in [Files -> {"none", "todo"}] /\ Assigned(p, ph, row)
  BY DEF Assigned
<1>2. pc' = [pc EXCEPT ![p] = row] /\ ph \in Phases
  BY DEF Goto, Phases
<1> HIDE DEF row
<1> QED BY <1>1, <1>2, NewRowsSane

LEMMA ListAsSane ==
    ASSUME Sane, NEW p \in Procs, NEW listed \in SUBSET OldEnough(p),
           ListAs(p, listed), faults' \in 0..MaxFaults
    PROVE  Sane'
<1>1. CASE listed = {} \/ Mode[p] = "dry"
  BY <1>1, FinishSane DEF ListAs, Finish
<1>2. CASE ~(listed = {} \/ Mode[p] = "dry")
  <2> DEFINE row == [f \in Files |-> IF f \in listed THEN "todo" ELSE "none"]
  <2>1. row \in [Files -> {"none", "todo"}] /\ Assigned(p, "jobs", row)
    BY <1>2 DEF OldEnough, Assigned
  <2>2. /\ phase' = [phase EXCEPT ![p] = "jobs"]
        /\ pc' = [pc EXCEPT ![p] = row]
        /\ UNCHANGED <<disk, clock, capture, rino, wino, rpos, wpos>>
    BY <1>2 DEF ListAs, Goto
  <2> HIDE DEF row
  <2> QED BY <2>1, <2>2, NewRowsSane DEF Phases
<1> QED BY <1>1, <1>2

\* A job begins, or its file is skipped.
LEMMA TakeUpSane ==
    ASSUME Sane, NEW p \in Procs, NEW f \in Files,
           NEW next \in {FirstStep(p), "skip"}, TakeUp(p, f, next),
           faults' \in 0..MaxFaults
    PROVE  Sane'
<1> USE ConstantsAssumption DEF Sane, TakeUp, At, Step, disk, clock, capture
<1>1. next \in {"create", "check", "skip"} BY DEF FirstStep
<1>2. TypeOK' BY <1>1 DEF TypeOK, PCs, Running, Writing, Finished
<1>3. Placed'
  <2>1. phase[p] = "jobs" /\ f \in Dir[p] /\ Mode[p] # "dry"
    BY DEF Placed, TypeOK, Phases
  <2>2. \A q \in Procs, g \in Files :
          pc'[q][g] = IF q = p /\ g = f THEN next ELSE pc[q][g]
    BY DEF TypeOK
  <2>3. /\ next = "create" => Mode[p] = "slim"
        /\ next = "check" => Mode[p] = "check"
    BY <2>1 DEF FirstStep
  <2> QED BY <1>1, <2>1, <2>2, <2>3 DEF Placed, SlimPCs, Pre
<1>4. Opened' BY <1>1 DEF Opened, TypeOK
<1> QED BY <1>2, <1>3, <1>4

LEMMA RunStepSane == ASSUME Sane, NEW p \in Procs, RunStep(p) PROVE Sane'
<1>1. faults \in 0..MaxFaults BY DEF Sane, TypeOK
<1>2. CASE Start(p)
  <2> DEFINE row == [f \in Files |->
                       IF p \in Single /\ f \in Dir[p] THEN "todo" ELSE "none"]
  <2>1. row \in [Files -> {"none", "todo"}] /\ FirstPhase(p) \in Phases
    BY DEF FirstPhase, Phases
  <2>2. Assigned(p, FirstPhase(p), row)
    BY ConstantsAssumption DEF FirstPhase, Assigned
  <2>3. /\ phase' = [phase EXCEPT ![p] = FirstPhase(p)]
        /\ pc' = [pc EXCEPT ![p] = row]
        /\ UNCHANGED <<disk, clock, capture, rino, wino, rpos, wpos, faults>>
    BY <1>2 DEF Start, Goto
  <2> HIDE DEF row
  <2>4. ASSUME NEW ph \in Phases, FirstPhase(p) = ph PROVE Sane'
    BY <1>1, <2>1, <2>2, <2>3, <2>4, NewRowsSane
  <2> QED BY <2>1, <2>4
<1>3. CASE CleanDone(p)
  BY <1>1, <1>3, FinishSane DEF CleanDone
<1>4. CASE List(p)
  BY <1>1, <1>4, ListAsSane DEF List, Pending
<1>5. CASE EndRun(p)
  BY <1>1, <1>5, FinishSane DEF EndRun, Finish
<1> QED BY <1>2, <1>3, <1>4, <1>5 DEF RunStep

LEMMA JobStepSane ==
    ASSUME Sane, NEW p \in Procs, NEW f \in Files, JobStep(p, f) PROVE Sane'
<1> USE ConstantsAssumption DEF Sane, At, Step, disk, clock, capture
<1>1. CASE CleanStat(p, f)
  <2> USE <1>1 DEF CleanStat, CleanTurn
  <2>1. TypeOK' BY DEF TypeOK, PCs, Running, Writing, Finished
  <2>2. Placed' BY DEF Placed, TypeOK, SlimPCs, Pre
  <2>3. Opened' BY DEF Opened, TypeOK
  <2> QED BY <2>1, <2>2, <2>3
<1>2. CASE CleanRemove(p, f)
  <2> USE <1>2 DEF CleanRemove
  <2>1. TypeOK' BY DEF TypeOK, PCs, Running, Writing, Finished
  <2>2. Placed' BY DEF Placed, TypeOK, SlimPCs, Pre
  <2>3. Opened' BY DEF Opened, TypeOK
  <2> QED BY <2>1, <2>2, <2>3
<1>3. CASE Take(p, f)
  <2>1. faults' \in 0..MaxFaults BY <1>3 DEF Take, TypeOK
  <2> QED BY <1>3, <2>1, TakeUpSane DEF Take
<1>4. CASE CheckFile(p, f)
  <2> USE <1>4 DEF CheckFile
  <2>1. TypeOK' BY DEF TypeOK, PCs, Running, Writing, Finished
  <2>2. Placed' BY DEF Placed, TypeOK, SlimPCs, Pre
  <2>3. Opened' BY DEF Opened, TypeOK
  <2> QED BY <2>1, <2>2, <2>3
<1>5. CASE CreateTmp(p, f)
  <2> USE <1>5 DEF CreateTmp
  <2>1. PICK i \in Inodes : /\ tmp' = [tmp EXCEPT ![f] = i]
                            /\ data' = [data EXCEPT ![i] = {}]
                            /\ synced' = synced \ {i}
                            /\ wino' = [wino EXCEPT ![p][f] = i]
    BY DEF Free, TypeOK
  <2>2. TypeOK' BY <2>1 DEF TypeOK, PCs, Running, Writing
  <2>3. Placed' BY DEF Placed, TypeOK, SlimPCs, Pre
  <2>4. Opened' BY <2>1 DEF Opened, TypeOK
  <2> QED BY <2>2, <2>3, <2>4
<1>6. CASE OpenSrc(p, f)
  <2> USE <1>6 DEF OpenSrc
  <2>1. TypeOK' BY DEF TypeOK, PCs, Running, Writing
  <2>2. Placed' BY DEF Placed, TypeOK, SlimPCs, Pre
  <2>3. Opened' BY DEF Opened, TypeOK
  <2> QED BY <2>1, <2>2, <2>3
<1>7. CASE ReadUnit(p, f)
  <2> USE <1>7 DEF ReadUnit
  <2>1. rpos[p][f] + 1 \in 1..MaxLen BY DEF Opened, TypeOK
  <2>2. TypeOK' BY <2>1 DEF TypeOK
  <2>3. (Placed /\ Opened)' BY DEF Placed, Opened
  <2> QED BY <2>2, <2>3
<1>8. CASE Flush(p, f)
  <2> USE <1>8 DEF Flush
  <2>1. wpos[p][f] + 1 \in 1..MaxLen
    <3>1. /\ wpos[p][f] \in 0..MaxLen /\ rpos[p][f] \in 0..MaxLen /\ MaxLen \in Nat
          /\ wpos[p][f] < rpos[p][f]
      BY DEF TypeOK
    <3> QED BY <3>1
  <2>2. wino[p][f] \in Inodes BY DEF Opened
  <2>3. TypeOK' BY <2>1, <2>2 DEF TypeOK
  <2>4. (Placed /\ Opened)' BY DEF Placed, Opened
  <2> QED BY <2>3, <2>4
<1>9. CASE ReadFails(p, f)
  <2> USE <1>9 DEF ReadFails, Drop
  <2>1. TypeOK' BY DEF TypeOK, PCs, Running, Writing, Finished
  <2>2. Placed' BY DEF Placed, TypeOK, SlimPCs, Pre
  <2>3. Opened' BY DEF Opened, TypeOK
  <2> QED BY <2>1, <2>2, <2>3
<1>10. CASE Panic(p, f)
  <2> USE <1>10 DEF Panic, Drop
  <2>1. TypeOK' BY DEF TypeOK, PCs, Running, Writing, Finished
  <2>2. Placed' BY DEF Placed, TypeOK, SlimPCs, Pre
  <2>3. Opened' BY DEF Opened, TypeOK
  <2> QED BY <2>1, <2>2, <2>3
<1>11. CASE Sync(p, f)
  <2> USE <1>11 DEF Sync, Drop
  <2>1. PICK next \in {"undo", "verify"} : pc' = [pc EXCEPT ![p][f] = next]
    OBVIOUS
  <2>2. wino[p][f] \in Inodes BY DEF Opened
  <2>3. TypeOK' BY <2>1, <2>2 DEF TypeOK, PCs, Running, Writing, Finished
  <2>4. Placed' BY <2>1 DEF Placed, TypeOK, SlimPCs, Pre
  <2>5. Opened' BY <2>1 DEF Opened, TypeOK
  <2> QED BY <2>3, <2>4, <2>5
<1>12. CASE Verify(p, f)
  <2> USE <1>12 DEF Verify
  <2>1. PICK next \in {"undo", "rename"} : pc' = [pc EXCEPT ![p][f] = next]
    OBVIOUS
  <2>2. TypeOK' BY <2>1 DEF TypeOK, PCs, Running, Writing, Finished
  <2>3. Placed' BY <2>1 DEF Placed, TypeOK, SlimPCs, Pre
  <2>4. Opened' BY <2>1 DEF Opened, TypeOK
  <2> QED BY <2>2, <2>3, <2>4
<1>13. CASE RemoveTmp(p, f)
  <2> USE <1>13 DEF RemoveTmp
  <2>1. TypeOK' BY DEF TypeOK, PCs, Running, Writing, Finished
  <2>2. Placed' BY DEF Placed, TypeOK, SlimPCs, Pre
  <2>3. Opened' BY DEF Opened, TypeOK
  <2> QED BY <2>1, <2>2, <2>3
<1>14. CASE Rename(p, f)
  <2>1. PICK next \in {"fail", "mark"} : pc' = [pc EXCEPT ![p][f] = next]
    BY <1>14 DEF Rename
  <2>2. TypeOK'
    <3>1. /\ src' \in [Files -> Inodes] /\ tmp' \in [Files -> Inodes \union {NoInode}]
          /\ stale' \subseteq Files /\ aged' \subseteq Files
          /\ rewrites' \in [Files -> Nat]
      <4>1. CASE tmp[f] = NoInode BY <1>14, <4>1 DEF Rename, TypeOK
      <4>2. CASE tmp[f] # NoInode
        <5>1. tmp[f] \in Inodes BY <4>2 DEF TypeOK
        <5>2. /\ src' = [src EXCEPT ![f] = tmp[f]] /\ tmp' = [tmp EXCEPT ![f] = NoInode]
              /\ stale' = stale \ {f} /\ aged' = aged \ {f}
              /\ rewrites' = [rewrites EXCEPT ![f] = @ + 1]
          BY ONLY <1>14, <4>2 DEF Rename
        <5> QED BY <5>1, <5>2 DEF TypeOK
      <4> QED BY <4>1, <4>2
    <3>2. UNCHANGED <<data, synced, marked, captured, capturing, phase, rino, wino, rpos,
                      wpos, faults>>
      BY <1>14 DEF Rename
    <3> QED BY <2>1, <3>1, <3>2 DEF TypeOK, PCs, Running, Writing, Finished
  <2>3. Placed' BY <1>14, <2>1 DEF Rename, Placed, TypeOK, SlimPCs, Pre
  <2>4. Opened' BY <1>14, <2>1 DEF Rename, Opened, TypeOK
  <2> QED BY <2>2, <2>3, <2>4
<1>15. CASE Mark(p, f)
  <2> USE <1>15 DEF Mark
  <2>1. TypeOK' BY DEF TypeOK, PCs, Running, Writing, Finished
  <2>2. Placed' BY DEF Placed, TypeOK, SlimPCs, Pre
  <2>3. Opened' BY DEF Opened, TypeOK
  <2> QED BY <2>1, <2>2, <2>3
<1>16. CASE DropJob(p, f)
  <2> USE <1>16 DEF DropJob
  <2>1. TypeOK' BY DEF TypeOK, PCs, Running, Writing, Finished
  <2>2. Placed' BY DEF Placed, TypeOK, SlimPCs, Pre
  <2>3. Opened' BY DEF Opened, TypeOK
  <2> QED BY <2>1, <2>2, <2>3
<1> QED BY <1>1, <1>2, <1>3, <1>4, <1>5, <1>6, <1>7, <1>8, <1>9, <1>10, <1>11, <1>12,
           <1>13, <1>14, <1>15, <1>16 DEF JobStep

LEMMA EnvironmentSane == ASSUME Sane, Environment PROVE Sane'
<1> USE ConstantsAssumption DEF Sane, Fault, disk, clock, capture, job
<1>1. ASSUME NEW p \in Procs, ListFails(p) PROVE Sane'
  <2>1. faults' \in 0..MaxFaults BY <1>1 DEF ListFails, TypeOK
  <2> QED BY <1>1, <2>1, FinishSane DEF ListFails, Finish
<1>2. ASSUME NEW p \in Procs, CleanFails(p) PROVE Sane'
  <2>1. faults' \in 0..MaxFaults BY <1>2 DEF CleanFails, TypeOK
  <2> QED BY <1>2, <2>1, FinishSane DEF CleanFails
<1>3. ASSUME NEW p \in Procs, ListMisread(p) PROVE Sane'
  <2>1. faults' \in 0..MaxFaults BY <1>3 DEF ListMisread, TypeOK
  <2> QED BY <1>3, <2>1, Misread, ListAsSane
<1>4. ASSUME NEW p \in Procs, NEW f \in Files, TakeUnseen(p, f) PROVE Sane'
  <2>1. faults' \in 0..MaxFaults BY <1>4 DEF TakeUnseen, TypeOK
  <2> QED BY <1>4, <2>1, TakeUpSane DEF TakeUnseen
<1>5. ASSUME NEW p \in Procs, Crash(p) PROVE Sane'
  <2> USE <1>5 DEF Crash, Die
  <2>1. TypeOK' BY DEF TypeOK, PCs, Phases
  <2>2. Placed' BY DEF Placed, TypeOK, SlimPCs, Pre
  <2>3. Opened' BY DEF Opened, TypeOK
  <2> QED BY <2>1, <2>2, <2>3
<1>6. ASSUME NEW p \in Procs, NEW f \in Files, IoError(p, f) PROVE Sane'
  <2> USE <1>6 DEF IoError, Step, Drop
  <2>1. PICK next \in {"undo", "fail", "seen"} :
          /\ pc' = [pc EXCEPT ![p][f] = next]
          /\ next = "undo" => pc[p][f] \in {"create", "open", "copy", "verify"}
          /\ next = "fail" => pc[p][f] \in {"check", "undo", "rename", "mark"}
          /\ next = "seen" => CleanTurn(p, f) \/ pc[p][f] = "doomed"
    OBVIOUS
  <2> USE DEF CleanTurn
  <2>2. TypeOK' BY <2>1 DEF TypeOK, PCs, Running, Writing, Finished
  <2>3. Placed' BY <2>1 DEF Placed, TypeOK, SlimPCs, Pre
  <2>4. Opened' BY <2>1 DEF Opened, TypeOK
  <2> QED BY <2>2, <2>3, <2>4
<1>7. CASE PowerLoss
  <2> USE <1>7 DEF PowerLoss, Die
  <2>1. data' \in [Inodes -> SUBSET (1..MaxLen)] BY DEF TypeOK
  <2>2. TypeOK' BY <2>1 DEF TypeOK, PCs, Phases
  <2>3. Placed' BY DEF Placed, TypeOK, SlimPCs, Pre
  <2>4. Opened' BY DEF Opened, TypeOK
  <2> QED BY <2>2, <2>3, <2>4
<1>8. ASSUME NEW f \in Files, Append(f) PROVE Sane'
  <2> USE <1>8 DEF Append
  <2>1. TypeOK' BY DEF TypeOK
  <2> QED BY <2>1 DEF Placed, Opened
<1>9. ASSUME NEW f \in Files, Close(f) \/ SrcAges(f) \/ TmpStales(f) PROVE Sane'
  <2> USE <1>9 DEF Close, SrcAges, TmpStales
  <2>1. TypeOK' BY DEF TypeOK
  <2> QED BY <2>1 DEF Placed, Opened
<1> QED BY <1>1, <1>2, <1>3, <1>4, <1>5, <1>6, <1>7, <1>8, <1>9 DEF Environment

\* Sane holds of every state that an execution reaches.
THEOREM Sanity == Spec => []Sane
<1>1. Init => Sane
  <2> SUFFICES ASSUME Init PROVE Sane
    OBVIOUS
  <2> USE ConstantsAssumption DEF Init
  <2>1. \A i \in Inodes : data[i] \in SUBSET (1..MaxLen)
    OBVIOUS
  <2>2. TypeOK BY <2>1 DEF TypeOK, PCs, Phases
  <2>3. Placed BY DEF Placed, SlimPCs, Pre
  <2>4. Opened BY DEF Opened
  <2> QED BY <2>2, <2>3, <2>4 DEF Sane
<1>2. Sane /\ [Next]_vars => Sane'
  <2>1. ASSUME Sane, Next PROVE Sane'
    BY <2>1, RunStepSane, JobStepSane, EnvironmentSane DEF Next, ProcStep
  <2>2. ASSUME Sane, UNCHANGED vars PROVE Sane'
    BY <2>2 DEF vars, disk, clock, capture, job, Sane, TypeOK, Placed, Opened
  <2> QED BY <2>1, <2>2
<1> QED BY <1>1, <1>2, PTL DEF Spec

\* Every variable has its type.
THEOREM TypeCorrect == Spec => []TypeOK
<1>1. Sane => TypeOK BY DEF Sane
<1> QED BY <1>1, Sanity, PTL

\* --check-only changes nothing.
THEOREM CheckOnlyReads == Spec => CheckOnlyWritesNothing
<1> DEFINE Same == UNCHANGED <<src, tmp, data, marked>>
<1>1. Sane /\ [Next]_vars => (\A p \in Procs : Mode[p] = "check" /\ Acts(p) => Same)
  <2> SUFFICES ASSUME Sane, [Next]_vars, NEW p \in Procs, Mode[p] = "check", Acts(p)
               PROVE  Same
    OBVIOUS
  <2> USE DEF disk, clock, capture, job
  <2>1. ASSUME NEW q \in Procs, RunStep(q) PROVE Same
    BY <2>1 DEF RunStep, Start, CleanDone, List, ListAs, EndRun
  <2>2. ASSUME NEW q \in Procs, NEW f \in Files, JobStep(q, f) PROVE Same
    <3>1. CASE q = p
      <4>1. pc[p][f] \notin SlimPCs /\ pc[p][f] # "doomed"
        BY DEF Sane, Placed
      <4> QED BY <2>2, <3>1, <4>1
              DEF SlimPCs, Pre, At, JobStep, CleanStat, CleanRemove, Take, TakeUp,
                  CheckFile, CreateTmp, OpenSrc, ReadUnit, Flush, ReadFails, Panic, Sync, Verify,
                  RemoveTmp, Rename, Mark, DropJob
    <3>2. CASE q # p
      <4>1. phase'[p] = phase[p] /\ pc'[p] = pc[p]
        BY <2>2, <3>2
           DEF At, Step, JobStep, CleanStat, CleanRemove, Take, TakeUp, CheckFile,
               CreateTmp, OpenSrc, ReadUnit, Flush, ReadFails, Panic, Sync, Verify, RemoveTmp,
               Rename, Mark, DropJob, Sane, TypeOK
      <4> QED BY <4>1 DEF Acts
    <3> QED BY <3>1, <3>2
  <2>3. CASE Environment
    <3>1. faults' # faults => ~Acts(p)
      BY DEF Acts
    <3>2. CASE \/ \E q \in Procs : CleanFails(q) \/ ListFails(q) \/ ListMisread(q) \/ Crash(q)
               \/ \E q \in Procs, f \in Files : TakeUnseen(q, f) \/ IoError(q, f)
               \/ PowerLoss
      <4>1. Fault
        BY <3>2 DEF CleanFails, ListFails, ListMisread, Crash, TakeUnseen, IoError, PowerLoss
      <4>2. faults' # faults BY <4>1, ConstantsAssumption DEF Fault, Sane, TypeOK
      <4> QED BY <3>1, <4>2
    <3>3. CASE \E f \in Files : Append(f) \/ Close(f) \/ SrcAges(f) \/ TmpStales(f)
      BY <3>3 DEF Append, Close, SrcAges, TmpStales, Acts
    <3> QED BY <2>3, <3>2, <3>3 DEF Environment
  <2>4. CASE UNCHANGED vars
    BY <2>4 DEF vars
  <2> QED BY <2>1, <2>2, <2>3, <2>4 DEF Next, ProcStep
<1> QED BY <1>1, Sanity, PTL DEF CheckOnlyWritesNothing, Spec

-----------------------------------------------------------------------------
(* Markers and exit codes are right however the program is used.  That     *)
(* runs overlap can cost records; it cannot make a run claim what is not   *)
(* so, or replace a capture that it cannot read to its end.                *)

Honest ==
    /\ \A f \in Files : tmp[f] # Orig[f]
    /\ \A f \in Files : Slimmed(f) => Kind[f] = "good"
    /\ \A f \in marked : Slimmed(f)
    /\ \A p \in Procs, f \in Files :
          /\ pc[p][f] \in {"verify", "rename", "mark"} => Kind[f] = "good"
          /\ pc[p][f] = "mark" => Slimmed(f)
          /\ pc[p][f] \in {"ok", "skip"} /\ Mode[p] = "slim" => f \in marked
          /\ pc[p][f] = "dropped" => \E g \in Files : pc[p][g] = "panic"

\* What is none of a run's doing.
World ==
    \/ PowerLoss
    \/ \E f \in Files : Append(f) \/ Close(f) \/ SrcAges(f) \/ TmpStales(f)

\* A step that replaces only well-formed captures, by what was not captured,
\* and marks only what has been replaced.
FilesHonest ==
    /\ \A f \in Files : tmp'[f] # Orig[f]
    /\ \A f \in Files : src'[f] = src[f] \/ (src'[f] # Orig[f] /\ Kind[f] = "good")
    /\ marked \subseteq marked' /\ marked' \subseteq Files
    /\ \A f \in marked' : f \in marked \/ src'[f] # Orig[f]

\* What has to hold for p's job for f to get where it goes.
MoveHonest(p, f, next) ==
    /\ pc[p][f] # "panic"
    /\ next \in {"verify", "rename", "mark"} => Kind[f] = "good"
    /\ next = "mark" => src'[f] # Orig[f]
    /\ next \in {"ok", "skip"} /\ Mode[p] = "slim" => f \in marked'
    /\ next = "dropped" => \E g \in Files : pc[p][g] = "panic"

LEMMA FilesKept ==
    ASSUME Sane, Honest, src' = src, tmp' = tmp, marked' = marked
    PROVE  FilesHonest
BY DEF Honest, FilesHonest, Sane, TypeOK

LEMMA TmpGone ==
    ASSUME Sane, Honest, NEW f \in Files, tmp' = [tmp EXCEPT ![f] = NoInode],
           marked' = marked,
           \A g \in Files : src'[g] = src[g] \/ (src'[g] # Orig[g] /\ Kind[g] = "good")
    PROVE  FilesHonest
<1>1. \A g \in Files : /\ tmp'[g] = IF g = f THEN NoInode ELSE tmp[g]
                       /\ Orig[g] # NoInode
  BY ConstantsAssumption DEF Sane, TypeOK
<1>2. \A g \in Files : tmp'[g] # Orig[g] BY <1>1 DEF Honest
<1>3. marked \subseteq Files BY DEF Sane, TypeOK
<1> QED BY <1>2, <1>3 DEF FilesHonest

LEMMA HonestFiles ==
    ASSUME Sane, Honest, FilesHonest
    PROVE  /\ \A f \in Files : tmp'[f] # Orig[f]
           /\ \A f \in Files : Slimmed(f) => Slimmed(f)'
           /\ \A f \in Files : Slimmed(f)' => Kind[f] = "good"
           /\ \A f \in marked' : Slimmed(f)'
BY DEF Honest, FilesHonest, Slimmed

\* Jobs that stay where they are, or are given up or not yet begun.
LEMMA HonestRows ==
    ASSUME Sane, Honest, FilesHonest,
           \A p \in Procs : \/ pc'[p] = pc[p]
                            \/ \A f \in Files : pc'[p][f] \in {"none", "todo"}
    PROVE  Honest'
<1>1. ASSUME NEW p \in Procs, NEW f \in Files
      PROVE  /\ pc'[p][f] \in {"verify", "rename", "mark"} => Kind[f] = "good"
             /\ pc'[p][f] = "mark" => Slimmed(f)'
             /\ pc'[p][f] \in {"ok", "skip"} /\ Mode[p] = "slim" => f \in marked'
             /\ pc'[p][f] = "dropped" => \E g \in Files : pc'[p][g] = "panic"
  <2>1. CASE pc'[p] = pc[p]
    BY <2>1, HonestFiles DEF Honest, FilesHonest
  <2>2. CASE \A g \in Files : pc'[p][g] \in {"none", "todo"}
    BY <2>2
  <2> QED BY <2>1, <2>2
<1> QED BY <1>1, HonestFiles DEF Honest

\* One job that moves on.
LEMMA HonestMove ==
    ASSUME Sane, Honest, FilesHonest, NEW p \in Procs, NEW f \in Files, NEW next,
           pc' = [pc EXCEPT ![p][f] = next], MoveHonest(p, f, next)
    PROVE  Honest'
<1>1. \A q \in Procs, g \in Files :
        pc'[q][g] = IF q = p /\ g = f THEN next ELSE pc[q][g]
  BY DEF Sane, TypeOK
<1>2. ASSUME NEW q \in Procs, NEW g \in Files
      PROVE  /\ pc'[q][g] \in {"verify", "rename", "mark"} => Kind[g] = "good"
             /\ pc'[q][g] = "mark" => Slimmed(g)'
             /\ pc'[q][g] \in {"ok", "skip"} /\ Mode[q] = "slim" => g \in marked'
             /\ pc'[q][g] = "dropped" => \E h \in Files : pc'[q][h] = "panic"
  <2>1. \A h \in Files : pc[q][h] = "panic" => pc'[q][h] = "panic"
    BY <1>1 DEF MoveHonest
  <2>2. CASE q = p /\ g = f
    BY <1>1, <2>1, <2>2 DEF MoveHonest, Slimmed
  <2>3. CASE ~(q = p /\ g = f)
    BY <1>1, <2>1, <2>3, HonestFiles DEF Honest, FilesHonest
  <2> QED BY <2>2, <2>3
<1> QED BY <1>2, HonestFiles DEF Honest

LEMMA RunStepHonest ==
    ASSUME Sane, Honest, NEW p \in Procs,
           \/ RunStep(p)
           \/ CleanFails(p) \/ ListFails(p) \/ ListMisread(p) \/ Crash(p)
    PROVE  Honest'
<1>1. src' = src /\ tmp' = tmp /\ marked' = marked
  BY DEF RunStep, Start, CleanDone, List, ListAs, EndRun, CleanFails, ListFails,
         ListMisread, Crash, disk
<1>2. \A q \in Procs : \/ pc'[q] = pc[q]
                       \/ \A f \in Files : pc'[q][f] \in {"none", "todo"}
  <2>1. CASE RunStep(p)
    BY <2>1 DEF RunStep, Start, CleanDone, List, ListAs, EndRun, Finish, Goto, Sane, TypeOK
  <2>2. CASE CleanFails(p) \/ ListFails(p) \/ ListMisread(p) \/ Crash(p)
    BY <2>2 DEF CleanFails, ListFails, ListMisread, ListAs, Crash, Die, Finish, Goto,
                Sane, TypeOK
  <2> QED BY <2>1, <2>2
<1> QED BY <1>1, <1>2, FilesKept, HonestRows

LEMMA TakeUpHonest ==
    ASSUME Sane, Honest, NEW p \in Procs, NEW f \in Files,
           NEW next \in {FirstStep(p), "skip"}, TakeUp(p, f, next),
           next = "skip" => f \in marked
    PROVE  Honest'
<1>1. next \in {"create", "check", "skip"} BY DEF FirstStep
<1>2. /\ pc[p][f] = "todo" /\ pc' = [pc EXCEPT ![p][f] = next]
      /\ src' = src /\ tmp' = tmp /\ marked' = marked
  BY DEF TakeUp, At, Step, disk
<1>3. MoveHonest(p, f, next) BY <1>1, <1>2 DEF MoveHonest
<1> QED BY <1>2, <1>3, FilesKept, HonestMove

LEMMA JobStepHonest ==
    ASSUME Sane, Honest, NEW p \in Procs, NEW f \in Files, JobStep(p, f)
    PROVE  Honest'
<1> USE DEF At, Step, disk, clock
<1>1. CASE CleanStat(p, f)
  <2>1. PICK next \in {"doomed", "seen"} : pc' = [pc EXCEPT ![p][f] = next]
    BY <1>1 DEF CleanStat
  <2>2. MoveHonest(p, f, next) BY <1>1 DEF CleanStat, CleanTurn, MoveHonest
  <2>3. FilesHonest BY <1>1, FilesKept DEF CleanStat
  <2> QED BY <2>1, <2>2, <2>3, HonestMove
<1>2. CASE CleanRemove(p, f)
  <2>1. MoveHonest(p, f, "seen") BY <1>2 DEF CleanRemove, MoveHonest
  <2>2. FilesHonest BY <1>2, TmpGone DEF CleanRemove
  <2> QED BY <1>2, <2>1, <2>2, HonestMove DEF CleanRemove
<1>3. CASE Take(p, f)
  <2>1. FirstStep(p) # "skip" BY DEF FirstStep
  <2>2. CASE f \in marked
    BY <1>3, <2>2, TakeUpHonest DEF Take
  <2>3. CASE f \notin marked
    BY <1>3, <2>1, <2>3, TakeUpHonest DEF Take
  <2> QED BY <2>2, <2>3
<1>4. CASE CheckFile(p, f)
  <2>1. PICK next \in {"ok", "fail", "panic"} : pc' = [pc EXCEPT ![p][f] = next]
    BY <1>4 DEF CheckFile
  <2>2. Mode[p] = "check" BY <1>4 DEF CheckFile, Sane, Placed
  <2>3. MoveHonest(p, f, next) BY <1>4, <2>2 DEF CheckFile, MoveHonest
  <2>4. FilesHonest BY <1>4, FilesKept DEF CheckFile
  <2> QED BY <2>1, <2>3, <2>4, HonestMove
<1>5. CASE CreateTmp(p, f)
  <2>1. PICK i \in IF tmp[f] # NoInode THEN {tmp[f]} ELSE Free :
          tmp' = [tmp EXCEPT ![f] = i]
    BY <1>5 DEF CreateTmp
  <2>2. i # Orig[f] BY <2>1 DEF Free, Honest
  <2>3. FilesHonest BY <1>5, <2>1, <2>2 DEF CreateTmp, FilesHonest, Honest, Sane, TypeOK
  <2>4. MoveHonest(p, f, "open") BY <1>5 DEF CreateTmp, MoveHonest
  <2> QED BY <1>5, <2>3, <2>4, HonestMove DEF CreateTmp
<1>6. CASE OpenSrc(p, f)
  <2>1. MoveHonest(p, f, "copy") BY <1>6 DEF OpenSrc, MoveHonest
  <2>2. FilesHonest BY <1>6, FilesKept DEF OpenSrc
  <2> QED BY <1>6, <2>1, <2>2, HonestMove DEF OpenSrc
<1>7. CASE ReadUnit(p, f) \/ Flush(p, f)
  <2>1. pc' = pc /\ src' = src /\ tmp' = tmp /\ marked' = marked
    BY <1>7 DEF ReadUnit, Flush
  <2> QED BY <2>1, FilesKept, HonestRows
<1>8. CASE ReadFails(p, f)
  <2>1. MoveHonest(p, f, "undo") BY <1>8 DEF ReadFails, MoveHonest
  <2>2. FilesHonest BY <1>8, FilesKept DEF ReadFails
  <2> QED BY <1>8, <2>1, <2>2, HonestMove DEF ReadFails
<1>9. CASE Panic(p, f)
  <2>1. MoveHonest(p, f, "panic") BY <1>9 DEF Panic, MoveHonest
  <2>2. FilesHonest BY <1>9, FilesKept DEF Panic
  <2> QED BY <1>9, <2>1, <2>2, HonestMove DEF Panic
<1>10. CASE Sync(p, f)
  <2>1. PICK next \in {"undo", "verify"} : pc' = [pc EXCEPT ![p][f] = next]
    BY ONLY <1>10 DEF Sync, Step
  <2>2. MoveHonest(p, f, next) BY <1>10 DEF Sync, MoveHonest
  <2>3. FilesHonest BY <1>10, FilesKept DEF Sync
  <2> QED BY <2>1, <2>2, <2>3, HonestMove
<1>11. CASE Verify(p, f)
  <2>1. PICK next \in {"undo", "rename"} : pc' = [pc EXCEPT ![p][f] = next]
    BY <1>11 DEF Verify
  <2>2. pc[p][f] = "verify" BY <1>11 DEF Verify
  <2>3. MoveHonest(p, f, next) BY <2>2 DEF Honest, MoveHonest
  <2>4. FilesHonest BY <1>11, FilesKept DEF Verify
  <2> QED BY <2>1, <2>3, <2>4, HonestMove
<1>12. CASE RemoveTmp(p, f)
  <2>1. MoveHonest(p, f, "fail") BY <1>12 DEF RemoveTmp, MoveHonest
  <2>2. FilesHonest BY <1>12, TmpGone DEF RemoveTmp
  <2> QED BY <1>12, <2>1, <2>2, HonestMove DEF RemoveTmp
<1>13. CASE Rename(p, f)
  <2>1. pc[p][f] = "rename" /\ Kind[f] = "good" BY <1>13 DEF Rename, Honest
  <2>2. CASE tmp[f] = NoInode
    <3>1. MoveHonest(p, f, "fail") BY <2>1 DEF MoveHonest
    <3>2. src' = src /\ tmp' = tmp /\ marked' = marked /\ pc' = [pc EXCEPT ![p][f] = "fail"]
      BY <1>13, <2>2 DEF Rename
    <3> QED BY <3>1, <3>2, FilesKept, HonestMove
  <2>3. CASE tmp[f] # NoInode
    <3>1. /\ src' = [src EXCEPT ![f] = tmp[f]] /\ tmp' = [tmp EXCEPT ![f] = NoInode]
          /\ marked' = marked /\ pc' = [pc EXCEPT ![p][f] = "mark"]
      BY <1>13, <2>3 DEF Rename
    <3>2. src'[f] # Orig[f] BY <3>1 DEF Honest, Sane, TypeOK
    <3>3. MoveHonest(p, f, "mark") BY <2>1, <3>2 DEF MoveHonest
    <3>4. \A g \in Files : src'[g] = src[g] \/ (src'[g] # Orig[g] /\ Kind[g] = "good")
      BY <2>1, <3>1, <3>2 DEF Sane, TypeOK
    <3>5. FilesHonest BY <3>1, <3>4, TmpGone
    <3> QED BY <3>1, <3>3, <3>5, HonestMove
  <2> QED BY <2>2, <2>3
<1>14. CASE Mark(p, f)
  <2>1. pc[p][f] = "mark" /\ Slimmed(f) BY <1>14 DEF Mark, Honest
  <2>2. /\ src' = src /\ tmp' = tmp /\ marked' = marked \union {f}
        /\ pc' = [pc EXCEPT ![p][f] = "ok"]
    BY <1>14 DEF Mark
  <2>3. FilesHonest BY <2>1, <2>2 DEF FilesHonest, Honest, Slimmed, Sane, TypeOK
  <2>4. MoveHonest(p, f, "ok") BY <2>1, <2>2 DEF MoveHonest
  <2> QED BY <2>2, <2>3, <2>4, HonestMove
<1>15. CASE DropJob(p, f)
  <2>1. MoveHonest(p, f, "dropped") BY <1>15 DEF DropJob, MoveHonest
  <2>2. FilesHonest BY <1>15, FilesKept DEF DropJob
  <2> QED BY <1>15, <2>1, <2>2, HonestMove DEF DropJob
<1> QED BY <1>1, <1>2, <1>3, <1>4, <1>5, <1>6, <1>7, <1>8, <1>9, <1>10, <1>11, <1>12,
           <1>13, <1>14, <1>15 DEF JobStep

LEMMA IoErrorHonest ==
    ASSUME Sane, Honest, NEW p \in Procs, NEW f \in Files, IoError(p, f)
    PROVE  Honest'
<1>1. PICK next \in {"undo", "fail", "seen"} :
        /\ pc' = [pc EXCEPT ![p][f] = next]
        /\ marked' = marked \/ (pc[p][f] = "mark" /\ marked' = marked \union {f})
  BY DEF IoError, Step
<1>2. src' = src /\ tmp' = tmp BY DEF IoError
<1>3. FilesHonest
  <2>1. CASE marked' = marked BY <1>2, <2>1, FilesKept
  <2>2. CASE pc[p][f] = "mark" /\ marked' = marked \union {f}
    <3>1. Slimmed(f) BY <2>2 DEF Honest
    <3> QED BY <1>2, <2>2, <3>1 DEF FilesHonest, Honest, Slimmed, Sane, TypeOK
  <2> QED BY <1>1, <2>1, <2>2
<1>4. MoveHonest(p, f, next)
  <2>1. next \notin {"verify", "rename", "mark", "ok", "skip", "dropped"} BY <1>1
  <2>2. pc[p][f] # "panic" BY DEF IoError, CleanTurn
  <2> QED BY <2>1, <2>2 DEF MoveHonest
<1> QED BY <1>1, <1>3, <1>4, HonestMove

\* Honest holds of every state that an execution reaches.
THEOREM Honesty == Spec => []Honest
<1>1. Init => Honest
  BY ConstantsAssumption DEF Init, Honest, Slimmed
<1>2. Sane /\ Honest /\ [Next]_vars => Honest'
  <2> SUFFICES ASSUME Sane, Honest, [Next]_vars PROVE Honest'
    OBVIOUS
  <2>1. ASSUME NEW p \in Procs, ProcStep(p) PROVE Honest'
    BY <2>1, RunStepHonest, JobStepHonest DEF ProcStep
  <2>2. ASSUME NEW p \in Procs,
               CleanFails(p) \/ ListFails(p) \/ ListMisread(p) \/ Crash(p)
        PROVE  Honest'
    BY <2>2, RunStepHonest
  <2>3. ASSUME NEW p \in Procs, NEW f \in Files, TakeUnseen(p, f) \/ IoError(p, f)
        PROVE  Honest'
    <3>1. FirstStep(p) # "skip" BY DEF FirstStep
    <3> QED BY <2>3, <3>1, TakeUpHonest, IoErrorHonest DEF TakeUnseen
  <2>4. CASE World \/ UNCHANGED vars
    <3>1. src' = src /\ tmp' = tmp /\ marked' = marked
      BY <2>4 DEF World, PowerLoss, Append, Close, SrcAges, TmpStales, vars, disk
    <3>2. \A q \in Procs : \/ pc'[q] = pc[q]
                           \/ \A f \in Files : pc'[q][f] \in {"none", "todo"}
      BY <2>4 DEF World, PowerLoss, Die, Append, Close, SrcAges, TmpStales, vars, job
    <3> QED BY <3>1, <3>2, FilesKept, HonestRows
  <2> QED BY <2>1, <2>2, <2>3, <2>4 DEF Next, Environment, World
<1> QED BY <1>1, <1>2, Sanity, PTL DEF Spec

\* Only slimmed, well-formed captures have a marker.
THEOREM MarkersTruthful == Spec => []MarkedIsSlim
<1>1. Sane /\ Honest => MarkedIsSlim
  BY DEF Sane, TypeOK, Honest, MarkedIsSlim
<1> QED BY <1>1, Sanity, Honesty, PTL

\* A malformed or panicking capture keeps its original, unmarked.
THEOREM BadKept == Spec => []BadUntouched
<1>1. Honest => BadUntouched
  BY DEF Honest, BadUntouched, Slimmed
<1> QED BY <1>1, Honesty, PTL

\* Exit code 0 is only reported when every file listed is slimmed and marked.
THEOREM ExitZeroTruthful == Spec => []ExitZeroMeansDone
<1>1. Honest => ExitZeroMeansDone
  <2> SUFFICES ASSUME Honest, NEW p \in Procs, AllFinished(p), ExitCode(p) = "0",
                      Mode[p] = "slim", NEW f \in Files, pc[p][f] # "none"
               PROVE  f \in marked /\ Slimmed(f)
    BY DEF ExitZeroMeansDone
  <2>1. \A g \in Files : pc[p][g] # "panic" /\ pc[p][g] # "fail"
    BY DEF ExitCode
  <2>2. pc[p][f] \in {"ok", "skip", "dropped"}
    BY <2>1 DEF AllFinished, Finished
  <2>3. pc[p][f] # "dropped"
    BY <2>1 DEF Honest
  <2> QED BY <2>2, <2>3 DEF Honest
<1> QED BY <1>1, Honesty, PTL

-----------------------------------------------------------------------------
(* Runs end.  What a run has left to do are its phases and, for each file, *)
(* the steps of its cleanup or of its job and the units still to copy.     *)

PhasesLeft(p) == CASE phase[p] = "clean" -> 3
                   [] phase[p] = "list"  -> 2
                   [] phase[p] = "jobs"  -> 1
                   [] OTHER -> 0

\* A cleanup looks at a file and removes it; a job's longest way is through
\* its places in this order.
StepsLeft(p, f) == CASE pc[p][f] = "none"   -> IF phase[p] = "clean" THEN 2 ELSE 0
                     [] pc[p][f] = "doomed" -> 1
                     [] pc[p][f] = "todo"   -> 8
                     [] pc[p][f] = "create" -> 7
                     [] pc[p][f] = "open"   -> 6
                     [] pc[p][f] = "copy"   -> 5
                     [] pc[p][f] = "verify" -> 4
                     [] pc[p][f] = "rename" -> 3
                     [] pc[p][f] \in {"mark", "check"} -> 2
                     [] pc[p][f] = "undo"   -> 1
                     [] OTHER -> 0

\* The units that may still be read, and written.
UnitsLeft(p, f) ==
    IF pc[p][f] = "copy" THEN (MaxLen - rpos[p][f]) + (MaxLen - wpos[p][f]) ELSE 0

\* A step brings p nearer to the end of its job for f, or does not matter to it.
JobNearer(p, f) ==
    \/ StepsLeft(p, f)' < StepsLeft(p, f)
    \/ StepsLeft(p, f)' = StepsLeft(p, f) /\ UnitsLeft(p, f)' < UnitsLeft(p, f)
JobAsFar(p, f) ==
    StepsLeft(p, f)' = StepsLeft(p, f) /\ UnitsLeft(p, f)' = UnitsLeft(p, f)

\* A step brings p nearer to the end of its run, or does not matter to it.
RunNearer(p) ==
    \/ PhasesLeft(p)' < PhasesLeft(p)
    \/ /\ PhasesLeft(p)' = PhasesLeft(p)
       /\ \A f \in Files : JobNearer(p, f) \/ JobAsFar(p, f)
       /\ \E f \in Files : JobNearer(p, f)
RunAsFar(p) ==
    /\ PhasesLeft(p)' = PhasesLeft(p)
    /\ \A f \in Files : JobAsFar(p, f)

RunGoesOn(p) == \/ CleanDone(p) \/ List(p) \/ EndRun(p)
                \/ CleanFails(p) \/ ListFails(p) \/ ListMisread(p) \/ Crash(p)
JobGoesOn(p, f) == JobStep(p, f) \/ TakeUnseen(p, f) \/ IoError(p, f)

\* p goes on with a run it has begun, or something of it fails.
RunOn(p) ==
    \/ RunGoesOn(p)
    \/ \E f \in Files : JobGoesOn(p, f)

LEMMA Untouched ==
    ASSUME NEW p \in Procs, NEW f \in Files,
           phase'[p] = phase[p], pc'[p][f] = pc[p][f],
           rpos'[p][f] = rpos[p][f], wpos'[p][f] = wpos[p][f]
    PROVE  JobAsFar(p, f)
BY DEF JobAsFar, StepsLeft, UnitsLeft

LEMMA Elsewhere ==
    ASSUME NEW p \in Procs, phase'[p] = phase[p], pc'[p] = pc[p],
           rpos'[p] = rpos[p], wpos'[p] = wpos[p]
    PROVE  RunAsFar(p)
<1>1. \A f \in Files : JobAsFar(p, f) BY Untouched
<1> QED BY <1>1 DEF RunAsFar, PhasesLeft

\* The step of a job concerns no other job.
LEMMA OneJobMoves ==
    ASSUME Sane, NEW p \in Procs, NEW f \in Files, JobGoesOn(p, f)
    PROVE  /\ phase' = phase
           /\ \A q \in Procs \ {p} : pc'[q] = pc[q] /\ rpos'[q] = rpos[q] /\ wpos'[q] = wpos[q]
           /\ \A g \in Files \ {f} : /\ pc'[p][g] = pc[p][g]
                                     /\ rpos'[p][g] = rpos[p][g]
                                     /\ wpos'[p][g] = wpos[p][g]
<1> USE DEF Sane, At, Step, Drop
<1>1. CASE \/ CleanStat(p, f) \/ CleanRemove(p, f) \/ CheckFile(p, f)
           \/ Take(p, f) \/ TakeUnseen(p, f)
  BY <1>1 DEF CleanStat, CleanRemove, Take, TakeUnseen, TakeUp, CheckFile, TypeOK
<1>2. CASE CreateTmp(p, f) \/ OpenSrc(p, f) \/ ReadUnit(p, f) \/ Flush(p, f)
  BY <1>2 DEF CreateTmp, OpenSrc, ReadUnit, Flush, TypeOK
<1>3. CASE ReadFails(p, f) \/ Panic(p, f) \/ Sync(p, f) \/ Verify(p, f)
  BY <1>3 DEF ReadFails, Panic, Sync, Verify, TypeOK
<1>4. CASE RemoveTmp(p, f) \/ Rename(p, f) \/ Mark(p, f) \/ DropJob(p, f)
  BY <1>4 DEF RemoveTmp, Rename, Mark, DropJob, TypeOK
<1>5. CASE IoError(p, f)
  BY <1>5 DEF IoError, TypeOK
<1> QED BY <1>1, <1>2, <1>3, <1>4, <1>5 DEF JobGoesOn, JobStep

\* A place further on is nearer to the end.
LEMMA FewerSteps ==
    ASSUME Sane, NEW p \in Procs, NEW f \in Files, NEW next,
           pc' = [pc EXCEPT ![p][f] = next], phase' = phase,
           \/ pc[p][f] = "none" /\ phase[p] = "clean" /\ next \in {"doomed", "seen"}
           \/ pc[p][f] = "doomed" /\ next = "seen"
           \/ pc[p][f] = "todo" /\ next \in {"create", "check", "skip", "dropped"}
           \/ pc[p][f] = "check" /\ next \in Finished
           \/ pc[p][f] = "create" /\ next \in {"open", "undo"}
           \/ pc[p][f] = "open" /\ next \in {"copy", "undo"}
           \/ pc[p][f] = "copy" /\ next \in {"verify", "undo", "panic"}
           \/ pc[p][f] = "verify" /\ next \in {"rename", "undo"}
           \/ pc[p][f] = "rename" /\ next \in {"mark", "fail"}
           \/ pc[p][f] \in {"mark", "undo"} /\ next \in Finished
    PROVE  JobNearer(p, f)
<1>1. pc'[p][f] = next BY DEF Sane, TypeOK
<1> QED BY <1>1 DEF JobNearer, StepsLeft, Finished

\* Each step of a job, its failures included, brings the job nearer to its end.
LEMMA JobSinks ==
    ASSUME Sane, NEW p \in Procs, NEW f \in Files, JobGoesOn(p, f)
    PROVE  JobNearer(p, f)
<1> USE DEF At, Step, Finished
<1>1. CASE CleanStat(p, f)
  BY <1>1, FewerSteps DEF CleanStat, CleanTurn
<1>2. CASE CleanRemove(p, f)
  BY <1>2, FewerSteps DEF CleanRemove
<1>3. CASE Take(p, f) \/ TakeUnseen(p, f)
  <2>1. PICK next \in {"create", "check", "skip"} : TakeUp(p, f, next)
    BY <1>3 DEF Take, TakeUnseen, FirstStep
  <2> QED BY <2>1, FewerSteps DEF TakeUp
<1>4. CASE CheckFile(p, f)
  BY <1>4, FewerSteps DEF CheckFile
<1>5. CASE CreateTmp(p, f)
  BY <1>5, FewerSteps DEF CreateTmp
<1>6. CASE OpenSrc(p, f)
  BY <1>6, FewerSteps DEF OpenSrc
<1>7. CASE ReadUnit(p, f) \/ Flush(p, f)
  <2>1. /\ pc[p][f] = "copy" /\ pc' = pc /\ phase' = phase
        /\ rino[p][f] \in Inodes
    BY <1>7 DEF ReadUnit, Flush, Sane, Opened
  <2>2. StepsLeft(p, f)' = StepsLeft(p, f) BY <2>1 DEF StepsLeft
  <2>3. /\ rpos[p][f] \in 0..MaxLen /\ wpos[p][f] \in 0..MaxLen /\ MaxLen \in Nat
        /\ \/ rpos'[p][f] = rpos[p][f] + 1 /\ wpos'[p][f] = wpos[p][f]
           \/ rpos'[p][f] = rpos[p][f] /\ wpos'[p][f] = wpos[p][f] + 1
    BY <1>7, ConstantsAssumption DEF ReadUnit, Flush, Sane, TypeOK
  <2>4. UnitsLeft(p, f)' < UnitsLeft(p, f) BY <2>1, <2>3 DEF UnitsLeft
  <2> QED BY <2>2, <2>4 DEF JobNearer
<1>8. CASE ReadFails(p, f) \/ Panic(p, f) \/ Sync(p, f)
  <2>1. PICK next \in {"verify", "undo", "panic"} :
          pc' = [pc EXCEPT ![p][f] = next]
    BY ONLY <1>8 DEF ReadFails, Panic, Sync, Step
  <2>2. pc[p][f] = "copy" /\ phase' = phase
    BY <1>8 DEF ReadFails, Panic, Sync
  <2> QED BY <2>1, <2>2, FewerSteps
<1>9. CASE Verify(p, f)
  BY <1>9, FewerSteps DEF Verify
<1>10. CASE RemoveTmp(p, f)
  BY <1>10, FewerSteps DEF RemoveTmp
<1>11. CASE Rename(p, f)
  BY <1>11, FewerSteps DEF Rename
<1>12. CASE Mark(p, f)
  BY <1>12, FewerSteps DEF Mark
<1>13. CASE DropJob(p, f)
  BY <1>13, FewerSteps DEF DropJob
<1>14. CASE IoError(p, f)
  <2>1. phase' = phase BY <1>14 DEF IoError
  <2>2. CASE pc[p][f] \in {"create", "open", "copy", "verify"}
    <3>1. pc' = [pc EXCEPT ![p][f] = "undo"]
      BY <1>14, <2>2 DEF IoError, CleanTurn
    <3> QED BY <2>1, <2>2, <3>1, FewerSteps
  <2>3. CASE pc[p][f] \notin {"create", "open", "copy", "verify"}
    BY <1>14, <2>1, <2>3, FewerSteps DEF IoError, CleanTurn
  <2> QED BY <2>2, <2>3
<1> QED BY <1>1, <1>2, <1>3, <1>4, <1>5, <1>6, <1>7, <1>8, <1>9, <1>10, <1>11, <1>12,
           <1>13, <1>14 DEF JobGoesOn, JobStep

LEMMA RunSinks ==
    ASSUME Sane, NEW p \in Procs, RunOn(p)
    PROVE  RunNearer(p) /\ \A q \in Procs \ {p} : RunAsFar(q)
<1>1. CASE RunGoesOn(p)
  <2>1. \A q \in Procs \ {p} : /\ phase'[q] = phase[q] /\ pc'[q] = pc[q]
                               /\ rpos'[q] = rpos[q] /\ wpos'[q] = wpos[q]
    BY <1>1 DEF RunGoesOn, CleanDone, List, ListAs, EndRun, CleanFails, ListFails,
                ListMisread, Crash, Die, Finish, Goto, Sane, TypeOK
  <2>2. \A q \in Procs \ {p} : RunAsFar(q) BY <2>1, Elsewhere
  <2>3. \/ phase[p] = "clean" /\ phase'[p] = "list"
        \/ phase[p] = "list" /\ phase'[p] \in {"idle", "jobs"}
        \/ phase[p] \in {"clean", "list", "jobs"} /\ phase'[p] = "idle"
    BY <1>1 DEF RunGoesOn, CleanDone, List, ListAs, EndRun, CleanFails, ListFails,
                ListMisread, Crash, Die, Finish, Sane, TypeOK, Phases
  <2>4. PhasesLeft(p)' < PhasesLeft(p) BY <2>3 DEF PhasesLeft
  <2> QED BY <2>2, <2>4 DEF RunNearer
<1>2. ASSUME NEW f \in Files, JobGoesOn(p, f)
      PROVE  RunNearer(p) /\ \A q \in Procs \ {p} : RunAsFar(q)
  <2>1. \A q \in Procs \ {p} : RunAsFar(q) BY <1>2, OneJobMoves, Elsewhere
  <2>2. \A g \in Files \ {f} : JobAsFar(p, g) BY <1>2, OneJobMoves, Untouched
  <2>3. JobNearer(p, f) BY <1>2, JobSinks
  <2>4. PhasesLeft(p)' = PhasesLeft(p) BY <1>2, OneJobMoves DEF PhasesLeft
  <2> QED BY <2>1, <2>2, <2>3, <2>4 DEF RunNearer
<1> QED BY <1>1, <1>2 DEF RunOn

\* What the rest of the world does never sends a run back: a power loss ends
\* it, and captures and clocks do not concern it.
LEMMA WorldSinks ==
    ASSUME Sane, World, NEW p \in Procs
    PROVE  RunNearer(p) \/ RunAsFar(p)
<1>1. CASE PowerLoss
  <2>1. /\ phase'[p] = "idle"
        /\ \A f \in Files : pc'[p][f] = "none"
    BY <1>1 DEF PowerLoss, Die
  <2>2. CASE phase[p] = "idle"
    <3>1. \A f \in Files : pc[p][f] = "none" BY <2>2 DEF Sane, Placed
    <3>2. \A f \in Files : JobAsFar(p, f)
      BY <2>1, <2>2, <3>1 DEF JobAsFar, StepsLeft, UnitsLeft
    <3> QED BY <2>1, <2>2, <3>2 DEF RunAsFar, PhasesLeft
  <2>3. CASE phase[p] # "idle"
    <3>1. phase[p] \in {"clean", "list", "jobs"} BY <2>3 DEF Sane, TypeOK, Phases
    <3>2. PhasesLeft(p)' < PhasesLeft(p) BY <2>1, <3>1 DEF PhasesLeft
    <3> QED BY <3>2 DEF RunNearer
  <2> QED BY <2>2, <2>3
<1>2. CASE \E f \in Files : Append(f) \/ Close(f) \/ SrcAges(f) \/ TmpStales(f)
  <2>1. UNCHANGED <<phase, pc, rpos, wpos>>
    BY <1>2 DEF Append, Close, SrcAges, TmpStales, job
  <2> QED BY <2>1, Elsewhere
<1> QED BY <1>1, <1>2 DEF World

\* Runs end, however the program is used, overlapping runs included: once a
\* run has begun, each of its steps, and each of its failures, leaves it less
\* to do, and no other run, nor a capture, the clock or a power loss, ever
\* leaves it more (run(), slim_file_in_place, check_file).  What is left are
\* numbers, for the files of one directory, so it cannot become less for ever.
THEOREM RunsEnd ==
    Spec => /\ [](\A p \in Procs, f \in Files :
                    {PhasesLeft(p), StepsLeft(p, f), UnitsLeft(p, f)} \subseteq Nat)
            /\ [][\A p \in Procs : /\ RunOn(p) => RunNearer(p)
                                   /\ Start(p) \/ RunNearer(p) \/ RunAsFar(p)]_vars
<1> DEFINE Counts == \A p \in Procs, f \in Files :
                       {PhasesLeft(p), StepsLeft(p, f), UnitsLeft(p, f)} \subseteq Nat
           Sinks == \A p \in Procs : /\ RunOn(p) => RunNearer(p)
                                     /\ Start(p) \/ RunNearer(p) \/ RunAsFar(p)
<1>1. Sane => Counts
  <2> SUFFICES ASSUME Sane, NEW p \in Procs, NEW f \in Files
               PROVE  {PhasesLeft(p), StepsLeft(p, f), UnitsLeft(p, f)} \subseteq Nat
    OBVIOUS
  <2>1. PhasesLeft(p) \in Nat BY DEF PhasesLeft
  <2>2. StepsLeft(p, f) \in Nat BY DEF StepsLeft
  <2>3. /\ rpos[p][f] \in 0..MaxLen /\ wpos[p][f] \in 0..MaxLen /\ MaxLen \in Nat
    BY ConstantsAssumption DEF Sane, TypeOK
  <2>4. UnitsLeft(p, f) \in Nat BY <2>3 DEF UnitsLeft
  <2> QED BY <2>1, <2>2, <2>4
<1>2. Sane /\ [Next]_vars => [Sinks]_vars
  <2> SUFFICES ASSUME Sane, Next, NEW p \in Procs
               PROVE  /\ RunOn(p) => RunNearer(p)
                      /\ Start(p) \/ RunNearer(p) \/ RunAsFar(p)
    OBVIOUS
  <2>1. RunOn(p) => RunNearer(p) BY RunSinks
  <2>2. ASSUME NEW q \in Procs, RunOn(q)
        PROVE  RunNearer(p) \/ RunAsFar(p)
    BY <2>2, RunSinks
  <2>3. ASSUME NEW q \in Procs, Start(q), ~Start(p) PROVE RunAsFar(p)
    <3>1. /\ phase'[p] = phase[p] /\ pc'[p] = pc[p]
          /\ rpos'[p] = rpos[p] /\ wpos'[p] = wpos[p]
      BY <2>3 DEF Start, Goto, Sane, TypeOK
    <3> QED BY <3>1, Elsewhere
  <2>4. CASE World
    BY <2>1, <2>4, WorldSinks
  <2>5. \/ \E q \in Procs : Start(q) \/ RunOn(q)
        \/ World
    BY DEF Next, ProcStep, RunStep, RunOn, RunGoesOn, JobGoesOn, Environment, World
  <2> QED BY <2>1, <2>2, <2>3, <2>4, <2>5
<1> HIDE DEF Counts, Sinks
<1>3. Spec => []Counts /\ [][Sinks]_vars BY <1>1, <1>2, Sanity, PTL DEF Spec
<1> QED BY <1>3 DEF Counts, Sinks

-----------------------------------------------------------------------------
(* Coord implements SlimDir.  In a state where nothing is lost, the        *)
(* abstract state is a function of src, captured, capturing and marked.    *)

LEMMA Stutter ==
    ASSUME IInv, IInv', UNCHANGED <<src, captured, capturing, marked>>
    PROVE  UNCHANGED Promise!vars
<1>1. \A f \in Files : data'[src'[f]] = data[src[f]]
  BY DEF IInv, Whole
<1> QED BY <1>1 DEF Promise!vars, Slimmed

LEMMA StepImplements ==
    ASSUME SafeUse, IInv, IInv', [Next]_vars
    PROVE  [Promise!Next]_(Promise!vars)
<1> USE DEF disk, clock, capture, job
<1>1. ASSUME NEW p \in Procs, RunStep(p) PROVE UNCHANGED Promise!vars
  BY <1>1, Stutter DEF RunStep, Start, CleanDone, List, ListAs, EndRun
<1>2. ASSUME NEW p \in Procs, NEW f \in Files, JobStep(p, f)
      PROVE  [Promise!Next]_(Promise!vars)
  <2>1. CASE Rename(p, f)
    <3>1. CASE tmp[f] = NoInode
      BY <2>1, <3>1, Stutter DEF Rename
    <3>2. CASE tmp[f] # NoInode
      <4>1. f \notin capturing /\ Kind[f] = "good"
        BY <2>1 DEF Rename, At, IInv, Reach, Placed, SlimPCs, Pre, JobPCs, Running,
                    Writing, WellFormed
      <4>2. src' = [src EXCEPT ![f] = tmp[f]] /\ UNCHANGED <<captured, capturing, marked>>
        BY <2>1, <3>2 DEF Rename
      <4>3. \A g \in Files : Slimmed(g)' <=> IF g = f THEN TRUE ELSE Slimmed(g)
        BY <3>2, <4>2 DEF Slimmed, IInv, Names, TypeOK
      <4>4. \A g \in Files : data'[src'[g]] = data[src[g]]
        BY <4>2 DEF IInv, Whole
      <4>5. CASE f \notin marked
        <5>1. Promise!Slim(f)
          BY <4>1, <4>2, <4>3, <4>4, <4>5 DEF Promise!Slim
        <5> QED BY <5>1 DEF Promise!Next
      <4>6. CASE f \in marked  \* its marker went unseen: slimmed as before
        <5>1. Slimmed(f) BY <4>6 DEF IInv, Markers
        <5>2. \A g \in Files : Slimmed(g)' <=> Slimmed(g) BY <4>3, <5>1
        <5> QED BY <4>2, <4>4, <5>2 DEF Promise!vars
      <4> QED BY <4>5, <4>6
    <3> QED BY <3>1, <3>2
  <2>2. CASE Mark(p, f)
    <3>1. /\ Slimmed(f) /\ marked' = marked \union {f}
          /\ UNCHANGED <<src, data, captured, capturing>>
      BY <2>2 DEF Mark, At, IInv, Markers
    <3>2. Promise!Mark(f)
      BY <3>1 DEF Promise!Mark, Slimmed
    <3> QED BY <3>2 DEF Promise!Next
  <2>3. CASE ~Rename(p, f) /\ ~Mark(p, f)
    BY <1>2, <2>3, Stutter
       DEF JobStep, CleanStat, CleanRemove, Take, TakeUp, CheckFile, CreateTmp, OpenSrc,
           ReadUnit, Flush, ReadFails, Panic, Sync, Verify, RemoveTmp, DropJob
  <2> QED BY <2>1, <2>2, <2>3
<1>3. CASE Environment
  <2>1. ASSUME NEW p \in Procs, NEW f \in Files, IoError(p, f)
        PROVE  [Promise!Next]_(Promise!vars)
    <3>1. CASE marked' = marked
      BY <2>1, <3>1, Stutter DEF IoError
    <3>2. CASE marked' # marked
      <4>1. /\ Slimmed(f) /\ marked' = marked \union {f}
            /\ UNCHANGED <<src, data, captured, capturing>>
        BY <2>1, <3>2 DEF IoError, IInv, Markers
      <4>2. Promise!Mark(f)
        BY <4>1 DEF Promise!Mark, Slimmed
      <4> QED BY <4>2 DEF Promise!Next
    <3> QED BY <3>1, <3>2
  <2>2. ASSUME NEW p \in Procs,
               \/ CleanFails(p) \/ ListFails(p) \/ ListMisread(p) \/ Crash(p)
               \/ \E f \in Files : TakeUnseen(p, f)
        PROVE  UNCHANGED Promise!vars
    BY <2>2, Stutter DEF CleanFails, ListFails, ListMisread, ListAs, Crash, TakeUnseen, TakeUp
  <2>3. CASE PowerLoss
    BY <2>3, Stutter DEF PowerLoss
  <2>4. ASSUME NEW f \in Files, Append(f) PROVE [Promise!Next]_(Promise!vars)
    <3>1. /\ captured[f] + 1 \in Nat
          /\ (1..captured[f]) \union {captured[f] + 1} = 1..(captured[f] + 1)
      BY Extend, ConstantsAssumption DEF IInv, TypeOK
    <3>2. /\ captured' = [captured EXCEPT ![f] = @ + 1]
          /\ f \in capturing /\ captured[f] < MaxLen
          /\ UNCHANGED <<src, capturing, marked>>
      BY <2>4 DEF Append
    <3>3. \A g \in Files :
            data'[src'[g]] =
               data[src[g]] \union IF g = f THEN {captured[f] + 1} ELSE {}
      BY <3>1, <3>2 DEF IInv, Whole, TypeOK
    <3> DEFINE units == [g \in Files |-> data[src[g]]]
               added == [g \in Files |-> data'[src'[g]]]
    <3>4. added = [units EXCEPT ![f] = @ \union {captured[f] + 1}]
      <4> DEFINE recorded == units[f] \union {captured[f] + 1}
      <4>1. \A g \in Files : added[g] = IF g = f THEN recorded ELSE units[g]
        BY <3>3
      <4>2. [units EXCEPT ![f] = recorded] = [g \in Files |-> IF g = f THEN recorded ELSE units[g]]
        OBVIOUS
      <4> HIDE DEF recorded
      <4>3. added = [g \in Files |-> IF g = f THEN recorded ELSE units[g]]
        BY <4>1
      <4> QED BY <4>2, <4>3 DEF recorded
    <3>5. [g \in Files |-> IF Slimmed(g) THEN "slim" ELSE "raw"]' =
             [g \in Files |-> IF Slimmed(g) THEN "slim" ELSE "raw"]
      BY <3>2 DEF Slimmed
    <3>6. Promise!Record(f)
      BY <3>2, <3>4, <3>5 DEF Promise!Record
    <3> QED BY <3>6 DEF Promise!Next
  <2>5. ASSUME NEW f \in Files, Close(f) PROVE [Promise!Next]_(Promise!vars)
    <3>1. Promise!Close(f)
      BY <2>5 DEF Close, Promise!Close, Slimmed
    <3> QED BY <3>1 DEF Promise!Next
  <2>6. ASSUME NEW f \in Files, SrcAges(f) \/ TmpStales(f) PROVE UNCHANGED Promise!vars
    BY <2>6, Stutter DEF SrcAges, TmpStales
  <2> QED BY <1>3, <2>1, <2>2, <2>3, <2>4, <2>5, <2>6 DEF Environment
<1>4. CASE UNCHANGED vars
  BY <1>4, Stutter DEF vars
<1> QED BY <1>1, <1>2, <1>3, <1>4 DEF Next, ProcStep

\* Every execution of Coord is, seen from the directory, one of SlimDir.
THEOREM Implementation == ASSUME SafeUse PROVE Spec => ImplementsPromise
<1>1. Init => Promise!Init
  <2> SUFFICES ASSUME Init PROVE Promise!Init
    OBVIOUS
  <2>1. \A f \in Files : data[src[f]] = 1..captured[f]
    BY ConstantsAssumption DEF Init
  <2> QED BY <2>1 DEF Init, Promise!Init, Slimmed
<1> QED BY <1>1, Invariance, StepImplements, PTL DEF Spec, ImplementsPromise, Promise!Spec
=============================================================================
