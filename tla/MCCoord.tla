------------------------------ MODULE MCCoord ------------------------------
(***************************************************************************)
(* Instances of Coord for TLC.  A cfg picks the processes; their modes and *)
(* the files they are pointed at are fixed by their names here.            *)
(***************************************************************************)
EXTENDS Coord, TLC

CONSTANTS cap, old, junk, crashy,           \* files
          cron, manual, checker, lister,    \* invocations
          i1, i2, i3, i4, i5                \* inodes

MCOrig == (cap :> i1 @@ old :> i2 @@ junk :> i2 @@ crashy :> i3)
OrigOf == [f \in Files |-> MCOrig[f]]

\* cap and old are well formed, junk is not a pcap, crashy has a frame that
\* panics.
KindOf == [f \in Files |-> IF f \in {cap, old} THEN "good" ELSE IF f = junk THEN "bad" ELSE "panic"]

ModeOf == [p \in Procs |-> CASE p \in {cron, manual} -> "slim"
                             [] p = checker -> "check" [] OTHER -> "dry"]

\* cron, checker and lister are given the directory, manual one file.
DirOf == [p \in Procs |-> IF p = manual THEN Files \ {cap} ELSE Files]
\* Inodes that no capture process writes are interchangeable.
NewInodes == Permutations(Inodes \ {MCOrig[f] : f \in Files})

SingleProcs == Procs \intersect {manual}
=============================================================================
