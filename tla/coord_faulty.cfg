\* A good, a malformed and a panicking capture: a cron job and a
\* --check-only run beside it; one fault anywhere.
SPECIFICATION Spec
CONSTANTS
    cap = cap  old = old  junk = junk  crashy = crashy
    cron = cron  manual = manual  checker = checker  lister = lister
    i1 = i1  i2 = i2  i3 = i3  i4 = i4  i5 = i5
    NoInode = NoInode
    Files = {cap, junk, crashy}
    Inodes = {i1, i2, i3, i4, i5}
    Procs = {cron, checker}
    Live = {}
    AgeFilter = {}
    Workers = 2
    Hazards = {}
    MaxLen = 1
    MaxFaults = 1
    Orig <- OrigOf
    Kind <- KindOf
    Mode <- ModeOf
    Dir <- DirOf
    Single <- SingleProcs
SYMMETRY NewInodes
INVARIANTS BadUntouched ExitZeroMeansDone
PROPERTIES CheckOnlyWritesNothing
