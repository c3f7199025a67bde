\* Two slimming invocations on one capture, no fault.
SPECIFICATION Spec
CONSTANTS
    cap = cap  old = old  junk = junk  crashy = crashy
    cron = cron  manual = manual  checker = checker  lister = lister
    i1 = i1  i2 = i2  i3 = i3  i4 = i4  i5 = i5
    NoInode = NoInode
    Files = {old}
    Inodes = {i2, i3, i4, i5}
    Procs = {cron, manual}
    Live = {}
    AgeFilter = {}
    Workers = 2
    Hazards = {"overlap"}
    MaxLen = 2
    MaxFaults = 0
    Orig <- OrigOf
    Kind <- KindOf
    Mode <- ModeOf
    Dir <- DirOf
    Single <- SingleProcs
INVARIANTS NothingLost
