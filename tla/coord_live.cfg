\* A cron job and a --dry-run, whose cleanup removes files too, on a good
\* and a malformed capture; two faults anywhere.
SPECIFICATION FairSpec
CONSTANTS
    cap = cap  old = old  junk = junk  crashy = crashy
    cron = cron  manual = manual  checker = checker  lister = lister
    i1 = i1  i2 = i2  i3 = i3  i4 = i4  i5 = i5
    NoInode = NoInode
    Files = {cap, junk}
    Inodes = {i1, i2, i3, i4}
    Procs = {cron, lister}
    Live = {cap}
    AgeFilter = {cron}
    Workers = 2
    Hazards = {}
    MaxLen = 1
    MaxFaults = 2
    Orig <- OrigOf
    Kind <- KindOf
    Mode <- ModeOf
    Dir <- DirOf
    Single <- SingleProcs
PROPERTIES EventuallySlim OrphansGo
