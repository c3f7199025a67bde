\* Two good captures, one of them still growing: a cron job, a manual
\* --single run that takes turns with it, and a --dry-run whose cleanup
\* removes temporary files; one fault anywhere.
SPECIFICATION Spec
CONSTANTS
    cap = cap  old = old  junk = junk  crashy = crashy
    cron = cron  manual = manual  checker = checker  lister = lister
    i1 = i1  i2 = i2  i3 = i3  i4 = i4  i5 = i5
    NoInode = NoInode
    Files = {cap, old}
    Inodes = {i1, i2, i3, i4, i5}
    Procs = {cron, manual, lister}
    Live = {cap}
    AgeFilter = {cron}
    Workers = 2
    Hazards = {}
    MaxLen = 2
    MaxFaults = 1
    Orig <- OrigOf
    Kind <- KindOf
    Mode <- ModeOf
    Dir <- DirOf
    Single <- SingleProcs
SYMMETRY NewInodes
INVARIANTS TypeOK NothingLost RewrittenOnce MarkedIsSlim
PROPERTIES ImplementsPromise
