\* Captures of up to four records, cut off anywhere, growing or not.
SPECIFICATION FairSpec
CONSTANTS
    Captures <- TryCaptures
    Places <- TryPlaces
    WRITE_BATCH_CAP = 60
    BufferCap = 80
    SKIP_BUF_CAP = 16
    MaxFaults = 1
INVARIANTS TypeOK InOrder OkMeansAll CheckPredictsSlim VerifiedMeansComplete NoFalseAlarm AccountedInFull
PROPERTIES JobEnds ImplementsPromise
CHECK_DEADLOCK FALSE
