\* Two workers; a bucket of 8 chunks that gains 2 a tick; an observer that
\* may begin to measure after one tick or two.
SPECIFICATION FairSpec
CONSTANTS
    w1 = w1  w2 = w2
    Workers = {w1, w2}
    NoWorker = NoWorker
    Rate = 2
    Second = 2
    Batch = 2
    Sizes = {1, 5}
    MaxCalls = 2
    MaxTime = 3
    Watch = {1, 2}
INVARIANTS TypeOK RateHeld AccountedCapped AllCharged BlocksOnlyWhenExhausted
PROPERTIES EveryCallReturns
CHECK_DEADLOCK FALSE
