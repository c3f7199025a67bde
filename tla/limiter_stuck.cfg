\* A batch that is larger than the bucket.
SPECIFICATION Spec
CONSTANTS
    w1 = w1  w2 = w2
    Workers = {w1, w2}
    NoWorker = NoWorker
    Rate = 2
    Second = 2
    Batch = 9
    Sizes = {1, 5}
    MaxCalls = 3
    MaxTime = 2
    Watch = {}
INVARIANTS BlocksOnlyWhenExhausted
CHECK_DEADLOCK FALSE
