SPECIFICATION ListFairSpec
CONSTANTS
    f1 = f1
    f2 = f2
    h1 = h1
    h2 = h2
    Flow = {f1, f2}
    Segment <- MCSegment
    SEQ = 16
    MIN_CONS_DATA = 3
    MaxArrivals = 3
    Handler = {h1, h2}
    Timer = timer
    NoThread = NoThread
INVARIANTS Sorted HandedOnce MergedContiguous
PROPERTY FollowedLeaves
