SPECIFICATION FairSpec
CONSTANTS
    none = none
    some = some
    other = other
    h1 = h1
    h2 = h2
    Segment <- Stream
    HdrLen <- MCHdrLen
    Garbage = {none, other}
    SEQ = 16
    MaxArrivals = 3
    BUFFER_SIZE = 10
    DELTA_SEND = 2
    Handler = {h1, h2}
    NoThread = NoThread
INVARIANTS NoOverrun NothingLost Contiguous FlagsKept PushNotHeld WithinTwoDeltas
PROPERTIES InOrder SegmentSent
