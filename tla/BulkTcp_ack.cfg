SPECIFICATION Spec
CONSTANTS
    none = none
    some = some
    other = other
    h1 = h1
    h2 = h2
    Segment <- InTest
    HdrLen <- MCHdrLen
    Garbage = {none, some, other}
    SEQ = 16
    MaxArrivals = 2
    BUFFER_SIZE = 10
    DELTA_SEND = 2
    Handler = {h1}
    NoThread = NoThread
INVARIANT AckKept
