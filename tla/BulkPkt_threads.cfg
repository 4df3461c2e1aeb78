SPECIFICATION Spec
CONSTANTS
    h1 = h1
    h2 = h2
    Size = {3,4,7,10}
    HdrSize = 3
    MaxArrivals = 3
    BUFFER_SIZE = 10
    DELTA_SEND = 2
    Handler = {h1,h2}
    NoThread = NoThread
INVARIANTS EachOnce PreHolds
PROPERTY DebulkRestores
