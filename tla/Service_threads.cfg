SPECIFICATION FairSpec
CONSTANTS
    x = x
    y = y
    c1 = c1
    c2 = c2
    Consumers = {c1, c2}
    Thread <- MCThread
    Hash = {x, y}
    Levels = 2
    NoThread = NoThread
    NoItem = NoItem
    Frames = 2
    Arrivals <- MCArrivals
    MaxFaults = 1
INVARIANTS OneFlowPerKey FrameKept InOnePlace
PROPERTIES PacketLeaves
\* After a socket had no frame, threads wait for its lock for ever.
CHECK_DEADLOCK FALSE
