SPECIFICATION FairSpec
CONSTANTS
    p = p
    q = q
    r = r
    big = big
    i = i
    j = j
    Packet = {p, q, r, big}
    Fragment <- TwoPackets
    Id = {i, j}
    Header = 1
    BUFFER_FRAGS_SIZE = 5
    TIMEOUT = 2
    Copies = 1
    Junk = Junk
    NoEntry = NoEntry
    NoFragment = NoFragment
    NoThread = NoThread
INVARIANTS SentWhole NothingWithheld WithinTwoDeltas
PROPERTIES FragmentHandled BuffersFreed
