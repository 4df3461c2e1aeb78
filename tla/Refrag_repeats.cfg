SPECIFICATION Spec
CONSTANTS
    p = p
    q = q
    r = r
    big = big
    i = i
    j = j
    Packet = {p, q, r, big}
    Fragment <- SameId
    Id = {i, j}
    Header = 1
    BUFFER_FRAGS_SIZE = 4
    TIMEOUT = 2
    Copies = 2
    Junk = Junk
    NoEntry = NoEntry
    NoFragment = NoFragment
    NoThread = NoThread
INVARIANTS TypeOK WrittenIsCounted EntryInUse
