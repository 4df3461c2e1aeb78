SPECIFICATION FairSpec
CONSTANTS
    p = p
    q = q
    r = r
    big = big
    i = i
    j = j
    Packet = {p, q, r, big}
    Fragment <- OneTooBig
    Id = {i, j}
    Header = 1
    BUFFER_FRAGS_SIZE = 4
    TIMEOUT = 2
    Copies = 1
    Junk = Junk
    NoEntry = NoEntry
    NoFragment = NoFragment
    NoThread = NoThread
PROPERTY FragmentHandled
