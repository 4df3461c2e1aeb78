SPECIFICATION FairSpec
CONSTANTS
    Producers = {p1}
    Consumers = {c1, c2}
    PC_BUFFER_SIZE = 3
    MaxPut = 5
    NoItem = NoItem
INVARIANTS Inv NoOverrun
PROPERTIES AbstractSpec EveryPacketTaken
\* Consumers block in sem_wait once the bounded input is used up.
CHECK_DEADLOCK FALSE
