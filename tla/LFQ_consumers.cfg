SPECIFICATION FairSpec
CONSTANTS
    NProd = 1
    NCons = 2
    Q_SIZE = 2
    MaxPush = 3
    ULONG_MAX = 99
    NoItem = NoItem
CHECK_DEADLOCK TRUE
INVARIANTS Inv NoSlotRace DeliveredInTicketOrder
PROPERTIES AbstractSpec PushReturns EveryPacketObtained
