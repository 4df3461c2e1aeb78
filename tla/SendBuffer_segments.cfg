SPECIFICATION Spec
CONSTANTS
    BYTE = 4
    TCP = 6
    CHECK = 3
    Chain <- MCChain
    Body <- MCBody
    Address <- MCAddress
INVARIANTS SumIsOnesComplement LengthsRight ChecksumVerifies
\* The call ends.
CHECK_DEADLOCK FALSE
