CONSTANTS
    Limb = 16
    MemBytes = 24
    CellValues <- TwoValues
    MaxBits = 64
    Addresses <- SomeAddresses
SPECIFICATION SBSpec
INVARIANT StreamDeliversMemory
PROPERTY OnlyGoodWritesReachMemory
CHECK_DEADLOCK FALSE
