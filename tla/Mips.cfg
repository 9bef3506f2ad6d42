\* Two instructions of any kind on 8-bit words.
SPECIFICATION MachineSpec
CONSTANTS
    ByteBits = 2
    RegionBits = 5
    MemorySize = 12
    MaxSteps = 2
    Results = {0, 255}
    Values <- Edges
    Content <- Bytes
    Instructions <- AllInstructions
INVARIANTS
    ArithmeticIsExact
    PairsAccessWords
PROPERTIES
    TrapsArePrecise
CHECK_DEADLOCK FALSE
