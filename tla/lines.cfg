SPECIFICATION Spec
CONSTANTS
    Programs <- MCPrograms
    Addresses = {0, 1, 2, 3, 4, 5, 6, 7, 8}
    LineBase <- MCLineBase
    LineRange = 3
    OpcodeBase = 248
    FileCount = 2
    RegMod = 16
    WordBits = 7
    GroupBits = 2
CHECK_DEADLOCK FALSE
INVARIANTS
    TypeOK
    OperandRead
    LocatesEvery
    NeverMisplaces
    TailUnlocated
    PartLocates
