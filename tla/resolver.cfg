SPECIFICATION ResolverSpec
CONSTANTS
    main = main
    lib = lib
    plain = plain
    Image = {main, lib, plain}
    Main = main
    NoImage = NoImage
    Slashed = {main, lib}
    Setups <- MCSetups
    AddressMod = 128
    Programs <- MCPrograms
    Addresses = {1, 2, 3, 4, 5, 6, 7, 8}
    LineBase <- MCLineBase
    LineRange = 3
    OpcodeBase = 248
    FileCount = 2
    RegMod = 16
    WordBits = 7
    GroupBits = 2
INVARIANTS
    ResolverTypeOK
    SectionsFound
    LocatesOwn
