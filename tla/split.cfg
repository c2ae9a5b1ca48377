SPECIFICATION SplitSpec
CONSTANTS
    Empty <- MCEmpty
    Garbage = Garbage
    Str = {s1, s2, s3}
    Block = {b1, b2}
    Text <- MCText
    Length <- MCLength
    Plus <- MCPlus
    kSmallMax = 2
    MaxRefs = 3
    Sep = ","
SYMMETRY Symmetric
INVARIANTS
    TypeOK
    ShowsText
    BlockOutlivesStrings
    DestroysWhatItHolds
    ReadsLive
    PartsMakeText
