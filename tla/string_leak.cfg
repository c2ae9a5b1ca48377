SPECIFICATION Spec
CONSTANTS
    short = short
    long1 = long1
    long2 = long2
    Empty = Empty
    Garbage = Garbage
    Str = {s1, s2, s3}
    Block = {b1, b2}
    Text = {Empty, short, long1, long2}
    Length <- MCLength
    Plus <- MCPlus
    kSmallMax = 8
    MaxRefs = 4
INVARIANTS
    NoLeak
