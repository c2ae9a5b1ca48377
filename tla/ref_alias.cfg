SPECIFICATION AliasedSpec
CONSTANTS
    x = x
    y = y
    z = z
    next = next
    b1 = b1
    b2 = b2
    NoBlock = NoBlock
    Handle = {x, y, next}
    Block = {b1, b2}
    Home <- MCHome
    RefMod = 5
PROPERTIES
    AssignDelivers
