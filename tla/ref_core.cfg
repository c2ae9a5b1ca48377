SPECIFICATION Spec
CONSTANTS
    x = x
    y = y
    z = z
    next = next
    b1 = b1
    b2 = b2
    NoBlock = NoBlock
    Handle = {x, y, z, next}
    Block = {b1, b2}
    Home <- MCHome
    RefMod = 8
INVARIANTS
    TypeOK
    ExactCount
    SingleDeleter
    NoDanglingUse
    HeldAlive
    NoLostObject
PROPERTIES
    AssignDelivers
    EventuallyFreed
    Implements
