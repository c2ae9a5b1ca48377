SPECIFICATION Spec
CONSTANTS
    Var = {g, h, k}
    Loop = {11, 12}
    Coro = {1, 2, 3}
    Bodies <- MCBodies
    Null = Null
INVARIANTS
    TypeOK
    DeliveredOnce
    LoopsKeepFrames
    NothingRethrown
PROPERTIES
    ResumesSuspended
    ResumeReturns
