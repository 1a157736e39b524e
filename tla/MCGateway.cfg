CONSTANTS
    r1 = r1
    r2 = r2
    r3 = r3
    r4 = r4
    k1 = k1
    k2 = k2
    b1 = b1
    b2 = b2
    None = None
    Requests <- MCRequests
    Keys = {k1, k2}
    Key <- MCKey
    Bodies = {b1, b2}
    Body <- MCBody
SPECIFICATION FairSpec
INVARIANTS
    OneOwner
PROPERTIES
    ImplementsIdempotentKeys
    EveryRequestAnswered
CHECK_DEADLOCK FALSE
