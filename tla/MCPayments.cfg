CONSTANTS
    o1 = o1
    o2 = o2
    o3 = o3
    c1 = c1
    c2 = c2
    k1 = k1
    k2 = k2
    k3 = k3
    q1 = q1
    q2 = q2
    None = None
    MaxSafe = 3
    Orders <- MCOrders
    Customers <- MCCustomers
    Keys <- MCKeys
    Credits <- MCCredits
    ReserveRequests <- MCReserveRequests
    ChargeRequests <- MCChargeRequests
SPECIFICATION Spec
INVARIANTS
    TypeOK
    UnsentIsRetriable
    HoldsMatchPayments
    MoneyConserved
    AnswersTruthful
PROPERTIES
    DecisionsStick
