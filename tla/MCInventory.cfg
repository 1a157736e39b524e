CONSTANTS
    o1 = o1
    o2 = o2
    None = None
    Orders <- MCOrders
    MessageIds <- MCMessageIds
    Skus <- MCSkus
    Warehouses <- MCWarehouses
    Lots <- MCLots
    SeedSizes <- MCSeedSizes
    Demands <- MCDemands
    Inbound <- MCInbound
SPECIFICATION Spec
INVARIANTS
    StockConserved
    NeverOversold
    CancelledHoldsNothing
    AnswerMatchesRecord
PROPERTIES
    NoStaleReply
