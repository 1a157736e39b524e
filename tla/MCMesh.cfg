CONSTANTS
    order = order
    basket = basket
    stockId = stockId
    payId = payId
    created = created
    reserved = reserved
    refused = refused
    charged = charged
    overcharged = overcharged
    declined = declined
    customer = customer
    key1 = key1
    key2 = key2
    key3 = key3
    None = None
    Orders = {order}
    MessageIds = {created, reserved, refused, charged, overcharged, declined}
    Prices = {1, 2}
    Baskets = {basket}
    Reservations = {stockId}
    Payments = {payId}
    Inbound <- MCInbound
    Skus = {1}
    Warehouses = {1}
    Lots <- MCLots
    SeedSizes = {1}
    Demands <- MCDemands
    DemandOf <- MCDemandOf
    Customers = {customer}
    Keys = {key1, key2, key3}
    MaxSafe = 2
    Credits = {2}
    ReserveRequests <- MCReserveRequests
    ChargeRequests <- MCChargeRequests
SPECIFICATION FairMeshSpec
INVARIANTS
    CompletedIsBacked
    EveryEffectCounts
    HeldStockIsOwed
PROPERTIES
    StockComesBack
    VerdictGetsOut
CHECK_DEADLOCK FALSE
