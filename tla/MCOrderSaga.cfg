CONSTANTS
    o1 = o1
    o2 = o2
    p1 = p1
    p2 = p2
    b1 = b1
    r1 = r1
    r2 = r2
    pay1 = pay1
    pay2 = pay2
    None = None
    Orders <- MCOrders
    MessageIds <- MCMessageIds
    Prices <- MCPrices
    Baskets <- MCBaskets
    Reservations <- MCReservations
    Payments <- MCPayments
    Inbound <- MCInbound
SPECIFICATION Spec
INVARIANTS
    EffectsAccounted
    CompensationsJustified
    OneVerdict
    CompletedOnlyWhenPaid
    CustomerToldFirst
PROPERTIES
    DecisionsStick
    ImplementsVerdict
