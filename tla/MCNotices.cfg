CONSTANTS
    order = order
    basket = basket
    stockId = stockId
    payId = payId
    created = created
    refused = refused
    charged = charged
    customer = customer
    key1 = key1
    key2 = key2
    mail = mail
    phone = phone
    thread = thread
    None = None
    Orders = {order}
    MessageIds = {created, refused, charged}
    Prices = {1}
    Baskets = {basket}
    Reservations = {stockId}
    Payments = {payId}
    Inbound <- MCInbound
    Skus = {1}
    Warehouses = {1}
    Lots <- MCLots
    SeedSizes = {1}
    Demands <- MCDemands
    DemandOf <- MCDemandOf
    Customers = {customer}
    Keys = {key1, key2}
    MaxSafe = 1
    Credits = {1}
    ReserveRequests <- MCReserveRequests
    ChargeRequests <- MCChargeRequests
    CustomerOf <- MCCustomerOf
    Addresses = {mail, phone}
    Contacts <- MCContacts
    Threads = {thread}
SPECIFICATION NoticesSpec
INVARIANTS
    CustomerIsTold
CHECK_DEADLOCK FALSE
