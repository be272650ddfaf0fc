\* One request at a time.
CONSTANTS
    c1 = c1
    c2 = c2
    u1 = u1
    u2 = u2
    NoOrder = NoOrder
    Clients = {c1}
    Users = {u1, u2}
    MaxOrders = 3
    Prices = {1, 2}
    Qtys = {1, 2}
    Tifs = {"GTC", "IOC", "FOK", "POST_ONLY"}
    FeeBps = {0}
    DemoPrices = {}
    BaseFunds = 2
    QuoteFunds = 4
SPECIFICATION Spec
SYMMETRY UserSymmetry
INVARIANTS
    TypeOK
    HoldsBackLiveOrders
    NonNegativeBalances
    BookUncrossed
PROPERTIES
    FokAllOrNothing
    PriceTimePriority
    ImplementsLifecycle
CHECK_DEADLOCK FALSE
