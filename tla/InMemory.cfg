\* Two requests at a time.
CONSTANTS
    c1 = c1
    c2 = c2
    u1 = u1
    NoOrder = NoOrder
    Clients = {c1, c2}
    Users = {u1}
    MaxOrders = 3
    Prices = {1}
    Qtys = {1, 2}
    Tifs = {"GTC", "IOC", "FOK"}
    FeeBps = {0}
    DemoPrices = {}
    BaseFunds = 2
    QuoteFunds = 2
SPECIFICATION Spec
SYMMETRY ClientSymmetry
INVARIANTS
    NothingOfferedTwice
    BookUncrossed
    NoStandstill
CHECK_DEADLOCK FALSE
