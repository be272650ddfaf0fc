\* Two requests at a time over four orders of one user at one price.
CONSTANTS
    c1 = c1
    c2 = c2
    u1 = u1
    u2 = u2
    NoOrder = NoOrder
    Clients = {c1, c2}
    Users = {u1}
    MaxOrders = 4
    Prices = {2}
    Qtys = {1, 2}
    Tifs = {"GTC"}
    FeeBps = {0}
    DemoPrices = {}
    BaseFunds = 2
    QuoteFunds = 4
SPECIFICATION Spec
SYMMETRY ClientSymmetry
INVARIANTS
    NoLockCycle
CHECK_DEADLOCK FALSE
