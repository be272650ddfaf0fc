\* Two requests at a time, partial fills, fees charged.
CONSTANTS
    c1 = c1
    c2 = c2
    u1 = u1
    u2 = u2
    NoOrder = NoOrder
    Clients = {c1, c2}
    Users = {u1}
    MaxOrders = 3
    Prices = {2, 4}
    Qtys = {1, 2}
    Tifs = {"GTC", "IOC"}
    FeeBps = {5000}
    DemoPrices = {}
    BaseFunds = 2
    QuoteFunds = 6
SPECIFICATION Spec
SYMMETRY ClientSymmetry
INVARIANTS
    MoneyConserved
PROPERTIES
    SubmissionsMoveTheirHolds
CHECK_DEADLOCK FALSE
