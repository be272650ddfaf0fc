\* Two requests at a time in every time in force, under fairness.
CONSTANTS
    c1 = c1
    c2 = c2
    u1 = u1
    u2 = u2
    NoOrder = NoOrder
    Clients = {c1, c2}
    Users = {u1}
    MaxOrders = 2
    Prices = {2}
    Qtys = {1}
    Tifs = {"GTC", "IOC", "FOK", "POST_ONLY"}
    FeeBps = {0}
    DemoPrices = {2}
    BaseFunds = 2
    QuoteFunds = 4
SPECIFICATION FairSpec
PROPERTIES
    RequestsEnd
    TimeInForceObeyed
CHECK_DEADLOCK FALSE
