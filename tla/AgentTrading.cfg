\* Two requests of an agent at a time, two rotations, a mandate of one order a day.
CONSTANTS
    c1 = c1
    c2 = c2
    r1 = r1
    r2 = r2
    n1 = n1
    n2 = n2
    n3 = n3
    h1 = h1
    h2 = h2
    u1 = u1
    m1 = m1
    symbol = symbol
    AnyMarket = AnyMarket
    None = None
    Clients = {c1, c2}
    Rotators = {r1, r2}
    Commands = {n1, n2, n3}
    HumanOrders = {h1, h2}
    Requests = {n1, n2, n3, h1, h2}
    Owner = u1
    Traders = {u1}
    Symbol = symbol
    Markets = {m1}
    MandateRows <- SmallRows
    Limit <- SmallLimit
    MaxMandates = 1
    MaxKeys = 3
    MaxTurns = 3
    ClockErrors = {1}
    Skew = 1
    NonceLife = 2
    DayLength = 3
    WindowLength = 2
    BucketMax = 1
    BucketLife = 2
    MaxTime = 3
SPECIFICATION Spec
SYMMETRY Symmetry
INVARIANTS
    WindowsBounded
    BucketReopens
    ActsOnce
    DailyLimit
    NewestKeyWorks
PROPERTIES
    RevocationsHold
CHECK_DEADLOCK FALSE
