\* A client who comes and goes while an administrator changes modes and flags, or while
\* orders rest, trade and are cancelled; and trades at any time, more of them in a window than
\* are gathered.
CONSTANTS
    btc = btc
    s1 = s1
    SnapshotTrades = 2
    SnapshotTime = 1
    Symbols = {btc}
    Everyone = Everyone
    NoFlags = NoFlags
    Patches <- Switches
    MaxChanges = 3
    Period = 2
    Limit = 2
    TakeTrades = 2
    Streams = {s1}
    Orders = {1, 2, 3}
    SymbolOf <- OneSymbol
    SideOf <- Offers
    PriceOf <- SecondIsBest
    Depths = {1, 2}
    Limits = {1}
    Sinces = {0, 1}
    RawPerLevel = 2
    RawMin = 1
    RawMax = 2
    Prices = {1, 2}
    MaxTrades = 4
    MaxTime = 5
SPECIFICATION MCSpec
INVARIANTS
    StreamsObeyFlags
    LastControlIsCurrent
    SnapshotMissesNothing
    CandlesDescribeTrades
CHECK_DEADLOCK FALSE
