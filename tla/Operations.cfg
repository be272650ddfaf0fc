\* Run after run beside two orders, two defects or failing queries, and a shutdown at any
\* moment.
CONSTANTS
    x1 = x1
    MaxOrders = 2
    Runs = {1}
    TakeOrders = 1
    TakeTrades = 1
    Streams = {x1}
    MaxFaults = 2
SPECIFICATION OpSpec
INVARIANTS
    VerdictsAreRight
PROPERTIES
    NoRunAfterStop
CHECK_DEADLOCK FALSE
