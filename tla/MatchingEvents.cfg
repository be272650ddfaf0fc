\* Two submissions, two restarts, streams that come and go, and a reader of small pages.
CONSTANTS
    o1 = o1
    o2 = o2
    btc = btc
    eth = eth
    sys = sys
    s1 = s1
    r1 = r1
    Submissions = {o1, o2}
    System = System
    Executions <- Outcomes
    SymbolOf <- Book
    AnySymbol = AnySymbol
    Filters = {AnySymbol, btc}
    Notices = {"RUNTIME_STATUS"}
    Streams = {s1}
    Readers = {r1}
    SnapshotSize = 2
    PageSize = 1
    MaxRuns = 3
    MaxNotices = 1
SPECIFICATION Spec
INVARIANTS
    StreamsFollowLog
    RowsAreCommitted
    ReplayComplete
CHECK_DEADLOCK FALSE
