\* Three calls over two keys and two payloads, under fairness.
CONSTANTS
    c1 = c1
    c2 = c2
    c3 = c3
    k1 = k1
    k2 = k2
    p1 = p1
    p2 = p2
    Nobody = Nobody
    Calls = {c1, c2, c3}
    Keys = {k1, k2}
    Payloads = {p1, p2}
SPECIFICATION FairSpec
INVARIANTS
    RunsAtMostOnce
    AnswersItsPayload
PROPERTIES
    CallsEnd
CHECK_DEADLOCK FALSE
