\* Three tasks over two keys, under fairness.
CONSTANTS
    t1 = t1
    t2 = t2
    t3 = t3
    k1 = k1
    k2 = k2
    None = None
    Keys = {k1, k2}
    Tasks = {t1, t2, t3}
SPECIFICATION FairSpec
INVARIANTS
    InOrder
PROPERTIES
    ImplementsQueues
    TasksEnd
CHECK_DEADLOCK FALSE
