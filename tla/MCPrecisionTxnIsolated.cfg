SPECIFICATION Spec
CONSTANTS
    t1 = t1
    t2 = t2
    p1 = p1
    p2 = p2
    c1 = c1
    c2 = c2
    Txns = {t1, t2}
    Policies = {p1, p2}
    Contexts = {c1, c2}
    InitPolicy = p1
    WorkerContext = c1
    MaxEpoch = 4
    MaxActive = 1
    Absent = Absent
    Unset = Unset
PROPERTY IsolatedWorkerIsPaused
CHECK_DEADLOCK FALSE
