SPECIFICATION Spec
CHECK_DEADLOCK FALSE
CONSTANTS
    t1 = t1
    t2 = t2
    t3 = t3
    NoThread = NoThread
    Thread = {t1, t2}
    TypeOf <- MCOneType
    LastType = 1
    Debug = {TRUE}
    Calls = {"close", "terminate"}
    MaxRuns = 1
    MaxCalls = 1
INVARIANTS
    StopWaitedForAll
