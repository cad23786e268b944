SPECIFICATION FairSpec
CHECK_DEADLOCK FALSE
CONSTANTS
    t1 = t1
    t2 = t2
    t3 = t3
    NoThread = NoThread
    Thread = {t1, t2}
    TypeOf <- MCTwoTypes
    LastType = 2
    Debug = {TRUE}
    Calls = {"close", "terminate"}
    MaxRuns = 1
    MaxCalls = 1
PROPERTIES
    StopReturns
    TerminatedIsRemoved
