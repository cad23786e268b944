SPECIFICATION Spec
CHECK_DEADLOCK FALSE
SYMMETRY MCSymmetry
CONSTANTS
    t1 = t1
    t2 = t2
    t3 = t3
    NoThread = NoThread
    Thread = {t1, t2}
    TypeOf <- MCOneType
    LastType = 2
    Debug = {TRUE, FALSE}
    Calls = {"terminate", "send", "pause", "start", "shutdown", "close", "signal"}
    MaxRuns = 2
    MaxCalls = 2
INVARIANTS
    TypeOK
    HandlerHasWorker
    StopHoldsItsThreads
