SPECIFICATION Spec
CHECK_DEADLOCK FALSE
SYMMETRY MCSymmetry
CONSTANTS
    t1 = t1
    t2 = t2
    t3 = t3
    NoThread = NoThread
    Thread = {t1, t2, t3}
    TypeOf <- MCOneType
    LastType = 1
    Debug = {TRUE}
    Calls = {"terminate", "send"}
    MaxRuns = 1
    MaxCalls = 1
INVARIANTS
    LiveThreadsListed
    RunOwnsItsThread
    RemovedOnce
    OnlyStartAndSlotsFail
PROPERTIES
    GoneMeansNoneLeft
    ImplementsRegistry
