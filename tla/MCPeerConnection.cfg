SPECIFICATION FairSpec
CONSTANTS
    u1 = u1
    Users <- OneUser
    MaxGen = 2
    MaxSignals = 2
    Signals <- AllSignals
    Faults <- AllFaults
    AppOps <- AllAppOps
INVARIANTS
    OneTerminalStatus
    IInv
PROPERTIES
    ImplementsLifecycle
    RemovedIsReleased
    AppReturns
CHECK_DEADLOCK FALSE
