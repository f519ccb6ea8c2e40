SPECIFICATION Spec
CONSTANTS
    u1 = u1
    Users <- OneUser
    MaxGen = 2
    MaxSignals = 3
    Signals <- JoinLeave
    Faults <- NoFaults
    AppOps <- NoAppOps
INVARIANT
    WantedIsConnected
CHECK_DEADLOCK FALSE
