SPECIFICATION FairSpec
CONSTANTS
    MaxFaults = 3
    Faults <- AllFaults
INVARIANTS
    EndpointIsOwned
    NothingAfterShutdown
PROPERTIES
    ReconnectProceeds
CHECK_DEADLOCK FALSE
