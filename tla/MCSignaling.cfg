SPECIFICATION FairSpec
CONSTANTS
    MaxConns = 3
    MaxJoins = 3
    MaxLeaves = 2
INVARIANTS
    SessionIsSound
    ReportedIsCurrent
PROPERTIES
    FateIsFinal
    QueuedJoinIsSettled
CHECK_DEADLOCK FALSE
