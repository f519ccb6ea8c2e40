SPECIFICATION FairSpec
CONSTANTS
    p1 = p1
    p2 = p2
    w1 = w1
    Producers <- MCProducers
    Workers <- MCWorkers
    MaxPosts = 2
INVARIANTS
    PendingCountsQueue
    NoTaskBehindSleepingWorkers
    RunsInPostOrder
PROPERTIES
    AcceptedTaskRuns
CHECK_DEADLOCK FALSE
