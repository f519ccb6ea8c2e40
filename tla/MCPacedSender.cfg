SPECIFICATION PacerSpec
CONSTANTS
    kPausedProcessInterval = 3
    kProbeClusterTimeout = 4
    kMaxPendingProbeClusters = 2
    kMaxEarlyProbeProcessing = 1
    kMaxDebtInTime = 1
    kMaxElapsedTime = 4
    HoldBack = 1
    Burst = 2
    ProbeDelta = 2
    ProbeSize = 1
    ProbeBytes = 2
    ProbeCount = 2
    AllowedProbeDelay = 2
    PacingRate = 2
    PaddingRates = {0, 2}
    LongQueue = 0
    MaxLate = 1
    MaxQueue = 1
    MaxBatch = 1
INVARIANTS TimerIsRight KeepsAlive ProbesMoveOn
PROPERTIES ProcessingEnds
