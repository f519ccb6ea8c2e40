SPECIFICATION ProbingSpec
CONSTANTS
    kMaxWaitingTimeForProbingResult = 1
    kBitrateDropTimeout = 2
    kAlrEndedTimeout = 1
    kMinTimeBetweenAlrProbes = 2
    DirectRepeatPeriod = 3
    RelayRepeatPeriod = 2
    DirectAlrInterval = 2
    RelayAlrInterval = 3
    DirectStart = 25
    RelayStart = 15
    MaxRate = 200
    Rates = {5, 60, 180}
    MaxChanges = 4
INVARIANT ProbesAreRestrained
PROPERTY ProbingGoesOn
