SPECIFICATION IceSpec
CONSTANTS
    Candidates = {1, 2}
    MaxPending = 2
    JoinLimit = 2
    MaxLost = 1
    MaxFailures = 1
INVARIANTS CandidatesAreSound SettledIsMatched
PROPERTIES JoinsAreMatched
CHECK_DEADLOCK FALSE
