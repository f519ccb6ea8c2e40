SPECIFICATION Spec
CONSTANTS
    m = m
    x = x
    Ssrcs = {m, x}
    SeqSpan = 8
    FirstSeq = 7
    kMaxHistorySize = 2
    MaxPackets = 3
    MaxFails = 1
    MaxReports = 2
SYMMETRY Symmetry
INVARIANTS InFlightIsExact CreditsAreTrue ArrivalsAreReported
CHECK_DEADLOCK FALSE
