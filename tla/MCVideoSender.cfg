SPECIFICATION Spec
CONSTANTS
    SeqSpan = 8
    kMaxCapacity = 3
    kMaxNacksPerTask = 1
    FirstSeqs <- MCFirstSeqs
    PktsPerFrame = 2
    MaxFrames = 2
    MaxNacks = 2
    MaxFirs = 1
    MaxNackList = 1
    MaxFaults = 1
INVARIANTS RepairIsSound SkipsOnlyToKeyFrames KeyRequestIsHeld
PROPERTIES NacksAreServed
