CONSTANTS
    MaxFrames = 3
    LastPacket <- MCLastPacket
    MaxNackPackets = 1
    MaxFaults = 1
SPECIFICATION Spec
INVARIANTS
    NackListIsSound
    AssemblyIsSound
PROPERTIES
    GapsAreAccountedFor
    PendingFramesDrain
    KeyFrameIsRequested
