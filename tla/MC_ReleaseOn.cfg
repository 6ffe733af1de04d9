CONSTANTS
    Word = 32
    DiskCapacity = 5
    MaxXfer = 1
    MaxThreads = 1
    TunableChoices <- MCRelease
    LiveWrites <- NoLiveWrites
    MaxRounds = 2
    FixedMinCap <- MCFixedMinCap
    FixedTop <- MCFixedTop
    FixedStride <- MCFixedStride
    FixedProbes <- MCFixedProbes
SPECIFICATION RSpecPut
PROPERTY DestroyedAtUnregistration
CHECK_DEADLOCK FALSE
