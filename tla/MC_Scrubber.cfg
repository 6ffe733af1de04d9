CONSTANTS
    Word = 32
    DiskCapacity = 5
    MaxXfer = 1
    MaxThreads = 2
    TunableChoices <- MCRounds
    LiveWrites <- MCLiveWrites
    MaxRounds = 1
    FixedMinCap <- MCFixedMinCap
    FixedTop <- MCFixedTop
    FixedStride <- MCFixedStride
    FixedProbes <- MCFixedProbes
SPECIFICATION Spec
INVARIANT TypeOK
INVARIANT AvailableBoundedByIdle
INVARIANT TraversalTilesRound
PROPERTY RoundTerminates
PROPERTY RefinesLifecycle
