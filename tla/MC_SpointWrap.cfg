CONSTANTS
    Word = 32
    DiskCapacity = 4
    MaxXfer = 2
    MaxThreads = 1
    TunableChoices <- MCStag
    LiveWrites <- MCSpointPastEnd
    MaxRounds = 1
SPECIFICATION Spec
INVARIANT TraversalTilesRound
