CONSTANTS
    Word = 32
    DiskCapacity = 4
    MaxXfer = 2
    MaxThreads = 2
    TunableChoices <- MCSeql
    LiveWrites <- NoLiveWrites
    MaxRounds = 1
SPECIFICATION Spec
PROPERTY RoundEnds
