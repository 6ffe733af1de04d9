CONSTANTS
    Word = 32
    DiskCapacity = 2
    MaxXfer = 2
    MaxThreads = 1
    TunableChoices <- MCOne
    LiveWrites <- NoLiveWrites
    MaxRounds = 1
SPECIFICATION Spec
PROPERTY ActivationLiveness
