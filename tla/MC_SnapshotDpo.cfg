CONSTANTS
    Word = 32
    DiskCapacity = 2
    MaxXfer = 2
    MaxThreads = 1
    TunableChoices <- MCOne
    LiveWrites <- MCDpoOff
    MaxRounds = 1
SPECIFICATION Spec
INVARIANT SnapshotIsolation
