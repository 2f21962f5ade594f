CONSTANTS
    Body <- MCBody
    Block = 4
    MaxSequence = 9
    WriteBuffer = 2
    Failures = {"kill", "powerloss", "io"}
    FaultPlans <- SomeFaults
    MaxLines = 2
    MaxChanges = 1
    MaxOpens = 3
    ChannelCapacity = 2
    BatchRecords = 2
    SyncEvery = 2
    StorageLimit = 3
    MaxRecovery = 2
SPECIFICATION Spec
INVARIANTS CursorCovered NoGap PublishedReadable
CHECK_DEADLOCK FALSE
