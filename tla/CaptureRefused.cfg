CONSTANTS
    Body <- MCBody
    Block = 2
    MaxSequence = 9
    WriteBuffer = 2
    Failures = {"kill"}
    FaultPlans <- KillOnly
    MaxLines = 2
    MaxChanges = 0
    MaxOpens = 3
    ChannelCapacity = 2
    BatchRecords = 2
    SyncEvery = 2
    StorageLimit = 3
    MaxRecovery = 2
SPECIFICATION Spec
PROPERTY NeverRefused
CHECK_DEADLOCK FALSE
