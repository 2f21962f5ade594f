SPECIFICATION ProcessSpec
CONSTANTS
    a = a
    b = b
    s = s
    f = f
    Call = {1, 2}
    Id = {a, b, s}
    KeyOf <- MCKeyOf
    NoKey = NoKey
    Files = {a, b}
    Operations <- MCOperations
    Manifests <- MCManifests
    Nobody = Nobody
    MaxSettlements = 2
    u1 = u1
    u2 = u2
    Caller = {u1, u2}
    Quit = Quit
    MaxAttempts = 1
    MaxEvents = 2
    MaxFaults = 2
    Capacity = 1
    WriterSlots = 1
    Body <- MCBody
    Block = 2
    MaxSequence = 9
    WriteBuffer = 2
    Failures = {}
    FaultPlans <- NoFaults
    MaxLines = 2
    MaxChanges = 1
    MaxOpens = 3
    ChannelCapacity = 2
    BatchRecords = 2
    SyncEvery = 3
    StorageLimit = 3
    MaxRecovery = 1
INVARIANTS OneCapturePerKey CaptureIsRecorded ManifestAgreesAlone
INVARIANTS ShutdownAccounts NothingRepeated
PROPERTIES CallsSettle CallsAnswered StartsSettle NeverRefused
PROPERTY QuietTailCommitted
CHECK_DEADLOCK FALSE
