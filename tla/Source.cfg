SPECIFICATION SourceSpec
CONSTANTS
    f1 = f1
    f2 = f2
    r1 = r1
    Caller = {u1}
    Quit = Quit
    Nobody = Nobody
    MaxAttempts = 2
    MaxEvents = 1
    MaxFaults = 2
    Capacity = 1
    WriterSlots = 1
    Feeder = {f1, f2}
    Reader = {r1}
    Inode = {1}
    MaxLength = 1
    ReadPlans <- MCReadPlans
INVARIANTS OneCapture StoppedIsReleased EndedIsTerminalOrFailed
INVARIANTS NothingAfterShutdown CompleteStopIsWhole OneJournalPerGeneration
INVARIANT DistrustEnds
CHECK_DEADLOCK FALSE
