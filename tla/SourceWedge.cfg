SPECIFICATION Spec
CONSTANTS
    u1 = u1
    u2 = u2
    Caller = {u1}
    Quit = Quit
    Nobody = Nobody
    MaxAttempts = 1
    MaxEvents = 1
    MaxFaults = 1
    Capacity = 1
    WriterSlots = 1
INVARIANTS EndedIsTerminal
CHECK_DEADLOCK FALSE
