SPECIFICATION HostSpec
CONSTANTS
    p1 = p1
    p2 = p2
    p3 = p3
    t1 = t1
    t2 = t2
    t3 = t3
    q = q
    Body = {b1}
    Block = 2
    MaxSequence = 7
    WriteBuffer = 3
    Failures = {"kill", "powerloss", "io"}
    Process = {p1, p2, p3}
    Thread <- MCThread
    ProcessOf <- MCProcessOf
    Prober = {q}
    NoOwner = NoOwner
    Window = {w1, w2}
    Child = {c1, c2, c3}
    NoOne = NoOne
    Viewer = {w1, w2, w3}
    Connection = {1, 2, 3, 4}
    MaxViewers = 2
INVARIANTS IdentityNeverReused OneWriter LockBacksWriter OneGuard
INVARIANTS OwnerAccounted WinnerClearsStale WindowsShareOneWorker
INVARIANT AudienceExact
PROPERTIES DurablePrefixKept ImplementsRecordLog
PROPERTY EndsWhenAbandoned
