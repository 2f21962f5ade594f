SPECIFICATION WindowsSpec
CONSTANTS
    w1 = w1
    w2 = w2
    f = f
    u1 = u1
    u2 = u2
    a = a
    b = b
    Window = {w1, w2}
    Canonical = canon
    ForkOf <- MCForkOf
    Value = {0, 1}
    Plans <- MCPlans
    Capacity = 1
    Nothing = Nothing
    UnionView = {u1, u2}
    UnionWindow <- MCUnionWindow
    UnionPlans <- MCUnionPlans
    Sources <- MCSources
    MaxWindows = 2
    MaxReceipts = 1
    MaxRequests = 5
    MaxStale = 2
CHECK_DEADLOCK FALSE
PROPERTY NoLostUpdate
