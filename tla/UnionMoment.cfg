SPECIFICATION Spec
CONSTANTS
    w1 = w1
    u1 = u1
    a = a
    b = b
    Window = {w1}
    View = {u1}
    WindowOf <- MCWindowOf
    Sources <- MCSources
    Plans <- MCPlans
    MaxWindows = 1
    MaxReceipts = 1
PROPERTY AttestsOneMoment
CHECK_DEADLOCK FALSE
