SPECIFICATION Spec
CONSTANTS
    w1 = w1
    Window = {w1}
    Connection = {1, 2}
    MaxViewers = 2
PROPERTY StaysWhileWatched
CHECK_DEADLOCK FALSE
