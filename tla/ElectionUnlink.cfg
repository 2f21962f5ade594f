SPECIFICATION Spec
CONSTANTS
    w1 = w1
    w2 = w2
    c1 = c1
    c2 = c2
    c3 = c3
    Window = {w1}
    Child = {c1, c2}
    NoOne = NoOne
INVARIANT ListenerReachable
