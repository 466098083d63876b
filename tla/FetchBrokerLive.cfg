SPECIFICATION Spec
CONSTANTS
    c1 = c1
    c2 = c2
    c3 = c3
    c4 = c4
    k1 = k1
    k2 = k2
    a = a
    b = b
    s1 = s1
    s2 = s2
    None = None
    Calls = {c1, c2, c3, c4}
    Keys = {k1, k2}
    Consumers = {a, b}
    Specs = {s1, s2}
    Request <- TwoKeys
CONSTRAINT
    Explored
INVARIANTS
    QuietAfterShutdown
PROPERTIES
    AcquireReturns
    ShutdownEndsEverything
CHECK_DEADLOCK FALSE
