SPECIFICATION Spec
CONSTANTS
    c1 = c1
    c2 = c2
    c3 = c3
    k1 = k1
    a = a
    b = b
    s1 = s1
    s2 = s2
    None = None
    Calls = {c1, c2}
    Keys = {k1}
    Consumers = {a, b}
    Specs = {s1, s2}
    AttemptLimit = 1
    RefreshLimit = 1
    Request <- TwoCallers
PROPERTIES
    AcquireSettles
    ShutdownEndsEverything
CHECK_DEADLOCK FALSE
