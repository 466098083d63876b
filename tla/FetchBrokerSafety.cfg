SPECIFICATION SafeSpec
CONSTANTS
    c1 = c1
    c2 = c2
    c3 = c3
    c4 = c4
    k1 = k1
    k2 = k2
    a = a
    b = b
    s1 = s1
    s2 = s2
    None = None
    Calls = {c1, c2, c3, c4}
    Keys = {k1}
    Consumers = {a, b}
    Specs = {s1, s2}
    Request <- OneKey
SYMMETRY
    Symmetry
CONSTRAINT
    Explored
INVARIANTS
    OwnersNeverOverlap
    PlacesAreExclusive
    NoUnwantedWork
    NobodyAbandoned
    PriorityCoversEveryone
PROPERTIES
    ImplementsSingleFlight
CHECK_DEADLOCK FALSE
