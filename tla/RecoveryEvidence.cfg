SPECIFICATION EvidenceSpec
CONSTANTS
    c1 = c1
    c2 = c2
    k1 = k1
    a = a
    b = b
    s1 = s1
    None = None
    Calls = {c1, c2}
    Keys = {k1}
    Consumers = {a, b}
    Specs = {s1}
    AttemptLimit = 2
    RefreshLimit = 1
    Request <- OneKey
INVARIANTS
    RejectsOnlyKnownRaces
    EvidenceTellsTheTruth
    TablesAgree
CONSTRAINT Explored
CHECK_DEADLOCK FALSE
