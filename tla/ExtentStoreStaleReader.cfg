SPECIFICATION Spec
CONSTANTS
    e1 = e1
    e2 = e2
    w1 = w1
    w2 = w2
    w3 = w3
    w4 = w4
    r1 = r1
    r2 = r2
    i1 = i1
    i2 = i2
    x = x
    y = y
    None = None
    ShortContent = ShortContent
    Writes = {w1, w2, w3, w4}
    Reads = {r1, r2}
    Extents = {e1, e2}
    Identities = {i1, i2}
    Contents = {x, y}
    WriteSpec <- Asked
    ReadOf <- ReadsOfFirst
    MaxDamages = 1
    MaxCrashes = 1
SYMMETRY
    Symmetry
CONSTRAINT
    Explored
PROPERTIES
    PublishedFileValidates
