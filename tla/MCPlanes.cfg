SPECIFICATION Spec
CONSTANTS
    a = a
    b = b
    s = s
    v1 = v1
    v2 = v2
    e1 = e1
    e2 = e2
    r1 = r1
    r2 = r2
    c1 = c1
    ConfigPaths <- MCConfigPaths
    StatePaths <- MCStatePaths
    Values <- MCValues
    Absent = Absent
    Valid <- MCValid
    Seed <- MCSeed
    Editors = {e1, e2}
    Readers = {r1, r2}
    Clients = {c1}
    Casts <- MCCasts
    MaxWrites = 3
    None = None
SYMMETRY Symmetric
INVARIANTS
    IndexIsFresh
PROPERTIES
    EditsSerialize
    TagMovesWithConfig
CHECK_DEADLOCK FALSE
