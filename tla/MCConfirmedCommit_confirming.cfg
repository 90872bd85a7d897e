SPECIFICATION Spec
CONSTANTS
    ConfigPaths = {c1}
    StatePaths = {}
    Values = {v1}
    Absent = Absent
    None = None
    Valid <- MCValid
    Seed <- MCSeed
    s1 = s1
    s2 = s2
    Sessions = {s1, s2}
    MaxSeq = 2
    MaxRestarts = 1
    MaxEdits = 1
INVARIANT
    ConfirmingCommitSticks
CHECK_DEADLOCK FALSE
