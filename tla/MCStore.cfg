SPECIFICATION Spec
CONSTANTS
    c1 = c1
    s1 = s1
    v1 = v1
    v2 = v2
    Absent = Absent
    NoFile = NoFile
    Truncated = Truncated
    None = None
    ConfigPaths = {c1}
    StatePaths = {s1}
    Values = {v1, v2}
    Valid <- MCValid
    Seed <- MCSeed
    MaxCrashes = 1
INVARIANTS
    CandidateIsRunningPlusPending
    StartupFileSafe
PROPERTIES
    CommitKeepsRunningWrites
    RestartRecoversAcknowledged
CHECK_DEADLOCK FALSE
