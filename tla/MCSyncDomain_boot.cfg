SPECIFICATION DomainSpec
CONSTANTS
    Links = {l1}
    Modes = {"slave"}
    Buffer = 1
    MaxHoldovers = 1
    None = None
    Sources <- MCSources
    MaxEdits = 2
    MaxRestarts = 1
INVARIANT CommittedLoads
