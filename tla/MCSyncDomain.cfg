SPECIFICATION FairSpec
CONSTANTS
    Links = {l1}
    Modes = {"master", "slave"}
    Buffer = 2
    MaxHoldovers = 3
    None = None
    Sources <- MCSources
    MaxEdits = 2
    MaxRestarts = 1
INVARIANTS
    HoldoverBookkeeping
    SelectionIsBest
PROPERTIES
    LateExpiryIsHarmless
    HoldoverEnds
    SelectionSettles
