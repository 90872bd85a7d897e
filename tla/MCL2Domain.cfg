SPECIFICATION L2Spec
CONSTANTS
    Stations = {m1, m2}
    NumPorts = 2
    Vlans <- MCVlans
    MaxEntries = 1
    AgingTime = 2
    Second = 2
    TickInterval = 3
    MaxGap = 4
    Window = 2
    Threshold = 4
    Storms <- MCStorms
    Budgets <- MCBudgets
    None = None
    STPPorts = {p1, p2}
    EdgePorts = {p2}
    Self <- MCSelf
    Others <- MCOthers
    MaxEvents = 3
    MaxSTPEdits = 1
    LocalPorts = {l1, l2}
    TTLs <- MCTTLs
    MaxNeighborOps = 2
    MaxLLDPEdits = 1
INVARIANTS
    TableAccounted
    StormControlled
    OneRootPort
    TimerMatchesState
    ValidUnlessTorn
PROPERTIES
    StaticStays
    ExpiresNotEarly
    DynamicEntriesExpire
    LearningEnds
    NeighborsRefreshed
