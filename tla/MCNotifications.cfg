SPECIFICATION FairSpec
CONSTANTS
    s1 = s1
    s2 = s2
    g1 = g1
    Sessions = {s1, s2}
    Streams = {g1}
    Buffer = 1
    MaxEvents = 3
    Casts <- MCCasts
    Watched = {3}
    Trapped = {1, 3}
    None = None
INVARIANTS
    OnceAndInOrder
PROPERTIES
    UpdatesAreFresh
    SlowClientsDoNotDelay
    WritersEnd
    ServeUnblocks
CHECK_DEADLOCK FALSE
