SPECIFICATION FairSpec
CONSTANTS
    Requests = {q1, q2}
    Runs = {p1}
    Lookups = {l1}
    Refreshes = {b1}
    Sessions = {s1}
    Stores = {main, other}
    Default = main
    MaxComers = 2
    MaxLingering = 1
    None = None
INVARIANTS
    NothingLeftOpen
PROPERTIES
    ImplementsDrain
    CloseEnds
CHECK_DEADLOCK FALSE
