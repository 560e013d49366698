SPECIFICATION Spec
CONSTANTS
    Clients = {c1, c2}
    Stores = {dbA, dbB}
    Sessions = {"session"}
    NumStreams = 2
    SessionOf <- OneSession
    Sizes = {1, 3}
    MaxEventBytes = 2
    EventTTL = 1
    MaxEvents = 2
    MaxClock = 1
    SnapshotReads = TRUE
    None = None
SYMMETRY Symmetry
INVARIANTS
    RetainedEventsPresent
    NoOrphanEvents
    LogWithinBound
    NoPartialReplay
    StoreAffinity
PROPERTY
    IndexesOnlyGrow
