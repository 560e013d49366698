SPECIFICATION Spec
CONSTANTS
    Getters = {g1, g2}
    Refreshers = {r1}
    MaxChanges = 2
    MaxEvents = 3
    Configs <- SafetyConfigs
    None = None
SYMMETRY ActorSymmetry
CHECK_DEADLOCK FALSE
INVARIANTS
    AnnouncedChangeIsServed
    SearchServesNoStaleCatalog
    CredentialOutcomesStayRequestLocal
    AwaitedRefreshIsComing
    NoNoticeLost
PROPERTY CacheKeepsReadyEntries
