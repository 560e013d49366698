SPECIFICATION Spec
CONSTANTS
    Getters = {g1, g2}
    Refreshers = {r1}
    MaxChanges = 2
    MaxEvents = 3
    Configs <- SearchConfigs
    None = None
CHECK_DEADLOCK FALSE
INVARIANT GetReturnsCatalogOrError
