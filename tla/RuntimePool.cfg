SPECIFICATION Spec
CONSTANTS
    Callers = {"c1", "c2", "c3"}
    Sessions = {"drained", "abrupt"}
    Components = {"A", "B"}
    Wants <- MCWants
    Draining = {"drained"}
    MaxCloseFailures = 1
    Pool = Pool
    None = None
INVARIANTS
    UsersHoldOpenRuntime
    OneRuntimePerKey
    NoRuntimeLost
    CloseEndsRuntimes
    UnreadyEntriesOpen
    OpenRuntimeIsBound
PROPERTIES
    EndedSessionReleased
CHECK_DEADLOCK FALSE
