SPECIFICATION Spec
CONSTANTS
    Clients = {"walker", "other"}
    Contents <- MCContents
    Asks <- MCAsks
    DefaultLimit = 1
    MaxEvents = 1
    MaxFailures = 1
    None = None
    Compiling = Compiling
    Failed = Failed
INVARIANTS
    WalkFindsAll
    CallRunsWhatWasFound
PROPERTIES
    SearchNeedsNoTimer
    PublishedIndexAnswers
    RetriesAreServed
