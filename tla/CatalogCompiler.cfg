SPECIFICATION Spec
CONSTANTS
    Underscore = 0
    Forbidden = 99
    Wrapper = 91
    Colon = 90
    AuthTool <- MCAuthTool
    SearchToolName <- MCSearchToolName
    CallToolName <- MCCallToolName
    MaxNameLength = 8
    Nil = Nil
    None = None
    Free = Free
    Stopped = Stopped
    Configs <- MCConfigs
    Names <- MCNames
    URIs <- MCURIs
    Answers <- MCAnswers
    MaxParallel = 2
    PageSize = 2
    Walked = "tools"
    MaxChanges = 1
INVARIANTS
    OutcomeMatchesAnswers
    NarrowingAgrees
    LinksReturnHome
    PagesListOneCatalog
