SPECIFICATION Spec
CONSTANTS
    Session = "session"
    Listeners = {l1, l2}
    Posts = {p1, p2}
    Others = {q}
    Configs <- MCConfigs
    Default <- MCDefault
    MaxEvents = 1
    Outlived = {"prompts", "call", "other"}
    None = None
SYMMETRY Symmetry
INVARIANTS
    QuietClientIsCurrent
    ServedBySelection
PROPERTIES
    NoticesMeanChanges
