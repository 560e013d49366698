SPECIFICATION FrontendSpec
CONSTANTS
    Calls = {c1, c2}
    Streams = {s1}
    Subscribing = {c1}
    ActivityCounts = {0, 1, 2, 3}
    MaxActivityUpdates = 0
    None = None
CHECK_DEADLOCK FALSE
PROPERTY StreamsKeepProcess
