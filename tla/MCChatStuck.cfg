SPECIFICATION FairSpec
CONSTANTS
    s1 = s1
    s2 = s2
    s3 = s3
    NoSession = NoSession
    Sessions <- TwoSessions
    Prior <- OneSaved
    Opened <- OnlyFresh
    Legacy = {}
    Intentions = {"submit", "list-sessions", "cancel"}
    MaxRequests = 2
    MaxQueued = 2
    MaxEvents = 1
    MaxPosted = 1
    RunEnds = {"completed"}
PROPERTIES
    SubmitIsAnswered
CHECK_DEADLOCK FALSE
