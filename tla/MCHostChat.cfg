SPECIFICATION FairSpec
CONSTANTS
    s1 = s1
    s2 = s2
    s3 = s3
    NoSession = NoSession
    Sessions <- ThreeSessions
    Prior <- TwoSaved
    Opened <- OnlyOpen
    Legacy <- SecondSaved
    Intentions <- AllIntents
    MaxRequests = 3
    MaxQueued = 1
    MaxEvents = 1
    MaxPosted = 1
    RunEnds = {"completed", "failed"}
INVARIANTS
    ShownBelongsToSelected
    AnswerFromOneRun
    ActiveRunIsFollowed
    RunsWorkInStoredSessions
    DeletedStaysGone
PROPERTIES
    DeletionIsAnswered
