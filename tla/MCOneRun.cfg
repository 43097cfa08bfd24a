\* One Run with every kind of Tool: a whole Run from start to terminal status.
SPECIFICATION FairSpec
CONSTANTS
    r1 = r1
    r2 = r2
    rt = rt
    None = None
    cUnknown = cUnknown
    cRead = cRead
    cNetwork = cNetwork
    cFile = cFile
    cCommand = cCommand
    cMcp = cMcp
    Runtimes = {rt}
    Runs = {r1}
    RuntimeOf <- SameRuntime
    Calls = {cUnknown, cRead, cNetwork, cFile, cCommand, cMcp}
    Kind <- KindOf
    MaxToolSteps = 2
    RepetitionThreshold = 2
    MaxRetries = 1
INVARIANTS
    EffectNeedsGrant
    AwaitedIsDecidable
    NoApprovalOutlivesItsStep
    ExceededStopsRun
    IInv
PROPERTIES
    CancelStopsRun
    LegalSession
    LegalApprovals
    RunSettles
