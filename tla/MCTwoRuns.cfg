\* Two Runs started on one Runtime, each with one Tool step and its approval.
SPECIFICATION Spec
CONSTANTS
    r1 = r1
    r2 = r2
    rt = rt
    None = None
    cUnknown = cUnknown
    cRead = cRead
    cNetwork = cNetwork
    cFile = cFile
    cCommand = cCommand
    cMcp = cMcp
    Runtimes = {rt}
    Runs = {r1, r2}
    RuntimeOf <- SameRuntime
    Calls = {cFile}
    Kind <- KindOf
    MaxToolSteps = 1
    RepetitionThreshold = 2
    MaxRetries = 0
INVARIANTS
    OneOwner
