\* The user cancels a Run that waits for a decision.
SPECIFICATION Spec
CONSTANTS
    r1 = r1
    r2 = r2
    rt = rt
    None = None
    cUnknown = cUnknown
    cRead = cRead
    cNetwork = cNetwork
    cFile = cFile
    cCommand = cCommand
    cMcp = cMcp
    Runtimes = {rt}
    Runs = {r1}
    RuntimeOf <- SameRuntime
    Calls = {cCommand}
    Kind <- KindOf
    MaxToolSteps = 2
    RepetitionThreshold = 2
    MaxRetries = 1
PROPERTIES
    CancelWhileAwaitingCancels
