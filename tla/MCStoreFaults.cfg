\* Two Runs of one Session and recovery, with crashes and failing files.
SPECIFICATION Spec
CONSTANTS
    s1 = s1
    s2 = s2
    r1 = r1
    r2 = r2
    r3 = r3
    None = None
    Recovery = Recovery
    Sessions = {s1}
    Runs = {r1, r2}
    MaxEvents = 2
    Reports = {"preparing", "streaming", "completed", "cancelled"}
    Faults = {"crash", "io"}
    Patient = TRUE
INVARIANTS
    LogAndManifest
    SettledRunIsRecorded
    LogsStayReadable
PROPERTIES
    LogOnlyGrows
    OnlyRestingIsInterrupted
