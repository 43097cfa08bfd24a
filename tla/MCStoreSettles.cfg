\* A Run and a restore of its Session write at the same time, and come to an end.
SPECIFICATION FairSpec
CONSTANTS
    s1 = s1
    s2 = s2
    r1 = r1
    r2 = r2
    r3 = r3
    None = None
    Recovery = Recovery
    Sessions = {s1}
    Runs = {r1}
    MaxEvents = 3
    Reports = {"preparing", "streaming", "completed", "cancelled", "budget-exceeded"}
    Faults = {"io"}
    Patient = FALSE
PROPERTIES
    RunsSettle
    RecoveryEnds
