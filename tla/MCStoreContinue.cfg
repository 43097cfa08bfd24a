\* A Session whose first Run was interrupted is continued twice.
SPECIFICATION Spec
CONSTANTS
    s1 = s1
    s2 = s2
    r1 = r1
    r2 = r2
    r3 = r3
    None = None
    Recovery = Recovery
    Sessions = {s1}
    Runs = {r1, r2, r3}
    MaxEvents = 1
    Reports = {"preparing", "streaming", "completed", "cancelled"}
    Faults = {}
    Patient = TRUE
INVARIANTS
    WholeSessionsContinue
