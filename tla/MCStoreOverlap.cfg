\* A Run starts or a restore begins while a Run of the same Session still settles.
SPECIFICATION Spec
CONSTANTS
    s1 = s1
    s2 = s2
    r1 = r1
    r2 = r2
    r3 = r3
    None = None
    Recovery = Recovery
    Sessions = {s1}
    Runs = {r1, r2}
    MaxEvents = 2
    Reports = {"preparing", "streaming", "completed", "cancelled"}
    Faults = {}
    Patient = FALSE
INVARIANTS
    SettledSessionsAgree
