\* A Session with reasoning in two Runs is restored.
SPECIFICATION Spec
CONSTANTS
    s1 = s1
    s2 = s2
    r1 = r1
    r2 = r2
    r3 = r3
    None = None
    Recovery = Recovery
    Sessions = {s1}
    Runs = {r1, r2}
    MaxEvents = 3
    Reports = {"preparing", "streaming", "completed", "cancelled"}
    Faults = {}
    Patient = TRUE
INVARIANTS
    WholeSessionsRestore
