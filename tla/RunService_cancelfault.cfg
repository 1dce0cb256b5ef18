CONSTANTS
    r1 = r1
    r2 = r2
    r3 = r3
    Runs = {r1}
    Metered = {r1}
    Priced = {r1}
    Capacity = 1
    MaxEvents = 0
    MaxFaults = 1
    MaxRestarts = 0
    MaxCancels = 1
SPECIFICATION ServiceSpec
CHECK_DEADLOCK FALSE
INVARIANTS
    RecoveryTaskKept
