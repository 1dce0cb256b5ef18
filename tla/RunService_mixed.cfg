CONSTANTS
    r1 = r1
    r2 = r2
    r3 = r3
    Runs = {r1, r2, r3}
    Metered = {r1, r2}
    Priced = {r1, r2}
    Capacity = 1
    MaxEvents = 0
    MaxFaults = 1
    MaxRestarts = 1
    MaxCancels = 0
SPECIFICATION ServiceSpec
SYMMETRY RunSymmetry
CHECK_DEADLOCK FALSE
INVARIANTS
    CoreIsAdmitted
    GateCountsLeases
    NothingLeftOver
