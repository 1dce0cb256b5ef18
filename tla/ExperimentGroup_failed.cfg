CONSTANTS
    r1 = r1
    r2 = r2
    Order <- ThreeKeys
    ArmOf <- TwoArms
    Receipts = {r1, r2}
    MaxFaults = 0
    MaxCrashes = 1
    MaxCommands = 2
SPECIFICATION Spec
CHECK_DEADLOCK FALSE
INVARIANTS
    FailedKeepsNoSidecar
