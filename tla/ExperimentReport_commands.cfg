CONSTANTS
    r1 = r1
    r2 = r2
    Order <- ThreeKeys
    ArmOf <- TwoArms
    Receipts = {r1, r2}
    MaxFaults = 2
    MaxCrashes = 1
    MaxCommands = 3
    Outputs <- ThreeOutputs
    Sampled = {"summary", "confidence"}
    Resamples = {1, 2}
    MaxReports = 3
SYMMETRY Interchangeable
SPECIFICATION ReportSpec
CHECK_DEADLOCK FALSE
INVARIANTS
    PaidAgainForCause
    ReceiptsSound
    SealSound
PROPERTIES
    GroupStands
