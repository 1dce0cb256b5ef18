CONSTANTS
    d1 = d1
    p1 = p1
    p2 = p2
    NSub = 1
    Docs = {d1}
    Workflows = {"baseline-v1", "research-v1"}
    Metered = {"Search", "DraftReport"}
    Budget = 2
    Estimate = 1
    Usages = {1, 3}
    MaxLag = 1
    MaxFaults = 1
    MaxCrashes = 1
    MaxResumes = 1
    Dests = {p1, p2}
SPECIFICATION CommandSpec
SYMMETRY Places
CHECK_DEADLOCK FALSE
INVARIANTS
    ChargesAreReceipted
    CallPaidAgainForCause
    
    RefusedOnlyBehindFailure
    PublicationSound
PROPERTIES
    JournalKept
