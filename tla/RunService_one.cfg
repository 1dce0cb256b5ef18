CONSTANTS
    r1 = r1
    r2 = r2
    r3 = r3
    Runs = {r1}
    Metered = {r1}
    Priced = {r1}
    Capacity = 1
    MaxEvents = 2
    MaxFaults = 2
    MaxRestarts = 2
    MaxCancels = 2
SPECIFICATION FairSpec
CHECK_DEADLOCK FALSE
INVARIANTS
    TypeOK
    EventLogSound
    AnnouncedIsAccounted
    UnknownBillStands
    AckedCancelHonoured
PROPERTIES
    CoreRunsOnce
    LifecycleContract
    ShutdownReturns
    RunEnds
