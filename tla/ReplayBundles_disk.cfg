CONSTANTS
    w1 = w1
    w2 = w2
    k1 = k1
    k2 = k2
    q1 = q1
    Writers = {w1, w2}
    RunOf <- OneRun
    Calls = {k1, k2}
    By <- ByTheFirst
    Requests = {q1}
    Results = {"hit"}
    Failures = {"fail"}
    MaxFaults = 2
    MaxCrashes = 1
    r1 = r1
    r2 = r2
    f1 = f1
    f2 = f2
    p1 = p1
    p2 = p2
    v1 = v1
    v2 = v2
    Runs = {r1, r2}
    Profiles = {f1, f2}
    HitLists <- Hits
    Pages = {p1, p2}
    Versions = {v1, v2}
    Questions = {"s1", "s2"}
    TypeOf <- Types
    MaxWriteFaults = 1
    MaxDeaths = 1
SPECIFICATION Scenes
SYMMETRY Symmetry
CHECK_DEADLOCK FALSE
INVARIANTS
    BundleSound
    LeftoverIsKnown
    StoresSound
PROPERTIES
    BundleStands
