CONSTANTS
    r1 = r1
    Runs = {r1}
    Metered = {r1}
    Streams = {"client"}
    Follows <- FollowsOne
    FirstIds = {0, 1, 5}
    MaxSeq = 3
    MaxLog = 2
    MaxLosses = 3
SPECIFICATION FairStreams
CHECK_DEADLOCK FALSE
INVARIANTS
    StreamSound
PROPERTIES
    ClientServed
