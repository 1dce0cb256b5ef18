CONSTANTS
    Keys = {"search", "fetch", "draft"}
    Dimensions = {"units", "retries", "seconds"}
    Limit <- SmallBudget
    Searches = {"search"}
    Fetches = {"fetch"}
    Estimate = 2
    MostUnits = 3
    MaxRetries = 2
    Timeout = 2
    Delays = {1}
    RetryAfter = {0}
    MaxRedirects = 1
    MaxBody = 1
    MaxHits = 2
    MaxDeltas = 3
    Slack = 1
SPECIFICATION FairCalls
CHECK_DEADLOCK FALSE
INVARIANTS
    CallKeepsBounds
    ReportedIsCharged
    StreamsAreReplies
PROPERTIES
    CallEnds
