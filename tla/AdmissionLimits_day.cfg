CONSTANTS
    r1 = r1
    r2 = r2
    r3 = r3
    Runs = {r1, r2, r3}
    Keys = {"ip", "s1", "s2"}
    KeysOf <- OneAddress
    Tokens <- TokensOf
    Refill <- RefillOf
    Slots = 2
    DailyLimit = 3
    Costs = {1, 2}
    Bills = {0, 3}
    DayLength = 2
    MaxTime = 3
    MaxFaults = 1
SYMMETRY SameSession
SPECIFICATION LimitSpec
CHECK_DEADLOCK FALSE
INVARIANTS
    LimitsKept
    DailyLimitHolds
PROPERTIES
    RefusalIsFree
