CONSTANTS
    c1 = c1
    c2 = c2
    c3 = c3
    q1 = q1
    q2 = q2
    Candidates = {c1, c2, c3}
    Keys = {q1, q2}
    QueryOf <- TwoQueries
    Dimensions = {"search_calls", "tokens"}
    Limit <- Budget
    Estimates <- Guesses
    MaxConcurrency = 2
    Rounds = 2
    s1 = s1
    s2 = s2
    a1 = a1
    a2 = a2
    a3 = a3
    a4 = a4
    Subquestions = {s1, s2}
    Askers = {a1, a2, a3, a4}
    AsksFor <- TwoAsked
    None = none
    MaxTokens = 5
    Bound <- Requests
    MostTokens = 3
SPECIFICATION PlanningSpec
CHECK_DEADLOCK FALSE
INVARIANTS
    CapacityKept
    ReservationsReturn
    ChargedOncePerQuery
    PlannerSound
