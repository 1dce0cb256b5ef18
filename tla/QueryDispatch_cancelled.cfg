CONSTANTS
    c1 = c1
    c2 = c2
    c3 = c3
    q1 = q1
    q2 = q2
    Candidates = {c1, c2, c3}
    Keys = {q1, q2}
    QueryOf <- TwoQueries
    Dimensions = {"search_calls", "tokens"}
    Limit <- Budget
    Estimates <- OneGuess
    MaxConcurrency = 2
    Rounds = 1
SPECIFICATION DispatchSpec
CHECK_DEADLOCK FALSE
INVARIANTS
    CompletedSearchesCharged
