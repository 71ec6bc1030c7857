SPECIFICATION FairSpec
CONSTANTS
    Clauses = {c1}
    Workers = {w1, w2}
    Backfillers = {b1}
    MaxAttempts = 2
    Limit <- MCLimit
    Estimate = 2
    Actuals = {1}
    Earlier = {0, 1}
    MaxVersions = 2
    NoClause = NoClause
INVARIANTS
    TypeOK
    InFlightWithinBudget
    HeadroomReturned
PROPERTIES
    ClauseIndexSpec
    JobsComeToRest
CHECK_DEADLOCK FALSE
