SPECIFICATION FairSpec
CONSTANTS
    Notices = {n1}
    Letters = {l1}
    Recoveries = {}
    MaxAttempts = 3
    MaxCalls = 1
    NoMail = NoMail
INVARIANTS
    TypeOK
    AttemptsBounded
    NoticesNotGivenUpEarly
PROPERTIES
    NoticesSettle
CHECK_DEADLOCK FALSE
