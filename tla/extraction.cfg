SPECIFICATION FairSpec
CONSTANTS
    Jobs = {j1}
    Users = {u1, u2}
    MaxAttempts = 2
    MaxEdits = 2
    NoJob = NoJob
INVARIANTS
    TypeOK
    EditsBeforeApplyReadSurvive
PROPERTIES
    ReviewedContractSpec
    LostOnlyInOverlap
    QueuedJobsSettle
CHECK_DEADLOCK FALSE
