SPECIFICATION FairSpec
CONSTANTS
    Invocations = {i1, i2}
    Jobs = {hourlyJob, instantJob}
    Windowed = {hourlyJob}
    StaleUnits = 3
    MaxWindow = 1
    NoKey = NoKey
INVARIANTS
    TypeOK
    MutualExclusion
    OrphanedOnlyAfterMissedTicks
    NoHeartbeatAfterStop
PROPERTIES
    LedgerSpec
    AbandonedRowsRecovered
CHECK_DEADLOCK FALSE
