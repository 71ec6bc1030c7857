SPECIFICATION FairSpec
CONSTANTS
    Callers = {w1, w2}
    FailureThreshold = 2
    FailureWindow = 4
    OpenDuration = 2
    ProbeTimeout = 2
    Grace = 4
    RoundTime = 5
    MaxRetries = 1
INVARIANTS
    TypeOK
    OnlyLatecomersBesideProbe
PROPERTIES
    ForgottenInSilence
    CircuitCloses
