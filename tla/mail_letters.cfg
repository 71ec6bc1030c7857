SPECIFICATION Spec
CONSTANTS
    Notices = {}
    Letters = {l1, l2, l3}
    Recoveries = {r1, r2}
    MaxAttempts = 3
    MaxCalls = 2
    NoMail = NoMail
CONSTRAINT TwoAtATime
SYMMETRY Symmetry
INVARIANTS
    CancelledLettersReplaced
PROPERTIES
    OneTimeLinksSpec
CHECK_DEADLOCK FALSE
