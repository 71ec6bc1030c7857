SPECIFICATION Spec
CONSTANTS
    Tokens = {t1, t2}
    Passwords = {p1, p2}
    Requests = {r1, r2}
    NoToken = NoToken
    NoPassword = NoPassword
SYMMETRY Symmetry
INVARIANTS
    TypeOK
    UsableLinksOverlap
PROPERTIES
    AccountBookSpec
    ResetEndsOlderLinks
CHECK_DEADLOCK FALSE
