SPECIFICATION Spec
CONSTANTS
    Tokens = {t1}
    Passwords = {p1, p2}
    Requests = {r1, r2}
    NoToken = NoToken
    NoPassword = NoPassword
PROPERTIES
    ResetsOnce
CHECK_DEADLOCK FALSE
