SPECIFICATION Spec
CONSTANTS
    Users = {alice, bob}
    Invitations = {v1, v2}
    Requests = {r1, r2}
    MaxResends = 1
    NoUser = NoUser
    NoInvitation = NoInvitation
INVARIANTS
    AlwaysAnOwner
CHECK_DEADLOCK FALSE
