SPECIFICATION Spec
CONSTANTS
    Users = {alice, bob}
    Invitations = {v1, v2}
    Requests = {r1, r2}
    MaxResends = 1
    NoUser = NoUser
    NoInvitation = NoInvitation
INVARIANTS
    TypeOK
PROPERTIES
    LastOwnerLostOnlyInOverlap
    RosterSpec
SYMMETRY Symmetry
CHECK_DEADLOCK FALSE
