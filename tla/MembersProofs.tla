---------------------------- MODULE MembersProofs ----------------------------
(***************************************************************************)
(* The properties of MembersProperties for any number of users,            *)
(* invitations and concurrent requests.                                    *)
(***************************************************************************)
EXTENDS MembersProperties, FiniteSetTheorems, TLAPS

(* A request past its first read knows whom and what it is about.          *)
Known(q) ==
    /\ q.op \in {"change", "remove"} /\ q.phase \in {"read", "counted"}
         => q.target \in Users
    /\ q.op \in {"invite", "accept", "register"} /\ q.phase \in {"read", "counted"}
         => q.target \in Users
    /\ q.op \in {"resend", "revoke", "accept", "register"} /\ q.phase = "read"
         => q.invite \in Invitations
    /\ q.op \in {"accept", "register"} => q.phase = "read"

RequestsKnown == \A r \in Requests : Known(request[r])

(* What an up-to-date request has read of memberships still holds.         *)
Accurate(q) ==
    q.op \in {"change", "remove"} /\ q.fresh =>
      /\ q.phase = "read" => q.seen = member[q.target].role
      /\ q.phase = "counted" => Cardinality(Owners) > 1

ReadsAccurate == \A r \in Requests : Accurate(request[r])

InvitationsAddressed ==
    \A v \in Invitations : invitation[v].state # "none" => invitation[v].email \in Users

(* An acceptance names the email and the role of its invitation.           *)
InvitationsNamed ==
    \A r \in Requests :
        request[r].op \in {"accept", "register"} =>
          LET v == request[r].invite IN
          /\ invitation[v].state # "none"
          /\ invitation[v].email = request[r].target
          /\ invitation[v].role = request[r].to

Inv ==
    /\ TypeOK
    /\ RequestsKnown
    /\ InvitationsAddressed
    /\ InvitationsNamed
    /\ ReadsAccurate

USE UsersAssumption, InvitationsAssumption, MaxResendsAssumption

LEMMA IdleType == Idle \in Request
BY DEF Idle, Request, Roles, OwnerOps

(* Each kind of step preserves the type invariant.                         *)
LEMMA TypeStep == TypeOK /\ RequestsKnown /\ [Next]_vars => TypeOK'
<1> SUFFICES ASSUME TypeOK, RequestsKnown, [Next]_vars PROVE TypeOK'
  OBVIOUS
<1> USE DEF TypeOK
<1>a. \A r \in Requests : End(r) => request' \in [Requests -> Request]
  BY IdleType DEF End
<1>b. \A r \in Requests : EndChanging(r) => request' \in [Requests -> Request]
  <2>1. \A q \in Request : [q EXCEPT !.fresh = FALSE] \in Request BY DEF Request
  <2> QED BY <2>1, IdleType DEF EndChanging
<1>1. ASSUME NEW r \in Requests, NEW a \in Users, NEW op \in OwnerOps, Authorize(r, a, op)
      PROVE  TypeOK'
  <2>1. [Idle EXCEPT !.op = op, !.phase = "authorized", !.actor = a] \in Request
    BY IdleType DEF Request
  <2> QED BY <1>1, <2>1 DEF Authorize
<1>2. ASSUME NEW r \in Requests, NEW u \in Users, NEW to \in Roles, ReadTarget(r, u, to)
      PROVE  TypeOK'
  <2>1. member[u].role \in Roles /\ member[u].seat \in Nat
    BY <1>2 DEF ReadTarget, Found, Member
  <2> DEFINE q == [request[r] EXCEPT !.phase = "read", !.target = u, !.seat = member[u].seat,
                                     !.seen = member[u].role, !.to = to, !.fresh = TRUE]
  <2>2. q \in Request BY <2>1 DEF Request
  <2>3. request' = [request EXCEPT ![r] = q] /\ UNCHANGED <<member, account, invitation>>
    BY <1>2 DEF ReadTarget
  <2> QED BY <2>2, <2>3
<1>3. ASSUME NEW r \in Requests, NEW u \in Users, NEW to \in Roles, CheckNotMember(r, u, to)
      PROVE  TypeOK'
  <2>1. [request[r] EXCEPT !.phase = "read", !.target = u, !.to = to] \in Request
    BY DEF Request
  <2> QED BY <1>3, <2>1 DEF CheckNotMember
<1>4. ASSUME NEW r \in Requests, NEW v \in Invitations, CreateInvitation(r, v)
      PROVE  TypeOK'
  <2>1. request[r].target \in Users /\ request[r].to \in Roles
    BY <1>4 DEF CreateInvitation, RequestsKnown, Known, Request
  <2>2. invitation' \in [Invitations -> Invitation]
    BY <1>4, <2>1 DEF CreateInvitation, Invitation
  <2> QED BY <1>4, <2>2, <1>a DEF CreateInvitation
<1>5. ASSUME NEW r \in Requests, NEW v \in Invitations, ReadInvitation(r, v)
      PROVE  TypeOK'
  <2>1. [request[r] EXCEPT !.phase = "read", !.invite = v] \in Request BY DEF Request
  <2> QED BY <1>5, <2>1 DEF ReadInvitation
<1>6. ASSUME NEW r \in Requests, NEW v \in Invitations, OpenInvitation(r, v)
      PROVE  TypeOK'
  <2>1. invitation[v].email \in Users \cup {NoUser} /\ invitation[v].role \in Roles
    BY DEF Invitation
  <2> DEFINE op == IF invitation[v].email \in account THEN "accept" ELSE "register"
             q == [Idle EXCEPT !.op = op, !.phase = "read", !.invite = v,
                               !.target = invitation[v].email, !.to = invitation[v].role]
  <2>2. op \in {"accept", "register"} OBVIOUS
  <2>3. request' = [request EXCEPT ![r] = q] BY <1>6 DEF OpenInvitation
  <2> HIDE DEF op
  <2>4. q \in Request BY <2>1, <2>2, IdleType DEF Request
  <2> QED BY <1>6, <2>3, <2>4 DEF OpenInvitation
<1>7. ASSUME NEW r \in Requests, CountOwners(r) PROVE TypeOK'
  <2>1. [request[r] EXCEPT !.phase = "counted", !.fresh = TRUE] \in Request
    BY DEF Request
  <2> QED BY <1>7, <1>a, <2>1 DEF CountOwners
<1>8. ASSUME NEW r \in Requests, WriteMember(r) PROVE TypeOK'
  <2>1. request[r].to \in Roles BY DEF Request
  <2>2. member' \in [Users -> Member] BY <1>8, <2>1 DEF WriteMember, Member
  <2> QED BY <1>8, <2>2, <1>a, <1>b DEF WriteMember
<1>9. ASSUME NEW r \in Requests, CheckNoLiveInvitation(r) PROVE TypeOK'
  <2>1. [request[r] EXCEPT !.phase = "counted"] \in Request BY DEF Request
  <2> QED BY <1>9, <1>a, <2>1 DEF CheckNoLiveInvitation
<1>10. ASSUME NEW r \in Requests, RotateInvitationToken(r) PROVE TypeOK'
  <2> DEFINE v == request[r].invite
  <2>1. v \in Invitations BY <1>10 DEF RotateInvitationToken, RequestsKnown, Known
  <2>2. invitation[v].token + 1 \in 0..MaxResends
    BY <1>10, <2>1 DEF RotateInvitationToken, Invitation
  <2>3. invitation' \in [Invitations -> Invitation]
    BY <1>10, <2>1, <2>2 DEF RotateInvitationToken, Invitation
  <2> QED BY <1>10, <2>3, <1>a DEF RotateInvitationToken
<1>11. ASSUME NEW r \in Requests, RevokeInvitation(r) PROVE TypeOK'
  <2>1. \A v \in Invitations : [invitation[v] EXCEPT !.state = "revoked"] \in Invitation
    BY DEF Invitation
  <2>2. invitation' \in [Invitations -> Invitation] BY <1>11, <2>1 DEF RevokeInvitation
  <2> QED BY <1>11, <1>a, <2>2 DEF RevokeInvitation
<1>12. ASSUME NEW r \in Requests, AcceptInvitation(r) PROVE TypeOK'
  <2>1. request[r].target \in Users /\ request[r].to \in Roles
    BY <1>12 DEF AcceptInvitation, RequestsKnown, Known, Request
  <2>2. member[request[r].target].seat + 1 \in Nat BY <2>1 DEF Member
  <2>3. member' \in [Users -> Member]
    BY <1>12, <2>1, <2>2 DEF AcceptInvitation, Member, Roles
  <2>4. invitation' \in [Invitations -> Invitation]
    BY <1>12 DEF AcceptInvitation, Invitation
  <2>5. account' \subseteq Users BY <1>12, <2>1 DEF AcceptInvitation
  <2> QED BY <1>12, <2>3, <2>4, <2>5, <1>a, <1>b DEF AcceptInvitation
<1>13. ASSUME NEW r \in Requests, Abandon(r) PROVE TypeOK'
  BY <1>13, <1>a DEF Abandon
<1>14. ASSUME NEW v \in Invitations, Expire(v) PROVE TypeOK'
  BY <1>14 DEF Expire, Invitation
<1>15. ASSUME NEW u \in Users, RegisterUser(u) PROVE TypeOK'
  BY <1>15 DEF RegisterUser
<1>16. CASE UNCHANGED vars BY <1>16 DEF vars
<1> QED
  BY <1>1, <1>2, <1>3, <1>4, <1>5, <1>6, <1>7, <1>8, <1>9, <1>10, <1>11, <1>12,
     <1>13, <1>14, <1>15, <1>16 DEF Next

(* Every step leaves the requests it does not change known, and the        *)
(* request it moves is known in its new phase.                             *)
LEMMA RequestsKnownStep ==
    TypeOK /\ RequestsKnown /\ InvitationsAddressed /\ [Next]_vars => RequestsKnown'
<1> SUFFICES ASSUME TypeOK, RequestsKnown, InvitationsAddressed, [Next]_vars
             PROVE  RequestsKnown'
  OBVIOUS
<1> USE DEF TypeOK
<1>a. Known(Idle) BY DEF Known, Idle
<1>b. \A r \in Requests : End(r) => RequestsKnown' BY <1>a DEF End, RequestsKnown
<1>c. \A r \in Requests : EndChanging(r) => RequestsKnown'
  <2>1. \A q \in Request : Known(q) => Known([q EXCEPT !.fresh = FALSE])
    BY DEF Known, Request
  <2> QED BY <1>a, <2>1 DEF EndChanging, RequestsKnown
<1>d. ASSUME NEW r \in Requests, NEW q, Known(q), request' = [request EXCEPT ![r] = q]
      PROVE  RequestsKnown'
  BY <1>d DEF RequestsKnown
<1>1. ASSUME NEW r \in Requests, NEW a \in Users, NEW op \in OwnerOps, Authorize(r, a, op)
      PROVE  RequestsKnown'
  <2>1. Known([Idle EXCEPT !.op = op, !.phase = "authorized", !.actor = a])
    BY DEF Known, Idle, OwnerOps
  <2> QED BY <1>1, <1>d, <2>1 DEF Authorize
<1>2. ASSUME NEW r \in Requests, NEW u \in Users, NEW to \in Roles, ReadTarget(r, u, to)
      PROVE  RequestsKnown'
  <2>1. Known([request[r] EXCEPT !.phase = "read", !.target = u, !.seat = member[u].seat,
                                 !.seen = member[u].role, !.to = to, !.fresh = TRUE])
    BY <1>2 DEF ReadTarget, Known, Request
  <2> QED BY <1>2, <1>d, <2>1 DEF ReadTarget
<1>3. ASSUME NEW r \in Requests, NEW u \in Users, NEW to \in Roles, CheckNotMember(r, u, to)
      PROVE  RequestsKnown'
  <2>1. Known([request[r] EXCEPT !.phase = "read", !.target = u, !.to = to])
    BY <1>3 DEF CheckNotMember, Known, Request
  <2> QED BY <1>3, <1>d, <2>1 DEF CheckNotMember
<1>4. ASSUME NEW r \in Requests, NEW v \in Invitations, ReadInvitation(r, v)
      PROVE  RequestsKnown'
  <2>1. Known([request[r] EXCEPT !.phase = "read", !.invite = v])
    BY <1>4 DEF ReadInvitation, Known, Request
  <2> QED BY <1>4, <1>d, <2>1 DEF ReadInvitation
<1>5. ASSUME NEW r \in Requests, NEW v \in Invitations, OpenInvitation(r, v)
      PROVE  RequestsKnown'
  <2>1. invitation[v].email \in Users
    BY <1>5 DEF OpenInvitation, Live, InvitationsAddressed
  <2>2. PICK op \in {"accept", "register"} :
          request' = [request EXCEPT ![r] =
                        [Idle EXCEPT !.op = op, !.phase = "read", !.invite = v,
                                     !.target = invitation[v].email,
                                     !.to = invitation[v].role]]
    BY <1>5 DEF OpenInvitation
  <2>3. Known([Idle EXCEPT !.op = op, !.phase = "read", !.invite = v,
                           !.target = invitation[v].email, !.to = invitation[v].role])
    BY <2>1 DEF Known, Idle
  <2> QED BY <1>d, <2>2, <2>3
<1>6. ASSUME NEW r \in Requests, CountOwners(r) PROVE RequestsKnown'
  <2>1. Known([request[r] EXCEPT !.phase = "counted", !.fresh = TRUE])
    BY <1>6 DEF CountOwners, RequestsKnown, Known, Request
  <2> QED BY <1>6, <1>b, <1>d, <2>1 DEF CountOwners
<1>7. ASSUME NEW r \in Requests, CheckNoLiveInvitation(r) PROVE RequestsKnown'
  <2>1. Known([request[r] EXCEPT !.phase = "counted"])
    BY <1>7 DEF CheckNoLiveInvitation, RequestsKnown, Known, Request
  <2> QED BY <1>7, <1>b, <1>d, <2>1 DEF CheckNoLiveInvitation
<1>8. ASSUME NEW r \in Requests,
             \/ WriteMember(r) \/ RotateInvitationToken(r) \/ RevokeInvitation(r)
             \/ AcceptInvitation(r) \/ Abandon(r)
             \/ \E v \in Invitations : CreateInvitation(r, v)
      PROVE  RequestsKnown'
  BY <1>8, <1>b, <1>c DEF WriteMember, RotateInvitationToken, RevokeInvitation,
     AcceptInvitation, Abandon, CreateInvitation
<1>9. ASSUME UNCHANGED request PROVE RequestsKnown'
  BY <1>9 DEF RequestsKnown
<1>10. ASSUME NEW v \in Invitations, Expire(v) PROVE RequestsKnown'
  BY <1>10, <1>9 DEF Expire
<1>11. ASSUME NEW u \in Users, RegisterUser(u) PROVE RequestsKnown'
  BY <1>11, <1>9 DEF RegisterUser
<1>12. CASE UNCHANGED vars BY <1>12, <1>9 DEF vars
<1> QED
  BY <1>1, <1>2, <1>3, <1>4, <1>5, <1>6, <1>7, <1>8, <1>10, <1>11, <1>12 DEF Next

(* The invited email never changes, and nothing returns to "none".         *)
LEMMA InvitationsStep ==
    TypeOK /\ RequestsKnown /\ InvitationsAddressed /\ InvitationsNamed /\ [Next]_vars
      => InvitationsAddressed' /\ InvitationsNamed'
<1> SUFFICES ASSUME TypeOK, RequestsKnown, InvitationsAddressed, InvitationsNamed, [Next]_vars
             PROVE  InvitationsAddressed' /\ InvitationsNamed'
  OBVIOUS
<1> DEFINE Kept ==
      \A v \in Invitations :
          invitation[v].state # "none" =>
            /\ invitation'[v].state # "none"
            /\ invitation'[v].email = invitation[v].email
            /\ invitation'[v].role = invitation[v].role
           Quiet ==
      \A r \in Requests :
          request'[r].op \in {"accept", "register"} =>
            /\ request[r].op = request'[r].op
            /\ request[r].invite = request'[r].invite
            /\ request[r].target = request'[r].target
            /\ request[r].to = request'[r].to
<1> USE DEF TypeOK
<1>a. Kept /\ Quiet => InvitationsNamed'
  <2>1. SUFFICES ASSUME Kept, Quiet, NEW r \in Requests,
                        request'[r].op \in {"accept", "register"}
                 PROVE  /\ invitation'[request'[r].invite].state # "none"
                        /\ invitation'[request'[r].invite].email = request'[r].target
                        /\ invitation'[request'[r].invite].role = request'[r].to
    BY DEF InvitationsNamed
  <2>2. request[r].op \in {"accept", "register"} /\ request[r].invite \in Invitations
    BY <2>1 DEF RequestsKnown, Known
  <2> QED BY <2>1, <2>2 DEF InvitationsNamed
<1>b. UNCHANGED invitation => Kept OBVIOUS
<1>c. UNCHANGED invitation => InvitationsAddressed' BY DEF InvitationsAddressed
<1>d. \A r \in Requests : End(r) => Quiet BY DEF End, Idle
<1>e. \A r \in Requests : EndChanging(r) => Quiet
  <2>1. \A q \in Request : LET p == [q EXCEPT !.fresh = FALSE]
                           IN p.op = q.op /\ p.invite = q.invite /\ p.target = q.target
                              /\ p.to = q.to
    BY DEF Request
  <2> QED BY <2>1 DEF EndChanging, Idle
<1>1. ASSUME NEW r \in Requests,
             \/ \E a \in Users, op \in OwnerOps : Authorize(r, a, op)
             \/ \E u \in Users, to \in Roles : ReadTarget(r, u, to) \/ CheckNotMember(r, u, to)
             \/ \E v \in Invitations : ReadInvitation(r, v)
             \/ CountOwners(r) \/ CheckNoLiveInvitation(r)
      PROVE  UNCHANGED invitation /\ Quiet
  <2>1. ASSUME NEW a \in Users, NEW op \in OwnerOps, Authorize(r, a, op)
        PROVE  UNCHANGED invitation /\ Quiet
    BY <2>1 DEF Authorize, Idle, OwnerOps
  <2>2. ASSUME NEW u \in Users, NEW to \in Roles, ReadTarget(r, u, to)
        PROVE  UNCHANGED invitation /\ Quiet
    BY <2>2 DEF ReadTarget, Request
  <2>3. ASSUME NEW u \in Users, NEW to \in Roles, CheckNotMember(r, u, to)
        PROVE  UNCHANGED invitation /\ Quiet
    BY <2>3 DEF CheckNotMember, Request
  <2>4. ASSUME NEW v \in Invitations, ReadInvitation(r, v)
        PROVE  UNCHANGED invitation /\ Quiet
    BY <2>4 DEF ReadInvitation, Request
  <2>5. CASE CountOwners(r)
    <3>1. CASE End(r) BY <2>5, <3>1, <1>d DEF CountOwners
    <3>2. CASE ~End(r)
      <4>1. request' = [request EXCEPT ![r] = [@ EXCEPT !.phase = "counted", !.fresh = TRUE]]
        BY <2>5, <3>2 DEF CountOwners
      <4>2. Quiet BY <4>1 DEF Request
      <4> QED BY <2>5, <4>2 DEF CountOwners
    <3> QED BY <3>1, <3>2
  <2>6. CASE CheckNoLiveInvitation(r) BY <2>6, <1>d DEF CheckNoLiveInvitation, Request
  <2> QED BY <1>1, <2>1, <2>2, <2>3, <2>4, <2>5, <2>6
<1>2. ASSUME NEW r \in Requests, WriteMember(r) \/ Abandon(r)
      PROVE  UNCHANGED invitation /\ Quiet
  BY <1>2, <1>d, <1>e DEF WriteMember, Abandon
<1>3. ASSUME NEW r \in Requests, NEW v \in Invitations, OpenInvitation(r, v)
      PROVE  InvitationsAddressed' /\ InvitationsNamed'
  <2>1. invitation' = invitation /\ invitation[v].state # "none"
    BY <1>3 DEF OpenInvitation, Live
  <2>2. /\ request'[r].invite = v
        /\ request'[r].target = invitation[v].email
        /\ request'[r].to = invitation[v].role
        /\ \A s \in Requests : s # r => request'[s] = request[s]
    BY <1>3 DEF OpenInvitation, Idle
  <2> QED BY <2>1, <2>2, <1>c DEF InvitationsNamed
<1>4. ASSUME NEW r \in Requests, NEW v \in Invitations, CreateInvitation(r, v)
      PROVE  InvitationsAddressed' /\ InvitationsNamed'
  <2>1. request[r].target \in Users
    BY <1>4 DEF CreateInvitation, RequestsKnown, Known
  <2>2. invitation'[v].email \in Users
    BY <1>4, <2>1 DEF CreateInvitation, Invitation
  <2>3. InvitationsAddressed'
    BY <1>4, <2>2 DEF CreateInvitation, InvitationsAddressed, Invitation
  <2>4. Kept BY <1>4 DEF CreateInvitation, Invitation
  <2> QED BY <1>4, <2>3, <2>4, <1>a, <1>d DEF CreateInvitation
<1>5. ASSUME NEW r \in Requests, RotateInvitationToken(r)
      PROVE  InvitationsAddressed' /\ InvitationsNamed'
  <2>1. request[r].invite \in Invitations
    BY <1>5 DEF RotateInvitationToken, RequestsKnown, Known
  <2>2. Kept /\ InvitationsAddressed'
    BY <1>5, <2>1 DEF RotateInvitationToken, Invitation, InvitationsAddressed
  <2> QED BY <1>5, <2>2, <1>a, <1>d DEF RotateInvitationToken
<1>6. ASSUME NEW r \in Requests, RevokeInvitation(r)
      PROVE  InvitationsAddressed' /\ InvitationsNamed'
  <2>1. Kept /\ InvitationsAddressed'
    BY <1>6 DEF RevokeInvitation, Live, Invitation, InvitationsAddressed
  <2> QED BY <1>6, <2>1, <1>a, <1>d DEF RevokeInvitation
<1>7. ASSUME NEW r \in Requests, AcceptInvitation(r)
      PROVE  InvitationsAddressed' /\ InvitationsNamed'
  <2>1. Kept /\ InvitationsAddressed'
    BY <1>7 DEF AcceptInvitation, StillAcceptable, Live, Invitation, InvitationsAddressed
  <2> QED BY <1>7, <2>1, <1>a, <1>d, <1>e DEF AcceptInvitation
<1>8. ASSUME NEW v \in Invitations, Expire(v)
      PROVE  InvitationsAddressed' /\ InvitationsNamed'
  <2>1. Kept /\ InvitationsAddressed' /\ Quiet
    BY <1>8 DEF Expire, Invitation, InvitationsAddressed
  <2> QED BY <2>1, <1>a
<1>9. ASSUME NEW u \in Users, RegisterUser(u)
      PROVE  InvitationsAddressed' /\ InvitationsNamed'
  BY <1>9, <1>c DEF RegisterUser, InvitationsNamed
<1>10. CASE UNCHANGED vars BY <1>10, <1>c DEF vars, InvitationsNamed
<1> HIDE DEF Kept, Quiet
<1> QED
  BY <1>1, <1>2, <1>3, <1>4, <1>5, <1>6, <1>7, <1>8, <1>9, <1>10, <1>a, <1>b, <1>c DEF Next

LEMMA OwnersFinite == IsFiniteSet(Owners) /\ Cardinality(Owners) \in Nat
BY FS_Subset, FS_CardinalityType DEF Owners

(* A change of a membership puts every other request out of date.          *)
LEMMA ReadsAccurateStep ==
    TypeOK /\ ReadsAccurate /\ [Next]_vars => ReadsAccurate'
<1> SUFFICES ASSUME TypeOK, ReadsAccurate, [Next]_vars PROVE ReadsAccurate'
  OBVIOUS
<1> USE DEF TypeOK
<1> DEFINE Same == UNCHANGED member
           Still == \A r \in Requests :
                       \/ request'[r] = request[r]
                       \/ request'[r].op \notin {"change", "remove"}
                       \/ request'[r].phase \notin {"read", "counted"}
<1>a. Same /\ Still => ReadsAccurate'
  BY DEF ReadsAccurate, Accurate, Owners
<1>b. \A r \in Requests : End(r) => Still BY DEF End, Idle
<1>c. \A r \in Requests : EndChanging(r) => ReadsAccurate'
  <2>1. \A q \in Request : ~[q EXCEPT !.fresh = FALSE].fresh BY DEF Request
  <2> QED BY <2>1 DEF EndChanging, ReadsAccurate, Accurate, Idle
<1>1. ASSUME NEW r \in Requests,
             \/ \E a \in Users, op \in OwnerOps : Authorize(r, a, op)
             \/ \E u \in Users, to \in Roles : CheckNotMember(r, u, to)
             \/ \E v \in Invitations : \/ ReadInvitation(r, v) \/ OpenInvitation(r, v)
                                       \/ CreateInvitation(r, v)
             \/ CheckNoLiveInvitation(r) \/ RotateInvitationToken(r)
             \/ RevokeInvitation(r) \/ Abandon(r)
      PROVE  Same /\ Still
  <2>1. ASSUME NEW a \in Users, NEW op \in OwnerOps, Authorize(r, a, op) PROVE Same /\ Still
    BY <2>1 DEF Authorize, Idle
  <2>2. ASSUME NEW u \in Users, NEW to \in Roles, CheckNotMember(r, u, to)
        PROVE  Same /\ Still
    BY <2>2 DEF CheckNotMember, Request
  <2>3. ASSUME NEW v \in Invitations, ReadInvitation(r, v) PROVE Same /\ Still
    BY <2>3 DEF ReadInvitation, Request
  <2>4. ASSUME NEW v \in Invitations, OpenInvitation(r, v) PROVE Same /\ Still
    BY <2>4 DEF OpenInvitation, Idle
  <2>5. CASE CheckNoLiveInvitation(r)
    BY <2>5, <1>b DEF CheckNoLiveInvitation, Request
  <2> QED BY <1>1, <1>b, <2>1, <2>2, <2>3, <2>4, <2>5 DEF CreateInvitation,
     RotateInvitationToken, RevokeInvitation, Abandon
<1>2. ASSUME NEW r \in Requests, NEW u \in Users, NEW to \in Roles, ReadTarget(r, u, to)
      PROVE  ReadsAccurate'
  <2>0. request' = [request EXCEPT ![r] = [@ EXCEPT !.phase = "read", !.target = u,
                                                    !.seat = member[u].seat,
                                                    !.seen = member[u].role,
                                                    !.to = to, !.fresh = TRUE]]
    BY <1>2 DEF ReadTarget
  <2>1. /\ request'[r].phase = "read" /\ request'[r].target = u
        /\ request'[r].seen = member[u].role
    BY <2>0 DEF Request
  <2>2. member' = member /\ \A s \in Requests : s # r => request'[s] = request[s]
    BY <1>2 DEF ReadTarget
  <2> QED BY <2>1, <2>2 DEF ReadsAccurate, Accurate, Owners
<1>3. ASSUME NEW r \in Requests, CountOwners(r) PROVE ReadsAccurate'
  <2>1. CASE isLastOwner(Cardinality(Owners))
    BY <1>3, <2>1, <1>a, <1>b DEF CountOwners
  <2>2. CASE ~isLastOwner(Cardinality(Owners))
    <3>1. Cardinality(Owners) > 1 BY <2>2, OwnersFinite DEF isLastOwner
    <3>2. request'[r].phase = "counted"
      <4>1. request' = [request EXCEPT ![r] = [@ EXCEPT !.phase = "counted", !.fresh = TRUE]]
        BY <1>3, <2>2 DEF CountOwners
      <4> QED BY <4>1 DEF Request
    <3>3. member' = member /\ \A s \in Requests : s # r => request'[s] = request[s]
      BY <1>3, <2>2 DEF CountOwners
    <3> QED BY <3>1, <3>2, <3>3 DEF ReadsAccurate, Accurate, Owners
  <2> QED BY <2>1, <2>2
<1>4. ASSUME NEW r \in Requests, WriteMember(r) \/ AcceptInvitation(r) PROVE ReadsAccurate'
  <2>1. EndChanging(r) \/ (End(r) /\ Same) BY <1>4 DEF WriteMember, AcceptInvitation
  <2> QED BY <2>1, <1>a, <1>b, <1>c
<1>5. ASSUME \/ \E v \in Invitations : Expire(v)
             \/ \E u \in Users : RegisterUser(u)
             \/ UNCHANGED vars
      PROVE  Same /\ Still
  BY <1>5 DEF Expire, RegisterUser, vars
<1> HIDE DEF Same, Still
<1> QED BY <1>1, <1>2, <1>3, <1>4, <1>5, <1>a DEF Next

LEMMA InvInitially == Init => Inv
<1> SUFFICES ASSUME Init PROVE Inv
  OBVIOUS
<1>1. TypeOK
  <2>1. PICK founder \in Users :
          /\ member = [u \in Users |-> [role |-> IF u = founder THEN "OWNER" ELSE "none",
                                        seat |-> 0]]
          /\ account = {founder}
    BY DEF Init
  <2>2. member \in [Users -> Member] /\ account \subseteq Users BY <2>1 DEF Member, Roles
  <2>3. invitation \in [Invitations -> Invitation] BY DEF Init, Invitation, Roles
  <2>4. request \in [Requests -> Request] BY IdleType DEF Init
  <2> QED BY <2>2, <2>3, <2>4 DEF TypeOK
<1>2. RequestsKnown /\ InvitationsNamed /\ ReadsAccurate
  BY DEF Init, Idle, RequestsKnown, Known, InvitationsNamed, ReadsAccurate, Accurate
<1>3. InvitationsAddressed BY DEF Init, InvitationsAddressed
<1> QED BY <1>1, <1>2, <1>3 DEF Inv

(* The inductive invariant: what a request has read is still there, and    *)
(* nobody but the request itself can have made it stale unnoticed.         *)
THEOREM InvCorrect == Spec => []Inv
<1>1. Inv /\ [Next]_vars => Inv'
  BY TypeStep, RequestsKnownStep, InvitationsStep, ReadsAccurateStep DEF Inv
<1> QED BY InvInitially, <1>1, PTL DEF Spec

(* Every row of memberships and organization_invitations, and every        *)
(* request between two of its statements, stays well formed.               *)
THEOREM TypeCorrect == Spec => []TypeOK
<1>1. Inv => TypeOK BY DEF Inv
<1> QED BY InvCorrect, <1>1, PTL

LEMMA TwoOwners == \A u \in Users : Cardinality(Owners) > 1 => \E w \in Owners : w # u
<1> SUFFICES ASSUME NEW u \in Users, Cardinality(Owners) > 1, \A w \in Owners : w = u
             PROVE  FALSE
  OBVIOUS
<1>1. Owners \subseteq {u} OBVIOUS
<1>2. IsFiniteSet({u}) /\ Cardinality({u}) = 1 BY FS_Singleton
<1>3. Cardinality(Owners) <= 1 BY <1>1, <1>2, FS_Subset
<1> QED BY <1>3, OwnersFinite

(* An up-to-date request that passed its checks leaves an OWNER behind.    *)
LEMMA FreshWriteKeepsOwner ==
    ASSUME TypeOK, RequestsKnown, ReadsAccurate, Owners # {},
           NEW r \in Requests, WriteMember(r), request[r].fresh
    PROVE  Owners' # {}
<1> DEFINE q == request[r]
<1> USE DEF TypeOK
<1>1. /\ ReadyToWrite(q)
      /\ \/ member' = member
         \/ member' = [member EXCEPT ![q.target].role =
                         IF q.op = "remove" THEN "none" ELSE q.to]
  BY DEF WriteMember
<1>2. q \in Request /\ q.op \in {"change", "remove"} /\ q.phase \in {"read", "counted"}
      /\ q.target \in Users
  BY <1>1 DEF ReadyToWrite, RequestsKnown, Known
<1>3. \A w \in Users : w # q.target => member'[w] = member[w] BY <1>1
<1>4. Accurate(q) BY DEF ReadsAccurate
<1>5. CASE q.phase = "counted"
  <2>1. Cardinality(Owners) > 1 BY <1>2, <1>4, <1>5 DEF Accurate
  <2>2. PICK w \in Owners : w # q.target BY <1>2, <2>1, TwoOwners
  <2> QED BY <2>2, <1>3 DEF Owners
<1>6. CASE q.phase = "read" /\ ~CountNeeded(q)
  <2>1. q.seen = member[q.target].role BY <1>2, <1>4, <1>6 DEF Accurate
  <2>2. PICK w \in Owners : TRUE OBVIOUS
  <2>3. CASE w # q.target BY <2>2, <2>3, <1>3 DEF Owners
  <2>4. CASE w = q.target
    <3>1. q.op = "change" /\ q.to = "OWNER"
      BY <1>2, <1>6, <2>1, <2>2, <2>4 DEF CountNeeded, Owners
    <3>2. member'[w].role = "OWNER" BY <1>1, <1>2, <2>2, <2>4, <3>1 DEF Owners, Member
    <3> QED BY <3>2, <2>2 DEF Owners
  <2> QED BY <2>3, <2>4
<1> QED BY <1>1, <1>5, <1>6 DEF ReadyToWrite

LEMMA OtherStepsKeepOwners ==
    ASSUME TypeOK, [Next]_vars, \A r \in Requests : ~WriteMember(r)
    PROVE  Owners \subseteq Owners'
<1> USE DEF TypeOK
<1>1. UNCHANGED member => Owners \subseteq Owners' BY DEF Owners
<1>2. ASSUME NEW r \in Requests, AcceptInvitation(r) PROVE Owners \subseteq Owners'
  <2>1. \A u \in Owners : member'[u] = member[u]
    BY <1>2 DEF AcceptInvitation, Insertable, Owners
  <2> QED BY <2>1 DEF Owners
<1> QED
  BY <1>1, <1>2 DEF Next, vars, Authorize, ReadTarget, CheckNotMember, CreateInvitation,
     ReadInvitation, OpenInvitation, CountOwners, CheckNoLiveInvitation,
     RotateInvitationToken, RevokeInvitation, Abandon, Expire, RegisterUser

(* The last OWNER is lost only by a write whose count, or whose read of    *)
(* the target, another transaction has made stale.                         *)
THEOREM LastOwnerLostOnlyInOverlapHolds == Spec => LastOwnerLostOnlyInOverlap
<1>1. Inv /\ [Next]_vars =>
        [Owners # {} /\ Owners' = {} =>
           \E r \in Requests : /\ ReadyToWrite(request[r])
                               /\ request'[r] = Idle
                               /\ ~request[r].fresh]_vars
  <2> SUFFICES ASSUME Inv, [Next]_vars, Owners # {}, Owners' = {}
               PROVE  \E r \in Requests : /\ ReadyToWrite(request[r])
                                          /\ request'[r] = Idle
                                          /\ ~request[r].fresh
    OBVIOUS
  <2>1. PICK r \in Requests : WriteMember(r) BY OtherStepsKeepOwners DEF Inv
  <2>2. ~request[r].fresh BY <2>1, FreshWriteKeepsOwner DEF Inv
  <2>3. ReadyToWrite(request[r]) BY <2>1 DEF WriteMember
  <2>4. request'[r] = Idle BY <2>1 DEF WriteMember, End, EndChanging, Inv, TypeOK
  <2> QED BY <2>2, <2>3, <2>4
<1> QED BY InvCorrect, <1>1, PTL DEF Spec, LastOwnerLostOnlyInOverlap

(* A membership appears only with the acceptance of a live invitation for  *)
(* that email, and carries the role the invitation grants.                 *)
THEOREM JoinsThroughLiveInvitationHolds == Spec => JoinsThroughLiveInvitation
<1>1. Inv /\ [Next]_vars =>
        [\A u \in Users :
           member[u].role = "none" /\ member'[u].role # "none" =>
             \E v \in Invitations : /\ invitation[v].email = u
                                    /\ invitation[v].state = "live"
                                    /\ invitation'[v].state = "accepted"
                                    /\ member'[u].role = invitation[v].role]_vars
  <2> SUFFICES ASSUME Inv, [Next]_vars, NEW u \in Users,
                      member[u].role = "none", member'[u].role # "none"
               PROVE  \E v \in Invitations : /\ invitation[v].email = u
                                             /\ invitation[v].state = "live"
                                             /\ invitation'[v].state = "accepted"
                                             /\ member'[u].role = invitation[v].role
    OBVIOUS
  <2> USE DEF Inv, TypeOK
  <2>1. ASSUME NEW r \in Requests, WriteMember(r) PROVE FALSE
    BY <2>1 DEF WriteMember, Found, Member, Roles
  <2>2. PICK r \in Requests : AcceptInvitation(r)
    BY <2>1 DEF Next, vars, Authorize, ReadTarget, CheckNotMember, CreateInvitation,
       ReadInvitation, OpenInvitation, CountOwners, CheckNoLiveInvitation,
       RotateInvitationToken, RevokeInvitation, Abandon, Expire, RegisterUser
  <2>3. request[r].op \in {"accept", "register"} BY <2>2 DEF AcceptInvitation
  <2>4. request[r].invite \in Invitations BY <2>3 DEF RequestsKnown, Known
  <2>5. /\ invitation[request[r].invite].email = request[r].target
        /\ invitation[request[r].invite].role = request[r].to
    BY <2>3 DEF InvitationsNamed
  <2>6. u = request[r].target /\ Live(request[r].invite) /\ member'[u].role = request[r].to
        /\ invitation'[request[r].invite].state = "accepted"
    BY <2>2, <2>4 DEF AcceptInvitation, StillAcceptable, Invitation
  <2> QED BY <2>4, <2>5, <2>6 DEF Live
<1> QED BY InvCorrect, <1>1, PTL DEF Spec, JoinsThroughLiveInvitation

(* An accepted or revoked invitation is never written again: each of the   *)
(* three writers re-checks it in the statement that writes it.             *)
THEOREM SettledInvitationsStayHolds == Spec => SettledInvitationsStay
<1>1. Inv /\ [Next]_vars =>
        [\A v \in Invitations :
           invitation[v].state \in {"accepted", "revoked"}
             => invitation'[v] = invitation[v]]_vars
  <2> SUFFICES ASSUME Inv, [Next]_vars, NEW v \in Invitations,
                      invitation[v].state \in {"accepted", "revoked"}
               PROVE  invitation'[v] = invitation[v]
    OBVIOUS
  <2> USE DEF Inv, TypeOK
  <2>1. ASSUME NEW r \in Requests, RotateInvitationToken(r) PROVE invitation'[v] = invitation[v]
    BY <2>1 DEF RotateInvitationToken, Rotatable, Live
  <2>2. ASSUME NEW r \in Requests, RevokeInvitation(r) PROVE invitation'[v] = invitation[v]
    BY <2>2 DEF RevokeInvitation, Live
  <2>3. ASSUME NEW r \in Requests, AcceptInvitation(r) PROVE invitation'[v] = invitation[v]
    BY <2>3 DEF AcceptInvitation, StillAcceptable, Live
  <2>4. ASSUME NEW r \in Requests, NEW w \in Invitations, CreateInvitation(r, w)
        PROVE  invitation'[v] = invitation[v]
    BY <2>4 DEF CreateInvitation
  <2>5. ASSUME NEW w \in Invitations, Expire(w) PROVE invitation'[v] = invitation[v]
    BY <2>5 DEF Expire, Live
  <2> QED
    BY <2>1, <2>2, <2>3, <2>4, <2>5 DEF Next, vars, Authorize, ReadTarget, CheckNotMember,
       ReadInvitation, OpenInvitation, CountOwners, WriteMember, CheckNoLiveInvitation,
       Abandon, RegisterUser
<1> QED BY InvCorrect, <1>1, PTL DEF Spec, SettledInvitationsStay

------------------------------------------------------------------------------
(* Refinement of the roster.                                               *)

View == <<RoleOf, Letters>>

LEMMA LettersStep ==
    ASSUME TypeOK, NEW v \in Invitations, NEW x,
           invitation' = [invitation EXCEPT ![v] = x]
    PROVE  Letters' = [Letters EXCEPT ![v] = Letter(x)]
<1>1. \A w \in Invitations : invitation'[w] = IF w = v THEN x ELSE invitation[w]
  BY DEF TypeOK
<1> QED BY <1>1 DEF Letters, Letter

LEMMA RolesStep ==
    ASSUME TypeOK, NEW u \in Users, NEW x, member' = [member EXCEPT ![u] = x]
    PROVE  RoleOf' = [RoleOf EXCEPT ![u] = x.role]
<1>1. \A w \in Users : member'[w] = IF w = u THEN x ELSE member[w]
  BY DEF TypeOK
<1>2. RoleOf' = [w \in Users |-> IF w = u THEN x.role ELSE member[w].role]
  BY <1>1 DEF RoleOf
<1> QED BY <1>2 DEF RoleOf

LEMMA Unchanged ==
    /\ UNCHANGED member => UNCHANGED RoleOf
    /\ UNCHANGED invitation => UNCHANGED Letters
BY DEF RoleOf, Letters

LEMMA LetterAt == \A v \in Invitations : Letters[v] = Letter(invitation[v])
BY DEF Letters

(* A settled row, and one with another token.                              *)
LEMMA LetterSettled ==
    ASSUME NEW i, NEW x, NEW to, x.state = to,
           x.email = i.email, x.role = i.role, x.token = i.token
    PROVE  Letter(x) = [Letter(i) EXCEPT !.state = to]
BY DEF Letter

LEMMA LetterRotated ==
    ASSUME NEW i, NEW x, x.token = i.token + 1,
           x.state = i.state, x.email = i.email, x.role = i.role
    PROVE  Letter(x) = [Letter(i) EXCEPT !.token = @ + 1]
BY DEF Letter

LEMMA LettersOf ==
    ASSUME NEW v \in Invitations
    PROVE  /\ Letters[v].state = invitation[v].state /\ Letters[v].email = invitation[v].email
           /\ Letters[v].role = invitation[v].role /\ Letters[v].token = invitation[v].token
BY DEF Letters, Letter

LEMMA CreateRefines ==
    ASSUME Inv, NEW r \in Requests, NEW v \in Invitations, CreateInvitation(r, v)
    PROVE  Organization!Next
<1> USE DEF Inv, TypeOK
<1>1. request[r].target \in Users /\ request[r].to \in Roles
  BY DEF CreateInvitation, RequestsKnown, Known, Request
<1> DEFINE x == [invitation[v] EXCEPT !.state = "live", !.email = request[r].target,
                                      !.role = request[r].to]
<1>2. invitation' = [invitation EXCEPT ![v] = x]
  BY DEF CreateInvitation
<1>3. /\ x.state = "live" /\ x.email = request[r].target /\ x.role = request[r].to
      /\ x.token = invitation[v].token
  BY DEF Invitation
<1> HIDE DEF x
<1>4. Letter(x) = [state |-> "live", email |-> request[r].target, role |-> request[r].to,
                   token |-> Letters[v].token]
  BY <1>3, LettersOf DEF Letter
<1>5. Letters' = [Letters EXCEPT ![v] = Letter(x)]
  BY <1>2, LettersStep
<1>6. Organization!Invite(v, request[r].target, request[r].to)
  BY <1>4, <1>5, LettersOf, Unchanged DEF CreateInvitation, Organization!Invite
<1> QED BY <1>1, <1>6 DEF Organization!Next, Organization!Roles, Roles

LEMMA RotateRefines ==
    ASSUME Inv, NEW r \in Requests, RotateInvitationToken(r)
    PROVE  Organization!Next \/ UNCHANGED View
<1> USE DEF Inv, TypeOK
<1> DEFINE v == request[r].invite
           x == [invitation[v] EXCEPT !.token = invitation[v].token + 1, !.expired = FALSE]
<1>1. v \in Invitations
  BY DEF RotateInvitationToken, RequestsKnown, Known
<1>2. UNCHANGED member /\ invitation' = IF Live(v) THEN [invitation EXCEPT ![v] = x] ELSE invitation
  BY DEF RotateInvitationToken, Rotatable
<1>3. /\ x.state = invitation[v].state /\ x.email = invitation[v].email
      /\ x.role = invitation[v].role /\ x.token = invitation[v].token + 1
  BY <1>1 DEF Invitation
<1> HIDE DEF v, x
<1>4. Letters[v] = Letter(invitation[v])
  BY <1>1, LetterAt
<1>5. Letter(x) = [Letter(invitation[v]) EXCEPT !.token = @ + 1]
  BY <1>3, LetterRotated
<1>6. Letter(x) = [Letters[v] EXCEPT !.token = @ + 1]
  BY <1>4, <1>5
<1>7. CASE Live(v)
  <2>1. Letters' = [Letters EXCEPT ![v] = Letter(x)]
    BY <1>1, <1>2, <1>7, LettersStep
  <2>2. Letters' = [Letters EXCEPT ![v].token = @ + 1]
    BY <1>6, <2>1
  <2>3. Organization!Resend(v)
    BY <1>1, <1>2, <1>7, <2>2, LettersOf, Unchanged
       DEF Live, Organization!Resend, Organization!Live
  <2> QED BY <1>1, <2>3 DEF Organization!Next
<1>8. CASE ~Live(v)
  BY <1>2, <1>8, Unchanged DEF View
<1> QED BY <1>7, <1>8

LEMMA RevokeRefines ==
    ASSUME Inv, NEW r \in Requests, RevokeInvitation(r)
    PROVE  Organization!Next \/ UNCHANGED View
<1> USE DEF Inv, TypeOK
<1> DEFINE v == request[r].invite
           x == [invitation[v] EXCEPT !.state = "revoked"]
<1>1. v \in Invitations
  BY DEF RevokeInvitation, RequestsKnown, Known
<1>2. UNCHANGED member /\ invitation' = IF Live(v) THEN [invitation EXCEPT ![v] = x] ELSE invitation
  BY DEF RevokeInvitation
<1>3. /\ x.state = "revoked" /\ x.email = invitation[v].email
      /\ x.role = invitation[v].role /\ x.token = invitation[v].token
  BY <1>1 DEF Invitation
<1> HIDE DEF v, x
<1>4. Letters[v] = Letter(invitation[v])
  BY <1>1, LetterAt
<1>5. Letter(x) = [Letter(invitation[v]) EXCEPT !.state = "revoked"]
  BY <1>3, LetterSettled
<1>6. Letter(x) = [Letters[v] EXCEPT !.state = "revoked"]
  BY <1>4, <1>5
<1>7. CASE Live(v)
  <2>1. Letters' = [Letters EXCEPT ![v].state = "revoked"]
    BY <1>1, <1>2, <1>6, <1>7, LettersStep
  <2>2. Organization!Revoke(v)
    BY <1>1, <1>2, <1>7, <2>1, LettersOf, Unchanged
       DEF Live, Organization!Revoke, Organization!Live
  <2> QED BY <1>1, <2>2 DEF Organization!Next
<1>8. CASE ~Live(v)
  BY <1>2, <1>8, Unchanged DEF View
<1> QED BY <1>7, <1>8

(* What was read of the invitation is what it says when it is used up.     *)
LEMMA AcceptRefines ==
    ASSUME Inv, NEW r \in Requests, AcceptInvitation(r)
    PROVE  Organization!Next \/ UNCHANGED View
<1> USE DEF Inv, TypeOK
<1> DEFINE q == request[r]
           v == q.invite
           u == q.target
           x == [invitation[v] EXCEPT !.state = "accepted"]
           m == [role |-> q.to, seat |-> member[u].seat + 1]
<1>1. q.op \in {"accept", "register"} /\ q.phase = "read"
  BY DEF AcceptInvitation, RequestsKnown, Known
<1>2. v \in Invitations /\ u \in Users
  BY <1>1 DEF RequestsKnown, Known
<1>3. invitation[v].email = u /\ invitation[v].role = q.to
  BY <1>1 DEF InvitationsNamed
<1>4. CASE Insertable(q) /\ Live(v)
  <2>1. invitation' = [invitation EXCEPT ![v] = x] /\ member' = [member EXCEPT ![u] = m]
    BY <1>4 DEF AcceptInvitation, StillAcceptable
  <2>2. /\ x.state = "accepted" /\ x.email = invitation[v].email
        /\ x.role = invitation[v].role /\ x.token = invitation[v].token
        /\ m.role = Letters[v].role
    BY <1>2, <1>3, LettersOf DEF Invitation
  <2>3. RoleOf[u] = "none"
    BY <1>2, <1>4 DEF Insertable, RoleOf
  <2> HIDE DEF x, m
  <2>4. Letters[v] = Letter(invitation[v])
    BY <1>2, LetterAt
  <2>5. Letter(x) = [Letter(invitation[v]) EXCEPT !.state = "accepted"]
    BY <2>2, LetterSettled
  <2>6. Letter(x) = [Letters[v] EXCEPT !.state = "accepted"]
    BY <2>4, <2>5
  <2>7. Letters' = [Letters EXCEPT ![v] = Letter(x)]
    BY <1>2, <2>1, LettersStep
  <2>8. RoleOf' = [RoleOf EXCEPT ![u] = m.role]
    BY <1>2, <2>1, RolesStep
  <2>9. Letters[v].state = "live" /\ Letters[v].email = u
    BY <1>2, <1>3, <1>4, LettersOf DEF Live
  <2> HIDE DEF q, v, u
  <2>10. Organization!Join(v, u)
    BY <2>2, <2>3, <2>7, <2>8, <2>9, <2>6 DEF Organization!Join, Organization!Live
  <2> QED BY <1>2, <2>10 DEF Organization!Next
<1>5. CASE ~(Insertable(q) /\ Live(v))
  <2>1. UNCHANGED <<member, invitation>>
    BY <1>5 DEF AcceptInvitation, StillAcceptable
  <2> QED BY <2>1, Unchanged DEF View
<1> QED BY <1>4, <1>5

(* A write finds a member, however long ago it read him.                   *)
LEMMA WriteRefines ==
    ASSUME Inv, NEW r \in Requests, WriteMember(r)
    PROVE  Organization!Next \/ UNCHANGED View
<1> USE DEF Inv, TypeOK
<1> DEFINE q == request[r]
           u == q.target
           to == IF q.op = "remove" THEN "none" ELSE q.to
           x == [member[u] EXCEPT !.role = to]
<1>1. u \in Users /\ to \in Roles \cup {"none"} /\ UNCHANGED invitation
  BY DEF WriteMember, ReadyToWrite, RequestsKnown, Known, Request
<1>2. CASE Found(u) /\ member[u].seat = q.seat
  <2>1. member' = [member EXCEPT ![u] = x]
    BY <1>2 DEF WriteMember
  <2>2. x.role = to
    BY <1>1 DEF Member
  <2>3. RoleOf[u] # "none"
    BY <1>1, <1>2 DEF Found, RoleOf, Roles
  <2> HIDE DEF x, to
  <2>4. RoleOf' = [RoleOf EXCEPT ![u] = to]
    BY <1>1, <2>1, <2>2, RolesStep
  <2> HIDE DEF q, u
  <2>5. Organization!SetRole(u, to)
    BY <1>1, <2>3, <2>4, Unchanged DEF Organization!SetRole
  <2> QED BY <1>1, <2>5 DEF Organization!Next, Organization!Roles, Roles
<1>3. CASE ~(Found(u) /\ member[u].seat = q.seat)
  <2>1. UNCHANGED member
    BY <1>3 DEF WriteMember
  <2> QED BY <1>1, <2>1, Unchanged DEF View
<1> QED BY <1>2, <1>3

LEMMA ExpireRefines ==
    ASSUME Inv, NEW v \in Invitations, Expire(v)
    PROVE  UNCHANGED View
<1> DEFINE x == [invitation[v] EXCEPT !.expired = TRUE]
<1>1. invitation' = [invitation EXCEPT ![v] = x] /\ UNCHANGED member
  BY DEF Expire
<1>2. Letter(x) = Letters[v]
  BY LetterAt DEF Inv, TypeOK, Letter, Invitation
<1> HIDE DEF x
<1>3. Letters' = [Letters EXCEPT ![v] = Letters[v]]
  BY <1>1, <1>2, LettersStep DEF Inv
<1> QED BY <1>1, <1>3, Unchanged DEF View, Letters

LEMMA StepRefines == Inv /\ [Next]_vars => [Organization!Next]_View
<1> SUFFICES ASSUME Inv, [Next]_vars
             PROVE  Organization!Next \/ UNCHANGED View
  OBVIOUS
<1>1. UNCHANGED <<member, invitation>> => UNCHANGED View
  BY Unchanged DEF View
<1> QED
  BY <1>1, CreateRefines, RotateRefines, RevokeRefines, AcceptRefines, WriteRefines, ExpireRefines
     DEF Next, vars, Authorize, ReadTarget, CheckNotMember, ReadInvitation, OpenInvitation,
         CountOwners, CheckNoLiveInvitation, Abandon, RegisterUser

(* The memberships and invitations of an organization, written statement   *)
(* by statement by concurrent calls, are a roster on which each operation  *)
(* is one step (acceptInvitation, resendInvitation, revokeInvitation,      *)
(* createInvitation, changeMemberRole, removeMember).                      *)
THEOREM RefinesRoster == Spec => RosterSpec
<1>1. Init => Organization!Init
  <2> SUFFICES ASSUME Init PROVE Organization!Init
    OBVIOUS
  <2>1. PICK founder \in Users :
          member = [u \in Users |-> [role |-> IF u = founder THEN "OWNER" ELSE "none",
                                     seat |-> 0]]
    BY DEF Init
  <2>2. RoleOf = [u \in Users |-> IF u = founder THEN "OWNER" ELSE "none"]
    BY <2>1 DEF RoleOf
  <2>3. Letters = [v \in Invitations |->
                     [state |-> "none", email |-> NoUser, role |-> "MEMBER", token |-> 0]]
    BY DEF Init, Letters, Letter
  <2> QED BY <2>2, <2>3 DEF Organization!Init
<1>2. Inv /\ [Next]_vars => [Organization!Next]_View
  BY StepRefines
<1> QED BY <1>1, <1>2, InvCorrect, PTL DEF Spec, RosterSpec, Organization!Spec, View
==============================================================================
