------------------------ MODULE OrganizationMembers ------------------------
(***************************************************************************)
(* Memberships and invitations of one organization (features/members,      *)
(* features/invitations).  A request authorizes its actor and reads its    *)
(* target outside any transaction, then opens one that counts, re-checks   *)
(* and writes.  Postgres runs at READ COMMITTED: a count is a statement of *)
(* its own, and other transactions may commit between it and the write.    *)
(***************************************************************************)
EXTENDS Integers, FiniteSets

CONSTANTS Users,       \* one per email address
          Invitations, \* organization_invitations rows that may be created
          Requests,    \* concurrent calls
          MaxResends,  \* bound: rotations of one invitation's token
          NoUser, NoInvitation

ASSUME UsersAssumption == IsFiniteSet(Users) /\ NoUser \notin Users
ASSUME InvitationsAssumption == NoInvitation \notin Invitations
ASSUME MaxResendsAssumption == MaxResends \in Nat

VARIABLES member,      \* member[u]: u's memberships row in the organization
          account,     \* the users that have an account
          invitation,  \* invitation[v]: the organization_invitations row
          request      \* request[r]: a call between two of its steps

vars == <<member, account, invitation, request>>

Roles == {"OWNER", "MEMBER"}

(* seat: the membership id; a user who joins again gets another one.       *)
Member == [role : Roles \cup {"none"}, seat : Nat]

Invitation == [state : {"none", "live", "accepted", "revoked"},
               email : Users \cup {NoUser}, role : Roles,
               token : 0..MaxResends, expired : BOOLEAN]

OwnerOps == {"change", "remove", "invite", "resend", "revoke"}

Request == [op     : OwnerOps \cup {"none", "accept", "register"},
            phase  : {"idle", "authorized", "read", "counted"},
            actor  : Users \cup {NoUser},
            target : Users \cup {NoUser}, \* whose membership, or the invited email
            seat   : Nat, seen : Roles,   \* the target's membership as read
            to     : Roles,               \* role asked for
            invite : Invitations \cup {NoInvitation},
            fresh  : BOOLEAN]             \* no membership has changed since the
                                          \* last read of memberships (history)

Idle == [op |-> "none", phase |-> "idle", actor |-> NoUser, target |-> NoUser,
         seat |-> 0, seen |-> "MEMBER", to |-> "MEMBER", invite |-> NoInvitation,
         fresh |-> TRUE]

TypeOK ==
    /\ member \in [Users -> Member]
    /\ account \subseteq Users
    /\ invitation \in [Invitations -> Invitation]
    /\ request \in [Requests -> Request]

Owners == {u \in Users : member[u].role = "OWNER"}

(* registerUser creates an organization together with its first OWNER.     *)
Init ==
    /\ \E founder \in Users :
         /\ member = [u \in Users |-> [role |-> IF u = founder THEN "OWNER" ELSE "none",
                                       seat |-> 0]]
         /\ account = {founder}
    /\ invitation = [v \in Invitations |->
                       [state |-> "none", email |-> NoUser, role |-> "MEMBER",
                        token |-> 0, expired |-> FALSE]]
    /\ request = [r \in Requests |-> Idle]

------------------------------------------------------------------------------
(* The call returns, or throws, with no effect of its own.                 *)
End(r) == request' = [request EXCEPT ![r] = Idle]

(* The call commits a change of a membership: what other calls have read   *)
(* of memberships is out of date.                                          *)
EndChanging(r) ==
    request' = [s \in Requests |->
                  IF s = r \/ request[s] = Idle THEN Idle
                  ELSE [request[s] EXCEPT !.fresh = FALSE]]

(* verifyOrganizationRole(..., OWNER), the first statement of each call.   *)
Authorize(r, a, op) ==
    /\ request[r] = Idle
    /\ op \in OwnerOps
    /\ member[a].role = "OWNER"
    /\ request' = [request EXCEPT ![r] = [Idle EXCEPT !.op = op, !.phase = "authorized",
                                                      !.actor = a]]
    /\ UNCHANGED <<member, account, invitation>>

(* The process dies, or a statement throws: the transaction rolls back.    *)
Abandon(r) ==
    /\ request[r] # Idle
    /\ End(r)
    /\ UNCHANGED <<member, account, invitation>>

------------------------------------------------------------------------------
(* changeMemberRole and removeMember.                                      *)

(* Mutant: a membership that is not there is not refused.                  *)
AssumedFound(u) == TRUE

Found(u) == member[u].role \in Roles

(* findMembershipById; nobody targets himself.                             *)
ReadTarget(r, u, to) ==
    /\ request[r].phase = "authorized"
    /\ request[r].op \in {"change", "remove"}
    /\ u # request[r].actor
    /\ Found(u)
    /\ request' = [request EXCEPT ![r] = [@ EXCEPT !.phase = "read", !.target = u,
                                                   !.seat = member[u].seat,
                                                   !.seen = member[u].role,
                                                   !.to = to, !.fresh = TRUE]]
    /\ UNCHANGED <<member, account, invitation>>

(* `target.role` is the role read before the transaction.                  *)
CountNeeded(q) ==
    q.seen = "OWNER" /\ (q.op = "remove" \/ q.to # "OWNER")

(* Mutant: off by one.                                                     *)
NoOwnerLeft(ownerCount) == ownerCount <= 0

(* last-owner-policy.ts                                                    *)
isLastOwner(ownerCount) == ownerCount <= 1

(* countOwners, the first statement of the transaction.                    *)
CountOwners(r) ==
    /\ request[r].phase = "read"
    /\ request[r].op \in {"change", "remove"}
    /\ CountNeeded(request[r])
    /\ IF isLastOwner(Cardinality(Owners))
       THEN End(r)
       ELSE request' = [request EXCEPT ![r] = [@ EXCEPT !.phase = "counted", !.fresh = TRUE]]
    /\ UNCHANGED <<member, account, invitation>>

ReadyToWrite(q) ==
    /\ q.op \in {"change", "remove"}
    /\ q.phase = "counted" \/ (q.phase = "read" /\ ~CountNeeded(q))

(* updateMembershipRole and deleteMembership, by membership id and nothing *)
(* else; a membership that is gone is NotFoundError.                       *)
WriteMember(r) ==
    LET q == request[r] IN
    /\ ReadyToWrite(q)
    /\ IF Found(q.target) /\ member[q.target].seat = q.seat
       THEN /\ member' = [member EXCEPT ![q.target].role =
                            IF q.op = "remove" THEN "none" ELSE q.to]
            /\ EndChanging(r)
       ELSE End(r) /\ UNCHANGED member
    /\ UNCHANGED <<account, invitation>>

------------------------------------------------------------------------------
(* createInvitation, resendInvitation, revokeInvitation.                   *)

Live(v) == invitation[v].state = "live"

(* The invited email belongs to no member of the organization ...          *)
CheckNotMember(r, u, to) ==
    /\ request[r].phase = "authorized" /\ request[r].op = "invite"
    /\ member[u].role = "none"
    /\ request' = [request EXCEPT ![r] = [@ EXCEPT !.phase = "read", !.target = u, !.to = to]]
    /\ UNCHANGED <<member, account, invitation>>

(* ... and has no live invitation, expired or not (findLiveInvitationByEmail). *)
CheckNoLiveInvitation(r) ==
    /\ request[r].phase = "read" /\ request[r].op = "invite"
    /\ IF \E v \in Invitations : Live(v) /\ invitation[v].email = request[r].target
       THEN End(r)
       ELSE request' = [request EXCEPT ![r].phase = "counted"]
    /\ UNCHANGED <<member, account, invitation>>

CreateInvitation(r, v) ==
    /\ request[r].phase = "counted" /\ request[r].op = "invite"
    /\ invitation[v].state = "none"
    /\ invitation' = [invitation EXCEPT ![v] = [@ EXCEPT !.state = "live",
                                                         !.email = request[r].target,
                                                         !.role = request[r].to]]
    /\ End(r)
    /\ UNCHANGED <<member, account>>

(* findInvitationById: not accepted and not revoked.                       *)
ReadInvitation(r, v) ==
    /\ request[r].phase = "authorized" /\ request[r].op \in {"resend", "revoke"}
    /\ Live(v)
    /\ request' = [request EXCEPT ![r] = [@ EXCEPT !.phase = "read", !.invite = v]]
    /\ UNCHANGED <<member, account, invitation>>

(* Mutant: rotateInvitationToken or markInvitationAccepted by id alone.    *)
StillThere(v) == invitation[v].state # "none"

(* The WHERE clause of rotateInvitationToken.                              *)
Rotatable(v) == Live(v)

(* rotateInvitationToken; no row updated is ConflictError.                 *)
RotateInvitationToken(r) ==
    LET v == request[r].invite IN
    /\ request[r].phase = "read" /\ request[r].op = "resend"
    /\ invitation[v].token < MaxResends
    /\ invitation' = IF Rotatable(v)
                     THEN [invitation EXCEPT ![v] = [@ EXCEPT !.token = invitation[v].token + 1,
                                                              !.expired = FALSE]]
                     ELSE invitation
    /\ End(r)
    /\ UNCHANGED <<member, account>>

(* revokeInvitation: updateMany where still live, else NotFoundError.      *)
RevokeInvitation(r) ==
    LET v == request[r].invite IN
    /\ request[r].phase = "read" /\ request[r].op = "revoke"
    /\ invitation' = IF Live(v) THEN [invitation EXCEPT ![v].state = "revoked"]
                     ELSE invitation
    /\ End(r)
    /\ UNCHANGED <<member, account>>

(* `expiresAt` passes.                                                     *)
Expire(v) ==
    /\ Live(v) /\ ~invitation[v].expired
    /\ invitation' = [invitation EXCEPT ![v].expired = TRUE]
    /\ UNCHANGED <<member, account, request>>

------------------------------------------------------------------------------
(* acceptInvitation and registerAndAcceptInvitation.                       *)

(* findInvitationByTokenHash: live and not expired.  A user with an        *)
(* account accepts, one without registers; the email is the invitation's.  *)
OpenInvitation(r, v) ==
    /\ request[r] = Idle
    /\ Live(v) /\ ~invitation[v].expired
    /\ request' = [request EXCEPT ![r] =
                     [Idle EXCEPT !.op = IF invitation[v].email \in account
                                         THEN "accept" ELSE "register",
                                  !.phase = "read", !.invite = v,
                                  !.target = invitation[v].email,
                                  !.to = invitation[v].role]]
    /\ UNCHANGED <<member, account, invitation>>

(* The WHERE clause of markInvitationAccepted.  The token and the expiry   *)
(* are not looked at again.                                                *)
StillAcceptable(v) == Live(v)

(* Inserts of the memberships row and, when registering, of the users row  *)
(* obey their unique constraints: a violation aborts the transaction, so   *)
(* that no later statement of it takes effect.                             *)
Insertable(q) ==
    /\ member[q.target].role = "none"
    /\ q.op = "register" => q.target \notin account

AcceptInvitation(r) ==
    LET q == request[r] IN
    /\ q.op \in {"accept", "register"}
    /\ IF Insertable(q) /\ StillAcceptable(q.invite)
       THEN /\ member' = [member EXCEPT ![q.target] = [role |-> q.to, seat |-> @.seat + 1]]
            /\ account' = account \cup {q.target}
            /\ invitation' = [invitation EXCEPT ![q.invite].state = "accepted"]
            /\ EndChanging(r)
       ELSE End(r) /\ UNCHANGED <<member, account, invitation>>

(* registerUser: an account of its own, elsewhere.                         *)
RegisterUser(u) ==
    /\ u \notin account
    /\ account' = account \cup {u}
    /\ UNCHANGED <<member, invitation, request>>

------------------------------------------------------------------------------
Next ==
    \/ \E r \in Requests :
         \/ \E a \in Users, op \in OwnerOps : Authorize(r, a, op)
         \/ \E u \in Users, to \in Roles : ReadTarget(r, u, to) \/ CheckNotMember(r, u, to)
         \/ \E v \in Invitations : \/ CreateInvitation(r, v) \/ ReadInvitation(r, v)
                                   \/ OpenInvitation(r, v)
         \/ CountOwners(r) \/ WriteMember(r) \/ CheckNoLiveInvitation(r)
         \/ RotateInvitationToken(r) \/ RevokeInvitation(r) \/ AcceptInvitation(r)
         \/ Abandon(r)
    \/ \E v \in Invitations : Expire(v)
    \/ \E u \in Users : RegisterUser(u)

Spec == Init /\ [][Next]_vars
==============================================================================
