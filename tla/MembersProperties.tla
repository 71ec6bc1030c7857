-------------------------- MODULE MembersProperties --------------------------
(***************************************************************************)
(* Who can be in the organization, and whether somebody still owns it.     *)
(***************************************************************************)
EXTENDS OrganizationMembers

(* The last OWNER is lost only when the membership rows changed between    *)
(* the count of owners (or, for a target read as MEMBER, that read) and    *)
(* the write: two transactions overlapped.  In any other order of calls,   *)
(* however stale their authorization, an OWNER remains (isLastOwner).      *)
LastOwnerLostOnlyInOverlap ==
    [][Owners # {} /\ Owners' = {} =>
         \E r \in Requests : /\ ReadyToWrite(request[r])
                             /\ request'[r] = Idle
                             /\ ~request[r].fresh]_vars

(* Nobody enters except through an invitation for his email that is        *)
(* neither revoked nor used up, and with the role it grants: an accept     *)
(* racing a revoke or another accept never lets two succeed                *)
(* (markInvitationAccepted).                                               *)
JoinsThroughLiveInvitation ==
    [][\A u \in Users :
         member[u].role = "none" /\ member'[u].role # "none" =>
           \E v \in Invitations : /\ invitation[v].email = u
                                  /\ invitation[v].state = "live"
                                  /\ invitation'[v].state = "accepted"
                                  /\ member'[u].role = invitation[v].role]_vars

(* An invitation that was accepted or revoked never changes again: resend, *)
(* revoke and accept each re-check it at write time.                       *)
SettledInvitationsStay ==
    [][\A v \in Invitations :
         invitation[v].state \in {"accepted", "revoked"}
           => invitation'[v] = invitation[v]]_vars

(* What the tables hold for the organization's members.                    *)
RoleOf == [u \in Users |-> member[u].role]

Letter(i) == [state |-> i.state, email |-> i.email, role |-> i.role, token |-> i.token]

Letters == [v \in Invitations |-> Letter(invitation[v])]

(* However the statements of concurrent calls interleave, each operation   *)
(* happens at once or not at all, and what it is about is still so when it *)
(* happens: one invitation lets one user in, once, with its role; a        *)
(* settled invitation never changes; only members get a role (the WHERE    *)
(* clauses of membership-repository.ts and invitation-repository.ts).      *)
Organization == INSTANCE Roster WITH role <- RoleOf, invitation <- Letters

RosterSpec == Organization!Spec

(* change-member-role.ts: "a race between two concurrent demotions of two  *)
(* different OWNERs down to the last one cannot both succeed".             *)
AlwaysAnOwner == Owners # {}
==============================================================================
