------------------------------- MODULE Roster -------------------------------
(***************************************************************************)
(* An organization as its members may think of it: each operation is one   *)
(* step.  Requests, what they have read and when an invitation expires are *)
(* left out.                                                               *)
(***************************************************************************)
EXTENDS Integers

CONSTANTS Users, Invitations, NoUser

VARIABLES role,        \* role[u]: u's role, "none" when not a member
          invitation   \* invitation[v]: its state, addressee, role and token

Roles == {"OWNER", "MEMBER"}

Init ==
    /\ \E founder \in Users :
         role = [u \in Users |-> IF u = founder THEN "OWNER" ELSE "none"]
    /\ invitation = [v \in Invitations |->
                       [state |-> "none", email |-> NoUser, role |-> "MEMBER", token |-> 0]]

Invite(v, u, r) ==
    /\ invitation[v].state = "none"
    /\ invitation' = [invitation EXCEPT ![v] =
                       [state |-> "live", email |-> u, role |-> r, token |-> @.token]]
    /\ UNCHANGED role

Live(v) == invitation[v].state = "live"

Resend(v) ==
    /\ Live(v)
    /\ invitation' = [invitation EXCEPT ![v].token = @ + 1]
    /\ UNCHANGED role

Revoke(v) ==
    /\ Live(v)
    /\ invitation' = [invitation EXCEPT ![v].state = "revoked"]
    /\ UNCHANGED role

(* The only way in: a live invitation is used up.                          *)
Join(v, u) ==
    /\ Live(v) /\ invitation[v].email = u
    /\ role[u] = "none"
    /\ role' = [role EXCEPT ![u] = invitation[v].role]
    /\ invitation' = [invitation EXCEPT ![v].state = "accepted"]

(* Only a member gets another role, or is removed.                         *)
SetRole(u, r) ==
    /\ role[u] # "none"
    /\ role' = [role EXCEPT ![u] = r]
    /\ UNCHANGED invitation

Next ==
    \/ \E v \in Invitations :
         \/ Resend(v) \/ Revoke(v)
         \/ \E u \in Users : Join(v, u) \/ \E r \in Roles : Invite(v, u, r)
    \/ \E u \in Users, r \in Roles \cup {"none"} : SetRole(u, r)

Spec == Init /\ [][Next]_<<role, invitation>>
==============================================================================
