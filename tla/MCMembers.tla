------------------------------ MODULE MCMembers ------------------------------
(***************************************************************************)
(* Model checking of MembersProperties: users, invitations and requests    *)
(* are interchangeable, and no liveness is checked.                        *)
(***************************************************************************)
EXTENDS MembersProperties, TLC

Symmetry ==
    Permutations(Users) \cup Permutations(Invitations) \cup Permutations(Requests)
==============================================================================
