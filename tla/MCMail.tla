------------------------------- MODULE MCMail -------------------------------
(***************************************************************************)
(* The letters of mail delivery for TLC: which letter and which recovery   *)
(* is which makes no difference to the properties.                         *)
(***************************************************************************)
EXTENDS MailProperties, TLC, FiniteSets, Functions

Symmetry == Permutations(Letters) \cup Permutations(Recoveries)

Senders == {l \in Letters : sender[l] \notin {"none", "gone"}}

(* The bound on what is under way beside the recoveries: senders, and      *)
(* calls that have opened a link.                                          *)
TwoAtATime == Cardinality(Senders) + FoldFunction(+, 0, opened) <= 2
=============================================================================
