------------------------------ MODULE MCAccount ------------------------------
(***************************************************************************)
(* Account security for TLC: links, passwords and calls are                *)
(* interchangeable.                                                        *)
(***************************************************************************)
EXTENDS AccountProperties, TLC

Symmetry == Permutations(Tokens) \cup Permutations(Requests) \cup Permutations(Passwords)
==============================================================================
