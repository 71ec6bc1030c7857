---------------------------- MODULE RetainedFiles ----------------------------
(***************************************************************************)
(* The files of one contract from their upload to the end of retention, as *)
(* one who answers for their erasure sees them: no file is added when the  *)
(* window has passed, a file is erased once it is deleted, and the contract *)
(* goes last, with files that were all erased.  Who deletes, retries or    *)
(* purges, and where the objects are, is left out.                         *)
(***************************************************************************)
CONSTANT Files

VARIABLES contract, state

vars == <<contract, state>>

Init ==
    /\ contract = "live"
    /\ state = [f \in Files |-> "absent"]

End ==
    /\ \/ contract = "live" /\ contract' = "deleted"
       \/ contract = "deleted" /\ contract' = "elapsed"
    /\ UNCHANGED state

Move(f, from, to) ==
    /\ state[f] = from
    /\ state' = [state EXCEPT ![f] = to]
    /\ UNCHANGED contract

Add(f)    == contract \in {"live", "deleted"} /\ Move(f, "absent", "live")
Delete(f) == Move(f, "live", "deleted")
Erase(f)  == Move(f, "deleted", "erased")

Purge ==
    /\ contract = "elapsed" /\ contract' = "gone"
    /\ \A f \in Files : state[f] \notin {"live", "deleted"}
    /\ state' = [f \in Files |-> IF state[f] = "erased" THEN "purged" ELSE state[f]]

Next == End \/ Purge \/ \E f \in Files : Add(f) \/ Delete(f) \/ Erase(f)

Spec == Init /\ [][Next]_vars
==============================================================================
