-------------------------- MODULE ReviewedContract --------------------------
(***************************************************************************)
(* A contract as the reviewers of its extractions may think of it.  Who    *)
(* writes it prepares the values first and writes them later: an apply     *)
(* takes values that are approved at that time, an edit takes those the    *)
(* contract has.  An approval may be withdrawn, which a write that was     *)
(* prepared before does not notice.  Every write moves the version on, and *)
(* a deletion is final.  Jobs, workers and recovery are left out.          *)
(***************************************************************************)
EXTENDS Integers

CONSTANTS Jobs, NoJob, Users

VARIABLES version, deleted,
          source, gen,   \* the extraction and the generation the contract shows
          approved,      \* approved[j]: generations of j its reviewers stand by
          prepared       \* prepared[u]: the <<source, gen>> user u is about to
                         \* write, if any

contract == <<version, deleted, source, gen>>

Init ==
    /\ version = 0 /\ deleted = FALSE
    /\ source = NoJob /\ gen = 0
    /\ approved = [j \in Jobs |-> {}]
    /\ prepared = [u \in Users |-> {}]

(* A verdict on one generation; the reviewer has prepared nothing else.    *)
Approve(j) ==
    /\ \E g \in approved'[j] : approved' = [approved EXCEPT ![j] = @ \cup {g}]
    /\ UNCHANGED <<contract, prepared>>

Withdraw(j) ==
    /\ \E g \in approved[j] : approved' = [approved EXCEPT ![j] = @ \ {g}]
    /\ UNCHANGED <<contract, prepared>>

Open(u) ==
    /\ ~deleted /\ prepared[u] = {}
    /\ prepared' = [prepared EXCEPT ![u] = {<<source, gen>>}]
    /\ UNCHANGED <<contract, approved>>

Take(u, j) ==
    /\ prepared[u] = {}
    /\ \E g \in approved[j] : prepared' = [prepared EXCEPT ![u] = {<<j, g>>}]
    /\ UNCHANGED <<contract, approved>>

GiveUp(u) ==
    /\ prepared' = [prepared EXCEPT ![u] = {}]
    /\ UNCHANGED <<contract, approved>>

Write(u) ==
    /\ ~deleted
    /\ <<source', gen'>> \in prepared[u]
    /\ version' = version + 1
    /\ prepared' = [prepared EXCEPT ![u] = {}]
    /\ UNCHANGED <<deleted, approved>>

Delete ==
    /\ ~deleted
    /\ deleted' = TRUE /\ version' = version + 1
    /\ UNCHANGED <<source, gen, approved, prepared>>

Next ==
    \/ Delete
    \/ \E j \in Jobs : Approve(j) \/ Withdraw(j)
    \/ \E u \in Users : Open(u) \/ GiveUp(u) \/ Write(u) \/ \E j \in Jobs : Take(u, j)

Spec == Init /\ [][Next]_<<contract, approved, prepared>>
=============================================================================
