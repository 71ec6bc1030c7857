----------------------------- MODULE ClauseIndex -----------------------------
(***************************************************************************)
(* The embeddings of an organization's clauses as retrieval and the bill   *)
(* see them: a clause's embeddings are numbered without a gap, the newest  *)
(* one is read, work is reported as done when it is, and a call is made    *)
(* within every limit.  Queues, workers, reservations and what one of them *)
(* has read are left out.                                                  *)
(***************************************************************************)
EXTENDS Naturals

CONSTANTS Clauses, Limits

VARIABLES versions, latest,
          completed,  \* clauses reported as embedded
          calls       \* provider calls to pay for

vars == <<versions, latest, completed, calls>>

Init ==
    /\ versions = [c \in Clauses |-> {}] /\ latest = [c \in Clauses |-> {}]
    /\ completed = {}
    /\ calls \in Nat /\ \A n \in Limits : calls <= n

Append(c) ==
    /\ \E n \in {1} \cup {v + 1 : v \in versions[c]} :
         /\ versions[c] = 1 .. (n - 1)
         /\ versions' = [versions EXCEPT ![c] = 1 .. n]
         /\ latest' = [latest EXCEPT ![c] = {n}]
    /\ UNCHANGED <<completed, calls>>

Complete(c) ==
    /\ versions[c] # {}
    /\ completed' = completed \cup {c}
    /\ UNCHANGED <<versions, latest, calls>>

Reopen(c) ==
    /\ completed' = completed \ {c}
    /\ UNCHANGED <<versions, latest, calls>>

Call ==
    /\ \A n \in Limits : calls < n
    /\ calls' = calls + 1
    /\ UNCHANGED <<versions, latest, completed>>

GiveBack ==
    /\ calls > 0
    /\ calls' = calls - 1
    /\ UNCHANGED <<versions, latest, completed>>

Next == Call \/ GiveBack \/ \E c \in Clauses : Append(c) \/ Complete(c) \/ Reopen(c)

Spec == Init /\ [][Next]_vars
==============================================================================
