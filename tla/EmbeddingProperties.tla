------------------------- MODULE EmbeddingProperties -------------------------
(***************************************************************************)
(* What retrieval and the organization's budget may rely on.               *)
(***************************************************************************)
EXTENDS ClauseEmbedding

(* Retrieval reads the rows with isLatest: a clause that was embedded once *)
(* has exactly one, its newest, however many workers and backfills write   *)
(* at once and wherever they fail (createLatestClauseEmbedding: "a reader  *)
(* can never observe a moment with zero or two").                          *)
OneLatest ==
    \A c \in Clauses :
        versions[c] # {} => \E v \in versions[c] : /\ latest[c] = {v}
                                                   /\ \A u \in versions[c] : u <= v

(* A job that reads COMPLETED has left an embedding to retrieve, also when *)
(* recovery and slow workers have rewritten its status in between.         *)
CompletedIsEmbedded == \A c \in Clauses : job[c].status = "COMPLETED" => Embedded(c)

(* The request limits hold for the calls the provider answered, except     *)
(* those runClaimedJob gives back because a later step of it threw.        *)
CallsWithinLimits == counted <= Limit["month"] /\ counted <= Limit["day"]

(* Runs between their reservation and their settlement.                    *)
Unsettled == {w \in Workers : "cost" \in worker[w].held /\ worker[w].phase # "settled"}

(* The worst case of all calls under way stays within the budget           *)
(* (reserveAiBudget), unless a settlement was applied and then answered by *)
(* an exception: the catch releases that reservation once more.            *)
InFlightWithinBudget == ~forgiven => Estimate * Cardinality(Unsettled) <= Limit["cost"]

(* Runs that hold counter k for a call that was not answered.              *)
Awaiting(k) == {w \in Workers : k \in worker[w].held /\ ~Paid(w)}

(* A refused or failed run leaves no request counted, whatever was         *)
(* reserved when it was refused ("a caller never ends up with a partial    *)
(* reservation leaking budget headroom"); only a run that dies does.       *)
HeadroomReturned ==
    \A k \in {"month", "day"} : used[k] <= counted + Cardinality(Awaiting(k)) + lost

(* The clauses whose job says that they are embedded.                      *)
Completed == {c \in Clauses : job[c].status = "COMPLETED"}

(* However workers, recovery and backfills overlap, throw and die, what    *)
(* they leave is an index: the embeddings of a clause are numbered without *)
(* a gap and the newest is read, a job that reads COMPLETED has one, and a *)
(* call is made only within both request limits.                           *)
Index == INSTANCE ClauseIndex
           WITH completed <- Completed, calls <- counted,
                Limits <- {Limit["month"], Limit["day"]}

ClauseIndexSpec == Index!Spec

(* Every clause's job comes to rest for good, through throwing runs, dead  *)
(* workers and a recovery that takes jobs from live ones.                  *)
JobsComeToRest == \A c \in Clauses : <>[](job[c].status \in {"COMPLETED", "FAILED"})
==============================================================================
