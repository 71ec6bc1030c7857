--------------------------- MODULE ClauseEmbedding ---------------------------
(***************************************************************************)
(* The embedding queue and the AI budget it spends (features/ai/server,    *)
(* server/services/ai/budget).  Any number of ai:process-embeddings        *)
(* workers claim jobs, reserve the organization's budget, call the         *)
(* provider, store the new latest embedding of the clause and settle;      *)
(* ai:recover-stale-embeddings takes jobs away from workers it believes    *)
(* dead, and the embedding backfill writes embeddings next to them.        *)
(*                                                                         *)
(* One organization with all three limits configured, within one day of    *)
(* one month.  A clause's text never changes and a clause is not deleted   *)
(* while it is queued.  Any PROCESSING job may be found stale.             *)
(***************************************************************************)
EXTENDS Integers, FiniteSets

CONSTANTS Clauses, Workers,
          Backfillers,   \* runs of the embedding backfill
          MaxAttempts,   \* EmbeddingJob.maxAttempts
          Limit,         \* what the organization may use of each counter
          Estimate,      \* the estimated cost of a call
          Actuals,       \* what a call may cost in fact
          Earlier,       \* how many free calls other features may have made before
          MaxVersions,   \* bound: versions a backfill still adds to
          NoClause

Counters == {"cost", "month", "day"}

ASSUME WorkersAssumption == IsFiniteSet(Workers) /\ Workers \cap Backfillers = {}
ASSUME ClausesAssumption == NoClause \notin Clauses
ASSUME NumbersAssumption ==
    /\ MaxAttempts \in Nat \ {0} /\ MaxVersions \in Nat /\ Estimate \in Nat
    /\ Actuals \subseteq Nat
    /\ Limit \in [Counters -> Nat]
    /\ \A n \in Earlier : n \in 0..Limit["month"] /\ n \in 0..Limit["day"]

VARIABLES job,       \* job[c]: the embedding_jobs row of c's text
          versions,  \* versions[c]: the clause_embeddings rows of c
          latest,    \* latest[c]: those of them with isLatest
          worker,    \* worker[w]: the job w runs, as w claimed it
          filler,    \* filler[b]: the clause a backfill embeds
          listed,    \* stale jobs recovery has yet to treat
          used,      \* the three budget counters
          counted,   \* provider calls not given back (history)
          lost,      \* runs that ended holding an unused reservation (history)
          forgiven   \* a settlement was applied and then released (history)

vars == <<job, versions, latest, worker, filler, listed, used, counted, lost, forgiven>>

Job    == [status : {"absent", "PENDING", "PROCESSING", "COMPLETED", "FAILED"}, attempt : Nat]
Phases == {"idle", "claimed", "rolling", "refused", "reserved", "paid", "read", "written",
           "completed", "settled", "failing", "released"}
Worker == [phase : Phases, clause : Clauses \cup {NoClause}, attempt : Nat,
           held : SUBSET Counters,  \* the reservation
           previous : Nat,          \* previousLatest's version, 0 for none
           actual : Nat]
Filler == [phase : {"idle", "called", "read"}, clause : Clauses \cup {NoClause}, previous : Nat]

Idle    == [phase |-> "idle", clause |-> NoClause, attempt |-> 0, held |-> {}, previous |-> 0,
            actual |-> 0]
Resting == [phase |-> "idle", clause |-> NoClause, previous |-> 0]

TypeOK ==
    /\ job \in [Clauses -> Job]
    /\ versions \in [Clauses -> SUBSET Nat]
    /\ latest \in [Clauses -> SUBSET Nat]
    /\ worker \in [Workers -> Worker]
    /\ filler \in [Backfillers -> Filler]
    /\ listed \subseteq [clause : Clauses, attempt : Nat]
    /\ used \in [Counters -> Nat]
    /\ counted \in Nat /\ lost \in Nat /\ forgiven \in BOOLEAN

Init ==
    /\ job = [c \in Clauses |-> [status |-> "absent", attempt |-> 0]]
    /\ versions = [c \in Clauses |-> {}] /\ latest = [c \in Clauses |-> {}]
    /\ worker = [w \in Workers |-> Idle]
    /\ filler = [b \in Backfillers |-> Resting]
    /\ listed = {}
    /\ counted \in Earlier
    /\ used = [k \in Counters |-> IF k = "cost" THEN 0 ELSE counted]
    /\ lost = 0 /\ forgiven = FALSE

Embedded(c) == latest[c] # {}

(* The provider has answered and the run has not failed since.             *)
Paid(w) == worker[w].phase \in {"paid", "read", "written", "completed", "settled"}

WorkerMoves(w, phase) == worker' = [worker EXCEPT ![w].phase = phase]
StatusBecomes(c, status) == job' = [job EXCEPT ![c].status = status]

------------------------------------------------------------------------------
(* Enqueueing and claiming.                                                *)

(* After segmentation or by the daily scan; a second insert is a no-op.    *)
Enqueue(c) ==
    /\ job[c].status = "absent" /\ ~Embedded(c)
    /\ StatusBecomes(c, "PENDING")
    /\ UNCHANGED <<versions, latest, worker, filler, listed, used, counted, lost, forgiven>>

(* claimNextPendingEmbeddingJob, of any pending job.                       *)
Claim(w, c) ==
    /\ worker[w] = Idle
    /\ job[c].status = "PENDING"
    /\ job' = [job EXCEPT ![c] = [status |-> "PROCESSING", attempt |-> @.attempt + 1]]
    /\ worker' = [worker EXCEPT ![w] = [Idle EXCEPT !.phase = "claimed", !.clause = c,
                                                    !.attempt = job[c].attempt + 1]]
    /\ UNCHANGED <<versions, latest, filler, listed, used, counted, lost, forgiven>>

------------------------------------------------------------------------------
(* reserveAiBudget.                                                        *)

Amount(k) == IF k = "cost" THEN Estimate ELSE 1

(* The counters are reserved and released in this order.                   *)
First(K) == IF "cost" \in K THEN "cost" ELSE IF "month" \in K THEN "month" ELSE "day"

AtLeastZero(n) == IF n < 0 THEN 0 ELSE n

(* Mutant: the limit is compared with what was there before.               *)
FitsBefore(k) == used[k] <= Limit[k]

(* BUDGET_RESERVE_SCRIPT                                                   *)
Fits(k) == used[k] + Amount(k) <= Limit[k]

Reserve(w) ==
    /\ worker[w].phase = "claimed"
    /\ LET k    == First(Counters \ worker[w].held)
           held == worker[w].held \cup {k}
       IN /\ Fits(k)
          /\ used' = [used EXCEPT ![k] = @ + Amount(k)]
          /\ worker' = [worker EXCEPT ![w].held = held,
                                      ![w].phase = IF held = Counters THEN "reserved" ELSE @]
    /\ UNCHANGED <<job, versions, latest, filler, listed, counted, lost, forgiven>>

RejectReservation(w) ==
    /\ worker[w].phase = "claimed"
    /\ ~Fits(First(Counters \ worker[w].held))
    /\ WorkerMoves(w, IF worker[w].held = {} THEN "refused" ELSE "rolling")
    /\ UNCHANGED <<job, versions, latest, filler, listed, used, counted, lost, forgiven>>

(* Mutant: the request counters are not given back.                        *)
GiveBackCostOnly(k) == IF k = "cost" THEN [used EXCEPT ![k] = AtLeastZero(@ - Amount(k))] ELSE used

(* Mutant: the release does not stop at zero.                              *)
GivenBackInFull(k) == [used EXCEPT ![k] = @ - Amount(k)]

(* BUDGET_RELEASE_SCRIPT                                                   *)
GivenBack(k) == [used EXCEPT ![k] = AtLeastZero(@ - Amount(k))]

(* rollbackAndReject, and releaseAiBudget in the catch of runClaimedJob.   *)
Release(w) ==
    /\ worker[w].phase \in {"rolling", "failing"}
    /\ LET k    == First(worker[w].held)
           held == worker[w].held \ {k}
           over == IF worker[w].phase = "rolling" THEN "refused" ELSE "released"
       IN /\ used' = GivenBack(k)
          /\ worker' = [worker EXCEPT ![w].held = held,
                                      ![w].phase = IF held = {} THEN over ELSE @]
    /\ UNCHANGED <<job, versions, latest, filler, listed, counted, lost, forgiven>>

------------------------------------------------------------------------------
(* runClaimedJob.                                                          *)

(* The organization's policy does not allow the provider.                  *)
PolicyRefuses(w) ==
    /\ worker[w].phase = "claimed" /\ worker[w].held = {}
    /\ WorkerMoves(w, "refused")
    /\ UNCHANGED <<job, versions, latest, filler, listed, used, counted, lost, forgiven>>

(* failJob                                                                 *)
FailRefused(w) ==
    /\ worker[w].phase = "refused"
    /\ StatusBecomes(worker[w].clause, "FAILED")
    /\ worker' = [worker EXCEPT ![w] = Idle]
    /\ UNCHANGED <<versions, latest, filler, listed, used, counted, lost, forgiven>>

CallProvider(w) ==
    /\ worker[w].phase = "reserved"
    /\ \E actual \in Actuals :
         worker' = [worker EXCEPT ![w].phase = "paid", ![w].actual = actual]
    /\ counted' = counted + 1
    /\ UNCHANGED <<job, versions, latest, filler, listed, used, lost, forgiven>>

(* createLatestClauseEmbedding reads the latest row first ...              *)
Previous(c, v) == v \in latest[c] \/ (v = 0 /\ latest[c] = {})

ReadLatest(w) ==
    /\ worker[w].phase = "paid"
    /\ \E v \in latest[worker[w].clause] \cup {0} :
         /\ Previous(worker[w].clause, v)
         /\ worker' = [worker EXCEPT ![w].phase = "read", ![w].previous = v]
    /\ UNCHANGED <<job, versions, latest, filler, listed, used, counted, lost, forgiven>>

(* Mutant: the rows are counted.                                           *)
CountedVersion(c, v) == Cardinality(versions[c]) + 1

(* embeddingVersion                                                        *)
NextVersion(c, v) == v + 1

(* ... and its insert fails when another writer took the next version.     *)
StoreLatest(c, v) ==
    /\ NextVersion(c, v) \notin versions[c]
    /\ versions' = [versions EXCEPT ![c] = @ \cup {NextVersion(c, v)}]
    /\ latest' = [latest EXCEPT ![c] = (@ \ {v}) \cup {NextVersion(c, v)}]

WriteLatest(w) ==
    /\ worker[w].phase = "read"
    /\ StoreLatest(worker[w].clause, worker[w].previous)
    /\ WorkerMoves(w, "written")
    /\ UNCHANGED <<job, filler, listed, used, counted, lost, forgiven>>

(* Mutant: the job is completed before its embedding is stored.            *)
CompletedFirst(w) == worker[w].phase \in {"paid", "written"}

Completable(w) == worker[w].phase = "written"

CompleteJob(w) ==
    /\ Completable(w)
    /\ StatusBecomes(worker[w].clause, "COMPLETED")
    /\ WorkerMoves(w, "completed")
    /\ UNCHANGED <<versions, latest, filler, listed, used, counted, lost, forgiven>>

(* BUDGET_ADJUST_SCRIPT                                                    *)
Corrected(w) == AtLeastZero(used["cost"] + (worker[w].actual - Estimate))

SettleBudget(w) ==
    /\ worker[w].phase = "completed"
    /\ used' = [used EXCEPT !["cost"] = Corrected(w)]
    /\ WorkerMoves(w, "settled")
    /\ UNCHANGED <<job, versions, latest, filler, listed, counted, lost, forgiven>>

FinishRun(w) ==
    /\ worker[w].phase = "settled"
    /\ worker' = [worker EXCEPT ![w] = Idle]
    /\ UNCHANGED <<job, versions, latest, filler, listed, used, counted, lost, forgiven>>

(* Anything in the try throws, the last step done or not: the provider,    *)
(* the unique key, the database, or the answer to a settlement.            *)
RunThrows(w) ==
    /\ worker[w].phase = "reserved" \/ Paid(w)
    /\ worker[w].phase = "settled" => worker[w].actual # Estimate
    /\ WorkerMoves(w, "failing")
    /\ counted' = IF Paid(w) THEN counted - 1 ELSE counted
    /\ forgiven' = (forgiven \/ worker[w].phase = "settled")
    /\ UNCHANGED <<job, versions, latest, filler, listed, used, lost>>

(* The end of the catch decides by the attempt the worker claimed.         *)
EndFailedRun(w) ==
    /\ worker[w].phase = "released"
    /\ StatusBecomes(worker[w].clause,
                     IF worker[w].attempt >= MaxAttempts THEN "FAILED" ELSE "PENDING")
    /\ worker' = [worker EXCEPT ![w] = Idle]
    /\ UNCHANGED <<versions, latest, filler, listed, used, counted, lost, forgiven>>

(* The process dies, or something outside the try throws.                  *)
WorkerDies(w) ==
    /\ worker[w].phase # "idle"
    /\ worker' = [worker EXCEPT ![w] = Idle]
    /\ lost' = IF worker[w].held # {} /\ ~Paid(w) THEN lost + 1 ELSE lost
    /\ UNCHANGED <<job, versions, latest, filler, listed, used, counted, forgiven>>

------------------------------------------------------------------------------
(* recoverStaleEmbeddingJobs.                                              *)

(* findStaleProcessingEmbeddingJobs                                        *)
RecoveryScan ==
    /\ listed = {}
    /\ listed' = {[clause |-> c, attempt |-> job[c].attempt] :
                    c \in {d \in Clauses : job[d].status = "PROCESSING"}}
    /\ listed' # {}
    /\ UNCHANGED <<job, versions, latest, worker, filler, used, counted, lost, forgiven>>

(* Mutant: a job without attempts left is passed over.                     *)
PassedOver(l) == IF l.attempt < MaxAttempts THEN "PENDING" ELSE job[l.clause].status

RecoveredTo(l) == IF l.attempt < MaxAttempts THEN "PENDING" ELSE "FAILED"

(* By id, whatever the job has become since.                               *)
RecoverJob(c) ==
    /\ \E l \in listed :
         /\ l.clause = c
         /\ StatusBecomes(c, RecoveredTo(l))
         /\ listed' = listed \ {l}
    /\ UNCHANGED <<versions, latest, worker, filler, used, counted, lost, forgiven>>

RecoveryDies ==
    /\ listed # {}
    /\ listed' = {}
    /\ UNCHANGED <<job, versions, latest, worker, filler, used, counted, lost, forgiven>>

------------------------------------------------------------------------------
(* runEmbeddingBackfill: clauses that have an embedding, of another model. *)

BackfillClause(b, c) ==
    /\ filler[b] = Resting
    /\ Embedded(c) /\ \A v \in versions[c] : v < MaxVersions
    /\ filler' = [filler EXCEPT ![b] = [Resting EXCEPT !.phase = "called", !.clause = c]]
    /\ UNCHANGED <<job, versions, latest, worker, listed, used, counted, lost, forgiven>>

BackfillRead(b) ==
    /\ filler[b].phase = "called"
    /\ \E v \in latest[filler[b].clause] \cup {0} :
         /\ Previous(filler[b].clause, v)
         /\ filler' = [filler EXCEPT ![b].phase = "read", ![b].previous = v]
    /\ UNCHANGED <<job, versions, latest, worker, listed, used, counted, lost, forgiven>>

BackfillWrite(b) ==
    /\ filler[b].phase = "read"
    /\ StoreLatest(filler[b].clause, filler[b].previous)
    /\ filler' = [filler EXCEPT ![b] = Resting]
    /\ UNCHANGED <<job, worker, listed, used, counted, lost, forgiven>>

(* The clause is reported as failed, or the run ends.                      *)
BackfillFails(b) ==
    /\ filler[b].phase # "idle"
    /\ filler' = [filler EXCEPT ![b] = Resting]
    /\ UNCHANGED <<job, versions, latest, worker, listed, used, counted, lost, forgiven>>

------------------------------------------------------------------------------
RunStep(w) ==
    \/ Reserve(w) \/ RejectReservation(w) \/ Release(w) \/ PolicyRefuses(w) \/ FailRefused(w)
    \/ CallProvider(w) \/ ReadLatest(w) \/ WriteLatest(w) \/ CompleteJob(w) \/ SettleBudget(w)
    \/ FinishRun(w) \/ RunThrows(w) \/ EndFailedRun(w) \/ WorkerDies(w)

Next ==
    \/ \E c \in Clauses : Enqueue(c) \/ RecoverJob(c)
    \/ \E w \in Workers : RunStep(w) \/ \E c \in Clauses : Claim(w, c)
    \/ RecoveryScan \/ RecoveryDies
    \/ \E b \in Backfillers :
         BackfillRead(b) \/ BackfillWrite(b) \/ BackfillFails(b)
         \/ \E c \in Clauses : BackfillClause(b, c)

Spec == Init /\ [][Next]_vars

(* The scheduler starts the scan, the workers and the recovery for ever,   *)
(* and a run that does not die comes to its end.                           *)
Fairness ==
    /\ \A c \in Clauses : WF_vars(Enqueue(c))
    /\ \A c \in Clauses : SF_vars(\E w \in Workers : Claim(w, c))
    /\ \A w \in Workers : WF_vars(RunStep(w))
    /\ WF_vars(RecoveryScan)
    /\ \A c \in Clauses : SF_vars(RecoverJob(c))

FairSpec == Spec /\ Fairness
==============================================================================
