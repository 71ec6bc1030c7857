--------------------------- MODULE EmbeddingProofs ---------------------------
(***************************************************************************)
(* The properties of the embedding queue for any number of clauses,        *)
(* workers, backfills and attempts and any limits.  Two arguments meet:    *)
(* versions are dense, so the unique key admits the writer that read the   *)
(* newest one and no other; and each counter is at least what the live     *)
(* reservations add up to, which is counted run by run.                    *)
(***************************************************************************)
EXTENDS EmbeddingProperties, FiniteSetTheorems, TLAPS

PaidPhases == {"paid", "read", "written", "completed", "settled"}

(* The versions of a clause are 1 to n, and n is the latest.               *)
Rows ==
    \A c \in Clauses :
        \/ versions[c] = {} /\ latest[c] = {}
        \/ \E n \in Nat : n > 0 /\ versions[c] = 1 .. n /\ latest[c] = {n}

(* What a run holds in each of its phases, and what it has seen or stored. *)
Sound(r) ==
    /\ r.phase # "idle" => r.clause \in Clauses
    /\ r.phase \in {"idle", "refused", "released"} => r.held = {}
    /\ r.phase = "claimed" => r.held # Counters
    /\ r.phase \in {"rolling", "failing"} => r.held # {}
    /\ r.phase \in {"reserved"} \cup PaidPhases => r.held = Counters

Seen(r, all) ==
    /\ r.phase = "read" => r.previous \in all[r.clause] \cup {0}
    /\ r.phase \in {"written", "completed", "settled"} => all[r.clause] # {}

RunsInOrder == \A w \in Workers : Sound(worker[w]) /\ Seen(worker[w], versions)

FillersInOrder ==
    \A b \in Backfillers :
        /\ filler[b].phase # "idle" => filler[b].clause \in Clauses
        /\ filler[b].phase = "read" => filler[b].previous \in versions[filler[b].clause] \cup {0}

CompletedStored == \A c \in Clauses : job[c].status = "COMPLETED" => versions[c] # {}

(* What a run counts for: an estimate, a request, an answered call.        *)
Costs(r) == "cost" \in r.held /\ r.phase # "settled"
Awaits(r, k) == k \in r.held /\ r.phase \notin PaidPhases
Answered(r) == r.phase \in PaidPhases

AnsweredRuns == {w \in Workers : Answered(worker[w])}

BudgetKept ==
    ~forgiven => /\ Estimate * Cardinality(Unsettled) <= used["cost"]
                 /\ Estimate * Cardinality(Unsettled) <= Limit["cost"]

RequestsKept ==
    /\ Cardinality(AnsweredRuns) <= counted
    /\ \A k \in {"month", "day"} :
         /\ counted + Cardinality(Awaiting(k)) <= used[k]
         /\ used[k] <= counted + Cardinality(Awaiting(k)) + lost
         /\ used[k] <= Limit[k]

IInv ==
    /\ TypeOK /\ Rows /\ RunsInOrder /\ FillersInOrder /\ CompletedStored
    /\ BudgetKept /\ RequestsKept

------------------------------------------------------------------------------
(* Counting runs.                                                          *)

Ind(b) == IF b THEN 1 ELSE 0

(* First picks one of the counters it is given.                            *)
LEMMA FirstIn ==
  ASSUME NEW K \in SUBSET Counters, K # {}
  PROVE  First(K) \in K
BY DEF First, Counters

(* A set of workers gains or loses at most the worker that moves.          *)
LEMMA CardMoved ==
  ASSUME NEW A \in SUBSET Workers, NEW w \in Workers, NEW b \in BOOLEAN, NEW B,
         B = IF b THEN A \cup {w} ELSE A \ {w}
  PROVE  /\ Cardinality(A) \in Nat /\ Cardinality(B) \in Nat
         /\ w \in A => Cardinality(B) = Cardinality(A) - 1 + Ind(b)
         /\ w \notin A => Cardinality(B) = Cardinality(A) + Ind(b)
<1>1. IsFiniteSet(A)
  BY WorkersAssumption, FS_Subset
<1>2. Cardinality(A) \in Nat
  BY <1>1, FS_CardinalityType
<1>3. IsFiniteSet(B) /\ Cardinality(B) = (IF b THEN Cardinality(A \cup {w})
                                               ELSE Cardinality(A \ {w}))
  BY <1>1, FS_AddElement, FS_RemoveElement
<1>4. Cardinality(B) \in Nat
  BY <1>3, FS_CardinalityType
<1>5. CASE b
  BY <1>1, <1>2, <1>3, <1>4, <1>5, FS_AddElement DEF Ind
<1>6. CASE ~b
  BY <1>1, <1>2, <1>3, <1>4, <1>6, FS_RemoveElement DEF Ind
<1>. QED
  BY <1>5, <1>6

(* The three tallies after worker w became q.                              *)
LEMMA Tallied ==
  ASSUME TypeOK, NEW w \in Workers, NEW q,
         worker' = [worker EXCEPT ![w] = q]
  PROVE  /\ Cardinality(Unsettled) \in Nat /\ Cardinality(AnsweredRuns) \in Nat
         /\ Cardinality(Unsettled)' =
              Cardinality(Unsettled) - Ind(Costs(worker[w])) + Ind(Costs(q))
         /\ Cardinality(AnsweredRuns)' =
              Cardinality(AnsweredRuns) - Ind(Answered(worker[w])) + Ind(Answered(q))
         /\ \A k : /\ Cardinality(Awaiting(k)) \in Nat
                   /\ Cardinality(Awaiting(k))' =
                        Cardinality(Awaiting(k)) - Ind(Awaits(worker[w], k)) + Ind(Awaits(q, k))
<1>0. /\ worker'[w] = q
      /\ \A x \in Workers : x # w => worker'[x] = worker[x]
  BY DEF TypeOK
<1>1. /\ Unsettled \in SUBSET Workers
      /\ Unsettled' = IF Costs(q) THEN Unsettled \cup {w} ELSE Unsettled \ {w}
      /\ w \in Unsettled <=> Costs(worker[w])
      /\ Costs(q) \in BOOLEAN
  BY <1>0 DEF Unsettled, Costs
<1>2. /\ AnsweredRuns \in SUBSET Workers
      /\ AnsweredRuns' = IF Answered(q) THEN AnsweredRuns \cup {w} ELSE AnsweredRuns \ {w}
      /\ w \in AnsweredRuns <=> Answered(worker[w])
      /\ Answered(q) \in BOOLEAN
  BY <1>0 DEF AnsweredRuns, Answered
<1>3. ASSUME NEW k
      PROVE  /\ Awaiting(k) \in SUBSET Workers
             /\ Awaiting(k)' = IF Awaits(q, k) THEN Awaiting(k) \cup {w} ELSE Awaiting(k) \ {w}
             /\ w \in Awaiting(k) <=> Awaits(worker[w], k)
             /\ Awaits(q, k) \in BOOLEAN
  BY <1>0 DEF Awaiting, Awaits, Paid, PaidPhases
<1>4. /\ Cardinality(Unsettled) \in Nat
      /\ Cardinality(Unsettled') = Cardinality(Unsettled) - Ind(Costs(worker[w])) + Ind(Costs(q))
  <2>1. /\ Cardinality(Unsettled) \in Nat /\ Cardinality(Unsettled') \in Nat
        /\ w \in Unsettled => Cardinality(Unsettled') = Cardinality(Unsettled) - 1 + Ind(Costs(q))
        /\ w \notin Unsettled => Cardinality(Unsettled') = Cardinality(Unsettled) + Ind(Costs(q))
    BY <1>1, CardMoved
  <2>2. CASE w \in Unsettled
    <3>1. Ind(Costs(worker[w])) = 1
      BY <1>1, <2>2 DEF Ind
    <3>2. Ind(Costs(q)) \in {0, 1}
      BY <1>1 DEF Ind
    <3>. QED
      BY <2>1, <2>2, <3>1, <3>2
  <2>3. CASE w \notin Unsettled
    <3>1. Ind(Costs(worker[w])) = 0
      BY <1>1, <2>3 DEF Ind
    <3>2. Ind(Costs(q)) \in {0, 1}
      BY <1>1 DEF Ind
    <3>. QED
      BY <2>1, <2>3, <3>1, <3>2
  <2>. QED
    BY <2>2, <2>3
<1>5. /\ Cardinality(AnsweredRuns) \in Nat
      /\ Cardinality(AnsweredRuns') =
           Cardinality(AnsweredRuns) - Ind(Answered(worker[w])) + Ind(Answered(q))
  <2>1. /\ Cardinality(AnsweredRuns) \in Nat /\ Cardinality(AnsweredRuns') \in Nat
        /\ w \in AnsweredRuns => Cardinality(AnsweredRuns') = Cardinality(AnsweredRuns) - 1 + Ind(Answered(q))
        /\ w \notin AnsweredRuns => Cardinality(AnsweredRuns') = Cardinality(AnsweredRuns) + Ind(Answered(q))
    BY <1>2, CardMoved
  <2>2. CASE w \in AnsweredRuns
    <3>1. Ind(Answered(worker[w])) = 1
      BY <1>2, <2>2 DEF Ind
    <3>2. Ind(Answered(q)) \in {0, 1}
      BY <1>2 DEF Ind
    <3>. QED
      BY <2>1, <2>2, <3>1, <3>2
  <2>3. CASE w \notin AnsweredRuns
    <3>1. Ind(Answered(worker[w])) = 0
      BY <1>2, <2>3 DEF Ind
    <3>2. Ind(Answered(q)) \in {0, 1}
      BY <1>2 DEF Ind
    <3>. QED
      BY <2>1, <2>3, <3>1, <3>2
  <2>. QED
    BY <2>2, <2>3
<1>6. ASSUME NEW k
      PROVE  /\ Cardinality(Awaiting(k)) \in Nat
             /\ Cardinality(Awaiting(k)') =
                  Cardinality(Awaiting(k)) - Ind(Awaits(worker[w], k)) + Ind(Awaits(q, k))
  <2>1. /\ Cardinality(Awaiting(k)) \in Nat /\ Cardinality(Awaiting(k)') \in Nat
        /\ w \in Awaiting(k) => Cardinality(Awaiting(k)') = Cardinality(Awaiting(k)) - 1 + Ind(Awaits(q, k))
        /\ w \notin Awaiting(k) => Cardinality(Awaiting(k)') = Cardinality(Awaiting(k)) + Ind(Awaits(q, k))
    BY <1>3, CardMoved
  <2>2. CASE w \in Awaiting(k)
    <3>1. Ind(Awaits(worker[w], k)) = 1
      BY <1>3, <2>2 DEF Ind
    <3>2. Ind(Awaits(q, k)) \in {0, 1}
      BY <1>3 DEF Ind
    <3>. QED
      BY <2>1, <2>2, <3>1, <3>2
  <2>3. CASE w \notin Awaiting(k)
    <3>1. Ind(Awaits(worker[w], k)) = 0
      BY <1>3, <2>3 DEF Ind
    <3>2. Ind(Awaits(q, k)) \in {0, 1}
      BY <1>3 DEF Ind
    <3>. QED
      BY <2>1, <2>3, <3>1, <3>2
  <2>. QED
    BY <2>2, <2>3
<1>. QED
  BY <1>4, <1>5, <1>6

------------------------------------------------------------------------------
(* A worker step keeps the accounts if it changes a counter by what the    *)
(* worker stops or starts counting for.                                    *)

LEMMA Estimates == \A n \in Int : Estimate * (n + 1) = Estimate * n + Estimate
BY NumbersAssumption

(* The step w makes to q keeps the budget covered.                         *)
BudgetMoves(w, q) ==
    ~forgiven' =>
        /\ ~forgiven
        /\ \/ Costs(q) /\ Costs(worker[w]) /\ used'["cost"] >= used["cost"]
           \/ ~Costs(q) /\ Costs(worker[w]) /\ used'["cost"] >= used["cost"] - Estimate
           \/ ~Costs(q) /\ ~Costs(worker[w]) /\ used'["cost"] >= used["cost"]
           \/ /\ Costs(q) /\ ~Costs(worker[w])
              /\ used'["cost"] = used["cost"] + Estimate /\ used'["cost"] <= Limit["cost"]

LEMMA BudgetStep ==
  ASSUME IInv, NEW w \in Workers, NEW q, worker' = [worker EXCEPT ![w] = q],
         used' \in [Counters -> Nat], BudgetMoves(w, q)
  PROVE  BudgetKept'
<1>. SUFFICES ASSUME ~forgiven'
              PROVE  /\ Estimate * Cardinality(Unsettled)' <= used'["cost"]
                     /\ Estimate * Cardinality(Unsettled)' <= Limit["cost"]
  BY DEF BudgetKept
<1>. DEFINE n == Cardinality(Unsettled)
            m == Cardinality(Unsettled)'
<1>1. n \in Nat /\ m = n - Ind(Costs(worker[w])) + Ind(Costs(q))
  BY Tallied DEF IInv
<1>2. /\ Estimate * n <= used["cost"] /\ Estimate * n <= Limit["cost"]
      /\ used["cost"] \in Nat /\ used'["cost"] \in Nat /\ Limit["cost"] \in Nat
      /\ Estimate \in Nat
  BY NumbersAssumption DEF IInv, BudgetMoves, BudgetKept, TypeOK, Counters
<1>3. n \in Int /\ n - 1 \in Int
  BY <1>1
<1>. HIDE DEF n, m
<1>4. /\ Estimate * n \in Int /\ Estimate * (n - 1) \in Int
      /\ Estimate * (n + 1) = Estimate * n + Estimate
      /\ Estimate * n = Estimate * (n - 1) + Estimate
  <2>1. (n - 1) + 1 = n
    BY <1>3
  <2>. QED
    BY <1>2, <1>3, <2>1, Estimates
<1>. HIDE DEF Costs
<1>5. \/ Costs(q) /\ Costs(worker[w]) /\ used'["cost"] >= used["cost"]
      \/ ~Costs(q) /\ Costs(worker[w]) /\ used'["cost"] >= used["cost"] - Estimate
      \/ ~Costs(q) /\ ~Costs(worker[w]) /\ used'["cost"] >= used["cost"]
      \/ /\ Costs(q) /\ ~Costs(worker[w])
         /\ used'["cost"] = used["cost"] + Estimate /\ used'["cost"] <= Limit["cost"]
  BY DEF BudgetMoves
<1>6. \/ m = n /\ used'["cost"] >= used["cost"]
      \/ m = n - 1 /\ used'["cost"] >= used["cost"] - Estimate
      \/ m = n + 1 /\ used'["cost"] = used["cost"] + Estimate /\ used'["cost"] <= Limit["cost"]
  BY <1>1, <1>5 DEF Ind
<1>7. Estimate * m <= used'["cost"] /\ Estimate * m <= Limit["cost"]
  <2>1. CASE m = n /\ used'["cost"] >= used["cost"]
    BY <2>1, <1>2, <1>4
  <2>2. CASE m = n - 1 /\ used'["cost"] >= used["cost"] - Estimate
    BY <2>2, <1>2, <1>4
  <2>3. CASE m = n + 1 /\ used'["cost"] = used["cost"] + Estimate /\ used'["cost"] <= Limit["cost"]
    BY <2>3, <1>2, <1>4
  <2>. QED
    BY <1>6, <2>1, <2>2, <2>3
<1>. QED
  BY <1>7 DEF m

(* How much more a run counts for in k after a step.                       *)
Shift(w, q, k) == (counted' + Ind(Awaits(q, k))) - (counted + Ind(Awaits(worker[w], k)))

(* ... and the request counters equal to what is counted, up to lost runs. *)
RequestsMove(w, q) ==
    /\ counted' \in Int
    /\ counted' - Ind(Answered(q)) >= counted - Ind(Answered(worker[w]))
    /\ \A k \in {"month", "day"} :
         /\ Shift(w, q, k) <= used'[k] - used[k]
         /\ used'[k] - used[k] <= Shift(w, q, k) + (lost' - lost)
         /\ used'[k] <= Limit[k]

LEMMA RequestStep ==
  ASSUME IInv, NEW w \in Workers, NEW q, worker' = [worker EXCEPT ![w] = q],
         used' \in [Counters -> Nat], lost' \in Nat, RequestsMove(w, q)
  PROVE  RequestsKept' /\ counted' \in Nat
<1>0. /\ \A b : Ind(b) \in {0, 1}
      /\ counted \in Nat /\ lost \in Nat
      /\ \A k \in {"month", "day"} : used[k] \in Nat /\ used'[k] \in Nat
  BY DEF Ind, IInv, TypeOK, Counters
<1>1. Cardinality(AnsweredRuns)' <= counted' /\ counted' \in Nat
  <2>1. /\ Cardinality(AnsweredRuns) \in Nat /\ Cardinality(AnsweredRuns) <= counted
        /\ Cardinality(AnsweredRuns)' =
             Cardinality(AnsweredRuns) - Ind(Answered(worker[w])) + Ind(Answered(q))
    BY Tallied DEF IInv, RequestsKept
  <2>2. Cardinality(AnsweredRuns) >= Ind(Answered(worker[w]))
    <3>1. CASE Answered(worker[w])
      <4>1. IsFiniteSet(AnsweredRuns) /\ w \in AnsweredRuns
        BY <3>1, WorkersAssumption, FS_Subset DEF AnsweredRuns
      <4>2. Cardinality(AnsweredRuns) # 0
        BY <4>1, FS_EmptySet
      <4>. QED
        BY <2>1, <4>2, <1>0
    <3>2. CASE ~Answered(worker[w])
      BY <2>1, <3>2 DEF Ind
    <3>. QED
      BY <3>1, <3>2
  <2>. QED
    BY <1>0, <2>1, <2>2 DEF RequestsMove
<1>2. ASSUME NEW k \in {"month", "day"}
      PROVE  /\ counted' + Cardinality(Awaiting(k))' <= used'[k]
             /\ used'[k] <= counted' + Cardinality(Awaiting(k))' + lost'
             /\ used'[k] <= Limit[k]
  <2>1. /\ Cardinality(Awaiting(k)) \in Nat
        /\ Cardinality(Awaiting(k))' =
             Cardinality(Awaiting(k)) - Ind(Awaits(worker[w], k)) + Ind(Awaits(q, k))
    BY Tallied DEF IInv
  <2>2. /\ counted + Cardinality(Awaiting(k)) <= used[k]
        /\ used[k] <= counted + Cardinality(Awaiting(k)) + lost
    BY DEF IInv, RequestsKept
  <2>3. /\ Shift(w, q, k) <= used'[k] - used[k]
        /\ used'[k] - used[k] <= Shift(w, q, k) + (lost' - lost)
        /\ used'[k] <= Limit[k]
    BY DEF RequestsMove
  <2>. QED
    BY <1>0, <2>1, <2>2, <2>3 DEF Shift, RequestsMove
<1>. QED
  BY <1>1, <1>2 DEF RequestsKept

(* What every worker step that stores nothing has to show.                 *)
LEMMA WorkerMoved ==
  ASSUME IInv, NEW w \in Workers, NEW q \in Worker,
         worker' = [worker EXCEPT ![w] = q], Sound(q), Seen(q, versions),
         UNCHANGED <<versions, latest, filler, listed>>,
         job' \in [Clauses -> Job],
         \A c \in Clauses : job'[c].status = "COMPLETED" => versions[c] # {},
         used' \in [Counters -> Nat], lost' \in Nat, forgiven' \in BOOLEAN,
         BudgetMoves(w, q), RequestsMove(w, q)
  PROVE  IInv'
<1>1. BudgetKept' /\ RequestsKept' /\ counted' \in Nat
  BY BudgetStep, RequestStep
<1>2. TypeOK'
  BY <1>1 DEF IInv, TypeOK
<1>3. RunsInOrder'
  <2>1. /\ worker'[w] = q
        /\ \A x \in Workers : x # w => worker'[x] = worker[x]
    BY DEF IInv, TypeOK
  <2>2. ASSUME NEW x \in Workers
        PROVE  Sound(worker'[x]) /\ Seen(worker'[x], versions)
    BY <2>1 DEF IInv, RunsInOrder
  <2>. QED
    BY <2>2 DEF RunsInOrder
<1>4. Rows' /\ FillersInOrder' /\ CompletedStored'
  BY DEF IInv, Rows, FillersInOrder, CompletedStored
<1>. QED
  BY <1>1, <1>2, <1>3, <1>4 DEF IInv

(* A step that only moves a run between phases that count alike.           *)
LEMMA Quiet ==
  ASSUME IInv, NEW w \in Workers, NEW q \in Worker,
         q.held = worker[w].held,
         q.phase \in PaidPhases <=> worker[w].phase \in PaidPhases,
         q.phase = "settled" <=> worker[w].phase = "settled",
         UNCHANGED <<used, counted, lost, forgiven>>
  PROVE  BudgetMoves(w, q) /\ RequestsMove(w, q)
<1>1. /\ Costs(q) <=> Costs(worker[w])
      /\ Answered(q) <=> Answered(worker[w])
      /\ \A k : Awaits(q, k) <=> Awaits(worker[w], k)
  BY DEF Costs, Answered, Awaits
<1>2. /\ used["cost"] \in Nat /\ counted \in Nat /\ lost \in Nat
      /\ \A k \in {"month", "day"} : used[k] \in Nat /\ used[k] <= Limit[k]
  BY DEF IInv, TypeOK, RequestsKept, Counters
<1>3. BudgetMoves(w, q)
  BY <1>1, <1>2 DEF BudgetMoves
<1>4. Ind(Answered(q)) = Ind(Answered(worker[w])) /\ Ind(Answered(q)) \in {0, 1}
  BY <1>1 DEF Ind
<1>5. \A k : Ind(Awaits(q, k)) = Ind(Awaits(worker[w], k)) /\ Ind(Awaits(q, k)) \in {0, 1}
  BY <1>1 DEF Ind
<1>6. RequestsMove(w, q)
  BY <1>2, <1>4, <1>5 DEF RequestsMove, Shift
<1>. QED
  BY <1>3, <1>6

(* The row of a run, and of a job.                                         *)
LEMMA RunRow ==
  ASSUME IInv, NEW w \in Workers
  PROVE  /\ worker[w] \in Worker /\ worker[w].phase \in Phases
         /\ worker[w].clause \in Clauses \cup {NoClause}
         /\ worker[w].attempt \in Nat /\ worker[w].held \in SUBSET Counters
         /\ worker[w].previous \in Nat /\ worker[w].actual \in Nat
         /\ Sound(worker[w]) /\ Seen(worker[w], versions)
<1>1. worker[w] \in Worker
  BY DEF IInv, TypeOK
<1>. QED
  BY <1>1 DEF IInv, RunsInOrder, Worker

(* A status set by id leaves the other jobs alone.                         *)
LEMMA StatusSet ==
  ASSUME IInv, NEW c \in Clauses, NEW status, StatusBecomes(c, status),
         status \in {"PENDING", "PROCESSING", "COMPLETED", "FAILED"},
         status = "COMPLETED" => versions[c] # {}
  PROVE  /\ job' \in [Clauses -> Job]
         /\ \A d \in Clauses : job'[d].status = "COMPLETED" => versions[d] # {}
<1>1. /\ job'[c] = [job[c] EXCEPT !.status = status]
      /\ \A d \in Clauses : d # c => job'[d] = job[d]
      /\ \A d \in Clauses : job[d] \in Job
  BY DEF IInv, TypeOK, StatusBecomes
<1>2. job'[c] \in Job /\ job'[c].status = status
  BY <1>1 DEF Job
<1>3. job' \in [Clauses -> Job]
  BY <1>1, <1>2 DEF IInv, TypeOK, StatusBecomes
<1>4. \A d \in Clauses : job'[d].status = "COMPLETED" => versions[d] # {}
  BY <1>1, <1>2 DEF IInv, CompletedStored
<1>. QED
  BY <1>3, <1>4

LEMMA JobsKept ==
  ASSUME IInv, UNCHANGED job
  PROVE  /\ job' \in [Clauses -> Job]
         /\ \A d \in Clauses : job'[d].status = "COMPLETED" => versions[d] # {}
BY DEF IInv, TypeOK, CompletedStored

LEMMA AccountsTyped ==
  ASSUME IInv
  PROVE  used \in [Counters -> Nat] /\ counted \in Nat /\ lost \in Nat /\ forgiven \in BOOLEAN
BY DEF IInv, TypeOK

(* A worker at rest.                                                       *)
LEMMA IdleRow ==
  Idle \in Worker /\ Idle.held = {} /\ Idle.phase = "idle" /\ Sound(Idle) /\ Seen(Idle, versions)
BY DEF Idle, Worker, Phases, Sound, Seen, PaidPhases, Counters

(* A run that only changes its phase.                                      *)
LEMMA PhaseRow ==
  ASSUME NEW r \in Worker, NEW p \in Phases
  PROVE  /\ [r EXCEPT !.phase = p] \in Worker
         /\ [r EXCEPT !.phase = p].phase = p
         /\ [r EXCEPT !.phase = p].held = r.held
         /\ [r EXCEPT !.phase = p].clause = r.clause
         /\ [r EXCEPT !.phase = p].previous = r.previous
BY DEF Worker

Claimed(r, c, n) == [r EXCEPT !.phase = "claimed", !.clause = c, !.attempt = n]

LEMMA ClaimRow ==
  ASSUME NEW r \in Worker, NEW c \in Clauses, NEW n \in Nat
  PROVE  /\ Claimed(r, c, n) \in Worker /\ Claimed(r, c, n).phase = "claimed"
         /\ Claimed(r, c, n).clause = c /\ Claimed(r, c, n).held = r.held
<1>1. r.held \in SUBSET Counters /\ r.previous \in Nat /\ r.actual \in Nat
  BY DEF Worker
<1>2. "claimed" \in Phases /\ c \in Clauses \cup {NoClause}
  BY DEF Phases
<1>3. Claimed(r, c, n) \in Worker
  BY <1>1, <1>2 DEF Worker, Claimed
<1>4. /\ Claimed(r, c, n).phase = "claimed" /\ Claimed(r, c, n).clause = c
      /\ Claimed(r, c, n).held = r.held
  BY DEF Worker, Claimed
<1>. QED
  BY <1>3, <1>4

------------------------------------------------------------------------------
(* The steps.                                                              *)

LEMMA ClaimStep ==
  ASSUME IInv, NEW w \in Workers, NEW c \in Clauses, Claim(w, c)
  PROVE  IInv'
<1>. DEFINE q == Claimed(Idle, c, job[c].attempt + 1)
<1>1. job[c] \in Job /\ job[c].attempt \in Nat
  BY DEF IInv, TypeOK, Job
<1>2. /\ q \in Worker /\ q.phase = "claimed" /\ q.held = {} /\ q.clause = c
      /\ worker' = [worker EXCEPT ![w] = q]
  <2>1. q \in Worker /\ q.phase = "claimed" /\ q.held = Idle.held /\ q.clause = c
    <3>1. job[c].attempt + 1 \in Nat
      BY <1>1
    <3>. QED
      BY <3>1, IdleRow, ClaimRow
  <2>2. worker' = [worker EXCEPT ![w] = q]
    BY DEF Claim, Claimed
  <2>. QED
    BY <2>1, <2>2, IdleRow
<1>3. worker[w].held = {} /\ worker[w].phase = "idle"
  BY DEF Claim, Idle
<1>. HIDE DEF q
<1>4. Sound(q) /\ Seen(q, versions)
  BY <1>2 DEF Sound, Seen, PaidPhases, Counters
<1>5. BudgetMoves(w, q) /\ RequestsMove(w, q)
  BY <1>2, <1>3, Quiet DEF Claim, PaidPhases
<1>6. /\ job' \in [Clauses -> Job]
      /\ \A d \in Clauses : job'[d].status = "COMPLETED" => versions[d] # {}
  <2>1. /\ job'[c] = [status |-> "PROCESSING", attempt |-> job[c].attempt + 1]
        /\ \A d \in Clauses : d # c => job'[d] = job[d]
    BY DEF Claim, IInv, TypeOK
  <2>2. job'[c] \in Job
    BY <1>1, <2>1 DEF Job
  <2>. QED
    BY <2>1, <2>2 DEF Claim, IInv, TypeOK, CompletedStored
<1>. QED
  BY <1>2, <1>4, <1>5, <1>6, AccountsTyped, WorkerMoved DEF Claim

(* Refusals, the read, the completion and the two ends of a failed run.    *)
LEMMA QuietSteps ==
  ASSUME IInv, NEW w \in Workers,
         \/ RejectReservation(w) \/ PolicyRefuses(w) \/ FailRefused(w) \/ ReadLatest(w)
         \/ CompleteJob(w) \/ EndFailedRun(w)
  PROVE  IInv'
<1>. DEFINE r == worker[w]
<1>0. /\ r \in Worker /\ r.phase \in Phases /\ r.held \in SUBSET Counters /\ r.previous \in Nat
      /\ Sound(r) /\ Seen(r, versions)
  BY RunRow
<1>1. CASE RejectReservation(w) \/ PolicyRefuses(w)
  <2>. DEFINE q == [r EXCEPT !.phase = IF r.held = {} THEN "refused" ELSE "rolling"]
  <2>1. worker' = [worker EXCEPT ![w] = q] /\ r.phase = "claimed"
    BY <1>1 DEF RejectReservation, PolicyRefuses, WorkerMoves
  <2>2. q \in Worker /\ q.held = r.held /\ q.clause = r.clause
        /\ q.phase = IF r.held = {} THEN "refused" ELSE "rolling"
    <3>1. (IF r.held = {} THEN "refused" ELSE "rolling") \in Phases
      BY DEF Phases
    <3>. QED
      BY <1>0, <3>1, PhaseRow
  <2>. HIDE DEF q
  <2>3. Sound(q) /\ Seen(q, versions)
    BY <1>0, <2>1, <2>2 DEF Sound, Seen, PaidPhases
  <2>4. BudgetMoves(w, q) /\ RequestsMove(w, q)
    BY <1>1, <2>1, <2>2, Quiet DEF RejectReservation, PolicyRefuses, PaidPhases
  <2>. QED
    BY <1>1, <2>1, <2>2, <2>3, <2>4, JobsKept, AccountsTyped, WorkerMoved
    DEF RejectReservation, PolicyRefuses
<1>2. CASE FailRefused(w) \/ EndFailedRun(w)
  <2>1. /\ worker' = [worker EXCEPT ![w] = Idle] /\ r.phase \in {"refused", "released"}
        /\ r.held = {} /\ r.clause \in Clauses
    BY <1>0, <1>2 DEF FailRefused, EndFailedRun, Sound
  <2>2. BudgetMoves(w, Idle) /\ RequestsMove(w, Idle)
    BY <1>2, <2>1, IdleRow, Quiet DEF FailRefused, EndFailedRun, PaidPhases
  <2>3. /\ job' \in [Clauses -> Job]
        /\ \A d \in Clauses : job'[d].status = "COMPLETED" => versions[d] # {}
    BY <1>2, <2>1, StatusSet DEF FailRefused, EndFailedRun
  <2>. QED
    BY <1>2, <2>1, <2>2, <2>3, IdleRow, AccountsTyped, WorkerMoved DEF FailRefused, EndFailedRun
<1>3. CASE ReadLatest(w)
  <2>1. PICK v \in latest[r.clause] \cup {0} :
             worker' = [worker EXCEPT ![w] = [r EXCEPT !.phase = "read", !.previous = v]]
    BY <1>3 DEF ReadLatest
  <2>. DEFINE q == [r EXCEPT !.phase = "read", !.previous = v]
  <2>2. r.phase = "paid" /\ r.clause \in Clauses /\ r.held = Counters
    BY <1>0, <1>3 DEF ReadLatest, Sound, PaidPhases
  <2>3. v \in versions[r.clause] \cup {0} /\ v \in Nat
    BY <2>2 DEF IInv, Rows
  <2>4. /\ q \in Worker /\ q.held = r.held /\ q.clause = r.clause /\ q.phase = "read"
        /\ q.previous = v
    BY <1>0, <2>3 DEF Worker, Phases
  <2>5. worker' = [worker EXCEPT ![w] = q]
    BY <2>1
  <2>. HIDE DEF q
  <2>6. Sound(q) /\ Seen(q, versions)
    BY <2>2, <2>3, <2>4 DEF Sound, Seen, PaidPhases
  <2>7. BudgetMoves(w, q) /\ RequestsMove(w, q)
    BY <1>3, <2>2, <2>4, Quiet DEF ReadLatest, PaidPhases
  <2>. QED
    BY <1>3, <2>4, <2>5, <2>6, <2>7, JobsKept, AccountsTyped, WorkerMoved DEF ReadLatest
<1>4. CASE CompleteJob(w)
  <2>. DEFINE q == [r EXCEPT !.phase = "completed"]
  <2>1. /\ worker' = [worker EXCEPT ![w] = q] /\ r.phase = "written"
        /\ r.clause \in Clauses /\ versions[r.clause] # {} /\ r.held = Counters
    BY <1>0, <1>4 DEF CompleteJob, Completable, WorkerMoves, Sound, Seen, PaidPhases
  <2>2. q \in Worker /\ q.held = r.held /\ q.clause = r.clause /\ q.phase = "completed"
    BY <1>0, PhaseRow DEF Phases
  <2>. HIDE DEF q
  <2>3. Sound(q) /\ Seen(q, versions)
    BY <2>1, <2>2 DEF Sound, Seen, PaidPhases
  <2>4. BudgetMoves(w, q) /\ RequestsMove(w, q)
    BY <1>4, <2>1, <2>2, Quiet DEF CompleteJob, PaidPhases
  <2>5. /\ job' \in [Clauses -> Job]
        /\ \A d \in Clauses : job'[d].status = "COMPLETED" => versions[d] # {}
    BY <1>4, <2>1, StatusSet DEF CompleteJob
  <2>. QED
    BY <1>4, <2>1, <2>2, <2>3, <2>4, <2>5, AccountsTyped, WorkerMoved DEF CompleteJob
<1>. QED
  BY <1>1, <1>2, <1>3, <1>4

(* A reservation changes with its phase.                                   *)
Holding(r, K, p) == [r EXCEPT !.held = K, !.phase = p]

LEMMA HoldingRow ==
  ASSUME NEW r \in Worker, NEW K \in SUBSET Counters, NEW p \in Phases
  PROVE  /\ Holding(r, K, p) \in Worker
         /\ Holding(r, K, p).held = K /\ Holding(r, K, p).phase = p
         /\ Holding(r, K, p).clause = r.clause /\ Holding(r, K, p).previous = r.previous
<1>1. /\ r.clause \in Clauses \cup {NoClause} /\ r.attempt \in Nat
      /\ r.previous \in Nat /\ r.actual \in Nat
  BY DEF Worker
<1>2. Holding(r, K, p) \in Worker
  BY <1>1 DEF Worker, Holding
<1>3. /\ Holding(r, K, p).held = K /\ Holding(r, K, p).phase = p
      /\ Holding(r, K, p).clause = r.clause /\ Holding(r, K, p).previous = r.previous
  BY DEF Worker, Holding
<1>. QED
  BY <1>2, <1>3

LEMMA ReserveStep ==
  ASSUME IInv, NEW w \in Workers, Reserve(w)
  PROVE  IInv'
<1>. DEFINE r == worker[w]
            k == First(Counters \ r.held)
            K == r.held \cup {k}
            p == IF K = Counters THEN "reserved" ELSE "claimed"
            q == Holding(r, K, p)
<1>0. /\ r \in Worker /\ r.held \in SUBSET Counters
      /\ Sound(r) /\ Seen(r, versions) /\ r.phase = "claimed"
  BY RunRow DEF Reserve
<1>1. k \in Counters /\ k \notin r.held
  <2>1. Counters \ r.held # {} /\ Counters \ r.held \in SUBSET Counters
    BY <1>0 DEF Sound
  <2>. QED
    BY <2>1, FirstIn
<1>2. /\ Fits(k) /\ used' = [used EXCEPT ![k] = used[k] + Amount(k)]
      /\ worker' = [worker EXCEPT ![w] = q]
  BY <1>0 DEF Reserve, Holding
<1>3. /\ q \in Worker /\ q.held = K /\ q.phase = p /\ q.clause = r.clause
      /\ p \in {"reserved", "claimed"}
  <2>1. p \in {"reserved", "claimed"}
    OBVIOUS
  <2>2. p \in Phases /\ K \in SUBSET Counters
    BY <2>1, <1>0, <1>1 DEF Phases
  <2>. HIDE DEF k, K, p
  <2>3. q \in Worker /\ q.held = K /\ q.phase = p /\ q.clause = r.clause
    BY <1>0, <2>2, HoldingRow
  <2>. QED
    BY <2>1, <2>3
<1>. HIDE DEF k
<1>4. /\ used \in [Counters -> Nat] /\ Amount(k) \in Nat /\ Limit[k] \in Nat
      /\ counted \in Nat /\ lost \in Nat /\ forgiven \in BOOLEAN
  BY <1>1, AccountsTyped, NumbersAssumption DEF Amount
<1>5. /\ used' \in [Counters -> Nat] /\ used'[k] = used[k] + Amount(k)
      /\ used'[k] <= Limit[k]
      /\ \A l \in Counters : l # k => used'[l] = used[l]
  BY <1>1, <1>2, <1>4 DEF Fits
<1>6. Sound(q) /\ Seen(q, versions)
  BY <1>0, <1>3 DEF Sound, Seen, PaidPhases
<1>. HIDE DEF q, p
<1>7. BudgetMoves(w, q)
  <2>1. Costs(r) <=> "cost" \in r.held
    BY <1>0 DEF Costs
  <2>2. Costs(q) <=> "cost" \in K
    BY <1>3 DEF Costs
  <2>3. "cost" \in Counters /\ used["cost"] \in Nat
    BY <1>4 DEF Counters
  <2>4. forgiven' = forgiven
    BY DEF Reserve
  <2>5. CASE k = "cost"
    <3>1. /\ Costs(q) /\ ~Costs(r)
          /\ used'["cost"] = used["cost"] + Estimate /\ used'["cost"] <= Limit["cost"]
      BY <2>1, <2>2, <2>5, <1>1, <1>5 DEF Amount
    <3>. QED
      BY <3>1, <2>4 DEF BudgetMoves
  <2>6. CASE k # "cost"
    <3>1. (Costs(q) <=> Costs(r)) /\ used'["cost"] = used["cost"]
      BY <2>1, <2>2, <2>3, <2>6, <1>1, <1>5
    <3>. QED
      BY <3>1, <2>3, <2>4 DEF BudgetMoves
  <2>. QED
    BY <2>5, <2>6
<1>8. RequestsMove(w, q)
  <2>1. Ind(Answered(q)) = 0 /\ Ind(Answered(r)) = 0
    BY <1>0, <1>3 DEF Ind, Answered, PaidPhases
  <2>2. counted' = counted /\ lost' = lost
    BY DEF Reserve
  <2>3. ASSUME NEW l \in {"month", "day"}
        PROVE  /\ Shift(w, q, l) = used'[l] - used[l]
               /\ used'[l] <= Limit[l]
               /\ Shift(w, q, l) \in Int
    <3>1. /\ Awaits(r, l) <=> l \in r.held
          /\ Awaits(q, l) <=> l \in K
      BY <1>0, <1>3 DEF Awaits, PaidPhases
    <3>2. used[l] \in Nat /\ used[l] <= Limit[l] /\ l \in Counters
      BY <1>4 DEF IInv, RequestsKept, Counters
    <3>3. CASE k = l
      <4>1. Ind(Awaits(r, l)) = 0 /\ Ind(Awaits(q, l)) = 1
        BY <3>1, <3>3, <1>1 DEF Ind
      <4>2. used'[l] = used[l] + 1
        BY <3>3, <1>5 DEF Amount
      <4>. QED
        BY <4>1, <4>2, <3>2, <3>3, <2>2, <1>4, <1>5 DEF Shift
    <3>4. CASE k # l
      <4>1. Ind(Awaits(r, l)) = Ind(Awaits(q, l)) /\ Ind(Awaits(q, l)) \in {0, 1}
        BY <3>1, <3>4 DEF Ind
      <4>. QED
        BY <4>1, <3>2, <3>4, <2>2, <1>4, <1>5 DEF Shift
    <3>. QED
      BY <3>3, <3>4
  <2>4. \A l \in {"month", "day"} : used'[l] - used[l] <= Shift(w, q, l) + (lost' - lost)
    BY <2>2, <2>3, <1>4
  <2>. QED
    BY <2>1, <2>2, <2>3, <2>4, <1>4 DEF RequestsMove
<1>. QED
  BY <1>2, <1>3, <1>4, <1>5, <1>6, <1>7, <1>8, JobsKept, WorkerMoved DEF Reserve

LEMMA ReleaseStep ==
  ASSUME IInv, NEW w \in Workers, Release(w)
  PROVE  IInv'
<1>. DEFINE r == worker[w]
            k == First(r.held)
            K == r.held \ {k}
            p == IF K = {} THEN (IF r.phase = "rolling" THEN "refused" ELSE "released")
                           ELSE r.phase
            q == Holding(r, K, p)
<1>0. /\ r \in Worker /\ r.held \in SUBSET Counters /\ r.phase \in {"rolling", "failing"}
      /\ Sound(r) /\ Seen(r, versions)
  BY RunRow DEF Release
<1>1. k \in Counters /\ k \in r.held
  BY <1>0, FirstIn DEF Sound
<1>2. /\ used' = [used EXCEPT ![k] = AtLeastZero(used[k] - Amount(k))]
      /\ worker' = [worker EXCEPT ![w] = q]
  BY <1>0 DEF Release, Holding, GivenBack
<1>3. /\ q \in Worker /\ q.held = K /\ q.phase = p /\ q.clause = r.clause
      /\ p \in {"rolling", "failing", "refused", "released"}
  <2>1. p \in {"rolling", "failing", "refused", "released"}
    BY <1>0
  <2>2. p \in Phases /\ K \in SUBSET Counters
    BY <2>1, <1>0 DEF Phases
  <2>. QED
    BY <1>0, <2>1, <2>2, HoldingRow
<1>4. /\ used \in [Counters -> Nat] /\ Amount(k) \in Nat
      /\ counted \in Nat /\ lost \in Nat /\ forgiven \in BOOLEAN
  BY <1>1, AccountsTyped, NumbersAssumption DEF Amount
<1>5. /\ used' \in [Counters -> Nat] /\ used'[k] >= used[k] - Amount(k)
      /\ used'[k] = used[k] - Amount(k) \/ (used'[k] = 0 /\ used[k] < Amount(k))
      /\ \A l \in Counters : l # k => used'[l] = used[l]
  <2>1. AtLeastZero(used[k] - Amount(k)) \in Nat
    BY <1>1, <1>4 DEF AtLeastZero
  <2>2. used'[k] = AtLeastZero(used[k] - Amount(k))
    BY <1>1, <1>2, <1>4
  <2>. QED
    BY <1>1, <1>2, <1>4, <2>1, <2>2 DEF AtLeastZero
<1>6. Sound(q) /\ Seen(q, versions)
  BY <1>0, <1>3 DEF Sound, Seen, PaidPhases
<1>. HIDE DEF q, p, k
<1>7. BudgetMoves(w, q)
  <2>1. Costs(r) <=> "cost" \in r.held
    BY <1>0 DEF Costs
  <2>2. Costs(q) <=> "cost" \in K
    BY <1>3 DEF Costs
  <2>3. "cost" \in Counters /\ used["cost"] \in Nat
    BY <1>4 DEF Counters
  <2>4. CASE k = "cost"
    BY <2>1, <2>2, <2>3, <2>4, <1>1, <1>5 DEF BudgetMoves, Amount, Release
  <2>5. CASE k # "cost"
    BY <2>1, <2>2, <2>3, <2>5, <1>1, <1>5 DEF BudgetMoves, Release
  <2>. QED
    BY <2>4, <2>5
<1>8. RequestsMove(w, q)
  <2>1. Ind(Answered(q)) = 0 /\ Ind(Answered(r)) = 0
    BY <1>0, <1>3 DEF Ind, Answered, PaidPhases
  <2>2. counted' = counted /\ lost' = lost
    BY DEF Release
  <2>3. ASSUME NEW l \in {"month", "day"}
        PROVE  /\ Shift(w, q, l) = used'[l] - used[l]
               /\ used'[l] <= Limit[l]
               /\ Shift(w, q, l) \in Int
    <3>1. /\ Awaits(r, l) <=> l \in r.held
          /\ Awaits(q, l) <=> l \in K
      BY <1>0, <1>3 DEF Awaits, PaidPhases
    <3>2. /\ used[l] \in Nat /\ used[l] <= Limit[l] /\ Limit[l] \in Nat /\ l \in Counters
          /\ counted + Cardinality(Awaiting(l)) <= used[l]
      BY <1>4, NumbersAssumption DEF IInv, RequestsKept, Counters
    <3>3. CASE k = l
      <4>1. Ind(Awaits(r, l)) = 1 /\ Ind(Awaits(q, l)) = 0
        BY <3>1, <3>3, <1>1 DEF Ind
      <4>2. used[l] >= 1
        <5>1. w \in Awaiting(l) /\ IsFiniteSet(Awaiting(l))
          BY <3>3, <1>0, <1>1, WorkersAssumption, FS_Subset DEF Awaiting, Paid
        <5>2. Cardinality(Awaiting(l)) \in Nat /\ Cardinality(Awaiting(l)) # 0
          BY <5>1, FS_CardinalityType, FS_EmptySet
        <5>. QED
          BY <5>2, <3>2, <1>4
      <4>3. used'[l] = used[l] - 1
        BY <3>2, <3>3, <4>2, <1>5 DEF Amount
      <4>. QED
        BY <4>1, <4>3, <3>2, <2>2, <1>4 DEF Shift
    <3>4. CASE k # l
      <4>1. Ind(Awaits(r, l)) = Ind(Awaits(q, l)) /\ Ind(Awaits(q, l)) \in {0, 1}
        BY <3>1, <3>4 DEF Ind
      <4>. QED
        BY <4>1, <3>2, <3>4, <2>2, <1>4, <1>5 DEF Shift
    <3>. QED
      BY <3>3, <3>4
  <2>4. \A l \in {"month", "day"} : used'[l] - used[l] <= Shift(w, q, l) + (lost' - lost)
    BY <2>2, <2>3, <1>4
  <2>. QED
    BY <2>1, <2>2, <2>3, <2>4, <1>4 DEF RequestsMove
<1>. QED
  BY <1>2, <1>3, <1>4, <1>5, <1>6, <1>7, <1>8, JobsKept, WorkerMoved DEF Release

(* Steps that leave the request counters alone: what the run stops or      *)
(* starts counting for is made up for by counted and lost.                 *)
LEMMA CountersRest ==
  ASSUME IInv, NEW w \in Workers, NEW q \in Worker,
         counted' \in Int, lost' \in Nat,
         \A k \in {"month", "day"} : used'[k] = used[k],
         counted' - Ind(Answered(q)) >= counted - Ind(Answered(worker[w])),
         \A k \in {"month", "day"} : Shift(w, q, k) <= 0 /\ 0 <= Shift(w, q, k) + (lost' - lost)
  PROVE  RequestsMove(w, q)
<1>1. \A k \in {"month", "day"} : used[k] \in Nat /\ used[k] <= Limit[k]
  BY DEF IInv, TypeOK, RequestsKept, Counters
<1>2. \A k \in {"month", "day"} : used'[k] - used[k] = 0 /\ used'[k] <= Limit[k]
  BY <1>1
<1>. HIDE DEF Shift
<1>. QED
  BY <1>2 DEF RequestsMove

LEMMA CallProviderStep ==
  ASSUME IInv, NEW w \in Workers, CallProvider(w)
  PROVE  IInv'
<1>. DEFINE r == worker[w]
<1>0. /\ r \in Worker /\ r.held \in SUBSET Counters /\ r.phase = "reserved"
      /\ Sound(r) /\ Seen(r, versions) /\ r.held = Counters
  BY RunRow DEF CallProvider, Sound
<1>1. PICK actual \in Actuals :
           worker' = [worker EXCEPT ![w] = [r EXCEPT !.phase = "paid", !.actual = actual]]
  BY DEF CallProvider
<1>. DEFINE q == [r EXCEPT !.phase = "paid", !.actual = actual]
<1>2. /\ q \in Worker
      /\ q.held = Counters /\ q.clause = r.clause /\ q.phase = "paid"
  BY <1>0, NumbersAssumption DEF Worker, Phases
<1>3. worker' = [worker EXCEPT ![w] = q]
  BY <1>1
<1>. HIDE DEF q
<1>4. Sound(q) /\ Seen(q, versions)
  BY <1>0, <1>2 DEF Sound, Seen, PaidPhases
<1>5. /\ counted' = counted + 1 /\ lost' = lost /\ used' = used /\ forgiven' = forgiven
      /\ counted \in Nat /\ lost \in Nat /\ used["cost"] \in Nat
  BY AccountsTyped DEF CallProvider, Counters
<1>6. BudgetMoves(w, q)
  BY <1>0, <1>2, <1>5 DEF BudgetMoves, Costs
<1>7. RequestsMove(w, q)
  <2>1. Ind(Answered(q)) = 1 /\ Ind(Answered(r)) = 0
    BY <1>0, <1>2 DEF Ind, Answered, PaidPhases
  <2>2. \A k \in {"month", "day"} : Ind(Awaits(q, k)) = 0 /\ Ind(Awaits(r, k)) = 1
    BY <1>0, <1>2 DEF Ind, Awaits, PaidPhases, Counters
  <2>. QED
    BY <1>2, <1>5, <2>1, <2>2, CountersRest DEF Shift
<1>. QED
  BY <1>2, <1>3, <1>4, <1>5, <1>6, <1>7, JobsKept, AccountsTyped, WorkerMoved DEF CallProvider

LEMMA SettleStep ==
  ASSUME IInv, NEW w \in Workers, SettleBudget(w)
  PROVE  IInv'
<1>. DEFINE r == worker[w]
            q == [r EXCEPT !.phase = "settled"]
<1>0. /\ r \in Worker /\ r.phase = "completed" /\ r.actual \in Nat
      /\ Sound(r) /\ Seen(r, versions) /\ r.held = Counters
  BY RunRow DEF SettleBudget, Sound, PaidPhases
<1>1. /\ q \in Worker /\ q.held = r.held /\ q.clause = r.clause /\ q.phase = "settled"
  BY <1>0, PhaseRow DEF Phases
<1>2. worker' = [worker EXCEPT ![w] = q]
  BY DEF SettleBudget, WorkerMoves
<1>. HIDE DEF q
<1>3. Sound(q) /\ Seen(q, versions)
  BY <1>0, <1>1 DEF Sound, Seen, PaidPhases
<1>4. /\ counted' = counted /\ lost' = lost /\ forgiven' = forgiven
      /\ counted \in Nat /\ lost \in Nat /\ used \in [Counters -> Nat]
  BY AccountsTyped DEF SettleBudget
<1>5. /\ used' \in [Counters -> Nat] /\ used'["cost"] >= used["cost"] - Estimate
      /\ \A k \in {"month", "day"} : used'[k] = used[k]
  <2>1. Corrected(w) \in Nat /\ Corrected(w) >= used["cost"] - Estimate
    BY <1>0, <1>4, NumbersAssumption DEF Corrected, AtLeastZero, Counters
  <2>2. used' = [used EXCEPT !["cost"] = Corrected(w)]
    BY DEF SettleBudget
  <2>. QED
    BY <1>4, <2>1, <2>2 DEF Counters
<1>6. BudgetMoves(w, q)
  BY <1>0, <1>1, <1>4, <1>5 DEF BudgetMoves, Costs, Counters
<1>7. RequestsMove(w, q)
  <2>1. Ind(Answered(q)) = 1 /\ Ind(Answered(r)) = 1
    BY <1>0, <1>1 DEF Ind, Answered, PaidPhases
  <2>2. \A k \in {"month", "day"} : Ind(Awaits(q, k)) = 0 /\ Ind(Awaits(r, k)) = 0
    BY <1>0, <1>1 DEF Ind, Awaits, PaidPhases
  <2>. QED
    BY <1>1, <1>4, <1>5, <2>1, <2>2, CountersRest DEF Shift
<1>. QED
  BY <1>1, <1>2, <1>3, <1>4, <1>5, <1>6, <1>7, JobsKept, AccountsTyped, WorkerMoved
  DEF SettleBudget

LEMMA FinishStep ==
  ASSUME IInv, NEW w \in Workers, FinishRun(w)
  PROVE  IInv'
<1>. DEFINE r == worker[w]
<1>0. r.phase = "settled" /\ worker' = [worker EXCEPT ![w] = Idle]
  BY DEF FinishRun
<1>1. /\ counted' = counted /\ lost' = lost /\ forgiven' = forgiven /\ used' = used
      /\ counted \in Nat /\ lost \in Nat /\ used \in [Counters -> Nat]
  BY AccountsTyped DEF FinishRun
<1>2. BudgetMoves(w, Idle)
  BY <1>0, <1>1, IdleRow DEF BudgetMoves, Costs, Counters
<1>3. RequestsMove(w, Idle)
  <2>1. Ind(Answered(Idle)) = 0 /\ Ind(Answered(r)) = 1
    BY <1>0, IdleRow DEF Ind, Answered, PaidPhases
  <2>2. \A k \in {"month", "day"} : Ind(Awaits(Idle, k)) = 0 /\ Ind(Awaits(r, k)) = 0
    BY <1>0, IdleRow DEF Ind, Awaits, PaidPhases
  <2>. QED
    BY <1>1, <2>1, <2>2, IdleRow, CountersRest DEF Shift
<1>. QED
  BY <1>0, <1>1, <1>2, <1>3, IdleRow, JobsKept, AccountsTyped, WorkerMoved DEF FinishRun

LEMMA ThrowStep ==
  ASSUME IInv, NEW w \in Workers, RunThrows(w)
  PROVE  IInv'
<1>. DEFINE r == worker[w]
            q == [r EXCEPT !.phase = "failing"]
<1>0. /\ r \in Worker /\ r.phase \in {"reserved"} \cup PaidPhases
      /\ Sound(r) /\ Seen(r, versions) /\ r.held = Counters
  BY RunRow DEF RunThrows, Sound, Paid, PaidPhases
<1>1. /\ q \in Worker /\ q.held = r.held /\ q.clause = r.clause /\ q.phase = "failing"
  BY <1>0, PhaseRow DEF Phases
<1>2. worker' = [worker EXCEPT ![w] = q]
  BY DEF RunThrows, WorkerMoves
<1>. HIDE DEF q
<1>3. Sound(q) /\ Seen(q, versions)
  BY <1>0, <1>1 DEF Sound, Seen, PaidPhases, Counters
<1>4. /\ counted' = IF Paid(w) THEN counted - 1 ELSE counted
      /\ forgiven' = (forgiven \/ r.phase = "settled")
      /\ lost' = lost /\ used' = used
      /\ counted \in Nat /\ lost \in Nat /\ used \in [Counters -> Nat]
  BY AccountsTyped DEF RunThrows
<1>5. BudgetMoves(w, q)
  <2>. SUFFICES ASSUME ~forgiven'
                PROVE  ~forgiven /\ Costs(q) /\ Costs(r) /\ used'["cost"] >= used["cost"]
    BY DEF BudgetMoves
  <2>1. ~forgiven /\ r.phase # "settled"
    BY <1>4
  <2>. QED
    BY <2>1, <1>0, <1>1, <1>4 DEF Costs, Counters
<1>6. RequestsMove(w, q)
  <2>1. Ind(Answered(q)) = 0 /\ (Answered(r) <=> Paid(w))
    BY <1>0, <1>1 DEF Ind, Answered, PaidPhases, Paid
  <2>2. \A k \in {"month", "day"} : Awaits(q, k) /\ (Awaits(r, k) <=> ~Paid(w))
    BY <1>0, <1>1 DEF Awaits, PaidPhases, Paid, Counters
  <2>3. CASE Paid(w)
    <3>1. Ind(Answered(r)) = 1 /\ counted' = counted - 1
      BY <2>1, <2>3, <1>4 DEF Ind
    <3>2. \A k \in {"month", "day"} : Ind(Awaits(q, k)) = 1 /\ Ind(Awaits(r, k)) = 0
      BY <2>2, <2>3 DEF Ind
    <3>. QED
      BY <1>1, <1>4, <2>1, <3>1, <3>2, CountersRest DEF Shift
  <2>4. CASE ~Paid(w)
    <3>1. Ind(Answered(r)) = 0 /\ counted' = counted
      BY <2>1, <2>4, <1>4 DEF Ind
    <3>2. \A k \in {"month", "day"} : Ind(Awaits(q, k)) = 1 /\ Ind(Awaits(r, k)) = 1
      BY <2>2, <2>4 DEF Ind
    <3>. QED
      BY <1>1, <1>4, <2>1, <3>1, <3>2, CountersRest DEF Shift
  <2>. QED
    BY <2>3, <2>4
<1>7. forgiven' \in BOOLEAN
  BY <1>4, AccountsTyped
<1>. QED
  BY <1>1, <1>2, <1>3, <1>4, <1>5, <1>6, <1>7, JobsKept, WorkerMoved DEF RunThrows

LEMMA DieStep ==
  ASSUME IInv, NEW w \in Workers, WorkerDies(w)
  PROVE  IInv'
<1>. DEFINE r == worker[w]
<1>0. /\ r \in Worker /\ r.held \in SUBSET Counters /\ worker' = [worker EXCEPT ![w] = Idle]
  BY RunRow DEF WorkerDies
<1>1. /\ lost' = IF r.held # {} /\ ~Paid(w) THEN lost + 1 ELSE lost
      /\ counted' = counted /\ forgiven' = forgiven /\ used' = used
      /\ counted \in Nat /\ lost \in Nat /\ used \in [Counters -> Nat]
      /\ Estimate \in Nat
  BY AccountsTyped, NumbersAssumption DEF WorkerDies
<1>2. BudgetMoves(w, Idle)
  <2>1. ~Costs(Idle) /\ used["cost"] \in Nat
    BY <1>1, IdleRow DEF Costs, Counters
  <2>. QED
    BY <1>1, <2>1 DEF BudgetMoves
<1>3. RequestsMove(w, Idle)
  <2>1. Ind(Answered(Idle)) = 0 /\ Ind(Answered(r)) \in {0, 1}
    BY IdleRow DEF Ind, Answered, PaidPhases
  <2>2. \A k \in {"month", "day"} :
           /\ Ind(Awaits(Idle, k)) = 0 /\ Ind(Awaits(r, k)) \in {0, 1}
           /\ Ind(Awaits(r, k)) <= lost' - lost
    <3>1. \A k : Awaits(r, k) => lost' = lost + 1
      BY <1>1 DEF Awaits, Paid, PaidPhases
    <3>2. lost' - lost \in {0, 1}
      BY <1>1
    <3>. QED
      BY <1>1, <3>1, <3>2, IdleRow DEF Ind, Awaits, PaidPhases
  <2>3. lost' \in Nat
    BY <1>1
  <2>. QED
    BY <1>1, <2>1, <2>2, <2>3, IdleRow, CountersRest DEF Shift
<1>4. lost' \in Nat
  BY <1>1
<1>. QED
  BY <1>0, <1>1, <1>2, <1>3, <1>4, IdleRow, JobsKept, AccountsTyped, WorkerMoved DEF WorkerDies

------------------------------------------------------------------------------
(* Storing an embedding.                                                   *)

(* The next version is free only for a writer that read the newest one.    *)
LEMMA Stored ==
  ASSUME IInv, NEW c \in Clauses, NEW v \in versions[c] \cup {0}, StoreLatest(c, v)
  PROVE  /\ Rows' /\ versions' \in [Clauses -> SUBSET Nat] /\ latest' \in [Clauses -> SUBSET Nat]
         /\ \A d \in Clauses : versions[d] \subseteq versions'[d]
         /\ versions'[c] # {}
<1>1. /\ versions \in [Clauses -> SUBSET Nat] /\ latest \in [Clauses -> SUBSET Nat]
      /\ v \in Nat /\ v + 1 \in Nat
  BY DEF IInv, TypeOK
<1>2. /\ v + 1 \notin versions[c]
      /\ versions' = [versions EXCEPT ![c] = versions[c] \cup {v + 1}]
      /\ latest' = [latest EXCEPT ![c] = (latest[c] \ {v}) \cup {v + 1}]
  BY DEF StoreLatest, NextVersion
<1>3. /\ versions'[c] = versions[c] \cup {v + 1}
      /\ latest'[c] = (latest[c] \ {v}) \cup {v + 1}
      /\ \A d \in Clauses : d # c => versions'[d] = versions[d] /\ latest'[d] = latest[d]
  BY <1>1, <1>2
<1>4. \E n \in Nat : n > 0 /\ versions'[c] = 1 .. n /\ latest'[c] = {n}
  <2>1. CASE versions[c] = {} /\ latest[c] = {}
    BY <2>1, <1>3
  <2>2. CASE \E n \in Nat : n > 0 /\ versions[c] = 1 .. n /\ latest[c] = {n}
    <3>1. PICK n \in Nat : n > 0 /\ versions[c] = 1 .. n /\ latest[c] = {n}
      BY <2>2
    <3>2. v = n
      BY <3>1, <1>1, <1>2
    <3>3. versions'[c] = 1 .. (n + 1) /\ latest'[c] = {n + 1} /\ n + 1 \in Nat /\ n + 1 > 0
      BY <3>1, <3>2, <1>3
    <3>. QED
      BY <3>3
  <2>. QED
    BY <2>1, <2>2 DEF IInv, Rows
<1>5. Rows'
  <2>1. \A d \in Clauses : d # c =>
           \/ versions'[d] = {} /\ latest'[d] = {}
           \/ \E n \in Nat : n > 0 /\ versions'[d] = 1 .. n /\ latest'[d] = {n}
    BY <1>3 DEF IInv, Rows
  <2>. QED
    BY <1>4, <2>1 DEF Rows
<1>6. versions' \in [Clauses -> SUBSET Nat] /\ latest' \in [Clauses -> SUBSET Nat]
  BY <1>1, <1>2
<1>7. \A d \in Clauses : versions[d] \subseteq versions'[d]
  BY <1>3
<1>. QED
  BY <1>3, <1>5, <1>6, <1>7

(* What was seen or stored stays there.                                    *)
LEMMA Grown ==
  ASSUME IInv, \A d \in Clauses : versions[d] \subseteq versions'[d],
         versions' \in [Clauses -> SUBSET Nat]
  PROVE  /\ \A x \in Workers : Seen(worker[x], versions')
         /\ \A b \in Backfillers :
              filler[b].phase = "read" =>
                 filler[b].previous \in versions'[filler[b].clause] \cup {0}
         /\ \A c \in Clauses : job[c].status = "COMPLETED" => versions'[c] # {}
<1>1. ASSUME NEW x \in Workers
      PROVE  Seen(worker[x], versions')
  <2>1. Seen(worker[x], versions) /\ (worker[x].phase # "idle" => worker[x].clause \in Clauses)
    BY DEF IInv, RunsInOrder, Sound
  <2>. QED
    BY <2>1 DEF Seen
<1>2. ASSUME NEW b \in Backfillers, filler[b].phase = "read"
      PROVE  filler[b].previous \in versions'[filler[b].clause] \cup {0}
  BY <1>2 DEF IInv, FillersInOrder
<1>3. \A c \in Clauses : job[c].status = "COMPLETED" => versions'[c] # {}
  BY DEF IInv, CompletedStored
<1>. QED
  BY <1>1, <1>2, <1>3

LEMMA WriteStep ==
  ASSUME IInv, NEW w \in Workers, WriteLatest(w)
  PROVE  IInv'
<1>. DEFINE r == worker[w]
            q == [r EXCEPT !.phase = "written"]
<1>0. /\ r \in Worker /\ r.phase = "read" /\ r.clause \in Clauses /\ r.held = Counters
      /\ r.previous \in versions[r.clause] \cup {0}
  BY RunRow DEF WriteLatest, Sound, Seen, PaidPhases
<1>1. /\ q \in Worker /\ q.held = r.held /\ q.clause = r.clause /\ q.phase = "written"
  BY <1>0, PhaseRow DEF Phases
<1>2. worker' = [worker EXCEPT ![w] = q]
  BY DEF WriteLatest, WorkerMoves
<1>. HIDE DEF q
<1>3. StoreLatest(r.clause, r.previous)
  BY DEF WriteLatest
<1>4. /\ Rows' /\ versions' \in [Clauses -> SUBSET Nat] /\ latest' \in [Clauses -> SUBSET Nat]
      /\ \A d \in Clauses : versions[d] \subseteq versions'[d]
      /\ versions'[r.clause] # {}
  BY <1>0, <1>3, Stored
<1>5. UNCHANGED <<job, filler, listed, used, counted, lost, forgiven>>
  BY DEF WriteLatest
<1>6. BudgetMoves(w, q) /\ RequestsMove(w, q)
  BY <1>0, <1>1, <1>5, Quiet DEF PaidPhases
<1>7. BudgetKept' /\ RequestsKept'
  BY <1>1, <1>2, <1>5, <1>6, AccountsTyped, BudgetStep, RequestStep
<1>8. TypeOK'
  BY <1>1, <1>2, <1>4, <1>5 DEF IInv, TypeOK
<1>9. RunsInOrder'
  <2>1. /\ worker'[w] = q
        /\ \A x \in Workers : x # w => worker'[x] = worker[x]
    BY <1>2 DEF IInv, TypeOK
  <2>2. Sound(q) /\ Seen(q, versions')
    BY <1>0, <1>1, <1>4 DEF Sound, Seen, PaidPhases
  <2>3. \A x \in Workers : Sound(worker[x]) /\ Seen(worker[x], versions')
    BY <1>4, Grown DEF IInv, RunsInOrder
  <2>. QED
    BY <2>1, <2>2, <2>3 DEF RunsInOrder
<1>10. FillersInOrder' /\ CompletedStored'
  BY <1>4, <1>5, Grown DEF IInv, FillersInOrder, CompletedStored
<1>. QED
  BY <1>4, <1>7, <1>8, <1>9, <1>10 DEF IInv

------------------------------------------------------------------------------
(* Steps in which no worker moves.                                         *)

LEMMA AccountsRest ==
  ASSUME IInv, UNCHANGED <<worker, used, counted, lost, forgiven>>
  PROVE  BudgetKept' /\ RequestsKept'
<1>1. /\ Unsettled' = Unsettled /\ AnsweredRuns' = AnsweredRuns
      /\ \A k : Awaiting(k)' = Awaiting(k)
  BY DEF Unsettled, AnsweredRuns, Awaiting, Paid
<1>2. BudgetKept'
  BY <1>1 DEF IInv, BudgetKept
<1>3. RequestsKept'
  BY <1>1 DEF IInv, RequestsKept
<1>. QED
  BY <1>2, <1>3

LEMMA QueueSteps ==
  ASSUME IInv,
         \/ \E c \in Clauses : Enqueue(c) \/ RecoverJob(c)
         \/ RecoveryScan \/ RecoveryDies
  PROVE  IInv'
<1>1. /\ UNCHANGED <<versions, latest, worker, filler, used, counted, lost, forgiven>>
  BY DEF Enqueue, RecoverJob, RecoveryScan, RecoveryDies
<1>2. /\ job' \in [Clauses -> Job]
      /\ \A d \in Clauses : job'[d].status = "COMPLETED" => versions[d] # {}
      /\ listed' \subseteq [clause : Clauses, attempt : Nat]
  <2>1. ASSUME NEW c \in Clauses, Enqueue(c)
        PROVE  <1>2!1 /\ <1>2!2 /\ listed' = listed
    BY <2>1, StatusSet DEF Enqueue
  <2>2. ASSUME NEW c \in Clauses, RecoverJob(c)
        PROVE  <1>2!1 /\ <1>2!2 /\ listed' \subseteq listed
    BY <2>2, StatusSet DEF RecoverJob, RecoveredTo
  <2>3. ASSUME RecoveryScan \/ RecoveryDies
        PROVE  <1>2!1 /\ <1>2!2 /\ listed' \subseteq [clause : Clauses, attempt : Nat]
    <3>1. \A c \in Clauses : job[c].attempt \in Nat
      BY DEF IInv, TypeOK, Job
    <3>. QED
      BY <2>3, <3>1, JobsKept DEF RecoveryScan, RecoveryDies
  <2>4. listed \subseteq [clause : Clauses, attempt : Nat]
    BY DEF IInv, TypeOK
  <2>. QED
    BY <2>1, <2>2, <2>3, <2>4
<1>3. BudgetKept' /\ RequestsKept'
  BY <1>1, AccountsRest
<1>4. TypeOK'
  BY <1>1, <1>2 DEF IInv, TypeOK
<1>5. Rows' /\ RunsInOrder' /\ FillersInOrder' /\ CompletedStored'
  BY <1>1, <1>2 DEF IInv, Rows, RunsInOrder, FillersInOrder, CompletedStored
<1>. QED
  BY <1>3, <1>4, <1>5 DEF IInv

(* A backfill's row in its two phases.                                     *)
LEMMA FillerRow ==
  ASSUME IInv, NEW b \in Backfillers
  PROVE  /\ filler[b] \in Filler
         /\ filler[b].phase # "idle" => filler[b].clause \in Clauses
         /\ filler[b].phase = "read" => filler[b].previous \in versions[filler[b].clause] \cup {0}
BY DEF IInv, TypeOK, FillersInOrder

LEMMA BackfillSteps ==
  ASSUME IInv, NEW b \in Backfillers,
         \/ BackfillRead(b) \/ BackfillFails(b) \/ BackfillWrite(b)
         \/ \E c \in Clauses : BackfillClause(b, c)
  PROVE  IInv'
<1>. DEFINE f == filler[b]
<1>0. UNCHANGED <<job, worker, listed, used, counted, lost, forgiven>>
  BY DEF BackfillRead, BackfillFails, BackfillWrite, BackfillClause
<1>1. /\ Rows' /\ versions' \in [Clauses -> SUBSET Nat] /\ latest' \in [Clauses -> SUBSET Nat]
      /\ \A d \in Clauses : versions[d] \subseteq versions'[d]
  <2>1. CASE BackfillWrite(b)
    BY <2>1, FillerRow, Stored DEF BackfillWrite
  <2>2. CASE UNCHANGED <<versions, latest>>
    BY <2>2 DEF IInv, Rows, TypeOK
  <2>. QED
    BY <2>1, <2>2 DEF BackfillRead, BackfillFails, BackfillClause
<1>2. PICK g \in Filler :
         /\ filler' = [filler EXCEPT ![b] = g]
         /\ g.phase # "idle" => g.clause \in Clauses
         /\ g.phase = "read" => g.previous \in versions'[g.clause] \cup {0}
  <2>1. CASE BackfillRead(b)
    <3>1. PICK v \in latest[f.clause] \cup {0} :
               filler' = [filler EXCEPT ![b] = [f EXCEPT !.phase = "read", !.previous = v]]
      BY <2>1 DEF BackfillRead
    <3>2. f \in Filler /\ f.clause \in Clauses
      BY <2>1, FillerRow DEF BackfillRead
    <3>3. v \in versions'[f.clause] \cup {0} /\ v \in Nat
      <4>1. v \in versions[f.clause] \cup {0} /\ v \in Nat
        BY <3>2 DEF IInv, Rows
      <4>. QED
        BY <4>1, <3>2, <1>1
    <3>. DEFINE g == [f EXCEPT !.phase = "read", !.previous = v]
    <3>4. g \in Filler /\ g.phase = "read" /\ g.clause = f.clause /\ g.previous = v
      BY <3>2, <3>3 DEF Filler
    <3>5. filler' = [filler EXCEPT ![b] = g]
      BY <3>1
    <3>. HIDE DEF g
    <3>. QED
      BY <3>2, <3>3, <3>4, <3>5
  <2>2. ASSUME NEW c \in Clauses, BackfillClause(b, c)
        PROVE  \E g \in Filler :
                 /\ filler' = [filler EXCEPT ![b] = g]
                 /\ g.phase # "idle" => g.clause \in Clauses
                 /\ g.phase = "read" => g.previous \in versions'[g.clause] \cup {0}
    <3>. DEFINE g == [Resting EXCEPT !.phase = "called", !.clause = c]
    <3>1. g \in Filler /\ g.phase = "called" /\ g.clause = c
      BY DEF Filler, Resting
    <3>2. filler' = [filler EXCEPT ![b] = g]
      BY <2>2 DEF BackfillClause
    <3>. HIDE DEF g
    <3>. QED
      BY <3>1, <3>2
  <2>3. CASE BackfillFails(b) \/ BackfillWrite(b)
    <3>1. Resting \in Filler /\ Resting.phase = "idle"
      BY DEF Resting, Filler
    <3>2. filler' = [filler EXCEPT ![b] = Resting]
      BY <2>3 DEF BackfillFails, BackfillWrite
    <3>. QED
      BY <3>1, <3>2
  <2>. QED
    BY <2>1, <2>2, <2>3
<1>3. BudgetKept' /\ RequestsKept'
  BY <1>0, AccountsRest
<1>4. TypeOK'
  BY <1>0, <1>1, <1>2 DEF IInv, TypeOK
<1>5. RunsInOrder' /\ CompletedStored'
  BY <1>0, <1>1, Grown DEF IInv, RunsInOrder, CompletedStored
<1>6. FillersInOrder'
  <2>1. /\ filler'[b] = g
        /\ \A x \in Backfillers : x # b => filler'[x] = filler[x]
    BY <1>2 DEF IInv, TypeOK
  <2>2. ASSUME NEW x \in Backfillers
        PROVE  /\ filler'[x].phase # "idle" => filler'[x].clause \in Clauses
               /\ filler'[x].phase = "read" =>
                    filler'[x].previous \in versions'[filler'[x].clause] \cup {0}
    <3>1. CASE x = b
      BY <3>1, <2>1, <1>2
    <3>2. CASE x # b
      BY <3>2, <2>1, <1>1, Grown, FillerRow
    <3>. QED
      BY <3>1, <3>2
  <2>. QED
    BY <2>2 DEF FillersInOrder
<1>. QED
  BY <1>1, <1>3, <1>4, <1>5, <1>6 DEF IInv

------------------------------------------------------------------------------
LEMMA InitInv == Init => IInv
<1>. SUFFICES ASSUME Init
              PROVE  IInv
  OBVIOUS
<1>0. /\ counted \in Nat /\ Limit \in [Counters -> Nat]
      /\ counted <= Limit["month"] /\ counted <= Limit["day"]
      /\ used = [k \in Counters |-> IF k = "cost" THEN 0 ELSE counted]
  BY NumbersAssumption DEF Init, Counters
<1>1. TypeOK
  <2>1. used \in [Counters -> Nat]
    BY <1>0
  <2>. QED
    BY <2>1, <1>0, IdleRow DEF Init, TypeOK, Job, Filler, Resting
<1>2. Rows /\ RunsInOrder /\ FillersInOrder /\ CompletedStored
  <2>1. Seen(Idle, versions) /\ Sound(Idle)
    BY IdleRow
  <2>. QED
    BY <2>1 DEF Init, Rows, RunsInOrder, FillersInOrder, CompletedStored, Resting
<1>3. Unsettled = {} /\ AnsweredRuns = {} /\ Awaiting("month") = {} /\ Awaiting("day") = {}
  BY IdleRow DEF Init, Unsettled, AnsweredRuns, Answered, Awaiting, Paid, PaidPhases
<1>4. Cardinality({}) = 0
  BY FS_EmptySet
<1>5. BudgetKept
  <2>1. Estimate * 0 = 0 /\ used["cost"] = 0 /\ Limit["cost"] \in Nat
    BY <1>0, NumbersAssumption DEF Counters
  <2>. QED
    BY <1>3, <1>4, <2>1 DEF BudgetKept
<1>6. RequestsKept
  <2>1. /\ used["month"] = counted /\ used["day"] = counted /\ lost = 0
        /\ Limit["month"] \in Nat /\ Limit["day"] \in Nat
    BY <1>0 DEF Init, Counters
  <2>. QED
    BY <1>0, <1>3, <1>4, <2>1 DEF RequestsKept
<1>. QED
  BY <1>1, <1>2, <1>5, <1>6 DEF IInv

LEMMA StepInv == IInv /\ [Next]_vars => IInv'
<1>. SUFFICES ASSUME IInv, [Next]_vars
              PROVE  IInv'
  OBVIOUS
<1>1. ASSUME NEW w \in Workers, RunStep(w)
      PROVE  IInv'
  BY <1>1, ReserveStep, ReleaseStep, QuietSteps, CallProviderStep, WriteStep, SettleStep,
     FinishStep, ThrowStep, DieStep DEF RunStep
<1>2. ASSUME NEW w \in Workers, NEW c \in Clauses, Claim(w, c)
      PROVE  IInv'
  BY <1>2, ClaimStep
<1>3. CASE (\E c \in Clauses : Enqueue(c) \/ RecoverJob(c)) \/ RecoveryScan \/ RecoveryDies
  BY <1>3, QueueSteps
<1>4. ASSUME NEW b \in Backfillers,
             \/ BackfillRead(b) \/ BackfillWrite(b) \/ BackfillFails(b)
             \/ \E c \in Clauses : BackfillClause(b, c)
      PROVE  IInv'
  BY <1>4, BackfillSteps
<1>5. CASE UNCHANGED vars
  <2>1. UNCHANGED <<job, versions, latest, worker, filler, listed, used, counted, lost, forgiven>>
    BY <1>5 DEF vars
  <2>2. BudgetKept' /\ RequestsKept'
    BY <2>1, AccountsRest
  <2>3. TypeOK' /\ Rows' /\ RunsInOrder' /\ FillersInOrder' /\ CompletedStored'
    BY <2>1 DEF IInv, TypeOK, Rows, RunsInOrder, FillersInOrder, CompletedStored
  <2>. QED
    BY <2>2, <2>3 DEF IInv
<1>. QED
  BY <1>1, <1>2, <1>3, <1>4, <1>5 DEF Next

(* The inductive invariant: dense versions and counters that cover every   *)
(* live reservation.                                                       *)
THEOREM InvCorrect == Spec => []IInv
BY InitInv, StepInv, PTL DEF Spec

(* Every variable keeps its type, the clamped counters included.           *)
THEOREM TypeCorrect == Spec => []TypeOK
<1>1. IInv => TypeOK
  BY DEF IInv
<1>. QED
  BY <1>1, InvCorrect, PTL

(* Concurrent workers and backfills leave one latest embedding, the newest *)
(* (createLatestClauseEmbedding and its unique key).                       *)
THEOREM OneLatestHolds == Spec => []OneLatest
<1>1. IInv => OneLatest
  <2>. SUFFICES ASSUME IInv, NEW c \in Clauses, versions[c] # {}
                PROVE  \E v \in versions[c] : /\ latest[c] = {v}
                                              /\ \A u \in versions[c] : u <= v
    BY DEF OneLatest
  <2>1. PICK n \in Nat : n > 0 /\ versions[c] = 1 .. n /\ latest[c] = {n}
    BY DEF IInv, Rows
  <2>. QED
    BY <2>1
<1>. QED
  BY <1>1, InvCorrect, PTL

(* A completed job's clause can be retrieved (processNextEmbeddingJob).    *)
THEOREM CompletedIsEmbeddedHolds == Spec => []CompletedIsEmbedded
<1>1. IInv => CompletedIsEmbedded
  BY DEF IInv, CompletedStored, Rows, CompletedIsEmbedded, Embedded
<1>. QED
  BY <1>1, InvCorrect, PTL

(* No interleaving of reservations exceeds a request limit                 *)
(* (reserveAiBudget, releaseAiBudget).                                     *)
THEOREM CallsWithinLimitsHolds == Spec => []CallsWithinLimits
<1>1. IInv => CallsWithinLimits
  <2>. SUFFICES ASSUME IInv, NEW k \in {"month", "day"}
                PROVE  counted <= Limit[k]
    BY DEF CallsWithinLimits
  <2>1. /\ counted + Cardinality(Awaiting(k)) <= used[k] /\ used[k] <= Limit[k]
        /\ counted \in Nat /\ used[k] \in Nat /\ Limit[k] \in Nat
    BY NumbersAssumption DEF IInv, RequestsKept, TypeOK, Counters
  <2>2. IsFiniteSet(Awaiting(k))
    BY WorkersAssumption, FS_Subset DEF Awaiting
  <2>3. Cardinality(Awaiting(k)) \in Nat
    BY <2>2, FS_CardinalityType
  <2>. QED
    BY <2>1, <2>3
<1>. QED
  BY <1>1, InvCorrect, PTL

(* The estimates of the calls under way fit the budget, whoever settles,   *)
(* releases or dies at the same time (settleAiBudget's clamp included).    *)
THEOREM InFlightWithinBudgetHolds == Spec => []InFlightWithinBudget
<1>1. IInv => InFlightWithinBudget
  BY DEF IInv, BudgetKept, InFlightWithinBudget
<1>. QED
  BY <1>1, InvCorrect, PTL

(* A rollback or a release gives back all that was reserved                *)
(* (rollbackAndReject, releaseAiBudget).                                   *)
THEOREM HeadroomReturnedHolds == Spec => []HeadroomReturned
<1>1. IInv => HeadroomReturned
  BY DEF IInv, RequestsKept, HeadroomReturned
<1>. QED
  BY <1>1, InvCorrect, PTL

------------------------------------------------------------------------------
(* The index that retrieval reads.                                         *)

(* A stored embedding takes the next number, and is the one to be read.    *)
LEMMA StoredAppends ==
  ASSUME IInv, NEW c \in Clauses, NEW v \in versions[c] \cup {0}, StoreLatest(c, v),
         UNCHANGED <<job, counted>>
  PROVE  Index!Append(c)
<1>1. /\ versions \in [Clauses -> SUBSET Nat] /\ latest \in [Clauses -> SUBSET Nat]
      /\ v \in Nat /\ v + 1 \notin versions[c]
      /\ versions' = [versions EXCEPT ![c] = versions[c] \cup {v + 1}]
      /\ latest' = [latest EXCEPT ![c] = (latest[c] \ {v}) \cup {v + 1}]
  BY DEF IInv, TypeOK, StoreLatest, NextVersion
<1>2. PICK n \in {1} \cup {u + 1 : u \in versions[c]} :
           versions[c] = 1 .. (n - 1) /\ n \in Nat /\ n = v + 1 /\ latest[c] \subseteq {v}
  <2>1. CASE versions[c] = {} /\ latest[c] = {}
    <3>1. v = 0 /\ versions[c] = 1 .. (1 - 1) /\ 1 = v + 1
      BY <2>1
    <3>. QED
      BY <2>1, <3>1
  <2>2. CASE \E m \in Nat : m > 0 /\ versions[c] = 1 .. m /\ latest[c] = {m}
    <3>1. PICK m \in Nat : m > 0 /\ versions[c] = 1 .. m /\ latest[c] = {m}
      BY <2>2
    <3>2. v = m /\ m \in versions[c]
      BY <3>1, <1>1
    <3>3. m + 1 \in {1} \cup {u + 1 : u \in versions[c]} /\ (m + 1) - 1 = m
      BY <3>1, <3>2
    <3>. QED
      BY <3>1, <3>2, <3>3
  <2>. QED
    BY <2>1, <2>2 DEF IInv, Rows
<1>3. versions' = [versions EXCEPT ![c] = 1 .. n] /\ latest' = [latest EXCEPT ![c] = {n}]
  <2>1. versions[c] \cup {v + 1} = 1 .. n
    BY <1>1, <1>2
  <2>2. (latest[c] \ {v}) \cup {v + 1} = {n}
    BY <1>2
  <2>. QED
    BY <1>1, <2>1, <2>2
<1>4. Completed' = Completed
  BY DEF Completed
<1>. QED
  BY <1>2, <1>3, <1>4 DEF Index!Append

(* A job's new status completes its clause, reopens it or says nothing new. *)
LEMMA StatusIndexed ==
  ASSUME IInv, NEW c \in Clauses, NEW status, StatusBecomes(c, status),
         status = "COMPLETED" => versions[c] # {},
         UNCHANGED <<versions, latest, counted>>
  PROVE  Index!Complete(c) \/ Index!Reopen(c)
<1>1. \A d \in Clauses : job'[d].status = IF d = c THEN status ELSE job[d].status
  <2>1. job \in [Clauses -> Job] /\ \A d \in Clauses : [job[d] EXCEPT !.status = status].status = status
    BY DEF IInv, TypeOK, Job
  <2>. QED
    BY <2>1 DEF StatusBecomes
<1>2. Completed' = IF status = "COMPLETED" THEN Completed \cup {c} ELSE Completed \ {c}
  BY <1>1 DEF Completed
<1>. QED
  BY <1>2 DEF Index!Complete, Index!Reopen

LEMMA CallIndexed ==
  ASSUME IInv, NEW w \in Workers, CallProvider(w)
  PROVE  Index!Call
<1>1. /\ counted' = counted + 1 /\ UNCHANGED <<job, versions, latest>>
      /\ worker[w].phase = "reserved" /\ worker[w].held = Counters
  BY DEF CallProvider, IInv, RunsInOrder, Sound
<1>2. ASSUME NEW k \in {"month", "day"}
      PROVE  counted < Limit[k]
  <2>1. w \in Awaiting(k)
    BY <1>1 DEF Awaiting, Paid, Counters
  <2>2. Cardinality(Awaiting(k)) \in Nat /\ Cardinality(Awaiting(k)) # 0
    <3>1. IsFiniteSet(Awaiting(k))
      BY WorkersAssumption, FS_Subset DEF Awaiting
    <3>. QED
      BY <2>1, <3>1, FS_CardinalityType, FS_EmptySet
  <2>3. counted + Cardinality(Awaiting(k)) <= used[k] /\ used[k] <= Limit[k]
    BY DEF IInv, RequestsKept
  <2>4. counted \in Nat /\ used[k] \in Nat /\ Limit[k] \in Nat
    BY NumbersAssumption DEF IInv, TypeOK, Counters
  <2>. QED
    BY <2>2, <2>3, <2>4
<1>3. Completed' = Completed
  BY <1>1 DEF Completed
<1>. QED
  BY <1>1, <1>2, <1>3 DEF Index!Call

LEMMA ThrowIndexed ==
  ASSUME IInv, IInv', NEW w \in Workers, RunThrows(w)
  PROVE  Index!GiveBack \/ UNCHANGED Index!vars
<1>1. counted' \in {counted, counted - 1} /\ UNCHANGED <<job, versions, latest>>
  BY DEF RunThrows
<1>2. counted \in Nat /\ counted' \in Nat
  BY DEF IInv, TypeOK
<1>3. Completed' = Completed
  BY <1>1 DEF Completed
<1>4. CASE counted' = counted
  BY <1>1, <1>3, <1>4 DEF Index!vars
<1>5. CASE counted' = counted - 1
  BY <1>1, <1>2, <1>3, <1>5 DEF Index!GiveBack
<1>. QED
  BY <1>1, <1>4, <1>5

(* Steps that leave the rows and the calls alone, but perhaps not a job.   *)
LEMMA QueueIndexed ==
  ASSUME IInv, [Next]_vars, UNCHANGED <<versions, latest, counted>>
  PROVE  (\E c \in Clauses : Index!Complete(c) \/ Index!Reopen(c)) \/ UNCHANGED Index!vars
<1>. DEFINE Goal == (\E c \in Clauses : Index!Complete(c) \/ Index!Reopen(c))
                    \/ UNCHANGED Index!vars
<1>. SUFFICES Goal
  OBVIOUS
<1>0. ASSUME NEW c \in Clauses, NEW status, StatusBecomes(c, status),
             status = "COMPLETED" => versions[c] # {}
      PROVE  Goal
  BY <1>0, StatusIndexed
<1>r. \A w \in Workers :
        /\ worker[w].phase # "idle" => worker[w].clause \in Clauses
        /\ worker[w].phase = "written" => versions[worker[w].clause] # {}
  BY DEF IInv, RunsInOrder, Sound, Seen
<1>. HIDE DEF Goal
<1>1. ASSUME NEW c \in Clauses, Enqueue(c)
      PROVE  Goal
  BY <1>1, <1>0 DEF Enqueue
<1>2. ASSUME NEW c \in Clauses, RecoverJob(c)
      PROVE  Goal
  <2>1. PICK l \in listed : StatusBecomes(c, RecoveredTo(l))
    BY <1>2 DEF RecoverJob
  <2>2. RecoveredTo(l) # "COMPLETED"
    BY DEF RecoveredTo
  <2>. QED
    BY <2>1, <2>2, <1>0
<1>3. ASSUME NEW w \in Workers, NEW c \in Clauses, Claim(w, c)
      PROVE  Goal
  <2>1. /\ job' = [job EXCEPT ![c] = [status |-> "PROCESSING", attempt |-> job[c].attempt + 1]]
        /\ job[c].status = "PENDING" /\ job \in [Clauses -> Job]
    BY <1>3 DEF Claim, IInv, TypeOK
  <2>2. job'[c].status = "PROCESSING" /\ \A d \in Clauses : d # c => job'[d] = job[d]
    BY <2>1
  <2>3. Completed' = Completed
    BY <2>1, <2>2 DEF Completed
  <2>. QED
    BY <2>3 DEF Goal, Index!vars
<1>4. ASSUME NEW w \in Workers, FailRefused(w)
      PROVE  Goal
  BY <1>4, <1>0, <1>r DEF FailRefused
<1>5. ASSUME NEW w \in Workers, CompleteJob(w)
      PROVE  Goal
  BY <1>5, <1>0, <1>r DEF CompleteJob, Completable
<1>6. ASSUME NEW w \in Workers, EndFailedRun(w)
      PROVE  Goal
  <2>1. PICK status \in {"FAILED", "PENDING"} : StatusBecomes(worker[w].clause, status)
    BY <1>6 DEF EndFailedRun
  <2>. QED
    BY <1>6, <2>1, <1>0, <1>r DEF EndFailedRun
<1>7. CASE job' = job
  <2>1. Completed' = Completed
    BY <1>7 DEF Completed
  <2>. QED
    BY <2>1 DEF Goal, Index!vars
<1>. QED
  BY <1>1, <1>2, <1>3, <1>4, <1>5, <1>6, <1>7
     DEF Next, RunStep, vars, RecoveryScan, RecoveryDies, BackfillRead, BackfillWrite,
         BackfillFails, BackfillClause, Reserve, RejectReservation, Release, PolicyRefuses,
         CallProvider, ReadLatest, WriteLatest, SettleBudget, FinishRun, RunThrows, WorkerDies

(* Workers, recovery and backfills leave an index without gaps, whose      *)
(* newest row is read (createLatestClauseEmbedding), a COMPLETED job only  *)
(* where there is one (processNextEmbeddingJob), and no call beyond the    *)
(* limits (reserveAiBudget).                                               *)
THEOREM RefinesClauseIndex == Spec => ClauseIndexSpec
<1>1. Init => Index!Init
  <2>. SUFFICES ASSUME Init
                PROVE  Index!Init
    OBVIOUS
  <2>1. Completed = {}
    BY DEF Init, Completed
  <2>2. counted \in Nat /\ \A n \in {Limit["month"], Limit["day"]} : counted <= n
    BY NumbersAssumption DEF Init, Counters
  <2>. QED
    BY <2>1, <2>2 DEF Init, Index!Init
<1>2. IInv /\ IInv' /\ [Next]_vars => [Index!Next]_(Index!vars)
  <2>. SUFFICES ASSUME IInv, IInv', [Next]_vars
                PROVE  Index!Next \/ UNCHANGED Index!vars
    OBVIOUS
  <2>1. ASSUME NEW w \in Workers, WriteLatest(w)
        PROVE  Index!Next
    <3>1. worker[w].clause \in Clauses /\ worker[w].previous \in versions[worker[w].clause] \cup {0}
      BY <2>1 DEF WriteLatest, IInv, RunsInOrder, Sound, Seen
    <3>. QED
      BY <2>1, <3>1, StoredAppends DEF WriteLatest, Index!Next
  <2>2. ASSUME NEW b \in Backfillers, BackfillWrite(b)
        PROVE  Index!Next
    <3>1. filler[b].clause \in Clauses /\ filler[b].previous \in versions[filler[b].clause] \cup {0}
      BY <2>2, FillerRow DEF BackfillWrite
    <3>. QED
      BY <2>2, <3>1, StoredAppends DEF BackfillWrite, Index!Next
  <2>3. ASSUME NEW w \in Workers, CallProvider(w)
        PROVE  Index!Next
    BY <2>3, CallIndexed DEF Index!Next
  <2>4. ASSUME NEW w \in Workers, RunThrows(w)
        PROVE  Index!Next \/ UNCHANGED Index!vars
    BY <2>4, ThrowIndexed DEF Index!Next
  <2>5. CASE UNCHANGED <<versions, latest, counted>>
    BY <2>5, QueueIndexed DEF Index!Next
  <2>. QED
    BY <2>1, <2>2, <2>3, <2>4, <2>5
       DEF Next, RunStep, vars, Enqueue, RecoverJob, Claim, RecoveryScan, RecoveryDies,
           BackfillRead, BackfillFails, BackfillClause, Reserve, RejectReservation, Release,
           PolicyRefuses, FailRefused, ReadLatest, CompleteJob, SettleBudget, FinishRun,
           EndFailedRun, WorkerDies
<1>. QED
  BY <1>1, <1>2, InvCorrect, PTL DEF Spec, ClauseIndexSpec, Index!Spec
==============================================================================
