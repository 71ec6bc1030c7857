-------------------------- MODULE ExtractionProofs --------------------------
(***************************************************************************)
(* The safety properties of ExtractionProperties hold for any number of    *)
(* jobs, users, attempts and edits.                                        *)
(***************************************************************************)
EXTENDS ExtractionProperties, TLAPS

(* A request about a job, or a run under way, knows its job.               *)
JobsKnown ==
    /\ worker.phase # "idle" => worker.job \in Jobs
    /\ \A u \in Users : request[u].op \notin {"none", "editing"} => request[u].job \in Jobs

(* What is accepted now, its reviewers stand by.                           *)
ReviewsApproved ==
    \A j \in Jobs : suggestion[j].review = "ACCEPTED" => suggestion[j].gen \in approved[j]

(* The stored snapshot is the version the current suggestions were         *)
(* computed on, and it exists once the job is up for review: the           *)
(* "no snapshot" branch of hasContractChangedSinceExtraction is dead.      *)
SnapshotsKept ==
    \A j \in Jobs :
        /\ suggestion[j].basis = job[j].snapshot
        /\ job[j].status = "REVIEW_REQUIRED" => job[j].snapshot # NoVersion

(* No version is ahead of the contract's.                                  *)
VersionsRead ==
    /\ worker.phase = "extracting" =>
         worker.version # NoVersion /\ worker.version <= contract.version
    /\ \A u \in Users : request[u].version <= contract.version

(* A job whose run is under way is not up for review, so a run that ends   *)
(* after an apply request has read the contract has read it later still.   *)
RunsFollowReads ==
    /\ worker.phase # "idle" => job[worker.job].status # "REVIEW_REQUIRED"
    /\ \A u \in Users :
         request[u].op = "applying" =>
           /\ request[u].version <= suggestion[request[u].job].basis
           /\ worker.phase = "extracting" /\ worker.job = request[u].job
                => request[u].version <= worker.version

Inv ==
    /\ TypeOK
    /\ JobsKnown
    /\ ReviewsApproved
    /\ SnapshotsKept
    /\ VersionsRead
    /\ RunsFollowReads
    /\ EditsBeforeApplyReadSurvive

USE MaxAttemptsAssumption, MaxEditsAssumption, NoJobAssumption

(* The rows and requests the handlers write are of the right kind.         *)
LEMMA RowUpdates ==
    ASSUME NEW r \in Row
    PROVE  /\ Reset(r) \in Row
           /\ \A e \in {"retryable", "permanent"} : Failed(r, e) \in Row
           /\ Claimed(r) \in Row
           /\ \A v \in Versions : Reviewable(r, v) \in Row
           /\ [r EXCEPT !.status = "PENDING"] \in Row
           /\ [r EXCEPT !.overdue = TRUE] \in Row
<1>1. Reset(r) \in Row BY DEF Reset, Row
<1>2. \A e \in {"retryable", "permanent"} : Failed(r, e) \in Row BY DEF Failed, Row
<1>3. Claimed(r) \in Row
  <2>1. r.attempt + 1 \in Nat BY DEF Row
  <2> QED BY <2>1 DEF Claimed, Row
<1>4. \A v \in Versions : Reviewable(r, v) \in Row BY DEF Reviewable, Row
<1>5. [r EXCEPT !.status = "PENDING"] \in Row BY DEF Row
<1>6. [r EXCEPT !.overdue = TRUE] \in Row BY DEF Row
<1> QED BY <1>1, <1>2, <1>3, <1>4, <1>5, <1>6

LEMMA RegeneratedType ==
    ASSUME NEW s \in Suggestion, NEW v \in Versions
    PROVE  Regenerated(s, v) \in Suggestion
<1>1. s.gen + 1 \in Nat BY DEF Suggestion
<1> QED BY <1>1 DEF Regenerated, Suggestion

LEMMA ReadyType ==
    ASSUME NEW r \in Request, NEW s \in Suggestion
    PROVE  Ready(r, s) \in Request
BY DEF Ready, Request, Suggestion

(* Each kind of step preserves the type invariant.                         *)
LEMMA TypeStep == TypeOK /\ JobsKnown /\ [Next]_vars => TypeOK'
<1> SUFFICES ASSUME TypeOK, JobsKnown, [Next]_vars PROVE TypeOK'
  OBVIOUS
<1> USE DEF TypeOK
<1>a. Idle \in Request /\ Resting \in Worker
  BY DEF Idle, Resting, Request, Worker, Versions, NoVersion
<1>1. ASSUME NEW j \in Jobs, Create(j) PROVE TypeOK'
  <2>1. [job[j] EXCEPT !.status = "PENDING"] \in Row BY RowUpdates
  <2> QED BY <1>1, <2>1 DEF Create
<1>2. ASSUME NEW j \in Jobs, LockAges(j) PROVE TypeOK'
  <2>1. [job[j] EXCEPT !.overdue = TRUE] \in Row BY RowUpdates
  <2> QED BY <1>2, <2>1 DEF LockAges
<1>3. ASSUME NEW j \in Jobs, RecoverRow(j) PROVE TypeOK'
  <2>1. job' \in [Jobs -> Row]
    BY <1>3, RowUpdates DEF RecoverRow
  <2> QED BY <1>3, <2>1 DEF RecoverRow
<1>4. ASSUME NEW j \in Jobs, Claim(j) PROVE TypeOK'
  <2>1. job' \in [Jobs -> Row] BY <1>4, RowUpdates DEF Claim
  <2>2. worker' \in Worker BY <1>4 DEF Claim, Worker
  <2> QED BY <1>4, <2>1, <2>2 DEF Claim
<1>5. CASE ReadInputs
  <2>2. contract.version \in Versions BY DEF Contract, Versions
  <2>3. \A w \in Worker, v \in Versions :
          [w EXCEPT !.phase = "extracting", !.version = v] \in Worker
    BY DEF Worker
  <2>1. worker' \in Worker BY <1>5, <2>2, <2>3 DEF ReadInputs
  <2> QED BY <1>5, <2>1 DEF ReadInputs
<1>6. CASE FailJob
  <2>1. worker.job \in Jobs BY <1>6 DEF FailJob, JobsKnown
  <2>3. PICK error \in {"retryable", "permanent"} :
             job' = [job EXCEPT ![worker.job] = Failed(job[worker.job], error)]
    BY <1>6 DEF FailJob
  <2>4. Failed(job[worker.job], error) \in Row BY <2>1, RowUpdates
  <2>2. job' \in [Jobs -> Row] BY <2>3, <2>4
  <2> QED BY <1>6, <2>2, <1>a DEF FailJob
<1>7. CASE FinishExtraction
  <2>1. worker.job \in Jobs /\ worker.version \in Versions
    BY <1>7 DEF FinishExtraction, JobsKnown, Worker
  <2>2. job' \in [Jobs -> Row] BY <1>7, <2>1, RowUpdates DEF FinishExtraction, Snapshot
  <2>3. suggestion' \in [Jobs -> Suggestion]
    BY <1>7, <2>1, RegeneratedType DEF FinishExtraction
  <2> QED BY <1>7, <2>2, <2>3, <1>a DEF FinishExtraction
<1>8. CASE WorkerDies BY <1>8, <1>a DEF WorkerDies
<1>9. CASE RecoverScan BY <1>9 DEF RecoverScan, Row
<1>10. CASE RecoverDies BY <1>10 DEF RecoverDies
<1>11. ASSUME NEW u \in Users, UserStep(u) PROVE TypeOK'
  <2>1. ASSUME NEW j \in Jobs, RetryRead(u, j) PROVE TypeOK'
    <3>1. [request[u] EXCEPT !.op = "retry", !.job = j] \in Request BY DEF Request
    <3> QED BY <2>1, <3>1 DEF RetryRead
  <2>2. ASSUME NEW j \in Jobs, ReviewRead(u, j) PROVE TypeOK'
    <3>1. suggestion[j].gen \in Nat BY DEF Suggestion
    <3>2. [request[u] EXCEPT !.op = "review", !.job = j, !.gen = suggestion[j].gen] \in Request
      BY <3>1 DEF Request
    <3> QED BY <2>2, <3>2 DEF ReviewRead
  <2>3. ASSUME NEW j \in Jobs, ApplyRead(u, j) PROVE TypeOK'
    <3>1. contract.version \in Versions /\ contract.edits \in SUBSET Nat
      BY DEF Contract, Versions
    <3>2. [request[u] EXCEPT !.op = "applying", !.job = j, !.version = contract.version,
                             !.edits = contract.edits] \in Request
      BY <3>1 DEF Request
    <3> QED BY <2>3, <3>2 DEF ApplyRead
  <2>4. CASE RetryWrite(u)
    <3>1. job' \in [Jobs -> Row] BY <2>4, RowUpdates DEF RetryWrite, JobsKnown
    <3> QED BY <2>4, <3>1, <1>a DEF RetryWrite
  <2>5. CASE ReviewWrite(u)
    <3>1. request[u].job \in Jobs /\ request[u].gen \in Nat
      BY <2>5 DEF ReviewWrite, JobsKnown, Request
    <3>2. suggestion' \in [Jobs -> Suggestion]
      BY <2>5, <3>1 DEF ReviewWrite, Suggestion
    <3>3. approved' \in [Jobs -> SUBSET Nat] BY <2>5, <3>1 DEF ReviewWrite, Judged
    <3> QED BY <2>5, <3>2, <3>3, <1>a DEF ReviewWrite
  <2>6. CASE ApplyReadSuggestions(u)
    <3>1. request[u].job \in Jobs BY <2>6 DEF ApplyReadSuggestions, JobsKnown
    <3>2. request' \in [Users -> Request]
      BY <2>6, <3>1, <1>a, ReadyType DEF ApplyReadSuggestions
    <3> QED BY <2>6, <3>2 DEF ApplyReadSuggestions
  <2>7. CASE ApplyWrite(u)
    <3>1. job' \in [Jobs -> Row] BY <2>7 DEF ApplyWrite, Row
    <3>2. contract.version + 1 \in Nat BY DEF Contract
    <3>3. contract' \in Contract BY <2>7, <3>2 DEF ApplyWrite, Contract, Request
    <3> QED BY <2>7, <3>1, <3>3, <1>a DEF ApplyWrite
  <2>8. CASE Abandon(u) BY <2>8, <1>a DEF Abandon
  <2>9. CASE EditOpen(u)
    <3>1. /\ contract.version \in Versions /\ contract.edits \in SUBSET Nat
          /\ contract.source \in Jobs \cup {NoJob} /\ contract.gen \in Nat
      BY DEF Contract, Versions
    <3>2. [request[u] EXCEPT !.op = "editing", !.job = contract.source,
                             !.gen = contract.gen, !.version = contract.version,
                             !.edits = contract.edits] \in Request
      BY <3>1 DEF Request
    <3> QED BY <2>9, <3>2 DEF EditOpen
  <2>10. CASE EditSave(u)
    <3>1. contract' \in Contract /\ edits' \in Nat
      <4>1. CASE contract.deleted BY <2>10, <4>1 DEF EditSave
      <4>2. CASE ~contract.deleted
        <5>1. contract.version + 1 \in Nat /\ edits + 1 \in Nat BY DEF Contract
        <5>2. request[u].edits \cup {edits + 1} \in SUBSET Nat BY <5>1 DEF Request
        <5>3. Overwritten(contract, request[u], edits + 1) \in Contract
          BY <5>1, <5>2 DEF Overwritten, Contract, Request
        <5> QED BY <2>10, <4>2, <5>1, <5>3 DEF EditSave
      <4> QED BY <4>1, <4>2
    <3> QED BY <2>10, <3>1, <1>a DEF EditSave
  <2> QED BY <1>11, <2>1, <2>2, <2>3, <2>4, <2>5, <2>6, <2>7, <2>8, <2>9, <2>10
          DEF UserStep
<1>12. CASE DeleteContract
  <2>1. contract.version + 1 \in Nat BY DEF Contract
  <2>2. contract' \in Contract BY <1>12, <2>1 DEF DeleteContract, Contract
  <2> QED BY <1>12, <2>2 DEF DeleteContract
<1>13. CASE UNCHANGED vars BY <1>13 DEF vars
<1> QED
  BY <1>1, <1>2, <1>3, <1>4, <1>5, <1>6, <1>7, <1>8, <1>9, <1>10, <1>11,
     <1>12, <1>13 DEF Next, WorkerStep

LEMMA JobsKnownStep == TypeOK /\ JobsKnown /\ [Next]_vars => JobsKnown'
<1> SUFFICES ASSUME TypeOK, JobsKnown, [Next]_vars PROVE JobsKnown'
  OBVIOUS
<1> USE DEF TypeOK, JobsKnown
<1>1. ASSUME NEW j \in Jobs, Create(j) \/ LockAges(j) \/ RecoverRow(j) PROVE JobsKnown'
  BY <1>1 DEF Create, LockAges, RecoverRow
<1>2. CASE WorkerStep
  <2>1. ASSUME NEW j \in Jobs, Claim(j) PROVE JobsKnown'
    BY <2>1 DEF Claim, Worker
  <2>2. CASE ReadInputs BY <2>2 DEF ReadInputs, Worker
  <2>3. CASE FailJob \/ FinishExtraction
    BY <2>3 DEF FailJob, FinishExtraction, Resting
  <2> QED BY <1>2, <2>1, <2>2, <2>3 DEF WorkerStep
<1>3. CASE WorkerDies \/ RecoverScan \/ RecoverDies \/ DeleteContract
  BY <1>3 DEF WorkerDies, RecoverScan, RecoverDies, DeleteContract, Resting
<1>4. ASSUME NEW u \in Users, UserStep(u) PROVE JobsKnown'
  <2>1. ASSUME NEW j \in Jobs, RetryRead(u, j) \/ ReviewRead(u, j) \/ ApplyRead(u, j)
        PROVE  JobsKnown'
    <3>1. CASE RetryRead(u, j) BY <3>1 DEF RetryRead, Request
    <3>2. CASE ReviewRead(u, j) BY <3>2 DEF ReviewRead, Request
    <3>3. CASE ApplyRead(u, j) BY <3>3 DEF ApplyRead, Request
    <3> QED BY <2>1, <3>1, <3>2, <3>3
  <2>2. CASE ApplyReadSuggestions(u)
    BY <2>2 DEF ApplyReadSuggestions, Ready, Idle, Request
  <2>3. CASE \/ RetryWrite(u) \/ ReviewWrite(u) \/ ApplyWrite(u) \/ Abandon(u)
             \/ EditSave(u)
    BY <2>3 DEF RetryWrite, ReviewWrite, ApplyWrite, Abandon, EditSave, Idle, Request
  <2>4. CASE EditOpen(u) BY <2>4 DEF EditOpen, Request
  <2> QED BY <1>4, <2>1, <2>2, <2>3, <2>4 DEF UserStep
<1>5. CASE UNCHANGED vars BY <1>5 DEF vars
<1> QED BY <1>1, <1>2, <1>3, <1>4, <1>5 DEF Next

(* A new generation is not accepted, and a verdict is written only on the  *)
(* generation the reviewer has read.                                       *)
LEMMA ApprovalsStep ==
    TypeOK /\ JobsKnown /\ ReviewsApproved /\ [Next]_vars => ReviewsApproved'
<1> SUFFICES ASSUME TypeOK, JobsKnown, ReviewsApproved, [Next]_vars PROVE ReviewsApproved'
  OBVIOUS
<1> USE DEF TypeOK, ReviewsApproved
<1>1. CASE FinishExtraction
  <2>1. worker.job \in Jobs BY <1>1 DEF FinishExtraction, JobsKnown
  <2>2. suggestion'[worker.job].review = "PENDING"
    BY <1>1, <2>1 DEF FinishExtraction, Regenerated, Suggestion
  <2>3. \A j \in Jobs : j # worker.job => suggestion'[j] = suggestion[j]
    BY <1>1 DEF FinishExtraction
  <2> QED BY <1>1, <2>2, <2>3 DEF FinishExtraction
<1>2. ASSUME NEW u \in Users, ReviewWrite(u) PROVE ReviewsApproved'
  <2> DEFINE j == request[u].job
             g == request[u].gen
  <2>1. j \in Jobs BY <1>2 DEF ReviewWrite, JobsKnown
  <2>2. CASE suggestion[j].gen # g
    BY <1>2, <2>2 DEF ReviewWrite
  <2>3. CASE suggestion[j].gen = g
    <3>1. PICK verdict \in {"ACCEPTED", "REJECTED"} :
             /\ suggestion' = [suggestion EXCEPT ![j].review = verdict]
             /\ approved' = [approved EXCEPT ![j] = Judged(approved[j], g, verdict)]
      BY <1>2, <2>3 DEF ReviewWrite
    <3>2. \A k \in Jobs \ {j} : suggestion'[k] = suggestion[k] /\ approved'[k] = approved[k]
      BY <3>1
    <3>3. suggestion'[j].review = verdict /\ suggestion'[j].gen = g
      BY <2>1, <2>3, <3>1 DEF Suggestion
    <3>4. verdict = "ACCEPTED" => g \in approved'[j]
      BY <2>1, <3>1 DEF Judged
    <3> QED BY <3>2, <3>3, <3>4
  <2> QED BY <2>2, <2>3
<1>3. CASE ~FinishExtraction /\ \A u \in Users : ~ReviewWrite(u)
  <2>1. UNCHANGED <<suggestion, approved>>
    BY <1>3 DEF Next, WorkerStep, UserStep, Create, LockAges, RecoverRow, Claim, ReadInputs,
       FailJob, WorkerDies, RecoverScan, RecoverDies, RetryRead, RetryWrite, ReviewRead,
       ApplyRead, ApplyReadSuggestions, ApplyWrite, EditOpen, EditSave, Abandon,
       DeleteContract, vars
  <2> QED BY <2>1
<1> QED BY <1>1, <1>2, <1>3

Timeline ==
    SnapshotsKept /\ VersionsRead /\ RunsFollowReads /\ EditsBeforeApplyReadSurvive

(* Steps that disturb nothing: the contract's version moves on, no row     *)
(* comes up for review, snapshots and bases stay, and a request changes    *)
(* only to one that is neither applying nor ready.                         *)
LEMMA Undisturbed ==
    ASSUME TypeOK, JobsKnown, Timeline,
           contract' \in Contract, contract.version <= contract'.version,
           UNCHANGED worker,
           \A j \in Jobs :
               /\ job'[j].snapshot = job[j].snapshot
               /\ job'[j].status = "REVIEW_REQUIRED" => job[j].status = "REVIEW_REQUIRED"
               /\ suggestion'[j].basis = suggestion[j].basis,
           \A u \in Users :
               \/ request'[u] = request[u]
               \/ /\ request'[u].version <= contract.version
                  /\ request'[u].op \notin {"applying", "ready"},
           request' \in [Users -> Request]
    PROVE  Timeline'
<1> USE DEF TypeOK, Contract, Versions, NoVersion
<1>1. SnapshotsKept' BY DEF Timeline, SnapshotsKept
<1>2. VersionsRead'
  <2>1. worker.version \in Versions BY DEF Worker
  <2>2. \A u \in Users : request'[u].version \in Versions BY DEF Request
  <2>3. \A u \in Users : request'[u].version <= contract.version
    BY DEF Timeline, VersionsRead
  <2> QED BY <2>1, <2>2, <2>3 DEF Timeline, VersionsRead
<1>3. RunsFollowReads'
  <2>1. worker.phase # "idle" => worker.job \in Jobs BY DEF JobsKnown
  <2>2. worker'.phase # "idle" => job'[worker'.job].status # "REVIEW_REQUIRED"
    BY <2>1 DEF Timeline, RunsFollowReads
  <2>3. \A u \in Users : request'[u].op = "applying" =>
          request'[u] = request[u] /\ request[u].job \in Jobs
    BY DEF JobsKnown
  <2> QED BY <2>2, <2>3 DEF Timeline, RunsFollowReads
<1>4. EditsBeforeApplyReadSurvive' BY DEF Timeline, EditsBeforeApplyReadSurvive
<1> QED BY <1>1, <1>2, <1>3, <1>4 DEF Timeline

LEMMA TimelineStep ==
    TypeOK /\ JobsKnown /\ Timeline /\ [Next]_vars => Timeline'
<1> SUFFICES ASSUME TypeOK, JobsKnown, Timeline, [Next]_vars PROVE Timeline'
  OBVIOUS
<1>a. TypeOK' BY TypeStep
<1>1. ASSUME NEW j \in Jobs, Create(j) PROVE Timeline'
  BY <1>1, <1>a, Undisturbed DEF Create, TypeOK, Row, Contract
<1>2. ASSUME NEW j \in Jobs, LockAges(j) PROVE Timeline'
  BY <1>2, <1>a, Undisturbed DEF LockAges, TypeOK, Row, Contract
<1>3. ASSUME NEW j \in Jobs, RecoverRow(j) PROVE Timeline'
  BY <1>3, <1>a, Undisturbed DEF RecoverRow, Reset, Failed, TypeOK, Row, Contract
<1>4. ASSUME NEW j \in Jobs, Claim(j) PROVE Timeline'
  <2> USE DEF Timeline
  <2>1. SnapshotsKept' BY <1>4 DEF Claim, Claimed, SnapshotsKept, TypeOK, Row
  <2>2. VersionsRead' BY <1>4 DEF Claim, VersionsRead, TypeOK, Worker
  <2>3. RunsFollowReads' BY <1>4 DEF Claim, Claimed, RunsFollowReads, TypeOK, Worker, Row
  <2>4. EditsBeforeApplyReadSurvive' BY <1>4 DEF Claim, EditsBeforeApplyReadSurvive
  <2> QED BY <2>1, <2>2, <2>3, <2>4
<1>5. CASE ReadInputs
  <2> USE DEF Timeline
  <2>1. SnapshotsKept' BY <1>5 DEF ReadInputs, SnapshotsKept
  <2>2. VersionsRead' BY <1>5 DEF ReadInputs, VersionsRead, TypeOK, Worker, Contract, NoVersion
  <2>3. RunsFollowReads'
    BY <1>5 DEF ReadInputs, RunsFollowReads, VersionsRead, TypeOK, Worker
  <2>4. EditsBeforeApplyReadSurvive' BY <1>5 DEF ReadInputs, EditsBeforeApplyReadSurvive
  <2> QED BY <2>1, <2>2, <2>3, <2>4
<1>6. CASE FailJob
  <2> USE DEF Timeline
  <2>1. SnapshotsKept' BY <1>6 DEF FailJob, Failed, SnapshotsKept, TypeOK, Row
  <2>2. VersionsRead' BY <1>6 DEF FailJob, Resting, VersionsRead
  <2>3. RunsFollowReads' BY <1>6 DEF FailJob, Resting, RunsFollowReads
  <2>4. EditsBeforeApplyReadSurvive' BY <1>6 DEF FailJob, EditsBeforeApplyReadSurvive
  <2> QED BY <2>1, <2>2, <2>3, <2>4
<1>7. CASE FinishExtraction
  <2> USE DEF Timeline
  <2> DEFINE j == worker.job
  <2>1. j \in Jobs BY <1>7 DEF FinishExtraction, JobsKnown
  <2>2. worker.version # NoVersion /\ worker.version <= contract.version
    BY <1>7 DEF FinishExtraction, VersionsRead
  <2>3. /\ suggestion'[j].basis = worker.version
        /\ job'[j].snapshot = worker.version
        /\ \A k \in Jobs \ {j} : suggestion'[k] = suggestion[k] /\ job'[k] = job[k]
    BY <1>7, <2>1
    DEF FinishExtraction, Regenerated, Reviewable, Snapshot, TypeOK, Row, Suggestion
  <2>4. worker' = Resting /\ UNCHANGED <<contract, request>>
    BY <1>7 DEF FinishExtraction
  <2>5. SnapshotsKept' BY <2>2, <2>3 DEF SnapshotsKept
  <2>6. VersionsRead' BY <2>4 DEF Resting, VersionsRead
  <2>7. RunsFollowReads'
    BY <1>7, <2>3, <2>4 DEF FinishExtraction, Resting, RunsFollowReads, JobsKnown
  <2>8. EditsBeforeApplyReadSurvive' BY <2>4 DEF EditsBeforeApplyReadSurvive
  <2> QED BY <2>5, <2>6, <2>7, <2>8
<1>8. CASE WorkerDies
  BY <1>8 DEF WorkerDies, Resting, Timeline, SnapshotsKept, VersionsRead,
              RunsFollowReads, EditsBeforeApplyReadSurvive
<1>9. CASE RecoverScan \/ RecoverDies \/ UNCHANGED vars
  BY <1>9 DEF RecoverScan, RecoverDies, vars, Timeline, SnapshotsKept, VersionsRead,
              RunsFollowReads, EditsBeforeApplyReadSurvive
<1>10. CASE DeleteContract
  <2>1. contract.version <= contract'.version
    <3>1. contract'.version = contract.version + 1
      BY <1>10 DEF DeleteContract, TypeOK, Contract
    <3> QED BY <3>1 DEF TypeOK, Contract
  <2> QED BY <1>10, <1>a, <2>1, Undisturbed DEF DeleteContract, TypeOK
<1>11. ASSUME NEW u \in Users, UserStep(u) PROVE Timeline'
  <2>a. /\ \A v \in Users : request[v].version <= contract.version
        /\ contract.version \in Nat /\ contract.version + 1 \in Nat
        /\ contract.version <= contract.version + 1
    BY DEF Timeline, VersionsRead, TypeOK, Contract
  <2>b. Idle.version <= contract.version /\ Idle.op = "none"
    BY <2>a DEF Idle, NoVersion
  <2>1. ASSUME NEW j \in Jobs, RetryRead(u, j) PROVE Timeline'
    BY <2>1, <2>a, <1>a, Undisturbed DEF RetryRead, TypeOK, Request
  <2>2. ASSUME NEW j \in Jobs, ReviewRead(u, j) PROVE Timeline'
    BY <2>2, <2>a, <1>a, Undisturbed DEF ReviewRead, TypeOK, Request
  <2>3. CASE Abandon(u)
    BY <2>3, <2>a, <2>b, <1>a, Undisturbed DEF Abandon, TypeOK
  <2>4. CASE RetryWrite(u)
    <3>1. \A j \in Jobs :
             /\ job'[j].snapshot = job[j].snapshot
             /\ job'[j].status = "REVIEW_REQUIRED" => job[j].status = "REVIEW_REQUIRED"
      BY <2>4 DEF RetryWrite, Reset, TypeOK, Row
    <3> QED BY <2>4, <3>1, <2>a, <2>b, <1>a, Undisturbed DEF RetryWrite, TypeOK
  <2>5. CASE ReviewWrite(u)
    <3>1. \A j \in Jobs : suggestion'[j].basis = suggestion[j].basis
      BY <2>5 DEF ReviewWrite, TypeOK, Suggestion
    <3> QED BY <2>5, <3>1, <2>a, <2>b, <1>a, Undisturbed DEF ReviewWrite, TypeOK
  <2>6. CASE ApplyWrite(u)
    <3>1. \A j \in Jobs : job'[j].snapshot = job[j].snapshot
      BY <2>6 DEF ApplyWrite, TypeOK, Row
    <3>2. \A j \in Jobs : job'[j].status = "REVIEW_REQUIRED"
                              => job[j].status = "REVIEW_REQUIRED"
      BY <2>6 DEF ApplyWrite, TypeOK, Row
    <3>3. contract.version <= contract'.version
      <4>1. contract'.version \in {contract.version, contract.version + 1}
        BY <2>6 DEF ApplyWrite, TypeOK, Contract
      <4> QED BY <4>1, <2>a
    <3> QED BY <2>6, <3>1, <3>2, <3>3, <2>a, <2>b, <1>a, Undisturbed
            DEF ApplyWrite, TypeOK
  <2>7. ASSUME NEW j \in Jobs, ApplyRead(u, j) PROVE Timeline'
    <3> USE DEF Timeline
    <3> DEFINE r == request'[u]
    <3>1. /\ r.op = "applying" /\ r.job = j /\ r.version = contract.version
          /\ \A v \in Users \ {u} : request'[v] = request[v]
      BY <2>7 DEF ApplyRead, TypeOK, Request
    <3>2. job[j].status = "REVIEW_REQUIRED" /\ contract.version = job[j].snapshot
      BY <2>7 DEF ApplyRead, ContractChanged, SnapshotsKept
    <3>3. UNCHANGED <<job, suggestion, contract, worker>> BY <2>7 DEF ApplyRead
    <3>4. SnapshotsKept' BY <3>3 DEF SnapshotsKept
    <3>5. VersionsRead' BY <3>1, <3>3, <2>a DEF VersionsRead
    <3>6. r.version <= suggestion[j].basis
      BY <3>1, <3>2, <2>a DEF SnapshotsKept
    <3>7. ~(worker.phase = "extracting" /\ worker.job = j)
      BY <3>2 DEF RunsFollowReads
    <3>8. RunsFollowReads' BY <3>1, <3>3, <3>6, <3>7 DEF RunsFollowReads
    <3>9. EditsBeforeApplyReadSurvive' BY <3>1 DEF EditsBeforeApplyReadSurvive
    <3> QED BY <3>4, <3>5, <3>8, <3>9
  <2>8. CASE ApplyReadSuggestions(u)
    <3>1. CASE suggestion[request[u].job].review # "ACCEPTED"
      <4>1. request' = [request EXCEPT ![u] = Idle]
        BY <2>8, <3>1 DEF ApplyReadSuggestions
      <4> QED BY <2>8, <4>1, <2>a, <2>b, <1>a, Undisturbed
              DEF ApplyReadSuggestions, TypeOK
    <3>2. CASE suggestion[request[u].job].review = "ACCEPTED"
      <4> USE DEF Timeline
      <4> DEFINE s == suggestion[request[u].job]
                 r == request'[u]
      <4>1. /\ r.op = "ready" /\ r.version = request[u].version /\ r.basis = s.basis
            /\ \A v \in Users \ {u} : request'[v] = request[v]
        BY <2>8, <3>2 DEF ApplyReadSuggestions, Ready, TypeOK, Request
      <4>2. UNCHANGED <<job, suggestion, contract, worker>>
        BY <2>8 DEF ApplyReadSuggestions
      <4>3. request[u].version <= s.basis
        BY <2>8 DEF ApplyReadSuggestions, RunsFollowReads
      <4>4. r.version \in Versions /\ r.basis \in Versions
        BY <1>a DEF TypeOK, Request
      <4>5. SnapshotsKept' BY <4>2 DEF SnapshotsKept
      <4>6. VersionsRead' BY <4>1, <4>2, <2>a DEF VersionsRead
      <4>7. RunsFollowReads' BY <4>1, <4>2 DEF RunsFollowReads
      <4>8. r.basis >= r.version BY <4>1, <4>3, <4>4 DEF Versions, NoVersion
      <4>9. EditsBeforeApplyReadSurvive'
        BY <4>1, <4>8 DEF EditsBeforeApplyReadSurvive
      <4> QED BY <4>5, <4>6, <4>7, <4>9
    <3> QED BY <3>1, <3>2
  <2>9. CASE EditOpen(u)
    BY <2>9, <2>a, <1>a, Undisturbed DEF EditOpen, TypeOK, Request
  <2>10. CASE EditSave(u)
    <3>1. contract.version <= contract'.version
      <4>1. contract'.version \in {contract.version, contract.version + 1}
        BY <2>10 DEF EditSave, Overwritten, TypeOK, Contract
      <4> QED BY <4>1, <2>a
    <3> QED BY <2>10, <3>1, <2>a, <2>b, <1>a, Undisturbed DEF EditSave, TypeOK
  <2> QED BY <1>11, <2>1, <2>2, <2>3, <2>4, <2>5, <2>6, <2>7, <2>8, <2>9, <2>10
          DEF UserStep
<1> QED
  BY <1>1, <1>2, <1>3, <1>4, <1>5, <1>6, <1>7, <1>8, <1>9, <1>10, <1>11
  DEF Next, WorkerStep

(* The inductive invariant behind every safety property of the pipeline.   *)
THEOREM InvCorrect == Spec => []Inv
<1>1. Init => Inv
  BY DEF Init, Inv, TypeOK, Row, Suggestion, Contract, Worker, Request, Versions,
         NoVersion, Resting, Idle, JobsKnown, ReviewsApproved, SnapshotsKept,
         VersionsRead, RunsFollowReads, EditsBeforeApplyReadSurvive
<1>2. Inv /\ [Next]_vars => Inv'
  BY TypeStep, JobsKnownStep, ApprovalsStep, TimelineStep
  DEF Inv, Timeline
<1> QED BY <1>1, <1>2, PTL DEF Spec

(* Every variable of the pipeline keeps its type.                          *)
THEOREM TypeCorrect == Spec => []TypeOK
<1>1. Inv => TypeOK BY DEF Inv
<1> QED BY <1>1, InvCorrect, PTL

(* An edit the apply request could see blocks the apply.                   *)
THEOREM EditsBeforeApplyReadSurviveHolds == Spec => []EditsBeforeApplyReadSurvive
<1>1. Inv => EditsBeforeApplyReadSurvive BY DEF Inv
<1> QED BY <1>1, InvCorrect, PTL

(* No step writes a soft-deleted contract.                                 *)
THEOREM DeletedContractUntouchedHolds == Spec => DeletedContractUntouched
<1>1. [Next]_vars => [contract.deleted => UNCHANGED contract]_vars
  <2> SUFFICES ASSUME Next, contract.deleted PROVE UNCHANGED contract
    BY DEF vars
  <2>1. CASE \E j \in Jobs : Create(j) \/ LockAges(j) \/ RecoverRow(j)
    BY <2>1 DEF Create, LockAges, RecoverRow
  <2>2. CASE WorkerStep \/ WorkerDies \/ RecoverScan \/ RecoverDies
    BY <2>2 DEF WorkerStep, Claim, ReadInputs, FailJob, FinishExtraction, WorkerDies,
                RecoverScan, RecoverDies
  <2>3. ASSUME NEW u \in Users, UserStep(u) PROVE UNCHANGED contract
    BY <2>3 DEF UserStep, RetryRead, RetryWrite, ReviewRead, ReviewWrite, ApplyRead,
                ApplyReadSuggestions, ApplyWrite, EditOpen, EditSave, Abandon
  <2>4. CASE DeleteContract
    BY <2>4 DEF DeleteContract
  <2> QED BY <2>1, <2>2, <2>3, <2>4 DEF Next
<1> QED BY <1>1, PTL DEF Spec, DeletedContractUntouched

------------------------------------------------------------------------------
(* Writes of the contract.                                                 *)

(* A request that has read the contract as it is now knows all its edits,  *)
(* and a form shows the values it has.                                     *)
ReadsCurrent ==
    \A u \in Users :
        request[u].op \in {"applying", "ready", "editing"} /\ request[u].version = contract.version
          => /\ request[u].edits = contract.edits
             /\ request[u].op = "editing" =>
                  request[u].job = contract.source /\ request[u].gen = contract.gen

(* The handlers that write the contract.                                   *)
ContractWrite ==
    \/ DeleteContract
    \/ \E u \in Users : (ApplyWrite(u) \/ EditSave(u)) /\ ~contract.deleted

LEMMA ContractWrites ==
    ASSUME TypeOK, [Next]_vars
    PROVE  ContractWrite \/ UNCHANGED <<contract, edits>>
<1>1. ASSUME NEW j \in Jobs, Create(j) \/ LockAges(j) \/ RecoverRow(j)
      PROVE  UNCHANGED <<contract, edits>>
  BY <1>1 DEF Create, LockAges, RecoverRow
<1>2. CASE WorkerStep \/ WorkerDies \/ RecoverScan \/ RecoverDies \/ UNCHANGED vars
  BY <1>2 DEF WorkerStep, Claim, ReadInputs, FailJob, FinishExtraction, WorkerDies,
              RecoverScan, RecoverDies, vars
<1>3. ASSUME NEW u \in Users, UserStep(u), ~((ApplyWrite(u) \/ EditSave(u)) /\ ~contract.deleted)
      PROVE  UNCHANGED <<contract, edits>>
  BY <1>3 DEF UserStep, RetryRead, RetryWrite, ReviewRead, ReviewWrite, ApplyRead,
              ApplyReadSuggestions, ApplyWrite, EditOpen, EditSave, Abandon
<1> QED
  BY <1>1, <1>2, <1>3 DEF Next, ContractWrite

(* Each moves the version on, and no two leave the same one.               *)
LEMMA VersionMoves ==
    ASSUME TypeOK, ContractWrite
    PROVE  /\ contract.version \in Nat /\ contract'.version = contract.version + 1
           /\ ~contract.deleted
<1> USE DEF TypeOK, Contract
<1>1. CASE DeleteContract BY <1>1 DEF DeleteContract
<1>2. ASSUME NEW u \in Users, ApplyWrite(u), ~contract.deleted
      PROVE  contract'.version = contract.version + 1
  BY <1>2 DEF ApplyWrite
<1>3. ASSUME NEW u \in Users, EditSave(u), ~contract.deleted
      PROVE  contract'.version = contract.version + 1
  BY <1>3 DEF EditSave, Overwritten
<1> QED BY <1>1, <1>2, <1>3 DEF DeleteContract, ContractWrite

LEMMA ReadsCurrentStep ==
    TypeOK /\ Timeline /\ ReadsCurrent /\ [Next]_vars => ReadsCurrent'
<1> DEFINE Current(r, c) ==
      /\ r.edits = c.edits
      /\ r.op = "editing" => r.job = c.source /\ r.gen = c.gen
<1> SUFFICES ASSUME TypeOK, Timeline, ReadsCurrent, [Next]_vars, NEW u \in Users,
                    request'[u].op \in {"applying", "ready", "editing"},
                    request'[u].version = contract'.version
             PROVE  Current(request'[u], contract')
  BY DEF ReadsCurrent
<1>1. CASE UNCHANGED contract /\ request'[u] = request[u]
  BY <1>1 DEF ReadsCurrent
<1>2. CASE contract' # contract
  <2>1. ContractWrite /\ contract.version \in Nat /\ contract'.version = contract.version + 1
    BY <1>2, ContractWrites, VersionMoves
  <2>2. request'[u] = request[u]
    <3>1. CASE DeleteContract
      BY <3>1 DEF DeleteContract
    <3>2. ASSUME NEW v \in Users, ApplyWrite(v) \/ EditSave(v) PROVE request'[u] = request[u]
      <4>1. request' = [request EXCEPT ![v] = Idle] /\ Idle.op = "none"
        BY <3>2 DEF ApplyWrite, EditSave, Idle
      <4> QED BY <4>1 DEF TypeOK
    <3> QED BY <2>1, <3>1, <3>2 DEF ContractWrite
  <2>3. request[u].version \in Versions /\ request[u].version <= contract.version
    BY DEF TypeOK, Request, Timeline, VersionsRead
  <2> QED BY <2>1, <2>2, <2>3 DEF Versions, NoVersion
<1>3. CASE UNCHANGED contract /\ request'[u] # request[u]
  <2>1. UserStep(u)
    <3>1. ASSUME NEW j \in Jobs, Create(j) \/ LockAges(j) \/ RecoverRow(j)
          PROVE  UNCHANGED request
      BY <3>1 DEF Create, LockAges, RecoverRow
    <3>2. CASE \/ WorkerStep \/ WorkerDies \/ RecoverScan \/ RecoverDies
               \/ DeleteContract \/ UNCHANGED vars
      BY <3>2, <1>3 DEF WorkerStep, Claim, ReadInputs, FailJob, FinishExtraction, WorkerDies,
                  RecoverScan, RecoverDies, DeleteContract, vars
    <3>3. ASSUME NEW v \in Users, v # u, UserStep(v) PROVE request'[u] = request[u]
      BY <3>3 DEF UserStep, RetryRead, RetryWrite, ReviewRead, ReviewWrite, ApplyRead,
                  ApplyReadSuggestions, ApplyWrite, EditOpen, EditSave, Abandon, TypeOK
    <3> QED BY <1>3, <3>1, <3>2, <3>3 DEF Next
  <2>2. ASSUME NEW j \in Jobs, RetryRead(u, j) \/ ReviewRead(u, j) PROVE FALSE
    <3>1. CASE RetryRead(u, j)
      BY <3>1 DEF RetryRead, TypeOK, Request
    <3>2. CASE ReviewRead(u, j)
      BY <3>2 DEF ReviewRead, TypeOK, Request
    <3> QED BY <2>2, <3>1, <3>2
  <2>3. CASE \/ RetryWrite(u) \/ ReviewWrite(u) \/ ApplyWrite(u) \/ Abandon(u)
             \/ EditSave(u)
    BY <2>3 DEF RetryWrite, ReviewWrite, ApplyWrite, Abandon, EditSave, Idle, TypeOK
  <2>4. ASSUME NEW j \in Jobs, ApplyRead(u, j) PROVE Current(request'[u], contract')
    BY <2>4 DEF ApplyRead, TypeOK, Request
  <2>5. CASE ApplyReadSuggestions(u)
    <3>1. request[u].op = "applying"
      BY <2>5 DEF ApplyReadSuggestions
    <3>2. /\ request'[u].version = request[u].version /\ request'[u].edits = request[u].edits
          /\ request'[u].op = "ready"
      BY <2>5 DEF ApplyReadSuggestions, Ready, Idle, TypeOK, Request
    <3> QED BY <1>3, <3>1, <3>2 DEF ReadsCurrent
  <2>6. CASE EditOpen(u)
    BY <2>6 DEF EditOpen, TypeOK, Request
  <2> QED BY <2>1, <2>2, <2>3, <2>4, <2>5, <2>6 DEF UserStep
<1> QED BY <1>1, <1>2, <1>3

(* A write by a request that has read the current version loses nothing.   *)
LEMMA StaleWritesLose ==
    ASSUME Inv, ReadsCurrent, NEW u \in Users, ApplyWrite(u) \/ EditSave(u),
           ~contract.deleted, LosesEdits \/ (edits' # edits /\ LosesValues)
    PROVE  /\ Writes(u, "ready") \/ Writes(u, "editing")
           /\ request[u].version < contract.version
<1> USE DEF Inv, TypeOK
<1>1. /\ contract.version \in Nat /\ contract'.version = contract.version + 1
      /\ contract' # contract
  <2>1. ContractWrite BY DEF ContractWrite
  <2> QED BY <2>1, VersionMoves
<1>2. Writes(u, "ready") \/ Writes(u, "editing")
  BY <1>1 DEF Writes, ApplyWrite, EditSave
<1>3. request[u].version # contract.version
  <2> SUFFICES ASSUME request[u].version = contract.version PROVE FALSE
    OBVIOUS
  <2>1. CASE ApplyWrite(u)
    <3>1. contract'.edits = request[u].edits /\ edits' = edits
      BY <2>1 DEF ApplyWrite, Contract
    <3>2. request[u].edits = contract.edits
      BY <2>1 DEF ApplyWrite, ReadsCurrent
    <3> QED BY <3>1, <3>2 DEF LosesEdits
  <2>2. CASE EditSave(u)
    <3>1. /\ contract'.edits = request[u].edits \cup {edits + 1}
          /\ contract'.source = request[u].job /\ contract'.gen = request[u].gen
      BY <2>2 DEF EditSave, Overwritten, Contract
    <3>2. /\ request[u].edits = contract.edits
          /\ request[u].job = contract.source /\ request[u].gen = contract.gen
      BY <2>2 DEF EditSave, ReadsCurrent
    <3> QED BY <3>1, <3>2 DEF LosesEdits, LosesValues
  <2> QED BY <2>1, <2>2
<1>4. request[u].version \in Versions /\ request[u].version <= contract.version
  BY DEF Request, VersionsRead
<1>5. request[u].version < contract.version
  BY <1>1, <1>3, <1>4 DEF Versions, NoVersion
<1> QED BY <1>2, <1>5

(* What an apply or a form drops was committed after it had read the       *)
(* contract, or by a write that was.                                       *)
THEOREM LostOnlyInOverlapHolds == Spec => LostOnlyInOverlap
<1>1. Init => ReadsCurrent
  BY DEF Init, ReadsCurrent, Idle
<1>2. Inv /\ ReadsCurrent /\ [Next]_vars => ReadsCurrent'
  BY ReadsCurrentStep DEF Inv, Timeline
<1>3. Inv /\ ReadsCurrent /\ [Next]_vars =>
        [LosesEdits \/ (edits' # edits /\ LosesValues) =>
           \E u \in Users : /\ Writes(u, "ready") \/ Writes(u, "editing")
                            /\ request[u].version < contract.version]_vars
  <2> SUFFICES ASSUME Inv, ReadsCurrent, [Next]_vars,
                      LosesEdits \/ (edits' # edits /\ LosesValues)
               PROVE  \E u \in Users : /\ Writes(u, "ready") \/ Writes(u, "editing")
                                       /\ request[u].version < contract.version
    OBVIOUS
  <2>1. contract' # contract
    BY DEF LosesEdits, LosesValues
  <2>2. ~DeleteContract
    <3> SUFFICES ASSUME DeleteContract PROVE FALSE
      OBVIOUS
    <3>1. contract'.edits = contract.edits /\ edits' = edits
      BY DEF DeleteContract, Inv, TypeOK, Contract
    <3> QED BY <3>1 DEF LosesEdits
  <2>3. PICK u \in Users : (ApplyWrite(u) \/ EditSave(u)) /\ ~contract.deleted
    BY <2>1, <2>2, ContractWrites DEF ContractWrite, Inv
  <2> QED BY <2>3, StaleWritesLose
<1> QED BY <1>1, <1>2, <1>3, InvCorrect, PTL DEF Spec, LostOnlyInOverlap

------------------------------------------------------------------------------
(* Refinement of the reviewed contract.                                    *)

View == <<<<contract.version, contract.deleted, contract.source, contract.gen>>,
          approved, Prepared>>

LEMMA PreparedBy ==
    ASSUME TypeOK, NEW u \in Users, NEW r, request' = [request EXCEPT ![u] = r]
    PROVE  Prepared' = [Prepared EXCEPT ![u] = Shown(r)]
<1>1. \A v \in Users : request'[v] = IF v = u THEN r ELSE request[v]
  BY DEF TypeOK
<1>2. \A v \in Users : Shown(request'[v]) = IF v = u THEN Shown(r) ELSE Shown(request[v])
  BY <1>1
<1>3. Prepared' = [v \in Users |-> Shown(request'[v])]
  BY DEF Prepared, Shown
<1> QED BY <1>2, <1>3 DEF Prepared

(* A request that shows what it has shown is none of the reviewers'.       *)
LEMMA PreparedStays ==
    ASSUME TypeOK, NEW u \in Users, NEW r, request' = [request EXCEPT ![u] = r],
           Shown(r) = Shown(request[u])
    PROVE  Prepared' = Prepared
<1>1. Prepared' = [Prepared EXCEPT ![u] = Shown(request[u])]
  BY PreparedBy
<1> QED BY <1>1 DEF Prepared

LEMMA IdleShown == Shown(Idle) = {}
BY DEF Shown, Idle

LEMMA ApprovedOnlyByReview ==
    ASSUME [Next]_vars, \A u \in Users : ~ReviewWrite(u)
    PROVE  UNCHANGED approved
BY DEF Next, WorkerStep, UserStep, Create, LockAges, RecoverRow, Claim, ReadInputs, FailJob,
   FinishExtraction, WorkerDies, RecoverScan, RecoverDies, RetryRead, RetryWrite, ReviewRead,
   ApplyRead, ApplyReadSuggestions, ApplyWrite, EditOpen, EditSave, Abandon, DeleteContract, vars

(* A verdict on the generation that was read.                              *)
LEMMA ReviewRefines ==
    ASSUME Inv, NEW u \in Users, ReviewWrite(u)
    PROVE  Reviewed!Next \/ UNCHANGED View
<1> DEFINE j == request[u].job
           g == request[u].gen
<1>1. j \in Jobs /\ UNCHANGED contract
  BY DEF ReviewWrite, Inv, JobsKnown
<1>2. UNCHANGED Prepared
  <2>1. request' = [request EXCEPT ![u] = Idle] /\ Shown(request[u]) = {}
    BY DEF ReviewWrite, Shown
  <2> QED BY <2>1, PreparedStays, IdleShown DEF Inv
<1>3. \/ UNCHANGED approved
      \/ approved' = [approved EXCEPT ![j] = @ \cup {g}]
      \/ approved' = [approved EXCEPT ![j] = @ \ {g}]
  BY DEF ReviewWrite, Judged
<1> HIDE DEF j, g
<1>4. CASE UNCHANGED approved
  BY <1>1, <1>2, <1>4 DEF View
<1>5. CASE approved' = [approved EXCEPT ![j] = @ \cup {g}]
  <2>1. g \in approved'[j]
    BY <1>1, <1>5 DEF Inv, TypeOK
  <2>2. Reviewed!Approve(j)
    BY <1>1, <1>2, <1>5, <2>1 DEF Reviewed!Approve, Reviewed!contract
  <2> QED BY <1>1, <2>2 DEF Reviewed!Next
<1>6. CASE approved' = [approved EXCEPT ![j] = @ \ {g}] /\ g \in approved[j]
  <2>1. Reviewed!Withdraw(j)
    BY <1>1, <1>2, <1>6 DEF Reviewed!Withdraw, Reviewed!contract
  <2> QED BY <1>1, <2>1 DEF Reviewed!Next
<1>7. CASE approved' = [approved EXCEPT ![j] = @ \ {g}] /\ g \notin approved[j]
  <2>1. approved' = approved
    BY <1>7 DEF Inv, TypeOK
  <2> QED BY <1>4, <2>1
<1> QED BY <1>3, <1>4, <1>5, <1>6, <1>7

(* An apply or a form that is written, or finds the contract deleted.      *)
LEMMA WriteRefines ==
    ASSUME Inv, NEW u \in Users, ApplyWrite(u) \/ EditSave(u)
    PROVE  Reviewed!Next
<1> USE DEF Inv, TypeOK
<1>1. Prepared' = [Prepared EXCEPT ![u] = {}] /\ UNCHANGED approved
  <2>1. request' = [request EXCEPT ![u] = Idle] /\ UNCHANGED approved
    BY DEF ApplyWrite, EditSave
  <2> QED BY <2>1, PreparedBy, IdleShown
<1>2. CASE contract.deleted
  <2>1. UNCHANGED contract
    BY <1>2 DEF ApplyWrite, EditSave
  <2>2. Reviewed!GiveUp(u)
    BY <1>1, <2>1 DEF Reviewed!GiveUp, Reviewed!contract
  <2> QED BY <2>2 DEF Reviewed!Next
<1>3. CASE ~contract.deleted
  <2>1. Prepared[u] = {<<request[u].job, request[u].gen>>}
    BY DEF Prepared, Shown, ApplyWrite, EditSave
  <2>2. /\ contract'.source = request[u].job /\ contract'.gen = request[u].gen
        /\ contract'.deleted = contract.deleted
    <3>1. CASE ApplyWrite(u) BY <1>3, <3>1 DEF ApplyWrite, Contract
    <3>2. CASE EditSave(u) BY <1>3, <3>2 DEF EditSave, Overwritten, Contract
    <3> QED BY <3>1, <3>2
  <2>3. contract'.version = contract.version + 1
    <3>1. ContractWrite BY <1>3 DEF ContractWrite
    <3> QED BY <3>1, VersionMoves
  <2>4. Reviewed!Write(u)
    BY <1>1, <1>3, <2>1, <2>2, <2>3 DEF Reviewed!Write
  <2> QED BY <2>4 DEF Reviewed!Next
<1> QED BY <1>2, <1>3

(* The steps of a request that prepare a write, or give it up.             *)
LEMMA RequestRefines ==
    ASSUME Inv, NEW u \in Users, UserStep(u), ~ReviewWrite(u), ~ApplyWrite(u), ~EditSave(u)
    PROVE  Reviewed!Next \/ UNCHANGED View
<1> USE DEF Inv, TypeOK
<1>1. UNCHANGED <<contract, approved>>
  BY DEF UserStep, RetryRead, RetryWrite, ReviewRead, ApplyRead, ApplyReadSuggestions,
         EditOpen, Abandon
<1>2. UNCHANGED Prepared => UNCHANGED View
  BY <1>1 DEF View
<1>3. ASSUME NEW j \in Jobs, RetryRead(u, j) \/ ReviewRead(u, j) \/ ApplyRead(u, j)
      PROVE  UNCHANGED Prepared
  <2> DEFINE r == request'[u]
  <2>1. request[u] = Idle
    BY <1>3 DEF RetryRead, ReviewRead, ApplyRead
  <2>2. request' = [request EXCEPT ![u] = r] /\ r.op \in {"retry", "review", "applying"}
    <3>1. CASE RetryRead(u, j) BY <3>1 DEF RetryRead, Request
    <3>2. CASE ReviewRead(u, j) BY <3>2 DEF ReviewRead, Request
    <3>3. CASE ApplyRead(u, j) BY <3>3 DEF ApplyRead, Request
    <3> QED BY <1>3, <3>1, <3>2, <3>3
  <2>3. Shown(r) = Shown(request[u])
    BY <2>1, <2>2, IdleShown DEF Shown
  <2> HIDE DEF r
  <2> QED BY <2>2, <2>3, PreparedStays
<1>4. CASE RetryWrite(u)
  <2>1. request' = [request EXCEPT ![u] = Idle] /\ Shown(request[u]) = {}
    BY <1>4 DEF RetryWrite, Shown
  <2> QED BY <1>2, <2>1, PreparedStays, IdleShown
<1>5. CASE ApplyReadSuggestions(u)
  <2> DEFINE j == request[u].job
             s == suggestion[j]
  <2>1. j \in Jobs /\ request[u].op = "applying" /\ Prepared[u] = {}
    BY <1>5 DEF ApplyReadSuggestions, JobsKnown, Prepared, Shown
  <2>2. CASE s.review # "ACCEPTED"
    <3>1. request' = [request EXCEPT ![u] = Idle] /\ Shown(request[u]) = {}
      BY <1>5, <2>2 DEF ApplyReadSuggestions, Shown
    <3> QED BY <1>2, <3>1, PreparedStays, IdleShown
  <2>3. CASE s.review = "ACCEPTED"
    <3>1. request' = [request EXCEPT ![u] = Ready(request[u], s)]
      BY <1>5, <2>3 DEF ApplyReadSuggestions
    <3>2. Shown(Ready(request[u], s)) = {<<j, s.gen>>}
      BY <2>1 DEF Shown, Ready, Request
    <3>3. Prepared' = [Prepared EXCEPT ![u] = {<<j, s.gen>>}]
      BY <3>1, <3>2, PreparedBy
    <3>4. s.gen \in approved[j]
      BY <2>1, <2>3 DEF ReviewsApproved
    <3> HIDE DEF s
    <3>5. Reviewed!Take(u, j)
      BY <1>1, <2>1, <3>3, <3>4 DEF Reviewed!Take, Reviewed!contract
    <3> QED BY <2>1, <3>5 DEF Reviewed!Next
  <2> QED BY <2>2, <2>3
<1>6. CASE EditOpen(u)
  <2> DEFINE r == request'[u]
  <2>1. request[u] = Idle /\ ~contract.deleted /\ Prepared[u] = {}
    BY <1>6, IdleShown DEF EditOpen, Prepared
  <2>2. /\ request' = [request EXCEPT ![u] = r]
        /\ r.op = "editing" /\ r.job = contract.source /\ r.gen = contract.gen
    BY <1>6 DEF EditOpen, Request
  <2>3. Shown(r) = {<<contract.source, contract.gen>>}
    BY <2>2 DEF Shown
  <2> HIDE DEF r
  <2>4. Prepared' = [Prepared EXCEPT ![u] = {<<contract.source, contract.gen>>}]
    BY <2>2, <2>3, PreparedBy
  <2>5. Reviewed!Open(u)
    BY <1>1, <2>1, <2>4 DEF Reviewed!Open, Reviewed!contract
  <2> QED BY <2>5 DEF Reviewed!Next
<1>7. CASE Abandon(u)
  <2>1. Prepared' = [Prepared EXCEPT ![u] = {}]
    BY <1>7, PreparedBy, IdleShown DEF Abandon
  <2>2. Reviewed!GiveUp(u)
    BY <1>1, <2>1 DEF Reviewed!GiveUp, Reviewed!contract
  <2> QED BY <2>2 DEF Reviewed!Next
<1> QED BY <1>2, <1>3, <1>4, <1>5, <1>6, <1>7 DEF UserStep

LEMMA StepRefines == Inv /\ [Next]_vars => [Reviewed!Next]_View
<1> SUFFICES ASSUME Inv, [Next]_vars PROVE Reviewed!Next \/ UNCHANGED View
  OBVIOUS
<1>1. ASSUME NEW u \in Users, UserStep(u) PROVE Reviewed!Next \/ UNCHANGED View
  BY <1>1, ReviewRefines, WriteRefines, RequestRefines
<1>2. CASE DeleteContract
  <2>1. /\ contract'.version = contract.version + 1 /\ contract'.deleted = TRUE
        /\ contract'.source = contract.source /\ contract'.gen = contract.gen
        /\ ~contract.deleted /\ UNCHANGED <<approved, request>>
    BY <1>2 DEF DeleteContract, Inv, TypeOK, Contract
  <2>2. UNCHANGED Prepared
    BY <2>1 DEF Prepared, Shown
  <2>3. Reviewed!Delete
    BY <2>1, <2>2 DEF Reviewed!Delete
  <2> QED BY <2>3 DEF Reviewed!Next
<1>3. CASE ~DeleteContract /\ \A u \in Users : ~UserStep(u)
  <2>1. UNCHANGED <<contract, approved, request>>
    BY <1>3 DEF Next, WorkerStep, Create, LockAges, RecoverRow, Claim, ReadInputs, FailJob,
       FinishExtraction, WorkerDies, RecoverScan, RecoverDies, vars
  <2>2. UNCHANGED Prepared
    BY <2>1 DEF Prepared, Shown
  <2> QED BY <2>1, <2>2 DEF View
<1> QED BY <1>1, <1>2, <1>3

(* The pipeline writes to a reviewed contract: an apply writes what was    *)
(* accepted in reviewSuggestion when it read the suggestions, a form what  *)
(* the contract showed, and none of them after deleteContract.             *)
THEOREM RefinesReviewedContract == Spec => ReviewedContractSpec
<1>1. Init => Reviewed!Init
  BY IdleShown DEF Init, Reviewed!Init, Prepared
<1>2. Inv /\ [Next]_vars => [Reviewed!Next]_View
  BY StepRefines
<1> QED BY <1>1, <1>2, InvCorrect, PTL
        DEF Spec, ReviewedContractSpec, Reviewed!Spec, Reviewed!contract, View
==============================================================================
