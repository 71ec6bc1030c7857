------------------------- MODULE ExtractionPipeline -------------------------
(***************************************************************************)
(* Contract text extraction (src/features/extraction/server): a job per    *)
(* uploaded file is created, claimed by the extraction:process worker, run *)
(* and turned into suggestions for a human, who reviews them and applies   *)
(* the approved ones to the contract.  Stale PROCESSING jobs are put back  *)
(* by extraction:recover-stale, failed ones by a user's retry.             *)
(*                                                                         *)
(* Every handler reads first and writes later, in separate transactions;   *)
(* other actors may act in between.  A single extraction:process run is    *)
(* alive at a time, and a single extraction:recover-stale run              *)
(* (BatchProperties, MutualExclusion).  The jobs all belong to one         *)
(* contract; the suggestions of a job are one value per generation, a      *)
(* generation being one finished run of the job.  ACCEPTED stands for      *)
(* ACCEPTED and EDITED.                                                    *)
(***************************************************************************)
EXTENDS Integers

CONSTANTS Jobs,         \* one per (file, checksum, extractorVersion)
          Users,        \* concurrent requests of organization members
          MaxAttempts,  \* EXTRACTION_MAX_ATTEMPTS
          MaxEdits,     \* bound: manual edits of the contract
          NoJob

ASSUME MaxAttemptsAssumption == MaxAttempts \in Nat \ {0}
ASSUME MaxEditsAssumption == MaxEdits \in Nat
ASSUME NoJobAssumption == NoJob \notin Jobs

VARIABLES job,         \* job[j]: the contract_extraction_jobs row
          suggestion,  \* suggestion[j]: the current suggestion rows of the job
          contract,    \* the contract row
          worker,      \* the extraction:process run
          stale,       \* stale[j]: the attempt extraction:recover-stale has read
                       \* for a row it has still to treat, 0 for the others
          request,     \* request[u]: a user's request between its read and its write
          edits,       \* manual edits committed so far, numbered from 1
          approved     \* approved[j]: generations a reviewer has accepted and not
                       \* rejected since (history)

vars == <<job, suggestion, contract, worker, stale, request, edits, approved>>

NoVersion == -1
Versions  == Nat \cup {NoVersion}

Row == [status   : {"absent", "PENDING", "PROCESSING", "REVIEW_REQUIRED", "COMPLETED", "FAILED"},
        attempt  : Nat,
        overdue  : BOOLEAN,             \* lockedAt is EXTRACTION_STALE_MINUTES old
        error    : {"none", "retryable", "permanent"},
        snapshot : Versions]            \* contractUpdatedAtSnapshot

(* basis: the contract version the generation was computed on (history).   *)
Suggestion == [gen : Nat, review : {"PENDING", "ACCEPTED", "REJECTED"}, basis : Versions]

(* version: updatedAt.  edits: the manual edits the current field values   *)
(* still contain.  source, gen: the extraction whose values they contain.  *)
Contract == [version : Nat, deleted : BOOLEAN, edits : SUBSET Nat,
             source : Jobs \cup {NoJob}, gen : Nat]

Worker == [phase : {"idle", "claimed", "extracting"}, job : Jobs \cup {NoJob},
           version : Versions]

(* version, edits: of the contract as an apply or an open form has read    *)
(* it.  job, gen: for a form, the extraction whose values it shows.        *)
Request == [op : {"none", "retry", "review", "applying", "ready", "editing"},
            job : Jobs \cup {NoJob}, gen : Nat,
            version : Versions, edits : SUBSET Nat, basis : Versions]

Resting == [phase |-> "idle", job |-> NoJob, version |-> NoVersion]
Idle    == [op |-> "none", job |-> NoJob, gen |-> 0,
            version |-> NoVersion, edits |-> {}, basis |-> NoVersion]

TypeOK ==
    /\ job \in [Jobs -> Row]
    /\ suggestion \in [Jobs -> Suggestion]
    /\ contract \in Contract
    /\ worker \in Worker
    /\ stale \in [Jobs -> Nat]
    /\ request \in [Users -> Request]
    /\ edits \in Nat
    /\ approved \in [Jobs -> SUBSET Nat]

Init ==
    /\ job = [j \in Jobs |-> [status |-> "absent", attempt |-> 0, overdue |-> FALSE,
                              error |-> "none", snapshot |-> NoVersion]]
    /\ suggestion = [j \in Jobs |-> [gen |-> 0, review |-> "PENDING", basis |-> NoVersion]]
    /\ contract = [version |-> 0, deleted |-> FALSE, edits |-> {},
                   source |-> NoJob, gen |-> 0]
    /\ worker = Resting
    /\ stale = [j \in Jobs |-> 0]
    /\ request = [u \in Users |-> Idle]
    /\ edits = 0
    /\ approved = [j \in Jobs |-> {}]

------------------------------------------------------------------------------
(* Row updates shared by several handlers; none looks at the old status.   *)

(* resetExtractionJobToPending: the attempt is kept.                       *)
Reset(row) ==
    [row EXCEPT !.status = "PENDING", !.error = "none", !.overdue = FALSE]

(* updateExtractionJob with FAILED, in failJob and in the recovery.        *)
Failed(row, error) ==
    [row EXCEPT !.status = "FAILED", !.error = error, !.overdue = FALSE]

(* isRetryableExtractionError                                              *)
Retryable(error, attempt) == attempt < MaxAttempts /\ error # "permanent"

------------------------------------------------------------------------------
(* createExtractionJob.                                                    *)

(* No row under the unique (file, checksum, extractorVersion); a second    *)
(* concurrent insert hits that constraint.                                 *)
Create(j) ==
    /\ ~contract.deleted
    /\ job[j].status = "absent"
    /\ job' = [job EXCEPT ![j].status = "PENDING"]
    /\ UNCHANGED <<suggestion, contract, worker, stale, request, edits, approved>>

(* The row is read FAILED and found retryable ...                          *)
RetryRead(u, j) ==
    /\ request[u] = Idle
    /\ ~contract.deleted
    /\ job[j].status = "FAILED"
    /\ Retryable(job[j].error, job[j].attempt)
    /\ request' = [request EXCEPT ![u] = [@ EXCEPT !.op = "retry", !.job = j]]
    /\ UNCHANGED <<job, suggestion, contract, worker, stale, edits, approved>>

(* ... and reset in a later transaction, by id.                            *)
RetryWrite(u) ==
    /\ request[u].op = "retry"
    /\ job' = [job EXCEPT ![request[u].job] = Reset(@)]
    /\ request' = [request EXCEPT ![u] = Idle]
    /\ UNCHANGED <<suggestion, contract, worker, stale, edits, approved>>

------------------------------------------------------------------------------
(* processNextExtractionJob.                                               *)

(* Mutant: the attempts left are counted down.                             *)
ClaimedCountingDown(row) ==
    [row EXCEPT !.status = "PROCESSING", !.attempt = @ - 1, !.overdue = FALSE]

Claimed(row) ==
    [row EXCEPT !.status = "PROCESSING", !.attempt = @ + 1, !.overdue = FALSE]

(* claimNextPendingJob: SELECT ... FOR UPDATE SKIP LOCKED, then UPDATE, in *)
(* one transaction.  Any PENDING row may be the oldest.                    *)
Claim(j) ==
    /\ worker = Resting
    /\ job[j].status = "PENDING"
    /\ job' = [job EXCEPT ![j] = Claimed(@)]
    /\ worker' = [worker EXCEPT !.phase = "claimed", !.job = j]
    /\ UNCHANGED <<suggestion, contract, stale, request, edits, approved>>

(* The contract is read before the file is: `contract.updatedAt` is the    *)
(* snapshot stored at the end.                                             *)
ReadInputs ==
    /\ worker.phase = "claimed"
    /\ ~contract.deleted
    /\ worker' = [worker EXCEPT !.phase = "extracting", !.version = contract.version]
    /\ UNCHANGED <<job, suggestion, contract, stale, request, edits, approved>>

(* failJob: contract or file gone, or file unreadable, right after the     *)
(* claim (FILE_NOT_FOUND, retryable); a changed checksum, an unsupported   *)
(* format, OCR or a parser or provider error while extracting.             *)
FailJob ==
    /\ worker.phase # "idle"
    /\ \E error \in {"retryable", "permanent"} :
         /\ worker.phase = "claimed" => error = "retryable"
         /\ job' = [job EXCEPT ![worker.job] = Failed(@, error)]
    /\ worker' = Resting
    /\ UNCHANGED <<suggestion, contract, stale, request, edits, approved>>

(* Mutant: the snapshot is the contract as it is at the end of the run.    *)
LateSnapshot == contract.version

(* contractUpdatedAtSnapshot: contract.updatedAt as read by ReadInputs.    *)
Snapshot == worker.version

Reviewable(row, version) ==
    [row EXCEPT !.status = "REVIEW_REQUIRED", !.overdue = FALSE, !.snapshot = version]

Regenerated(s, version) ==
    [s EXCEPT !.gen = @ + 1, !.review = "PENDING", !.basis = version]

(* The final transaction: the suggestions of the job are replaced and the  *)
(* row is updated by id, whatever its status has become.                   *)
FinishExtraction ==
    /\ worker.phase = "extracting"
    /\ suggestion' = [suggestion EXCEPT ![worker.job] = Regenerated(@, worker.version)]
    /\ job' = [job EXCEPT ![worker.job] = Reviewable(@, Snapshot)]
    /\ worker' = Resting
    /\ UNCHANGED <<contract, stale, request, edits, approved>>

(* The process dies, or one of its transactions throws: the row stays      *)
(* PROCESSING, unless another actor moves it.                              *)
WorkerDies ==
    /\ worker # Resting
    /\ worker' = Resting
    /\ UNCHANGED <<job, suggestion, contract, stale, request, edits, approved>>

------------------------------------------------------------------------------
(* recoverStaleExtractionJobs.                                             *)

(* lockedAt becomes EXTRACTION_STALE_MINUTES old; the worker may be alive. *)
LockAges(j) ==
    /\ job[j].status = "PROCESSING"
    /\ ~job[j].overdue
    /\ job' = [job EXCEPT ![j].overdue = TRUE]
    /\ UNCHANGED <<suggestion, contract, worker, stale, request, edits, approved>>

(* findStaleProcessingJobs: PROCESSING and locked long ago.                *)
Overdue(j) == job[j].status = "PROCESSING" /\ job[j].overdue

RecoverScan ==
    /\ \A j \in Jobs : stale[j] = 0
    /\ \E j \in Jobs : Overdue(j)
    /\ stale' = [j \in Jobs |-> IF Overdue(j) THEN job[j].attempt ELSE 0]
    /\ UNCHANGED <<job, suggestion, contract, worker, request, edits, approved>>

(* Mutant: a row out of attempts is left as it is.                         *)
RecoverRowRetryableOnly(j) ==
    /\ stale[j] # 0
    /\ IF Retryable("none", stale[j])
       THEN job' = [job EXCEPT ![j] = Reset(@)]
       ELSE UNCHANGED job
    /\ stale' = [stale EXCEPT ![j] = 0]
    /\ UNCHANGED <<suggestion, contract, worker, request, edits, approved>>

(* One transaction per listed row, deciding on the attempt that was read   *)
(* and updating by id; MAX_ATTEMPTS_REACHED is not retryable.              *)
RecoverRow(j) ==
    /\ stale[j] # 0
    /\ job' = [job EXCEPT ![j] =
                 IF Retryable("none", stale[j]) THEN Reset(@) ELSE Failed(@, "permanent")]
    /\ stale' = [stale EXCEPT ![j] = 0]
    /\ UNCHANGED <<suggestion, contract, worker, request, edits, approved>>

(* A row's transaction throws, or the process dies: the rest of the list   *)
(* is dropped.                                                             *)
RecoverDies ==
    /\ \E j \in Jobs : stale[j] # 0
    /\ stale' = [j \in Jobs |-> 0]
    /\ UNCHANGED <<job, suggestion, contract, worker, request, edits, approved>>

------------------------------------------------------------------------------
(* reviewSuggestion.                                                       *)

(* The job is REVIEW_REQUIRED and the suggestion id, a generation's, is    *)
(* found.                                                                  *)
ReviewRead(u, j) ==
    /\ request[u] = Idle
    /\ job[j].status = "REVIEW_REQUIRED"
    /\ request' = [request EXCEPT ![u] =
                [@ EXCEPT !.op = "review", !.job = j, !.gen = suggestion[j].gen]]
    /\ UNCHANGED <<job, suggestion, contract, worker, stale, edits, approved>>

(* The generations the reviewers stand by, after one more verdict.         *)
Judged(generations, gen, verdict) ==
    IF verdict = "ACCEPTED" THEN generations \cup {gen} ELSE generations \ {gen}

(* Mutant: the review is written by (job, field) instead of by id.         *)
ReviewWriteByField(u) ==
    /\ request[u].op = "review"
    /\ LET j == request[u].job IN
       \E verdict \in {"ACCEPTED", "REJECTED"} :
         /\ suggestion' = [suggestion EXCEPT ![j].review = verdict]
         /\ approved' = [approved EXCEPT ![j] = Judged(@, request[u].gen, verdict)]
    /\ request' = [request EXCEPT ![u] = Idle]
    /\ UNCHANGED <<job, contract, worker, stale, edits>>

(* updateSuggestionReview by suggestion id, with no look at the job's      *)
(* status; the id of a replaced generation matches no row (NotFoundError). *)
ReviewWrite(u) ==
    /\ request[u].op = "review"
    /\ LET j == request[u].job IN
       IF suggestion[j].gen = request[u].gen
       THEN \E verdict \in {"ACCEPTED", "REJECTED"} :
              /\ suggestion' = [suggestion EXCEPT ![j].review = verdict]
              /\ approved' = [approved EXCEPT ![j] = Judged(@, request[u].gen, verdict)]
       ELSE UNCHANGED <<suggestion, approved>>
    /\ request' = [request EXCEPT ![u] = Idle]
    /\ UNCHANGED <<job, contract, worker, stale, edits>>

------------------------------------------------------------------------------
(* applyApprovedSuggestions: three reads, then one transaction.            *)

(* hasContractChangedSinceExtraction                                       *)
ContractChanged(j) ==
    job[j].snapshot # NoVersion /\ contract.version # job[j].snapshot

(* Job and contract are read and compared.                                 *)
ApplyRead(u, j) ==
    /\ request[u] = Idle
    /\ job[j].status = "REVIEW_REQUIRED"
    /\ ~contract.deleted
    /\ ~ContractChanged(j)
    /\ request' = [request EXCEPT ![u] =
                [@ EXCEPT !.op = "applying", !.job = j, !.version = contract.version,
                          !.edits = contract.edits]]
    /\ UNCHANGED <<job, suggestion, contract, worker, stale, edits, approved>>

Ready(r, s) == [r EXCEPT !.op = "ready", !.gen = s.gen, !.basis = s.basis]

(* findSuggestionsByJobId, of which only accepted ones count; with none    *)
(* the call is refused.                                                    *)
ApplyReadSuggestions(u) ==
    /\ request[u].op = "applying"
    /\ LET s == suggestion[request[u].job] IN
       request' = [request EXCEPT ![u] =
                     IF s.review = "ACCEPTED" THEN Ready(@, s) ELSE Idle]
    /\ UNCHANGED <<job, suggestion, contract, worker, stale, edits, approved>>

(* Mutant: the contract is updated by id alone.                            *)
ApplyWriteById(u) ==
    /\ request[u].op = "ready"
    /\ contract' = [contract EXCEPT !.version = @ + 1, !.edits = request[u].edits,
                                    !.source = request[u].job, !.gen = request[u].gen]
    /\ job' = [job EXCEPT ![request[u].job].status = "COMPLETED"]
    /\ request' = [request EXCEPT ![u] = Idle]
    /\ UNCHANGED <<suggestion, worker, stale, edits, approved>>

(* The whole contract row is overwritten by what was read merged with the  *)
(* suggestions (updateMany where deletedAt is null; none: rolled back),    *)
(* and the job is COMPLETED by id.                                         *)
ApplyWrite(u) ==
    /\ request[u].op = "ready"
    /\ IF contract.deleted
       THEN UNCHANGED <<contract, job>>
       ELSE /\ contract' = [contract EXCEPT !.version = @ + 1, !.edits = request[u].edits,
                                            !.source = request[u].job, !.gen = request[u].gen]
            /\ job' = [job EXCEPT ![request[u].job].status = "COMPLETED"]
    /\ request' = [request EXCEPT ![u] = Idle]
    /\ UNCHANGED <<suggestion, worker, stale, edits, approved>>

(* The request's process dies, its transaction throws, or the form is left. *)
Abandon(u) ==
    /\ request[u] # Idle
    /\ request' = [request EXCEPT ![u] = Idle]
    /\ UNCHANGED <<job, suggestion, contract, worker, stale, edits, approved>>

------------------------------------------------------------------------------
(* updateContract and deleteContract.                                      *)

(* The edit page fills a form with the contract as it is.                  *)
EditOpen(u) ==
    /\ edits < MaxEdits
    /\ request[u] = Idle
    /\ ~contract.deleted
    /\ request' = [request EXCEPT ![u] =
                [@ EXCEPT !.op = "editing", !.job = contract.source, !.gen = contract.gen,
                          !.version = contract.version, !.edits = contract.edits]]
    /\ UNCHANGED <<job, suggestion, contract, worker, stale, edits, approved>>

(* Mutant: `updatedAt` does not move.                                      *)
OverwrittenUnversioned(row, form, edit) ==
    [row EXCEPT !.edits = form.edits \cup {edit}, !.source = form.job, !.gen = form.gen]

(* The row with one more edit on top of what the form shows.               *)
Overwritten(row, form, edit) ==
    [row EXCEPT !.version = @ + 1, !.edits = form.edits \cup {edit},
                !.source = form.job, !.gen = form.gen]

(* The submitted form: every column is written with the form's value, and  *)
(* nothing is compared but deletedAt (none: NotFoundError).                *)
EditSave(u) ==
    /\ request[u].op = "editing"
    /\ IF contract.deleted
       THEN UNCHANGED <<contract, edits>>
       ELSE /\ edits < MaxEdits
            /\ edits' = edits + 1
            /\ contract' = Overwritten(contract, request[u], edits + 1)
    /\ request' = [request EXCEPT ![u] = Idle]
    /\ UNCHANGED <<job, suggestion, worker, stale, approved>>

DeleteContract ==
    /\ ~contract.deleted
    /\ contract' = [contract EXCEPT !.version = @ + 1, !.deleted = TRUE]
    /\ UNCHANGED <<job, suggestion, worker, stale, request, edits, approved>>

------------------------------------------------------------------------------
WorkerStep == (\E j \in Jobs : Claim(j)) \/ ReadInputs \/ FailJob \/ FinishExtraction

UserStep(u) ==
    \/ \E j \in Jobs : RetryRead(u, j) \/ ReviewRead(u, j) \/ ApplyRead(u, j)
    \/ RetryWrite(u) \/ ReviewWrite(u) \/ ApplyReadSuggestions(u) \/ ApplyWrite(u)
    \/ EditOpen(u) \/ EditSave(u)
    \/ Abandon(u)

Next ==
    \/ \E j \in Jobs : Create(j) \/ LockAges(j) \/ RecoverRow(j)
    \/ WorkerStep \/ WorkerDies
    \/ RecoverScan \/ RecoverDies
    \/ \E u \in Users : UserStep(u)
    \/ DeleteContract

Spec == Init /\ [][Next]_vars

(* The scheduler restarts both scripts for ever and time passes.  A run of *)
(* the recovery may die, but not every time.  Nothing is assumed of users. *)
Fairness ==
    /\ WF_vars(WorkerStep)
    /\ \A j \in Jobs : WF_vars(LockAges(j)) /\ SF_vars(RecoverRow(j))
    /\ WF_vars(RecoverScan)

FairSpec == Spec /\ Fairness
==============================================================================
