---------------------------- MODULE ContractFiles ----------------------------
(***************************************************************************)
(* The files of one contract: rows in contract_files, objects in two       *)
(* stores, and no transaction over both (features/contract-files,          *)
(* features/retention).  An object is written before its row and erased    *)
(* after the row is marked deleted; files:reconcile retries the erasure,   *)
(* retention:purge erases what is left and then deletes the contract, and  *)
(* an operator may copy local files to S3 meanwhile.                       *)
(*                                                                         *)
(* One run of files:reconcile, of retention:purge and of the migration is  *)
(* alive at a time.  A user's upload ends before the retention window of   *)
(* a contract it saw alive does.  A file is its row and its storage key.   *)
(***************************************************************************)
EXTENDS Integers

CONSTANTS Files,
          Deleters,            \* concurrent deleteContractFile calls
          Reconciler, Purger,  \* the runs of files:reconcile and retention:purge
          MaxDeleteAttempts,   \* MAX_STORAGE_DELETE_ATTEMPTS
          MaxPurgeAttempts,    \* DataPurgeJob.maxAttempts
          NoFile

ASSUME FilesAssumption == NoFile \notin Files
ASSUME ErasersAssumption == Reconciler # Purger /\ {Reconciler, Purger} \cap Deleters = {}
ASSUME AttemptsAssumption == MaxDeleteAttempts \in Nat \ {0} /\ MaxPurgeAttempts \in Nat \ {0}

VARIABLES contract,  \* live, soft-deleted, past its retention window, gone
          row,       \* row[f]: the contract_files row
          object,    \* objects there are, by file and provider
          upload,    \* upload[f]: the call that uploads f
          lost,      \* files whose row was inserted although the call saw an error (history)
          eraser,    \* eraser[e]: who is erasing which object
          listed,    \* rows files:reconcile has yet to treat
          job,       \* the DataPurgeJob of the contract
          purge,     \* the retention:purge run
          migrating, \* local files the migration has yet to copy, and the copied one
          crossed    \* files flipped to S3 while, or after, being erased (history)

vars == <<contract, row, object, upload, lost, eraser, listed, job, purge,
          migrating, crossed>>

Providers == {"local", "s3"}
Erasers   == Deleters \cup {Reconciler, Purger}

Row == [status : {"absent", "live", "deleted", "purged"}, provider : Providers,
        confirmed : BOOLEAN,  \* storageDeletedAt is set
        attempts : Nat]       \* storageDeleteAttempts

Upload  == [phase : {"none", "opened", "written", "rejected", "done"},
            provider : Providers]
Eraser  == [phase : {"idle", "read", "erasing", "removed", "failed"},
            file : Files \cup {NoFile}, provider : Providers]
Listing == [file : Files, provider : Providers]
Job     == [status : {"absent", "PENDING", "PROCESSING", "COMPLETED", "FAILED"}, attempt : Nat]
Purge   == [phase : {"idle", "claimed", "erasing", "purged"}, files : SUBSET Listing,
            pending : BOOLEAN]

Resting == [phase |-> "idle", file |-> NoFile, provider |-> "local"]
NoPurge == [phase |-> "idle", files |-> {}, pending |-> FALSE]

TypeOK ==
    /\ contract \in {"live", "deleted", "elapsed", "gone"}
    /\ row \in [Files -> Row]
    /\ object \subseteq Files \X Providers
    /\ upload \in [Files -> Upload]
    /\ lost \subseteq Files
    /\ eraser \in [Erasers -> Eraser]
    /\ listed \subseteq Listing
    /\ job \in Job
    /\ purge \in Purge
    /\ migrating \in [files : SUBSET Files, copied : Files \cup {NoFile}]
    /\ crossed \subseteq Files

Init ==
    /\ contract = "live"
    /\ row = [f \in Files |-> [status |-> "absent", provider |-> "local", confirmed |-> FALSE,
                               attempts |-> 0]]
    /\ object = {}
    /\ upload = [f \in Files |-> [phase |-> "none", provider |-> "local"]]
    /\ lost = {}
    /\ eraser = [e \in Erasers |-> Resting]
    /\ listed = {}
    /\ job = [status |-> "absent", attempt |-> 0]
    /\ purge = NoPurge
    /\ migrating = [files |-> {}, copied |-> NoFile]
    /\ crossed = {}

Live(f)  == row[f].status = "live"
InTable(f) == row[f].status \in {"live", "deleted"}
Key(f)   == <<f, row[f].provider>>

------------------------------------------------------------------------------
(* The contract.                                                           *)

DeleteContract ==
    /\ contract = "live"
    /\ contract' = "deleted"
    /\ UNCHANGED <<row, object, upload, lost, eraser, listed, job, purge,
                   migrating, crossed>>

(* Days pass; uploads take minutes.                                        *)
RetentionElapses ==
    /\ contract = "deleted"
    /\ \A f \in Files : upload[f].phase \in {"none", "done"}
    /\ contract' = "elapsed"
    /\ UNCHANGED <<row, object, upload, lost, eraser, listed, job, purge,
                   migrating, crossed>>

------------------------------------------------------------------------------
(* uploadContractFile.                                                     *)

UploadMoves(f, phase) == upload' = [upload EXCEPT ![f].phase = phase]

OpenUpload(f) ==
    /\ upload[f].phase = "none" /\ contract = "live"
    /\ UploadMoves(f, "opened")
    /\ UNCHANGED <<contract, row, object, lost, eraser, listed, job, purge,
                   migrating, crossed>>

(* The object is put to the provider that is active now.                   *)
PutObject(f) ==
    /\ upload[f].phase = "opened"
    /\ \E p \in Providers :
         /\ object' = object \cup {<<f, p>>}
         /\ upload' = [upload EXCEPT ![f] = [phase |-> "written", provider |-> p]]
    /\ UNCHANGED <<contract, row, lost, eraser, listed, job, purge, migrating,
                   crossed>>

(* Mutant: the provider is left to the column's default.                   *)
InsertedByDefault(f) == row' = [row EXCEPT ![f].status = "live"]

(* createContractFile names the provider the object was put to.            *)
Inserted(f) == row' = [row EXCEPT ![f].status = "live", ![f].provider = upload[f].provider]

(* The foreign key holds the row to a contract that still exists.          *)
InsertRow(f) ==
    /\ upload[f].phase = "written" /\ contract # "gone"
    /\ Inserted(f)
    /\ UploadMoves(f, "done")
    /\ UNCHANGED <<contract, object, lost, eraser, listed, job, purge,
                   migrating, crossed>>

(* The transaction fails, or it commits and its answer is lost.            *)
InsertFails(f) ==
    /\ upload[f].phase = "written"
    /\ UploadMoves(f, "rejected")
    /\ \/ UNCHANGED <<row, lost>>
       \/ /\ contract # "gone"
          /\ Inserted(f) /\ lost' = lost \cup {f}
    /\ UNCHANGED <<contract, object, eraser, listed, job, purge, migrating,
                   crossed>>

(* The compensating delete, whose own failure is swallowed.                *)
Compensate(f) ==
    /\ upload[f].phase = "rejected"
    /\ object' \in {object, object \ {<<f, upload[f].provider>>}}
    /\ UploadMoves(f, "done")
    /\ UNCHANGED <<contract, row, lost, eraser, listed, job, purge, migrating,
                   crossed>>

(* The process dies, an await before the try throws, or the contract has   *)
(* the same file already; an object that was put stays behind.             *)
UploadDies(f) ==
    /\ upload[f].phase \notin {"none", "done"}
    /\ UploadMoves(f, "done")
    /\ UNCHANGED <<contract, row, object, lost, eraser, listed, job, purge,
                   migrating, crossed>>

------------------------------------------------------------------------------
(* Erasing an object, as deleteContractFile, reconcileDeletedFiles and     *)
(* purgeContract all do: delete it from the provider their row named when  *)
(* they read it, then mark the row by id, or record the failure.           *)

EraserMoves(e, phase) == eraser' = [eraser EXCEPT ![e].phase = phase]

RemoveObject(e) ==
    /\ eraser[e].phase = "erasing"
    /\ object' = object \ {<<eraser[e].file, eraser[e].provider>>}
    /\ EraserMoves(e, "removed")
    /\ UNCHANGED <<contract, row, upload, lost, listed, job, purge, migrating,
                   crossed>>

(* Mutant: a failed delete is taken for done.                              *)
TakenForDone == "removed"

(* What follows a delete that throws.                                      *)
AfterFailure == "failed"

(* The delete throws, having removed the object or not.                    *)
RemoveFails(e) ==
    /\ eraser[e].phase = "erasing"
    /\ object' \in {object, object \ {<<eraser[e].file, eraser[e].provider>>}}
    /\ EraserMoves(e, AfterFailure)
    /\ UNCHANGED <<contract, row, upload, lost, listed, job, purge, migrating,
                   crossed>>

MarkStorageDeleted(e) ==
    /\ eraser[e].phase = "removed" /\ InTable(eraser[e].file)
    /\ row' = [row EXCEPT ![eraser[e].file].confirmed = TRUE]
    /\ eraser' = [eraser EXCEPT ![e] = Resting]
    /\ UNCHANGED <<contract, object, upload, lost, listed, job, purge,
                   migrating, crossed>>

(* The write throws: the row is gone, or the database fails.               *)
MarkThrows(e) ==
    /\ eraser[e].phase = "removed"
    /\ EraserMoves(e, "failed")
    /\ UNCHANGED <<contract, row, object, upload, lost, listed, job, purge,
                   migrating, crossed>>

(* recordStorageDeleteFailure; a purge also counts the file as pending.    *)
RecordFailure(e) ==
    /\ eraser[e].phase = "failed" /\ InTable(eraser[e].file)
    /\ row' = [row EXCEPT ![eraser[e].file].attempts = @ + 1]
    /\ eraser' = [eraser EXCEPT ![e] = Resting]
    /\ purge' = IF e = Purger THEN [purge EXCEPT !.pending = TRUE] ELSE purge
    /\ UNCHANGED <<contract, object, upload, lost, listed, job, migrating,
                   crossed>>

------------------------------------------------------------------------------
(* deleteContractFile.                                                     *)

DeleteRead(d, f) ==
    /\ eraser[d] = Resting
    /\ Live(f)
    /\ eraser' = [eraser EXCEPT ![d] = [phase |-> "read", file |-> f, provider |-> row[f].provider]]
    /\ UNCHANGED <<contract, row, object, upload, lost, listed, job, purge,
                   migrating, crossed>>

(* softDeleteContractFile matches live rows only; the call ends otherwise. *)
SoftDelete(d) ==
    /\ eraser[d].phase = "read" /\ Live(eraser[d].file)
    /\ row' = [row EXCEPT ![eraser[d].file].status = "deleted"]
    /\ EraserMoves(d, "erasing")
    /\ UNCHANGED <<contract, object, upload, lost, listed, job, purge,
                   migrating, crossed>>

(* The call ends without, or dies: nothing is rolled back.                 *)
DeleterEnds(d) ==
    /\ eraser[d].phase # "idle"
    /\ eraser' = [eraser EXCEPT ![d] = Resting]
    /\ UNCHANGED <<contract, row, object, upload, lost, listed, job, purge,
                   migrating, crossed>>

------------------------------------------------------------------------------
(* reconcileDeletedFiles.                                                  *)

(* Mutant: only rows whose erasure has failed before.                      *)
ReconcilableFailed(f) ==
    /\ row[f].status = "deleted" /\ ~row[f].confirmed
    /\ row[f].attempts \in 1 .. MaxDeleteAttempts - 1

(* findReconcilableContractFiles                                           *)
Reconcilable(f) ==
    row[f].status = "deleted" /\ ~row[f].confirmed /\ row[f].attempts < MaxDeleteAttempts

ReconcileScan ==
    /\ eraser[Reconciler] = Resting /\ listed = {}
    /\ \E f \in Files : Reconcilable(f)
    /\ listed' = {[file |-> f, provider |-> row[f].provider] : f \in {g \in Files : Reconcilable(g)}}
    /\ UNCHANGED <<contract, row, object, upload, lost, eraser, job, purge,
                   migrating, crossed>>

ReconcileRow(f) ==
    /\ eraser[Reconciler] = Resting
    /\ \E l \in listed :
         /\ l.file = f
         /\ listed' = listed \ {l}
         /\ eraser' = [eraser EXCEPT ![Reconciler] = [phase |-> "erasing", file |-> l.file,
                                                      provider |-> l.provider]]
    /\ UNCHANGED <<contract, row, object, upload, lost, job, purge, migrating,
                   crossed>>

(* The process dies, or recording a failure throws: the run ends there.    *)
ReconcileDies ==
    /\ eraser[Reconciler] # Resting \/ listed # {}
    /\ eraser' = [eraser EXCEPT ![Reconciler] = Resting]
    /\ listed' = {}
    /\ UNCHANGED <<contract, row, object, upload, lost, job, purge, migrating,
                   crossed>>

------------------------------------------------------------------------------
(* retention:scan and retention:purge.                                     *)

(* scanPurgeCandidates, registerPurgeJob: an existing job is left alone.   *)
RegisterPurgeJob ==
    /\ contract = "elapsed" /\ job.status = "absent"
    /\ job' = [job EXCEPT !.status = "PENDING"]
    /\ UNCHANGED <<contract, row, object, upload, lost, eraser, listed, purge,
                   migrating, crossed>>

(* claimPurgeJobs                                                          *)
ClaimPurgeJob ==
    /\ purge = NoPurge
    /\ \/ job.status = "PENDING"
       \/ job.status = "FAILED" /\ job.attempt < MaxPurgeAttempts
    /\ job' = [job EXCEPT !.status = "PROCESSING"]
    /\ purge' = [NoPurge EXCEPT !.phase = "claimed"]
    /\ UNCHANGED <<contract, row, object, upload, lost, eraser, listed,
                   migrating, crossed>>

(* Rows already confirmed are passed over.                                 *)
ListForPurge ==
    /\ purge.phase = "claimed" /\ contract # "gone"
    /\ purge' = [purge EXCEPT
                   !.phase = "erasing",
                   !.files = {[file |-> f, provider |-> row[f].provider] :
                                f \in {g \in Files : InTable(g) /\ ~row[g].confirmed}}]
    /\ UNCHANGED <<contract, row, object, upload, lost, eraser, listed, job,
                   migrating, crossed>>

(* markFileDeletedForPurge, then the erasure.                              *)
PurgeFile ==
    /\ purge.phase = "erasing" /\ eraser[Purger] = Resting
    /\ \E l \in purge.files :
         /\ row' = [row EXCEPT ![l.file].status = IF Live(l.file) THEN "deleted" ELSE @]
         /\ purge' = [purge EXCEPT !.files = @ \ {l}]
         /\ eraser' = [eraser EXCEPT ![Purger] = [phase |-> "erasing", file |-> l.file,
                                                  provider |-> l.provider]]
    /\ UNCHANGED <<contract, object, upload, lost, listed, job, migrating,
                   crossed>>

(* Mutant: the pending files are not looked at.                            *)
PendingIgnored(p) == TRUE

(* pendingFileCount = 0                                                    *)
AllErased(p) == ~p.pending

(* contract.delete cascades to the rows.                                   *)
PurgeContract ==
    /\ purge.phase = "erasing" /\ purge.files = {} /\ eraser[Purger] = Resting
    /\ AllErased(purge)
    /\ contract' = "gone"
    /\ row' = [f \in Files |-> IF InTable(f) THEN [row[f] EXCEPT !.status = "purged"] ELSE row[f]]
    /\ purge' = [purge EXCEPT !.phase = "purged"]
    /\ UNCHANGED <<object, upload, lost, eraser, listed, job, migrating,
                   crossed>>

(* purged, or already_gone.                                                *)
CompletePurgeJob ==
    /\ purge.phase = "purged" \/ (purge.phase = "claimed" /\ contract = "gone")
    /\ job' = [job EXCEPT !.status = "COMPLETED"]
    /\ purge' = NoPurge
    /\ UNCHANGED <<contract, row, object, upload, lost, eraser, listed,
                   migrating, crossed>>

(* Mutant: the attempt is taken off the count.                             *)
PurgeFailedCountingDown(j) == [status |-> "FAILED", attempt |-> j.attempt - 1]

(* markPurgeJobFailed                                                      *)
PurgeFailed(j) == [status |-> "FAILED", attempt |-> j.attempt + 1]

(* files_pending, or anything in purgeContract throws.                     *)
FailPurgeJob ==
    /\ purge.phase # "idle"
    /\ job' = PurgeFailed(job)
    /\ purge' = NoPurge
    /\ eraser' = [eraser EXCEPT ![Purger] = Resting]
    /\ UNCHANGED <<contract, row, object, upload, lost, listed, migrating,
                   crossed>>

(* The process dies; no recovery ever takes a PROCESSING job up again.     *)
PurgeDies ==
    /\ purge.phase # "idle"
    /\ purge' = NoPurge
    /\ eraser' = [eraser EXCEPT ![Purger] = Resting]
    /\ UNCHANGED <<contract, row, object, upload, lost, listed, job, migrating,
                   crossed>>

------------------------------------------------------------------------------
(* migrateStorageToS3.                                                     *)

MigrateScan ==
    /\ migrating = [files |-> {}, copied |-> NoFile]
    /\ migrating' = [migrating EXCEPT !.files = {f \in Files : Live(f) /\ row[f].provider = "local"}]
    /\ migrating'.files # {}
    /\ UNCHANGED <<contract, row, object, upload, lost, eraser, listed, job,
                   purge, crossed>>

(* Read locally, put to S3 and read back; a file that is missing fails.    *)
CopyToS3(f) ==
    /\ f \in migrating.files /\ migrating.copied = NoFile
    /\ migrating' = [files |-> migrating.files \ {f},
                     copied |-> IF <<f, "local">> \in object THEN f ELSE NoFile]
    /\ object' = IF <<f, "local">> \in object THEN object \cup {<<f, "s3">>} ELSE object
    /\ UNCHANGED <<contract, row, upload, lost, eraser, listed, job, purge,
                   crossed>>

(* Somebody is erasing f by what the row said before.                      *)
BeingErased(f) ==
    \/ ~Live(f)
    \/ \E e \in Erasers : eraser[e].file = f
    \/ \E l \in listed \cup purge.files : l.file = f

(* The row is flipped by id, deleted or not; a row that is gone fails.     *)
FlipProvider ==
    /\ migrating.copied # NoFile
    /\ LET f == migrating.copied IN
       IF InTable(f)
       THEN /\ row' = [row EXCEPT ![f].provider = "s3"]
            /\ crossed' = IF BeingErased(f) THEN crossed \cup {f} ELSE crossed
       ELSE UNCHANGED <<row, crossed>>
    /\ migrating' = [migrating EXCEPT !.copied = NoFile]
    /\ UNCHANGED <<contract, object, upload, lost, eraser, listed, job, purge>>

MigrateDies ==
    /\ migrating # [files |-> {}, copied |-> NoFile]
    /\ migrating' = [files |-> {}, copied |-> NoFile]
    /\ UNCHANGED <<contract, row, object, upload, lost, eraser, listed, job,
                   purge, crossed>>

------------------------------------------------------------------------------
UploadStep(f) ==
    \/ OpenUpload(f) \/ PutObject(f) \/ InsertRow(f) \/ InsertFails(f)
    \/ Compensate(f) \/ UploadDies(f)

EraseStep(e) ==
    RemoveObject(e) \/ RemoveFails(e) \/ MarkStorageDeleted(e) \/ MarkThrows(e) \/ RecordFailure(e)

PurgeStep ==
    \/ RegisterPurgeJob \/ ClaimPurgeJob \/ ListForPurge \/ PurgeFile \/ PurgeContract
    \/ CompletePurgeJob \/ FailPurgeJob \/ PurgeDies

Next ==
    \/ DeleteContract \/ RetentionElapses
    \/ \E f \in Files : UploadStep(f) \/ ReconcileRow(f) \/ CopyToS3(f)
    \/ \E e \in Erasers : EraseStep(e)
    \/ \E d \in Deleters : SoftDelete(d) \/ DeleterEnds(d) \/ \E f \in Files : DeleteRead(d, f)
    \/ ReconcileScan \/ ReconcileDies
    \/ PurgeStep
    \/ MigrateScan \/ FlipProvider \/ MigrateDies

Spec == Init /\ [][Next]_vars

(* The scheduler starts files:reconcile for ever; it may die, but not      *)
(* every time at the same place.  The other scripts are run by hand.       *)
Fairness ==
    /\ WF_vars(ReconcileScan)
    /\ \A f \in Files : SF_vars(ReconcileRow(f))
    /\ SF_vars(RemoveObject(Reconciler) \/ RemoveFails(Reconciler))
    /\ SF_vars(MarkStorageDeleted(Reconciler) \/ MarkThrows(Reconciler))
    /\ SF_vars(RecordFailure(Reconciler))

FairSpec == Spec /\ Fairness
==============================================================================
