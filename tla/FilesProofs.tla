----------------------------- MODULE FilesProofs -----------------------------
(***************************************************************************)
(* LiveFilesReadable and ErasedIsGone for any number of files, deleters    *)
(* and attempts.  A row and its object change in different steps, so the   *)
(* invariant says of everybody who holds a file and a provider, between    *)
(* reading the row and acting on the object, how far the two still agree.  *)
(***************************************************************************)
EXTENDS FilesProperties, TLAPS

Known(f) == row[f].status # "absent"
Over == contract \in {"elapsed", "gone"}

(* An upload in flight has no row yet, and no upload outlives retention.   *)
UploadInv ==
    \A f \in Files :
      /\ upload[f].phase \in {"none", "opened", "written"} => ~Known(f)
      /\ upload[f].phase = "rejected" => ~Known(f) \/ f \in lost
      /\ upload[f].phase = "written" => <<f, upload[f].provider>> \in object
      /\ Over => upload[f].phase \in {"none", "done"}

(* The two promises of a row, and that only a deleted row is confirmed.    *)
RowInv ==
    \A f \in Files :
      /\ Live(f) => f \in lost \/ Key(f) \in object
      /\ row[f].confirmed => row[f].status \in {"deleted", "purged"}
      /\ row[f].confirmed \/ row[f].status = "purged" => f \in crossed \/ Key(f) \notin object

(* What an eraser holds is what the row says, unless the row was flipped.  *)
Erasing(q) ==
    /\ q.phase # "idle" /\ q.file \in Files /\ Known(q.file)
    /\ q.phase # "read" => ~Live(q.file)
    /\ q.file \notin crossed => q.provider = row[q.file].provider
    /\ q.phase = "removed" => q.file \in crossed \/ Key(q.file) \notin object

EraserInv == \A e \in Erasers : eraser[e] = Resting \/ Erasing(eraser[e])

(* So is what a run has listed.                                            *)
Current(l) ==
    /\ Known(l.file)
    /\ l.file \notin crossed => l.provider = row[l.file].provider

ListInv ==
    /\ \A l \in listed : Current(l) /\ ~Live(l.file)
    /\ \A l \in purge.files : Current(l)

(* The migration only holds rows that are still local.                     *)
MigrateInv ==
    /\ migrating.copied \notin migrating.files
    /\ \A f \in Files :
         /\ f \in migrating.files \/ f = migrating.copied => Known(f) /\ row[f].provider = "local"
         /\ f = migrating.copied /\ Live(f) => f \in lost \/ <<f, "s3">> \in object

(* A purge with nothing pending has treated, or has yet to treat, each row. *)
PurgeInv ==
    /\ job.status # "absent" \/ purge.phase # "idle" => Over
    /\ purge.phase = "erasing" /\ ~purge.pending =>
         \A f \in Files : InTable(f) =>
            \/ \E l \in purge.files : l.file = f
            \/ eraser[Purger].file = f
            \/ row[f].confirmed

Inv == TypeOK /\ UploadInv /\ RowInv /\ EraserInv /\ ListInv /\ MigrateInv /\ PurgeInv

USE FilesAssumption, ErasersAssumption, AttemptsAssumption

LEMMA RestingType == Resting \in Eraser
BY DEF Resting, Eraser, Providers

LEMMA NoPurgeType == NoPurge \in Purge
BY DEF NoPurge, Purge

(* The types of what the variables hold.                                   *)
LEMMA FieldTypes ==
    ASSUME TypeOK, NEW f \in Files
    PROVE  /\ row[f] \in Row
           /\ row[f].status \in {"absent", "live", "deleted", "purged"}
           /\ row[f].provider \in Providers /\ row[f].confirmed \in BOOLEAN
           /\ row[f].attempts \in Nat
           /\ upload[f] \in Upload
           /\ upload[f].phase \in {"none", "opened", "written", "rejected", "done"}
           /\ upload[f].provider \in Providers
BY DEF TypeOK, Row, Upload

LEMMA EraserTypes ==
    ASSUME TypeOK, NEW e \in Erasers
    PROVE  /\ eraser[e] \in Eraser
           /\ eraser[e].file \in Files \cup {NoFile} /\ eraser[e].provider \in Providers
           /\ \A phase \in {"idle", "read", "erasing", "removed", "failed"} :
                [eraser EXCEPT ![e].phase = phase] \in [Erasers -> Eraser]
           /\ [eraser EXCEPT ![e] = Resting] \in [Erasers -> Eraser]
<1>1. eraser[e] \in Eraser BY DEF TypeOK
<1>2. eraser[e].file \in Files \cup {NoFile} /\ eraser[e].provider \in Providers
  BY <1>1 DEF Eraser
<1>3. ASSUME NEW phase \in {"idle", "read", "erasing", "removed", "failed"}
      PROVE  [eraser EXCEPT ![e].phase = phase] \in [Erasers -> Eraser]
  <2>1. [eraser[e] EXCEPT !.phase = phase] \in Eraser BY <1>1 DEF Eraser
  <2> QED BY <2>1 DEF TypeOK
<1>4. [eraser EXCEPT ![e] = Resting] \in [Erasers -> Eraser] BY RestingType DEF TypeOK
<1> QED BY <1>1, <1>2, <1>3, <1>4

LEMMA UploadMovesType ==
    ASSUME TypeOK, NEW f \in Files, NEW phase \in {"opened", "written", "rejected", "done"},
           UploadMoves(f, phase)
    PROVE  upload' \in [Files -> Upload]
<1>1. [upload[f] EXCEPT !.phase = phase] \in Upload BY FieldTypes DEF Upload
<1> QED BY <1>1 DEF TypeOK, UploadMoves

LEMMA InsertedType ==
    ASSUME TypeOK, NEW f \in Files, Inserted(f)
    PROVE  row' \in [Files -> Row]
<1>1. [row[f] EXCEPT !.status = "live", !.provider = upload[f].provider] \in Row
  BY FieldTypes DEF Row
<1>2. row' = [row EXCEPT ![f] = [row[f] EXCEPT !.status = "live", !.provider = upload[f].provider]]
  BY DEF Inserted, TypeOK
<1> QED BY <1>1, <1>2 DEF TypeOK

LEMMA ListingType ==
    ASSUME TypeOK, NEW S \in SUBSET Files
    PROVE  {[file |-> f, provider |-> row[f].provider] : f \in S} \subseteq Listing
BY FieldTypes DEF Listing

(* The rows and files that may be erased are those of Files.               *)
LEMMA TypeStep == TypeOK /\ EraserInv /\ [Next]_vars => TypeOK'
<1> SUFFICES ASSUME TypeOK, EraserInv, [Next]_vars PROVE TypeOK'
  OBVIOUS
<1>r. ASSUME NEW f \in Files, NEW q \in Row, row' = [row EXCEPT ![f] = q]
      PROVE  row' \in [Files -> Row]
  BY <1>r DEF TypeOK
<1>p. /\ purge.phase \in {"idle", "claimed", "erasing", "purged"} /\ purge.pending \in BOOLEAN
      /\ purge.files \subseteq Listing
      /\ job.status \in {"absent", "PENDING", "PROCESSING", "COMPLETED", "FAILED"}
      /\ job.attempt \in Nat
  BY DEF TypeOK, Purge, Job
<1>m. migrating.files \subseteq Files /\ migrating.copied \in Files \cup {NoFile}
  BY DEF TypeOK
<1>1. ASSUME NEW f \in Files, UploadStep(f) PROVE TypeOK'
  <2>1. CASE OpenUpload(f) BY <2>1, UploadMovesType DEF OpenUpload, TypeOK
  <2>2. CASE PutObject(f)
    <3>1. PICK p \in Providers :
            /\ object' = object \cup {<<f, p>>}
            /\ upload' = [upload EXCEPT ![f] = [phase |-> "written", provider |-> p]]
      BY <2>2 DEF PutObject
    <3>2. [phase |-> "written", provider |-> p] \in Upload BY DEF Upload
    <3> QED BY <2>2, <3>1, <3>2 DEF PutObject, TypeOK
  <2>3. CASE InsertRow(f) BY <2>3, UploadMovesType, InsertedType DEF InsertRow, TypeOK
  <2>4. CASE InsertFails(f) BY <2>4, UploadMovesType, InsertedType DEF InsertFails, TypeOK
  <2>5. CASE Compensate(f) BY <2>5, UploadMovesType DEF Compensate, TypeOK
  <2>6. CASE UploadDies(f) BY <2>6, UploadMovesType DEF UploadDies, TypeOK
  <2> QED BY <1>1, <2>1, <2>2, <2>3, <2>4, <2>5, <2>6 DEF UploadStep
<1>2. ASSUME NEW e \in Erasers, EraseStep(e) PROVE TypeOK'
  <2>1. CASE RemoveObject(e) BY <2>1, EraserTypes DEF RemoveObject, EraserMoves, TypeOK
  <2>2. CASE RemoveFails(e)
    BY <2>2, EraserTypes DEF RemoveFails, EraserMoves, AfterFailure, TypeOK
  <2>3. CASE MarkStorageDeleted(e)
    <3> DEFINE g == eraser[e].file
    <3>1. g \in Files BY <2>3 DEF MarkStorageDeleted, EraserInv, Erasing, Resting
    <3>2. [row[g] EXCEPT !.confirmed = TRUE] \in Row BY <3>1, FieldTypes DEF Row
    <3>3. row' = [row EXCEPT ![g] = [row[g] EXCEPT !.confirmed = TRUE]]
      BY <2>3, <3>1 DEF MarkStorageDeleted, TypeOK
    <3>4. row' \in [Files -> Row] BY <3>1, <3>2, <3>3, <1>r
    <3> QED BY <2>3, <3>4, EraserTypes DEF MarkStorageDeleted, TypeOK
  <2>4. CASE MarkThrows(e) BY <2>4, EraserTypes DEF MarkThrows, EraserMoves, TypeOK
  <2>5. CASE RecordFailure(e)
    <3> DEFINE g == eraser[e].file
    <3>1. g \in Files BY <2>5 DEF RecordFailure, EraserInv, Erasing, Resting
    <3>2. [row[g] EXCEPT !.attempts = @ + 1] \in Row BY <3>1, FieldTypes DEF Row
    <3>3. row' = [row EXCEPT ![g] = [row[g] EXCEPT !.attempts = @ + 1]]
      BY <2>5, <3>1 DEF RecordFailure, TypeOK
    <3>4. row' \in [Files -> Row] BY <3>1, <3>2, <3>3, <1>r
    <3>5. purge' \in Purge BY <2>5 DEF RecordFailure, TypeOK, Purge
    <3> QED BY <2>5, <3>4, <3>5, EraserTypes DEF RecordFailure, TypeOK
  <2> QED BY <1>2, <2>1, <2>2, <2>3, <2>4, <2>5 DEF EraseStep
<1>3. ASSUME NEW d \in Deleters, NEW f \in Files, DeleteRead(d, f) PROVE TypeOK'
  <2>1. [phase |-> "read", file |-> f, provider |-> row[f].provider] \in Eraser
    BY FieldTypes DEF Eraser
  <2> QED BY <1>3, <2>1 DEF DeleteRead, TypeOK
<1>4. ASSUME NEW d \in Deleters, SoftDelete(d) PROVE TypeOK'
  <2> DEFINE g == eraser[d].file
  <2>d. d \in Erasers BY DEF Erasers
  <2>1. g \in Files BY <1>4, <2>d DEF SoftDelete, EraserInv, Erasing, Resting
  <2>2. [row[g] EXCEPT !.status = "deleted"] \in Row BY <2>1, FieldTypes DEF Row
  <2>3. row' = [row EXCEPT ![g] = [row[g] EXCEPT !.status = "deleted"]]
    BY <1>4, <2>1 DEF SoftDelete, TypeOK
  <2>4. row' \in [Files -> Row] BY <2>1, <2>2, <2>3, <1>r
  <2>5. eraser' \in [Erasers -> Eraser] BY <1>4, <2>d, EraserTypes DEF SoftDelete, EraserMoves
  <2> QED BY <1>4, <2>4, <2>5 DEF SoftDelete, TypeOK
<1>5. ASSUME NEW d \in Deleters, DeleterEnds(d) PROVE TypeOK'
  <2>d. d \in Erasers BY DEF Erasers
  <2> QED BY <1>5, <2>d, EraserTypes DEF DeleterEnds, TypeOK
<1>6. ASSUME ReconcileScan PROVE TypeOK'
  <2>1. listed' \subseteq Listing BY <1>6, ListingType DEF ReconcileScan
  <2> QED BY <1>6, <2>1 DEF ReconcileScan, TypeOK
<1>7. ASSUME NEW f \in Files, ReconcileRow(f) PROVE TypeOK'
  <2>1. PICK l \in listed :
          /\ listed' = listed \ {l}
          /\ eraser' = [eraser EXCEPT ![Reconciler] = [phase |-> "erasing", file |-> l.file,
                                                       provider |-> l.provider]]
    BY <1>7 DEF ReconcileRow
  <2>2. [phase |-> "erasing", file |-> l.file, provider |-> l.provider] \in Eraser
    BY DEF Eraser, TypeOK, Listing
  <2> QED BY <1>7, <2>1, <2>2 DEF ReconcileRow, TypeOK
<1>8. ASSUME ReconcileDies PROVE TypeOK'
  BY <1>8, EraserTypes DEF ReconcileDies, TypeOK, Erasers
<1>9. ASSUME PurgeStep PROVE TypeOK'
  <2>1. CASE RegisterPurgeJob
    <3>1. job' \in Job BY <2>1, <1>p DEF RegisterPurgeJob, TypeOK, Job
    <3> QED BY <2>1, <3>1 DEF RegisterPurgeJob, TypeOK
  <2>2. CASE ClaimPurgeJob
    <3>1. job' \in Job BY <2>2, <1>p DEF ClaimPurgeJob, TypeOK, Job
    <3>2. purge' \in Purge BY <2>2 DEF ClaimPurgeJob, NoPurge, Purge
    <3> QED BY <2>2, <3>1, <3>2 DEF ClaimPurgeJob, TypeOK
  <2>3. CASE ListForPurge
    <3> DEFINE S == {g \in Files : InTable(g) /\ ~row[g].confirmed}
    <3> DEFINE L == {[file |-> f, provider |-> row[f].provider] : f \in S}
    <3>1. L \subseteq Listing BY ListingType
    <3>2. purge' = [purge EXCEPT !.phase = "erasing", !.files = L] BY <2>3 DEF ListForPurge
    <3> HIDE DEF L
    <3>3. purge' \in Purge BY <3>1, <3>2 DEF TypeOK, Purge
    <3> QED BY <2>3, <3>3 DEF ListForPurge, TypeOK
  <2>4. CASE PurgeFile
    <3>1. PICK l \in purge.files :
            /\ row' = [row EXCEPT ![l.file].status = IF Live(l.file) THEN "deleted" ELSE @]
            /\ purge' = [purge EXCEPT !.files = @ \ {l}]
            /\ eraser' = [eraser EXCEPT ![Purger] = [phase |-> "erasing", file |-> l.file,
                                                     provider |-> l.provider]]
      BY <2>4 DEF PurgeFile
    <3>2. l.file \in Files /\ l.provider \in Providers BY <1>p DEF Listing
    <3> DEFINE q == [row[l.file] EXCEPT !.status = IF Live(l.file) THEN "deleted" ELSE @]
    <3>3. q \in Row BY <3>2, FieldTypes DEF Row
    <3>4. row' = [row EXCEPT ![l.file] = q] BY <3>1, <3>2 DEF TypeOK
    <3> HIDE DEF q
    <3>5. row' \in [Files -> Row] BY <3>2, <3>3, <3>4, <1>r
    <3>6. [phase |-> "erasing", file |-> l.file, provider |-> l.provider] \in Eraser
      BY <3>2 DEF Eraser
    <3>7. eraser' \in [Erasers -> Eraser] BY <3>1, <3>6 DEF TypeOK
    <3>8. purge' \in Purge BY <3>1 DEF TypeOK, Purge
    <3> QED BY <2>4, <3>5, <3>7, <3>8 DEF PurgeFile, TypeOK
  <2>5. CASE PurgeContract
    <3>1. \A f \in Files : [row[f] EXCEPT !.status = "purged"] \in Row BY FieldTypes DEF Row
    <3>2. row' \in [Files -> Row] BY <2>5, <3>1, FieldTypes DEF PurgeContract
    <3>3. purge' \in Purge BY <2>5 DEF PurgeContract, TypeOK, Purge
    <3> QED BY <2>5, <3>2, <3>3 DEF PurgeContract, TypeOK
  <2>6. CASE CompletePurgeJob
    <3>1. job' \in Job BY <2>6, <1>p DEF CompletePurgeJob, TypeOK, Job
    <3> QED BY <2>6, <3>1, NoPurgeType DEF CompletePurgeJob, TypeOK
  <2>7. CASE FailPurgeJob
    <3>1. job' \in Job BY <2>7, <1>p DEF FailPurgeJob, PurgeFailed, Job
    <3> QED BY <2>7, <3>1, NoPurgeType, EraserTypes DEF FailPurgeJob, TypeOK, Erasers
  <2>8. CASE PurgeDies
    BY <2>8, NoPurgeType, EraserTypes DEF PurgeDies, TypeOK, Erasers
  <2> QED BY <1>9, <2>1, <2>2, <2>3, <2>4, <2>5, <2>6, <2>7, <2>8 DEF PurgeStep
<1>10. ASSUME MigrateScan \/ (\E f \in Files : CopyToS3(f)) \/ MigrateDies PROVE TypeOK'
  <2>1. CASE MigrateScan
    <3>1. migrating' \in [files : SUBSET Files, copied : Files \cup {NoFile}]
      BY <2>1 DEF MigrateScan, TypeOK
    <3> QED BY <2>1, <3>1 DEF MigrateScan, TypeOK
  <2>2. CASE \E f \in Files : CopyToS3(f)
    <3>1. PICK f \in Files : CopyToS3(f) BY <2>2
    <3>2. migrating' \in [files : SUBSET Files, copied : Files \cup {NoFile}]
      BY <3>1, <1>m DEF CopyToS3
    <3>3. object' \subseteq Files \X Providers BY <3>1 DEF CopyToS3, TypeOK, Providers
    <3> QED BY <3>1, <3>2, <3>3 DEF CopyToS3, TypeOK
  <2>3. CASE MigrateDies BY <2>3 DEF MigrateDies, TypeOK
  <2> QED BY <1>10, <2>1, <2>2, <2>3
<1>11. ASSUME FlipProvider PROVE TypeOK'
  <2> DEFINE g == migrating.copied
  <2>1. g \in Files BY <1>11, <1>m DEF FlipProvider
  <2>2. [row[g] EXCEPT !.provider = "s3"] \in Row BY <2>1, FieldTypes DEF Row, Providers
  <2>3. row' \in [Files -> Row]
    <3>1. row' = row \/ row' = [row EXCEPT ![g] = [row[g] EXCEPT !.provider = "s3"]]
      BY <1>11, <2>1 DEF FlipProvider, TypeOK
    <3> QED BY <2>1, <2>2, <3>1, <1>r DEF TypeOK
  <2>4. migrating' \in [files : SUBSET Files, copied : Files \cup {NoFile}]
    BY <1>11, <1>m DEF FlipProvider, TypeOK
  <2> QED BY <1>11, <2>1, <2>3, <2>4 DEF FlipProvider, TypeOK
<1>12. ASSUME DeleteContract \/ RetentionElapses \/ UNCHANGED vars PROVE TypeOK'
  BY <1>12 DEF DeleteContract, RetentionElapses, vars, TypeOK
<1> QED BY <1>1, <1>2, <1>3, <1>4, <1>5, <1>6, <1>7, <1>8, <1>9, <1>10, <1>11, <1>12 DEF Next

------------------------------------------------------------------------------
(* What every step leaves of the rows and the objects.                     *)

Insertion(f) ==
    /\ row'[f].status = "live" /\ row'[f].provider = upload[f].provider
    /\ upload[f].phase = "written" /\ upload'[f].phase \in {"done", "rejected"}
    /\ upload'[f].phase = "rejected" => f \in lost'
    /\ object' = object

Flipped(f) ==
    /\ f = migrating.copied /\ row[f].provider = "local" /\ row'[f].provider = "s3"
    /\ BeingErased(f) => f \in crossed'
    /\ object' = object /\ migrating'.copied = NoFile

Onward ==
    /\ crossed \subseteq crossed' /\ lost \subseteq lost'
    /\ \A f \in Files, p \in Providers :
         /\ <<f, p>> \in object /\ <<f, p>> \notin object' =>
              upload[f].phase = "rejected" \/ (Known(f) /\ ~Live(f))
         /\ <<f, p>> \in object' /\ <<f, p>> \notin object =>
              ~Known(f) \/ (row[f].provider = "local" /\ p = "s3")
    /\ \A f \in Files :
         /\ ~Known(f) => row'[f].status = "absent" \/ Insertion(f)
         /\ Known(f) => row'[f].status # "absent" /\ (~Live(f) => row'[f].status # "live")
         /\ Known(f) => row'[f].provider = row[f].provider \/ Flipped(f)
         /\ row'[f].confirmed =>
              row[f].confirmed \/ \E e \in Erasers : eraser[e].phase = "removed" /\ eraser[e].file = f
         /\ row[f].confirmed => row'[f].confirmed
         /\ row'[f].status = "purged" => row[f].status = "purged" \/ row[f].confirmed
         /\ row[f].status = "purged" => row'[f].status = "purged"

LEMMA OnwardIdle ==
    ASSUME UNCHANGED <<row, object, lost, crossed>> PROVE Onward
BY DEF Onward, Known, Live

(* A step that changes one row only, and no object.                        *)
LEMMA OnwardRow ==
    ASSUME TypeOK, NEW f \in Files, NEW q, row' = [row EXCEPT ![f] = q],
           UNCHANGED object, crossed \subseteq crossed', lost \subseteq lost',
           ~Known(f) => q.status = "absent" \/ Insertion(f),
           Known(f) => q.status \notin {"absent", "purged"} \/ q.status = row[f].status,
           Known(f) /\ ~Live(f) => q.status # "live",
           row[f].status = "purged" => q.status = "purged",
           Known(f) => q.provider = row[f].provider \/ Flipped(f),
           q.confirmed =>
              row[f].confirmed \/ \E e \in Erasers : eraser[e].phase = "removed" /\ eraser[e].file = f,
           row[f].confirmed => q.confirmed
    PROVE  Onward
<1>1. \A g \in Files : row'[g] = IF g = f THEN q ELSE row[g] BY DEF TypeOK
<1>2. q.status = "purged" => row[f].status = "purged" BY DEF Known, Insertion
<1> QED BY <1>1, <1>2 DEF Onward, Known, Live

LEMMA OnwardStep == Inv /\ [Next]_vars => Onward
<1> SUFFICES ASSUME Inv, [Next]_vars PROVE Onward
  OBVIOUS
<1> USE DEF Inv
<1>1. ASSUME NEW f \in Files, UploadStep(f) PROVE Onward
  <2>0. ASSUME Inserted(f), UploadMoves(f, "done") \/ (UploadMoves(f, "rejected") /\ f \in lost'),
               upload[f].phase = "written", lost \subseteq lost', UNCHANGED <<object, crossed>>
        PROVE  Onward
    <3> DEFINE q == [row[f] EXCEPT !.status = "live", !.provider = upload[f].provider]
    <3>1. q.status = "live" /\ q.provider = upload[f].provider /\ q.confirmed = row[f].confirmed
      BY FieldTypes DEF Row
    <3>2. row' = [row EXCEPT ![f] = q] BY <2>0 DEF Inserted, TypeOK
    <3> HIDE DEF q
    <3>3. row'[f] = q BY <3>2 DEF TypeOK
    <3>4. ~Known(f) /\ row[f].status = "absent" BY <2>0 DEF UploadInv, Known
    <3>5. upload'[f].phase = "done" \/ (upload'[f].phase = "rejected" /\ f \in lost')
      BY <2>0, FieldTypes DEF UploadMoves, TypeOK, Upload
    <3>6. Insertion(f) BY <2>0, <3>1, <3>3, <3>5 DEF Insertion
    <3> QED BY <2>0, <3>1, <3>2, <3>4, <3>6, OnwardRow
  <2>1. CASE OpenUpload(f) BY <2>1, OnwardIdle DEF OpenUpload
  <2>2. CASE PutObject(f)
    <3>1. PICK p \in Providers : object' = object \cup {<<f, p>>} BY <2>2 DEF PutObject
    <3>2. ~Known(f) BY <2>2 DEF PutObject, UploadInv
    <3>3. UNCHANGED <<row, lost, crossed>> BY <2>2 DEF PutObject
    <3> QED BY <3>1, <3>2, <3>3 DEF Onward, Known, Live
  <2>3. CASE InsertRow(f) BY <2>3, <2>0 DEF InsertRow
  <2>4. CASE InsertFails(f) BY <2>4, <2>0, OnwardIdle DEF InsertFails
  <2>5. CASE Compensate(f)
    <3>1. upload[f].phase = "rejected" /\ object \ {<<f, upload[f].provider>>} \subseteq object'
          /\ object' \subseteq object
      BY <2>5 DEF Compensate
    <3>2. UNCHANGED <<row, lost, crossed>> BY <2>5 DEF Compensate
    <3> QED BY <3>1, <3>2 DEF Onward, Known, Live
  <2>6. CASE UploadDies(f) BY <2>6, OnwardIdle DEF UploadDies
  <2> QED BY <1>1, <2>1, <2>2, <2>3, <2>4, <2>5, <2>6 DEF UploadStep
<1>2. ASSUME NEW e \in Erasers, RemoveObject(e) \/ RemoveFails(e) PROVE Onward
  <2>1. /\ object \ {<<eraser[e].file, eraser[e].provider>>} \subseteq object'
        /\ object' \subseteq object /\ eraser[e].phase = "erasing"
        /\ UNCHANGED <<row, lost, crossed>>
    BY <1>2 DEF RemoveObject, RemoveFails
  <2>2. Known(eraser[e].file) /\ ~Live(eraser[e].file)
    BY <2>1 DEF EraserInv, Erasing, Resting
  <2> QED BY <2>1, <2>2 DEF Onward, Known, Live
<1>3. ASSUME NEW e \in Erasers, MarkStorageDeleted(e) PROVE Onward
  <2> DEFINE f == eraser[e].file
             q == [row[f] EXCEPT !.confirmed = TRUE]
  <2>1. f \in Files /\ eraser[e].phase = "removed" /\ Known(f) /\ ~Live(f)
    BY <1>3 DEF MarkStorageDeleted, EraserInv, Erasing, Resting
  <2>2. q.status = row[f].status /\ q.provider = row[f].provider /\ q.confirmed
    BY <2>1, FieldTypes DEF Row
  <2>3. row' = [row EXCEPT ![f] = q] BY <1>3, <2>1 DEF MarkStorageDeleted, TypeOK
  <2>4. UNCHANGED <<object, lost, crossed>> BY <1>3 DEF MarkStorageDeleted
  <2> HIDE DEF q
  <2> QED BY <2>1, <2>2, <2>3, <2>4, OnwardRow DEF Known, Live
<1>4. ASSUME NEW e \in Erasers, RecordFailure(e) PROVE Onward
  <2> DEFINE f == eraser[e].file
             q == [row[f] EXCEPT !.attempts = @ + 1]
  <2>1. f \in Files BY <1>4 DEF RecordFailure, EraserInv, Erasing, Resting
  <2>2. q.status = row[f].status /\ q.provider = row[f].provider /\ q.confirmed = row[f].confirmed
    BY <2>1, FieldTypes DEF Row
  <2>3. row' = [row EXCEPT ![f] = q] BY <1>4, <2>1 DEF RecordFailure, TypeOK
  <2>4. UNCHANGED <<object, lost, crossed>> BY <1>4 DEF RecordFailure
  <2> HIDE DEF q
  <2> QED BY <2>1, <2>2, <2>3, <2>4, OnwardRow DEF Known, Live
<1>5. ASSUME NEW d \in Deleters, SoftDelete(d) PROVE Onward
  <2> DEFINE f == eraser[d].file
             q == [row[f] EXCEPT !.status = "deleted"]
  <2>1. f \in Files /\ Live(f)
    BY <1>5 DEF SoftDelete, EraserInv, Erasing, Resting, Erasers
  <2>2. q.status = "deleted" /\ q.provider = row[f].provider /\ q.confirmed = row[f].confirmed
    BY <2>1, FieldTypes DEF Row
  <2>3. row' = [row EXCEPT ![f] = q] BY <1>5, <2>1 DEF SoftDelete, TypeOK
  <2>4. UNCHANGED <<object, lost, crossed>> BY <1>5 DEF SoftDelete
  <2> HIDE DEF q
  <2> QED BY <2>1, <2>2, <2>3, <2>4, OnwardRow DEF Known, Live
<1>6. ASSUME PurgeFile PROVE Onward
  <2>1. PICK l \in purge.files :
          row' = [row EXCEPT ![l.file].status = IF Live(l.file) THEN "deleted" ELSE @]
    BY <1>6 DEF PurgeFile
  <2> DEFINE f == l.file
             q == [row[f] EXCEPT !.status = IF Live(f) THEN "deleted" ELSE @]
  <2>2. f \in Files /\ Known(f) BY DEF TypeOK, Purge, Listing, ListInv, Current
  <2>3. q.status = (IF Live(f) THEN "deleted" ELSE row[f].status)
        /\ q.provider = row[f].provider /\ q.confirmed = row[f].confirmed
    BY <2>2, FieldTypes DEF Row
  <2>4. row' = [row EXCEPT ![f] = q] BY <2>1, <2>2 DEF TypeOK
  <2>5. UNCHANGED <<object, lost, crossed>> BY <1>6 DEF PurgeFile
  <2> HIDE DEF q
  <2> QED BY <2>2, <2>3, <2>4, <2>5, OnwardRow DEF Known, Live
<1>7. ASSUME PurgeContract PROVE Onward
  <2>1. \A f \in Files : InTable(f) => row[f].confirmed
    BY <1>7 DEF PurgeContract, PurgeInv, AllErased, Resting
  <2>2. \A f \in Files : /\ row'[f].provider = row[f].provider
                         /\ row'[f].confirmed = row[f].confirmed
                         /\ row'[f].status = IF InTable(f) THEN "purged" ELSE row[f].status
    BY <1>7, FieldTypes DEF PurgeContract, Row
  <2>3. UNCHANGED <<object, lost, crossed>> BY <1>7 DEF PurgeContract
  <2> QED BY <2>1, <2>2, <2>3 DEF Onward, Known, Live, InTable
<1>8. ASSUME NEW f \in Files, CopyToS3(f) PROVE Onward
  <2>1. row[f].provider = "local" BY <1>8 DEF CopyToS3, MigrateInv
  <2>2. object' = object \/ object' = object \cup {<<f, "s3">>} BY <1>8 DEF CopyToS3
  <2>3. UNCHANGED <<row, lost, crossed>> BY <1>8 DEF CopyToS3
  <2> QED BY <2>1, <2>2, <2>3 DEF Onward, Known, Live
<1>9. ASSUME FlipProvider PROVE Onward
  <2> DEFINE f == migrating.copied
             q == [row[f] EXCEPT !.provider = "s3"]
  <2>1. f \in Files BY <1>9 DEF FlipProvider, TypeOK
  <2>2. row[f].provider = "local" /\ Known(f) BY <2>1 DEF MigrateInv
  <2>3. UNCHANGED <<object, lost>> /\ migrating'.copied = NoFile BY <1>9 DEF FlipProvider, TypeOK
  <2>4. CASE ~InTable(f) BY <1>9, <2>3, <2>4, OnwardIdle DEF FlipProvider
  <2>5. CASE InTable(f)
    <3>1. q.status = row[f].status /\ q.provider = "s3" /\ q.confirmed = row[f].confirmed
      BY <2>1, FieldTypes DEF Row
    <3>2. row' = [row EXCEPT ![f] = q] BY <1>9, <2>1, <2>5 DEF FlipProvider, TypeOK
    <3>3. crossed' = IF BeingErased(f) THEN crossed \cup {f} ELSE crossed
      BY <1>9, <2>5 DEF FlipProvider
    <3>4. row'[f] = q BY <2>1, <3>2 DEF TypeOK
    <3> HIDE DEF q
    <3>5. Flipped(f) BY <2>2, <2>3, <3>1, <3>3, <3>4 DEF Flipped
    <3>6. crossed \subseteq crossed' /\ q.status = row[f].status BY <3>1, <3>3
    <3> QED BY <2>1, <2>2, <2>3, <3>1, <3>2, <3>5, <3>6, OnwardRow DEF Known, Live
  <2> QED BY <2>4, <2>5
<1>10. ASSUME UNCHANGED <<row, object, lost, crossed>> PROVE Onward
  BY <1>10, OnwardIdle
<1>11. ASSUME NEW e \in Erasers, EraseStep(e) PROVE Onward
  BY <1>11, <1>2, <1>3, <1>4, <1>10 DEF EraseStep, MarkThrows
<1>12. ASSUME PurgeStep PROVE Onward
  BY <1>12, <1>6, <1>7, <1>10 DEF PurgeStep, RegisterPurgeJob, ClaimPurgeJob, ListForPurge,
     CompletePurgeJob, FailPurgeJob, PurgeDies
<1> QED
  BY <1>1, <1>5, <1>8, <1>9, <1>10, <1>11, <1>12
     DEF Next, DeleteContract, RetentionElapses, ReconcileRow, DeleterEnds, DeleteRead,
         ReconcileScan, ReconcileDies, MigrateScan, MigrateDies, vars

(* What a row promises, from that alone.                                   *)
LEMMA RowStep == Inv /\ TypeOK' /\ Onward => RowInv'
<1> SUFFICES ASSUME Inv, TypeOK', Onward, NEW f \in Files
             PROVE  /\ row'[f].status = "live" => f \in lost' \/ <<f, row'[f].provider>> \in object'
                    /\ row'[f].confirmed => row'[f].status \in {"deleted", "purged"}
                    /\ row'[f].confirmed \/ row'[f].status = "purged" =>
                         f \in crossed' \/ <<f, row'[f].provider>> \notin object'
  BY DEF RowInv, Live, Key
<1> USE DEF Inv
<1>t. row[f].status \in {"absent", "live", "deleted", "purged"} /\ row[f].provider \in Providers
      /\ row'[f].provider \in Providers
      /\ row'[f].status \in {"absent", "live", "deleted", "purged"}
  BY FieldTypes DEF TypeOK, Row
<1>1. ASSUME row'[f].status = "live" PROVE f \in lost' \/ <<f, row'[f].provider>> \in object'
  <2>1. CASE ~Known(f) BY <1>1, <2>1 DEF Onward, Insertion, UploadInv
  <2>2. CASE Known(f)
    <3>1. Live(f) BY <1>1, <2>2 DEF Onward
    <3>2. CASE Flipped(f) BY <3>1, <3>2 DEF Flipped, MigrateInv, Onward
    <3>3. CASE row'[f].provider = row[f].provider
      <4>1. f \in lost \/ <<f, row[f].provider>> \in object BY <3>1 DEF RowInv, Key
      <4>2. upload[f].phase = "rejected" => f \in lost BY <2>2 DEF UploadInv
      <4> QED BY <1>t, <3>1, <3>3, <4>1, <4>2 DEF Onward
    <3> QED BY <2>2, <3>2, <3>3 DEF Onward
  <2> QED BY <2>1, <2>2
<1>2. ASSUME row'[f].confirmed PROVE row'[f].status \in {"deleted", "purged"}
  <2>1. Known(f) /\ ~Live(f)
    <3>1. CASE row[f].confirmed BY <3>1 DEF RowInv, Known, Live
    <3>2. CASE \E e \in Erasers : eraser[e].phase = "removed" /\ eraser[e].file = f
      BY <3>2 DEF EraserInv, Erasing, Resting
    <3> QED BY <1>2, <3>1, <3>2 DEF Onward
  <2> QED BY <1>t, <2>1 DEF Onward
<1>3. ASSUME row'[f].confirmed \/ row'[f].status = "purged"
      PROVE  f \in crossed' \/ <<f, row'[f].provider>> \notin object'
  <2>1. Known(f) /\ ~Live(f) /\ (f \in crossed \/ Key(f) \notin object)
    <3>1. CASE \E e \in Erasers : eraser[e].phase = "removed" /\ eraser[e].file = f
      BY <3>1 DEF EraserInv, Erasing, Resting
    <3>2. CASE row[f].confirmed \/ row[f].status = "purged"
      BY <3>2 DEF RowInv, Known, Live
    <3> QED BY <1>3, <3>1, <3>2 DEF Onward
  <2>2. CASE Flipped(f) BY <2>1, <2>2 DEF Flipped, BeingErased
  <2>3. CASE row'[f].provider = row[f].provider BY <1>t, <2>1, <2>3 DEF Onward, Key
  <2> QED BY <2>1, <2>2, <2>3 DEF Onward
<1> QED BY <1>1, <1>2, <1>3

(* An upload in flight keeps its object, and has no row.                   *)
LEMMA UploadFrame ==
    ASSUME Inv, Onward, UNCHANGED upload, Over' => Over,
           \A f \in Files : ~Known(f) => row'[f].status = "absent"
    PROVE  UploadInv'
<1>1. \A f \in Files : upload'[f].phase = "written" =>
         <<f, upload'[f].provider>> \in object /\ ~Known(f) /\ upload[f].provider \in Providers
  BY FieldTypes DEF Inv, UploadInv
<1>2. \A f \in Files : upload'[f].phase = "written" => <<f, upload'[f].provider>> \in object'
  BY <1>1 DEF Onward
<1> QED BY <1>2 DEF Inv, UploadInv, Onward, Known

(* The upload of one file moves on.                                        *)
LEMMA UploadStepInv ==
    ASSUME Inv, TypeOK', Onward, NEW f \in Files, UploadStep(f) PROVE UploadInv'
<1> USE DEF Inv
<1>1. UNCHANGED contract /\ (Over' => Over)
  BY DEF UploadStep, OpenUpload, PutObject, InsertRow, InsertFails, Compensate, UploadDies, Over
<1>2. \A g \in Files \ {f} : upload'[g] = upload[g] /\ row'[g] = row[g]
  BY DEF UploadStep, OpenUpload, PutObject, InsertRow, InsertFails, Compensate, UploadDies,
         UploadMoves, Inserted, TypeOK
<1>3. ASSUME NEW g \in Files \ {f}
      PROVE  /\ upload'[g].phase \in {"none", "opened", "written"} => row'[g].status = "absent"
             /\ upload'[g].phase = "rejected" => row'[g].status = "absent" \/ g \in lost'
             /\ upload'[g].phase = "written" => <<g, upload'[g].provider>> \in object'
             /\ Over' => upload'[g].phase \in {"none", "done"}
  <2>1. upload'[g].phase = "written" => <<g, upload'[g].provider>> \in object'
    BY <1>2, FieldTypes DEF Onward, UploadInv
  <2> QED BY <1>1, <1>2, <2>1 DEF UploadInv, Onward, Known
<1>4. /\ upload'[f].phase \in {"none", "opened", "written"} => row'[f].status = "absent"
      /\ upload'[f].phase = "rejected" => row'[f].status = "absent" \/ f \in lost'
      /\ upload'[f].phase = "written" => <<f, upload'[f].provider>> \in object'
      /\ Over' => upload'[f].phase \in {"none", "done"}
  <2>m. ASSUME NEW phase, UploadMoves(f, phase) PROVE upload'[f].phase = phase
    BY <2>m, FieldTypes DEF UploadMoves, TypeOK, Upload
  <2>1. CASE OpenUpload(f) BY <1>1, <2>1, <2>m DEF OpenUpload, UploadInv, Over, Known
  <2>2. CASE PutObject(f)
    <3>1. upload'[f].phase = "written" /\ <<f, upload'[f].provider>> \in object'
      BY <2>2 DEF PutObject, TypeOK
    <3> QED BY <1>1, <2>2, <3>1 DEF PutObject, UploadInv, Known
  <2>3. CASE InsertRow(f) BY <2>3, <2>m DEF InsertRow
  <2>4. CASE InsertFails(f)
    <3>1. upload'[f].phase = "rejected" /\ upload[f].phase = "written"
      BY <2>4, <2>m DEF InsertFails
    <3>2. row' = row \/ f \in lost' BY <2>4 DEF InsertFails
    <3> QED BY <1>1, <3>1, <3>2 DEF UploadInv, Known
  <2>5. CASE Compensate(f) BY <2>5, <2>m DEF Compensate
  <2>6. CASE UploadDies(f) BY <2>6, <2>m DEF UploadDies
  <2> QED BY <2>1, <2>2, <2>3, <2>4, <2>5, <2>6 DEF UploadStep
<1> QED BY <1>3, <1>4 DEF UploadInv, Known

LEMMA UploadsStep == Inv /\ TypeOK' /\ Onward /\ [Next]_vars => UploadInv'
<1> SUFFICES ASSUME Inv, TypeOK', Onward, [Next]_vars PROVE UploadInv'
  OBVIOUS
<1> USE DEF Inv
<1>1. ASSUME NEW f \in Files, UploadStep(f) PROVE UploadInv'
  BY <1>1, UploadStepInv
<1>2. CASE DeleteContract
  <2>1. Over' => Over BY <1>2 DEF DeleteContract, Over
  <2> QED BY <1>2, <2>1, UploadFrame DEF DeleteContract, Known
<1>3. CASE RetentionElapses
  BY <1>3 DEF RetentionElapses, UploadInv, Over, Known
<1>4. CASE PurgeContract
  <2>1. Over BY <1>4 DEF PurgeContract, PurgeInv
  <2>2. UNCHANGED upload BY <1>4 DEF PurgeContract
  <2>3. \A f \in Files : ~Known(f) => row'[f].status = "absent"
    BY <1>4 DEF PurgeContract, Known, InTable
  <2> QED BY <2>1, <2>2, <2>3, UploadFrame
<1>5. ASSUME UNCHANGED <<contract, upload>>,
             \A f \in Files : ~Known(f) => row'[f].status = "absent"
      PROVE  UploadInv'
  BY <1>5, UploadFrame DEF Over
<1>6. ASSUME UNCHANGED <<contract, upload, row>> PROVE UploadInv'
  BY <1>5, <1>6 DEF Known
<1>7. ASSUME UNCHANGED <<contract, upload, object>>, \A f \in Files : upload[f].phase = "written" =>
                ~Insertion(f)
      PROVE  UploadInv'
  BY <1>5, <1>7 DEF Onward, Insertion
<1>8. ASSUME NEW e \in Erasers, EraseStep(e) \/ (e \in Deleters /\ SoftDelete(e)) PROVE UploadInv'
  BY <1>8, <1>6, <1>7 DEF EraseStep, RemoveObject, RemoveFails, MarkStorageDeleted, MarkThrows,
     RecordFailure, SoftDelete, Insertion
<1>9. ASSUME PurgeStep PROVE UploadInv'
  BY <1>9, <1>4, <1>6, <1>7 DEF PurgeStep, RegisterPurgeJob, ClaimPurgeJob, ListForPurge,
     PurgeFile, CompletePurgeJob, FailPurgeJob, PurgeDies, Insertion
<1>10. CASE FlipProvider BY <1>10, <1>7 DEF FlipProvider, Insertion
<1>11. ASSUME \/ ReconcileScan \/ ReconcileDies \/ MigrateScan \/ MigrateDies \/ UNCHANGED vars
              \/ \E f \in Files : ReconcileRow(f) \/ CopyToS3(f)
              \/ \E d \in Deleters : DeleterEnds(d) \/ \E f \in Files : DeleteRead(d, f)
       PROVE  UploadInv'
  BY <1>11, <1>6 DEF ReconcileScan, ReconcileDies, MigrateScan, MigrateDies, ReconcileRow,
     CopyToS3, DeleterEnds, DeleteRead, vars
<1>12. ASSUME NEW d \in Deleters, SoftDelete(d) PROVE UploadInv'
  BY <1>12, <1>8 DEF Erasers
<1> QED BY <1>1, <1>2, <1>3, <1>8, <1>9, <1>10, <1>11, <1>12 DEF Next

(* A step keeps what anybody but a reader of the row knew of it.           *)
LEMMA HeldStays ==
    ASSUME Inv, Onward, NEW f \in Files, BeingErased(f), Known(f)
    PROVE  /\ row'[f].status # "absent" /\ (~Live(f) => row'[f].status # "live")
           /\ f \notin crossed' => row'[f].provider = row[f].provider /\ f \notin crossed
           /\ ~Live(f) /\ (f \in crossed \/ Key(f) \notin object) =>
                f \in crossed' \/ <<f, row'[f].provider>> \notin object'
<1>1. f \notin crossed' => row'[f].provider = row[f].provider /\ f \notin crossed
  BY DEF Onward, Flipped
<1>2. row'[f].status # "absent" /\ (~Live(f) => row'[f].status # "live") BY DEF Onward
<1>3. ASSUME ~Live(f), f \in crossed \/ Key(f) \notin object, f \notin crossed'
      PROVE  <<f, row'[f].provider>> \notin object'
  <2>1. row[f].provider \in Providers BY FieldTypes DEF Inv
  <2>2. <<f, row[f].provider>> \notin object BY <1>1, <1>3 DEF Key
  <2>3. <<f, row[f].provider>> \notin object' BY <2>1, <2>2 DEF Onward
  <2> QED BY <1>1, <1>3, <2>3
<1> QED BY <1>1, <1>2, <1>3

(* Erasers who do not move, rest, or move within what they hold.           *)
LEMMA EraserFrame ==
    ASSUME Inv, Onward,
           \A e \in Erasers :
              \/ eraser'[e] = eraser[e] \/ eraser'[e] = Resting
              \/ /\ eraser'[e].phase # "idle" /\ eraser'[e].file \in Files
                 /\ row'[eraser'[e].file].status # "absent"
                 /\ eraser'[e].phase # "read" => row'[eraser'[e].file].status # "live"
                 /\ eraser'[e].file \notin crossed' =>
                       eraser'[e].provider = row'[eraser'[e].file].provider
                 /\ eraser'[e].phase = "removed" =>
                       \/ eraser'[e].file \in crossed'
                       \/ <<eraser'[e].file, row'[eraser'[e].file].provider>> \notin object'
    PROVE  EraserInv'
<1>1. ASSUME NEW e \in Erasers, eraser[e] # Resting
      PROVE  LET q == eraser[e] IN
             /\ q.phase # "idle" /\ q.file \in Files
             /\ row'[q.file].status # "absent"
             /\ q.phase # "read" => row'[q.file].status # "live"
             /\ q.file \notin crossed' => q.provider = row'[q.file].provider
             /\ q.phase = "removed" =>
                   q.file \in crossed' \/ <<q.file, row'[q.file].provider>> \notin object'
  <2> DEFINE q == eraser[e]
  <2>1. Erasing(q) BY <1>1 DEF Inv, EraserInv
  <2>2. BeingErased(q.file) BY DEF BeingErased
  <2> HIDE DEF q
  <2>3. /\ q.phase # "idle" /\ q.file \in Files /\ Known(q.file)
        /\ q.phase # "read" => ~Live(q.file)
        /\ q.file \notin crossed => q.provider = row[q.file].provider
        /\ q.phase = "removed" => q.file \in crossed \/ Key(q.file) \notin object
    BY <2>1 DEF Erasing
  <2>4. /\ row'[q.file].status # "absent" /\ (~Live(q.file) => row'[q.file].status # "live")
        /\ q.file \notin crossed' =>
              row'[q.file].provider = row[q.file].provider /\ q.file \notin crossed
        /\ ~Live(q.file) /\ (q.file \in crossed \/ Key(q.file) \notin object) =>
              q.file \in crossed' \/ <<q.file, row'[q.file].provider>> \notin object'
    BY <2>2, <2>3, HeldStays
  <2>5. q.phase = "removed" =>
           q.file \in crossed' \/ <<q.file, row'[q.file].provider>> \notin object'
    BY <2>3, <2>4
  <2>6. /\ q.phase # "idle" /\ q.file \in Files
        /\ row'[q.file].status # "absent"
        /\ q.phase # "read" => row'[q.file].status # "live"
        /\ q.file \notin crossed' => q.provider = row'[q.file].provider
    BY <2>3, <2>4
  <2> QED BY <2>5, <2>6 DEF q
<1>2. Resting' = Resting BY DEF Resting
<1> SUFFICES ASSUME NEW e \in Erasers, eraser'[e] # Resting
             PROVE  /\ eraser'[e].phase # "idle" /\ eraser'[e].file \in Files
                    /\ row'[eraser'[e].file].status # "absent"
                    /\ eraser'[e].phase # "read" => row'[eraser'[e].file].status # "live"
                    /\ eraser'[e].file \notin crossed' =>
                          eraser'[e].provider = row'[eraser'[e].file].provider
                    /\ eraser'[e].phase = "removed" =>
                          \/ eraser'[e].file \in crossed'
                          \/ <<eraser'[e].file, row'[eraser'[e].file].provider>> \notin object'
  BY <1>2 DEF EraserInv, Erasing, Known, Live, Key
<1>3. CASE eraser'[e] = eraser[e] BY <1>1, <1>3
<1> QED BY <1>3

LEMMA EraseStepInv ==
    ASSUME Inv, TypeOK', Onward, NEW e \in Erasers, EraseStep(e) PROVE EraserInv'
<1> USE DEF Inv
<1> DEFINE f == eraser[e].file
<1>1. eraser[e] # Resting
  BY DEF EraseStep, RemoveObject, RemoveFails, MarkStorageDeleted, MarkThrows, RecordFailure,
         Resting
<1>2. Erasing(eraser[e]) BY <1>1 DEF EraserInv
<1>3. ASSUME NEW phase \in {"removed", "failed"}, EraserMoves(e, phase)
      PROVE  /\ eraser'[e].phase = phase /\ eraser'[e].file = f
             /\ eraser'[e].provider = eraser[e].provider
             /\ \A g \in Erasers \ {e} : eraser'[g] = eraser[g]
  BY <1>3, EraserTypes DEF EraserMoves, TypeOK, Eraser
<1>4. f \in Files /\ Known(f) BY <1>2 DEF Erasing
<1>5. BeingErased(f) BY DEF BeingErased
<1>6. /\ row'[f].status # "absent" /\ (~Live(f) => row'[f].status # "live")
      /\ f \notin crossed' => row'[f].provider = row[f].provider /\ f \notin crossed
  BY <1>4, <1>5, HeldStays
<1>7. f \notin crossed' => eraser[e].provider = row'[f].provider BY <1>2, <1>6 DEF Erasing
<1>8. CASE RemoveObject(e)
  <2>1. ~Live(f) BY <1>2, <1>8 DEF RemoveObject, Erasing
  <2>2. f \in crossed' \/ <<f, row'[f].provider>> \notin object' BY <1>7, <1>8 DEF RemoveObject
  <2>3. EraserMoves(e, "removed") BY <1>8 DEF RemoveObject
  <2>4. eraser'[e].phase = "removed" /\ eraser'[e].file = f
        /\ eraser'[e].provider = eraser[e].provider
        /\ \A g \in Erasers \ {e} : eraser'[g] = eraser[g]
    BY <1>3, <2>3
  <2> HIDE DEF f
  <2> QED BY <1>4, <1>6, <1>7, <2>1, <2>2, <2>4, EraserFrame
<1>9. CASE RemoveFails(e) \/ MarkThrows(e)
  <2>1. ~Live(f) BY <1>2, <1>9 DEF RemoveFails, MarkThrows, Erasing
  <2>3. EraserMoves(e, "failed") BY <1>9 DEF RemoveFails, AfterFailure, MarkThrows
  <2>4. eraser'[e].phase = "failed" /\ eraser'[e].file = f
        /\ eraser'[e].provider = eraser[e].provider
        /\ \A g \in Erasers \ {e} : eraser'[g] = eraser[g]
    BY <1>3, <2>3
  <2> HIDE DEF f
  <2> QED BY <1>4, <1>6, <1>7, <2>1, <2>4, EraserFrame
<1>10. CASE MarkStorageDeleted(e) \/ RecordFailure(e)
  <2>1. \A g \in Erasers : eraser'[g] = eraser[g] \/ eraser'[g] = Resting
    BY <1>10 DEF MarkStorageDeleted, RecordFailure, TypeOK
  <2> QED BY <2>1, EraserFrame
<1> QED BY <1>8, <1>9, <1>10 DEF EraseStep

LEMMA ErasersStep == Inv /\ TypeOK' /\ Onward /\ [Next]_vars => EraserInv'
<1> SUFFICES ASSUME Inv, TypeOK', Onward, [Next]_vars PROVE EraserInv'
  OBVIOUS
<1> USE DEF Inv
<1>1. ASSUME UNCHANGED eraser PROVE EraserInv'
  BY <1>1, EraserFrame
<1>2. ASSUME NEW d \in Deleters, NEW f \in Files, DeleteRead(d, f) PROVE EraserInv'
  <2> DEFINE q == [phase |-> "read", file |-> f, provider |-> row[f].provider]
  <2>1. \A e \in Erasers : eraser'[e] = IF e = d THEN q ELSE eraser[e]
    BY <1>2 DEF DeleteRead, TypeOK
  <2>2. row' = row /\ Live(f) BY <1>2 DEF DeleteRead
  <2> QED BY <2>1, <2>2, EraserFrame DEF Live
<1>3. ASSUME NEW d \in Deleters, SoftDelete(d) PROVE EraserInv'
  <2> DEFINE f == eraser[d].file
  <2>d. d \in Erasers BY DEF Erasers
  <2>1. Erasing(eraser[d]) BY <1>3, <2>d DEF SoftDelete, EraserInv, Resting
  <2>2. /\ f \in Files /\ Known(f) /\ (f \notin crossed => eraser[d].provider = row[f].provider)
    BY <2>1 DEF Erasing
  <2>3. /\ eraser'[d].phase = "erasing" /\ eraser'[d].file = f
        /\ eraser'[d].provider = eraser[d].provider
        /\ \A g \in Erasers \ {d} : eraser'[g] = eraser[g]
    BY <1>3, <2>d, EraserTypes DEF SoftDelete, EraserMoves, TypeOK, Eraser
  <2>4. row'[f].status = "deleted" /\ row'[f].provider = row[f].provider /\ crossed' = crossed
    BY <1>3, <2>2, FieldTypes DEF SoftDelete, TypeOK, Row
  <2> HIDE DEF f
  <2> QED BY <2>2, <2>3, <2>4, EraserFrame
<1>4. ASSUME NEW l \in Listing, NEW e \in Erasers, Current(l), ~Live(l.file) \/ PurgeFile,
             row'[l.file].status # "live",
             eraser' = [eraser EXCEPT ![e] = [phase |-> "erasing", file |-> l.file,
                                              provider |-> l.provider]],
             crossed' = crossed, \A f \in Files : row'[f].provider = row[f].provider
      PROVE  EraserInv'
  <2>1. l.file \in Files BY DEF Listing
  <2>2. row'[l.file].status # "absent" BY <1>4, <2>1 DEF Current, Onward
  <2> DEFINE q == [phase |-> "erasing", file |-> l.file, provider |-> l.provider]
  <2>3. \A g \in Erasers : eraser'[g] = IF g = e THEN q ELSE eraser[g] BY <1>4 DEF TypeOK
  <2>4. l.file \notin crossed' => l.provider = row'[l.file].provider BY <1>4, <2>1 DEF Current
  <2> QED BY <1>4, <2>1, <2>2, <2>3, <2>4, EraserFrame
<1>5. ASSUME NEW f \in Files, ReconcileRow(f) PROVE EraserInv'
  <2>1. PICK l \in listed :
          eraser' = [eraser EXCEPT ![Reconciler] = [phase |-> "erasing", file |-> l.file,
                                                    provider |-> l.provider]]
    BY <1>5 DEF ReconcileRow
  <2>2. l \in Listing /\ Current(l) /\ ~Live(l.file) BY DEF TypeOK, ListInv
  <2>3. row' = row /\ crossed' = crossed BY <1>5 DEF ReconcileRow
  <2> QED BY <1>4, <2>1, <2>2, <2>3 DEF Erasers, Live
<1>6. ASSUME PurgeFile PROVE EraserInv'
  <2>1. PICK l \in purge.files :
          /\ row' = [row EXCEPT ![l.file].status = IF Live(l.file) THEN "deleted" ELSE @]
          /\ eraser' = [eraser EXCEPT ![Purger] = [phase |-> "erasing", file |-> l.file,
                                                   provider |-> l.provider]]
    BY <1>6 DEF PurgeFile
  <2>2. l \in Listing /\ Current(l) BY DEF TypeOK, ListInv, Purge
  <2>3. l.file \in Files BY <2>2 DEF Listing
  <2>4. row'[l.file].status # "live" /\ \A f \in Files : row'[f].provider = row[f].provider
    BY <2>1, <2>3, FieldTypes DEF TypeOK, Row, Live
  <2>5. crossed' = crossed BY <1>6 DEF PurgeFile
  <2> QED BY <1>4, <1>6, <2>1, <2>2, <2>4, <2>5 DEF Erasers
<1>7. ASSUME NEW e \in Erasers, eraser' = [eraser EXCEPT ![e] = Resting] PROVE EraserInv'
  <2>1. \A g \in Erasers : eraser'[g] = eraser[g] \/ eraser'[g] = Resting BY <1>7 DEF TypeOK
  <2> QED BY <2>1, EraserFrame
<1>8. ASSUME NEW e \in Erasers, EraseStep(e) PROVE EraserInv'
  BY <1>8, EraseStepInv
<1>9. ASSUME PurgeStep PROVE EraserInv'
  BY <1>9, <1>1, <1>6, <1>7 DEF PurgeStep, RegisterPurgeJob, ClaimPurgeJob, ListForPurge,
     PurgeContract, CompletePurgeJob, FailPurgeJob, PurgeDies, Erasers
<1>10. ASSUME NEW f \in Files, UploadStep(f) PROVE EraserInv'
  BY <1>10, <1>1 DEF UploadStep, OpenUpload, PutObject, InsertRow, InsertFails, Compensate,
     UploadDies
<1>11. ASSUME \/ DeleteContract \/ RetentionElapses \/ ReconcileScan
              \/ MigrateScan \/ MigrateDies \/ FlipProvider \/ UNCHANGED vars
              \/ \E f \in Files : CopyToS3(f)
       PROVE  EraserInv'
  BY <1>11, <1>1 DEF DeleteContract, RetentionElapses, ReconcileScan, MigrateScan, MigrateDies,
     FlipProvider, CopyToS3, vars
<1>12. ASSUME ReconcileDies \/ \E d \in Deleters : DeleterEnds(d) PROVE EraserInv'
  BY <1>12, <1>7 DEF ReconcileDies, DeleterEnds, Erasers
<1> QED
  BY <1>2, <1>3, <1>5, <1>8, <1>9, <1>10, <1>11, <1>12 DEF Next

(* What a run has listed only shrinks, or has just been read.              *)
LEMMA ListFrame ==
    ASSUME Inv, Onward, listed' \subseteq listed, purge'.files \subseteq purge.files
    PROVE  ListInv'
<1> USE DEF Inv
<1>1. ASSUME NEW l \in Listing, Current(l), BeingErased(l.file)
      PROVE  /\ row'[l.file].status # "absent"
             /\ ~Live(l.file) => row'[l.file].status # "live"
             /\ l.file \notin crossed' => l.provider = row'[l.file].provider
  <2>1. l.file \in Files BY DEF Listing
  <2> QED BY <1>1, <2>1, HeldStays DEF Current
<1>2. \A l \in listed \cup purge.files : l \in Listing /\ BeingErased(l.file)
  BY DEF TypeOK, Purge, BeingErased
<1>3. ASSUME NEW l \in listed
      PROVE  /\ row'[l.file].status # "absent" /\ row'[l.file].status # "live"
             /\ l.file \notin crossed' => l.provider = row'[l.file].provider
  BY <1>1, <1>2 DEF ListInv
<1>4. ASSUME NEW l \in purge.files
      PROVE  /\ row'[l.file].status # "absent"
             /\ l.file \notin crossed' => l.provider = row'[l.file].provider
  BY <1>1, <1>2 DEF ListInv
<1> QED BY <1>3, <1>4 DEF ListInv, Current, Known, Live

LEMMA ListsStep == Inv /\ TypeOK' /\ Onward /\ [Next]_vars => ListInv'
<1> SUFFICES ASSUME Inv, TypeOK', Onward, [Next]_vars PROVE ListInv'
  OBVIOUS
<1> USE DEF Inv
<1>1. ASSUME UNCHANGED listed, purge' = purge \/ purge' = NoPurge PROVE ListInv'
  BY <1>1, ListFrame DEF NoPurge
<1>2. CASE ReconcileScan
  <2>1. UNCHANGED <<row, crossed, purge>> BY <1>2 DEF ReconcileScan
  <2>2. ASSUME NEW l \in listed'
        PROVE  Known(l.file) /\ ~Live(l.file) /\ l.provider = row[l.file].provider
    <3>1. PICK f \in Files : Reconcilable(f) /\ l = [file |-> f, provider |-> row[f].provider]
      BY <1>2 DEF ReconcileScan
    <3> QED BY <3>1 DEF Reconcilable, Known, Live
  <2>3. \A l \in listed' : /\ row'[l.file].status # "absent" /\ row'[l.file].status # "live"
                           /\ l.provider = row'[l.file].provider
    BY <2>1, <2>2 DEF Known, Live
  <2>4. \A l \in purge'.files : /\ row'[l.file].status # "absent"
                                /\ l.file \notin crossed' => l.provider = row'[l.file].provider
    BY <2>1 DEF ListInv, Current, Known
  <2> QED BY <2>3, <2>4 DEF ListInv, Current, Known, Live
<1>3. CASE ListForPurge
  <2>1. UNCHANGED <<row, crossed, listed>> BY <1>3 DEF ListForPurge
  <2>2. purge'.files = {[file |-> f, provider |-> row[f].provider] :
                           f \in {g \in Files : InTable(g) /\ ~row[g].confirmed}}
    BY <1>3 DEF ListForPurge, TypeOK, Purge
  <2>3. ASSUME NEW l \in purge'.files
        PROVE  row'[l.file].status # "absent" /\ l.provider = row'[l.file].provider
    <3>1. PICK f \in Files : InTable(f) /\ l = [file |-> f, provider |-> row[f].provider]
      BY <2>2
    <3> QED BY <2>1, <3>1 DEF InTable
  <2>4. \A l \in listed' : /\ row'[l.file].status # "absent" /\ row'[l.file].status # "live"
                           /\ l.file \notin crossed' => l.provider = row'[l.file].provider
    BY <2>1 DEF ListInv, Current, Known, Live
  <2> QED BY <2>3, <2>4 DEF ListInv, Current, Known, Live
<1>4. CASE PurgeFile
  <2>1. listed' = listed /\ purge'.files \subseteq purge.files BY <1>4 DEF PurgeFile, TypeOK, Purge
  <2> QED BY <2>1, ListFrame
<1>5. CASE PurgeContract
  <2>1. listed' = listed /\ purge'.files \subseteq purge.files
    BY <1>5 DEF PurgeContract, TypeOK, Purge
  <2> QED BY <2>1, ListFrame
<1>6. CASE ClaimPurgeJob
  <2>1. listed' = listed /\ purge'.files \subseteq purge.files
    BY <1>6 DEF ClaimPurgeJob, NoPurge
  <2> QED BY <2>1, ListFrame
<1>7. ASSUME PurgeStep PROVE ListInv'
  BY <1>7, <1>1, <1>3, <1>4, <1>5, <1>6 DEF PurgeStep, RegisterPurgeJob, CompletePurgeJob,
     FailPurgeJob, PurgeDies
<1>8. ASSUME NEW f \in Files, ReconcileRow(f) PROVE ListInv'
  <2>1. listed' \subseteq listed /\ purge' = purge BY <1>8 DEF ReconcileRow
  <2> QED BY <2>1, ListFrame
<1>9. CASE ReconcileDies
  <2>1. listed' \subseteq listed /\ purge' = purge BY <1>9 DEF ReconcileDies
  <2> QED BY <2>1, ListFrame
<1>10. ASSUME NEW e \in Erasers, EraseStep(e) PROVE ListInv'
  <2>1. listed' = listed /\ purge'.files = purge.files
    BY <1>10 DEF EraseStep, RemoveObject, RemoveFails, MarkStorageDeleted, MarkThrows,
       RecordFailure, TypeOK, Purge
  <2> QED BY <2>1, ListFrame
<1>11. ASSUME NEW f \in Files, UploadStep(f) PROVE ListInv'
  BY <1>11, <1>1 DEF UploadStep, OpenUpload, PutObject, InsertRow, InsertFails, Compensate,
     UploadDies
<1>12. ASSUME \/ DeleteContract \/ RetentionElapses
              \/ MigrateScan \/ MigrateDies \/ FlipProvider \/ UNCHANGED vars
              \/ \E f \in Files : CopyToS3(f)
              \/ \E d \in Deleters : SoftDelete(d) \/ DeleterEnds(d) \/ \E f \in Files : DeleteRead(d, f)
       PROVE  ListInv'
  BY <1>12, <1>1 DEF DeleteContract, RetentionElapses, MigrateScan, MigrateDies,
     FlipProvider, CopyToS3, SoftDelete, DeleterEnds, DeleteRead, vars
<1> QED BY <1>2, <1>7, <1>8, <1>9, <1>10, <1>11, <1>12 DEF Next

(* The migration holds on to what it has, or takes up what it sees.        *)
LEMMA MigrateFrame ==
    ASSUME Inv, TypeOK', Onward, migrating'.files \subseteq migrating.files,
           migrating'.copied \in {migrating.copied, NoFile}, \A f \in Files : ~Flipped(f)
    PROVE  MigrateInv'
<1> USE DEF Inv
<1>1. migrating.files \subseteq Files /\ migrating.copied \in Files \cup {NoFile} BY DEF TypeOK
<1>2. migrating'.copied \notin migrating'.files BY <1>1 DEF MigrateInv
<1>3. ASSUME NEW f \in Files, f \in migrating'.files \/ f = migrating'.copied
      PROVE  row'[f].status # "absent" /\ row'[f].provider = "local"
  <2>1. Known(f) /\ row[f].provider = "local" BY <1>1, <1>3 DEF MigrateInv
  <2> QED BY <2>1 DEF Onward
<1>4. ASSUME NEW f \in Files, f = migrating'.copied, row'[f].status = "live"
      PROVE  f \in lost' \/ <<f, "s3">> \in object'
  <2>1. f = migrating.copied /\ Known(f) BY <1>4 DEF MigrateInv
  <2>2. Live(f) BY <1>4, <2>1 DEF Onward
  <2>3. f \in lost \/ <<f, "s3">> \in object BY <2>1, <2>2 DEF MigrateInv
  <2>4. upload[f].phase = "rejected" => f \in lost BY <2>1 DEF UploadInv
  <2> QED BY <2>2, <2>3, <2>4 DEF Onward, Providers
<1> QED BY <1>2, <1>3, <1>4 DEF MigrateInv, Known, Live

LEMMA MigrationsStep == Inv /\ TypeOK' /\ Onward /\ [Next]_vars => MigrateInv'
<1> SUFFICES ASSUME Inv, TypeOK', Onward, [Next]_vars PROVE MigrateInv'
  OBVIOUS
<1> USE DEF Inv
<1>m. migrating.files \subseteq Files /\ migrating.copied \in Files \cup {NoFile} BY DEF TypeOK
<1>1. CASE MigrateScan
  <2>1. migrating'.copied = NoFile /\ UNCHANGED row
        /\ migrating'.files = {f \in Files : Live(f) /\ row[f].provider = "local"}
    BY <1>1 DEF MigrateScan
  <2> QED BY <2>1 DEF MigrateInv, Known, Live
<1>2. ASSUME NEW f \in Files, CopyToS3(f) PROVE MigrateInv'
  <2>1. migrating'.files = migrating.files \ {f} /\ UNCHANGED <<row, lost>> /\ f \in migrating.files
    BY <1>2 DEF CopyToS3
  <2>2. migrating'.copied = NoFile \/ (migrating'.copied = f /\ <<f, "s3">> \in object')
    BY <1>2 DEF CopyToS3
  <2>3. Known(f) /\ row[f].provider = "local" BY <2>1 DEF MigrateInv
  <2> QED BY <1>m, <2>1, <2>2, <2>3 DEF MigrateInv, Known, Live
<1>3. CASE FlipProvider
  <2> DEFINE g == migrating.copied
  <2>1. migrating'.files = migrating.files /\ migrating'.copied = NoFile /\ UNCHANGED object
    BY <1>3 DEF FlipProvider, TypeOK
  <2>2. \A f \in Files \ {g} : row'[f] = row[f] BY <1>3 DEF FlipProvider, TypeOK
  <2>3. g \notin migrating.files BY DEF MigrateInv
  <2> QED BY <1>m, <2>1, <2>2, <2>3 DEF MigrateInv, Known, Live
<1>4. ASSUME UNCHANGED migrating PROVE MigrateInv'
  <2>1. \A f \in Files : ~Flipped(f) BY <1>4 DEF Flipped
  <2> QED BY <1>4, <2>1, MigrateFrame
<1>5. CASE MigrateDies
  <2>1. \A f \in Files : ~Flipped(f)
    BY <1>5 DEF Flipped, MigrateDies
  <2> QED BY <1>5, <1>m, <2>1, MigrateFrame DEF MigrateDies
<1>6. ASSUME NEW f \in Files, UploadStep(f) PROVE MigrateInv'
  BY <1>6, <1>4 DEF UploadStep, OpenUpload, PutObject, InsertRow, InsertFails, Compensate,
     UploadDies
<1>7. ASSUME NEW e \in Erasers, EraseStep(e) PROVE MigrateInv'
  BY <1>7, <1>4 DEF EraseStep, RemoveObject, RemoveFails, MarkStorageDeleted, MarkThrows,
     RecordFailure
<1>8. ASSUME PurgeStep PROVE MigrateInv'
  BY <1>8, <1>4 DEF PurgeStep, RegisterPurgeJob, ClaimPurgeJob, ListForPurge, PurgeFile,
     PurgeContract, CompletePurgeJob, FailPurgeJob, PurgeDies
<1>9. ASSUME \/ DeleteContract \/ RetentionElapses \/ ReconcileScan \/ ReconcileDies
             \/ UNCHANGED vars
             \/ \E f \in Files : ReconcileRow(f)
             \/ \E d \in Deleters : SoftDelete(d) \/ DeleterEnds(d) \/ \E f \in Files : DeleteRead(d, f)
      PROVE  MigrateInv'
  BY <1>9, <1>4 DEF DeleteContract, RetentionElapses, ReconcileScan, ReconcileDies,
     ReconcileRow, SoftDelete, DeleterEnds, DeleteRead, vars
<1> QED BY <1>1, <1>2, <1>3, <1>5, <1>6, <1>7, <1>8, <1>9 DEF Next

(* A purge that has nothing pending erased every row it has passed.        *)
LEMMA PurgeFrame ==
    ASSUME Inv, Onward, Over => Over', UNCHANGED job, purge'.phase = purge.phase,
           purge.pending => purge'.pending,
           \A l \in purge.files : l \in purge'.files \/ eraser'[Purger].file = l.file,
           \A f \in Files : eraser[Purger].file = f =>
              eraser'[Purger].file = f \/ purge'.pending \/ row'[f].confirmed
    PROVE  PurgeInv'
<1> USE DEF Inv
<1>1. ASSUME purge.phase = "erasing", ~purge'.pending, NEW f \in Files,
             row'[f].status \in {"live", "deleted"}
      PROVE  \/ \E l \in purge'.files : l.file = f
             \/ eraser'[Purger].file = f
             \/ row'[f].confirmed
  <2>1. ~Insertion(f) BY <1>1 DEF PurgeInv, UploadInv, Insertion
  <2>2. row[f].status \in {"live", "deleted"}
    BY <1>1, <2>1, FieldTypes DEF Onward, Known
  <2>3. (\E l \in purge.files : l.file = f) \/ eraser[Purger].file = f \/ row[f].confirmed
    BY <1>1, <2>2 DEF PurgeInv, InTable
  <2> QED BY <1>1, <2>3 DEF Onward
<1>2. job'.status # "absent" \/ purge'.phase # "idle" => Over' BY DEF PurgeInv
<1> QED BY <1>1, <1>2 DEF PurgeInv, InTable

LEMMA PurgesStep == Inv /\ TypeOK' /\ Onward /\ [Next]_vars => PurgeInv'
<1> SUFFICES ASSUME Inv, TypeOK', Onward, [Next]_vars PROVE PurgeInv'
  OBVIOUS
<1> USE DEF Inv
<1>e. Purger \in Erasers /\ Reconciler \in Erasers /\ \A d \in Deleters : d \in Erasers /\ d # Purger
  BY DEF Erasers
<1>1. ASSUME Over => Over', UNCHANGED <<job, purge>>, eraser'[Purger] = eraser[Purger]
      PROVE  PurgeInv'
  BY <1>1, PurgeFrame
<1>2. ASSUME NEW e \in Erasers, EraseStep(e) PROVE PurgeInv'
  <2>1. UNCHANGED <<contract, job>> /\ (Over => Over')
    BY <1>2 DEF EraseStep, RemoveObject, RemoveFails, MarkStorageDeleted, MarkThrows,
       RecordFailure, Over
  <2>2. purge'.phase = purge.phase /\ purge'.files = purge.files /\ (purge.pending => purge'.pending)
    BY <1>2 DEF EraseStep, RemoveObject, RemoveFails, MarkStorageDeleted, MarkThrows,
       RecordFailure, TypeOK, Purge
  <2>3. CASE RemoveObject(e) \/ RemoveFails(e) \/ MarkThrows(e)
    <3>1. PICK phase : EraserMoves(e, phase)
      BY <2>3 DEF RemoveObject, RemoveFails, MarkThrows
    <3>2. eraser'[Purger].file = eraser[Purger].file
      BY <1>e, <3>1, EraserTypes DEF EraserMoves, TypeOK, Eraser
    <3> QED BY <2>1, <2>2, <3>2, PurgeFrame
  <2>4. CASE MarkStorageDeleted(e)
    <3>1. e = Purger \/ eraser'[Purger] = eraser[Purger]
      BY <2>4 DEF MarkStorageDeleted, TypeOK
    <3>2. \A f \in Files : eraser[e].file = f => row'[f].confirmed
      BY <2>4, FieldTypes DEF MarkStorageDeleted, TypeOK, Row
    <3> QED BY <2>1, <2>2, <3>1, <3>2, PurgeFrame
  <2>5. CASE RecordFailure(e)
    <3>1. CASE e = Purger
      <4>1. purge'.pending BY <2>5, <3>1 DEF RecordFailure, TypeOK, Purge
      <4> QED BY <2>1, <2>2, <4>1, PurgeFrame
    <3>2. CASE e # Purger
      <4>1. eraser'[Purger] = eraser[Purger] BY <1>e, <2>5, <3>2 DEF RecordFailure, TypeOK
      <4> QED BY <2>1, <2>2, <4>1, PurgeFrame
    <3> QED BY <3>1, <3>2
  <2> QED BY <1>2, <2>3, <2>4, <2>5 DEF EraseStep
<1>3. ASSUME RegisterPurgeJob \/ ClaimPurgeJob \/ CompletePurgeJob \/ FailPurgeJob \/ PurgeDies
      PROVE  PurgeInv'
  <2>1. UNCHANGED contract /\ Over
    BY <1>3 DEF RegisterPurgeJob, ClaimPurgeJob, CompletePurgeJob, FailPurgeJob, PurgeDies,
       PurgeInv, Over
  <2>2. (purge' = purge /\ eraser' = eraser /\ row' = row) \/ purge'.phase # "erasing"
    BY <1>3 DEF RegisterPurgeJob, ClaimPurgeJob, CompletePurgeJob, FailPurgeJob, PurgeDies, NoPurge
  <2> QED BY <2>1, <2>2 DEF PurgeInv, Over, InTable
<1>4. CASE ListForPurge
  <2>1. UNCHANGED <<contract, row, eraser>> /\ Over
    BY <1>4 DEF ListForPurge, PurgeInv
  <2>2. purge'.files = {[file |-> f, provider |-> row[f].provider] :
                           f \in {g \in Files : InTable(g) /\ ~row[g].confirmed}}
    BY <1>4 DEF ListForPurge, TypeOK, Purge
  <2>3. ASSUME NEW f \in Files, InTable(f), ~row[f].confirmed
        PROVE  \E l \in purge'.files : l.file = f
    <3>1. [file |-> f, provider |-> row[f].provider] \in purge'.files BY <2>2, <2>3
    <3> QED BY <3>1
  <2> QED BY <2>1, <2>3 DEF PurgeInv, Over, InTable
<1>5. CASE PurgeFile
  <2>1. PICK l \in purge.files :
          /\ purge' = [purge EXCEPT !.files = @ \ {l}]
          /\ eraser' = [eraser EXCEPT ![Purger] = [phase |-> "erasing", file |-> l.file,
                                                   provider |-> l.provider]]
    BY <1>5 DEF PurgeFile
  <2>2. /\ purge'.phase = purge.phase /\ purge'.pending = purge.pending
        /\ purge'.files = purge.files \ {l}
    BY <2>1 DEF TypeOK, Purge
  <2>3. eraser'[Purger].file = l.file BY <1>e, <2>1 DEF TypeOK
  <2>4. \A f \in Files : eraser[Purger].file # f BY <1>5 DEF PurgeFile, Resting
  <2>5. UNCHANGED <<job, contract>> BY <1>5 DEF PurgeFile
  <2> QED BY <2>2, <2>3, <2>4, <2>5, PurgeFrame DEF Over
<1>6. CASE PurgeContract
  <2>1. purge'.phase = "purged" /\ contract' = "gone" BY <1>6 DEF PurgeContract, TypeOK, Purge
  <2> QED BY <2>1 DEF PurgeInv, Over
<1>7. ASSUME PurgeStep PROVE PurgeInv'
  BY <1>7, <1>3, <1>4, <1>5, <1>6 DEF PurgeStep
<1>8. ASSUME NEW f \in Files, UploadStep(f) PROVE PurgeInv'
  BY <1>8, <1>1 DEF UploadStep, OpenUpload, PutObject, InsertRow, InsertFails, Compensate,
     UploadDies, Over
<1>9. ASSUME DeleteContract \/ RetentionElapses PROVE PurgeInv'
  BY <1>9, <1>1 DEF DeleteContract, RetentionElapses, Over
<1>10. ASSUME NEW d \in Deleters, SoftDelete(d) \/ DeleterEnds(d) \/ \E f \in Files : DeleteRead(d, f)
       PROVE  PurgeInv'
  <2>1. eraser'[Purger] = eraser[Purger]
    BY <1>10, <1>e DEF SoftDelete, DeleterEnds, DeleteRead, EraserMoves, TypeOK
  <2> QED BY <1>10, <1>1, <2>1 DEF SoftDelete, DeleterEnds, DeleteRead, Over
<1>11. ASSUME ReconcileDies \/ \E f \in Files : ReconcileRow(f) PROVE PurgeInv'
  <2>1. eraser'[Purger] = eraser[Purger]
    BY <1>11, <1>e DEF ReconcileDies, ReconcileRow, TypeOK
  <2> QED BY <1>11, <1>1, <2>1 DEF ReconcileDies, ReconcileRow, Over
<1>12. ASSUME \/ ReconcileScan \/ MigrateScan \/ MigrateDies \/ FlipProvider \/ UNCHANGED vars
              \/ \E f \in Files : CopyToS3(f)
       PROVE  PurgeInv'
  BY <1>12, <1>1 DEF ReconcileScan, MigrateScan, MigrateDies, FlipProvider, CopyToS3, vars, Over
<1> QED BY <1>2, <1>7, <1>8, <1>9, <1>10, <1>11, <1>12 DEF Next

------------------------------------------------------------------------------
LEMMA InvInit == Init => Inv
<1> SUFFICES ASSUME Init PROVE Inv
  OBVIOUS
<1> USE DEF Init
<1>1. TypeOK BY RestingType, NoPurgeType DEF TypeOK, Row, Upload, Job, Providers
<1>2. UploadInv /\ RowInv
  BY DEF UploadInv, RowInv, Known, Over, Live
<1>3. EraserInv BY DEF EraserInv
<1>4. ListInv /\ MigrateInv /\ PurgeInv BY DEF ListInv, MigrateInv, PurgeInv, NoPurge, Over
<1> QED BY <1>1, <1>2, <1>3, <1>4 DEF Inv

LEMMA InvStep == Inv /\ [Next]_vars => Inv'
<1> SUFFICES ASSUME Inv, [Next]_vars PROVE Inv'
  OBVIOUS
<1>1. TypeOK' BY TypeStep DEF Inv
<1>2. Onward BY OnwardStep
<1> QED
  BY <1>1, <1>2, UploadsStep, RowStep, ErasersStep, ListsStep, MigrationsStep, PurgesStep DEF Inv

(* The inductive invariant holds in every reachable state.                 *)
THEOREM InvCorrect == Spec => []Inv
BY InvInit, InvStep, PTL DEF Spec

(* Every reachable state is well typed, for any files, deleters and        *)
(* attempts.                                                               *)
THEOREM TypeCorrect == Spec => []TypeOK
<1>1. Inv => TypeOK BY DEF Inv
<1> QED BY <1>1, InvCorrect, PTL

(* uploadContractFile, deleteContractFile, files:reconcile, retention:purge *)
(* and the migration together keep every live file readable.               *)
THEOREM LiveFilesReadableHolds == Spec => []LiveFilesReadable
<1>1. Inv => LiveFilesReadable BY DEF Inv, RowInv, LiveFilesReadable
<1> QED BY <1>1, InvCorrect, PTL

(* markStorageDeleted and contract.delete come after the object is gone.   *)
THEOREM ErasedIsGoneHolds == Spec => []ErasedIsGone
<1>1. Inv => ErasedIsGone BY DEF Inv, RowInv, ErasedIsGone
<1> QED BY <1>1, InvCorrect, PTL

------------------------------------------------------------------------------
(* The life of a file.                                                     *)

(* Only the run that is erasing ends the contract's life, and once.        *)
ErasingElapsed == purge.phase = "erasing" => contract = "elapsed"

LEMMA ErasingElapsedStep == Inv /\ ErasingElapsed /\ [Next]_vars => ErasingElapsed'
<1> SUFFICES ASSUME Inv, ErasingElapsed, [Next]_vars, purge'.phase = "erasing"
             PROVE  contract' = "elapsed"
  BY DEF ErasingElapsed
<1> USE DEF ErasingElapsed
<1>1. CASE ListForPurge
  <2>1. contract \in {"live", "deleted", "elapsed", "gone"} BY DEF Inv, TypeOK
  <2> QED BY <1>1, <2>1 DEF ListForPurge, Inv, PurgeInv, Over
<1>2. CASE PurgeContract BY <1>2 DEF PurgeContract, Inv, TypeOK, Purge
<1>3. ASSUME RegisterPurgeJob \/ ClaimPurgeJob \/ CompletePurgeJob \/ FailPurgeJob \/ PurgeDies
      PROVE  contract' = "elapsed"
  BY <1>3 DEF RegisterPurgeJob, ClaimPurgeJob, CompletePurgeJob, FailPurgeJob, PurgeDies, NoPurge
<1>4. CASE PurgeFile BY <1>4 DEF PurgeFile, Inv, TypeOK, Purge
<1>5. CASE \E e \in Erasers : EraseStep(e)
  BY <1>5 DEF EraseStep, RemoveObject, RemoveFails, MarkStorageDeleted, MarkThrows, RecordFailure,
     Inv, TypeOK, Purge
<1>6. ASSUME purge' = purge PROVE contract = "elapsed" => contract' = "elapsed"
  BY <1>6
     DEF Next, UploadStep, EraseStep, PurgeStep, vars, DeleteContract, RetentionElapses,
         OpenUpload, PutObject, InsertRow, InsertFails, Compensate, UploadDies,
         RemoveObject, RemoveFails, MarkStorageDeleted, MarkThrows, RecordFailure,
         DeleteRead, SoftDelete, DeleterEnds, ReconcileScan, ReconcileRow, ReconcileDies,
         RegisterPurgeJob, ClaimPurgeJob, ListForPurge, PurgeFile, PurgeContract,
         CompletePurgeJob, FailPurgeJob, PurgeDies, MigrateScan, CopyToS3, FlipProvider,
         MigrateDies, Inv, TypeOK, Purge
<1>7. CASE purge' = purge BY <1>6, <1>7
<1> QED
  BY <1>1, <1>2, <1>3, <1>4, <1>5, <1>7
     DEF Next, UploadStep, PurgeStep, vars, DeleteContract, RetentionElapses,
         OpenUpload, PutObject, InsertRow, InsertFails, Compensate, UploadDies,
         DeleteRead, SoftDelete, DeleterEnds, ReconcileScan, ReconcileRow, ReconcileDies,
         MigrateScan, CopyToS3, FlipProvider, MigrateDies

LEMMA ErasingElapsedCorrect == Spec => []ErasingElapsed
<1>1. Init => ErasingElapsed BY DEF Init, NoPurge, ErasingElapsed
<1> QED BY <1>1, ErasingElapsedStep, InvCorrect, PTL DEF Spec

(* The stage a row q tells of.                                             *)
StageOf(q) == IF q.status = "deleted" /\ q.confirmed THEN "erased" ELSE q.status

LEMMA StageMoves ==
    ASSUME TypeOK, NEW f \in Files, NEW q, row' = [row EXCEPT ![f] = q]
    PROVE  Stage[f] = StageOf(row[f]) /\ Stage' = [Stage EXCEPT ![f] = StageOf(q)]
<1>1. \A g \in Files : row'[g] = IF g = f THEN q ELSE row[g] BY DEF TypeOK
<1>2. Stage = [g \in Files |-> StageOf(row[g])] BY DEF Stage, StageOf
<1>3. Stage' = [g \in Files |-> StageOf(row'[g])] BY DEF Stage, StageOf
<1> QED BY <1>1, <1>2, <1>3

(* A row that changes without a new stage.                                 *)
LEMMA StageStays ==
    ASSUME TypeOK, NEW f \in Files, NEW q, row' = [row EXCEPT ![f] = q],
           StageOf(q) = StageOf(row[f])
    PROVE  Stage' = Stage
<1>1. Stage[f] = StageOf(q) /\ Stage' = [Stage EXCEPT ![f] = StageOf(q)] BY StageMoves
<1>2. Stage = [g \in Files |-> Stage[g]] BY DEF Stage
<1> QED BY <1>1, <1>2

(* No file is added after the retention window.                            *)
LEMMA InsertAdds ==
    ASSUME Inv, NEW f \in Files, Inserted(f), upload[f].phase = "written", UNCHANGED contract
    PROVE  Retained!Add(f)
<1> USE DEF Inv
<1> DEFINE q == [row[f] EXCEPT !.status = "live", !.provider = upload[f].provider]
<1>1. q.status = "live" BY FieldTypes DEF Row
<1>2. row' = [row EXCEPT ![f] = q] BY DEF Inserted, TypeOK
<1> HIDE DEF q
<1>3. row[f].status = "absent" BY DEF UploadInv, Known
<1>4. Stage[f] = "absent" /\ Stage' = [Stage EXCEPT ![f] = "live"]
  <2>1. StageOf(row[f]) = "absent" /\ StageOf(q) = "live" BY <1>1, <1>3 DEF StageOf
  <2> QED BY <1>2, <2>1, StageMoves
<1>5. contract \in {"live", "deleted"} BY DEF UploadInv, Over, TypeOK
<1> QED BY <1>4, <1>5 DEF Retained!Add, Retained!Move

(* Deletions, by a user or by the purge.                                   *)
LEMMA DeletionDeletes ==
    ASSUME Inv, NEW f \in Files, NEW q, row' = [row EXCEPT ![f] = q], Live(f),
           q.status = "deleted", q.confirmed = row[f].confirmed, UNCHANGED contract
    PROVE  Retained!Delete(f)
<1>1. row[f].status = "live" /\ ~q.confirmed BY FieldTypes DEF Inv, RowInv, Live
<1>2. Stage[f] = "live" /\ Stage' = [Stage EXCEPT ![f] = "deleted"]
  <2>1. StageOf(row[f]) = "live" /\ StageOf(q) = "deleted" BY <1>1 DEF StageOf
  <2> QED BY <2>1, StageMoves DEF Inv
<1> QED BY <1>2 DEF Retained!Delete, Retained!Move

LEMMA MarkErases ==
    ASSUME Inv, NEW e \in Erasers, MarkStorageDeleted(e)
    PROVE  (\E f \in Files : Retained!Erase(f)) \/ UNCHANGED Retained!vars
<1> USE DEF Inv
<1> DEFINE f == eraser[e].file
           q == [row[f] EXCEPT !.confirmed = TRUE]
<1>1. f \in Files /\ ~Live(f) /\ InTable(f) /\ UNCHANGED contract
  BY DEF MarkStorageDeleted, EraserInv, Erasing, Resting
<1>2. q.status = row[f].status /\ q.confirmed = TRUE BY <1>1, FieldTypes DEF Row
<1>3. row' = [row EXCEPT ![f] = q] BY <1>1 DEF MarkStorageDeleted, TypeOK
<1>4. row[f].status = "deleted" /\ row[f].confirmed \in BOOLEAN
  BY <1>1, FieldTypes DEF Live, InTable
<1> HIDE DEF f, q
<1>5. CASE row[f].confirmed
  <2>1. StageOf(q) = StageOf(row[f]) BY <1>2, <1>4, <1>5 DEF StageOf
  <2> QED BY <1>1, <1>3, <2>1, StageStays DEF Retained!vars
<1>6. CASE ~row[f].confirmed
  <2>1. StageOf(q) = "erased" /\ StageOf(row[f]) = "deleted" BY <1>2, <1>4, <1>6 DEF StageOf
  <2>2. Stage[f] = "deleted" /\ Stage' = [Stage EXCEPT ![f] = "erased"]
    BY <1>1, <1>3, <2>1, StageMoves
  <2> QED BY <1>1, <2>2 DEF Retained!Erase, Retained!Move
<1> QED BY <1>4, <1>5, <1>6

(* Nothing pending and nothing left to treat: every file was erased.       *)
LEMMA PurgeContractPurges ==
    ASSUME Inv, ErasingElapsed, PurgeContract
    PROVE  Retained!Purge
<1> USE DEF Inv
<1>1. /\ purge.phase = "erasing" /\ purge.files = {} /\ eraser[Purger] = Resting
      /\ ~purge.pending /\ contract' = "gone"
      /\ row' = [f \in Files |-> IF InTable(f) THEN [row[f] EXCEPT !.status = "purged"]
                                 ELSE row[f]]
  BY DEF PurgeContract, AllErased
<1>2. contract = "elapsed" BY <1>1 DEF ErasingElapsed
<1>3. ASSUME NEW f \in Files, InTable(f) PROVE row[f].status = "deleted" /\ row[f].confirmed
  <2>1. \A l \in purge.files : FALSE BY <1>1
  <2>2. eraser[Purger].file # f BY <1>1 DEF Resting
  <2>3. row[f].confirmed BY <1>1, <1>3, <2>1, <2>2 DEF PurgeInv
  <2> QED BY <1>3, <2>3 DEF RowInv, InTable
<1>4. ASSUME NEW f \in Files
      PROVE  /\ Stage[f] = IF InTable(f) THEN "erased" ELSE row[f].status
             /\ row[f].status \in {"absent", "purged"} \/ InTable(f)
             /\ Stage'[f] = IF InTable(f) THEN "purged" ELSE row[f].status
  <2>1. row[f].status \in {"absent", "purged"} \/ InTable(f) BY FieldTypes DEF InTable
  <2>2. row'[f].status = IF InTable(f) THEN "purged" ELSE row[f].status
    BY <1>1, FieldTypes DEF Row
  <2> QED BY <1>3, <2>1, <2>2 DEF Stage, InTable
<1> DEFINE after == [f \in Files |-> IF Stage[f] = "erased" THEN "purged" ELSE Stage[f]]
<1>5. Stage' = after BY <1>4 DEF Stage, InTable
<1>6. \A f \in Files : Stage[f] \notin {"live", "deleted"} BY <1>4
<1> QED BY <1>1, <1>2, <1>5, <1>6 DEF Retained!Purge

(* Uploads, deletions, the reconciliation, the migration and the purge     *)
(* take every file through one life (createContractFile,                   *)
(* softDeleteContractFile, markStorageDeleted, purgeContract).             *)
THEOREM RefinesRetainedFiles == Spec => RetainedFilesSpec
<1>1. Init => Retained!Init BY DEF Init, Retained!Init, Stage
<1>2. Inv /\ ErasingElapsed /\ [Next]_vars => [Retained!Next]_(Retained!vars)
  <2> SUFFICES ASSUME Inv, ErasingElapsed, [Next]_vars
               PROVE  Retained!Next \/ UNCHANGED Retained!vars
    OBVIOUS
  <2>s. ASSUME UNCHANGED <<contract, row>> PROVE UNCHANGED Retained!vars
    BY <2>s DEF Retained!vars, Stage
  <2>1. ASSUME NEW f \in Files, UploadStep(f) PROVE Retained!Next \/ UNCHANGED Retained!vars
    <3>1. CASE InsertRow(f) BY <3>1, InsertAdds DEF InsertRow, Retained!Next
    <3>2. CASE InsertFails(f) BY <3>2, <2>s, InsertAdds DEF InsertFails, Retained!Next
    <3> QED
      BY <2>1, <2>s, <3>1, <3>2 DEF UploadStep, OpenUpload, PutObject, Compensate, UploadDies
  <2>2. ASSUME NEW e \in Erasers, EraseStep(e) PROVE Retained!Next \/ UNCHANGED Retained!vars
    <3>1. CASE MarkStorageDeleted(e) BY <3>1, MarkErases DEF Retained!Next
    <3>2. CASE RecordFailure(e)
      <4> DEFINE f == eraser[e].file
                 q == [row[f] EXCEPT !.attempts = @ + 1]
      <4>1. f \in Files BY <3>2 DEF RecordFailure, Inv, EraserInv, Erasing, Resting
      <4>2. q.status = row[f].status /\ q.confirmed = row[f].confirmed
        BY <4>1, FieldTypes DEF Row, Inv
      <4>3. row' = [row EXCEPT ![f] = q] BY <3>2, <4>1 DEF RecordFailure, Inv, TypeOK
      <4> HIDE DEF f, q
      <4>4. StageOf(q) = StageOf(row[f]) BY <4>2 DEF StageOf
      <4>5. Stage' = Stage BY <4>1, <4>3, <4>4, StageStays DEF Inv
      <4> QED BY <3>2, <4>5 DEF RecordFailure, Retained!vars
    <3> QED
      BY <2>2, <2>s, <3>1, <3>2 DEF EraseStep, RemoveObject, RemoveFails, MarkThrows
  <2>3. ASSUME NEW d \in Deleters, SoftDelete(d) PROVE Retained!Next
    <3> DEFINE f == eraser[d].file
               q == [row[f] EXCEPT !.status = "deleted"]
    <3>1. f \in Files /\ Live(f) /\ UNCHANGED contract
      BY <2>3 DEF SoftDelete, Inv, EraserInv, Erasing, Resting, Erasers
    <3>2. q.status = "deleted" /\ q.confirmed = row[f].confirmed
      BY <3>1, FieldTypes DEF Row, Inv
    <3>3. row' = [row EXCEPT ![f] = q] BY <2>3, <3>1 DEF SoftDelete, Inv, TypeOK
    <3> HIDE DEF f, q
    <3> QED BY <3>1, <3>2, <3>3, DeletionDeletes DEF Retained!Next
  <2>4. ASSUME PurgeFile PROVE Retained!Next \/ UNCHANGED Retained!vars
    <3>1. PICK l \in purge.files :
            row' = [row EXCEPT ![l.file].status = IF Live(l.file) THEN "deleted" ELSE @]
      BY <2>4 DEF PurgeFile
    <3> DEFINE f == l.file
               q == [row[f] EXCEPT !.status = IF Live(f) THEN "deleted" ELSE @]
    <3>2. f \in Files BY DEF Inv, TypeOK, Purge, Listing
    <3>3. /\ q.status = (IF Live(f) THEN "deleted" ELSE row[f].status)
          /\ q.confirmed = row[f].confirmed
      BY <3>2, FieldTypes DEF Row, Inv
    <3>4. row' = [row EXCEPT ![f] = q] /\ UNCHANGED contract
      BY <2>4, <3>1, <3>2 DEF PurgeFile, Inv, TypeOK
    <3> HIDE DEF f, q
    <3>5. CASE Live(f) BY <3>2, <3>3, <3>4, <3>5, DeletionDeletes DEF Retained!Next
    <3>6. CASE ~Live(f)
      <4>1. StageOf(q) = StageOf(row[f]) BY <3>3, <3>6 DEF StageOf
      <4>2. Stage' = Stage BY <3>2, <3>4, <4>1, StageStays DEF Inv
      <4> QED BY <3>4, <4>2 DEF Retained!vars
    <3> QED BY <3>5, <3>6
  <2>5. ASSUME FlipProvider PROVE UNCHANGED Retained!vars
    <3> DEFINE f == migrating.copied
               q == [row[f] EXCEPT !.provider = "s3"]
    <3>1. f \in Files /\ UNCHANGED contract BY <2>5 DEF FlipProvider, Inv, TypeOK
    <3>2. q.status = row[f].status /\ q.confirmed = row[f].confirmed
      BY <3>1, FieldTypes DEF Row, Inv
    <3>3. row' = row \/ row' = [row EXCEPT ![f] = q]
      BY <2>5, <3>1 DEF FlipProvider, Inv, TypeOK
    <3> HIDE DEF f, q
    <3>4. StageOf(q) = StageOf(row[f]) BY <3>2 DEF StageOf
    <3>5. CASE row' = row BY <2>s, <3>1, <3>5
    <3>6. CASE row' = [row EXCEPT ![f] = q]
      <4>1. Stage' = Stage BY <3>1, <3>4, <3>6, StageStays DEF Inv
      <4> QED BY <3>1, <4>1 DEF Retained!vars
    <3> QED BY <3>3, <3>5, <3>6
  <2>6. ASSUME DeleteContract \/ RetentionElapses PROVE Retained!Next
    <3>1. Stage' = Stage BY <2>6 DEF DeleteContract, RetentionElapses, Stage
    <3> QED BY <2>6, <3>1 DEF DeleteContract, RetentionElapses, Retained!Next, Retained!End
  <2>7. ASSUME PurgeContract PROVE Retained!Next
    BY <2>7, PurgeContractPurges DEF Retained!Next
  <2> QED
    BY <2>s, <2>1, <2>2, <2>3, <2>4, <2>5, <2>6, <2>7
       DEF Next, PurgeStep, vars, DeleteRead, DeleterEnds, ReconcileScan, ReconcileRow,
           ReconcileDies, RegisterPurgeJob, ClaimPurgeJob, ListForPurge, CompletePurgeJob,
           FailPurgeJob, PurgeDies, MigrateScan, CopyToS3, MigrateDies
<1> QED BY <1>1, <1>2, InvCorrect, ErasingElapsedCorrect, PTL
        DEF Spec, RetainedFilesSpec, Retained!Spec
==============================================================================
