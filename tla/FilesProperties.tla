--------------------------- MODULE FilesProperties ---------------------------
(***************************************************************************)
(* What a contract_files row promises about the objects in the stores.     *)
(***************************************************************************)
EXTENDS ContractFiles

(* A file that can be listed can be downloaded: a live row has its object  *)
(* at the provider it names, through uploads, deletions, a migration and a *)
(* purge.  The exception is an insert that was committed although          *)
(* uploadContractFile saw it fail: its compensation may remove the object. *)
LiveFilesReadable == \A f \in Files : Live(f) => f \in lost \/ Key(f) \in object

(* A file reported as erased, or purged with its contract, is not in the   *)
(* store its row names (purgeContract: "actually gone from storage before  *)
(* anything is removed from the database"), unless the migration flipped   *)
(* the row while it was being erased.                                      *)
ErasedIsGone ==
    \A f \in Files : row[f].confirmed \/ row[f].status = "purged" =>
                        f \in crossed \/ Key(f) \notin object

(* A file's stage in its life: its row's status, erased once confirmed.    *)
Stage == [f \in Files |-> IF row[f].status = "deleted" /\ row[f].confirmed THEN "erased"
                         ELSE row[f].status]

(* Uploads, deletions, retries and a purge that all work on their own take *)
(* every file through one life: it is added before the retention window    *)
(* has passed, erased only after it was deleted and never listed again,    *)
(* and the contract is purged when every file it has was erased.           *)
Retained == INSTANCE RetainedFiles WITH state <- Stage

RetainedFilesSpec == Retained!Spec

(* A deleted file is erased in the end, whoever dies on the way, or the    *)
(* attempts at it are used up (reconcile-deleted-files.ts).                *)
DeletedFilesErased ==
    \A f \in Files :
        row[f].status = "deleted" ~>
            row[f].confirmed \/ row[f].attempts >= MaxDeleteAttempts \/ row[f].status = "purged"
==============================================================================
