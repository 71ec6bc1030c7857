------------------------ MODULE ExtractionProperties ------------------------
(***************************************************************************)
(* What the extraction pipeline promises about the contract it writes to.  *)
(***************************************************************************)
EXTENDS ExtractionPipeline

(* An edit made after the extraction looked at the contract and before the *)
(* apply request looked at it blocks the apply: the values about to be     *)
(* written were computed on the contract version the request has read, or  *)
(* a later one (hasContractChangedSinceExtraction).                        *)
EditsBeforeApplyReadSurvive ==
    \A u \in Users : request[u].op = "ready" => request[u].basis >= request[u].version

(* A soft-deleted contract is never written again: no apply, however late, *)
(* resurrects or alters it (updateMany ... deletedAt: null).               *)
DeletedContractUntouched ==
    [][contract.deleted => UNCHANGED contract]_vars

(* What a request is about to write: an apply, the generation it found     *)
(* accepted; a form, the extraction it shows.                              *)
Shown(r) == IF r.op \in {"ready", "editing"} THEN {<<r.job, r.gen>>} ELSE {}

Prepared == [u \in Users |-> Shown(request[u])]

(* Whatever jobs, recoveries, reviews and late requests do, the contract   *)
(* shows only what was approved when an apply read it, or what a form had  *)
(* shown, and nothing writes it once it is deleted.                        *)
Reviewed ==
    INSTANCE ReviewedContract
      WITH version <- contract.version, deleted <- contract.deleted,
           source <- contract.source, gen <- contract.gen, prepared <- Prepared

ReviewedContractSpec == Reviewed!Spec

(* User u's request ends by writing the contract.                          *)
Writes(u, op) ==
    request[u].op = op /\ request'[u] = Idle /\ contract' # contract

(* What the contract has and then has no more: a manual edit, or, to an    *)
(* edit, the values of an extraction.                                      *)
LosesEdits  == ~(contract.edits \subseteq contract'.edits)
LosesValues == <<contract'.source, contract'.gen>> # <<contract.source, contract.gen>>

(* An edit, or values that were applied, are dropped only by an apply or a *)
(* form that has read the contract before its last write was committed:    *)
(* requests that do not overlap lose nothing (applyApprovedSuggestions,    *)
(* updateContract: both write every column, neither compares then).        *)
LostOnlyInOverlap ==
    [][LosesEdits \/ (edits' # edits /\ LosesValues) =>
         \E u \in Users : /\ Writes(u, "ready") \/ Writes(u, "editing")
                          /\ request[u].version < contract.version]_vars

(* A queued job does not stay queued or PROCESSING for ever, whatever dies *)
(* on the way: it comes up for review or fails (claimNextPendingJob,       *)
(* recoverStaleExtractionJobs: "rather than staying stuck PROCESSING       *)
(* forever").                                                              *)
QueuedJobsSettle ==
    \A j \in Jobs :
        job[j].status \in {"PENDING", "PROCESSING"}
            ~> job[j].status \in {"REVIEW_REQUIRED", "COMPLETED", "FAILED"}
==============================================================================
