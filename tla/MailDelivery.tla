---------------------------- MODULE MailDelivery ----------------------------
(***************************************************************************)
(* mail_deliveries (features/mail, server/services/email): one row per     *)
(* mail.  A notice (PASSWORD_CHANGED) is sent by the mail:process worker   *)
(* and retried; a letter carries the only copy of a one-time link and is   *)
(* sent by the request that issued it (sendTrackedMail).  SENDING notices  *)
(* are put back by mail:recover-stale, PENDING letters are replaced by     *)
(* mail:recover-stale-token-deliveries, which an operator runs by hand,    *)
(* any number of times at once.                                            *)
(*                                                                         *)
(* One mail:process run and one mail:recover-stale run are alive at a time *)
(* (BatchProperties, MutualExclusion).  All letters of a kind concern one  *)
(* invitation or one user.  A retry's backoff and the age of a row are     *)
(* time, which passes by itself: a PENDING row may be due, or stale, now.  *)
(***************************************************************************)
EXTENDS Integers

CONSTANTS Notices, Letters,
          Recoveries,   \* concurrent runs of recoverStaleTokenDeliveries
          MaxAttempts,  \* MailDelivery.maxAttempts
          MaxCalls,     \* calls that have one link open at a time
          NoMail

ASSUME MailsAssumption == Notices \cap Letters = {} /\ NoMail \notin Notices \cup Letters
ASSUME MaxAttemptsAssumption == MaxAttempts \in Nat \ {0}

VARIABLES row,       \* row[m]: the mail_deliveries row
          refused,   \* notices it has refused for good at least once (history)
          worker,    \* the mail:process run
          stale,     \* stale[n]: what mail:recover-stale has read of a listed row
          kind,      \* kind[l]: what a letter is about
          link,      \* link[l]: whether the link in a letter still works
          settled,   \* invitation accepted or revoked; email address verified
          sender,    \* sender[l]: the call that holds the link of l
          opened,    \* opened[l]: calls that have found the link usable and not yet acted
          recovery,  \* recovery[r]: a run of recoverStaleTokenDeliveries
          replaces   \* replaces[l]: the letter that recovery replaced by l (history)

vars == <<row, refused, worker, stale, kind, link, settled, sender, opened, recovery, replaces>>

Mails  == Notices \cup Letters
Kinds  == {"invitation", "verification", "reset"}
Errors == {"none", "retryable", "permanent"}

Row == [status : {"absent", "PENDING", "SENDING", "SENT", "FAILED", "CANCELLED"},
        attempt : Nat, error : Errors,
        overdue : BOOLEAN]  \* lockedAt is older than the stale threshold

Worker == [phase : {"idle", "claimed", "accepted", "rejected"},
           mail : Notices \cup {NoMail}, attempt : Nat, error : Errors]

Listed == [attempt : Nat, error : Errors]

Recovery == [phase : {"idle", "cancel", "rotate", "send"}, mail : Letters \cup {NoMail}]

Resting  == [phase |-> "idle", mail |-> NoMail, attempt |-> 0, error |-> "none"]
Unlisted == [attempt |-> 0, error |-> "none"]
Waiting  == [phase |-> "idle", mail |-> NoMail]

TypeOK ==
    /\ row \in [Mails -> Row]
    /\ refused \subseteq Notices
    /\ worker \in Worker
    /\ stale \in [Notices -> Listed]
    /\ kind \in [Letters -> Kinds]
    /\ link \in [Letters -> {"none", "usable", "dead"}]
    /\ settled \subseteq Kinds
    /\ sender \in [Letters -> {"none", "holding", "sending", "accepted", "rejected", "gone"}]
    /\ opened \in [Letters -> Nat]
    /\ recovery \in [Recoveries -> Recovery]
    /\ replaces \in [Letters -> Letters \cup {NoMail}]

Init ==
    /\ row = [m \in Mails |-> [status |-> "absent", attempt |-> 0, error |-> "none",
                               overdue |-> FALSE]]
    /\ refused = {}
    /\ worker = Resting
    /\ stale = [n \in Notices |-> Unlisted]
    /\ kind \in [Letters -> Kinds]
    /\ link = [l \in Letters |-> "none"]
    /\ settled = {}
    /\ sender = [l \in Letters |-> "none"]
    /\ opened = [l \in Letters |-> 0]
    /\ recovery = [r \in Recoveries |-> Waiting]
    /\ replaces = [l \in Letters |-> NoMail]

------------------------------------------------------------------------------
(* Updates of a row by id (mail-delivery-repository.ts).                   *)

Absent(m)  == row[m].status = "absent"
Pending(m) == row[m].status = "PENDING"

(* Mutant: the attempt is taken off the count.                             *)
SendingCountingDown(d) == [d EXCEPT !.status = "SENDING", !.attempt = @ - 1, !.overdue = FALSE]

(* claimNextPendingMailDelivery, markMailDeliverySending                   *)
Sending(d) == [d EXCEPT !.status = "SENDING", !.attempt = @ + 1, !.overdue = FALSE]

Sent(d) == [d EXCEPT !.status = "SENT", !.overdue = FALSE]

Retrying(d, error) == [d EXCEPT !.status = "PENDING", !.error = error, !.overdue = FALSE]

Failed(d, error) == [d EXCEPT !.status = "FAILED", !.error = error, !.overdue = FALSE]

(* resetMailDeliveryToPending: attempt and errorCode are kept.             *)
Reset(d) == [d EXCEPT !.status = "PENDING", !.overdue = FALSE]

Cancelled(d) == [d EXCEPT !.status = "CANCELLED", !.error = "permanent", !.overdue = FALSE]

(* Mutants of Retryable: no bound on the attempts; one attempt too few.    *)
RetryableUnbounded(error, attempt)  == error # "permanent"
RetryableOneFewer(error, attempt) == attempt + 1 < MaxAttempts /\ error # "permanent"

(* isRetryableMailError                                                    *)
Retryable(error, attempt) == attempt < MaxAttempts /\ error # "permanent"

------------------------------------------------------------------------------
(* processNextMailDelivery.                                                *)

(* FOR UPDATE SKIP LOCKED, notices only; the worker keeps the attempt.     *)
Claim(n) ==
    /\ worker = Resting
    /\ Pending(n)
    /\ row' = [row EXCEPT ![n] = Sending(@)]
    /\ worker' = [Resting EXCEPT !.phase = "claimed", !.mail = n, !.attempt = row[n].attempt + 1]
    /\ UNCHANGED <<refused, stale, kind, link, settled, sender, opened, recovery, replaces>>

(* The provider takes the mail and says so; whether it took it when the    *)
(* send throws is unknown, and nothing depends on it.                      *)
ProviderAccepts ==
    /\ worker.phase = "claimed"
    /\ worker' = [worker EXCEPT !.phase = "accepted"]
    /\ UNCHANGED <<row, refused, stale, kind, link, settled, sender, opened, recovery, replaces>>

ProviderThrows ==
    /\ worker.phase = "claimed"
    /\ \E error \in {"retryable", "permanent"} :
         /\ worker' = [worker EXCEPT !.phase = "rejected", !.error = error]
         /\ refused' = IF error = "permanent" THEN refused \cup {worker.mail} ELSE refused
    /\ UNCHANGED <<row, stale, kind, link, settled, sender, opened, recovery, replaces>>

MarkSent ==
    /\ worker.phase = "accepted"
    /\ row' = [row EXCEPT ![worker.mail] = Sent(@)]
    /\ worker' = Resting
    /\ UNCHANGED <<refused, stale, kind, link, settled, sender, opened, recovery, replaces>>

(* The SENT write throws inside the try: treated as a failed send.         *)
MarkSentThrows ==
    /\ worker.phase = "accepted"
    /\ worker' = [worker EXCEPT !.phase = "rejected", !.error = "retryable"]
    /\ UNCHANGED <<row, refused, stale, kind, link, settled, sender, opened, recovery, replaces>>

(* The catch block: retry later, or give up.                               *)
MarkRejected ==
    /\ worker.phase = "rejected"
    /\ row' = [row EXCEPT ![worker.mail] =
                 IF Retryable(worker.error, worker.attempt)
                 THEN Retrying(@, worker.error) ELSE Failed(@, "permanent")]
    /\ worker' = Resting
    /\ UNCHANGED <<refused, stale, kind, link, settled, sender, opened, recovery, replaces>>

(* The process dies, or the catch block's own write throws.                *)
WorkerDies ==
    /\ worker # Resting
    /\ worker' = Resting
    /\ UNCHANGED <<row, refused, stale, kind, link, settled, sender, opened, recovery, replaces>>

------------------------------------------------------------------------------
(* recoverStaleMailDeliveries.                                             *)

(* lockedAt becomes stale; the worker may be alive.                        *)
LockAges(n) ==
    /\ row[n].status = "SENDING"
    /\ ~row[n].overdue
    /\ row' = [row EXCEPT ![n].overdue = TRUE]
    /\ UNCHANGED <<refused, worker, stale, kind, link, settled, sender, opened, recovery, replaces>>

(* Mutant: retries, which wait, are listed instead of stuck sends.         *)
OverdueRetries(n) == Pending(n) /\ row[n].error # "none"

(* findStaleSendingMailDeliveries                                          *)
Overdue(n) == row[n].status = "SENDING" /\ row[n].overdue

RecoverScan ==
    /\ \A n \in Notices : stale[n] = Unlisted
    /\ \E n \in Notices : Overdue(n)
    /\ stale' = [n \in Notices |->
                   IF Overdue(n) THEN [attempt |-> row[n].attempt, error |-> row[n].error]
                   ELSE Unlisted]
    /\ UNCHANGED <<row, refused, worker, kind, link, settled, sender, opened, recovery, replaces>>

(* One update by id per listed row, on the attempt and error that were read. *)
RecoverRow(n) ==
    /\ stale[n] # Unlisted
    /\ row' = [row EXCEPT ![n] =
                 IF Retryable(stale[n].error, stale[n].attempt)
                 THEN Reset(@) ELSE Failed(@, "permanent")]
    /\ stale' = [stale EXCEPT ![n] = Unlisted]
    /\ UNCHANGED <<refused, worker, kind, link, settled, sender, opened, recovery, replaces>>

RecoverDies ==
    /\ \E n \in Notices : stale[n] # Unlisted
    /\ stale' = [n \in Notices |-> Unlisted]
    /\ UNCHANGED <<row, refused, worker, kind, link, settled, sender, opened, recovery, replaces>>

------------------------------------------------------------------------------
(* Letters: issuing, and the life of their links.                          *)

(* The links of kind k a transaction that issues a new one makes useless:  *)
(* of an invitation, which has one token, all; of the other kinds the      *)
(* unused tokens its first statement sees, not those issued meanwhile.     *)
Superseded(k, S) ==
    /\ S \subseteq {l \in Letters : kind[l] = k /\ link[l] = "usable"}
    /\ k = "invitation" => \A l \in Letters : kind[l] = k /\ link[l] = "usable" => l \in S

(* A new row and a new link of the kind, in one transaction; the caller    *)
(* keeps the link in memory.                                               *)
Issued(l, S) ==
    /\ Absent(l)
    /\ row' = [row EXCEPT ![l].status = "PENDING"]
    /\ link' = [m \in Letters |-> IF m = l THEN "usable" ELSE IF m \in S THEN "dead" ELSE link[m]]
    /\ sender' = [sender EXCEPT ![l] = "holding"]

(* createInvitation and resendInvitation, requestEmailVerification,        *)
(* requestPasswordReset.  Only rotateInvitationToken looks again: the      *)
(* address may have been verified since requestEmailVerification looked.   *)
Issue(l) ==
    /\ kind[l] = "invitation" => "invitation" \notin settled
    /\ \E S \in SUBSET Letters : Superseded(kind[l], S) /\ Issued(l, S)
    /\ UNCHANGED <<refused, worker, stale, kind, settled, opened, recovery, replaces>>

(* The invitation is accepted or revoked.                                  *)
InvitationEnds ==
    /\ \E l \in Letters : kind[l] = "invitation" /\ link[l] = "usable"
    /\ settled' = settled \cup {"invitation"}
    /\ link' = [l \in Letters |-> IF kind[l] = "invitation" /\ link[l] = "usable"
                                  THEN "dead" ELSE link[l]]
    /\ UNCHANGED <<row, refused, worker, stale, kind, sender, opened, recovery, replaces>>

(* Mutant: a used link is not told from an unused one.                     *)
WorksUsed(l) == link[l] # "none"

(* isTokenUsable                                                           *)
Works(l) == link[l] = "usable"

(* verifyEmail and resetPassword look at the token before the transaction  *)
(* that uses it, and not again.                                            *)
OpenLink(l) ==
    /\ kind[l] # "invitation" /\ Works(l)
    /\ opened[l] < MaxCalls
    /\ opened' = [opened EXCEPT ![l] = @ + 1]
    /\ UNCHANGED <<row, refused, worker, stale, kind, link, settled, sender, recovery, replaces>>

(* The call ends without its transaction.                                  *)
CallDies(l) ==
    /\ opened[l] > 0
    /\ opened' = [opened EXCEPT ![l] = @ - 1]
    /\ UNCHANGED <<row, refused, worker, stale, kind, link, settled, sender, recovery, replaces>>

(* The transaction, whatever has become of the link.                       *)
VerifyEmail(l) ==
    /\ kind[l] = "verification" /\ opened[l] > 0
    /\ opened' = [opened EXCEPT ![l] = @ - 1]
    /\ settled' = settled \cup {"verification"}
    /\ link' = [link EXCEPT ![l] = "dead"]
    /\ UNCHANGED <<row, refused, worker, stale, kind, sender, recovery, replaces>>

(* The other tokens it sees are invalidated, and a notice is enqueued.     *)
ResetPassword(l, n) ==
    /\ kind[l] = "reset" /\ opened[l] > 0
    /\ Absent(n)
    /\ opened' = [opened EXCEPT ![l] = @ - 1]
    /\ \E S \in SUBSET Letters :
         /\ Superseded("reset", S)
         /\ link' = [m \in Letters |-> IF m = l \/ m \in S THEN "dead" ELSE link[m]]
    /\ row' = [row EXCEPT ![n].status = "PENDING"]
    /\ UNCHANGED <<refused, worker, stale, kind, settled, sender, recovery, replaces>>

------------------------------------------------------------------------------
(* sendTrackedMail: every write is by id, whatever the row has become.     *)

MarkSending(l) ==
    /\ sender[l] = "holding"
    /\ row' = [row EXCEPT ![l] = Sending(@)]
    /\ sender' = [sender EXCEPT ![l] = "sending"]
    /\ UNCHANGED <<refused, worker, stale, kind, link, settled, opened, recovery, replaces>>

LetterAccepted(l) ==
    /\ sender[l] = "sending"
    /\ sender' = [sender EXCEPT ![l] = "accepted"]
    /\ UNCHANGED <<row, refused, worker, stale, kind, link, settled, opened, recovery, replaces>>

(* The send throws, taken by the provider or not; or, after an acceptance, *)
(* the SENT write throws.                                                  *)
LetterThrows(l) ==
    /\ sender[l] \in {"sending", "accepted"}
    /\ sender' = [sender EXCEPT ![l] = "rejected"]
    /\ UNCHANGED <<row, refused, worker, stale, kind, link, settled, opened, recovery, replaces>>

(* Letters are never retried.                                              *)
MarkLetter(l) ==
    /\ sender[l] \in {"accepted", "rejected"}
    /\ \E error \in {"retryable", "permanent"} :
         row' = [row EXCEPT ![l] = IF sender[l] = "accepted" THEN Sent(@) ELSE Failed(@, error)]
    /\ sender' = [sender EXCEPT ![l] = "gone"]
    /\ UNCHANGED <<refused, worker, stale, kind, link, settled, opened, recovery, replaces>>

(* The process dies and the link with it, or a write outside the try throws. *)
SenderDies(l) ==
    /\ sender[l] \notin {"none", "gone"}
    /\ sender' = [sender EXCEPT ![l] = "gone"]
    /\ UNCHANGED <<row, refused, worker, stale, kind, link, settled, opened, recovery, replaces>>

------------------------------------------------------------------------------
(* recoverStaleTokenDeliveries.                                            *)

(* Mutant: a verification is treated as a password reset is.               *)
ReissuableInvitations(l) == kind[l] = "invitation" /\ "invitation" \notin settled

(* A listed row is looked up: is there still something to send?            *)
Reissuable(l) ==
    CASE kind[l] = "invitation"   -> "invitation" \notin settled
      [] kind[l] = "verification" -> "verification" \notin settled /\ link[l] = "usable"
      [] OTHER                    -> FALSE

(* The run is done with its row: the letter it replaced it by, if any, has *)
(* been sent or not.                                                       *)
Free(r) == recovery[r] = Waiting \/ (recovery[r].phase = "send" /\ sender[recovery[r].mail] = "gone")

(* Listed while PENDING; a row that has moved on since is left alone by    *)
(* both writes below.                                                      *)
RecoverLookup(r, l) ==
    /\ Free(r)
    /\ Pending(l)
    /\ recovery' = [recovery EXCEPT ![r] =
                      [phase |-> IF Reissuable(l) THEN "rotate" ELSE "cancel", mail |-> l]]
    /\ UNCHANGED <<row, refused, worker, stale, kind, link, settled, sender, opened, replaces>>

(* Mutant: the row is cancelled by id.                                     *)
StillThere(l) == ~Absent(l)

(* The where clause of markMailDeliveryCancelledIfPending.                 *)
StillPending(l) == Pending(l)

(* The cancellation on its own: of a letter about something settled, and   *)
(* of every password reset.                                                *)
RecoverCancel(r) ==
    /\ recovery[r].phase = "cancel"
    /\ LET l == recovery[r].mail IN
       row' = IF StillPending(l) THEN [row EXCEPT ![l] = Cancelled(@)] ELSE row
    /\ recovery' = [recovery EXCEPT ![r] = Waiting]
    /\ UNCHANGED <<refused, worker, stale, kind, link, settled, sender, opened, replaces>>

(* The rotation transaction, which the run follows by sending: cancel if   *)
(* still PENDING, replace the link and enqueue a new row.  The user of a   *)
(* verification is not looked at again.                                    *)
Rotated(old, new, S) ==
    /\ kind[new] = kind[old] /\ Absent(new)
    /\ Superseded(kind[old], S)
    /\ link[old] = "usable" => old \in S
    /\ row' = [row EXCEPT ![old] = Cancelled(@), ![new].status = "PENDING"]
    /\ link' = [m \in Letters |-> IF m = new THEN "usable" ELSE IF m \in S THEN "dead" ELSE link[m]]
    /\ sender' = [sender EXCEPT ![new] = "holding"]
    /\ replaces' = [replaces EXCEPT ![new] = old]

RecoverRotate(r) ==
    /\ recovery[r].phase = "rotate"
    /\ StillPending(recovery[r].mail)
    /\ kind[recovery[r].mail] = "invitation" => "invitation" \notin settled
    /\ \E new \in Letters, S \in SUBSET Letters :
         /\ Rotated(recovery[r].mail, new, S)
         /\ recovery' = [recovery EXCEPT ![r] = [phase |-> "send", mail |-> new]]
    /\ UNCHANGED <<refused, worker, stale, kind, settled, opened>>

(* The transaction returns null.  It is committed all the same: a letter   *)
(* about an invitation settled since the look-up stays cancelled.          *)
RecoverRotateNull(r) ==
    /\ recovery[r].phase = "rotate"
    /\ LET old == recovery[r].mail IN
       \/ ~StillPending(old) /\ row' = row
       \/ /\ StillPending(old)
          /\ kind[old] = "invitation" /\ "invitation" \in settled
          /\ row' = [row EXCEPT ![old] = Cancelled(@)]
    /\ recovery' = [recovery EXCEPT ![r] = Waiting]
    /\ UNCHANGED <<refused, worker, stale, kind, link, settled, sender, opened, replaces>>

------------------------------------------------------------------------------
WorkerStep ==
    \/ \E n \in Notices : Claim(n)
    \/ ProviderAccepts \/ ProviderThrows \/ MarkSent \/ MarkSentThrows \/ MarkRejected

SenderStep(l) ==
    MarkSending(l) \/ LetterAccepted(l) \/ LetterThrows(l) \/ MarkLetter(l) \/ SenderDies(l)

TokenRecovery(r) ==
    \/ \E l \in Letters : RecoverLookup(r, l)
    \/ RecoverCancel(r) \/ RecoverRotate(r)
    \/ RecoverRotateNull(r)

Next ==
    \/ WorkerStep \/ WorkerDies
    \/ \E n \in Notices : LockAges(n) \/ RecoverRow(n)
    \/ RecoverScan \/ RecoverDies
    \/ \E l \in Letters : \/ Issue(l) \/ OpenLink(l) \/ CallDies(l) \/ VerifyEmail(l)
                         \/ SenderStep(l)
                         \/ \E n \in Notices : ResetPassword(l, n)
    \/ InvitationEnds
    \/ \E r \in Recoveries : TokenRecovery(r)

Spec == Init /\ [][Next]_vars

(* The scheduler restarts mail:process and mail:recover-stale for ever; a  *)
(* recovery may die, but not every time.  Nothing is assumed of users, of  *)
(* the requests that send letters, or of the operator.                     *)
Fairness ==
    /\ WF_vars(WorkerStep)
    /\ \A n \in Notices : WF_vars(LockAges(n)) /\ SF_vars(RecoverRow(n))
    /\ WF_vars(RecoverScan)

FairSpec == Spec /\ Fairness
==============================================================================
