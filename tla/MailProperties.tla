--------------------------- MODULE MailProperties ---------------------------
(***************************************************************************)
(* What a mail_deliveries row may claim about its mail.                    *)
(***************************************************************************)
EXTENDS MailDelivery

(* A mail is attempted at most once more than maxAttempts, and only when   *)
(* recovery resets a row by id long after it has read it as stale          *)
(* (recover-stale-mail-deliveries.ts).                                     *)
AttemptsBounded ==
    \A n \in Notices : row[n].attempt <= MaxAttempts + 1

(* No notice is given up early, by the worker or by a recovery that judges *)
(* by what it read before: it is FAILED because its error cannot be        *)
(* retried or its attempts are used up (isRetryableMailError).             *)
NoticesNotGivenUpEarly ==
    \A n \in Notices :
        row[n].status = "FAILED" => row[n].attempt >= MaxAttempts \/ n \in refused

(* A letter that recovery cancels is never the only copy of a working      *)
(* link: the link is dead, or nothing is left to do with it, whatever was  *)
(* issued, used or settled between the look-up and the cancellation        *)
(* (recoverInvitationDelivery, recoverVerificationDelivery).  A password   *)
(* reset is cancelled by design with its link alive.                       *)
CancelledLettersReplaced ==
    \A l \in Letters :
        row[l].status = "CANCELLED" /\ kind[l] # "reset" =>
            link[l] = "dead" \/ kind[l] \in settled

(* The one-time links: none can be opened again once used or superseded,   *)
(* and one that acts after that was opened before, once for each time (a   *)
(* link can act twice: AccountProperties, ResetsOnce); an invitation has   *)
(* one that works, and none once it is settled, whoever issues, resends or *)
(* recovers meanwhile (resend-invitation.ts,                               *)
(* recover-stale-token-deliveries.ts).                                     *)
Links == INSTANCE OneTimeLinks

OneTimeLinksSpec == Links!Spec

(* A stale letter is replaced at most once, however many recoveries have   *)
(* listed it (recover-stale-token-deliveries.ts: "two concurrent recovery  *)
(* runs [...] can never double-process the same row").                     *)
ReplacedOnce ==
    \A l, m \in Letters : l # m /\ replaces[l] # NoMail => replaces[l] # replaces[m]

(* Every notice is sent or given up in the end, whatever dies on the way.  *)
NoticesSettle ==
    \A n \in Notices :
        row[n].status \in {"PENDING", "SENDING"} ~> row[n].status \in {"SENT", "FAILED"}
==============================================================================
