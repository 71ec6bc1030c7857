------------------------------ MODULE MailProofs ------------------------------
(***************************************************************************)
(* The safety properties of MailProperties for any number of mails and     *)
(* recoveries and any number of attempts.                                  *)
(***************************************************************************)
EXTENDS MailProperties, TLAPS

WorkerOnNotice == worker.phase # "idle" => worker.mail \in Notices

(* What the worker holds of its row is up to date: one run at a time.      *)
WorkerInStep ==
    worker.phase # "idle" =>
        /\ worker.attempt = row[worker.mail].attempt
        /\ worker.error = "permanent" => worker.mail \in refused

Counted(n) ==
    /\ row[n].attempt <= MaxAttempts + 1
    /\ row[n].status \in {"absent", "PENDING"} => row[n].attempt <= MaxAttempts

(* A listed row that will be reset can be claimed only once more than it   *)
(* should be.                                                              *)
ListedInTime(n) ==
    stale[n] # Unlisted /\ stale[n].attempt < MaxAttempts =>
        /\ row[n].attempt <= MaxAttempts
        /\ row[n].status \in {"absent", "PENDING"} => row[n].attempt < MaxAttempts

HadItsChances(n) == row[n].attempt >= MaxAttempts \/ n \in refused

Judged(n) ==
    /\ row[n].status = "FAILED" => HadItsChances(n)
    /\ row[n].error = "permanent" => HadItsChances(n)
    /\ stale[n].error = "permanent" => HadItsChances(n)
    /\ stale[n].attempt <= row[n].attempt

NoticeInv ==
    /\ WorkerInStep
    /\ \A n \in Notices : Counted(n) /\ ListedInTime(n) /\ Judged(n)

LetterInv ==
    /\ \A l \in Letters : ~Absent(l) => link[l] # "none"
    /\ \A l \in Letters : sender[l] # "none" => ~Absent(l)
    /\ \A l \in Letters : replaces[l] # NoMail =>
          ~Absent(l) /\ ~Absent(replaces[l]) /\ ~Pending(replaces[l])
    /\ \A r \in Recoveries : recovery[r].phase \in {"cancel", "rotate"} =>
          recovery[r].mail \in Letters /\ ~Absent(recovery[r].mail)

NothingToSend(l) == kind[l] # "reset" => link[l] = "dead" \/ kind[l] \in settled

CancelInv ==
    /\ \A l \in Letters : row[l].status = "CANCELLED" => NothingToSend(l)
    /\ \A r \in Recoveries : recovery[r].phase = "cancel" => NothingToSend(recovery[r].mail)

USE MailsAssumption, MaxAttemptsAssumption

------------------------------------------------------------------------------
(* What the updates of a row do to its fields.                             *)

LEMMA RowAges == ASSUME NEW d \in Row PROVE [d EXCEPT !.overdue = TRUE] \in Row
BY DEF Row

LEMMA RowUpdates ==
    ASSUME NEW d \in Row, NEW e \in Errors
    PROVE  /\ Sending(d) \in Row /\ Sending(d).status = "SENDING"
           /\ Sending(d).attempt = d.attempt + 1 /\ Sending(d).error = d.error
           /\ Sent(d) \in Row /\ Sent(d).status = "SENT"
           /\ Sent(d).attempt = d.attempt /\ Sent(d).error = d.error
           /\ Retrying(d, e) \in Row /\ Retrying(d, e).status = "PENDING"
           /\ Retrying(d, e).attempt = d.attempt /\ Retrying(d, e).error = e
           /\ Failed(d, e) \in Row /\ Failed(d, e).status = "FAILED"
           /\ Failed(d, e).attempt = d.attempt /\ Failed(d, e).error = e
           /\ Reset(d) \in Row /\ Reset(d).status = "PENDING"
           /\ Reset(d).attempt = d.attempt /\ Reset(d).error = d.error
           /\ Cancelled(d) \in Row /\ Cancelled(d).status = "CANCELLED"
<1>1. Sending(d) \in Row /\ Sending(d).status = "SENDING"
      /\ Sending(d).attempt = d.attempt + 1 /\ Sending(d).error = d.error
  <2>1. d.attempt \in Nat /\ d.error \in Errors BY DEF Row
  <2> DEFINE a == d.attempt + 1
  <2>2. a \in Nat BY <2>1
  <2>3. [d EXCEPT !.status = "SENDING", !.attempt = a, !.overdue = FALSE] \in Row
    <3> HIDE DEF a
    <3> QED BY <2>2, <2>1 DEF Row
  <2>4. Sending(d) = [d EXCEPT !.status = "SENDING", !.attempt = a, !.overdue = FALSE]
    BY DEF Sending
  <2>5. Sending(d).status = "SENDING" /\ Sending(d).attempt = a /\ Sending(d).error = d.error
    <3> HIDE DEF a
    <3> QED BY <2>4 DEF Row
  <2> QED BY <2>3, <2>4, <2>5
<1>2. Sent(d) \in Row /\ Sent(d).status = "SENT"
      /\ Sent(d).attempt = d.attempt /\ Sent(d).error = d.error
  BY DEF Sent, Row
<1>3. Retrying(d, e) \in Row /\ Retrying(d, e).status = "PENDING"
      /\ Retrying(d, e).attempt = d.attempt /\ Retrying(d, e).error = e
  BY DEF Retrying, Row
<1>4. Failed(d, e) \in Row /\ Failed(d, e).status = "FAILED"
      /\ Failed(d, e).attempt = d.attempt /\ Failed(d, e).error = e
  BY DEF Failed, Row
<1>5. Reset(d) \in Row /\ Reset(d).status = "PENDING"
      /\ Reset(d).attempt = d.attempt /\ Reset(d).error = d.error
  BY DEF Reset, Row
<1>6. Cancelled(d) \in Row /\ Cancelled(d).status = "CANCELLED"
  BY DEF Cancelled, Row, Errors
<1> QED BY <1>1, <1>2, <1>3, <1>4, <1>5, <1>6

LEMMA ErrorKinds == "none" \in Errors /\ "retryable" \in Errors /\ "permanent" \in Errors
BY DEF Errors

------------------------------------------------------------------------------
(* The type invariant.                                                     *)

LEMMA WorkerTypes ==
    ASSUME WorkerOnNotice, worker \in Worker, worker.phase # "idle"
    PROVE  worker.mail \in Notices /\ worker.mail \in Mails /\ worker.error \in Errors
           /\ worker.attempt \in Nat
BY DEF WorkerOnNotice, Worker, Mails

LEMMA TypeStep == TypeOK /\ WorkerOnNotice /\ [Next]_vars => TypeOK' /\ WorkerOnNotice'
<1> SUFFICES ASSUME TypeOK, WorkerOnNotice, [Next]_vars PROVE TypeOK' /\ WorkerOnNotice'
  OBVIOUS
<1>t. /\ row \in [Mails -> Row] /\ refused \subseteq Notices /\ worker \in Worker
      /\ stale \in [Notices -> Listed] /\ recovery \in [Recoveries -> Recovery]
      /\ \A n \in Notices : n \in Mails
      /\ \A l \in Letters : l \in Mails
  BY DEF TypeOK, Mails
<1>r. Resting \in Worker /\ Resting.phase = "idle" BY DEF Resting, Worker, Errors
<1>u. Unlisted \in Listed BY DEF Unlisted, Listed, Errors
<1>w. Waiting \in Recovery BY DEF Waiting, Recovery
<1>a. ASSUME NEW m \in Mails, NEW d \in Row, row' = [row EXCEPT ![m] = d]
      PROVE  row' \in [Mails -> Row]
  BY <1>a, <1>t
<1>b. ASSUME NEW m \in Mails
      PROVE  [row[m] EXCEPT !.status = "PENDING"] \in Row
  BY <1>t DEF Row
<1>1. ASSUME NEW n \in Notices, Claim(n) PROVE TypeOK' /\ WorkerOnNotice'
  <2>0. row[n] \in Row /\ row[n].attempt \in Nat BY <1>t DEF Row
  <2>1. Sending(row[n]) \in Row /\ row[n].attempt + 1 \in Nat
    BY <2>0, RowUpdates, ErrorKinds
  <2>2. worker' \in Worker /\ worker'.mail = n BY <1>1, <2>1 DEF Claim, Resting, Worker, Errors
  <2>3. row' \in [Mails -> Row] BY <1>1, <1>a, <1>t, <2>1 DEF Claim
  <2> QED BY <1>1, <2>2, <2>3 DEF Claim, TypeOK, WorkerOnNotice
<1>2. CASE ProviderAccepts
  <2>1. worker' \in Worker /\ worker'.mail = worker.mail /\ worker.mail \in Notices
    BY <1>2, <1>t, WorkerTypes DEF ProviderAccepts, Worker
  <2> QED BY <1>2, <2>1 DEF ProviderAccepts, TypeOK, WorkerOnNotice
<1>3. CASE ProviderThrows
  <2>1. worker' \in Worker /\ worker'.mail = worker.mail /\ worker.mail \in Notices
    BY <1>3, <1>t, WorkerTypes DEF ProviderThrows, Worker, Errors
  <2> QED BY <1>3, <1>t, <2>1 DEF ProviderThrows, TypeOK, WorkerOnNotice
<1>4. CASE MarkSent
  <2>1. worker.mail \in Mails /\ Sent(row[worker.mail]) \in Row
    BY <1>4, <1>t, WorkerTypes, RowUpdates, ErrorKinds DEF MarkSent
  <2>2. row' \in [Mails -> Row] BY <1>4, <1>a, <2>1 DEF MarkSent
  <2> QED BY <1>4, <1>r, <2>2 DEF MarkSent, TypeOK, WorkerOnNotice
<1>5. CASE MarkSentThrows
  <2>1. worker' \in Worker /\ worker'.mail = worker.mail /\ worker.mail \in Notices
    BY <1>5, <1>t, WorkerTypes DEF MarkSentThrows, Worker, Errors
  <2> QED BY <1>5, <2>1 DEF MarkSentThrows, TypeOK, WorkerOnNotice
<1>6. CASE MarkRejected
  <2>1. worker.mail \in Mails /\ worker.error \in Errors
    BY <1>6, <1>t, WorkerTypes DEF MarkRejected
  <2>2. Retrying(row[worker.mail], worker.error) \in Row /\ Failed(row[worker.mail], "permanent") \in Row
    BY <2>1, <1>t, RowUpdates, ErrorKinds
  <2>4. \E d \in Row : row' = [row EXCEPT ![worker.mail] = d]
    BY <1>6, <2>2 DEF MarkRejected
  <2>3. row' \in [Mails -> Row] BY <1>t, <2>4
  <2> QED BY <1>6, <1>r, <2>3 DEF MarkRejected, TypeOK, WorkerOnNotice
<1>7. CASE WorkerDies BY <1>7, <1>r DEF WorkerDies, TypeOK, WorkerOnNotice
<1>8. ASSUME NEW n \in Notices, LockAges(n) PROVE TypeOK' /\ WorkerOnNotice'
  <2>1. row[n] \in Row BY <1>t DEF Mails
  <2>3. [row[n] EXCEPT !.overdue = TRUE] \in Row BY <2>1, RowAges
  <2>2. row' \in [Mails -> Row] BY <1>8, <1>t, <2>3 DEF LockAges
  <2> QED BY <1>8, <2>2 DEF LockAges, TypeOK, WorkerOnNotice
<1>9. CASE RecoverScan
  <2>1. \A n \in Notices : [attempt |-> row[n].attempt, error |-> row[n].error] \in Listed
    BY <1>t DEF Row, Listed
  <2>2. stale' \in [Notices -> Listed] BY <1>9, <1>u, <2>1 DEF RecoverScan
  <2> QED BY <1>9, <2>2 DEF RecoverScan, TypeOK, WorkerOnNotice
<1>10. ASSUME NEW n \in Notices, RecoverRow(n) PROVE TypeOK' /\ WorkerOnNotice'
  <2>1. Reset(row[n]) \in Row /\ Failed(row[n], "permanent") \in Row
    BY <1>t, RowUpdates, ErrorKinds
  <2>2. row' \in [Mails -> Row] BY <1>10, <1>a, <1>t, <2>1 DEF RecoverRow
  <2>3. stale' \in [Notices -> Listed] BY <1>10, <1>t, <1>u DEF RecoverRow
  <2> QED BY <1>10, <2>2, <2>3 DEF RecoverRow, TypeOK, WorkerOnNotice
<1>11. CASE RecoverDies BY <1>11, <1>u DEF RecoverDies, TypeOK, WorkerOnNotice
<1>12. ASSUME NEW l \in Letters, Issue(l) PROVE TypeOK' /\ WorkerOnNotice'
  <2>1. row' \in [Mails -> Row] BY <1>12, <1>t, <1>b DEF Issue, Issued
  <2> QED BY <1>12, <2>1 DEF Issue, Issued, TypeOK, WorkerOnNotice
<1>13. CASE InvitationEnds BY <1>13 DEF InvitationEnds, TypeOK, WorkerOnNotice, Kinds
<1>14. ASSUME NEW l \in Letters, OpenLink(l) \/ CallDies(l) \/ VerifyEmail(l)
       PROVE  TypeOK' /\ WorkerOnNotice'
  <2>1. opened' \in [Letters -> Nat]
    BY <1>14 DEF OpenLink, CallDies, VerifyEmail, TypeOK
  <2> QED BY <1>14, <2>1 DEF OpenLink, CallDies, VerifyEmail, TypeOK, WorkerOnNotice, Kinds
<1>15. ASSUME NEW l \in Letters, NEW n \in Notices, ResetPassword(l, n)
       PROVE  TypeOK' /\ WorkerOnNotice'
  <2>1. row' \in [Mails -> Row] BY <1>15, <1>t, <1>b DEF ResetPassword
  <2>2. opened' \in [Letters -> Nat] BY <1>15 DEF ResetPassword, TypeOK
  <2> QED BY <1>15, <2>1, <2>2 DEF ResetPassword, TypeOK, WorkerOnNotice
<1>16. ASSUME NEW l \in Letters, SenderStep(l) PROVE TypeOK' /\ WorkerOnNotice'
  <2>1. Sending(row[l]) \in Row /\ Sent(row[l]) \in Row
        /\ Failed(row[l], "retryable") \in Row /\ Failed(row[l], "permanent") \in Row
    BY <1>t, RowUpdates, ErrorKinds
  <2>2. CASE MarkSending(l)
    <3>1. row' \in [Mails -> Row] BY <2>2, <1>a, <1>t, <2>1 DEF MarkSending
    <3> QED BY <2>2, <3>1 DEF MarkSending, TypeOK, WorkerOnNotice
  <2>3. CASE MarkLetter(l)
    <3>1. row' \in [Mails -> Row] BY <2>3, <1>a, <1>t, <2>1 DEF MarkLetter
    <3> QED BY <2>3, <3>1 DEF MarkLetter, TypeOK, WorkerOnNotice
  <2>4. CASE LetterAccepted(l) \/ LetterThrows(l) \/ SenderDies(l)
    BY <2>4 DEF LetterAccepted, LetterThrows, SenderDies, TypeOK, WorkerOnNotice
  <2> QED BY <1>16, <2>2, <2>3, <2>4 DEF SenderStep
<1>17. ASSUME NEW r \in Recoveries, TokenRecovery(r) PROVE TypeOK' /\ WorkerOnNotice'
  <2>1. \A m \in Mails : Cancelled(row[m]) \in Row BY <1>t, RowUpdates, ErrorKinds
  <2>2. ASSUME NEW l \in Letters, RecoverLookup(r, l) PROVE TypeOK' /\ WorkerOnNotice'
    <3>1. recovery' \in [Recoveries -> Recovery] BY <2>2, <1>t DEF RecoverLookup, Recovery
    <3> QED BY <2>2, <3>1 DEF RecoverLookup, TypeOK, WorkerOnNotice
  <2>3. CASE RecoverCancel(r)
    <3>1. row' \in [Mails -> Row] BY <2>3, <1>t, <2>1 DEF RecoverCancel
    <3>2. recovery' \in [Recoveries -> Recovery] BY <2>3, <1>t, <1>w DEF RecoverCancel
    <3> QED BY <2>3, <3>1, <3>2 DEF RecoverCancel, TypeOK, WorkerOnNotice
  <2>4. CASE RecoverRotate(r)
    <3>1. PICK new \in Letters, S \in SUBSET Letters :
            /\ Rotated(recovery[r].mail, new, S)
            /\ recovery' = [recovery EXCEPT ![r] = [phase |-> "send", mail |-> new]]
      BY <2>4 DEF RecoverRotate
    <3>2. recovery' \in [Recoveries -> Recovery] BY <3>1, <1>t DEF Recovery
    <3>3. recovery[r].mail \in Letters \cup {NoMail} BY <1>t DEF Recovery
    <3>4. row' \in [Mails -> Row]
      <4> DEFINE old == recovery[r].mail
                 base == [row EXCEPT ![old] = Cancelled(@)]
      <4>1. base \in [Mails -> Row] BY <1>t, <2>1
      <4>2. [base[new] EXCEPT !.status = "PENDING"] \in Row BY <4>1, <1>t DEF Row
      <4>3. row' = [base EXCEPT ![new].status = "PENDING"] BY <3>1 DEF Rotated
      <4> QED BY <4>1, <4>2, <4>3
    <3>5. replaces' \in [Letters -> Letters \cup {NoMail}]
      BY <3>1, <3>3 DEF Rotated, TypeOK
    <3> QED BY <2>4, <3>1, <3>2, <3>4, <3>5 DEF RecoverRotate, Rotated, TypeOK, WorkerOnNotice
  <2>5. CASE RecoverRotateNull(r)
    <3>1. row' \in [Mails -> Row] BY <2>5, <1>t, <2>1 DEF RecoverRotateNull
    <3>2. recovery' \in [Recoveries -> Recovery] BY <2>5, <1>t, <1>w DEF RecoverRotateNull
    <3> QED BY <2>5, <3>1, <3>2 DEF RecoverRotateNull, TypeOK, WorkerOnNotice
  <2> QED BY <1>17, <2>2, <2>3, <2>4, <2>5 DEF TokenRecovery
<1>18. CASE UNCHANGED vars BY <1>18 DEF vars, TypeOK, WorkerOnNotice
<1> QED BY <1>1, <1>2, <1>3, <1>4, <1>5, <1>6, <1>7, <1>8, <1>9, <1>10, <1>11, <1>12, <1>13,
           <1>14, <1>15, <1>16, <1>17, <1>18 DEF Next, WorkerStep

LEMMA TypeInit == Init => TypeOK /\ WorkerOnNotice
BY DEF Init, TypeOK, WorkerOnNotice, Mails, Row, Errors, Worker, Resting, Listed, Unlisted,
       Recovery, Waiting, Kinds

(* The row of a mail, its link and what the processes hold of it keep      *)
(* their types, and the worker is always about a notice                    *)
(* (mail-delivery-repository.ts, process-next-mail-delivery.ts).           *)
THEOREM TypeCorrect == Spec => [](TypeOK /\ WorkerOnNotice)
BY TypeInit, TypeStep, PTL DEF Spec

------------------------------------------------------------------------------
(* Notices: attempts and giving up.                                        *)

(* A step that leaves the notices' rows and their readers alone.           *)
LEMMA NoticesUntouched ==
    ASSUME NoticeInv, UNCHANGED <<worker, refused, stale>>,
           WorkerOnNotice, \A n \in Notices : row'[n] = row[n]
    PROVE  NoticeInv'
BY DEF NoticeInv, WorkerOnNotice, WorkerInStep, Counted, ListedInTime, Judged, HadItsChances

LEMMA NoticeStep == TypeOK /\ WorkerOnNotice /\ NoticeInv /\ [Next]_vars => NoticeInv'
<1> SUFFICES ASSUME TypeOK, WorkerOnNotice, NoticeInv, [Next]_vars PROVE NoticeInv'
  OBVIOUS
<1>t. /\ row \in [Mails -> Row] /\ refused \subseteq Notices /\ worker \in Worker
      /\ stale \in [Notices -> Listed]
      /\ \A n \in Notices : n \in Mails /\ n \notin Letters /\ n # NoMail
      /\ \A l \in Letters : l \in Mails /\ l \notin Notices
      /\ \A n \in Notices : row[n] \in Row /\ row[n].attempt \in Nat /\ row[n].error \in Errors
      /\ \A n \in Notices : stale[n].attempt \in Nat
  BY DEF TypeOK, Mails, Row, Listed
<1>r. Resting.phase = "idle" /\ Unlisted.attempt = 0 /\ Unlisted.error = "none"
  BY DEF Resting, Unlisted
<1>m. MaxAttempts \in Nat OBVIOUS
<1> USE DEF NoticeInv
<1>q. ASSUME \A n \in Notices : Counted(n)' /\ ListedInTime(n)' /\ Judged(n)', WorkerInStep'
      PROVE  NoticeInv'
  BY <1>q
<1>1. ASSUME NEW k \in Notices, Claim(k) PROVE NoticeInv'
  <2>1. /\ row' = [row EXCEPT ![k] = Sending(row[k])]
        /\ Sending(row[k]).status = "SENDING"
        /\ Sending(row[k]).attempt = row[k].attempt + 1
        /\ Sending(row[k]).error = row[k].error
    BY <1>1, <1>t, RowUpdates, ErrorKinds DEF Claim
  <2>2. row[k].status = "PENDING" BY <1>1 DEF Claim, Pending
  <2>3. row'[k].status = "SENDING" /\ row'[k].attempt = row[k].attempt + 1
        /\ row'[k].error = row[k].error
        /\ \A n \in Notices : n # k => row'[n] = row[n]
    BY <2>1, <1>t
  <2>4. worker'.mail = k /\ worker'.attempt = row[k].attempt + 1 /\ worker'.error = "none"
    BY <1>1 DEF Claim, Resting
  <2>5. WorkerInStep' BY <2>3, <2>4 DEF WorkerInStep
  <2>6. ASSUME NEW n \in Notices PROVE Counted(n)' /\ ListedInTime(n)' /\ Judged(n)'
    <3>0. stale' = stale /\ refused' = refused BY <1>1 DEF Claim
    <3>1. CASE n # k BY <3>0, <3>1, <2>3 DEF Counted, ListedInTime, Judged, HadItsChances
    <3>2. CASE n = k
      <4>1. Counted(n)' BY <3>2, <2>2, <2>3, <1>t, <1>m DEF Counted
      <4>2. ListedInTime(n)' BY <3>0, <3>2, <2>2, <2>3, <1>t, <1>m DEF ListedInTime
      <4>3. HadItsChances(n) => HadItsChances(n)' BY <3>0, <3>2, <2>3, <1>t, <1>m DEF HadItsChances
      <4>4. stale[n].attempt <= row[n].attempt => stale'[n].attempt <= row'[n].attempt
        BY <3>0, <3>2, <2>3, <1>t
      <4>5. Judged(n)' BY <3>0, <3>2, <4>3, <4>4, <2>3 DEF Judged
      <4> QED BY <4>1, <4>2, <4>5
    <3> QED BY <3>1, <3>2
  <2> QED BY <2>5, <2>6, <1>q
<1>2. CASE ProviderAccepts \/ MarkSentThrows
  <2>1. worker.phase # "idle" /\ worker'.phase # "idle" /\ worker'.mail = worker.mail
        /\ worker'.attempt = worker.attempt
        /\ (worker'.error = "permanent" => worker.error = "permanent")
    BY <1>2, <1>t DEF ProviderAccepts, MarkSentThrows, Worker
  <2>2. UNCHANGED <<row, refused, stale>> BY <1>2 DEF ProviderAccepts, MarkSentThrows
  <2> QED BY <2>1, <2>2 DEF WorkerInStep, Counted, ListedInTime, Judged, HadItsChances
<1>3. CASE ProviderThrows
  <2>1. worker.phase # "idle" /\ worker'.mail = worker.mail /\ worker'.attempt = worker.attempt
        /\ (worker'.error = "permanent" => worker.mail \in refused')
        /\ refused \subseteq refused'
    BY <1>3, <1>t DEF ProviderThrows, Worker
  <2>2. UNCHANGED <<row, stale>> BY <1>3 DEF ProviderThrows
  <2> QED BY <2>1, <2>2 DEF WorkerInStep, Counted, ListedInTime, Judged, HadItsChances
<1>4. CASE MarkSent
  <2>1. worker.mail \in Notices BY <1>4 DEF MarkSent, WorkerOnNotice
  <2>2. /\ row'[worker.mail].status = "SENT"
        /\ row'[worker.mail].attempt = row[worker.mail].attempt
        /\ row'[worker.mail].error = row[worker.mail].error
        /\ \A n \in Notices : n # worker.mail => row'[n] = row[n]
    BY <1>4, <2>1, <1>t, RowUpdates, ErrorKinds DEF MarkSent
  <2>3. UNCHANGED <<refused, stale>> /\ worker'.phase = "idle" BY <1>4, <1>r DEF MarkSent
  <2>4. WorkerInStep' BY <2>3 DEF WorkerInStep
  <2>5. ASSUME NEW n \in Notices PROVE Counted(n)' /\ ListedInTime(n)' /\ Judged(n)'
    <3>1. CASE n # worker.mail
      BY <3>1, <2>2, <2>3 DEF Counted, ListedInTime, Judged, HadItsChances
    <3>2. CASE n = worker.mail
      BY <3>2, <2>2, <2>3 DEF Counted, ListedInTime, Judged, HadItsChances
    <3> QED BY <3>1, <3>2
  <2> QED BY <2>4, <2>5, <1>q
<1>5. CASE MarkRejected
  <2> DEFINE k == worker.mail
  <2>0. k \in Notices /\ worker.error \in Errors /\ worker.attempt = row[k].attempt
        /\ (worker.error = "permanent" => k \in refused)
    BY <1>5, <1>t DEF MarkRejected, WorkerOnNotice, WorkerInStep, Worker
  <2>1. UNCHANGED <<refused, stale>> /\ worker'.phase = "idle" BY <1>5, <1>r DEF MarkRejected
  <2>2. WorkerInStep' BY <2>1 DEF WorkerInStep
  <2>3. /\ row'[k].attempt = row[k].attempt
        /\ \/ /\ row[k].attempt < MaxAttempts /\ worker.error # "permanent"
              /\ row'[k].status = "PENDING" /\ row'[k].error = worker.error
           \/ /\ ~(row[k].attempt < MaxAttempts) \/ worker.error = "permanent"
              /\ row'[k].status = "FAILED"
        /\ \A n \in Notices : n # k => row'[n] = row[n]
    <3>1. CASE Retryable(worker.error, worker.attempt)
      <4>1. row' = [row EXCEPT ![k] = Retrying(row[k], worker.error)]
        BY <3>1, <1>5 DEF MarkRejected
      <4> QED BY <4>1, <3>1, <2>0, <1>t, RowUpdates DEF Retryable
    <3>2. CASE ~Retryable(worker.error, worker.attempt)
      <4>1. row' = [row EXCEPT ![k] = Failed(row[k], "permanent")]
        BY <3>2, <1>5 DEF MarkRejected
      <4> QED BY <4>1, <3>2, <2>0, <1>t, RowUpdates, ErrorKinds DEF Retryable
    <3> QED BY <3>1, <3>2
  <2>4. ASSUME NEW n \in Notices PROVE Counted(n)' /\ ListedInTime(n)' /\ Judged(n)'
    <3>1. CASE n # k
      BY <3>1, <2>1, <2>3 DEF Counted, ListedInTime, Judged, HadItsChances
    <3>2. CASE n = k
      <4>1. Counted(n)' BY <3>2, <2>0, <2>3, <1>t, <1>m DEF Counted
      <4>2. ListedInTime(n)' BY <3>2, <2>0, <2>1, <2>3, <1>t, <1>m DEF ListedInTime
      <4>3. HadItsChances(n) <=> HadItsChances(n)'
        BY <3>2, <2>0, <2>1, <2>3 DEF HadItsChances
      <4>4. row'[n].status = "FAILED" => HadItsChances(n)
        BY <3>2, <2>0, <2>3, <1>t, <1>m DEF HadItsChances
      <4>5. row'[n].error = "permanent" => HadItsChances(n)
        BY <3>2, <2>0, <2>3, <1>t, <1>m DEF HadItsChances
      <4>6. stale'[n].attempt <= row'[n].attempt BY <3>2, <2>0, <2>1, <2>3 DEF Judged
      <4>7. stale'[n].error = "permanent" => HadItsChances(n) BY <2>1 DEF Judged
      <4>8. Judged(n)' BY <4>3, <4>4, <4>5, <4>6, <4>7 DEF Judged
      <4> QED BY <4>1, <4>2, <4>8
    <3> QED BY <3>1, <3>2
  <2> QED BY <2>2, <2>4, <1>q
<1>6. CASE WorkerDies
  BY <1>6, <1>r DEF WorkerDies, WorkerInStep, Counted, ListedInTime, Judged, HadItsChances
<1>7. ASSUME NEW k \in Notices, LockAges(k) PROVE NoticeInv'
  <2>1. /\ \A n \in Notices : row'[n].attempt = row[n].attempt /\ row'[n].error = row[n].error
                             /\ row'[n].status = row[n].status
        /\ UNCHANGED <<worker, refused, stale>>
    BY <1>7, <1>t DEF LockAges, Row
  <2>2. WorkerInStep' BY <2>1 DEF WorkerInStep, WorkerOnNotice
  <2> QED BY <2>1, <2>2, <1>q DEF Counted, ListedInTime, Judged, HadItsChances
<1>8. CASE RecoverScan
  <2>1. UNCHANGED <<row, worker, refused>> BY <1>8 DEF RecoverScan
  <2>2. WorkerInStep' BY <2>1 DEF WorkerInStep
  <2>3. ASSUME NEW n \in Notices PROVE Counted(n)' /\ ListedInTime(n)' /\ Judged(n)'
    <3>1. CASE Overdue(n)
      <4>1. stale'[n].attempt = row[n].attempt /\ stale'[n].error = row[n].error
            /\ row[n].status = "SENDING"
        BY <3>1, <1>8 DEF RecoverScan, Overdue
      <4> QED BY <4>1, <2>1, <1>t, <1>m DEF Counted, ListedInTime, Judged, HadItsChances
    <3>2. CASE ~Overdue(n)
      <4>1. stale'[n] = Unlisted BY <3>2, <1>8 DEF RecoverScan
      <4> QED BY <4>1, <2>1, <1>r, <1>t DEF Counted, ListedInTime, Judged, HadItsChances
    <3> QED BY <3>1, <3>2
  <2> QED BY <2>2, <2>3, <1>q
<1>9. ASSUME NEW k \in Notices, RecoverRow(k) PROVE NoticeInv'
  <2>1. UNCHANGED <<worker, refused>> BY <1>9 DEF RecoverRow
  <2>2. /\ row'[k].attempt = row[k].attempt
        /\ \/ /\ stale[k].attempt < MaxAttempts /\ stale[k].error # "permanent"
              /\ row'[k].status = "PENDING" /\ row'[k].error = row[k].error
           \/ /\ ~(stale[k].attempt < MaxAttempts) \/ stale[k].error = "permanent"
              /\ row'[k].status = "FAILED"
        /\ \A n \in Notices : n # k => row'[n] = row[n]
    <3>1. CASE Retryable(stale[k].error, stale[k].attempt)
      <4>1. row' = [row EXCEPT ![k] = Reset(row[k])] BY <3>1, <1>9 DEF RecoverRow
      <4> QED BY <4>1, <3>1, <1>t, RowUpdates, ErrorKinds DEF Retryable
    <3>2. CASE ~Retryable(stale[k].error, stale[k].attempt)
      <4>1. row' = [row EXCEPT ![k] = Failed(row[k], "permanent")] BY <3>2, <1>9 DEF RecoverRow
      <4> QED BY <4>1, <3>2, <1>t, RowUpdates, ErrorKinds DEF Retryable
    <3> QED BY <3>1, <3>2
  <2>3. stale'[k] = Unlisted /\ \A n \in Notices : n # k => stale'[n] = stale[n]
    BY <1>9, <1>t DEF RecoverRow
  <2>4. WorkerInStep'
    BY <2>1, <2>2 DEF WorkerInStep, WorkerOnNotice
  <2>5. ASSUME NEW n \in Notices PROVE Counted(n)' /\ ListedInTime(n)' /\ Judged(n)'
    <3>1. CASE n # k
      BY <3>1, <2>1, <2>2, <2>3 DEF Counted, ListedInTime, Judged, HadItsChances
    <3>2. CASE n = k
      <4>0. stale[k].attempt <= row[k].attempt /\ (stale[k].error = "permanent" => HadItsChances(k))
        BY DEF Judged
      <4>1. Counted(n)' BY <3>2, <2>2, <1>t, <1>m, <1>9 DEF Counted, ListedInTime, RecoverRow
      <4>2. ListedInTime(n)' BY <3>2, <2>3 DEF ListedInTime
      <4>3. HadItsChances(n) <=> HadItsChances(n)' BY <3>2, <2>1, <2>2 DEF HadItsChances
      <4>4. row'[n].status = "FAILED" => HadItsChances(n)
        BY <4>0, <3>2, <2>2, <1>t, <1>m DEF HadItsChances
      <4>5. row'[n].error = "permanent" => HadItsChances(n)
        BY <4>4, <3>2, <2>2 DEF Judged
      <4>6. stale'[n].attempt <= row'[n].attempt /\ stale'[n].error = "none"
        <5>1. stale'[n].attempt = 0 /\ stale'[n].error = "none" BY <3>2, <2>3, <1>r
        <5>2. row'[n].attempt \in Nat BY <3>2, <2>2, <1>t
        <5> QED BY <5>1, <5>2
      <4>7. Judged(n)' BY <4>3, <4>4, <4>5, <4>6 DEF Judged
      <4> QED BY <4>1, <4>2, <4>7
    <3> QED BY <3>1, <3>2
  <2> QED BY <2>4, <2>5, <1>q
<1>10. CASE RecoverDies
  <2>1. UNCHANGED <<row, worker, refused>> /\ \A n \in Notices : stale'[n] = Unlisted
    BY <1>10 DEF RecoverDies
  <2> QED BY <2>1, <1>r, <1>t DEF WorkerInStep, Counted, ListedInTime, Judged, HadItsChances
<1>11. ASSUME NEW l \in Letters, NEW n \in Notices, ResetPassword(l, n) PROVE NoticeInv'
  <2>1. /\ row[n].status = "absent"
        /\ row'[n].status = "PENDING" /\ row'[n].attempt = row[n].attempt
        /\ row'[n].error = row[n].error
        /\ \A k \in Notices : k # n => row'[k] = row[k]
        /\ UNCHANGED <<worker, refused, stale>>
    BY <1>11, <1>t DEF ResetPassword, Absent, Row
  <2>2. WorkerInStep' BY <2>1 DEF WorkerInStep, WorkerOnNotice
  <2>3. ASSUME NEW k \in Notices PROVE Counted(k)' /\ ListedInTime(k)' /\ Judged(k)'
    <3>1. CASE k # n
      BY <3>1, <2>1 DEF Counted, ListedInTime, Judged, HadItsChances
    <3>2. CASE k = n
      BY <3>2, <2>1 DEF Counted, ListedInTime, Judged, HadItsChances
    <3> QED BY <3>1, <3>2
  <2> QED BY <2>2, <2>3, <1>q
<1>12. ASSUME NEW l \in Letters, Issue(l) \/ VerifyEmail(l) \/ SenderStep(l) PROVE NoticeInv'
  <2>1. UNCHANGED <<worker, refused, stale>>
    BY <1>12 DEF Issue, VerifyEmail, SenderStep, MarkSending, LetterAccepted, LetterThrows,
                 MarkLetter, SenderDies
  <2>2. \A n \in Notices : row'[n] = row[n]
    BY <1>12, <1>t DEF Issue, Issued, VerifyEmail, SenderStep, MarkSending, LetterAccepted,
                      LetterThrows, MarkLetter, SenderDies
  <2> QED BY <2>1, <2>2, NoticesUntouched
<1>13. ASSUME \/ InvitationEnds \/ \E l \in Letters : OpenLink(l) \/ CallDies(l)
       PROVE  NoticeInv'
  BY <1>13, NoticesUntouched DEF InvitationEnds, OpenLink, CallDies
<1>14. ASSUME NEW r \in Recoveries, TokenRecovery(r) PROVE NoticeInv'
  <2>1. UNCHANGED <<worker, refused, stale>>
    BY <1>14 DEF TokenRecovery, RecoverLookup, RecoverCancel, RecoverRotate, RecoverRotateNull
  <2>2. recovery[r].mail \in Letters \cup {NoMail}
    BY DEF TypeOK, Recovery
  <2>3. \A n \in Notices : row'[n] = row[n]
    BY <1>14, <1>t, <2>2 DEF TokenRecovery, RecoverLookup, RecoverCancel, RecoverRotate, Rotated,
                            RecoverRotateNull
  <2> QED BY <2>1, <2>3, NoticesUntouched
<1>15. CASE UNCHANGED vars BY <1>15, NoticesUntouched DEF vars
<1> QED BY <1>1, <1>2, <1>3, <1>4, <1>5, <1>6, <1>7, <1>8, <1>9, <1>10, <1>11, <1>12, <1>13,
           <1>14, <1>15 DEF Next, WorkerStep

LEMMA NoticeInit == Init => NoticeInv
BY DEF Init, NoticeInv, WorkerInStep, Counted, ListedInTime, Judged, HadItsChances, Mails,
       Resting, Unlisted

(* One recovery working from a stale list can cost a notice one attempt    *)
(* more than it was allowed, and no number of them more than one           *)
(* (recover-stale-mail-deliveries.ts).                                     *)
THEOREM AttemptsStayBounded == Spec => []AttemptsBounded
<1>1. NoticeInv => AttemptsBounded BY DEF NoticeInv, Counted, AttemptsBounded
<1> QED BY <1>1, TypeInit, TypeStep, NoticeInit, NoticeStep, PTL DEF Spec

(* Whoever gives a notice up, on however old a reading of its row, the     *)
(* provider has refused it for good or it has had all its attempts         *)
(* (process-next-mail-delivery.ts, recover-stale-mail-deliveries.ts).      *)
THEOREM GivenUpForAReason == Spec => []NoticesNotGivenUpEarly
<1>1. NoticeInv => NoticesNotGivenUpEarly
  BY DEF NoticeInv, Judged, HadItsChances, NoticesNotGivenUpEarly
<1> QED BY <1>1, TypeInit, TypeStep, NoticeInit, NoticeStep, PTL DEF Spec

------------------------------------------------------------------------------
(* Letters: cancellation and replacement.                                  *)

(* A step that leaves letters alone, whatever it does to notices.          *)
LEMMA LettersUntouched ==
    ASSUME TypeOK, LetterInv, CancelInv, UNCHANGED <<kind, link, settled, sender, recovery, replaces>>,
           \A l \in Letters : row'[l].status = row[l].status
    PROVE  LetterInv' /\ CancelInv'
<1>1. replaces \in [Letters -> Letters \cup {NoMail}] BY DEF TypeOK
<1>2. LetterInv' BY <1>1 DEF LetterInv, Absent, Pending
<1>3. CancelInv' BY DEF CancelInv, NothingToSend, LetterInv
<1> QED BY <1>2, <1>3

(* Links only die, and matters only settle.                                *)
LEMMA NothingToSendStays ==
    ASSUME NEW l \in Letters, NothingToSend(l), kind' = kind, settled \subseteq settled',
           link[l] = "dead" => link'[l] = "dead"
    PROVE  NothingToSend(l)'
BY DEF NothingToSend

LEMMA LetterStep ==
    TypeOK /\ WorkerOnNotice /\ LetterInv /\ CancelInv /\ [Next]_vars => LetterInv' /\ CancelInv'
<1> SUFFICES ASSUME TypeOK, WorkerOnNotice, LetterInv, CancelInv, [Next]_vars
             PROVE  LetterInv' /\ CancelInv'
  OBVIOUS
<1>t. /\ row \in [Mails -> Row] /\ link \in [Letters -> {"none", "usable", "dead"}]
      /\ replaces \in [Letters -> Letters \cup {NoMail}]
      /\ recovery \in [Recoveries -> Recovery]
      /\ \A n \in Notices : n \in Mails /\ n \notin Letters
      /\ \A l \in Letters : l \in Mails /\ l \notin Notices /\ l # NoMail /\ row[l] \in Row
      /\ kind \in [Letters -> Kinds]
  BY DEF TypeOK, Mails
<1>s. sender \in [Letters -> {"none", "holding", "sending", "accepted", "rejected", "gone"}]
  BY DEF TypeOK
<1>1. CASE WorkerStep \/ WorkerDies \/ RecoverScan \/ RecoverDies
  <2>1. UNCHANGED <<kind, link, settled, sender, recovery, replaces>>
    BY <1>1 DEF WorkerStep, Claim, ProviderAccepts, ProviderThrows, MarkSent, MarkSentThrows,
                MarkRejected, WorkerDies, RecoverScan, RecoverDies
  <2>2. ASSUME NEW l \in Letters PROVE row'[l] = row[l]
    <3>1. CASE MarkSent \/ MarkRejected
      <4>1. worker.mail \in Notices BY <3>1 DEF MarkSent, MarkRejected, WorkerOnNotice
      <4> QED BY <1>t, <3>1, <4>1 DEF MarkSent, MarkRejected
    <3>2. CASE \E n \in Notices : Claim(n) BY <3>2, <1>t DEF Claim
    <3>3. CASE ~(MarkSent \/ MarkRejected \/ \E n \in Notices : Claim(n))
      BY <1>1, <3>3 DEF WorkerStep, ProviderAccepts, ProviderThrows, MarkSentThrows, WorkerDies,
                        RecoverScan, RecoverDies
    <3> QED BY <3>1, <3>2, <3>3
  <2> QED BY <2>1, <2>2, LettersUntouched
<1>2. ASSUME NEW n \in Notices, LockAges(n) \/ RecoverRow(n) PROVE LetterInv' /\ CancelInv'
  <2>1. UNCHANGED <<kind, link, settled, sender, recovery, replaces>> /\ \A l \in Letters : row'[l] = row[l]
    BY <1>2, <1>t DEF LockAges, RecoverRow
  <2> QED BY <2>1, LettersUntouched
<1>3. ASSUME NEW l \in Letters, Issue(l) PROVE LetterInv' /\ CancelInv'
  <2>1. PICK S \in SUBSET Letters : Superseded(kind[l], S) /\ Issued(l, S) BY <1>3 DEF Issue
  <2>2. /\ Absent(l) /\ row'[l].status = "PENDING"
        /\ \A m \in Letters : m # l => row'[m] = row[m]
    BY <2>1, <1>t DEF Issued, Row
  <2>3. /\ link'[l] = "usable" /\ UNCHANGED <<kind, settled, recovery, replaces>>
        /\ \A m \in Letters : m # l => link'[m] = link[m] \/ link'[m] = "dead"
        /\ \A m \in Letters : m # l => sender'[m] = sender[m]
    BY <1>3, <2>1, <1>t, <1>s DEF Issue, Issued
  <2>4. LetterInv' BY <2>2, <2>3, <1>t DEF LetterInv, Absent, Pending
  <2>5. ASSUME NEW m \in Letters, m # l, NothingToSend(m) PROVE NothingToSend(m)'
    BY <2>3, <2>5, NothingToSendStays
  <2>6. CancelInv' BY <2>2, <2>3, <2>5 DEF CancelInv, LetterInv, Absent
  <2> QED BY <2>4, <2>6
<1>4. CASE InvitationEnds
  <2>1. /\ UNCHANGED <<row, kind, sender, recovery, replaces>> /\ settled \subseteq settled'
        /\ \A m \in Letters : link'[m] = link[m] \/ link'[m] = "dead"
    BY <1>4 DEF InvitationEnds
  <2>2. LetterInv' BY <2>1, <1>t DEF LetterInv, Absent, Pending
  <2>3. \A m \in Letters : NothingToSend(m) => NothingToSend(m)' BY <2>1, NothingToSendStays
  <2> QED BY <2>1, <2>2, <2>3 DEF CancelInv, LetterInv
<1>5. ASSUME NEW l \in Letters, VerifyEmail(l) PROVE LetterInv' /\ CancelInv'
  <2>1. /\ UNCHANGED <<row, kind, sender, recovery, replaces>> /\ settled \subseteq settled'
        /\ \A m \in Letters : link'[m] = link[m] \/ link'[m] = "dead"
    BY <1>5, <1>t DEF VerifyEmail
  <2>2. LetterInv' BY <2>1, <1>t DEF LetterInv, Absent, Pending
  <2>3. \A m \in Letters : NothingToSend(m) => NothingToSend(m)' BY <2>1, NothingToSendStays
  <2> QED BY <2>1, <2>2, <2>3 DEF CancelInv, LetterInv
<1>6. ASSUME NEW l \in Letters, NEW n \in Notices, ResetPassword(l, n) PROVE LetterInv' /\ CancelInv'
  <2>1. /\ UNCHANGED <<kind, settled, sender, recovery, replaces>>
        /\ \A m \in Letters : row'[m] = row[m]
        /\ \A m \in Letters : link'[m] = link[m] \/ link'[m] = "dead"
    BY <1>6, <1>t DEF ResetPassword
  <2>2. LetterInv' BY <2>1, <1>t DEF LetterInv, Absent, Pending
  <2>3. \A m \in Letters : NothingToSend(m) => NothingToSend(m)' BY <2>1, NothingToSendStays
  <2> QED BY <2>1, <2>2, <2>3 DEF CancelInv, LetterInv
<1>7. ASSUME NEW l \in Letters, SenderStep(l) PROVE LetterInv' /\ CancelInv'
  <2>1. UNCHANGED <<kind, link, settled, recovery, replaces>>
    BY <1>7 DEF SenderStep, MarkSending, LetterAccepted, LetterThrows, MarkLetter, SenderDies
  <2>2. /\ \A m \in Letters : m # l => row'[m] = row[m]
        /\ row'[l] = row[l] \/ row'[l].status \in {"SENDING", "SENT", "FAILED"}
        /\ \A m \in Letters : m # l => sender'[m] = sender[m]
        /\ sender[l] # "none"
    <3>1. CASE MarkSending(l)
      <4>1. row' = [row EXCEPT ![l] = Sending(row[l])] /\ sender[l] = "holding"
        BY <3>1 DEF MarkSending
      <4>2. Sending(row[l]).status = "SENDING" BY <1>t, RowUpdates, ErrorKinds
      <4> QED BY <3>1, <4>1, <4>2, <1>t, <1>s DEF MarkSending
    <3>2. CASE MarkLetter(l)
      <4>1. PICK e \in {"retryable", "permanent"} :
              row' = [row EXCEPT ![l] = IF sender[l] = "accepted" THEN Sent(row[l])
                                                                   ELSE Failed(row[l], e)]
        BY <3>2 DEF MarkLetter
      <4>2. Sent(row[l]).status = "SENT" /\ Failed(row[l], e).status = "FAILED"
        <5>1. e \in Errors BY DEF Errors
        <5> QED BY <5>1, <1>t, RowUpdates
      <4>3. row'[l].status \in {"SENT", "FAILED"} /\ \A m \in Letters : m # l => row'[m] = row[m]
        BY <4>1, <4>2, <1>t
      <4> QED BY <3>2, <4>3, <1>s DEF MarkLetter
    <3>3. CASE LetterAccepted(l) \/ LetterThrows(l) \/ SenderDies(l)
      BY <3>3, <1>s DEF LetterAccepted, LetterThrows, SenderDies
    <3> QED BY <1>7, <3>1, <3>2, <3>3 DEF SenderStep
  <2>3. LetterInv'
    <3>1. \A m \in Letters : row'[m].status = "absent" => Absent(m) BY <2>2 DEF Absent
    <3>2. \A m \in Letters : row'[m].status = "PENDING" => Pending(m) BY <2>2 DEF Pending
    <3>4. ASSUME NEW m \in Letters, replaces[m] # NoMail
          PROVE  /\ row'[m].status # "absent"
                 /\ row'[replaces[m]].status \notin {"absent", "PENDING"}
      <4>1. replaces[m] \in Letters BY <3>4, <1>t
      <4> QED BY <3>1, <3>2, <3>4, <4>1 DEF LetterInv
    <3>5. \A m \in Letters : row'[m].status # "absent" => link[m] # "none"
      BY <2>2 DEF LetterInv, Absent
    <3>6. \A m \in Letters : sender'[m] # "none" => row'[m].status # "absent"
      BY <3>1, <2>2 DEF LetterInv
    <3>7. \A r \in Recoveries : recovery[r].phase \in {"cancel", "rotate"} =>
             recovery[r].mail \in Letters /\ row'[recovery[r].mail].status # "absent"
      BY <3>1 DEF LetterInv
    <3> QED BY <2>1, <3>4, <3>5, <3>6, <3>7 DEF LetterInv, Absent, Pending
  <2>4. CancelInv' BY <2>1, <2>2 DEF CancelInv, NothingToSend, LetterInv
  <2> QED BY <2>3, <2>4
<1>8. ASSUME NEW r \in Recoveries, NEW l \in Letters, RecoverLookup(r, l)
      PROVE  LetterInv' /\ CancelInv'
  <2>1. UNCHANGED <<row, kind, link, settled, sender, replaces>> BY <1>8 DEF RecoverLookup
  <2>2. /\ recovery'[r].mail = l
        /\ recovery'[r].phase = "cancel" => ~Reissuable(l)
        /\ \A q \in Recoveries : q # r => recovery'[q] = recovery[q]
    BY <1>8, <1>t DEF RecoverLookup
  <2>3. ~Absent(l) BY <1>8 DEF RecoverLookup, Pending, Absent
  <2>4. LetterInv' BY <2>1, <2>2, <2>3, <1>t DEF LetterInv, Absent, Pending
  <2>5. ~Reissuable(l) => NothingToSend(l)
    <3>1. kind[l] \in {"invitation", "verification", "reset"} /\ link[l] \in {"usable", "dead"}
      BY <2>3, <1>t DEF LetterInv, Kinds
    <3> QED BY <3>1 DEF Reissuable, NothingToSend
  <2>6. CancelInv' BY <2>1, <2>2, <2>5 DEF CancelInv, NothingToSend
  <2> QED BY <2>4, <2>6
<1>9. ASSUME NEW r \in Recoveries, RecoverCancel(r) \/ RecoverRotateNull(r)
      PROVE  LetterInv' /\ CancelInv'
  <2> DEFINE old == recovery[r].mail
  <2>1. UNCHANGED <<kind, link, settled, sender, replaces>> /\ recovery[r].phase \in {"cancel", "rotate"}
    BY <1>9 DEF RecoverCancel, RecoverRotateNull
  <2>2. old \in Letters /\ ~Absent(old) BY <2>1 DEF LetterInv
  <2>3. recovery'[r].phase = "idle" /\ \A q \in Recoveries : q # r => recovery'[q] = recovery[q]
    BY <1>9, <1>t DEF RecoverCancel, RecoverRotateNull, Waiting
  <2>4. \/ row' = row
        \/ /\ NothingToSend(old) /\ row'[old].status = "CANCELLED"
           /\ \A m \in Letters : m # old => row'[m] = row[m]
    <3>1. CASE RecoverCancel(r)
      <4>1. NothingToSend(old) BY <3>1 DEF RecoverCancel, CancelInv
      <4> QED BY <4>1, <3>1, <2>2, <1>t, RowUpdates, ErrorKinds DEF RecoverCancel
    <3>2. CASE RecoverRotateNull(r)
      BY <3>2, <2>2, <1>t, RowUpdates, ErrorKinds DEF RecoverRotateNull, NothingToSend
    <3> QED BY <1>9, <3>1, <3>2
  <2>5. LetterInv' BY <2>1, <2>2, <2>3, <2>4, <1>t DEF LetterInv, Absent, Pending
  <2>6. CancelInv' BY <2>1, <2>2, <2>3, <2>4 DEF CancelInv, NothingToSend
  <2> QED BY <2>5, <2>6
<1>10. ASSUME NEW r \in Recoveries, RecoverRotate(r) PROVE LetterInv' /\ CancelInv'
  <2>0. PICK old : old = recovery[r].mail OBVIOUS
  <2>1. PICK new \in Letters, S \in SUBSET Letters :
          /\ Rotated(old, new, S)
          /\ recovery' = [recovery EXCEPT ![r] = [phase |-> "send", mail |-> new]]
    BY <2>0, <1>10 DEF RecoverRotate
  <2>2. old \in Letters /\ ~Absent(old) /\ Pending(old) /\ Absent(new) /\ old # new
    BY <2>0, <1>10, <2>1 DEF RecoverRotate, LetterInv, Rotated, StillPending
  <2>3. /\ row'[old].status = "CANCELLED" /\ row'[new].status = "PENDING"
        /\ \A m \in Letters : m # old /\ m # new => row'[m] = row[m]
    <3> DEFINE base == [row EXCEPT ![old] = Cancelled(row[old])]
    <3>1. row' = [base EXCEPT ![new].status = "PENDING"] BY <2>1 DEF Rotated
    <3>2. base[new] = row[new] /\ base[old] = Cancelled(row[old])
          /\ \A m \in Letters : m # old => base[m] = row[m]
      BY <2>2, <1>t
    <3>3. row'[new] = [row[new] EXCEPT !.status = "PENDING"] BY <3>1, <3>2, <1>t
    <3>4. row'[new].status = "PENDING" BY <3>3, <1>t DEF Row
    <3>5. row'[old].status = "CANCELLED"
      BY <3>1, <3>2, <2>2, <1>t, RowUpdates, ErrorKinds
    <3>6. \A m \in Letters : m # old /\ m # new => row'[m] = row[m] BY <3>1, <3>2, <1>t
    <3> QED BY <3>4, <3>5, <3>6
  <2>4. /\ UNCHANGED <<kind, settled>> /\ link'[new] = "usable" /\ link'[old] = "dead"
        /\ \A m \in Letters : m # new => link'[m] = link[m] \/ link'[m] = "dead"
    <3>1. link[old] \in {"usable", "dead"} BY <2>2, <1>t DEF LetterInv
    <3>2. link' = [m \in Letters |-> IF m = new THEN "usable" ELSE IF m \in S THEN "dead" ELSE link[m]]
          /\ (link[old] = "usable" => old \in S)
      BY <2>1 DEF Rotated
    <3> QED BY <1>10, <3>1, <3>2, <2>2 DEF RecoverRotate
  <2>5. /\ replaces' = [replaces EXCEPT ![new] = old]
        /\ \A m \in Letters : m # new => sender'[m] = sender[m]
    BY <2>1, <1>s DEF Rotated
  <2>6. recovery'[r].phase = "send" /\ \A q \in Recoveries : q # r => recovery'[q] = recovery[q]
    BY <2>1, <1>t
  <2>7. LetterInv'
    <3>1. \A m \in Letters : ~Absent(m)' => link'[m] # "none"
      BY <2>2, <2>3, <2>4 DEF LetterInv, Absent
    <3>2. ASSUME NEW m \in Letters, replaces'[m] # NoMail
          PROVE  /\ row'[m].status # "absent"
                 /\ row'[replaces'[m]].status \notin {"absent", "PENDING"}
      <4>1. CASE m = new BY <4>1, <2>2, <2>3, <2>5, <1>t DEF Absent, Pending
      <4>2. CASE m # new
        <5>1. replaces'[m] = replaces[m] /\ replaces[m] \in Letters BY <4>2, <3>2, <2>5, <1>t
        <5>2. ~Absent(m) /\ ~Absent(replaces[m]) /\ ~Pending(replaces[m])
          BY <5>1, <3>2 DEF LetterInv
        <5>3. replaces[m] # old /\ replaces[m] # new BY <5>2, <2>2
        <5> QED BY <5>1, <5>2, <5>3, <4>2, <2>3 DEF Absent, Pending
      <4> QED BY <4>1, <4>2
    <3>3. \A q \in Recoveries : recovery'[q].phase \in {"cancel", "rotate"} =>
            recovery'[q].mail \in Letters /\ row'[recovery'[q].mail].status # "absent"
      BY <2>2, <2>3, <2>6 DEF LetterInv, Absent
    <3>4. \A m \in Letters : sender'[m] # "none" => row'[m].status # "absent"
      BY <2>3, <2>5 DEF LetterInv, Absent
    <3> QED BY <3>1, <3>2, <3>3, <3>4 DEF LetterInv, Absent, Pending
  <2>8. ASSUME NEW m \in Letters, m # new, NothingToSend(m) PROVE NothingToSend(m)'
    BY <2>4, <2>8, NothingToSendStays
  <2>9. NothingToSend(old)' BY <2>4 DEF NothingToSend
  <2>10. ASSUME NEW m \in Letters, row'[m].status = "CANCELLED" PROVE NothingToSend(m)'
    BY <2>3, <2>8, <2>9, <2>10 DEF CancelInv
  <2>11. ASSUME NEW q \in Recoveries, recovery'[q].phase = "cancel"
         PROVE  NothingToSend(recovery[q].mail)' /\ recovery'[q] = recovery[q]
    <3>1. q # r /\ recovery'[q] = recovery[q] BY <2>6, <2>11
    <3>2. PICK m \in Letters : m = recovery[q].mail BY <3>1, <2>11 DEF LetterInv
    <3>3. NothingToSend(m) /\ m # new BY <3>1, <3>2, <2>2, <2>11 DEF CancelInv, LetterInv
    <3>4. NothingToSend(m)' BY <3>3, <2>8
    <3> QED BY <3>1, <3>2, <3>4 DEF NothingToSend
  <2> QED BY <2>7, <2>10, <2>11 DEF CancelInv
<1>11. CASE UNCHANGED vars BY <1>11, LettersUntouched DEF vars
<1>12. ASSUME NEW l \in Letters, OpenLink(l) \/ CallDies(l) PROVE LetterInv' /\ CancelInv'
  BY <1>12, LettersUntouched DEF OpenLink, CallDies
<1> QED BY <1>1, <1>2, <1>3, <1>4, <1>5, <1>6, <1>7, <1>8, <1>9, <1>10, <1>11, <1>12
       DEF Next, TokenRecovery

LEMMA LetterInit == Init => LetterInv /\ CancelInv
BY DEF Init, LetterInv, CancelInv, NothingToSend, Absent, Pending, Mails, Waiting

(* Whatever is issued, used or settled while any number of recoveries run, *)
(* a cancelled invitation or verification leaves nobody waiting for a link *)
(* that only it carried (recover-stale-token-deliveries.ts).               *)
THEOREM CancelledAreReplaced == Spec => []CancelledLettersReplaced
<1>1. CancelInv => CancelledLettersReplaced
  BY DEF CancelInv, NothingToSend, CancelledLettersReplaced
<1> QED BY <1>1, TypeInit, TypeStep, LetterInit, LetterStep, PTL DEF Spec

LEMMA ReplacedStep == TypeOK /\ LetterInv /\ ReplacedOnce /\ [Next]_vars => ReplacedOnce'
<1> SUFFICES ASSUME TypeOK, LetterInv, ReplacedOnce, [Next]_vars PROVE ReplacedOnce'
  OBVIOUS
<1>1. ASSUME NEW r \in Recoveries, RecoverRotate(r) PROVE ReplacedOnce'
  <2>0. PICK old : old = recovery[r].mail OBVIOUS
  <2>1. PICK new \in Letters, S \in SUBSET Letters : Rotated(old, new, S)
    BY <2>0, <1>1 DEF RecoverRotate
  <2>2. replaces' = [replaces EXCEPT ![new] = old] /\ Pending(old)
    BY <2>0, <2>1, <1>1 DEF RecoverRotate, Rotated, StillPending
  <2>3. \A m \in Letters : replaces[m] # NoMail => replaces[m] # old
    BY <2>2 DEF LetterInv
  <2>4. old # NoMail BY <2>0, <1>1 DEF RecoverRotate, LetterInv
  <2> QED BY <2>2, <2>3, <2>4 DEF ReplacedOnce, TypeOK
<1>2. CASE ~(\E r \in Recoveries : RecoverRotate(r))
  <2>1. replaces' = replaces
    BY <1>2 DEF Next, vars, WorkerStep, Claim, ProviderAccepts, ProviderThrows, MarkSent,
                MarkSentThrows, MarkRejected, WorkerDies, LockAges, RecoverRow, RecoverScan,
                RecoverDies, Issue, OpenLink, CallDies, VerifyEmail, ResetPassword, SenderStep,
                MarkSending,
                LetterAccepted, LetterThrows, MarkLetter, SenderDies, InvitationEnds,
                TokenRecovery, RecoverLookup, RecoverCancel, RecoverRotateNull
  <2> QED BY <2>1 DEF ReplacedOnce
<1> QED BY <1>1, <1>2

(* However many recoveries have listed a stale letter, only one replaces   *)
(* it (markMailDeliveryCancelledIfPending).                                *)
THEOREM ReplacedOnlyOnce == Spec => []ReplacedOnce
<1>1. Init => ReplacedOnce BY DEF Init, ReplacedOnce
<1> QED BY <1>1, TypeInit, TypeStep, LetterInit, LetterStep, ReplacedStep, PTL DEF Spec

------------------------------------------------------------------------------
(* Refinement of OneTimeLinks.                                             *)

FreshInv ==
    \A l \in Letters : /\ Absent(l) => link[l] = "none"
                       /\ opened[l] > 0 => link[l] # "none"

LinkUntouched == UNCHANGED <<kind, link, opened, settled, replaces>>

(* A new link and the ones it supersedes, in the terms of OneTimeLinks.    *)
LEMMA SupersedingMakes ==
    ASSUME TypeOK, NEW l \in Letters, NEW S \in SUBSET Letters, link[l] = "none",
           Superseded(kind[l], S), kind[l] = "invitation" => "invitation" \notin settled,
           link' = [m \in Letters |->
                      IF m = l THEN "usable" ELSE IF m \in S THEN "dead" ELSE link[m]]
    PROVE  Links!Made(l)
<1>1. link' \in [Letters -> {"none", "usable", "dead"}]
  BY DEF TypeOK
<1>2. ASSUME NEW m \in Letters \ {l} PROVE link'[m] = link[m] \/ Links!Dies(m, kind[l])
  <2>1. CASE m \in S
    BY <2>1 DEF Superseded, Links!Dies
  <2>2. CASE m \notin S
    BY <2>2
  <2> QED BY <2>1, <2>2
<1>3. ASSUME kind[l] = "invitation", NEW m \in Letters \ {l}, kind[m] = "invitation"
      PROVE  link'[m] # "usable"
  <2>1. link[m] = "usable" => m \in S
    BY <1>3 DEF Superseded
  <2> QED BY <2>1
<1> QED BY <1>1, <1>2, <1>3 DEF Links!Made

LEMMA IssueMakes ==
    ASSUME TypeOK, FreshInv, NEW l \in Letters, Issue(l)
    PROVE  Links!Issue(l)
<1>1. PICK S \in SUBSET Letters : Superseded(kind[l], S) /\ Issued(l, S)
  BY DEF Issue
<1>2. link[l] = "none"
  BY <1>1 DEF Issued, FreshInv
<1>3. Links!Made(l)
  BY <1>1, <1>2, SupersedingMakes DEF Issue, Issued
<1> QED BY <1>3 DEF Issue, Links!Issue

(* The rotation transaction: the row it cancels was PENDING, so no letter  *)
(* has replaced it, and its link has been made.                            *)
LEMMA RotationReplaces ==
    ASSUME TypeOK, LetterInv, FreshInv, NEW r \in Recoveries, RecoverRotate(r)
    PROVE  \E old, new \in Letters : Links!Replace(old, new)
<1> DEFINE old == recovery[r].mail
<1>1. old \in Letters /\ ~Absent(old) /\ Pending(old)
  BY DEF RecoverRotate, LetterInv, StillPending
<1>2. PICK new \in Letters, S \in SUBSET Letters : Rotated(old, new, S)
  BY DEF RecoverRotate
<1> HIDE DEF old
<1>3. kind[new] = kind[old] /\ link[new] = "none" /\ new # old
  BY <1>1, <1>2 DEF Rotated, FreshInv
<1>4. link' = [m \in Letters |-> IF m = new THEN "usable" ELSE IF m \in S THEN "dead" ELSE link[m]]
  BY <1>2 DEF Rotated
<1>5. kind[old] = "invitation" => "invitation" \notin settled
  BY DEF RecoverRotate, old
<1>6. Links!Made(new)
  BY <1>2, <1>3, <1>4, <1>5, SupersedingMakes DEF Rotated
<1>7. link'[old] = "dead"
  <2>1. link[old] # "none" /\ (link[old] = "usable" => old \in S)
    BY <1>1, <1>2 DEF LetterInv, Rotated
  <2>2. link[old] \in {"none", "usable", "dead"}
    BY <1>1 DEF TypeOK
  <2>3. link'[old] = IF old \in S THEN "dead" ELSE link[old]
    BY <1>1, <1>3, <1>4
  <2> QED BY <2>1, <2>2, <2>3
<1>8. \A l \in Letters : replaces[l] # old
  BY <1>1 DEF LetterInv
<1>9. replaces' = [replaces EXCEPT ![new] = old]
  BY <1>2 DEF Rotated
<1>10. UNCHANGED <<kind, opened, settled>>
  BY DEF RecoverRotate
<1> QED BY <1>1, <1>3, <1>6, <1>7, <1>8, <1>9, <1>10 DEF Links!Replace

LEMMA VerificationUses ==
    ASSUME TypeOK, NEW l \in Letters, VerifyEmail(l)
    PROVE  Links!Use(l)
<1>1. link' = [link EXCEPT ![l] = "dead"] /\ kind[l] = "verification"
  BY DEF VerifyEmail
<1>2. link' \in [Letters -> {"none", "usable", "dead"}] /\ link'[l] = "dead"
  BY <1>1 DEF TypeOK
<1>3. \A m \in Letters \ {l} : link'[m] = link[m]
  BY <1>1 DEF TypeOK
<1>4. settled' = settled \cup ({kind[l]} \ {"reset"})
  BY <1>1 DEF VerifyEmail
<1> QED BY <1>1, <1>2, <1>3, <1>4 DEF VerifyEmail, Links!Use, Links!Done

LEMMA ResetUses ==
    ASSUME TypeOK, NEW l \in Letters, NEW n \in Notices, ResetPassword(l, n)
    PROVE  Links!Use(l)
<1>1. PICK S \in SUBSET Letters :
        /\ Superseded("reset", S)
        /\ link' = [m \in Letters |-> IF m = l \/ m \in S THEN "dead" ELSE link[m]]
  BY DEF ResetPassword
<1>2. link' \in [Letters -> {"none", "usable", "dead"}] /\ link'[l] = "dead"
  BY <1>1 DEF TypeOK
<1>3. ASSUME NEW m \in Letters \ {l} PROVE link'[m] = link[m] \/ Links!Dies(m, "reset")
  <2>1. CASE m \in S
    BY <1>1, <2>1 DEF Superseded, Links!Dies
  <2>2. CASE m \notin S
    BY <1>1, <2>2
  <2> QED BY <2>1, <2>2
<1>4. kind[l] = "reset" /\ settled' = settled \cup ({kind[l]} \ {"reset"})
  BY DEF ResetPassword
<1> QED BY <1>2, <1>3, <1>4 DEF ResetPassword, Links!Use, Links!Done

(* Only issuing, rotating and using touch the links.                       *)
LEMMA LinkTouched ==
    ASSUME [Next]_vars
    PROVE  \/ LinkUntouched
           \/ \E l \in Letters : Issue(l) \/ OpenLink(l) \/ CallDies(l) \/ VerifyEmail(l)
           \/ \E l \in Letters, n \in Notices : ResetPassword(l, n)
           \/ \E r \in Recoveries : RecoverRotate(r)
           \/ InvitationEnds
<1>1. ASSUME NEW l \in Letters, SenderStep(l) PROVE LinkUntouched
  BY <1>1 DEF LinkUntouched, SenderStep, MarkSending, LetterAccepted, LetterThrows, MarkLetter,
              SenderDies
<1>2. ASSUME NEW n \in Notices, Claim(n) \/ LockAges(n) \/ RecoverRow(n) PROVE LinkUntouched
  BY <1>2 DEF LinkUntouched, Claim, LockAges, RecoverRow
<1>3. ASSUME \/ ProviderAccepts \/ ProviderThrows \/ MarkSent \/ MarkSentThrows
             \/ MarkRejected \/ WorkerDies \/ RecoverScan \/ RecoverDies
      PROVE  LinkUntouched
  BY <1>3 DEF LinkUntouched, ProviderAccepts, ProviderThrows, MarkSent, MarkSentThrows,
              MarkRejected, WorkerDies, RecoverScan, RecoverDies
<1>4. ASSUME NEW r \in Recoveries, NEW l \in Letters, RecoverLookup(r, l) PROVE LinkUntouched
  BY <1>4 DEF LinkUntouched, RecoverLookup
<1>5. ASSUME NEW r \in Recoveries, RecoverCancel(r) \/ RecoverRotateNull(r) PROVE LinkUntouched
  BY <1>5 DEF LinkUntouched, RecoverCancel, RecoverRotateNull
<1>6. CASE UNCHANGED vars
  BY <1>6 DEF vars, LinkUntouched
<1> QED BY <1>1, <1>2, <1>3, <1>4, <1>5, <1>6 DEF Next, WorkerStep, TokenRecovery

LEMMA LinkStep ==
    TypeOK /\ LetterInv /\ FreshInv /\ [Next]_vars
        => [Links!Next]_<<kind, link, opened, settled, replaces>>
<1> SUFFICES ASSUME TypeOK, LetterInv, FreshInv, [Next]_vars
             PROVE  Links!Next \/ LinkUntouched
  BY DEF LinkUntouched
<1>1. ASSUME NEW l \in Letters, Issue(l) PROVE Links!Next
  BY <1>1, IssueMakes DEF Links!Next
<1>2. ASSUME NEW r \in Recoveries, RecoverRotate(r) PROVE Links!Next
  BY <1>2, RotationReplaces DEF Links!Next
<1>3. ASSUME InvitationEnds PROVE Links!Next
  BY <1>3 DEF InvitationEnds, Links!End, Links!Next
<1>4. ASSUME NEW l \in Letters, VerifyEmail(l) PROVE Links!Next
  BY <1>4, VerificationUses DEF Links!Next
<1>5. ASSUME NEW l \in Letters, NEW n \in Notices, ResetPassword(l, n) PROVE Links!Next
  BY <1>5, ResetUses DEF Links!Next
<1>6. ASSUME NEW l \in Letters, OpenLink(l) PROVE Links!Next
  BY <1>6 DEF OpenLink, Works, Links!Open, Links!Next
<1>7. ASSUME NEW l \in Letters, CallDies(l) PROVE Links!Next
  BY <1>7 DEF CallDies, Links!GiveUp, Links!Done, Links!Next
<1> QED BY <1>1, <1>2, <1>3, <1>4, <1>5, <1>6, <1>7, LinkTouched

(* Rows are enqueued and updated, never deleted.                           *)
LEMMA RowsStay ==
    ASSUME TypeOK, WorkerOnNotice, LetterInv, [Next]_vars, NEW l \in Letters, ~Absent(l)
    PROVE  ~Absent(l)'
<1>t. /\ row \in [Mails -> Row] /\ l \in Mails /\ row[l] \in Row
      /\ \A n \in Notices : n \in Mails /\ n # l
      /\ \A m \in Letters : m \in Mails
  BY DEF TypeOK, Mails
<1> DEFINE Kept == row'[l] = row[l]
           Moved == row'[l].status \in {"PENDING", "SENDING", "SENT", "FAILED", "CANCELLED"}
<1>1. CASE WorkerStep \/ WorkerDies \/ RecoverScan \/ RecoverDies
  <2>1. CASE MarkSent \/ MarkRejected
    <3>1. worker.mail \in Notices BY <2>1 DEF MarkSent, MarkRejected, WorkerOnNotice
    <3> QED BY <1>t, <2>1, <3>1 DEF MarkSent, MarkRejected, Absent
  <2>2. CASE \E n \in Notices : Claim(n) BY <2>2, <1>t DEF Claim, Absent
  <2>3. CASE ~(MarkSent \/ MarkRejected \/ \E n \in Notices : Claim(n))
    BY <1>1, <2>3 DEF WorkerStep, ProviderAccepts, ProviderThrows, MarkSentThrows, WorkerDies,
                      RecoverScan, RecoverDies, Absent
  <2> QED BY <2>1, <2>2, <2>3
<1>2. ASSUME NEW n \in Notices, LockAges(n) \/ RecoverRow(n) PROVE Kept
  BY <1>2, <1>t DEF LockAges, RecoverRow
<1>3. ASSUME NEW m \in Letters, Issue(m) PROVE Kept
  BY <1>3, <1>t DEF Issue, Issued, Absent
<1>4. ASSUME NEW m \in Letters, NEW n \in Notices, ResetPassword(m, n) PROVE Kept
  BY <1>4, <1>t DEF ResetPassword
<1>5. ASSUME NEW m \in Letters, OpenLink(m) \/ CallDies(m) \/ VerifyEmail(m) PROVE Kept
  BY <1>5 DEF OpenLink, CallDies, VerifyEmail
<1>6. ASSUME InvitationEnds PROVE Kept
  BY <1>6 DEF InvitationEnds
<1>7. ASSUME NEW m \in Letters, MarkSending(m) PROVE Kept \/ Moved
  <2>1. Sending(row[l]).status = "SENDING" BY <1>t, RowUpdates, ErrorKinds
  <2>2. row' = [row EXCEPT ![m] = Sending(row[m])] BY <1>7 DEF MarkSending
  <2> QED BY <2>1, <2>2, <1>t
<1>8. ASSUME NEW m \in Letters, MarkLetter(m) PROVE Kept \/ Moved
  <2>1. PICK e \in Errors :
          row' = [row EXCEPT ![m] = IF sender[m] = "accepted" THEN Sent(row[m])
                                    ELSE Failed(row[m], e)]
    BY <1>8 DEF MarkLetter, Errors
  <2>2. Sent(row[l]).status = "SENT" /\ Failed(row[l], e).status = "FAILED"
    BY <1>t, RowUpdates
  <2> QED BY <2>1, <2>2, <1>t
<1>9. ASSUME NEW m \in Letters, LetterAccepted(m) \/ LetterThrows(m) \/ SenderDies(m) PROVE Kept
  BY <1>9 DEF LetterAccepted, LetterThrows, SenderDies
<1>c. Cancelled(row[l]).status = "CANCELLED"
  BY <1>t, RowUpdates, ErrorKinds
<1>10. ASSUME NEW r \in Recoveries, RecoverCancel(r) \/ RecoverRotateNull(r) PROVE Kept \/ Moved
  <2>1. \/ row' = row
        \/ row' = [row EXCEPT ![recovery[r].mail] = Cancelled(row[recovery[r].mail])]
    BY <1>10 DEF RecoverCancel, RecoverRotateNull
  <2> QED BY <2>1, <1>c, <1>t
<1>11. ASSUME NEW r \in Recoveries, NEW m \in Letters, RecoverLookup(r, m) PROVE Kept
  BY <1>11 DEF RecoverLookup
<1>12. ASSUME NEW r \in Recoveries, RecoverRotate(r) PROVE Kept \/ Moved
  <2> DEFINE old == recovery[r].mail
  <2>1. PICK new \in Letters, S \in SUBSET Letters : Rotated(old, new, S)
    BY <1>12 DEF RecoverRotate
  <2>2. Absent(new) /\ new # l
    BY <2>1 DEF Rotated, Absent
  <2>3. row' = [row EXCEPT ![old] = Cancelled(row[old]), ![new].status = "PENDING"]
    BY <2>1, <2>2, <1>12, <1>t DEF Rotated, RecoverRotate, StillPending, Pending, Absent
  <2> HIDE DEF old
  <2> QED BY <2>2, <2>3, <1>c, <1>t
<1>13. CASE UNCHANGED vars
  BY <1>13 DEF vars, Absent
<1>14. Kept \/ Moved => ~Absent(l)'
  BY DEF Absent
<1> QED BY <1>1, <1>2, <1>3, <1>4, <1>5, <1>6, <1>7, <1>8, <1>9, <1>10, <1>11, <1>12, <1>13, <1>14
        DEF Next, SenderStep, TokenRecovery

(* A link that has been made is never unmade.                              *)
LEMMA LinksStay ==
    ASSUME TypeOK, FreshInv, [Next]_vars, NEW l \in Letters, link[l] # "none"
    PROVE  link'[l] # "none"
<1>1. CASE LinkUntouched
  BY <1>1 DEF LinkUntouched
<1>2. ASSUME NEW m \in Letters, Issue(m) PROVE link'[l] # "none"
  BY <1>2 DEF Issue, Issued
<1>3. ASSUME NEW m \in Letters, OpenLink(m) \/ CallDies(m) PROVE link'[l] # "none"
  BY <1>3 DEF OpenLink, CallDies
<1>4. ASSUME NEW m \in Letters, VerifyEmail(m) PROVE link'[l] # "none"
  BY <1>4 DEF VerifyEmail, TypeOK
<1>5. ASSUME NEW m \in Letters, NEW n \in Notices, ResetPassword(m, n) PROVE link'[l] # "none"
  BY <1>5 DEF ResetPassword
<1>6. ASSUME NEW r \in Recoveries, RecoverRotate(r) PROVE link'[l] # "none"
  BY <1>6 DEF RecoverRotate, Rotated
<1>7. ASSUME InvitationEnds PROVE link'[l] # "none"
  BY <1>7 DEF InvitationEnds
<1> QED BY <1>1, <1>2, <1>3, <1>4, <1>5, <1>6, <1>7, LinkTouched

(* Only a link that works is opened.                                       *)
LEMMA OpenedStep ==
    ASSUME TypeOK, FreshInv, [Next]_vars, NEW l \in Letters, opened'[l] > 0
    PROVE  link[l] # "none"
<1>1. opened[l] \in Nat /\ (opened[l] > 0 => link[l] # "none")
  BY DEF TypeOK, FreshInv
<1>2. CASE opened'[l] = opened[l]
  BY <1>1, <1>2
<1>3. ASSUME NEW m \in Letters, OpenLink(m) PROVE link[l] # "none"
  BY <1>1, <1>3 DEF OpenLink, Works, TypeOK
<1>4. ASSUME NEW m \in Letters, CallDies(m) PROVE link[l] # "none"
  BY <1>1, <1>4 DEF CallDies, TypeOK
<1>5. ASSUME NEW m \in Letters, VerifyEmail(m) PROVE link[l] # "none"
  BY <1>1, <1>5 DEF VerifyEmail, TypeOK
<1>6. ASSUME NEW m \in Letters, NEW n \in Notices, ResetPassword(m, n) PROVE link[l] # "none"
  BY <1>1, <1>6 DEF ResetPassword, TypeOK
<1>7. ASSUME \/ LinkUntouched \/ InvitationEnds
             \/ \E m \in Letters : Issue(m)
             \/ \E r \in Recoveries : RecoverRotate(r)
      PROVE  opened'[l] = opened[l]
  BY <1>7 DEF LinkUntouched, InvitationEnds, Issue, RecoverRotate
<1> QED BY <1>2, <1>3, <1>4, <1>5, <1>6, <1>7, LinkTouched

(* A letter is enqueued in the transaction that makes its link.            *)
LEMMA FreshStep == TypeOK /\ WorkerOnNotice /\ LetterInv /\ FreshInv /\ [Next]_vars => FreshInv'
<1> SUFFICES ASSUME TypeOK, WorkerOnNotice, LetterInv, FreshInv, [Next]_vars,
                    NEW l \in Letters, Absent(l)'
             PROVE  link'[l] = "none"
  BY LinksStay, OpenedStep DEF FreshInv
<1>1. Absent(l) /\ link[l] = "none"
  BY RowsStay DEF FreshInv
<1>2. CASE LinkUntouched
  BY <1>1, <1>2 DEF LinkUntouched
<1>3. ASSUME NEW m \in Letters, Issue(m) PROVE link'[l] = "none"
  <2>1. PICK S \in SUBSET Letters : Superseded(kind[m], S) /\ Issued(m, S)
    BY <1>3 DEF Issue
  <2>2. l \notin S BY <1>1, <2>1 DEF Superseded
  <2>3. l # m
    <3>1. row'[m].status = "PENDING"
      BY <2>1 DEF Issued, TypeOK, Mails, Row
    <3> QED BY <3>1 DEF Absent
  <2> QED BY <1>1, <2>1, <2>2, <2>3 DEF Issued
<1>4. ASSUME NEW r \in Recoveries, RecoverRotate(r) PROVE link'[l] = "none"
  <2> DEFINE old == recovery[r].mail
  <2>1. PICK new \in Letters, S \in SUBSET Letters : Rotated(old, new, S)
    BY <1>4 DEF RecoverRotate
  <2>2. l \notin S BY <1>1, <2>1 DEF Superseded, Rotated
  <2>3. Absent(new) /\ ~Absent(old) /\ old \in Letters
    BY <1>4, <2>1 DEF Rotated, RecoverRotate, LetterInv
  <2>4. l # new
    <3>1. row' = [row EXCEPT ![old] = Cancelled(row[old]), ![new].status = "PENDING"]
      BY <2>1, <2>3 DEF Rotated, Absent
    <3>2. new \in Mails /\ row \in [Mails -> Row] /\ new # old
      BY <2>3 DEF TypeOK, Mails
    <3>3. row'[new].status = "PENDING"
      <4> HIDE DEF old
      <4> QED BY <3>1, <3>2 DEF Row
    <3> QED BY <3>3 DEF Absent
  <2> QED BY <1>1, <2>1, <2>2, <2>4 DEF Rotated
<1>5. ASSUME InvitationEnds PROVE link'[l] = "none"
  BY <1>1, <1>5 DEF InvitationEnds
<1>6. ASSUME NEW m \in Letters, OpenLink(m) \/ CallDies(m) \/ VerifyEmail(m)
      PROVE  link'[l] = "none"
  <2>1. CASE OpenLink(m) \/ CallDies(m)
    BY <1>1, <2>1 DEF OpenLink, CallDies
  <2>2. CASE VerifyEmail(m)
    <3>1. link[m] # "none" /\ link' = [link EXCEPT ![m] = "dead"]
      BY <2>2 DEF VerifyEmail, FreshInv
    <3> QED BY <1>1, <3>1 DEF TypeOK
  <2> QED BY <1>6, <2>1, <2>2
<1>7. ASSUME NEW m \in Letters, NEW n \in Notices, ResetPassword(m, n) PROVE link'[l] = "none"
  BY <1>1, <1>7 DEF ResetPassword, Superseded, FreshInv
<1> QED BY <1>2, <1>3, <1>4, <1>5, <1>6, <1>7, LinkTouched

(* The links of the letters behave as OneTimeLinks says, for any number of *)
(* letters and of recoveries of them at once: however issuing, resending,  *)
(* verifying, accepting and recovering interleave, no link comes back, a   *)
(* used or superseded one acts only for calls that opened it before, no    *)
(* settled invitation gets a working one, and none is replaced twice.      *)
THEOREM RefinesOneTimeLinks == Spec => OneTimeLinksSpec
<1>1. Init => Links!Init
  BY DEF Init, Links!Init, Kinds, Links!Kinds
<1>2. Init => FreshInv
  BY DEF Init, FreshInv
<1> QED BY <1>1, <1>2, TypeInit, TypeStep, LetterInit, LetterStep, FreshStep, LinkStep, PTL
        DEF Spec, OneTimeLinksSpec, Links!Spec
===============================================================================
