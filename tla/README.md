# Formal models of Senecial

Senecial is a contract-management service: a Next.js application over Postgres
(Prisma), Redis for shared counters and caches, an object store for files, and a
worker scheduler that runs batch scripts in separate processes. These modules
model its protocols: what happens when requests, scripts, crashes and
recoveries interleave. Paths below are relative to `src/` of the repository's
application (`src/features/...` there), unless they start with `scripts/` or
`prisma/`.

## Inventory

| component | state | operations | what is hard |
|---|---|---|---|
| Batch execution (`server/batch`) | `batch_executions`, Postgres session locks, a timer and an in-flight write per process | `runBatchJob`, heartbeat ticks, `recoverStaleBatchExecutions` | crashes, late heartbeats, recovery of a run that is still alive, windows turning |
| Extraction (`features/extraction`) | `contract_extraction_jobs`, field suggestions, the contract row | create, retry, claim, run, recover, review, apply | reads before transactions, stale lists, single worker dying, user edits in between |
| Members and invitations (`features/members`, `features/invitations`) | memberships, invitations, users | change role, remove, invite, resend, revoke, accept, register-and-accept | count-then-write at READ COMMITTED, accept against revoke and resend |
| Contracts (`features/contracts`) | contracts, contract events | create, update, delete, list, search | every writer overwrites the whole row with what it read or was shown; soft deletion against late writers |
| Clause segmentation (`features/clauses`) | segmentation jobs, sections, clauses, signals | create, process, recover, review | same job shape as extraction; enqueues embeddings after its commit |
| Embeddings (`features/ai`) | embedding jobs, vectors, of clauses and of document chunks | enqueue, process, recover, backfill | budget reserved around a job; errors after completion |
| AI budget (`server/services/ai/budget`) | Redis or in-memory counters | reserve, settle, release | three counters without a transaction, expiry, crash between reserve and settle |
| AI resilience (`server/services/ai`) | circuit breaker, concurrency leases, cache, stampede lock | beforeCall, onSuccess, onFailure, acquire, release | late results, probes that never return or outlast their slot, expired leases |
| Mail delivery (`features/mail`, `server/services/email`) | `mail_deliveries` | enqueue, inline send, worker claim, retry, two recoveries | a send cannot be undone; rows are marked by id |
| Account security (`features/account-security`) | verification and reset tokens, session version | request, verify, reset | check, then unguarded use of a token |
| Contract files (`features/contract-files`, `server/storage`) | file rows and objects | upload, delete, reconcile, find orphans | two stores without a transaction |
| Retention (`features/retention`) | purge jobs | scan, execute, purge | claims without recovery; files added during a purge |
| Worker scheduler (`scripts/worker-scheduler.ts`) | running subprocesses | one self-rescheduling loop per job | it provides the fairness assumed here |
| Auth, notifications, counterparties, rate limiting, legal gateway, health, backup, analytics, UI | their tables or none | reads, single-transaction writes, wrappers of external tools | nothing that interleaves beyond one statement or transaction |

How they interact. Every scheduled script runs inside `runBatchJob`, so the other
models rely on `MutualExclusion` of the batch model: the scripts
`extraction:process` and `extraction:recover-stale` are "instant" jobs, hence at
most one of each runs at a time, but one of each may run together
(`SameJobOverlapsOnlyAcrossWindows`, which also says what the lock does not give:
two runs of an hourly job may overlap across an hour boundary). Extraction and
contracts share the contract row. Members and invitations share memberships with
registration. Segmentation feeds embeddings, embeddings reserve from the AI
budget (one model holds both, because what may go wrong is between them).
Invitations, password resets and verifications enqueue mail in their own
transactions; a password change is told about by a PASSWORD_CHANGED notice, whose
idempotency key `AccountSecurity` records and whose delivery `MailDelivery`
models. Calls to an AI provider go through its circuit breaker. Deleting a
contract starts the retention window after which its files are purged.

Each component is correct when: a batch row is entered once per key, closed once,
and its body excludes others of its key; an extraction writes only values a
person approved, on the contract that person saw, and no job is stuck; an
organization keeps an owner and is entered only by invitation; a token that is
used or replaced cannot be opened again, and a call acts on it once; a mail is sent at least once and its link works; a reservation is settled
or released once; an object exists for every live row and none remains for a
purged one.

## Modules

- `BatchLedger` is the abstract table: one entry per execution key, entries that
  have ended never change. It knows nothing of locks, crashes or recovery.
- `BatchExecution` is `runBatchJob`, `batch-heartbeat-loop.ts` and
  `recover-stale-batch-executions.ts`. `pc[i]` is the position of an invocation
  between two of its awaits; each await is a step, so everything else may happen
  there. `held` is the session advisory lock, which Postgres frees when the
  process dies (`Crash`). `BatchProperties` states the properties and the
  refinement of the ledger, `BatchProofs` proves the safety part.
- `ReviewedContract`, `Roster`, `AccountBook`, `OneTimeLinks`, `RetainedFiles` and
  `ClauseIndex` are the other abstract specifications: what a reviewer, a member,
  the owner of an account, the receiver of a letter, whoever answers for erasure
  and the readers of embeddings may think is there. In each of them an operation is one step on a few variables.
  The module of the component's properties (`ExtractionProperties`,
  `MembersProperties`, `AccountProperties`, `MailProperties`, `FilesProperties`,
  `EmbeddingProperties`) says how its state is seen
  (`INSTANCE ... WITH`), a run checks the refinement, and the `...Proofs` module
  proves it.
- `ExtractionPipeline` is the five handlers of `features/extraction/server`, the
  repositories they call, and manual editing and deletion of the contract. A
  handler that reads in one transaction and writes in another is two actions,
  with what it remembers kept in `request`, `worker` or `stale`.
  `ExtractionProperties` and `ExtractionProofs` follow the same split.
- `OrganizationMembers` is role change, removal and the invitation life cycle.
  An owner's call is authorized first, then reads, then opens a transaction; at
  READ COMMITTED each statement sees the latest commit, so the count of owners and
  the write are separate steps. `MembersProperties`, `MCMembers` (symmetry) and
  `MembersProofs` complete it.
- `MailDelivery` is `mail_deliveries` and everyone who writes it: the
  `mail:process` worker and `mail:recover-stale` on *notices* (PASSWORD_CHANGED),
  the inline sender and any number of token recoveries on *letters* (invitation,
  verification, reset), together with the links the letters carry. The same split
  into `MailProperties`, `MCMail` (symmetry) and `MailProofs`.
- `AccountSecurity` is one account: issuing and using verification and reset
  links, signing in, and the check of a session on every request, with
  `AccountProperties`, `MCAccount` (symmetry) and `AccountProofs`.
- `ContractFiles` is the files of one contract, as rows and as objects in two
  stores: upload, deletion, `files:reconcile`, the migration to S3 and the purge
  of the contract by `retention:purge`, with `FilesProperties` and `FilesProofs`.
- `ClauseEmbedding` is the embedding queue, the stored embeddings and the three
  budget counters: enqueueing, the workers, the recovery of stale jobs and the
  backfill, with `EmbeddingProperties`, `MCEmbedding` (the limits) and
  `EmbeddingProofs`.
- `CircuitBreaker` is the Redis circuit breaker of one provider and
  `executeWithResilience`, the loop every call to the provider runs in, with
  `BreakerProperties` and `BreakerProofs`.

### How the state corresponds to the code

Batch: time is counted in heartbeat intervals, `heartbeatAge` is the age of
`heartbeatAt`. `TimePasses` is one interval; it is enabled only while no
database statement is pending (`StatementInFlight`), which is the one timing
assumption made: a statement ends or fails within an interval. Ticks may be
missed without limit. An insert that commits although its answer is lost is not
modelled (the row would be recovered like that of a crashed process).

Extraction: `version` is `updatedAt`; `edits` is the set of manual edits the
current field values still contain, which is what overwriting loses, and `source`
and `gen` the extraction whose values they show. An edit is two actions: the page
fills a form with the row (`EditOpen`), and much later the form is submitted and
written over every column, with no comparison of versions (`EditSave`). `approved`
is history: the generations whose reviewers stand by them, which a rejection
withdraws. `gen`
numbers the finished runs of a job, since a run deletes the suggestions of the
previous one and creates new ids. `ACCEPTED` stands for ACCEPTED and EDITED. The
progress stages of a run, the extracted documents and their chunks are not
modelled: nothing reads them back in this pipeline. CANCELLED is not modelled
because no code sets it. The deletion of a file is part of `FailJob`: all it can
do to a run is fail it. Jobs all belong to one contract.

Members: `seat` is the membership id, so that an update by id of a membership
that was removed and recreated finds nothing. A unique violation aborts a
Postgres transaction, so the branch of `accept-invitation.ts` that swallows it and
goes on has no effect (`Insertable`). Tokens are compared when an invitation is
opened, not again when it is used.

Mail: `row[m]` is the row of a mail, `worker` and `sender[l]` what a sending
process holds between two awaits, `stale[n]` what the stale recovery has read of
a row it listed, `recovery[r]` where a token recovery is. Backoff and the age of
rows are time that passes by itself. All letters of a kind concern one invitation
or one user, so each replaces the link of the others. Links do not expire: an
expired token is one nobody uses any more. `verifyEmail` and `resetPassword` check
a link outside their transactions: `opened[l]` is the number of calls that have
found link `l` usable and have yet to act or die, at most `MaxCalls`, and they act
whatever has become of the link. Error codes are kept as far as
`isRetryableMailError` tells them apart. `refused` and `replaces` are history, for
the properties only. One worker and one stale recovery are alive at a time, because
both are instant jobs (`SameJobOverlapsOnlyAcrossWindows`); the token recovery is
run by hand and is not serialized.

Account: `password`, `version` and `verified` are the columns of `User`, `token`
the rows of both token tables, `sessions` the JWTs that were issued, accepted
while their version is that of the account. Every call looks at its link outside
the transaction that uses it. The transaction is split once more, where its
`UPDATE ... WHERE usedAt IS NULL` takes its snapshot: links committed after that
are missed. The row locks of the statements are not modelled, they would only
remove orders. `notices` is the set of idempotency keys of PASSWORD_CHANGED mails.
`missed` and `beside` are history.

Files: `row[f]` is the row of a file, `object` the set of objects in the two
stores, `upload[f]` the call that uploads it, and `eraser[e]` whoever is erasing
an object: a user's deletion, the reconciler or the purger. Each call to a store
or to the database is a step, and may fail or be the last one. `contract` moves
from live to deleted, past its window, and gone. Two assumptions: one run each of
`files:reconcile`, `retention:purge` and the migration is alive at a time, and an
upload ends before the retention window of a contract that it saw alive does.
Without the second, a file could be uploaded to a contract that is gone. The
first is not the lock's doing, because `files:reconcile` and `retention:purge` are
hourly jobs: the scheduler's loop starts `files:reconcile` only when the previous
run has ended (`loopJob` of `worker-scheduler.ts`, one process), a purge job is
claimed by one run only, and the migration is started by hand. A `files:reconcile`
forced by hand beside the scheduled one, in another hour, is outside the model.

Embeddings: `worker[w]` is a job as its worker claimed it, with the reservation it
holds. `used` is the three counters (cost, requests of the month, requests of the
day). A clause's text never changes and a clause is not deleted while it is
queued. Any PROCESSING job may be found stale, since nothing bounds how long a
provider call and its retries take against the threshold. The provider and model
of an embedding are abstracted, so a backfill may take any clause that has one.
One organization, within one day: the expiry of counters is left out. `Earlier` is
how many requests other features have counted before. `counted`, `lost` and
`forgiven` are history.

Breaker: `breaker` is the Redis hash, `call[w]` an `executeWithResilience` call.
Times are ages in ticks, and `ttl` is what the key has left. Refusals change
nothing and are stutters. A report may be lost (Redis errors are swallowed); an
aborted or dead caller keeps the slot of the probe until `ProbeTimeout`.
`RoundTime` bounds the time between an admission, or the last report of a call,
and its next report, and nothing is assumed of it: the two periods are 30 seconds
(`circuit-breaker.ts:44-49`), an attempt of the language model may take 60
(`get-llm-provider.ts:37`). The hash is keyed by the provider's name, so embeddings
and language model of OpenAI are callers of one breaker. `probe` is the state in
the token a call was given, which the code never reads. A provider's timeout aborts its request and is not retried; an
abort by the user during an attempt counts as a failure of the provider; the late
success of a call admitted before the circuit opened closes it early.

## Runs

| run | what it shows | bounds |
|---|---|---|
| `batch` | one run per key, safe heartbeats, the ledger refinement, the recovery of abandoned rows | two invocations suffice for every pairwise property; an hourly and an instant job cover both kinds of lock key; threshold 3 is the smallest the code accepts; one window change gives both equal and different keys |
| `extraction` | the contract is a `ReviewedContract`; which edits survive, and when an edit or applied values are lost; that jobs settle | one job, two users (a review racing an apply, or two forms, need two), two attempts (one retry, then exhaustion), two edits (one that drops the other) and one deletion |
| `members` | the organization is a `Roster`; the last owner | two users, two invitations, two concurrent calls, one resend: a demotion race, an accept against a revoke, two accepts |
| `members_last_owner` | the two-demotions race leaves no owner | the same |
| `mail_notices` | how often a notice is tried, why it is given up, that it settles | one notice (the worker handles one at a time and the rows do not meet), three attempts, the code's default: a reset of an outdated reading needs two, and a reset row whose last error was permanent a third |
| `mail_letters` | what is cancelled is replaced; the links are `OneTimeLinks` | three letters, the stale one and a replacement by each of two recoveries, in every combination of kinds; beside the recoveries two things under way at a time, each a sender or a call with an opened link (`TwoAtATime`): a slow sender while its letter is replaced, or two calls with one link; no notice, so a reset link is used in `mail_notices` only |
| `account` | the account is an `AccountBook`; which links still work and what a reset ends | two links, which is what every property relates; two passwords, an old and a new one; two concurrent calls |
| `account_reset_twice` | one reset link changes the password twice | one link, two calls |
| `files` | rows against objects: readable while live, erased once reported so, erased in the end; the stages of `RetainedFiles` | one file: the properties are about one at a time, and the reconciler and the purger share nothing between rows but their order; one user's deletion beside both scripts; two attempts at each erasure, one retry and exhaustion. Two files were explored to 17 million states without a violation |
| `embedding` | the embeddings and the counted calls are a `ClauseIndex`; the counters against the calls; jobs come to rest | one clause, two workers and a backfill: the two workers run the same job after a recovery; limits that two estimates at once exceed, and a day that allows one request less than the month; two versions from backfills. Two possible costs of a call, three workers, and three attempts were also run, in parts, without a violation |
| `breaker` | what is in flight beside a probe; when an outage is forgotten; the circuit closes again | two callers, the probe and a late one (every property relates at most two calls), threshold 2, one retry; a tick is about 15 seconds, so the periods are 2 ticks, the grace and the failure window 4, and rounds of 5 cover an attempt of 60 seconds with backoff and commands. Three callers were also run, without liveness and without a violation |
| `breaker_probe` | two probes are calling at once | the same |

The violation runs are disagreements between the code and its comments:

- *Last owner.* `change-member-role.ts` says two concurrent demotions cannot both
  succeed; a count and an update at READ COMMITTED do not exclude it. What holds is
  `LastOwnerLostOnlyInOverlap`.
- *Used links.* `token-expiry.ts:17` says a token is usable exactly once. Two calls
  that both find a reset link unused both use it, and the password changes twice.
  What holds is `AccountBookSpec`: a link that is used cannot be opened again, so
  both calls opened it before either acted, and each change has its own notice.
- *Probes.* `circuit-breaker.ts:18` promises exactly one probe call at a time. The
  slot of a probe lapses after 30 seconds and an attempt may take 60, so a second
  probe goes out beside the first. What holds is `OnlyLatecomersBesideProbe`: of two
  calls in flight beside a probe (itself included), one has been silent for a whole
  period before the probe was admitted.

Others came up while modelling. They are behaviours of the models, and each is the
exception that a property has to make; no run of their own is kept for them:

- *Overwrites.* `apply-approved-suggestions.ts:70` says that an apply refuses to
  overwrite what changed the contract, but it compares outside the transaction that
  writes: an edit committed in between is lost. `EditsBeforeApplyReadSurvive` is
  about edits committed before the comparison, and `LostOnlyInOverlap` says that
  nothing else is lost.
- *Rejected suggestions.* `apply-approved-suggestions.ts:42` says that rejected
  suggestions are never applied; they are filtered when they are read, and one that
  is rejected between that read and the transaction is written all the same. In
  `ReviewedContract` an apply takes values that are approved (`Take`) and writes them
  later (`Write`), and an approval may be withdrawn in between.
- *Forced runs.* `run-batch-job.ts:38` says a forced run cannot overlap a running
  instance of the same job; the lock key of hourly and daily jobs names the window
  (`execution-key.ts:35`), so it can, across a window boundary. `MutualExclusion`
  is therefore about runs with the same lock key.
- *COMPLETED.* `job-state-machine.ts:4` calls COMPLETED terminal; the recovery of
  stale jobs resets rows by id after listing them.
- *Edits over edits.* Nothing in `update-contract.ts` says what happens to an edit
  made while a form was open. The form wins, over manual edits and applied values
  alike; `LostOnlyInOverlap` says that only an open form, or an apply under way, can
  do this.
- *Late verification.* `verify-email.ts:18` says the state of the token is validated
  again inside the transaction; it is validated before it only, so an expired,
  used or replaced link verifies the address if it was opened in time. `AccountBook`
  and `OneTimeLinks` separate `Open` from the use for that reason.
- *Cancelled letters.* `recover-stale-token-deliveries.ts:69` says a recovery racing
  a sender that wakes up late cannot process the same row; the sender's
  `markMailDeliverySending` does not look at the status, so it takes the row from
  CANCELLED to SENDING and sends a link that has been replaced. What does hold is
  `OneTimeLinksSpec`: no letter is replaced twice, and the link that is sent late
  does not work.
- *Released reservations.* A comment of `releaseAiBudget` speaks of calls that
  failed before any provider cost was incurred (`reserve-ai-budget.ts:120`); the `catch` of
  `process-embedding-job.ts:163` also releases after a paid call, and after a
  settlement. `ClauseIndex` therefore has a step that gives a call back, and
  `InFlightWithinBudget` makes an exception for `forgiven`.
- *Failed embeddings.* A FAILED embedding job is never enqueued again, because
  the unique key of its row is still taken.

`CHECK_DEADLOCK FALSE` in every run but those of the breaker: the other models have
bounded supplies (invocations, edits, invitations, links, files), and stop when they
are used up.

Symmetry is used only in `members`, `mail_letters` and `account`, which check no
liveness; users, invitations and calls, letters and recoveries, links and
passwords are interchangeable there.

## Fairness

`batch`: statements and timer callbacks of a live process complete (weak
fairness), time passes, and the scheduler runs `batch:recover-stale` every 30
seconds for ever (`worker-scheduler-jobs.ts`). Nothing is assumed of job bodies.
A process that dies needs no fairness: it is never forced to.

`extraction`: the worker keeps being started and makes steps, locks age, the
recovery keeps scanning, and treats each listed row infinitely often if it is
listed infinitely often (strong fairness: a recovery may die in the middle of its
list, but not every time). Users are never assumed to act.

`mail_notices`: the same for the mail worker and the stale recovery. Nothing is
assumed of the requests that send letters, nor of the operator: a letter may stay
PENDING for ever, and one whose sender died while SENDING does, because neither
recovery lists it.

`files`: the scheduler starts `files:reconcile` for ever. It may die, and stores
and database may fail it, but not every time at the same place (strong fairness of
its steps). Nothing is assumed of users, of the purge or of the migration, which
are calls or run by hand.

`embedding`: the scan that enqueues clauses, the workers and the recovery are
started for ever; a queued clause is claimed if it can be infinitely often (a
queue in order of age); a run makes steps until it ends or dies. The
backfill is run by hand and nothing is assumed of it.

`breaker`: time passes, calls keep coming, and a caller makes steps. The provider
is not down for ever, nor is Redis: a caller that starts attempts for ever is
answered at some time, and one that is answered for ever gets a report through.

## Proofs

All theorems hold for every value of the constants, under the assumptions stated
in the modules (a threshold of at least three intervals, a positive number of
attempts, finitely many users and workers, and values such as `NoKey` and `NoJob`
that are none of the values they stand in for).

- `BatchProofs`. The invariant says who holds which lock (`LockInv`), which rows
  exist (`RowInv`), and bounds the age of a heartbeat by the ticks missed since
  the last write (`BeatInv`). The last is what makes
  `OrphanedOnlyAfterMissedTicks` inductive: recovery closes a row only past the
  threshold, so at least that many ticks were missed. `RefinesLedger` maps each
  step to an entry, a closing of a set of entries, or a stutter; `RowInv` is
  needed because the ledger admits a key only once.
  `SameJobOverlapsOnlyAcrossWindows` reads `MutualExclusion` through
  `buildLockKey`, as the other models use it.
- `ExtractionProofs`. `ReviewsApproved` says that what is accepted now its reviewers
  stand by; it is inductive because a review is written by suggestion id, and it is
  what an apply takes when it reads. `SnapshotsKept`, `VersionsRead` and
  `RunsFollowReads` order the versions: a run that ends after an apply has read the
  contract has itself read the contract later. They also show that the "no snapshot"
  branch of `hasContractChangedSinceExtraction` is never taken for a job under
  review. `ReadsCurrent` says that whoever has read the current version, an apply or
  a form, has the current edits, and a form the current values; hence a writer that
  drops something has read an older version (`LostOnlyInOverlapHolds`).
  `RefinesReviewedContract` maps a read of suggestions to `Take`, a form to `Open`
  and every write to `Write`.
- `MembersProofs`. `ReadsAccurate` says that what a call has read of memberships
  still holds while no other membership change has committed (`fresh`); from it,
  a write that removes the last owner must be stale.
  `RefinesRoster` maps each write of a transaction to one operation.
- `AccountProofs`. `Paired` and `SessionsPaired` say that a version determines a
  password: whoever has read a version, and every session that carries it, has the
  password that went with it. So a reset between the read of the hash and the
  issue of the session leaves a session that is refused. `SeenOrMissed` splits the
  unused links, for a call in its transaction, into those its snapshot saw and
  those it missed; `UnusedLinksOverlap` is `UsableLinksOverlap` made inductive by
  forgetting about expiry. `RefinesAccountBook` shows that every use was opened while
  its link was unused, once for each use; it needs `LinksKnown` as well: a call
  only ever uses up links that were issued, of its own kind. A session issued
  with an outdated version maps to a stutter, since nothing accepts it.
- `MailProofs`. `ListedInTime` carries the bound on attempts: a row that was
  listed with attempts left is, while the listing lasts, either not claimable or
  still below the limit, so the one late reset it can suffer costs one attempt
  more and the next listing finds none left. `Judged` says that an error that
  cannot be retried is only ever remembered with a reason to give up. For
  letters, `LetterInv` shows that a replaced row never comes back to PENDING, and
  `CancelInv` that a row waiting to be cancelled has nothing left to send.
  `RefinesOneTimeLinks` uses the first, and `FreshInv`, that a link is made in the
  transaction that enqueues its row, so a rotation makes a link nobody has had or
  opened. Each use takes away one of the calls that opened the link while it worked.
- `FilesProofs`. `RowInv` ties a row to its upload and its objects; `EraserInv`
  says what an eraser may assume of the row it has read, `ListInv`, `MigrateInv`
  and `PurgeInv` the same of the lists the scripts work on. They are needed
  because nothing is read again between a listing and an erasure. For
  `RefinesRetainedFiles`, `ErasingElapsed` says that no purge begins before the
  window has passed, hence no file is added to the list it has taken.
- `EmbeddingProofs`. `Rows` says the versions of a clause are 1 to some n without
  gaps, which with the unique index is what makes "previous plus one" the newest.
  `BudgetKept` and `RequestsKept` account for each counter run by run: what is
  used is at least what live reservations hold. The properties of the budget, and
  the step `Call` of `RefinesClauseIndex` with its guard, follow from them.
- `BreakerProofs`. `Heard` compares ages. While the circuit is open and has no
  probe, every call in flight was admitted, or has reported, before it opened; so
  when a probe is admitted, after the open period, all others have been silent for
  that long, or, after another probe, for that probe's timeout: they are
  latecomers. The age of a call grows with that of the probe, which keeps it so.
  `ForgottenInSilence` is read from the same part: a key is extended whenever the
  circuit opens or is probed, to more than the period it has to wait.

What a refinement implies is not run on its own. It stays a theorem:
`DeletedContractUntouchedHolds` (from `ReviewedContract`),
`JoinsThroughLiveInvitationHolds` and `SettledInvitationsStayHolds` (`Roster`),
`SessionsHoldCurrentPasswordHolds` and `ChangesNotifiedHolds` (`AccountBook`), `OneLatestHolds`,
`CompletedIsEmbeddedHolds` and `CallsWithinLimitsHolds` (`ClauseIndex`), and
`ReplacedOnlyOnce` (`OneTimeLinks`). Every invariant, action property and
refinement that a passing run checks is proved.

Only model-checked: liveness (`AbandonedRowsRecovered`, `QueuedJobsSettle`,
`NoticesSettle`, `DeletedFilesErased`, `JobsComeToRest`, `CircuitCloses`), which
is out of the prover's reach under fairness, and the violations, which are
counterexamples.

## Not modelled, and the plan

What is left, in order of what matters most:

1. *Clause segmentation*. Its job has the shape of the extraction job. What is new
   in it: sections are unique by segmentation job and order, so rerunning a job
   that had finished fails; a recovery that overlaps a slow finisher therefore
   leaves finished clauses with a FAILED job, which readers ignore.
2. *Embeddings of document chunks*, a second queue of the shape of
   `ClauseEmbedding`, whose jobs refer to chunks that a new extraction may delete.
3. *Concurrency leases* of AI calls and the *stampede lock* of the answer cache.
   Both are advisory: a duplicated computation is correct, only dearer.
4. The turn of a day and a month in the *AI budget*, where a reservation is
   settled against a counter other than the one it was taken from or against a
   counter that has expired and restarts at zero.
5. `purgeSimpleEntities`, independent deletions by age, and the in-memory breaker
   used without Redis.
6. Pure algorithms: document chunking and clause hierarchy validation, as
   functions checked against a reference definition.

Left out for good: text extraction, prompts, ranking, vectors and everything
presentational (no protocol, only data); counterparties, notifications, audit
logs and rate limiting (single statements or single transactions); backup and
restore (wrappers of external tools); the legal gateway (a stateless proxy). They,
with pages and components, are most of the repository's lines.
