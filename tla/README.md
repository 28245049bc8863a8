# Open CRM: a verification project

TLA+ models of the parts of Open CRM (`apps/api`, Go and PostgreSQL) in which several
processes, requests or providers act on the same rows, TLC configurations that
model-check them, and TLAPS proofs of what matters most for every value of the constants.

- [The system](#the-system): components, their state, operations and hard behaviours
- [Plan](#plan): what was built, what is left
- [Modelling conventions](#modelling-conventions)
- [The modules](#the-modules): correspondence with the code
- [Runs](#runs): what each checks, bounds, fairness
- [Proofs](#proofs)
- [Where code and documentation disagree](#where-code-and-documentation-disagree)
- [What is not modelled](#what-is-not-modelled)

## The system

Open CRM is one Go program, `open_crm_api`, that any number of processes run against one
PostgreSQL database. A process serves HTTP (`internal/app`), and runs one worker goroutine
that polls the table `background_jobs` (`internal/modules/jobs`). There is no broker, no
cache and no other shared memory: whatever two processes, two requests or a request and a
job say to each other, they say through rows, row locks, unique indexes and guarded
`UPDATE`s, under READ COMMITTED. The outside world is the mail provider, Stripe, the user's
mailbox, the owner's browser; each can answer late, twice or not at all.

The parts with behaviour of their own (paths are under `apps/api/internal/modules`):

| part | state | operations | interacts with | what is hard | what makes it correct | module |
|---|---|---|---|---|---|---|
| job queue (`jobs`) | `background_jobs`: status, attempts, run_at, token, lease | Enqueue, Claim, Complete, Defer, Fail, DeadLetter, Replay, retention; worker loop | every durable effect below is a job | leases expire under running handlers; answers get lost; processes die on the last attempt; rolling deployments | one accepted verdict per claim, no stranded job, every job ends | `JobQueue`, `JobLedger` |
| e-mail sequences (`emailsequences`, `sequencerunner`) | enrollments, delivery ledger, sequence revision | enroll, pause, approve, send, finalize, cancel, operator resolution | queue, suppressions, mailbox replies, provider | claim-call-finalize around a provider that cannot be asked; two-query reads; stale workers and operators | one provider call per permit, steps in order, endings final, nothing after an unsubscribe | `SequenceDelivery`, `SendPermits` |
| durable exports (`exports`, `workspaceexports`) | `crm_exports`, `workspace_exports` | request, build, store, expire, download, fail | queue, member life cycle | crash while processing; requester deactivated during the build; run again after a lost answer | the row that blocks the workspace always has a job; a ready file stays usable | `ExportJobs` |
| plan capacity (`billing/capacity.go` and its users) | `billing_capacity_reservations`, the counted records | reserve, consume, cancel, expire | contacts, deals, users, imports, archive, bulk rollback | two counting statements; imports that land rows outside the locked transactions; expiry between two transactions; crash with a reservation | the last slot is never sold twice | `PlanCapacity` |
| billing state (`billing`) | webhook events, subscription columns, reconciliation generation | webhook, reconcile, invoice sync | Stripe, queue, plan capacity | duplicates, reordering, snapshots older than a webhook | newest evidence wins; no reconciliation is lost | `BillingState` |
| record e-mail and replies (`emailmessages`) | two delivery ledgers with claims | prepare, claim, call, settle, resolve, recover, retry | provider, members | claims without a token against late answers; a request cut off anywhere | one record and one call per decision; settled stays settled | `MailDeliveries` |
| deals, quotes, signatures (`deals`) | quote versions, deliveries, signature requests, the deal | finalize, approve, deliver, sign, decline, void, reissue, convert | mail provider, public visitors, members | signature against expiry, reissue and late settlement | only a delivered, reviewed, unreplaced version is signed, once | `QuoteDeliveries` |
| members, sign-in (`users`, `auth`, `onboarding`, `passwordreset`, `emailfeedback`) | memberships, roles, sessions, three kinds of links with delivery status | sign up, verify, invite, set up, log in, reset, resend, revoke, disable, change role | mail provider, every part that depends on a membership | two owners acting on each other; login against reset; late mail feedback | an active owner remains; no session outlives its password; only the newest link works | `Members` |
| imports (`imports`) | batches, rows, counters, records, advisory lock | submit, checkpoint, complete, fail, expire, roll back | queue, capacity, members | retry from a checkpoint against rollback, crash and edits | counters are those of the rows; a rollback stands | `ImportBatches` |
| scheduled reports (`customreports`) | schedule, runs, recipients, artifacts | schedule, discover, prepare, claim, send, finalize, retry, confirm | queue, provider, members | two workers and an operator on one run; revision under an open run | one hand-over per decision; an open run has a job | `ReportSchedules` |
| approval-gated playbooks (`workflowautomations`) | definition, runs, approvals, actions, tasks | stage move, decide, edit, deactivate, disable | deals, members | decision against edit, deactivation and disabling; a snapshot that misses a row | run, approval, outcomes and tasks tell one story | `WorkflowApprovals` |
| mailbox synchronisation (`mailboxsync`, `useremail`) | account, cursor, due instants, stored messages | list, enqueue, sync, check, save, delete, disable | queue, IMAP server, members | overlapping runs of one account; interrupted requests; messages left out of a batch | the cursor passes only what is stored, too old or too large; a due account is served | `MailboxSync` |
| rate limits (`ratelimits`) | fixed-window buckets | take several budgets at once, clean up | every public endpoint | clocks read before the row is locked; groups | a window grants its limit and counts what it grants | `RateLimits` |
| lead forms, task reminders, nurture campaigns | challenges, reminders, enrollments | submit, remind, send | public visitors, queue | single use, idempotent handlers | | not modelled |

The rest (companies, contacts, notes, tasks, calls, custom fields, products, templates,
saved views, dashboards, reports' query building, the profile form) is CRUD in one
transaction or reads over the rows above; `PROJECT.json` lists each with its reason.
`PROJECT.json` also lists the hazards, at their lines.

## Plan

Built, in this order: the queue first since everything else is a job of it; then the two
users of it with the most intricate protocols; the reservation protocol that many modules
share; the part whose truth lives elsewhere; and then the parts of a workspace, each a
module of its own, composed for TLC into three runs because they share nothing but their
members.

1. `JobLedger` (what a queue promises), `JobQueue` (the table and the worker)
2. `SendPermits` (what recipients are promised), `SequenceDelivery` over `JobLedger`
3. `ExportJobs` over `JobLedger`
4. `PlanCapacity`
5. `BillingState`
6. `MailDeliveries`, `QuoteDeliveries` (run `outgoing`, with the exports), and
   `DeliveryPromise`, what both promise
7. `ImportBatches`, `ReportSchedules`, `Members`, `WorkflowApprovals`, `MailboxSync`,
   `RateLimits` (run `workspace`)
8. Proofs: every safety invariant and every safety action property that a run checks is a
   theorem, and so are the four refinements: queue, sequences, mail and quotes implement
   what they promise.

Left: the parts of the table without a module.

Composition: `SequenceDelivery`, `ExportJobs` and `ReportSchedules` hold their jobs through
`INSTANCE JobLedger`; `JobQueue` implements `JobLedger`, by proof. A handler model therefore
never repeats leases and tokens, and still meets everything they allow: a job may be taken
from a silent owner, a previous owner may go on running, a verdict may come too late.

## Modelling conventions

- One transaction, or one statement outside a transaction, is one step; a provider call
  is one step. Two statements of one transaction are two steps where READ COMMITTED lets
  something in between them matter (the two counts of `ReserveCapacity`, the eviction
  subquery of the exports' storing transaction).
- A call may fail without effect, and a commit may take effect with its answer lost.
- A process may stop at any point; its transaction rolls back, its lease stays.
- Rows are functions of their key; messages, recipients, payloads and results are left out
  except where a property tells them apart.
- Instants are seconds (`BillingState`), ticks (`RateLimits`), relative to the clock
  (`JobQueue`), reduced to "not yet" and "past" (`ExportJobs`, `PlanCapacity`, the `stale` and
  `age` of the delivery ledgers, "stalled" in `ReportSchedules`), or coincide with the job's
  `run_at` (`SequenceDelivery`).
- A transaction that takes all its locks before it reads is one step; one whose reads
  precede its locks is several, and what it read is kept in its row of the model.
- A history variable (`mailbox`, `claims`, `open`, `told`, `overtaken`, `outdated`,
  `granted`, `passedOver`, ...) is read by properties only, except where a bound names it.
- A bound is a constant named as such (`MaxArrivals`, `MaxRearms`, `MaxReplays`, `MaxTime`,
  `MaxEvents`, `MaxRetries`, `MaxRows`, `MaxLinks`, `MaxCycles`, ...) or a finite set of the
  configuration; no other action is capped.
- Names are the code's. Definitions called `...AsX`, `...Unchecked`, `...Only` and so on,
  placed just before the definition they vary and used by nothing, are plausible wrong
  versions of it: with each in place of its original the property named in `PROJECT.json`
  fails, which shows that the property depends on that piece of code.

## The modules

### JobQueue, JobLedger

`JobQueue` is `jobs/service.go`, `jobs/worker.go` and `jobs/retention.go` over migration 056.

| model | code |
|---|---|
| `status`, `attempts`, `runAt`, `lockToken`, `lease` | the columns of the row with the same meaning; `age` is the time since `completed_at` |
| `Enqueue`, `Replay` | `Enqueue` (ON CONFLICT leaves the row), `Replay` (dead rows only) |
| `Claim`, `ClaimNothing` | `Claim`: the reaping of exhausted leases, the ORDER BY and the new token, in one transaction |
| `HandlerReturns` | `execute` up to the verdict, with the workspace's write policy (`blocked`) deferring |
| `Complete`, `Defer`, `Fail`, `DeadLetter`, `ClaimLost` | the token-guarded UPDATEs, and what the worker does when one finds no row |
| `LoseContact` | an error of any of these calls; the row may have changed, the worker goes on polling |
| `Stop`, `Start` | shutdown or death, with the lease left behind; restart |
| `CancelWaiting` | a transaction elsewhere that completes waiting rows (`users/lifecycle.go`) |
| `Confirm` | the administrator's confirmation of an uncertain sequence send, which succeeds its dead job |
| `ApplyRetention` | the batch deletion of succeeded rows |

`JobLedger` is the promise: a job is waiting, taken, done or failed, has at most one
accountable owner, and an owner may be replaced when it went silent. The refinement
mapping takes the worker whose token still matches as the owner.

### SequenceDelivery, SendPermits

`SequenceDelivery` is one approved sequence: enrollment, cancellation, pause and approval
(`emailsequences`), `HandleJob` (`sequencerunner/service.go`) statement by statement, and
what ends an enrollment from outside (replies, unsubscribe, delivery feedback).

| model (`pc`) | code |
|---|---|
| `Load` ("load"), `LoadWhy` ("why") | the two queries of `LoadScheduledSend` |
| `Prepare`, `Quarantine` | `prepareDelivery` and the branch for a delivery found "sending" |
| `CheckAllowed`, `CheckRefused`, `FinalizeSuppressed` | suppression list, unsubscribe link, send limits |
| `ClaimDelivery`, `Classify` | `ClaimDelivery` and `classifyUnclaimedDelivery` |
| `CallProvider`, `FinalizeSent`, `MarkAfterAttempt` | the provider call, `FinalizeDelivery`, `MarkDeliveryUncertain` |
| `ResolveRetry`, `ResolveConfirmed` | `ResolveUncertainDeliveryJob` |

`SendPermits` is the promise to the recipient and knows no job, worker or delivery row: a
provider call uses up a permit; a permit is granted only while the sequence runs and the
enrollment stands at that step; one per step, and one more per administrator's retry.

### ExportJobs

`exports/async.go` (`filtered`) and `workspaceexports/service.go` in one module: two tables
with one life cycle. `filtered` is chosen once, in `Init`, and never changes; the guards that only one of the
two handlers has name it. `later` is the order in which files were stored (`completed_at`), as pairs of exports: eviction
spares the newest. `Store` and `Commit` are the storing transaction, split since what
it evicts is what it saw before it committed. `Disable` is the export part of
`stopDisabledUserEffects`. A lease here cannot lapse under a handler that still runs: the job timeout (four
minutes at most) is shorter than the lease, and every database call of the handler carries
the job's context, except the recording of a failure.

### PlanCapacity

`billing/capacity.go` and its users. `reserve`, `count`, `sum` are the statements of
`ReserveCapacity`; `open` and `effect` the transaction of the operation itself, from
`LockCapacityEffect` to `ConsumeCapacity`; `cancel` is the deferred `CancelCapacity`. An
operation of `Imports` lands rows in `Checkpoint` transactions instead and only then
consumes. `RollBack` contains the retry of `SetStatus`, which starts the transaction again
with the same reservation. A reservation of amount n is a row that names n records, so that
SUM(amount) is the cardinality of a set of pairs and the proof can use the library's
theorems about finite sets.

A checkpoint asks for no lock on the organization, and still cannot land between the two
counts: each of its inserts has a foreign key to `organizations` (migrations 001:55 and
061:50), whose check takes the row FOR KEY SHARE and waits for the FOR UPDATE of
`ReserveCapacity` (`capacity.go:104`) and `LockCapacityEffect` (`capacity.go:71`). That is
the guard `lock = Nobody` of `Checkpoint`. With a weaker lock (FOR NO KEY UPDATE), which
foreign keys do not wait for, checkpoints would land beside the lock
(`CheckpointBesideLock`): an import commits rows after another request counted what is used,
gives up its reservation before that request sums what is reserved, and the rows are in
neither number.

Two simplifications. Records are only counted, so an imported contact that is archived and
restored is the restore of another record, and no other operation shares the records of an
import. A reservation's id is one of finitely many, and is used again only when no operation
remembers it, as ids of a sequence never come back (`Fresh`).

### BillingState

`billing/webhooks.go`, `billing/reconciliation.go` and the retrieval in
`billing/stripe_provider.go`, for one workspace with one subscription (its references are set
once and never cleared). Stripe is modelled by its changes: `history` is the sequence of them
in the order they happened, an event for each, and a row's content is a position in it.

| model | code |
|---|---|
| `receipts`, `missed` | `billing_webhook_events` processed or ignored; an event of an invoice that named no known workspace |
| `linked` | `stripe_customer_id`, `stripe_subscription_id` |
| `applied`, `cursor` | the subscription columns with `billing_last_event_created`; `billing_invoices` with `last_event_created` |
| `standing`, `paymentCursor` | `subscription_status`; `billing_last_invoice_event_created` |
| `CheckoutWebhook`, `SubscriptionWebhook`, `InvoiceWebhook` | the serializable transaction of `HandleWebhook` for each family of events |
| `fresh`, `keyed` | `billing_last_reconciled_at` younger than six hours; the job's key is that of the present generation |
| `ScheduleReconciliation` | `ScheduleDueReconciliations` |
| `BeginReconciliation`, `RetrieveSubscription`, `ListInvoices` | `HandleReconciliationJob` up to the two GETs of `ReconcileSubscription`, `ObservedAt` being taken first |
| `ApplySnapshot` | the transaction of `applyReconciliationSnapshot` and the verdict to the queue, which may be lost |

Left out: references that disagree (refused, nothing changes), plan, period and trial
columns (written with the status, under the same guard), `invoice.finalized` and
`invoice.updated` (they only rewrite the invoice row, as a payment event does), more than
twenty-five invoices, a skew between Stripe's clock and ours (the watermark absorbs less than
a second of it), two reconciliations of one workspace at a time (the scheduler refuses an
active job, and only a replay of a job of an abandoned generation could bring one about).
Expected and visible in the model: two events of one object in the same second are applied
in the order of delivery, and an event that arrives after a snapshot read it may take a row
back until the next event; both are what reconciliation repairs.

### MailDeliveries

`emailmessages/record_deliveries.go` and `emailmessages/replies.go`: two ledgers with one
protocol, `recordMail` telling which (chosen in `Init`). Every step is a transaction of its
own and the process may stop between any two. A claim carries no token; the answer of a
provider call settles whatever claim is there.

| model | code |
|---|---|
| `Prepare`, `Replay` | the HTTP request with a new or a known idempotency key; one unresolved delivery by unique index |
| `Claim`, `ClaimChanged`, `ClaimStale`, `ClaimNothing` | `ClaimRecordDelivery`, `ClaimReply` and their branches; only the first looks at membership and record again |
| `RefuseToSend`, `CallProvider`, `Answer` | mailbox and suppression checks, the SMTP conversation (no deadline) |
| `Complete`, `CompleteTwice`, `CompleteFails`, `Fail`, `FailRefused` | `Complete...Delivery`, `Fail...Delivery`, guarded by the row's status |
| `Age`, `Recover` | five minutes pass; the recovery pass at start-up and every minute |
| `ConfirmSent`, `MarkNotSent`, `Retry` | what a person decides about an uncertain delivery |
| `Deactivate`, `Reactivate`, `ChangeRole`, `ChangeRecord` | `users/lifecycle.go` settling the sender's deliveries; edits elsewhere |

### QuoteDeliveries

The quotes of one deal (`deals`). `FinalizeQuote`, `DecideQuoteApproval`, `Expire`,
`ReissueExpiredQuote` are the version's life; the delivery actions have the names and the
shape of those of `MailDeliveries`, with the signature request as draft beside the row;
`BeginSigning` and `SignPublicQuote` are two steps because the clock is read before the rows
are locked; `CheckRetry` and `Retry` because the role is read without a lock.
`DeclinePublicQuote`, `VoidSignatureRequest`, `ConvertSignedQuoteToWon` and `MoveDealStage`
are the transactions of those names.

### DeliveryPromise

What the two ledgers above have in common, for a reader who wants to know what sending by
hand promises and not how: no claims that age, no recovery, no membership, no evidence
messages, no signatures. A delivery is decided on (`Decide`, one unresolved delivery of a
subject at a time), a decision buys one permit (`Grant`), a permit is used or given back in
one step of its holder, at any time, whatever became of the delivery meanwhile (`Call`). What
is in doubt is sent again only by a new decision (`Again`), accepted only if the provider
took it (`Accept`), and given up only if it did not (`GiveUp`). The end is final.

| promise | `MailDeliveries` | `QuoteDeliveries` |
|---|---|---|
| `fate` | `status`, with "accepted" for "sent" | `status` |
| `subject` | the one record or thread of the behaviour | `quoteOf` |
| `permit` | the request is at "check" or "send" | the request is at "send" |
| `reached` | `mailbox[d] > 0` | `arrived` |
| `Decide`, `Again` | `Prepare`, `Retry` | `PrepareQuoteDelivery`, `Retry` |
| `Grant` | `Claim` | `ClaimQuoteDelivery` |
| `Call` | `Answer`, `RefuseToSend`, `Stop` of a holder | `Send`, `Stop` of a holder |
| `Accept` | `Complete`, `ConfirmSent` | `CompleteQuoteDelivery`, `ConfirmSent` |
| `Refuse`, `Doubt` | `ClaimChanged`, `Fail`, `ClaimStale`, `Recover` | `ClaimExpired`, `FailQuoteDelivery`, `ClaimStale`, `Recover` |
| `GiveUp`, `Withdraw` | `MarkNotSent`, `Deactivate` | `MarkNotSent`, `Deactivate` |

The promise does not say that a delivery which was refused never arrives: a claim has no
token, so the refusal of an earlier call may settle a delivery that a later claim is about to
send.

### ImportBatches

One CSV import (`imports/async.go`, `write.go`, `completion.go`, `rollback.go`, `batches.go`). Executions and rollbacks take
turns on a session advisory lock (`Acquire`, `Unlock`), which ends with the connection
(`Crash`); `RecordFailure` is outside of it. `Load`, `MarkProcessing`, `ReadRows`,
`Checkpoint`, `CompleteBatch`, `ActorGone` are the job; `Begin`, `ListImported`,
`RollbackRow`, `CompleteRollback` the rollback request; `ExpireSource` the hourly cleanup;
`TouchRecord` an edit of a record since. The five counters are the columns of the batch.

### ReportSchedules

`customreports/schedule*.go`: one revisioned schedule, its runs, one delivery per recipient,
a delivery job per run and one more per operator retry. `EnqueueDueDeliveries` captures
revision and recipients; `Prepare` makes the artifact; `Claim` and `FindNonePending` are the
two outcomes of the claim pass, after it quarantined what stalled; `Send`,
`FinalizeRecipient...` the hand-over and the statements guarded by `status = 'sending'`
alone; `Defer`, `FinalizeDeliveryRun`, `DoneWhileInFlight` how a run ends; `Retry`,
`ConfirmSent` the operator; `UpsertSchedule`, `ReconcileDefinition` revisions, which cancel
stale runs; `Lapse`, `Stop`, `ClaimLost`, `GiveUp` what a lease does.

### Members

The people of one workspace: `onboarding`, `users/invitations.go`, `auth`, `passwordreset`,
`emailfeedback`, `users/lifecycle.go`, `users/role_lifecycle.go`. `link`, `key`, `shown` are,
for each purpose (verification, setup, reset), the token that counts, its delivery key and
the delivery status shown; `fate` is what became of each mail.

| model | code |
|---|---|
| `ResendVerification`, `VerifyEmail`, `CompleteSetup`, `RequestReset`, `CompleteReset`, `Invite` | the handlers, one transaction each |
| `Mail`, `RecordDelivery`, `HandlerStops`, `ComesBack`, `Feedback`, `CoolDown` | the mailer outside the transaction, its answer, the provider's webhook, the resend interval |
| `BeginLogin`, `CommitLogin`, `AbortLogin`, `EndSession`, `RevokeOtherSessions` | login under the lock of the user's row; sessions |
| `Begin...`, `Commit...`, `Abort` | a SERIALIZABLE lifecycle request: what it decides from its snapshot, and its commit, refused when a row it locked changed since (`stale`) |

### WorkflowApprovals

`workflowautomations`, one definition and one deal. A stage move (`BeginEvent`,
`ReserveRun`, `CommitEvent`, `AbortEvent`) reads the rules without a lock and holds the
definition only from the insertion of the run on; what it writes is visible at its commit.
`DecideApproval`, `ReplayDecision`, `UpdateDefinition`, `DeactivateDefinition` take every
lock first and are one step. Disabling a member (`BeginDisable`, `CommitDisable`) is
SERIALIZABLE: `seen` and `missed` are what its snapshot has and has not, `Disturbed` what
makes PostgreSQL refuse it.

### MailboxSync

One IMAP account (`mailboxsync`, `useremail`). `ListSyncTargets` and `ScheduleDueJobs` are the
scheduler, one job per due instant (`cycle`); `LoadCredentials`, `MarkSyncing`, `Fetch`,
`RecordInbound`, `Finish`, `updateFailure` the synchronisation, by a job or by a request
(`RunNow`); `BeginCheck`..`FinishCheck` the connection check, which writes the same status;
`Upsert`, `Delete`, `Disable` what happens to the account. Nothing is locked: any number of
runs overlap.

`Fetch` is the IMAP conversation. `recentUIDs` keeps the newest messages above the cursor,
and `parseFetchResponses` drops those of `TooLarge`: `imapLiteralSize` does not take a
literal of more than two megabytes (`imap.go:162`) for one, its bytes are read as further
lines, and a response without a literal is skipped (`imap.go:208`). Nobody is told, and the
cursor passes the message when a later one is stored. `CursorCovers` therefore names what
the cursor may pass (`Accounted`): what is stored, what was older than the limit when it was
passed, and what is too large to be read. That a lost message is one of the last two kinds,
and never one whose storing failed or which an overlapping run was still to store, is what
it says.

### RateLimits

`ratelimits`: `Begin`, then for each budget in order `Issue` (the statement reads the clock)
and `Consume` (it has the row, perhaps later), then `Accept` or `Deny`; `Lose` is a broken
connection, `CleanupExpired` the cleanup. A single budget keeps the mark of its rejection; a
group that is refused leaves nothing.

## Runs

| run | question | instance |
|---|---|---|
| `queue_safety` | do tokens, leases and guarded updates give one owner per job, and does the queue implement the ledger? (`TypeOK`, `NoStrandedJob`, `SoleHolder`, `LostClaimStaysLost`, `LeaseHonoured`, `ImplementsLedger`) | two jobs (two tries and one try, different priorities), two processes of which the older lacks a handler, four tokens, two arrivals per job |
| `sequence_safety` | are steps in order, endings final, suppressions honoured, jobs truthful? (`TypeOK`, `StepsInOrder`, `SendsAccountedFor`, `NothingAfterSuppression`, `EndedStaysEnded`) | one enrollment, two steps, two workers, one retry or replay per job |
| `sequence_retries` | does delivery implement the permits (`ImplementsPermits`), does every due send move (`NoSilentStall`)? | one step, two tries, two workers, one operator retry, archiving |
| `sequence_pause_race` | (violation) is a paused send still there after approval? | one worker, one step |
| `exports_one_at_a_time` | (violation) is one export generated at a time? | one worker |
| `capacity` | is the last slot sold twice, by requests or by the checkpoints of an import? (`ActiveWithinPlan`) | a creation, a restore of two records, an import of two rows; limit two; two reservation ids; an unlimited plan to move to and from |
| `billing_state` | do webhooks and reconciliation, racing, end at Stripe's state? (`TypeOK`, `NothingSkipped`, `StateConverges`, `SnapshotsMoveForward`, `InSyncEventually`) | two invoices, four changes over two seconds and one quiet second, one try and one replay |
| `outgoing` | is what leaves the workspace recorded once, bought once per decision, and in step with its job or signature? (`TypesOK`, `DeliveredOnce`, `LateAnswersDecideNothing`; `SignatureFollowsDelivery`, `DecisionsAreFinal`; `ExportsAccounted`, `ReadyStaysUsable`) | two deliveries, two requests, two quotes or exports, `MaxRows` 3, one retry, one visitor, one administrator, two tries and one replay of an export |
| `workspace` | do the ledgers of a workspace stay consistent? (`TypesOK`, `RecordsAgree`, `SettledStaysSettled`, `SentOncePerDecision`, `OpenRunHasJob`, `OwnerRemains`, `CredentialsCurrent`, `NewestLinkOnly`, `OnlyOvertakenPlansLinger`, `MailboxFollowed`, `BudgetsExact`) | see below |
| `liveness` | does every job end, every export stop blocking, every claim settle? (`EveryJobSettles`, `ExportsUnblock`, `ClaimsSettle`) | see below |
| `report_stranded` | (violation) is nothing left to send in a closed run of a report? | the reports of `workspace`, two recipients |

Properties with several parts are conjunctions of named ones: `SendsAccountedFor` is
`MovedOnWhenSettled`, `OnlySkipsStrand` (which excuses every job completed as skipped, and is
checked without archiving) and `SucceededMeansSettled`; `StateConverges` is
`WebhooksConverge` and `StandingConverges`; `ExportsAccounted` is `BlockerHasJob` and
`SucceededMeansProduced`; `DeliveredOnce` is `OneRecordPerDelivery` and `OneClaimPerDecision`;
`SignatureFollowsDelivery` is `DraftWhileUnresolved`, `SignedWasDelivered` and
`ReplacedIsClosed`; `RecordsAgree` is `CountersAgree` of imports and `PlansAgree` of
approvals; `SettledStaysSettled` is `KeepsRollback`, `KeepsOutcomes` and `KeepsDecisions`;
`MailboxFollowed` is `CursorCovers` and `DueIsServed`.

### Several parts in one run

`MCOutgoing`, `MCWorkspace` and `MCLiveness` hold modules that share nothing. Each has one
set of variables `v1`, `v2`, ..., a variable `about` that `Init` picks and no step changes,
and instances of the modules over those variables. Every disjunct is `OnX /\ M!Action /\
RestN`: it is enabled only when the behaviour is about that part, and leaves alone what the
part has no use for. The state space is therefore the sum and not the product of the parts'.
A part may be looked at more than once, under restrictions of its own (`MayTake`, `MayMail`,
...), when its full instance would be too large; a theorem about the part holds without them.

- `outgoing`: "mail" (both ledgers), "quotes", "exports" (both kinds). In "quotes" either the
  deal is moved or the sender is disabled, not both.
- `workspace`: "imports": two rows, a checkpoint of one, one try, one replay; only the first
  row's record is edited, and a second rollback is asked for before the replay. "reports": two
  workers under the schedule as it is; "revisions": one worker at a time under a schedule that
  changes; two tries, one retry. "people": two browsers, two links, nobody promoted or
  revoked; "links": one browser, no login, three links, of which the invitations' mail is
  read; "lifecycle": two lifecycle requests at once, one browser, two links, mail nobody
  reads. "approvals": two members, one a manager, two stage moves, one decision key, two
  revisions, of which the first asks an owner and the second whoever has the deal; roles are
  fixed. "mailbox": two overlapping runs of an unchanged account, at most one of them a
  request; "account": everything else that happens to an account while one run or check is at
  it, one message; four messages fetched two at a time, of which the second is too large;
  three due instants, one try.
  "limits": two budgets of one and two, a window and a grace of one tick, three ticks.
- `liveness`: "jobs": two jobs that share a worker; "claims": two workers and one job;
  "exports": two exports and a worker; "replays": one export, two workers, a replay; "mail":
  one delivery and two requests.

### Why the bounds are enough

Every protocol here is between at most two parties about one row, with time and failures as
third: two workers give a stale and a current holder, and two jobs give the competition
inside one `Claim`. A second try is what makes retry, reclaim and exhaustion differ, a second
arrival what makes replay and re-insertion under the same key differ, and a second step is
where "the next step" first exists. Four tokens are two per worker: a fresh one is always
available while one stale and one live claim exist for each. `Horizon`, `Lease`, `RetainFor`
and the delays of one tick distinguish due from not due and expired from live, and nothing in
the code compares two instants further. In `capacity` limit two with batches of one and two
(the import of two can fill the plan alone, in one checkpoint or two) makes every sum of used and reserved hit the limit exactly, one below, and one above; two ids
make a slot change hands while its old holder still runs. In `billing_state` two seconds make
changes of one object earlier, later or tied, the second invoice lets payments of one
overtake those of the other, and the quiet second lets a snapshot be begun after the last
change with a watermark after it too; the replay gives a generation a second run, as a second
try would. In `outgoing` a second delivery tests the unique indexes, a second quote is what a
reissue needs. In `workspace` a checkpoint of one row out of two is an interruption in the
middle; a third link is one that replaces a replaced one; four messages fetched two at a time
leave some behind, and the one too large comes first in a batch, last in a batch, or among
those left behind. Violating any single guard named in the mutants is found within these
bounds.

The safety theorems below hold for every value of these constants, so for most properties
the bounds matter only for how much TLC saw of the model, not for what is claimed.

Symmetry is used where permuted values are interchangeable in the code and the constants:
tokens, workers, exports, deliveries, requests, reservation ids. Runs with a liveness
property use none.

Deadlock is checked except in `billing_state` (a workspace that was never linked, with all
changes made and time at its bound, has nothing to do) and in `workspace` and
`report_stranded`, where a part that reaches its bounds (revisions, runs, ticks) stops.

### Fairness

- Queue: a process restarts after it stops (the service manager does that) and polls for
  ever, so `Start` is weakly and `Poll` strongly fair (the poll timer is re-armed after every
  cycle, but a claim may be snatched by another process meanwhile); a handler returns
  because of the job timeout; the finishing statement is issued at once; time passes.
  Producers, operators and policy owe nothing, and the property assumes only that policy
  stops deferring.
- Sequences and exports: workers take waiting jobs, every handler step returns, lapsed
  leases are reaped by any claim. `CheckAllowed` is strongly fair: a refused send defers to
  the end of a fixed window, so a send that keeps asking is let through at some point. Members,
  recipients and administrators owe nothing.
- Mail: time passes (`Age`) and the recovery pass runs each minute (`Recover`). No request is
  assumed to take another step.
- Billing: the clock advances, evidence grows stale, the scheduler's timer is re-armed after
  every pass, workers take and finish jobs. Deliveries, Stripe and operators owe nothing:
  `InSyncEventually` holds if no webhook ever comes after the one that linked the workspace,
  and excepts a generation whose job used up its tries.

In `liveness` a fairness condition of one part and a condition of another are stated as one,
`WF(A \/ B)`, since no behaviour is about both.

## Proofs

All are checked by `tlapm` with SMT, Zenon and LS4. They assume only what each module's
named ASSUME says of its CONSTANTS, which TLC evaluates in every run: among them that
`Nobody` is not an actor, that `None` is neither a quote nor a delivery, and that the sets
which are counted are finite. Every safety invariant and every safety action property a run
checks is a theorem, and so are the four refinements.

Each strengthening below was first given to TLC as an invariant of its run, and each
refinement as a property of it.

**Queue** (`JobQueue_proofs`). `IInv` is the type invariant, `RowConstraints` (the CHECK
constraints of the table), `NoStrandedJob` and two strengthenings: `ClaimShape`, which ties a
worker's place to what it holds, and `UniqueTokens`: no two workers and no two rows carry the
same token. `SoleHolder` alone is not inductive: after a reclaim the old holder is excluded
only because the new token is unlike any token any worker still carries. Theorems:
`TypeCorrect`, `Invariance`, `RowConstraintsHold`, `NothingStranded`, `ClaimsAreExclusive`,
and, from the invariant before and after the step, `LostClaimsStayLost` and
`LeasesAreHonoured`. For the last: a row that is not running has no lease left, and a running
row whose lease has time left is neither exhausted nor expired for anybody else's `Claim`, so
that only a guarded verdict can change its token (`LeaseOutlastsOthers`).
`QueueImplementsLedger`: `Spec => Ledger!Spec` for any number of jobs, workers and tokens. The
mapping's owner is a CHOOSE; the invariant makes it the unique holder (`OwnersAreHolders`),
and then one lemma per kind of step names the ledger's step or stutter.

**Sequences** (`SequenceDelivery_proofs`). The strengthening: a worker anywhere in the handler
is at a step that was reached (`WorkIsReached`); who is about to report success has seen a
settled delivery (`OkIsSettled`); an owned job is taken (`OwnedIsTaken`); steps before the
enrollment's are sent and steps after it have neither delivery nor job (`Cadence`); a call
past the suppression check is for a step before the cutoff, even if the suppression comes now
(`AllowedBefore`), only a suppression closes a cadence early (`CutoffsAreOpen`), and what was
sent was reached before the cutoff (`SentWasReached`). From it `TypeCorrect`, `StepsAreInOrder`, `SendsAreAccountedFor`,
`SuppressionHolds` and the action property `EndingsStand`.
`SequenceImplementsPermits`: `Spec => Permits!Spec`. Two more invariants (`PermitInv`): a
delivery that waits has been claimed as often as it was re-armed, a claimed one once more
(`PermitsTaken`); and provider calls made plus workers about to make one are at most the
claims (`CallsInHand`). The second counts a set of workers, whose finiteness is part of the
invariant (it is empty at first and grows by one), so that nothing is assumed of `Workers`. A
provider call then maps to `Use`, a claim to `Grant`, an operator's retry to `Allow`, and the
rest to the sequence's switch, a beginning, an advance, an ending or a stutter. `NobodyIsSentTwice`, a corollary: one call for a
step, and one more for each explicit retry.

**Capacity** (`PlanCapacity_proofs`). `NeverOversold`: `ActiveWithinPlan` for any number of
operations, imports, records, reservations and plans. The strengthening: between lock and
commit the operation holds the organization row (`LockHeld`); a count taken under that lock
bounds what is used until it is released (`CountHolds`), since effects and checkpoints wait
for the lock and archiving only lowers the truth; a reservation is worth exactly the records
of its operation's batch (`RowIsBatch`), and that of an import at least the rows it has yet to
process, for as long as the import runs (`ImportHolds`), so that an effect and a checkpoint
trade reserved for used one for one (`Exchange`); an operation without a reservation acts only
when an unlimited plan was had, or nothing is left to do (`NoFreeEffect`); only imports have
processed rows, of their own batch (`OnlyImportsProgress`, `ProgressOfBatch`). The grant step
is the heart: used + reserved + asked within the limit, by the count and the sum under one
lock, implies the new total within it. `ImportHolds` is where an import's four minutes are
needed to be less than a reservation's ten. `TypeCorrect` is proved only, not a property of a
run.

**Billing** (`BillingState_proofs`). `TypeCorrect`, `NothingIsSkipped` (`NothingSkipped`) and
`SnapshotsNeverGoBack` (`SnapshotsMoveForward`) for any number of invoices, changes and
replays. What a snapshot is worth: it was begun at a second before anything was read, so it
has every change of an earlier second (`SnapshotComplete`); and what it lacks of a row came
from a webhook created at that second or later (`SnapshotOlder`), whose cursor a watermark one
second older does not reach. That the history is in order of its seconds (`HistoryOrdered`)
carries both to the rows. `Latest` is a CHOOSE of a greatest position; that there is one
(`GreatestPosition`) comes from the library's theorem that the naturals are well-founded.
`StatesConverge` (`StateConverges`): once every change was handled, in whatever order and
between whatever snapshots, rows and status are Stripe's. A handled event leaves a cursor at
its second or later and a row that has the event (`RowsFollow`); the payment cursor is the
second of a payment and no handled one is later (`PaymentsFollow`); a subscription is active
or past due only as its last payment says (`StripeTruth`); and while the row has the
subscription's latest change, the status is one that change allows, and the one it calls for
once the latest payment was handled too (`StatusFollows`).

**Mail, quotes, exports** (`Outgoing_proofs`), about the parts of `MCOutgoing`. Mail: a
delivery not claimed yet has one claim left of those its preparation and its retries bought
(`ClaimInHand`), a request that holds the provider's acceptance is right about it
(`MailAcceptanceIsTrue`); `MailIsDeliveredOnce`, `LateMailDecidesNothing`. What the provider
took, plus the requests that hold a permit, is at most what was claimed (`MailIsClaimed`), a
set of requests being counted whose finiteness is part of the invariant; hence
`MailIsAskedFor`: no message arrives more often than once and once more per retry. Quotes: what was delivered had been reviewed
(`DeliveredWasReviewed`), only an expired quote is replaced and it stays expired
(`ReplacedIsExpired`), and the provider's acceptance as above (`QuoteAcceptanceIsTrue`);
`SignaturesFollow`, `QuoteDecisionsStand`. Exports: a handler has its job in hand
(`JobInHand`), is alone on its export (`AloneOnExport`), found nothing to download when it
goes on after its first look (`NothingToKeep`), and reports success only when the file was
there or is stored (`OkIsProduced`); `ExportsAgreeWithJobs`,
`DownloadsOnlyExpire`. Each is proved of the module's own `Spec` and, since every step under
an `about` is a step of that part's `Next` (`OutgoingInv`), of the composite; the restrictions
of the instance are not used. `OutgoingTypesHold`: the types of all three, for which the
exports needed what the other proofs did not (`ExportsRest`: the order of storing, the owners
and tries of the jobs, what a storing transaction evicts).
`MailKeepsPromise` and `QuotesKeepPromise`: each ledger's `Spec` implements `DeliveryPromise`.
One lemma says which writes of a row are steps of the promise (`MailWritten`,
`QuoteWritten`), one that a claim is a grant, one that whoever leaves the provider's door used
its permit; each action is then one of these or invisible. That a request with the provider's
acceptance is right about it is what makes `Complete` an `Accept`.

**People, mailbox, limits** (`WorkspaceAccess_proofs`), about parts of `MCWorkspace`, in the
same way. An owner remains because an undisturbed lifecycle request holds its target and,
when it takes an owner away, has seen another active one (`RequestsStand`): write skew between
two owners is excluded since each request locks all active owners, so the first commit
disturbs the second. Credentials: nobody is invited before the founder's address is verified (`FounderFirst`), a
chosen password is a verified person's (`ChosenIsVerified`), a setup link never stands beside
one (`SetupIsFirst`), and no session outlives its password. Links: a link and its delivery key
are the newest or none, and the status shown is what became of the newest (`LinksFollow`); no
setup link is left of an invitation that was revoked or used (`SpentIsVoid`); nobody used or
lost one never sent (`StrangersAreNew`). Mailbox:
no run passes a message by that it neither stored nor left out as too old or too large (`RunsCover`); a run
that answers for a job has it alone (`JobHeld`, `HeldAlone`), there is a cycle left for every
run under way (`RoomInv`), and an account marked "syncing" is in the hands of a run or a job,
or was left so by a request (`SyncingIsAnswered`). Limits: a row is held by the caller that
consumed it and is exact after either end of its call (`HolderConsumed`, `RowInHand`), and a
caller is denied by one of the rows it holds (`DeniedByARow`).

**Imports, approvals, reports** (`WorkspaceRecords_proofs`). Imports: whoever is between the lock and the end of the
call has the lock (`LockHeld`), the rows in its hand are still as it read them (`WorkInHand`),
and nothing is left of the file of a batch that was rolled back (`RollbackForgets`): hence
`RecordsAlwaysAgree` and `EndedRecordsStand`. Approvals: nothing of an event is written before
its commit (`Unwritten`); an event under way knows the definition or is overtaken
(`UnderWay`), a disabling has seen what is pending of its member or missed it because it was
committed since (`Watched`), and so an approval left pending is current or excused
(`Excused`; `NoOtherPlanLingers`). Reports: what the provider may have, what is pending, and
refusals not yet written stay within one more than the retries (`HandedOnce`;
`ReportsAreSentOnce`); a worker is on a run that began (`OnTheRun`), and the latest job of a
run exists and is done only when the run is closed (`LatestJob`; `OpenRunsHaveJobs`).

**Types of a workspace** (`Workspace_proofs`): `WorkspaceTypesHold`, the types and bounds of all
six parts, from the invariants above and what those did not need. Reports: a mail on its way
was counted when it was handed over (`OutCounted`), so that taking one refusal back leaves
the counter a natural number, and a delivery is retried once per recovery at most
(`RetriesCounted`). People: the bound on the links of all persons together bounds those of each, since a person's
links map one to one into them (`LinksLeft`), and feedback is only awaited on a link that was
mailed (`LinksCounted`). Mailbox: a job that waits has an attempt left (`AttemptsLeft`).
Limits: a stamp is an instant of the clock (`ClockTyped`). It assumes of the constants what
`WorkspaceAssumption` says of them: bounds are natural numbers, those of what must happen once
are positive.

Only model-checked: all liveness (`EveryJobSettles`, `ExportsUnblock`, `ClaimsSettle`,
`NoSilentStall`, `InSyncEventually`), since the prover does not reason about fairness and
ENABLED. No module here needs a recursive definition, and what such definitions compute could
not be proved (induction over data takes an operator parameter that the provers cannot
instantiate).

## Where code and documentation disagree

- `sequence_pause_race`: `LoadScheduledSend` asks whether a send is executable and then, in a
  second query, whether it is paused. Approved in between, it is neither: the job completes as
  "skipped" and the enrollment stays at that step with nothing to send it.
- `exports_one_at_a_time`: an attempt that failed with retries left marks the export failed, a
  second export is requested, and the retry generates beside it.
- `report_stranded`: confirming one uncertain recipient, or stopping a stale run, closes the
  run while another recipient is still to be mailed, who then never is
  (`docs/operations-runbook.md:1591`, `1609`).

Seen while modelling and left as remarks: no invariant of the system depends on them, or no
sentence of the documentation says otherwise. Files are under `apps/api/internal/modules`.

*Sequences, queue, exports, capacity*
- Past the job's timeout a failed send's delivery stays "sending" under a dead job, where the
  runbook says "uncertain" (`sequencerunner/service.go:229`).
- Two workspace exports stored at once can leave one more ready artifact than the cap
  (`workspaceexports/service.go:305`); the message left on a deactivated administrator's export
  advises replaying a job that the same transaction completed (`users/lifecycle.go:452`).
- The reservation of an import that crashed stays up to ten minutes (`imports/async.go:128`); a
  checkout whose request stops stays "creating" (`billing/service.go:344`).

*Mail and quotes*
- An operator may mark a delivery "not sent" while its SMTP conversation, which has no
  deadline, is still open; a late acceptance is then refused by the row.
- `ClaimReply` does not look at the membership again, `ClaimRecordDelivery` does, and it takes
  its locks in another order than `docs/security-surface-inventory.md:54` says;
  `ResolveQuoteDelivery` reads the membership without FOR SHARE
  (`deals/quote_deliveries.go:477`, against `docs/versioned-quotes.md:152`).

*People*
- An invited owner without a password counts as the owner that remains. An invited person can
  also ask for a verification link.
- A login that races a deactivation leaves a session row that works again after reactivation
  (`docs/professionalization-roadmap.md:1085`: "Disabled users cannot keep active sessions").

*Playbooks*
- An approval stays pending, and can be decided, from a superseded plan when the definition was
  edited or deactivated between the reading of the rules and the insertion of the run
  (`workflowautomations/deal_task_rules.go:78`), or when the requester was disabled by a
  transaction whose snapshot is older than the run (`approval_cancellation.go:58`), where
  `docs/security-surface-inventory.md:83` and `docs/operations-runbook.md:1160` speak of every pending
  approval. `OnlyOvertakenPlansLinger` says that these are the only ways.
- An owner change committed while a disabling waits leaves the deal with the disabled member.

*Imports and reports*
- The rollback of an interrupted import and its automatic retry: the retry resumes a batch of
  which rows were rolled back.
- `returnRecipientPending` and the statements that settle a recipient are guarded by `status =
  'sending'` alone.

*Mailbox*
- A message of more than two megabytes is left out of a batch, no error is recorded, and the
  cursor passes it once a later message is stored (`mailboxsync/imap.go:162`, `208`,
  `mailboxsync/service.go:170`); the documentation speaks of importing "recent" messages and
  names no bound on their size.
- Only the newest messages above the cursor are fetched, and the cursor then passes the older
  ones (`mailboxsync/imap.go:199`, `gmail.go:65`, `graph.go:101`).
- Connecting another mailbox keeps the cursor (`useremail/service.go:435`); messages of the new
  one numbered below it, or whose number is stored already, are not fetched.
- An account left "syncing" by a request that was cut off is not discovered by the scheduler
  (`useremail/service.go:230`, against `docs/professionalization-roadmap.md:2808`); a dead job
  blocks the key of its due instant until a replay, a manual run or a save.
- A run in flight while its member is disabled writes "ready" or "error" over "disabled"
  (synchronisation itself stays off).
- Task reminders compare the due time with the process's clock, and were enqueued by the
  database's (`taskreminders/service.go:168`).

## What is not modelled

Inside the modelled parts: authoring of sequence definitions and revisions, the merge of two
contacts with enrollments, and the older `SendDue` loop; contents of export files and the
synchronous CSV export; which rows of an import are valid, previews and the error file;
composition of messages, tracking, threads and the shared inbox; line items, numbering and the
public page's receipts of quotes; the queries of a report; the profile and preference forms;
checkout and portal sessions; OAuth refresh and the listing of Gmail and Graph mailboxes; feedback on
a mail whose hand-over had failed; a message too large whose lines look to the client like further responses (`imap.go:102`). Of
playbooks: the other kinds of action, notifications, lead follow-ups, causal nesting, the
evaluation of conditions and the limit on active actions. PostgreSQL's own deadlock
detection (an aborted transaction is a failed call, which every model has), and clock
differences between processes except in `RateLimits` (every other instant compared in SQL is
the database's).

Outside: lead forms and their challenges (a challenge is consumed in the transaction of the
submission), task reminders, notifications and nurture campaigns (idempotent handlers of the
queue), bulk, archive and duplicate operations (one transaction each; their capacity side is in
`PlanCapacity`), campaigns, audiences and SMS, then HTTP routing and rendering, the web client, read models,
single-transaction CRUD, migrations, seed data and deployment scripts. Most of the program by
lines is of these last kinds, which is why the models stand for a modest share of its lines:
there is no protocol in the rest for a model checker to explore.
