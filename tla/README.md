# CA-Firm ERP: TLA+ models and proofs

The repository is a multi-tenant back office for chartered-accountancy firms: an
Express API over PostgreSQL (Prisma), BullMQ queues on Redis with worker processes,
S3 for files, Razorpay for money, and a React client. This directory holds TLA+ models
of the parts where requests, jobs and outside services interleave, the instances TLC
checks, and TLAPS proofs about them. The code under `src/` is the reference;
`PROJECT.json` names, for every definition that models code, the lines it translates.

Contents: [inventory](#inventory), [how the models are
written](#how-the-models-are-written), the modelled parts
([client payments](#client-payment-collection), [platform
billing](#platform-billing-and-the-tenant-gate), [sessions](#sessions-and-refresh-tokens),
[signing in](#signing-in-and-reset-links), [invitations](#invitations),
[notifications](#notification-delivery), [integrations](#integration-sync),
[reminders](#reminders), [documents](#documents), [work items](#work-items),
[leads](#leads)), [runs and bounds](#runs-and-bounds), [fairness](#fairness),
[proofs](#proofs), [disagreements](#disagreements-with-comments), [not
modelled](#not-modelled), [plan](#plan).

## Inventory

`backend/src` is 41,000 lines in 22 modules; every module has the same layers
(routes, controller, schema, service, repository, mapper), and state changes only in
services, repositories, workers and two middlewares. One request is one `async` function
in one process; PostgreSQL runs at READ COMMITTED and only the code inside an explicit
`this.transaction(...)` is atomic. **Every other `await` is a point where other requests,
workers and processes run**, and most handlers read a row, decide, and write it by its id
without a condition on what was read. That pattern is the main source of what is hard to
test here.

| Part | State | Operations | Talks to | Hard behaviour | What makes it correct |
|---|---|---|---|---|---|
| Client payments (`client-billing`) | invoices, payments, gateway links, firm's gateway settings | links, webhook, payments by hand, invoices, expenses | Razorpay with the firm's own keys | late, repeated, concurrent webhooks; link persisted after it can be paid; crash before the 200 | every capture booked once; link, payment and invoice agree; no acknowledgement without a booking |
| Platform billing (`billing`), tenant gate | tenant's plan and expiry, platform_invoices | checkout, verify, webhook, lapse, master admin's edits | Razorpay with the vendor's keys | two confirmations of one order; two statements without a transaction; stale lapse | no plan unpaid; no capture forgotten; invoice and tenant agree |
| Sessions (`auth`, part of `users`) | user_sessions, refresh_tokens | login, refresh, logout, session limit, revocations, reset, deactivation | JWT, mail | rotation races; revocations that race with a mint; deaths between two statements | revocation final and reaching tokens; limit kept; a rotation strands nobody |
| Login lockout, reset links (`auth`) | counters and reset tokens | failed logins, forgot and reset password | mail queue | lost counter updates, a link checked outside its transaction | lock after N failures; a link is used once |
| Users and invitations | users, invitations, a contact's portal user | invite, resend, revoke, accept, remove | mail queue, sessions | accept against revoke, two invites of one address or contact | one way in; every user was invited; a contact keeps a client |
| Notifications | notifications, preferences, templates, queue | send, cancel, deliver, retry, exhaust | BullMQ, mail, SMS and WhatsApp providers | stalled and retried jobs, cancel against worker, crash between row and job | SENT means delivered; no recorded delivery repeated; no row forgotten |
| Integrations | connections, syncs, jobs, webhook logs, two queues | connect, schedule, sync, webhooks, retries | providers, BullMQ | crash between row and job, overlapping runs, exhausted jobs | one run at a time; every sync ends or is let go in a named way; a replay is not lost |
| Reminders (tasks, compliance, documents, invoices) | one ledger table each | daily scans | notifications | dispatch before the ledger's insert, two scans at once, moved due dates | each reminder once, and not never |
| Documents | documents, versions, folders, requests, S3 objects | upload, version, approve, move, delete | S3, quota | two latest versions, orphan objects, quota read before insert | one latest version; quota kept; rows and objects agree |
| Tasks, projects, document requests and approvals | rows with a status machine | create, change, reopen, archive, delete, restore | notifications, audit | transitions checked on stale rows | only legal transitions; closed rows stamped; nothing completed unapproved |
| Leads, businesses, contacts (`crm`, `business`, `contacts`) | leads, clients, conversions, contact roles, assignments, proposals | pipeline, conversion, assignment | audit | conversion twice, two primaries, rollbacks | a conversion is whole; one primary contact; one owner |
| Roles and permissions | roles, grants, assignments | create, grant, assign | sessions | grant checked on a stale role | nobody grants what he lacks |
| Calendar, tenant settings, dashboard, reports, search, audit | single rows, append-only log | CRUD and aggregation | DNS (domains) | few | rows well formed |
| Master admin | tenants, plans | create, suspend, limits | mail queue | edits against tenants' own requests | one transaction creates a usable tenant |
| Browser client | tokens in `localStorage` | single-flight refresh, logout | the API | several tabs, refresh against logout | one refresh at a time, no session after logout |

The parts meet in few places: almost everything sends notifications (`send()` is called
after the caller's own write and its failure is swallowed); `users` and `auth` share the
sessions; every tenant request passes `auth.middleware`, then `tenant.middleware`; client
billing and platform billing share the Razorpay library but neither tables nor keys, and
both are shown to implement the same abstract specification, `GatewayCollection`.

`PROJECT.json` lists every part under `components`, and the hazards, each at the line
where it bites, under `hazards`.

## How the models are written

* A handler outside a transaction is a sequence of actions, one per awaited statement or
  outside call; the variable that holds the request keeps exactly what the handler's local
  variables keep, so a stale read stays stale. Code inside a transaction, and a handler
  with one awaited statement, is one action, except in `LeadPipeline`, whose transactions
  wait for each other's rows and are modelled statement by statement.
* Each module has one tenant, user, channel, connection or row: the code always scopes by
  those, and rows of different ones never meet except where a module says so.
* Rows are sets of model values (`Invoices`, `Tokens`, `Docs`...), which bounds how many
  may be created. Every other bound is a CONSTANT too and marked `(bound)` where it is
  declared: crashes, faults, edits, attempts, days, requests in flight.
* Amounts, texts and formatting are left out; no decision of these handlers reads them.
  Time is a calendar of days in `PlatformBilling` and `ReminderScan` and free elsewhere: a
  lock, a link or an invitation may lapse between any two statements.
* Variables called *observations* (`bookedFor`, `late`, `stale`, `raced`, `split`...)
  record what has happened so that a property can speak of it. No guard reads them.
* Definitions commented `Fault:` or `Variant:` are bugs a programmer might plausibly
  write. No action uses them; they are the mutants that show each property can fail.
* A property mostly has the form *this holds, except after that*, where *that* is an
  observation of one particular interleaving. The exception is as narrow as the code
  allows, so the property says both what the code guarantees and the only way round it.
* The instances set `CHECK_DEADLOCK FALSE`: they really may stop, when all rows are used
  up, all calls are over and everything captured or queued is settled.
* What only proofs need (inductive invariants, auxiliary operators) is in the proof
  modules; a component module holds the code and the properties.

## Client payment collection

`ClientPayments`, abstract specification `GatewayCollection`, instance `MCClientPayments`,
proofs in `PaymentLeadProofs`.

| Model | Code |
|---|---|
| `ReadInvoice`, `ReadSettings`, `CallProvider`, `CallFails`, `PersistLink`, `PersistFails` | `PaymentLinkService.generatePaymentLink`, an action per await |
| `ClientPays`, `Deliver` | Razorpay (external): captures, and posts `payment_link.paid` until answered 2xx |
| `LookupLink`, `UnknownLink`, `RejectSignature`, `IgnoreEvent`, `AcceptEvent`, `Commit`, `CommitConflict`, `Respond` | `PaymentGatewayWebhookService.handleWebhook` and its controller; `Commit` is its transaction, `CommitConflict` the unique payment number's P2002 |
| `CreatePayment`, `UpdatePayment`, `DeletePayment`, `CreateInvoice`, `DeleteInvoice`, `UpdateSettings` | staff, in the services of the same names |
| `Crash` | the process dies while it handles a delivery |

State: `invoices`, `payments`, `links`, `settings` are the tables, `generating` and `hooks`
the requests in flight, `provider` and `pending` Razorpay's own view.

Checked: `TwiceBookedMeansRenumbered` (what exactly stops a second booking: nothing but the
unique payment number), `ImplementsCollection` (refinement of `GatewayCollection`: stage of
the money, the link's target, settled invoices), `CapturedIsEventuallyBooked` (liveness: a
capture whose link has its row is booked; one that came before the row is booked or
acknowledged as of an unknown link, which gives it up).
Proved besides: `PaidLinkIsBooked` and `LinkAndInvoiceAgree` (link, payment and invoice
agree although staff edit and delete), `CaptureAccountedFor` (money is booked, still
announced, or was acknowledged before its link had a row, the one hole),
`AcknowledgedMeansBooked` (once the row exists, a 200 means booked),
`CompletedMeansBooked`.

## Platform billing and the tenant gate

`PlatformBilling`, abstract specification `GatewayCollection`, instance
`MCPlatformBilling`, proofs `PlatformBillingProofs`. One tenant, its row, its
`platform_invoices`, Razorpay's view of the orders, requests in flight, and a calendar of
days.

| Model | Code |
|---|---|
| `Lapsed`, `Admitted`, `NoticeLapse`, `WriteExpired` | `tenantMiddleware`: the row is read once; EXPIRED is written by id |
| `StartCheckout`, `CreateOrder`, `OrderRefused`, `InsertInvoice` | `createCheckoutSession` |
| `VerifyPayment` | the browser's confirmation, behind the gate, with the gateway's signature |
| `DeliverCaptured`, `IgnoreCaptured`, `AlreadyPaid`, `Acknowledge` | `handleWebhook` and its controller, public |
| `StartFinalize`, `MarkPaid`, `ApplyPlan`, `Finish` | `finalizePayment`: the two statements of its `Promise.all` run in either order |
| `StatementFails`, `Crash` | one statement rejected, the other kept; the request dies |
| `UpdateLimits` | the master admin sets plan, status and expiry at any time |

Checked: `PaidMeansApplied` and `ExpiryMatchesInvoice` (invoice and tenant part only if a
statement failed, the process died between them, or two requests finalized at once:
`split` holds exactly those orders), `LockoutMeansLapse` (nobody is locked out of a paid
period except by a stale lapse), `CapturedIsEventuallyPaid` (liveness). Proved besides:
`GrantedWasCaptured`, `CaptureAccountedFor`, and `ImplementsCollection`, where an order is
a link and its invoice at once.

## Sessions and refresh tokens

`AuthSessions`, instance `MCAuthSessions`, proofs `AuthSessionsProofs`.

| Model | Code |
|---|---|
| `StartLogin`, `CreateSession`, `CreateFirstToken`, `ReadActiveSessions`, `EvictSessions`, `EvictTokens` | `AuthService.login` after the password check, and `enforceConcurrentSessionLimit` |
| `PresentUsedToken`, `PresentUsableToken`, `CheckIdle`, `CheckUser`, `MintSuccessor`, `MarkUsed`, `TouchSession` | `AuthService.refresh` |
| `StartRevocation`, `RevokeTokens`, `RevokeFamily`, `RevokeSession` | logout, session revocation, reuse detection and idle timeout: tokens first, then the session |
| `AdminRevokeSession`, `AdminRevokeTokens` | the administrator's revocation, in the opposite order |
| `LogoutAllSessions`, `ChangePassword` | one `updateMany` on sessions that leaves tokens alone |
| `StartReset`, `ResetPassword`, `StartDeactivation`, `DeactivateUser`, `SetInactive`, `ReactivateUser` | the account's transitions as they reach sessions |

`newer` keeps the order of `lastActiveAt`. A rotation family belongs to one session, so a
token's family is its session. Time is free: any session may be found idle.

Checked: `RevocationReachesTokens` (a usable token of a revoked session was minted late by
a request that had read its predecessor, or the revocation died or is under way, or was one
that spares tokens), `SessionsWithinLimit` (active sessions exceed the limit by at most the
logins that have not enforced it yet and those that died before), `RevocationIsFinal`
(action property against late writes of `touchSession`). Proved besides:
`UsedTokenHasSuccessor` (mint before mark: nobody is stranded by a crash).

Seen while modelling: "the session just created above is always the most recently active
and therefore never itself evicted here" (`auth.service.ts:172-173`) holds of one login at a
time. A login that reads the sessions after `Limit` later logins have made theirs evicts its
own: `EvictSessions` then has its session among the victims. The limit is not at stake, so
`SessionsWithinLimit` does not see it, and no property of the runs asks for more.

## Signing in and reset links

`SignIn`, instance `MCSignIn`, proofs in `NotificationSignInProofs`. One account.

| Model | Code |
|---|---|
| `Login`, `RecordFailure`, `Notify`, `RecordSuccess` | `AuthService.login` up to the session, `recordFailedLogin` (reads the counter with the user, writes it as that plus one, then announces the lockout), `recordSuccessfulLogin` |
| `Forgot`, `Mint` | `forgotPassword`: revokes the older links, makes a new one later |
| `OpenReset`, `CommitReset` | `resetPassword`: tests the link, then spends it in a transaction |
| `LockLapses`, `LinkLapses`, `Stop` | time, and a request that ends before its write |

A request becomes *stale* when another one writes what it has read, and *straddling* when a
success is recorded after it read. `MaxAttempts` is the code's 5; a lock and a link last 30
minutes.

Checked: `LockoutIsEarned` (the counter is the failures since the last success, more only
by a straddling login, fewer only by crossed ones), `NoticeOncePerLockout`,
`OneUsableLink`, `LinkIsSpentOnce` (each fails only through a request overtaken between its
read and its write), `LockHoldsUntilItLapses` (action property).

What the model shows of the code as it is: a lapsed lock does not reset
`failedLoginCount`, so one more failure locks again; `resetPassword` does not open a lock.

## Invitations

`Invitations`, instance `MCInvitations`, proofs `InvitationsProofs`.

| Model | Code |
|---|---|
| `Invite`, `CheckPending`, `CheckContact`, `Create` | `UserService.inviteUser`, an action per await |
| `ReadForResend`, `Resend`, `ReadForRevoke`, `Revoke` | `resendInvitation`, `revokeInvitation`: test the status, write by id |
| `OpenLink`, `Expire` | `resolvePendingInvitationOrThrow`, for the preview and for the acceptance; a lapsed invitation is written EXPIRED |
| `Join`, `JoinConflicts` | the transaction of `acceptInvite`; a second user of the address is a P2002 |
| `RemoveUser`, `Lapse`, `Stop` | soft deletion; time; a request that ends before its write |

Checked: `OneWayIn` (an address has one open invitation or a user, unless two invites
crossed, a write was overtaken or an expired invitation was resent),
`UserHasItsInvitation`, `ContactHasItsClient`, `OnlyStaleChecksFail` (action property: what
each write rests on was still so, or was written since). `ClientStaysClient` is violated:
see [disagreements](#disagreements-with-comments).

Seen while modelling: the unique (tenant, e-mail) key spans removed users, so somebody
removed and invited again can never join; the contact of a removed portal user cannot be
invited for again; resending an EXPIRED invitation revives it without the checks of a new
one; a resend or revocation may write over an acceptance.

## Notification delivery

`NotificationDelivery`, instance `MCNotificationDelivery`, proofs in
`NotificationSignInProofs`.

| Model | Code |
|---|---|
| `CheckDuplicate`, `SkipChannel`, `CreateRow`, `Enqueue` | `NotificationDispatchService.send` for one external channel |
| `StartCancel`, `RemoveJob`, `MarkCancelled` | `cancel` |
| `DeleteNotification`, `DedupeWindowPasses` | the owner's soft delete; the 24 hours |
| `Claim`, `ReadRow`, `MarkUndeliverable`, `ProviderAccepts`, `ProviderRefuses`, `MarkSent`, `Finish`, `Complete`, `CountFailure`, `StatementFails` | `createNotificationWorker`, statement by statement |
| `FailAttempt`, `ReadExhausted`, `MarkExhausted` | BullMQ's attempts and `handleNotificationJobExhausted` |
| `WorkerDies`, `CallDies` | crashes; BullMQ reruns a stalled job once, and then fails it even with attempts left |

Checked: `PendingIsCaredFor` (a PENDING row has a send, a job, a listener or a cancellation
that will settle it, or is in `Stranded`, which names every way the code lets one go),
`DeliveriesRecorded` (a repetition needs an unrecorded acceptance). Proved besides:
`SentMeansDelivered`.

## Integration sync

`IntegrationSync`, instance `MCIntegrationSync`, proofs `IntegrationSyncProofs`. One
connection.

| Model | Code |
|---|---|
| `Connect`, `Disconnect` | `IntegrationConnectionService` |
| `TriggerManual`, `PassCheck`, `InsertSync`, `Enqueue` | `triggerManual`: the overlap guard, the insert, the queue |
| `ScanFindsDue`, `TriggerScheduled`, `SlotTaken` | the scheduled scan and its guard on the slot |
| `LogWebhook` | `IntegrationWebhookService.handleWebhook`: the log's unique event id makes a second one a replay |
| `Claim`, `StartRun`, `StoreResult`, `UpdateAfterSync` | `executeSync` in the sync worker |
| `TriggerWebhook`, `EnqueueSync`, `MarkProcessed`, `Complete` | the webhook worker |
| `FailAttempt`, `Exhausted`, `MarkFailed` | BullMQ's attempts and the two exhaustion listeners |
| `CallFails`, `StatementFails`, `WorkerDies`, `ListenerFails` | faults anywhere |

Checked: `RunsAccountedFor` and `EventsAccountedFor` (an unfinished run, a verified event
is in hand, queued, running, or was let go in a named way), `OverlapsExplained` (two runs
overlap for one of three causes), `DisconnectedIsNotDue`.

Seen while modelling: `connect` never sets `nextSyncAt`, so automatic syncing starts only
after a first run by hand or by webhook; a run that ends after a disconnect writes
CONNECTED again, though not due; a sync whose job used up its attempts stays RUNNING, and
`hasActiveRun` refuses every later one; an event logged and never enqueued is answered as
a replay for ever; webhook runs ask no overlap guard, and the guard of the others
(`integration-sync.repository.ts:34-38`) is passed by two callers that ask together.

## Reminders

`ReminderScan`, instance `MCReminderScan`, proofs in `WorkReminderProofs`. The variable
`weekly`, set once, chooses between the two forms the four services have: once per case
(tasks), or weekly once overdue (filings, invoices, document requests).

| Model | Code |
|---|---|
| `Tick` | the repeatable job; one scan a day |
| `Start`, `Load`, `Resolve`, `End` | `processReminders`, `processType`: what is due and what was sent, per type; the other three look up a subject's people as its turn comes |
| `Dispatch`, `DispatchFails`, `Record`, `RecordFails` | `sendReminder`: dispatch, then insert; a failed send is skipped, a failed insert swallowed |
| `Edit` | due date, status and people change in the tasks' and others' own services |
| `Crash`, `Stall` | the job dies, or outlives its lock and runs again beside itself |

Checked: `TwiceForAReason` (a reminder goes out twice only if two scans had it in hand
together or an earlier dispatch went unrecorded), `LedgerTellsWhatWasSent`,
`AptUnlessStale` (action property), `OverdueIsReminded` (liveness).

Seen while modelling: a task that is rescheduled is never reminded again of the same type;
a DUE_TODAY reminder that was missed is never made up for, only OVERDUE is; a send that
fails after its first channel is repeated on all of them.

## Documents

`DocumentStore`, instance `MCDocumentStore`, proofs `DocumentStoreProofs`. The documents of
one tenant, their folders, two quotas, the bucket.

| Model | Code |
|---|---|
| `BeginUpload`, `CheckLimits`, `FindConflict`, `Store`, `InsertFirst` | `uploadDocument` |
| `BeginVersion`, `CheckLimits`, `Store`, `InsertVersion`, `RefuseVersion` | `createVersion`, `createVersionFromExisting`: the base is read before the transaction; the unique `previousVersionId` refuses the second of two |
| `BeginMove`, `Move` | `updateDocument` with a folder (or null): business and folder are written |
| `BeginRetag`, `Retag` | `updateDocument` without one: the folder read is checked, the business is written all the same, the folder is kept |
| `DeleteDocument` | `deleteDocument` |
| `BeginFolder`, `MakeFolder`, `NameTaken`, `BeginRename`, `RenameFolder`, `BeginDrop`, `DropFolder` | `DocumentFolderService` |
| `Fail` | an insert fails, or the process dies, once the object is stored |

Checked: `OneLatestVersion`, `HeadLostByDeletion` (a document without a latest version lost
its newest row to a deletion), `OvershootBounded` (the quota is exceeded by fewer files
than there are requests in flight), `OrphansWereOvertaken` (a live row in a deleted folder
was put there beside the deletion). An update is taken to send the category with the
business, an owner being both.

Seen while modelling: deleting the newest version leaves a document that has no latest
version and can get none; `updateDocument` moves one version only and asks no quota, though
it may move it to another business (`document.service.ts:388-390`); two updates of one
document, one with a folder and one without, may leave it in a folder of another business,
since each checks what it read (`document.service.ts:407-424`); a failed insert leaves its
object in the bucket; documents of a contact alone count towards no business's quota.

## Work items

`WorkItems`, instance `MCWorkItems`, proofs in `WorkReminderProofs`. One row with a status
machine: a task (with either of its two workflows), a project, a document request or the
approval of a document.

| Model | Code |
|---|---|
| `BeginChange`, `Recheck`, `Write`, `Audit` | `updateTaskStatus` (which reads the row twice), `updateProjectStatus`, `archiveProject`, `fulfillRequest`, `requestApproval`, `decideApproval`: check on the status read, write by id, audit |
| `BeginReopen` | `reopenTask` |
| `BeginDelete`, `Delete`, `BeginRestore`, `Restore` | deletion of what is deletable, and its undoing |
| `Stop` | the process stops, or the audit insert fails and is swallowed |

Checked: `CompletionNeedsApproval` (whatever overlaps, and however often the task is
reopened), `InconsistentOnlyIfOvertaken` (status, stamp, deletion and approval round agree
unless a write landed on a changed row), `FinalUnlessOvertaken` (action property). Proved
besides: `ClosedCarriesItsStamp` (no interleaving closes a row without its stamp),
`AuditNamesStatus`.

Seen while modelling: a change that meets a deleted row changes nothing and is audited all
the same; `approvedBy` stays when a task is reopened; "there is no
cross-family edge" (`task.service.ts:34-36`) is contradicted by COMPLETED → IN_PROGRESS
(line 75), which a task of the approval workflow may take.

## Leads

`LeadPipeline`, instance `MCLeadPipeline`, proofs in `PaymentLeadProofs`. Its transactions
are modelled under READ COMMITTED: an update sees the rows committed when it starts, waits
for those another transaction holds, and takes the ones that still match; an insert waits
for an uncommitted row of the same key; a rollback takes everything back.

| Model | Code |
|---|---|
| `UpdateLead`, `DeleteLead` | `LeadService` |
| `AssignContactRole`, `ClearPrimary`, `LockPrimaries`, `InsertRole` | `ContactService.assignContactRole` and `clearPrimaryForBusiness` |
| `ConvertLead`, `FindClient`, `CreateClient`, `FindExistingRole`, `CreateConversion` | `LeadService.convertLead`, one transaction |
| `CommitTransaction`, `Stop` | the transaction commits; it is rolled back, or the process stops |
| `AssignLeadUser`, `ClearOwners`, `CreateAssignment`, `UnassignLeadUser` | a lead's staff, outside any transaction |

Checked: `TwoPrimariesOverlapped` (two primary contacts were set by transactions that
overlapped), `ConversionIsWhole` (a client came of exactly one lead, a conversion has its
client and its representative), `OwnersAccountedFor`, `PrimaryContactIsKept` (action
property: a business never loses its primary contact to a rollback or an overlap).

Seen while modelling: "never briefly left with two (or zero) primary contacts"
(`contact.service.ts:122-125`, said of failures) holds for zero and, when transactions
overlap, fails for two; "at most one primary
assignment per lead" (`lead.service.ts:536-538`) fails for overlapping assignments, and a
refused insert after the clear leaves the lead without owner; a second lead of a business
whose client came from a lead can never be converted.

## Runs and bounds

| Run | Instance | Asks |
|---|---|---|
| `client_payments` | 1 invoice, 1 link, 2 payments, 2 concurrent deliveries, staff may type the gateway's number, 1 crash, fair | double booking, the refinement, liveness |
| `platform_billing` | 1 order, 1 plan of one day, 2 requests, days 0 and 1, 1 failure, fair | invoice against tenant against gateway, lapse, liveness |
| `auth_sessions` | 2 sessions, 3 tokens, 2 requests, limit 1, 1 crash, symmetry | revocation, rotation, limit |
| `sign_in` | 3 requests, 2 links, lock after 2 failures, 4 logins, symmetry | counter, lock, notice, links |
| `invitations` | 2 invitations, 2 addresses, 1 contact, 2 requests, symmetry | ways in, users, contacts |
| `portal_client` | the same with 1 request (violation) | the comment on portal clients |
| `notification_delivery` | 2 sends, 2 attempts, 2 crashes, the second kept apart, symmetry | delivery against cancel, delete and retry |
| `integration_sync` | 2 syncs, 1 event, 2 callers, 2 attempts, 3 faults kept apart, symmetry | runs, events, overlaps, disconnection |
| `reminders` | 1 subject, 1 user, 2 scans, days 0 to 3 in weeks of 2, notice of 1 day, 1 fault, 1 edit, fair | duplicates, ledger, aptness, liveness |
| `documents` | 3 rows, 2 folders, kept apart, 2 owners, 1 name, 2 requests, quotas of 2, symmetry | versions, quotas, folders |
| `work_items` | 3 calls, 2 approval rounds, symmetry | what overlaps can and cannot break |
| `leads` | 2 leads, 1 business, 2 contacts, 2 users, 2 requests, one side at a time, symmetry | primaries, conversions, owners |

Why these bounds are enough to be interesting: a race needs two requests and the row they
race for, and nearly every race in this code is between two; rows beyond the two that race
only repeat them. Signing in has three requests because a straddling login needs a failure
and a success beside it; work items have three because a row must be closed, deleted and
written at once. Two payments and the number typed by staff allow the second booking that
the unique number refuses. Three tokens are a first one and two rotations, which a family
needs to fork. Limit 1 with two sessions makes every second login evict. Three document
rows make a chain of versions longer than one replacement. Two weeks of two days let a
weekly reminder repeat, and a fault still leave a day. One day's plan and two days let a
confirmation fall on either side of midnight. The real limits (five failures, three or five
attempts, weeks of seven days) only repeat steps the small ones contain.

Four instances have a `CONSTRAINT`: states outside it are checked and not gone on from, and
only the theorems cover what comes after them. `FaultsApart` goes on from a second and third
fault only when nothing but one item moves (enough for a job to stall twice or use up its
attempts), and `OneSideAtATime` from states where the business side of a lead or its staff
has moved, not both, since the two share nothing but whether the lead lives.
`SecondCrashAlone` goes on from a second crash only while one of the two sends has begun:
that is a job which stalls twice. `FoldersApart` lets a folder be nested while there is one
document at most, and stops where a folder is made or renamed beside three documents:
folders and documents share nothing but whether their folder lives. Two links racing for one
invoice are beyond the instances and covered by the proofs alone. Symmetry is used only in
runs without liveness, over rows and requests the specification never distinguishes.

Type invariants and inductive invariants are not in the runs: the theorems state them. Each
inductive invariant was evaluated by TLC on the instance of its component before it was
proved; so was `PlatformBilling`'s `ImplementsCollection`, on the instance of
`platform_billing`.

## Fairness

* Handlers in flight (`WF` on each delivery, request or scan): Node runs a pending promise
  on, and a statement is answered or fails. A crash ends the request instead; it is not
  prevented by fairness but bounded in number.
* The gateways repeat an event until it is answered 2xx. Razorpay stops after a day;
  the models let it go on, so the liveness properties say that the *code* never stands in
  the way. In `PlatformBilling` the repetition is strongly fair because the model's two
  requests may both be busy whenever an event comes, while the server takes any number.
* `ReminderScan`: days pass and bring their scan (`Tick`), and a waiting scan is taken.
* Calls of users and staff are never fair: nobody has to make them. The other modules state
  no liveness and no fairness.

`CapturedIsEventuallyBooked` also needs the settings to stay on and the number free, which
staff decide; the property says so itself. `OverdueIsReminded` needs a day left for every
fault still to come, since a failed send is made up for by the next day's scan.

## Proofs

TLAPS checks, for every value of the constants (any number of rows, requests, crashes,
days):

| Module | Theorems |
|---|---|
| `PaymentLeadProofs` | payments: `InvariantCorrect`, `TypeCorrect`, `CapturesAccountedFor`, `SettlementConsistent`, `DuplicatesNeedRenumbering`, `AcknowledgementsAreBookings`, `CollectionImplemented`; leads: `LeadInvariantCorrect`, `PrimariesOverlap`, `ConversionsAreWhole`, `OwnersAreAccountedFor`, `PrimaryContactsAreKept` |
| `PlatformBillingProofs` | `InvariantCorrect`, `TypeCorrect`, `NoPlanUnpaid`, `NoCaptureForgotten`, `PaidInvoicesApply`, `PeriodsAgree`, `LockoutsExplained`, `CollectionImplemented` |
| `AuthSessionsProofs` | `InvariantCorrect`, `TypeCorrect`, `RotationStrandsNobody`, `TokensFollowSessions`, `LimitEnforced`, `RevocationsFinal` |
| `NotificationSignInProofs` | notifications: `InvariantCorrect`, `TypeCorrect`, `SentWasDelivered`, `NothingForgotten`, `NoRecordedDeliveryRepeated`; signing in: `SignInInvariantCorrect`, `LockoutsAreEarned`, `OneNoticePerLockout`, `OneLinkIsUsable`, `LinksAreSpentOnce`, `LockHolds` |
| `InvitationsProofs` | `InvariantCorrect`, `OneWay`, `UsersWereInvited`, `ContactsKeepAClient`, `StalenessAlone` |
| `IntegrationSyncProofs` | `InvariantCorrect`, `TypeCorrect`, `NoRunForgotten`, `NoEventForgotten`, `OverlapsHaveACause`, `DisconnectedStaysOff` |
| `WorkReminderProofs` | work items: `InvariantCorrect`, `ClosedIsStamped`, `NoCompletionUnapproved`, `ConsistentUnlessOvertaken`, `AuditIsTrue`, `FinalIsFinal`; reminders: `ReminderInvariantCorrect`, `NobodyIsRemindedTwice`, `LedgerIsTrue`, `FreshRemindersAreApt` |
| `DocumentStoreProofs` | `InvariantCorrect`, `NoTwoLatest`, `CurrentUnlessDeleted`, `QuotaOvershootIsBounded`, `OrphansHaveACause` |

Three proof modules serve two components each. The two share no variable and no action, so
their theorems are independent; the pairing only keeps the number of proof modules small.

The assumptions are the named ones of each module: `None` (or `Unset`) is no row, the bounds
are natural numbers, limits, weeks and attempts are positive, and in `DocumentStore`, where
files are counted, rows and requests are finite. No theorem assumes anything of a state.

No safety property here is inductive by itself. In each component the inductive invariant
adds what a request between two awaits may rely on, and that is where the argument lies:

* **Payments** (`IInv`): a request past an await still stands on the row it found
  (`RequestsStandOnInvoices`, `DeliveriesStandOnLinks`; a *seen* PAID stays true, a seen
  CREATED does not), and payment numbers are unique even among deleted rows, which is what
  stops a second booking (`UniqueNumbers`, `BookedRowsAreNumbered`).
* **Platform billing** (`IInv`): a request past an await knows its order is its own or is
  captured, and that the lapse it noticed was one (`RequestsKnowOrders`,
  `OneInsertPerOrder`); a captured order has its invoice, a PAID one was captured
  (`InvoicesKnowOrders`); what a finalizing request has done shows in the two tables unless
  its order is in `split` (`FinalizersLeaveTraces`, `FinalizedTogetherIsSplit`).
* **The two refinements.** `Commit` and `MarkPaid` are `Book` the first time and stutter
  after, `PersistLink` and `InsertInvoice` are `Save`, `CallProvider` and `CreateOrder` are
  `Issue`, the customer's payment is `Capture`; every other step stutters. That a later
  insert never takes a booking back is the invariants' work.
* **Sessions** (`IInv`): the token a request holds belongs to its session
  (`RequestsOwned`), the successor is stored before the mark (`MintedBeforeMarked`), and a
  request about to revoke a session has already revoked all its tokens but late ones
  (`TokensRevokedFirst`).
* **The session limit** (`LimitInv`): an eviction in flight has chosen its victims by what
  it read, and may find them gone, so no bound on the sessions alone is inductive.
  `EvictionsSuffice` says that whichever of the pending evictions are carried out, the
  sessions left are at most the limit, one for each login yet to enforce it that is not
  among them, and one for each that died. A login that reads the sessions chooses all but
  the `Limit` newest, which is enough for every choice of the others (`KeptAreFew`, a
  pigeonhole over the order `newer`); logging in adds one session and one login.
* **Signing in** (`SignInInv`): what a login has read of the counter is still so unless it
  was overtaken, and is no more than the failures in a row unless it straddles a success;
  while the account is locked every login under way was overtaken (`LoginsReadTheCounter`);
  a lockout nobody renewed has one notice, to come or sent (`NoticesAreOfLockouts`); a
  request not overtaken finds the links as it read them (`LinksAsRead`).
* **Invitations** (`IInv`): a request nobody overtook knows the status its check passed and
  that the address it invites is vacant (`FreshRequestsKnow`).
* **Notifications** (`IInv`): where the job stands given the row and the reverse
  (`JobFollowsRow`), and that a message about to be sent has only unrecorded deliveries
  behind it (`SendsUnrecordedOnly`).
* **Integrations** (`IInv`): an item in hand is in one hand and has no job yet (`OneHand`);
  what a job's state tells of its row (`RunsFollowJobs`, `EventsFollowJobs`); a caller on
  its way to the insert is alone or marked with all it may meet (`ChecksAreSound`).
* **Reminders** (`ReminderInv`): what a scan is still to dispatch is in no ledger, and what
  it has in hand no other scan has, unless the two loaded it side by side (`RacesAreSeen`);
  what it has read is so until an edit or a midnight (`FreshScansAreApt`). The key of a
  weekly case carries the week of its scan, and weeks do not go backwards.
* **Documents** (`IInv`): versions follow their predecessors by one within the family, and
  a family is one line (`ChainsAreSound`, `FamiliesAreLines`); `OvershootBounded` has an
  argument of its own: the last request to read the sum saw all but the others in flight.
* **Work items** (`IInv`): a pending write goes along a move that was legal when it was
  read (`WritesAreLegal`), and into the simple flow only with an approval
  (`WritesNeedApproval`); the audit still to be written names the status.
* **Leads** (`LeadInv`): a transaction about to set a primary has seen every primary of the
  business or is remembered as one that missed it (`PrimariesAreSeen`), what a conversion
  found or made is still so (`ConversionsAreSound`), and a row it inserted is nobody else's
  (`InsertsAreNew`). Statements about all calls are restated as operators of one call's
  record (`SeenIn`, `FoundIn`, `NewIn`...), so that a step of another call need not expand
  them.

Action properties follow from the same invariants, a step at a time.

Only model-checked: the liveness properties `CapturedIsEventuallyBooked`,
`CapturedIsEventuallyPaid` and `OverdueIsReminded`, which need fairness and ENABLED and are
out of the prover's reach. Every invariant and action property of the passing runs is a
theorem.

## Disagreements with comments

One has a violating run and an entry under `findings`: `portal_client`. "A
CLIENT-provisioned user should never resolve to a staff tier" (`auth.service.ts:654-657`),
but two addresses may be invited for one contact, one after the other, and the second
acceptance takes the contact from the first user, who is then treated as staff.

The others are visible in the properties' exceptions, each of which is reachable:

* A replayed event is "a safe no-op" (`payment-gateway-webhook.service.ts:37`, against line 66): two
  deliveries and a renumbered payment book one capture twice.
* One-time refresh tokens (`auth.service.ts:206`, against 218): two concurrent
  presentations of one token both rotate it.
* A password change forces re-authentication everywhere (`auth.service.ts:330`, against
  358): refresh tokens survive it.
* "Fires exactly once per lockout" (`auth.service.ts:677-681`) and "at most one usable
  reset link" (lines 384-387, `auth.repository.ts:241`) hold only where no request is
  overtaken.
* A cancelled notification is never delivered (`notification-dispatch.service.ts:163`,
  against 175): the worker delivers between the read and the write. Two sends with one
  `dedupeKey` both insert (line 88).
* Blocked only without a renewal (`tenant.middleware.ts:53`, against 130): a stale lapse
  overwrites a renewal, and an EXPIRED tenant that is told to renew finds checkout behind
  the gate that refuses it.
* An overlapping scan "cannot double-send" (`task-reminder.service.ts:68-71`, against the
  dispatch before the insert at 133): it can.
* The notes on integrations, documents, work items and leads in the sections above.

## Not modelled

* Layers without state of their own: routes, DTOs, schemas, mappers, Swagger. Their
  validation is in the guards and input sets of the actions.
* Libraries and services: PostgreSQL, BullMQ, Razorpay, S3, SMTP. They appear as actions
  marked external in `PROJECT.json`, modelled from how the code uses them.
* Read-only aggregation (dashboard, reports, search, timelines): nothing depends on what it
  produces. The audit log is modelled only as far as work items write it.
* Single-row edits without a decision on what was read: plans, templates and preferences,
  calendar, most of tenant settings, profiles, businesses and contacts, proposals' texts.
* The React pages. The client's token refresh is concurrent and planned.
* Roles and permissions, proposals, subtasks and dependencies, invoice drafting and
  expenses, the gateway settings' blob: named in the plan.

## Plan

In this order; each with its instance, and proofs where an invariant is worth one.

1. Roles and permissions: grants checked on a role read earlier, against its deletion and
   the removal of a permission; the sessions that carry the old ones.
2. Proposals (`sendProposal`, accept and reject in `lead.service.ts:154-255`) as a further
   kind of work item, and a task's subtasks and dependencies.
3. `BrowserSession`: tabs sharing one stored token, composed with `AuthSessions`.
4. `GatewaySettings`: the read-modify-write of the firm's settings under two
   administrators, and tenant domain verification across its DNS lookup.
5. An abstract specification of a queue job (taken, attempted, ended or given up) for
   `NotificationDelivery` and `IntegrationSync` to implement, as the two payment modules
   implement `GatewayCollection`.
