# Kloqra: a TLA+ verification project

Kloqra is a time tracking product: a NestJS API over PostgreSQL and Redis,
BullMQ workers, daily crons, Stripe webhooks and several React front ends.
This directory holds TLA+ models of the parts whose correctness depends on the
order in which requests, workers, crons, webhooks and browser tabs run, the
TLC configurations that check them on small instances, and theorems checked by
TLAPS that hold for every instance.

Paths below are under `src/apps/api/src/modules/` unless they begin with
`common/` (in `src/apps/api/src/`), `packages/` or `docs/` (in `src/`).

## 1. The system

All authoritative state is in PostgreSQL (through Prisma, at the database's
default READ COMMITTED); running timers, revocation keys and the queues are in
Redis, and uploaded and generated files are on disk. The API runs as one or
more Node processes; each also runs the crons, the queue workers and the
auto-stop ticker. A request handler is a sequence of awaited statements;
between two of them any other request of any process may run. There are almost
no locks: what keeps handlers apart is a transaction, a conditional
`updateMany`, a unique index, in one place `SELECT ... FOR UPDATE`, or nothing.

### Inventory

| Component | State | Operations | Interacts through | Hard behaviour | What makes it correct |
| --- | --- | --- | --- | --- | --- |
| Timesheet approval: `timelogs/application/timesheets.service.ts`, `timesheet-amendments.service.ts` | `timesheet_periods`, `timesheet_amendment_requests` | submit, approve, reject, bulk review; amendment create, approve, deny | period rows, read by the lock; BullMQ for bulk reviews | reads outside transactions, updates by id, racing reviewers | fields agree with the status, one pending request, final decisions, nothing unlocks but a decision |
| Timesheet lock: `timesheet-lock.service.ts` | none | the check made before an entry is written | project settings and period rows | check and use are separate statements | an entry changes only if its day was editable during the request |
| Approval period calendar and walks: `common/time/approval-period.util.ts`, `timesheet-cascade.util.ts`, `timesheet-approval-policy.util.ts` | none | `getPeriodRange`, the walk back of a submission, the walk that lists periods | the start of a period is the key of its row | time zones, changes of the clocks, short months, loop bounds | a period is a whole local day, week or month; no walk passes one over |
| Time entries: `timelogs.service.ts`, `timelog-audit.service.ts` | `time_logs`, `time_log_audit_events` | create, createBatch, update, remove, import | the lock, the overlap check, the timers | concurrent edits of one entry | the audit trail retells the entry |
| Project settings: `projects/application/projects.service.ts` | `projects` | enable and disable approval, change its period | waives open periods | two statements | submitted and approved periods survive |
| Timer: `timer/application/timer.service.ts` | `timer:<ws>:<user>` in Redis | start, stop, pause, resume, discard, active | entries | GET, compute, SET with nothing in between | no timer counts more than the wall clock |
| Stale timer ticker: `stale-timer.service.ts` | flag `timer_autostopped:...` | scan and auto-stop once a minute in every process | the same keys, entries | several processes, failures swallowed | overdue timers are stopped |
| Stripe webhooks: `subscriptions/application/stripe-webhook.service.ts`, `subscription-sync.service.ts` | `stripe_webhook_events`, `tenant_subscriptions` | processEvent and its four handlers | Stripe, the row read by every write check | duplicated, reordered, lost events; a crash after the event row | handled at most once; the row follows Stripe |
| Subscription crons: `subscription-reconcile.service.ts` | the same row | reconcile at 05:00, suspend at 06:00 | `updatedAt` | two crons and the webhooks write one row | the grace period is kept |
| Subscriptions by hand: `platform/application/platform-tenants.service.ts` | the same row | status, suspension, trial, limits, grace period | the same row | last write wins | Stripe's word returns after it |
| Sessions: `auth/application/auth.service.ts`, `common/auth/auth-revocation.service.ts` | `refresh_tokens`, Redis keys | sign in, rotate, logout, revoke one, the others, all | cookies and storage of the tabs | concurrent rotation with a grace window, lost answers | no family loses its last token; reuse is detected for a cause |
| Browser sessions: `packages/web-shared/src/` | cookie, `localStorage`, the tab's guard | refresh and retry, logout, sign-out in every tab, load, login | the API, messages between tabs | stale answers, one refresh standing for another | a tab is signed out for a cause |
| Exports and their purge: `export/application/export-job.service.ts` | `export_jobs`, files | create, run, download, daily purge | BullMQ, disk, mailer | a worker dies or is given a job twice; file and row are two writes | an offered file exists; jobs end; files go |
| Compliance export and import: `compliance/application/` | `tenant_data_export_jobs`, values in Redis, files | create, run, cancel; upload and import | BullMQ, disk | cancellation races the worker | a job cancelled before a worker finds it makes no file |
| Members, invites, workspaces: `workspace/application/workspace.service.ts`, `queues/workers/bulk-invite.worker.ts`, `tenants/application/tenants.service.ts` | `tenant_members`, `workspace_members`, `users` | invite, bulk invite, change, remove, create, credentials again | BullMQ, mailer, the plan's counts | demotions race, a job is restarted, count then create | an admin remains; credentials arrive; limits |
| Plan limits: `subscriptions/application/plan-limit.service.ts` | counts | count, then create | workspaces, seats, API keys | two creations at the limit | a limit is passed only by a race |
| Export schedules, helpdesk workers, reminders | rows, mails | due schedules, ticket mails, reminder crons | BullMQ, mailer | two processes, retried jobs with effects outside | no duplicate mails; not modelled |
| Reporting, notifications, presence, platform administration, CRUD modules, assistant, user interfaces | | | | none that this project's tools would find | see `PROJECT.json` |

`PROJECT.json` lists all of them with their status, and the hazards at their
lines.

## 2. The modules

| Module | What it is |
| --- | --- |
| `Timesheets`, `TimesheetsHistory` | the approval workflow and the entries it locks; the same with a history variable for the properties about what a request saw |
| `ApprovalPeriods`, `PeriodWalks` | `getPeriodRange` as operators over time zones; the two loops that walk over its periods |
| `Timer` | the timers, the ticker and the entries they write |
| `Subscriptions` | the row of a Stripe tenant with its four kinds of writers |
| `EventLedger` | what the webhooks promise of events: the abstract specification that `Subscriptions` implements |
| `RefreshTokens`, `BrowserSessions` | the API's side of a session; the tabs over it (composed with EXTENDS) |
| `DataJobs` | exports, tenant exports and imports: row, queue entry, file, purge |
| `JobLife` | what those jobs promise: the abstract specification that `DataJobs` implements |
| `Members` | operators, members, workspaces, passwords, limits |
| `MC...` | the symmetry sets and constant values of TLC instances |
| `...Proofs` | the theorems and proofs of the module they are named after; `TimesheetsHistoryProofs` builds on `TimesheetsProofs` |

In all models of the API a record per slot (`req`, `call`, `worker`) stands for
a request, a worker, a delivery or a cron in flight: its operation, the
statement it is about to run and its local variables. An action is one awaited
statement with the checks that follow it. A transaction whose writes become
visible together is one action; a transaction that reads first and writes later
is several, since READ COMMITTED lets other transactions commit in between.
`Crash` (`Lose`, `Abort`) ends a request between two statements: the process
dies or the next await throws.

A definition that a `Mutant:` comment introduces is not part of the model. It is
the same step with a plausible bug in it, and it exists to show that the
property named next to it in `PROJECT.json` fails when the code has that bug.

### Timesheets

One member, one project, the `N` days of one week. A period is identified by
the day of its `periodStart`; `grain` says whether periods are days or the
whole week (a month differs from a week only in its length; the calendar itself
is the subject of `PeriodWalks`). `log[l]` is the row of an entry: the `day` of
its `startTime` and one of `Rests` for everything else an update may change
(end, task, description, billable), or `NoEntry`. `audit[l]` is its trail of
`before` and `after` snapshots.

| Action | Code |
| --- | --- |
| `SubmitBegin`, `SubmitEarliest`, `SubmitWalk`, `SubmitTarget`, `PendingCheck`, `SubmitWrite` | `TimesheetsService.submit`: project and policy; earliest entry; the walk of `buildCascadePlan`; `existingTarget`; `assertNoPendingAmendment`; the update by id or the create under the unique key |
| `ReviewBegin`, `ReviewStatus`, `PendingCheck`, `ReviewWrite` | `approve` and `reject`, also as run by the bulk review worker |
| `AmendBegin`, `PendingCheck`, `AmendWrite` | `TimesheetAmendmentsService.create` and the partial unique index |
| `DecideBegin`, `AmendApproveWrite`, `AmendDenyWrite` | `approve` and `deny` of an amendment |
| `LogCreateBegin`, `LogUpdateBegin`, `LogRemoveBegin`, `LockSettings`, `LockRow`, `LogCreateWrite`, `LogChangeWrite` | `TimelogsService.create`, `update`, `remove`, with `TimesheetLockService` as two reads and the entry and its audit event as one write |
| `SettingsBegin`, `SettingsWrite`, `Waive` | the approval part of `ProjectsService.update` |

Choices a reader should know:

- Several reads of the project within one check are merged into one. A
  refusal between them has no effect and is covered by `Crash`; any other
  outcome is that of one of the merged instants.
- `submit` checks the approval policy after its walk; the model checks it at
  the start. It is computed from the project read at the start, so only the
  moment of a refusal differs.
- An update that stays on its day is not checked a second time in the model;
  in the code it is, if it names a start. The second check can only refuse,
  which `Crash` covers.
- The overlap check, subscription and role checks, and the rule that entries
  of the timer cannot be edited, only refuse; they are left out. So is
  everything that runs after the write (notifications, cache invalidation).
- The `startTime` of an entry is abstracted to its day, so two moves within a
  day are not told apart by `LogChangeWrite`'s test of `startTime`: the model
  allows an update the code refuses, which only adds behaviours. Two updates
  that keep the `startTime` both go ahead, in the model as in the code
  (`timelogs.service.ts:505`), and the second records as `before` the entry it
  read, which the first has replaced (`:521`). So the trail is not a chain of
  equal snapshots (`AuditUnbroken`, refuted below); `AuditReplay` says what the
  test of `startTime` does ensure.
- An update writes `endTime` and `isBillable` from its earlier read when they
  are not given, and leaves `description` and `taskId` as they are by then:
  `EntriesAfter` allows any content afterwards.
- Periods before the week have no rows. The walk's limit of 520 periods is not
  reached here.
- `Grains = {}` stands for settings that never change. A PATCH may carry both
  a switch and a new period, so `SettingsBegin` chooses a period for each.

`TimesheetsHistory` adds `seen`: for each request, the days (or the period
rows) for which the condition that the request has to check was true in some
state since it began. The code does not promise that the condition still holds
at the write. The properties of this module say what is left of the rule under
every interleaving: a write goes ahead only if its condition held at some
moment of the request.

### ApprovalPeriods and PeriodWalks

An instant is a number of quarters of an hour since the epoch in UTC, a date a
number of days. A zone has one offset before an instant and another after it,
which is what its clocks do around one change. `ApprovalPeriods` keeps the
arithmetic of `approval-period.util.ts` as it is, with the detail that matters:
the offset of a zone is asked for midnight **UTC** of a date, also when the
local midnight lies on the other side of a change. `LocalDay`, `LocalMidnight`,
`endOfLocalDay`, `localWeekday`, `WeekStart` and `getPeriodRange` correspond to
the functions of those names or of the lines in `map`; the lengths of months
come from the constant `MonthStarts`.

`PeriodWalks` has one action per turn of a loop: `CascadeNext` and
`CascadeBlocked` for `buildCascadePlan` (from the period before the target to
that of the earliest entry), `ListNext` and `ListEnds` for
`enumeratePeriodAnchors` (from today back to the start of the look-back, with
the calendar steps of `setUTCDate` and `setUTCMonth`), `GivesUp` for the bounds
of both (520 and 104 in the code, `MaxSteps` here) and for the guard against
periods seen before. A member without entries does not run the first loop and
is left out.

`Calm` names the zones whose change of the clocks has no local midnight between
itself and the midnights of UTC around it. New York, Berlin and all zones
without a change are calm; Sydney, Auckland and Cairo are not, and in those a
period around a change begins or ends an hour off or on the wrong weekday:
`WeekStartsOn` states what `docs/specs/submissions.md:47` says, and it does not
hold there.

`StepsFit` names the settings in which no step of the second loop is longer
than a local period: a calm zone whose clocks do not lose an hour at the change
and, for months, one in which no local date is ahead of the date of UTC.
`ListedAll` is about those. Elsewhere the loop does pass periods over: east of UTC, in a zone without any
change, it does so with months (`AnchorsCoverWindow`: from 28 February 20:00
UTC, which is 1 March in Colombo, `setUTCMonth` leads to 28 January), and
around a change it does so with days, when 24 hours are stepped back from the
first hour of the day after one of 23.

### Timer

One user, several workspaces, an integer clock up to `Horizon`. `timer[w]` is
the Redis value of workspace `w`, `logs` the rows of `time_logs` as a bag, since
every insert makes a row of its own; `begun` is a ghost field that remembers
when a timer was started. A GET and the computation
after it are one action, and the SET, the insert and the DEL are one each, so
stale values are written over newer ones as they would be in Redis. Every
process of `Workers` runs `StaleTimerService` (`AutoStopBegin`,
`AutoStopCreate`, `AutoStopFlag`, `DelTimer`). `FlagExpires` is the two-hour
TTL of the flag. The lock check and the subscription check only refuse: `Crash`
covers them. A task deleted under a running timer and values that do not parse
are not modelled. The auto-stop's task lookup and the computation of its end
are merged with its insert.

`TrackedWithinWallClock` bounds each timer and each entry by itself. It does not
say that no hour is logged twice, and the code does not keep that: a stop that
races the auto-stop inserts a second entry, and so does the next tick when the
auto-stop died between its insert and the DEL (`stale-timer.service.ts:139`).
`EntriesDisjoint`, which counts equal rows, is refuted by these.

### Subscriptions and EventLedger

One tenant, one Stripe subscription. Stripe is the environment: it changes the
subscription (`Checkout`, `Change`) and appends events, whose ids are their
places. `Deliver`, `Record` and `Handle` are the lookup, the insert and the
handler of `processEvent`; an event may be delivered in several slots at once,
in any order, again after a crash, or never. `ReconcileFetch` and
`ReconcileWrite` are Stripe's answer and the write of the 05:00 cron,
`SuspendCron` is the 06:00 cron, `SuspendMissed` a day on which it did not
run. `age` counts the 06:00 passes since the row's `updatedAt` and `pastDue`
those since it became past due; both stop at `GraceDays`. The subscription's
metadata always carries the tenant's id, as `createCheckoutSession` sets it.

`SetByHand` is a write of platform staff in one statement: `updateTenant`,
`suspendTenant`, `overrideLimits` and `updateGracePeriod`, of which the last two
leave the status as it is and only move `updatedAt`. (`updateGracePeriod`
replaces `limitsOverride`, and nothing reads the grace days it stores.)
`ExtendTrialFind` and `ExtendTrialWrite` are `extendTrial`, which reads the
status in one statement and writes `trial` in a later one. `changePlan` is only
reachable with simulated billing (`subscription-billing.controller.ts:34`), and
the write of `planAssignedAt` in `recordEvent` moves `updatedAt` on the day of a
write that moved it already: neither is modelled. Lifecycle events, e-mails,
plans and period dates are left out.

`EventLedger` is the promise without deliveries, requests, crashes and rows: an
event is claimed once, handled at most once and only after its claim.
`Subscriptions!Ledger` is the refinement mapping: `sent` is the number of
events, `claimed` the rows of `stripe_webhook_events`, `handled` the history
variable `applied`.

### RefreshTokens and BrowserSessions

`RefreshTokens` is the API: one user, the rows of `refresh_tokens` by their
place, families (one per sign-in), and the requests in flight.

| Action | Code |
| --- | --- |
| `Find`, `Heir`, `Session`, `Issue`, `Consume`, `Reuse` | `rotateRefreshToken`: the row; within the grace window an active token of the family; `refreshSession`; the successor; the consumption of the token presented; the revocation of the family |
| `Logout` | `logout`: the token presented is revoked, its family is not |
| `Current`, `List`, `RevokeRows`, `Block` | `revokeOtherSessions`, `revokeSession`, `changePassword`: rows first, then the keys in Redis |
| `Lose` | the process dies, or the answer is lost on its way |

`BrowserSessions` adds one browser: its cookie jar, its `localStorage` and its
tabs. An answer reaches the cookie jar first (`Deliver`) and the tab's script
later (`SettleRefresh`, `SettleLogout`, `SettleOther`).

| Action | Code |
| --- | --- |
| `StartRefresh` | `tryRefreshSession` with the guard of `auth-refresh-guard.ts` |
| `Refreshed`, `Retried`, `Refused`, `Dropped` | the outcomes of `performRefresh`: a session, a retry that is armed, `forceTenantAuthSignOut`, a stale answer whose `finally` forgets whichever promise is there |
| `WaitedInVain` | `client.ts:262`: a request with an expired access token ends the session when the refresh it waited for brought none |
| `BeginLogout`, `SettleLogout` | `logoutSession`: local state, the API, the page |
| `Load`, `Login` | `bootstrapSession` of a loaded page; the login form |
| `ApiRefused`, `AskRevoke` | a request with an access token that is revoked; "sign out other sessions" and a new password |
| `GraceEnds`, `BlockEnds`, `Deactivate`, `ElsewhereLogin`, `ElsewhereRevoke` | time, an administrator, another device |

Choices: what a tab writes to storage or says over a channel reaches the other
tabs at once (a late `storage` event is not modelled, nor is the answer of an
old session that overwrites the cookie of a new one); a refresh token does not
expire (`auth.service.ts:899`, seven days unless configured: a browser left alone
for longer is signed out, a further cause that `SignedOutForCause` does not list,
and a family whose last token expires has no token that refreshes); the grace of
a token that nobody holds does not end, since nobody can present it; `KeepsCookies = FALSE`
stands for a browser that keeps the API's cookies to itself, where only
`localStorage` carries the token; `ended` and `overdue` are history.

### DataJobs and JobLife

Three kinds of jobs with one life: a row (an import has a value in Redis), an
entry of a queue, a file. BullMQ is external: `Take` hands a waiting entry to a
worker, `Stall` hands it out once more when a lock is lost, whether or not the
first worker lives on. The queues have one attempt.

| Action | Code |
| --- | --- |
| `Create`, `StoreUpload`, `Add`, `AddFails`, `FailCreate` | `create` of the three services: row, upload of an import, `queue.add`, its failure (with the entry in Redis or not), the row as failed |
| `Find`, `Mark`, `Work`, `Unlink`, `Ready`, `Tell`, `Fail`, `DropUpload` | `runJob` and the import's processor: only a queued row runs; `running`; the file; the row as ready; mails; the catch block |
| `UnlinkFails`, `Throws`, `Abort` | an `rm` whose error is swallowed; an await of the try block that throws; one outside of it, after which staff may retry the failed entry of a workspace export |
| `Cancel`, `CancelRemove`, `CancelWrite` | `cancel` of a tenant export: status, removal of the entry, write |
| `PurgeFind`, `PurgeFile`, `PurgeFileFails`, `PurgeRow` | `expireOldJobs`, daily: file, then row |
| `Age`, `DropRequest`, `DropPurge` | retention; a process that dies |

`hit` remembers the jobs that a fault has touched and `lost` those among them
that a worker or a request let go: it died, its lock was lost, or it threw where
nothing catches. `cancelled` are the tenant exports whose cancellation was
written while they were queued and no worker had found them so. A worker reads
`queued` in one statement and writes `running` in the next
(`tenant-data-export.service.ts:153-155`); a cancellation written in between, or
later, does not stop it, and the archive is made. That is what `CancelledNotRun`
leaves and `CancelLasts`, refuted below, shows.

The archive of a tenant export is never removed (its `expiresAt` only ends its
download), so `overdue` and `FilesPurged` are about workspace exports. The purge
takes at most `Batch` of them a day (20 in the code, `export-job.service.ts:189-195`)
and in no order: `PurgeFind` chooses any that many. In the model the exports are
finitely many, so each one's turn comes; in the code nothing bounds the wait of
an export while more than 20 new ones fall due every day. Staff may pause a
queue (`pauseQueue`); the liveness properties assume that it is resumed.

The processes are taken to share one storage directory. In the code each process
resolves its own, and falls back to `/tmp` when it cannot create it
(`export-job-storage.util.ts:33-57`): a file that was written there is not found
by a download or a purge in another process, which the model does not show.

`JobLife` is the promise without requests, queues, workers and the purge: a job
runs once, with its work undone; it fails with its work undone and is ready with
its work done (an export's file is there, an import's upload is used up); and it
expires when it has ended, is old and has no file. `DataJobs!Life` is the
refinement mapping: a job that a fault touched is `"lost"`, and its file is
not seen. Tenant exports are not in it, since a cancellation does not stop a
worker that has found its job: `failed` is followed by `ready`.

### Members

Users by their e-mail, the rows of `tenant_members` (`operator`, one per user)
and of `workspace_members` (`member`), the workspaces that exist and the
passwords. A seat of the plan is a user with an active row in the tenant.

| Action | Code |
| --- | --- |
| `Invite` | `invite`, `bulkInvite` and the organization's `inviteMember` begin |
| `CountNewSeats`, `AssertSeats` | `countNewSeatsForEmails` and `assertSeatsAvailable`, two reads |
| `Take`, `Find`, `CreateUser`, `CheckOperator`, `CheckMembership`, `CheckExists`, `Insert`, `Mail` | one user of an invitation or of the bulk job: the account, the two reads of `assertUserNotInOtherTenant`, the existing row, the insert, the mail |
| `Change`, `LockSpace`, `CheckChange`, `WriteChange` | `updateMember` and `removeMember` under `FOR UPDATE` of the workspace |
| `ToggleOperator` | `updateMember` of an organization |
| `NewSpace`, `AssertSpaces`, `InsertSpace` | `create` of a workspace, its creator as admin |
| `Resend`, `ReadAccount`, `ResetPassword`, `Mail` | `resendMemberCredentials` |
| `ChoosePassword`, `Crash` | the user chooses a password; a process dies or an await throws |

Choices: whoever may ask for a change is allowed to (the rules about oneself
only refuse, and the role is in the token); the insert of a member waits for
the lock of its workspace, because the foreign key takes `FOR KEY SHARE`; a bulk
job has one attempt, and one that threw waits until staff put it back and then
runs its whole list again; a mail that fails counts as a crash; a tenant keeps
its one owner. Teams, names and settings, the uniqueness of slugs, the erasure
of a tenant and a change of the plan are left out, and so is the limit of API
keys, which is the same count and create. `noise` (what changed while a request
was on its way) and `lost` (users whose password went with a crash or to
another invitation) are history; such a user is helped by `Resend` or by the
page for forgotten passwords. `Reactivated`, which `LimitsNeedRace` and
`SecondOrgNeedsRace` exempt, is coarse: it holds of every user of whom the
organization has some row, active or not, so that it covers the activation of an
inactive row, which the code does not count or screen, and also an invitation of
such a user into another workspace of the organization.

## 3. What is checked

Passing runs:

| Run | Instance | Shows |
| --- | --- | --- |
| `timesheets_races` | 1 day, 3 requests, 2 amendment requests | `HTypeOK`, `OnePendingAmendment`, `FieldsMatchStatus`, `DecisionsFinal`, `ReviewWritesSeen`, `SubmitWritesSeen`, `UnlockOnlyByDecision` |
| `timesheets_entries` | 2 days, 2 requests, 1 entry with 2 contents, updated until it has 2 audit events | `AuditReplay`, `EntryWritesSeen` |
| `timesheets_order` | 3 days, 2 requests, 1 entry | `RejectionsAnsweredSeen` |
| `timesheets_settings` | 2 days, settings that change, 2 requests, no amendments | `UnlockOnlyByDecision` |
| `periods_calm` | 8 zones, days around 1 March 1970, 6 steps of a walk | `TypeOK`, `PeriodIsUnit`, `ClearMeansNone`, `ListedAll` |
| `timer` | 1 workspace, 1 device, 1 ticker, a manual entry, clock to 2 | `TypeOK`, `TrackedWithinWallClock`, `OverdueStops` |
| `subscriptions_webhooks` | 3 events, 2 deliveries, 1 process, 1 write by hand, 2 days of grace | `TypeOK`, `HandledOnce`, `NeverSuspendedEarly`, `CanceledForGood`, `FollowsStripe`, `LedgerKept` |
| `sessions_tabs` | 2 tabs, 2 families, 2 calls, 1 retry; 3 tokens and 1 upset, or 2 and 2 | `TypeOK`, `HeirKept`, `RefusedForCause`, `SignedOutForCause` |
| `jobs` | 2 workspace exports, a tenant export and an import, of which 2 are created, 2 workers, a purge of 1 a day, 1 fault | `TypeOK`, `ReadyHasFile`, `CancelledNotRun`, `Settles`, `FilesPurged`, `LifeKept` |
| `members` | 2 organizations, 2 workspaces in the first, 2 owners and 2 invited users, 4 requests of which 2 at once, 2 seats, 1 workspace in the plan | `TypeOK`, `AdminKept`, `CredentialsMailed`, `LastAdminLeavesByRemoval`, `LimitsNeedRace`, `SecondOrgNeedsRace` |

Runs that TLC refutes, each a disagreement of the code with what its
documentation says (`findings` in `PROJECT.json` quotes the lines):

- `subscriptions_grace`: the daily reconcile moves `updatedAt`, so a tenant that
  stays past due is never suspended (`SuspendedAfterGrace`).
- `sessions_password`: a new password blocks the user, not the sessions, until a
  key in Redis expires: the access token of a sign-in after it is refused, and
  logging in again does not help (`LogInAgainHelps`).

Ten more sentences, of the documentation, of a comment or of an answer the code
gives, do not hold. They are definitions in
their modules and belong to no run; listed as an invariant or a property in the
configuration of their module, TLC refutes each.

| Definition | What it states | Why it does not hold |
| --- | --- | --- |
| `Timesheets!LockedEntriesFrozen` | locked entries cannot be edited | a submit commits between the lock check and the write |
| `Timesheets!AuditUnbroken` | the audit trail records every change (`docs/specs/timelogs.md:7`): each event begins where the one before it ended | two updates that keep the `startTime` both go ahead, and the second's `before` is its stale read (`timelogs.service.ts:505`, `:521`) |
| `Timesheets!ApprovedSpanStaysLocked` | the span of an approved period stays locked | the row's key is computed from the present approval period |
| `PeriodWalks!WeekStartsOn` | weeks begin on the day the setting names (`docs/specs/submissions.md:47`) | the offset of midnight UTC around a change of the clocks |
| `PeriodWalks!AnchorsCoverWindow` | the anchors of the list cover the look-back (`timesheet-approval-policy.util.ts:47`) | in the first hours of a month east of UTC, `setUTCMonth` steps over the whole month before |
| `Timer!OneTimerPerUser` | one timer per user (`docs/specs/timer.md:31`) | two starts in two workspaces |
| `Timer!EntriesDisjoint` | entries do not overlap (`docs/specs/timelogs.md:60`) | the auto-stop inserts without a check, and again after it died before its DEL |
| `DataJobs!CancelLasts` | a cancelled tenant export has failed, "Cancelled by user" (`tenant-data-export.service.ts:342`) | a worker that found it queued goes on and makes it ready |
| `Members!OneOrganization` | a user belongs to one organization (`docs/specs/tenants.md:78`) | two organizations invite at once, or make active again |
| `Members!ActiveAdminKept` | a workspace keeps an active admin (the message of `removeMember`) | a removal counts admins that are not active |

### The bounds and why they are enough

A race of the modelled kind needs two requests.

- Timesheets: a third request in `timesheets_races` lets a decision and a
  resubmission run inside a review. One day is one period there, and the steps
  of the workflow on different periods touch different rows. Two days are the
  fewest on which an entry can move and on which daily and weekly periods
  differ, three the fewest on which the walk takes a second step. Two amendment
  requests are the fewest that can compete; two audit events (`MaxAudit`) before an
  update begins, and two contents (`Rests`), the fewest with which an update can
  work from a row that another has replaced or moved. Amendments and changing settings together make an
  instance too large for a run; the theorems about `FieldsMatchStatus` and
  `UnlockOnlyByDecision` cover them together.
- Periods: the zones lie on both sides of UTC, with a change in either direction
  before and after the local midnight, and two without one; `Targets` are days
  around the change, a short month and the ends of months at two times of day;
  `MonthStarts` are the months around them, over the end of a year. The two
  times of day, just after midnight and 20:00 UTC, are on both sides of the
  local midnights, so that local and UTC dates differ in either direction.
  `MaxSteps = 6` lets a walk end at its aim and at its bound.
- Timer: a clock of 2 (`Horizon`) and a ceiling of 1 (`Cap`) let a timer be
  paused, resumed and stopped at three instants and a second timer begin after
  the first; `Manual` is the one entry a user adds by hand. Equal rows are counted up to two
  (`Copies`), and only for the first content that comes twice: two are enough for
  hours that are logged twice. One device, one
  ticker and a user's entry are the three kinds of writers of a key and of the
  entries; more of them only repeat what `TimerProofs` shows for any number.
- Subscriptions: three events (`MaxEvents`) are a checkout and then either a
  failed payment with its update, or an update and an end, which may arrive in
  the other order. `Reached` has an active, an unpaid and an ended status, of
  which two are mapped to another name. `MaxByHand = 1`: writes by hand do not
  build on each other.
- Sessions: three tokens (`MaxTokens`) are two rotations of the first, or a
  rotation and a sign-in; two upsets (`MaxUpsets`: lost answers and requests to
  end a session) are a loss and a revocation, or the first retry and the last.
  The third token and the second upset together are more states than a run
  takes in reasonable time, so a behaviour has one or the other
  (`FewTokensOrUpsets`); that they do no more together is what
  `BrowserSessionsProofs` shows.
  `Families`, `Calls` and `Tabs` of 2 are two of each at once. `Retries` is 1
  instead of 3: after the first retry the others repeat it.
- Jobs: two jobs (`MaxJobs`) of every pair of kinds, also two workspace exports,
  of which the purge takes one a day (`Batch`); one fault (`MaxFaults`) is what
  the properties about untouched jobs have to survive, on the other job or on the
  purge. Two workers may hold one job.
- Members: two requests at once and four in all (`MaxBegun`) are, after the
  creation of a workspace, a race of two and one more to prepare it. Two
  passwords (`MaxPasswords`) let a resent one overtake the first. Two seats
  (`MaxSeats`) are the owner's and one that two invited users compete for; with
  `MaxSpaces = 1` two creations compete for the first workspace.

Deadlock is checked except in `timer`, `sessions_*`, `jobs`, `periods_calm` and
`members`: their clocks, tokens, jobs, walks and requests run out.

### Fairness

The safety properties need none.

- `Timer!Fairness`: time passes (weak), and each step of a ticker is strongly
  fair, because `setInterval` repeats a scan every minute, whatever the error
  was, and a scan does not fail for ever.
- `Subscriptions!Fairness`: days pass, the suspension cron's hour comes (weak),
  and the reconcile of each process is strongly fair, because the cron repeats
  it daily. Nothing is assumed of webhooks.
- `DataJobs!Fairness`: a request that creates or cancels a job goes on, a worker
  takes waiting jobs and goes on, and the purge runs every day (all weak).
  Faults are bounded and owed to nobody. `Settles` exempts the jobs in `lost`,
  because the code has no recovery for them (a row left `running` stays), but not
  those whose fault the code catches: when `queue.add` throws, `create` writes
  the row as failed. `FilesPurged` exempts the jobs in `hit`: a file whose `rm`
  failed, or whose row could not be written as ready, has no second try. Both
  are stated as `[]<>`: no job stays open, and no old file stays, for ever.

## 4. What is proved

The proofs hold for every value of the constants that satisfies the named
assumptions (`NAssumption`, `CapAssumption`, `TokenAssumption`,
`MembersAssumption` and so on: `TabAssumption` says that no tab is called "none",
`ZonesAssumption` that no zone is a whole day from UTC): any number of days, ids, slots, processes, tabs,
jobs, users. Each module has one lemma per action, a lemma `StepIInv` (or
`NextIInv`) that combines them, and the theorem `Invariance`; `TypeCorrect`
follows from it. None of the properties is inductive alone, because a write uses
what its request read earlier; `IInv` adds what a request in flight may rely on.

- `TimesheetsProofs`: `FieldsMatch`, `PendingUnique`, `AuditTrail`, and for
  steps `FirstDecisionStands` and `UnlockedByDecision`. `RequestOK`: a request
  that rejects holds a note, a decision names an amendment request, a change of
  an entry holds the day it read and the one it goes to. `ReadsOK`, for
  `AuditTrail`: what a request has read of an entry is a content the trail shows,
  and it stays one, because a trail only grows.
- `TimesheetsHistoryProofs`, over `HSpec`: `HistoryTypes`, and the four
  properties of `TimesheetsHistory` for steps: `ReviewsSeen`, `SubmitsSeen`,
  `RejectionsSeen` and `EntriesSeen`. `HistoryIsWorkflow` shows that `HSpec`
  implements `Spec`, so the invariant of `TimesheetsProofs` holds of it.
  `HIInv` adds `SeenOK`: a request past a check has the days of that check in
  `seen` (a review its period, a submission its target and every period its
  walk has passed, a change of an entry the day it leaves and the one it goes
  to). A step of another request only adds to `seen`, and the step that checks
  reads what is true at that moment.
- `TimerProofs`: `WallClock`. `IInv` carries the bound of
  `TrackedWithinWallClock` from the stored values to every value and entry a
  request is about to write: a stale value was within the wall clock when it was
  read, and the clock only moves forward.
- `SubscriptionsProofs`: `AtMostOnce`, `FullGrace` and `ImplementsLedger`. A
  delivery about to handle an event owns the event's row, no other slot does
  (`OneOwner`) and the event has not been handled; with this every step maps to
  a step of `EventLedger` or to none. A row that is past due has been so for at
  least as long as its `updatedAt` is old.
- `BrowserSessionsProofs`: `HeirAlwaysKept` and `ReuseHasCause`. In a family
  that nobody ended, and of which no token was held for too long, a revoked row
  is still within its grace (`InTime`) and has a later row (`Newer`); a refresh
  about to consume a token has stored a later one. So the newest row is never
  revoked, whatever the order of the rotations.
  `SignOutsHaveCause` states `SignedOutForCause` under the hypothesis
  `KeepsCookies`. It takes two more invariants: `CausesOK` (a cookie that is
  gone, a key in Redis, a refresh without a token and a refusal on its way each
  have a cause that is still there when the answer arrives) and `PagesOK` (what
  a page shows fits what its tab is waiting for, and no tab has two logouts in
  flight). Without the hypothesis it does not hold: a lost refresh clears
  `localStorage`, a page that loads refreshes without a token, another tab logs
  in and makes the first a signed-in page, and then the refusal arrives.
- `DataJobsProofs`: `FileOfReady`, `CancelledStays` and `ImplementsLife`. A worker about to write
  `ready` has its file, or its job is past its retention, as is all that the
  purge has read (`PurgeOK`). No status returns to `queued`, so that a worker
  past its mark shows that its job has begun (`WorkerOK`), and a worker that
  finds a job in `cancelled` drops it.
  `ImplementsLife` adds `LifeInv`, about the jobs that no fault touched: such a
  job is in one place at a time (with the request that creates it, in the queue
  or with one worker), its place tells its status and whether its work is done
  (`Stage`, `Serves`), and what the purge has read of it still holds. A step
  leaves every job but one as it was (`Same`), so that each action is a step of
  that job in `JobLife`, or none.
- `PeriodWalksProofs`: `PeriodsAreUnits`, `NoneRejected` and `NoneMissed`, for every set of
  zones, targets and bounds, under the hypothesis `Months`: every date has a
  first of a month at or before it and one after it. (It is a hypothesis of the
  theorems, not an assumption of the module, because the finite sets of TLC's
  instances do not meet it.) The heart is integer arithmetic: in a calm zone the
  offset at midnight UTC of a date is that at its local midnight. `Behind`: no
  rejected row lies between the cursor and the target. `Listing`, for
  `NoneMissed`: a period up to the target that is not in `seen` begins no later
  than the cursor, since a step back ends in the same period or in the one
  before (`StepsFit`).
- `MembersProofs`: `AdminAlwaysKept`, `OnlyRemovalTakesLastAdmin`,
  `PasswordsMailed`, `LimitsHold` and `OneOrgAtATime`. What a change has found under the lock of its workspace
  stays true until it writes (`WritesOK`), since no other change is in the same
  workspace between its check and its write (`Exclusive`) and an insert waits. A
  temporary password is known only to the request that made it, and if someone
  joins with it meanwhile, that request is told (`RequestOK`, `AccountsOK`). The
  last two theorems rest on a second invariant, `FitInv`: what a request has
  counted or screened still holds, unless `noise` says that it was told of a
  change. It works because every write is about one user and one organization
  (`Local`) and leaves the seats, workspaces and organizations of all others as
  they were (`Nearby`); and a list that was counted has room as a whole
  (`Seated`), so that the insertion of one of its users keeps the rest in order.

Every invariant and every safety property of a step that a passing run checks
is proved, with two hypotheses on constants: `Months` in `PeriodWalksProofs`
and `KeepsCookies` for `SignOutsHaveCause`. Only model-checked are the liveness
properties `OverdueStops`, `CanceledForGood`, `FollowsStripe`, `Settles` and
`FilesPurged`, since TLAPS does not reason about `ENABLED` and fairness.
`ImplementsLedger` and `ImplementsLife` are about safety: `EventLedger` states
no fairness, since a lost delivery is never repaired, and `JobLife` none, since
`Settles` and `FilesPurged` say what comes of its jobs.

## 5. What is not modelled

See the status and the notes of `PROJECT.json`. Among what has state and
concurrency:

- `createBatch` and the CSV import of entries (the same checks and writes in a
  loop), and a change of a workspace's time zone, which moves the keys of its
  periods;
- the limit of API keys (the count and create of workspaces once more), the
  erasure of a tenant, which checks for running exports and then deletes;
- one-time tokens (verification, reset, invite), the sessions of platform staff
  and switching workspaces;
- export schedules: two processes may mail a report twice, and nothing in the
  code or the documentation says that they should not;
- the helpdesk's workers and the timesheet reminders, whose effects are mails;
- queues that stay paused, and messages between tabs that arrive late.

Most of the remaining code (the user interfaces, rendering of reports, request
validation, mapping to DTOs, CRUD with role checks) has one actor and one write
per operation: a model of it would restate it.

Some hazards of the modelled parts have no property, because neither the code
nor the documentation says what should hold: an amendment request that stays
pending on a rejected period, a checkout event that is lost between its row and
its handling, an export that stays `running` when its worker dies. One more is
reachable in `sessions_tabs` and has none: a session that is revoked between the
lookup of its token and the insert of the successor (`auth.service.ts:916`)
keeps that one, which `docs/architecture/MULTI_DEVICE_SESSIONS.md:130` excludes.

## 6. Plan

Modelled, checked and proved: all modules of section 2. What would come next:

1. Lemmas that reduce the liveness properties to fairness, as far as they need
   no `ENABLED`: that each step towards the goal moves its measure, and that no
   other step moves it back.
2. A refinement besides the event ledger and the life of a job: the approval
   workflow over an abstract life of one period.
3. A model of the mails that are sent twice (export schedules, helpdesk
   replies), once the product says what its recipients may expect.
