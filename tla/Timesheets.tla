----------------------------- MODULE Timesheets -----------------------------
(***************************************************************************)
(* The timesheet approval workflow of one member on one project, and the   *)
(* time entries it locks: TimesheetsService (submit, approve, reject),     *)
(* TimesheetAmendmentsService (create, approve, deny), TimesheetLock-      *)
(* Service, TimelogsService (create, update, remove) and the approval      *)
(* settings of ProjectsService.update.                                     *)
(*                                                                         *)
(* The API is a Node process (several of them in production) over one      *)
(* PostgreSQL database at READ COMMITTED.  A request is therefore a        *)
(* sequence of awaited statements, and any other request may run between   *)
(* two of them.  req[r] is the program counter and the local variables of  *)
(* the request in slot r; each action below is one awaited statement with  *)
(* the checks that follow it, and a transaction whose writes become        *)
(* visible together is one action.                                         *)
(*                                                                         *)
(* Time is the N days of one workspace week, numbered 1..N.  0 stands for  *)
(* "no day".                                                               *)
(***************************************************************************)
EXTENDS Integers, Sequences

CONSTANTS
    N,           \* days of the modelled week
    Grains,      \* the approval periods an admin may switch to
    Logs,        \* ids of time entries (uuids, used once)
    Rests,       \* what the other fields of an entry may hold
    Amendments,  \* ids of amendment requests (uuids, used once)
    Requests,    \* slots for HTTP requests and job steps in flight
    None,        \* the absent id
    MaxAudit     \* bound: audit events of one entry

ASSUME NAssumption == N \in Nat \ {0}
ASSUME GrainsAssumption == Grains \subseteq {"daily", "weekly"}
ASSUME IdAssumption == None \notin Logs \cup Amendments
ASSUME MaxAuditAssumption == MaxAudit \in Nat

VARIABLES
    enabled,    \* Project.timesheetApprovalEnabled
    grain,      \* the resolved approval period of the project
    policy,     \* day of resolveApprovalEffectiveStart
    period,     \* rows of timesheet_periods, by the day of periodStart
    amendment,  \* rows of timesheet_amendment_requests
    log,        \* rows of time_logs
    audit,      \* rows of time_log_audit_events, in commit order
    req         \* the requests in flight

stored == <<enabled, grain, policy, period, amendment, log, audit>>
vars == <<stored, req>>

-----------------------------------------------------------------------------
Days   == 1 .. N

Statuses == {"NONE", "DRAFT", "SUBMITTED", "APPROVED", "REJECTED", "WAIVED"}
Locked   == {"SUBMITTED", "APPROVED"}

\* submitted: submittedAt is set; reviewed: reviewedBy and reviewedAt are
\* set; note: reviewNote is set; last: the day of periodEnd.
Row == [status: Statuses, submitted: BOOLEAN, reviewed: BOOLEAN,
        note: BOOLEAN, last: 0 .. N]

NoRow == [status |-> "NONE", submitted |-> FALSE, reviewed |-> FALSE,
          note |-> FALSE, last |-> 0]

Amendment == [status: {"NONE", "PENDING", "APPROVED", "DENIED"}, key: 0 .. N]

\* A row of time_logs: the day of startTime, and all the other fields an
\* update may change.  An audit event holds two such snapshots, or none.
Entry    == [day: Days, rest: Rests]
NoEntry  == [day |-> 0, rest |-> None]
Snapshot == Entry \cup {NoEntry}
Event    == [before: Snapshot, after: Snapshot]

LogOps == {"logCreate", "logUpdate", "logRemove"}
Ops == LogOps \cup
       {"none", "submit", "approve", "reject", "amendCreate",
        "amendApprove", "amendDeny", "enable", "disable", "regrain"}
Steps == {"none", "earliest", "walk", "target", "status", "pending", "write",
          "waive", "source", "sourceRow", "dest", "destRow"}

Request == [op: Ops, step: Steps, key: 0 .. N, from: 0 .. N, to: 0 .. N,
            item: Logs \cup Amendments \cup {None}, rest: Rests \cup {None},
            grain: {"daily", "weekly"}, flag: BOOLEAN]

Idle == [op |-> "none", step |-> "none", key |-> 0, from |-> 0, to |-> 0,
         item |-> None, rest |-> None, grain |-> "daily", flag |-> FALSE]

Asking(op, step) == [Idle EXCEPT !.op = op, !.step = step]

Begin(r, q)       == req[r] = Idle /\ req' = [req EXCEPT ![r] = q]
At(r, ops, step)  == req[r].op \in ops /\ req[r].step = step
Continue(r, step) == req' = [req EXCEPT ![r].step = step]
Finish(r)         == req' = [req EXCEPT ![r] = Idle]

-----------------------------------------------------------------------------
\* getPeriodRange: the first and the last day of the period holding day d.
PeriodStart(d, g) == IF g = "daily" THEN d ELSE 1

\* Mutant: periodEnd is the start of the next period.
PeriodEndExclusive(d, g) == IF g = "daily" THEN d + 1 ELSE N + 1

PeriodEnd(d, g)   == IF g = "daily" THEN d ELSE N

HasPending(k) == \E a \in Amendments : amendment[a] = [status |-> "PENDING", key |-> k]

\* TimesheetLockService: entries starting on day d may be written now.
Editable(d) == ~enabled \/ period[PeriodStart(d, grain)].status \notin Locked

LoggedDays == {log[l].day : l \in Logs} \ {0}

-----------------------------------------------------------------------------
(* submit: the project is read, then the earlier periods one by one back   *)
(* to the earliest entry, then the target row, then its amendments; the    *)
(* row is written from what those reads returned.                          *)

SubmitBegin(r, d) ==
    /\ enabled
    /\ PeriodEnd(d, grain) >= policy
    /\ Begin(r, [Asking("submit", "earliest") EXCEPT !.key = PeriodStart(d, grain),
                                                     !.grain = grain])
    /\ UNCHANGED stored

\* buildCascadePlan, the earliest entry on the project.
SubmitEarliest(r) ==
    /\ At(r, {"submit"}, "earliest")
    /\ \/ /\ LoggedDays = {} \/ req[r].key = 1
          /\ Continue(r, "target")
       \/ /\ req[r].key > 1
          /\ \E d \in LoggedDays :
                /\ \A e \in LoggedDays : d <= e
                /\ req' = [req EXCEPT ![r].step = "walk", ![r].from = d,
                                      ![r].to = req[r].key - 1]
    /\ UNCHANGED stored

\* Mutant: the walk looks at the period before the target only.
SubmitWalkOnce(r) ==
    /\ At(r, {"submit"}, "walk")
    /\ IF period[req[r].to].status = "REJECTED" THEN Finish(r) ELSE Continue(r, "target")
    /\ UNCHANGED stored

\* buildCascadePlan, one statusForPeriod of the walk back from the target.
SubmitWalk(r) ==
    /\ At(r, {"submit"}, "walk")
    /\ LET q == req[r].to IN
       \/ period[q].status = "REJECTED" /\ Finish(r)
       \/ /\ period[q].status # "REJECTED"
          /\ IF q <= req[r].from
             THEN Continue(r, "target")
             ELSE req' = [req EXCEPT ![r].to = q - 1]
    /\ UNCHANGED stored

\* Mutant: any row is resubmitted, whatever its status.
ResubmitTarget(r) ==
    /\ At(r, {"submit"}, "target")
    /\ IF period[req[r].key].status = "NONE"
       THEN Continue(r, "write")
       ELSE req' = [req EXCEPT ![r].step = "pending", ![r].flag = TRUE]
    /\ UNCHANGED stored

\* existingTarget is read outside the transaction; flag: the row exists.
SubmitTarget(r) ==
    /\ At(r, {"submit"}, "target")
    /\ LET s == period[req[r].key].status IN
       \/ s \in Locked /\ Finish(r)
       \/ s = "NONE" /\ Continue(r, "write")
       \/ /\ s \in {"DRAFT", "REJECTED", "WAIVED"}
          /\ req' = [req EXCEPT ![r].step = "pending", ![r].flag = TRUE]
    /\ UNCHANGED stored

\* assertNoPendingAmendment, and the pending check of both reviews.
PendingCheck(r) ==
    /\ At(r, {"submit", "approve", "reject", "amendCreate"}, "pending")
    /\ IF HasPending(req[r].key) THEN Finish(r) ELSE Continue(r, "write")
    /\ UNCHANGED stored

\* Mutant: the update forgets reviewNote, reviewedBy and reviewedAt.
SubmitWriteKeepingReview(r) ==
    /\ At(r, {"submit"}, "write")
    /\ Finish(r)
    /\ period' = [period EXCEPT ![req[r].key] =
                    [@ EXCEPT !.status = "SUBMITTED", !.submitted = TRUE]]
    /\ UNCHANGED <<enabled, grain, policy, amendment, log, audit>>

\* An update by id whatever the row has become, or a create that the unique
\* key (user, project, periodStart) refuses when the row exists by now.  The
\* update leaves the stored periodEnd alone.
SubmitWrite(r) ==
    /\ At(r, {"submit"}, "write")
    /\ Finish(r)
    /\ LET k == req[r].key IN
       period' = IF req[r].flag \/ period[k].status = "NONE"
                 THEN [period EXCEPT ![k] =
                         [status |-> "SUBMITTED", submitted |-> TRUE,
                          reviewed |-> FALSE, note |-> FALSE,
                          last |-> IF req[r].flag THEN period[k].last
                                                  ELSE PeriodEnd(k, req[r].grain)]]
                 ELSE period
    /\ UNCHANGED <<enabled, grain, policy, amendment, log, audit>>

-----------------------------------------------------------------------------
(* approve, reject: two reads and an update by id in one transaction, at   *)
(* an isolation level that lets other transactions commit in between.  The *)
(* bulk review worker runs the same steps.                                 *)

ReviewBegin(r, op, k, note) ==
    /\ op \in {"approve", "reject"}
    /\ op = "reject" => note
    /\ period[k].status # "NONE"
    /\ Begin(r, [Asking(op, "status") EXCEPT !.key = k, !.flag = note])
    /\ UNCHANGED stored

\* Mutant: the status of the row is not looked at.
ReviewAnyStatus(r) ==
    /\ At(r, {"approve", "reject"}, "status")
    /\ Continue(r, "pending")
    /\ UNCHANGED stored

ReviewStatus(r) ==
    /\ At(r, {"approve", "reject"}, "status")
    /\ IF period[req[r].key].status = "SUBMITTED"
       THEN Continue(r, "pending")
       ELSE Finish(r)
    /\ UNCHANGED stored

ReviewWrite(r) ==
    /\ At(r, {"approve", "reject"}, "write")
    /\ Finish(r)
    /\ period' = [period EXCEPT ![req[r].key] =
                    [status    |-> IF req[r].op = "approve" THEN "APPROVED" ELSE "REJECTED",
                     submitted |-> period[req[r].key].submitted,
                     reviewed  |-> TRUE,
                     note      |-> req[r].flag,
                     last      |-> period[req[r].key].last]]
    /\ UNCHANGED <<enabled, grain, policy, amendment, log, audit>>

-----------------------------------------------------------------------------
(* Amendments: the member asks to reopen a locked period, an admin decides.*)

AmendBegin(r, k) ==
    /\ period[k].status \in Locked
    /\ Begin(r, [Asking("amendCreate", "pending") EXCEPT !.key = k])
    /\ UNCHANGED stored

\* Mutant: the table has no partial unique index.
AmendWriteUnindexed(r) ==
    /\ At(r, {"amendCreate"}, "write")
    /\ Finish(r)
    /\ \E a \in Amendments :
          /\ amendment[a].status = "NONE"
          /\ amendment' = [amendment EXCEPT ![a] = [status |-> "PENDING", key |-> req[r].key]]
    /\ UNCHANGED <<enabled, grain, policy, period, log, audit>>

\* The partial unique index on pending rows refuses a second one.
AmendWrite(r) ==
    /\ At(r, {"amendCreate"}, "write")
    /\ Finish(r)
    /\ \/ HasPending(req[r].key) /\ UNCHANGED amendment
       \/ /\ ~HasPending(req[r].key)
          /\ \E a \in Amendments :
                /\ amendment[a].status = "NONE"
                /\ amendment' = [amendment EXCEPT ![a] =
                                   [status |-> "PENDING", key |-> req[r].key]]
    /\ UNCHANGED <<enabled, grain, policy, period, log, audit>>

DecideBegin(r, op, a) ==
    /\ op \in {"amendApprove", "amendDeny"}
    /\ amendment[a].status = "PENDING"
    /\ op = "amendApprove" => period[amendment[a].key].status \in Locked
    /\ Begin(r, [Asking(op, "write") EXCEPT !.item = a])
    /\ UNCHANGED stored

\* Mutant: a count of 0 does not abort the transaction.
ReopenRegardless(r) ==
    /\ At(r, {"amendApprove"}, "write")
    /\ Finish(r)
    /\ LET a == req[r].item IN
       /\ amendment' = IF amendment[a].status = "PENDING"
                       THEN [amendment EXCEPT ![a].status = "APPROVED"]
                       ELSE amendment
       /\ period' = [period EXCEPT ![amendment[a].key] =
                       [status |-> "DRAFT", submitted |-> FALSE,
                        reviewed |-> FALSE, note |-> FALSE,
                        last |-> period[amendment[a].key].last]]
    /\ UNCHANGED <<enabled, grain, policy, log, audit>>

\* updateMany({ id, status: PENDING }); a count of 0 aborts the transaction.
AmendApproveWrite(r) ==
    /\ At(r, {"amendApprove"}, "write")
    /\ Finish(r)
    /\ LET a == req[r].item IN
       \/ amendment[a].status # "PENDING" /\ UNCHANGED <<amendment, period>>
       \/ /\ amendment[a].status = "PENDING"
          /\ amendment' = [amendment EXCEPT ![a].status = "APPROVED"]
          /\ period' = [period EXCEPT ![amendment[a].key] =
                          [status |-> "DRAFT", submitted |-> FALSE,
                           reviewed |-> FALSE, note |-> FALSE,
                           last |-> period[amendment[a].key].last]]
    /\ UNCHANGED <<enabled, grain, policy, log, audit>>

\* Mutant: an update by id alone.
DenyUnconditionally(r) ==
    /\ At(r, {"amendDeny"}, "write")
    /\ Finish(r)
    /\ amendment' = [amendment EXCEPT ![req[r].item].status = "DENIED"]
    /\ UNCHANGED <<enabled, grain, policy, period, log, audit>>

AmendDenyWrite(r) ==
    /\ At(r, {"amendDeny"}, "write")
    /\ Finish(r)
    /\ LET a == req[r].item IN
       amendment' = IF amendment[a].status = "PENDING"
                    THEN [amendment EXCEPT ![a].status = "DENIED"]
                    ELSE amendment
    /\ UNCHANGED <<enabled, grain, policy, period, log, audit>>

-----------------------------------------------------------------------------
(* Time entries.  create checks the day it logs to ("dest"), remove the    *)
(* day of the entry ("source"), update the day of the entry and, when the  *)
(* request moves it, the day it moves to.  Each check reads the project    *)
(* and then the period row.  from and rest are the entry as update and     *)
(* remove read it first, which is what their audit event says was before.  *)

LogCreateBegin(r, d) ==
    /\ Begin(r, [Asking("logCreate", "dest") EXCEPT !.to = d])
    /\ UNCHANGED stored

LogUpdateBegin(r, l, d) ==
    /\ log[l] # NoEntry
    /\ Len(audit[l]) < MaxAudit
    /\ Begin(r, [Asking("logUpdate", "source") EXCEPT !.item = l, !.from = log[l].day,
                                                     !.rest = log[l].rest, !.to = d])
    /\ UNCHANGED stored

LogRemoveBegin(r, l) ==
    /\ log[l] # NoEntry
    /\ Begin(r, [Asking("logRemove", "source") EXCEPT !.item = l, !.from = log[l].day,
                                                     !.rest = log[l].rest])
    /\ UNCHANGED stored

\* Mutant: only the day the entry is on is checked.
SkipDestination(r) == "write"

\* What follows the check of the source day.
AfterSource(r) == IF req[r].to \in {0, req[r].from} THEN "write" ELSE "dest"

\* isApprovalEnabled and loadProjectContext.
LockSettings(r) ==
    /\ \/ /\ At(r, LogOps, "source")
          /\ IF enabled
             THEN req' = [req EXCEPT ![r].step = "sourceRow",
                                     ![r].key = PeriodStart(req[r].from, grain)]
             ELSE Continue(r, AfterSource(r))
       \/ /\ At(r, LogOps, "dest")
          /\ IF enabled
             THEN req' = [req EXCEPT ![r].step = "destRow",
                                     ![r].key = PeriodStart(req[r].to, grain)]
             ELSE Continue(r, "write")
    /\ UNCHANGED stored

\* The period row under the key just computed.
LockRow(r) ==
    /\ \/ /\ At(r, LogOps, "sourceRow")
          /\ IF period[req[r].key].status \in Locked
             THEN Finish(r)
             ELSE Continue(r, AfterSource(r))
       \/ /\ At(r, LogOps, "destRow")
          /\ IF period[req[r].key].status \in Locked
             THEN Finish(r)
             ELSE Continue(r, "write")
    /\ UNCHANGED stored

\* The entry and its audit event are written in one transaction.
Record(l, before, after) ==
    /\ log' = [log EXCEPT ![l] = after]
    /\ audit' = [audit EXCEPT ![l] = Append(@, [before |-> before, after |-> after])]

LogCreateWrite(r) ==
    /\ At(r, {"logCreate"}, "write")
    /\ Finish(r)
    /\ \E l \in Logs, x \in Rests :
          audit[l] = << >> /\ Record(l, NoEntry, [day |-> req[r].to, rest |-> x])
    /\ UNCHANGED <<enabled, grain, policy, period, amendment>>

\* The snapshots of an update or a delete: the entry as the request read it,
\* and the row it leaves.  The other fields may end as the request gives
\* them, as it read them (endTime and isBillable are written from that read
\* when they are not given) or as they are by now (description and taskId).
ReadEntry(r)    == [day |-> req[r].from, rest |-> req[r].rest]
EntriesAfter(r) == IF req[r].op = "logRemove" THEN {NoEntry}
                   ELSE {[day |-> req[r].to, rest |-> x] : x \in Rests}

\* Mutant: update and delete address the row by id alone.
LogChangeById(r) ==
    /\ At(r, {"logUpdate", "logRemove"}, "write")
    /\ Finish(r)
    /\ \/ /\ log[req[r].item] # NoEntry
          /\ \E after \in EntriesAfter(r) : Record(req[r].item, ReadEntry(r), after)
       \/ log[req[r].item] = NoEntry /\ UNCHANGED <<log, audit>>
    /\ UNCHANGED <<enabled, grain, policy, period, amendment>>

\* update and delete address the row by (id, startTime read before): they
\* fail, and the transaction with them, when the entry has moved or gone.
\* They go ahead when it kept its startTime, whatever else has changed in it.
LogChangeWrite(r) ==
    /\ At(r, {"logUpdate", "logRemove"}, "write")
    /\ Finish(r)
    /\ \/ /\ log[req[r].item].day = req[r].from
          /\ \E after \in EntriesAfter(r) : Record(req[r].item, ReadEntry(r), after)
       \/ /\ log[req[r].item].day # req[r].from
          /\ UNCHANGED <<log, audit>>
    /\ UNCHANGED <<enabled, grain, policy, period, amendment>>

-----------------------------------------------------------------------------
(* ProjectsService.update: the settings before the change are read, the    *)
(* project is updated, and then, in a statement of its own, the open       *)
(* periods are waived.                                                     *)

SettingsBegin(r, op, g) ==
    /\ \/ op = "enable" /\ ~enabled
       \/ op = "disable" /\ enabled
       \/ op = "regrain" /\ g # grain
    /\ Begin(r, [Asking(op, "write") EXCEPT !.grain = g, !.flag = (op # "regrain" \/ enabled)])
    /\ UNCHANGED stored

\* d is the day of the change.
SettingsWrite(r, d) ==
    /\ At(r, {"enable", "disable", "regrain"}, "write")
    /\ IF req[r].flag THEN Continue(r, "waive") ELSE Finish(r)
    /\ grain' = req[r].grain
    /\ \/ req[r].op = "enable" /\ enabled' = TRUE /\ policy' = d
       \/ req[r].op = "disable" /\ enabled' = FALSE /\ policy' = 1
       \/ req[r].op = "regrain" /\ UNCHANGED <<enabled, policy>>
    /\ UNCHANGED <<period, amendment, log, audit>>

\* Mutant: every period without a final decision is waived.
WaiveUndecided(r) ==
    /\ At(r, {"enable", "disable", "regrain"}, "waive")
    /\ Finish(r)
    /\ period' = [k \in Days |-> IF period[k].status \in {"DRAFT", "REJECTED", "SUBMITTED"}
                                 THEN [period[k] EXCEPT !.status = "WAIVED"]
                                 ELSE period[k]]
    /\ UNCHANGED <<enabled, grain, policy, amendment, log, audit>>

\* waiveOpenTimesheetPeriods: one conditional updateMany.
Waive(r) ==
    /\ At(r, {"enable", "disable", "regrain"}, "waive")
    /\ Finish(r)
    /\ period' = [k \in Days |-> IF period[k].status \in {"DRAFT", "REJECTED"}
                                 THEN [period[k] EXCEPT !.status = "WAIVED"]
                                 ELSE period[k]]
    /\ UNCHANGED <<enabled, grain, policy, amendment, log, audit>>

\* The process serving a request dies, or an await throws, between two steps.
Crash(r) ==
    /\ req[r] # Idle
    /\ Finish(r)
    /\ UNCHANGED stored

-----------------------------------------------------------------------------
Init ==
    /\ enabled \in BOOLEAN
    /\ grain \in {"daily", "weekly"}
    /\ policy = 1
    /\ period = [k \in Days |-> NoRow]
    /\ amendment = [a \in Amendments |-> [status |-> "NONE", key |-> 0]]
    /\ log = [l \in Logs |-> NoEntry]
    /\ audit = [l \in Logs |-> << >>]
    /\ req = [r \in Requests |-> Idle]

SubmitStep(r) ==
    \/ \E d \in Days : SubmitBegin(r, d)
    \/ SubmitEarliest(r)
    \/ SubmitWalk(r)
    \/ SubmitTarget(r)
    \/ SubmitWrite(r)

ReviewStep(r) ==
    \/ \E op \in {"approve", "reject"}, k \in Days, note \in BOOLEAN : ReviewBegin(r, op, k, note)
    \/ ReviewStatus(r)
    \/ ReviewWrite(r)

AmendStep(r) ==
    \/ \E k \in Days : AmendBegin(r, k)
    \/ AmendWrite(r)
    \/ \E op \in {"amendApprove", "amendDeny"}, a \in Amendments : DecideBegin(r, op, a)
    \/ AmendApproveWrite(r)
    \/ AmendDenyWrite(r)

LogStep(r) ==
    \/ \E d \in Days : LogCreateBegin(r, d)
    \/ \E l \in Logs, d \in Days : LogUpdateBegin(r, l, d)
    \/ \E l \in Logs : LogRemoveBegin(r, l)
    \/ LockSettings(r)
    \/ LockRow(r)
    \/ LogCreateWrite(r)
    \/ LogChangeWrite(r)

SettingsStep(r) ==
    \/ \E op \in {"enable", "disable", "regrain"}, g \in Grains : SettingsBegin(r, op, g)
    \/ \E d \in Days : SettingsWrite(r, d)
    \/ Waive(r)

Next ==
    \E r \in Requests :
        \/ SubmitStep(r)
        \/ ReviewStep(r)
        \/ PendingCheck(r)
        \/ AmendStep(r)
        \/ LogStep(r)
        \/ SettingsStep(r)
        \/ Crash(r)

Spec == Init /\ [][Next]_vars

-----------------------------------------------------------------------------
\* Every variable has the type its table or its handler gives it.
TypeOK ==
    /\ enabled \in BOOLEAN
    /\ grain \in {"daily", "weekly"}
    /\ policy \in Days
    /\ period \in [Days -> Row]
    /\ amendment \in [Amendments -> Amendment]
    /\ log \in [Logs -> Snapshot]
    /\ audit \in [Logs -> Seq(Event)]
    /\ req \in [Requests -> Request]

\* A period never has two pending amendment requests, although each create
\* looks for one in a statement of its own before it inserts: the partial
\* unique index of the migration decides the race.
OnePendingAmendment ==
    \A a, b \in Amendments :
        /\ amendment[a].status = "PENDING"
        /\ amendment[b] = amendment[a]
        => a = b

\* The review fields a period shows agree with its status, whichever of the
\* racing writes came last: a submitted period carries no trace of an older
\* review, a rejected one names its reviewer and has a note, a draft one
\* carries nothing, a waived one what the draft or the rejection left.
FieldsMatchStatus ==
    \A k \in Days :
        LET row == period[k] IN
        /\ row.status \in {"NONE", "DRAFT"} => ~row.submitted /\ ~row.reviewed /\ ~row.note
        /\ row.status = "SUBMITTED" => row.submitted /\ ~row.reviewed /\ ~row.note
        /\ row.status = "APPROVED" => row.reviewed
        /\ row.status = "REJECTED" => row.reviewed /\ row.note
        /\ row.status = "WAIVED" => row.reviewed = row.note

\* The audit trail of an entry retells it: replaying the `after` snapshots
\* gives the entry's creation, every content it has had and, last, the row as
\* it is or its deletion, after which nothing follows.  The `before` of an
\* event is a content the entry did have, on the day the preceding event left
\* it on: of two updates racing from one day to others the second fails, since
\* both address the row by the startTime they read.  (`before` need not be the
\* content the event replaced: see AuditUnbroken below.)
AuditReplay ==
    \A l \in Logs :
        LET n == Len(audit[l]) IN
        /\ n = 0 => log[l] = NoEntry
        /\ n > 0 => audit[l][1].before = NoEntry /\ audit[l][n].after = log[l]
        /\ \A i \in 1 .. (n - 1) :
              /\ audit[l][i].after # NoEntry
              /\ audit[l][i + 1].before.day = audit[l][i].after.day
              /\ \E j \in 1 .. i : audit[l][i + 1].before = audit[l][j].after

\* An amendment request is decided once: approving and denying it at the
\* same time, or twice, leaves the first decision in place.
DecisionsFinal ==
    [][\A a \in Amendments :
          amendment[a].status \in {"APPROVED", "DENIED"} => amendment'[a] = amendment[a]]_vars

\* A submitted or approved period is unlocked only by a rejection or by the
\* approval, in the same step, of an amendment request for that very period;
\* a change of the project's approval settings never reopens it.
UnlockOnlyByDecision ==
    [][\A k \in Days :
          period[k].status \in Locked /\ period'[k].status \notin Locked =>
             \/ period'[k].status = "REJECTED" /\ period'[k].reviewed
             \/ /\ period'[k].status = "DRAFT"
                /\ \E a \in Amendments :
                      /\ amendment[a] = [status |-> "PENDING", key |-> k]
                      /\ amendment'[a].status = "APPROVED"]_vars

-----------------------------------------------------------------------------
(* What the documentation says, and the interleavings do not keep.         *)

\* "Audit trail records create, update, and delete on every entry", with what
\* each changed: the `before` of an event is the `after` of the one before it.
AuditUnbroken ==
    \A l \in Logs : \A i \in 1 .. (Len(audit[l]) - 1) :
        audit[l][i + 1].before = audit[l][i].after

\* "While it is waiting or after it is approved, those entries are locked -
\* nobody can edit them until the workflow allows it again."
LockedEntriesFrozen ==
    [][\A l \in Logs :
          log'[l] # log[l] =>
             \A d \in {log[l].day, log'[l].day} \ {0} : Editable(d)]_vars

\* "Approved: admin signed off; entries stay locked" - for every day of the
\* span (periodStart to periodEnd) that was approved.
ApprovedSpanStaysLocked ==
    [][\A l \in Logs, k \in Days :
          /\ log'[l] # log[l]
          /\ enabled
          /\ period[k].status = "APPROVED"
          => log[l].day \notin k .. period[k].last]_vars
=============================================================================
