---------------------------- MODULE Subscriptions ----------------------------
(***************************************************************************)
(* The subscription row of one tenant that pays through Stripe:            *)
(* StripeWebhookService.processEvent, the writes of SubscriptionSync-      *)
(* Service, the two crons of SubscriptionReconcileService and what staff   *)
(* of the platform writes by hand.                                         *)
(*                                                                         *)
(* Stripe is outside: its subscription changes, each change sends webhook  *)
(* events, and an event is delivered any number of times, late, twice at   *)
(* once and in any order.  A delivery looks for the event's row, inserts   *)
(* it and then handles the event, in awaited statements of their own;      *)
(* reconcile fetches Stripe's state and writes it in a later statement.    *)
(***************************************************************************)
EXTENDS Integers, Sequences

CONSTANTS
    MaxEvents,   \* bound: the events Stripe sends
    Reached,     \* bound: the states the Stripe subscription takes
    Deliveries,  \* slots for webhook requests in flight
    Processes,   \* the API processes, each with its crons
    Staff,       \* slots for requests of the platform's staff
    MaxByHand,   \* bound: the writes of the staff
    GraceDays    \* PAST_DUE_SUSPEND_DAYS

StripeStatuses == {"trialing", "active", "past_due", "unpaid", "canceled",
                   "incomplete", "incomplete_expired", "paused"}

ASSUME MaxEventsAssumption == MaxEvents \in Nat
ASSUME ReachedAssumption == Reached \subseteq StripeStatuses
ASSUME GraceAssumption == GraceDays \in Nat \ {0}
ASSUME ByHandAssumption == MaxByHand \in Nat
ASSUME SlotAssumption ==
    Deliveries \cap Processes = {} /\ Staff \cap (Deliveries \cup Processes) = {}

VARIABLES
    stripe,   \* status of the subscription at Stripe
    event,    \* the events sent; an event's id is its place
    byHand,   \* how much of MaxByHand is used
    seen,     \* rows of stripe_webhook_events
    applied,  \* how often each event was handled (history)
    sub,      \* the row of tenant_subscriptions
    age,      \* whole days since the row's updatedAt
    pastDue,  \* whole days the row has been past_due (history)
    hour,     \* the next cron hour
    req       \* webhook requests and reconciles in flight

outside == <<stripe, event, byHand>>
row     == <<sub, age, pastDue>>
vars    == <<outside, seen, applied, row, hour, req>>

-----------------------------------------------------------------------------
Statuses == {"trial", "active", "past_due", "suspended", "canceled"}
Row      == [status: Statuses, linked: BOOLEAN]
Event    == [type: {"checkout", "updated", "deleted", "failed"}, status: StripeStatuses]
Request  == [step: {"none", "record", "handle", "write", "trial"}, id: 0 .. MaxEvents,
             status: StripeStatuses \cup {"none"}]

Slots     == Deliveries \cup Processes \cup Staff
Idle      == [step |-> "none", id |-> 0, status |-> "none"]
Finish(r) == req' = [req EXCEPT ![r] = Idle]

\* Mutant: the statuses of Stripe are taken over by name.
mapByName(s) == IF s = "trialing" THEN "trial" ELSE s

mapStripeStatus(s) ==
    CASE s = "trialing"                         -> "trial"
      [] s \in {"past_due", "unpaid"}           -> "past_due"
      [] s \in {"canceled", "incomplete_expired"} -> "canceled"
      [] s = "paused"                           -> "suspended"
      [] OTHER                                  -> "active"

\* Mutant: the write does not bump updatedAt.
WriteRowUnstamped(status, linked) ==
    /\ sub' = [status |-> status, linked |-> linked]
    /\ age' = age
    /\ pastDue' = IF status = "past_due" /\ sub.status = "past_due" THEN pastDue ELSE 0

\* @updatedAt: a write bumps updatedAt, whether it changes the row or not.
WriteRow(status, linked) ==
    /\ sub' = [status |-> status, linked |-> linked]
    /\ age' = 0
    /\ pastDue' = IF status = "past_due" /\ sub.status = "past_due" THEN pastDue ELSE 0

-----------------------------------------------------------------------------
\* Stripe.  The owner completes a checkout; later the subscription renews,
\* fails to be paid, recovers, is paused or ends.
Send(batch) ==
    /\ Len(event) + Len(batch) <= MaxEvents
    /\ event' = event \o batch

Checkout(s) ==
    /\ stripe = "none"
    /\ s \in {"trialing", "active", "incomplete"}
    /\ stripe' = s
    /\ Send(<<[type |-> "checkout", status |-> s]>>)
    /\ UNCHANGED <<byHand, seen, applied, row, hour, req>>

Change(s) ==
    /\ stripe \notin {"none", "canceled", "incomplete_expired"}
    /\ stripe' = s
    /\ LET updated == [type |-> "updated", status |-> s]
           failed  == [type |-> "failed", status |-> s]
           deleted == [type |-> "deleted", status |-> s] IN
       \/ s = "canceled" /\ Send(<<deleted>>)
       \/ s \in {"past_due", "unpaid"} /\ Send(<<failed, updated>>)
       \/ s \notin {"canceled", "past_due", "unpaid"} /\ Send(<<updated>>)
    /\ UNCHANGED <<byHand, seen, applied, row, hour, req>>

-----------------------------------------------------------------------------
\* processEvent: an event without a row goes on; one with a row is answered
\* "not processed".
Deliver(r, e) ==
    /\ req[r] = Idle
    /\ e \notin seen
    /\ req' = [req EXCEPT ![r] = [Idle EXCEPT !.step = "record", !.id = e]]
    /\ UNCHANGED <<outside, seen, applied, row, hour>>

\* Mutant: the insert ignores a conflict.
RecordAnyway(r) ==
    /\ req[r].step = "record"
    /\ seen' = seen \cup {req[r].id}
    /\ req' = [req EXCEPT ![r].step = "handle"]
    /\ UNCHANGED <<outside, applied, row, hour>>

\* The insert; the primary key refuses a row that a delivery at the same time
\* has inserted since.
Record(r) ==
    /\ req[r].step = "record"
    /\ IF req[r].id \in seen
       THEN Finish(r) /\ UNCHANGED seen
       ELSE /\ req' = [req EXCEPT ![r].step = "handle"]
            /\ seen' = seen \cup {req[r].id}
    /\ UNCHANGED <<outside, applied, row, hour>>

\* The handler's write.  Only a failed payment looks the tenant up by the
\* stored Stripe id; the other events carry the tenant's id.
Handle(r) ==
    /\ req[r].step = "handle"
    /\ Finish(r)
    /\ applied' = [applied EXCEPT ![req[r].id] = @ + 1]
    /\ LET e == event[req[r].id] IN
       \/ e.type = "checkout" /\ WriteRow("active", TRUE)
       \/ e.type = "updated"  /\ WriteRow(mapStripeStatus(e.status), TRUE)
       \/ e.type = "deleted"  /\ WriteRow("canceled", sub.linked)
       \/ e.type = "failed" /\ sub.linked  /\ WriteRow("past_due", TRUE)
       \/ e.type = "failed" /\ ~sub.linked /\ UNCHANGED row
    /\ UNCHANGED <<outside, seen, hour>>

-----------------------------------------------------------------------------
\* Mutant: rows that are active are taken to be in order.
ReconcileInactive(r) ==
    /\ req[r] = Idle
    /\ hour = "05:00"
    /\ sub.linked /\ sub.status # "active"
    /\ req' = [req EXCEPT ![r] = [Idle EXCEPT !.step = "write", !.status = stripe]]
    /\ UNCHANGED <<outside, seen, applied, row, hour>>

\* reconcileStripeSubscriptions: the row has a Stripe id, Stripe answers.
ReconcileFetch(r) ==
    /\ req[r] = Idle
    /\ hour = "05:00"
    /\ sub.linked
    /\ req' = [req EXCEPT ![r] = [Idle EXCEPT !.step = "write", !.status = stripe]]
    /\ UNCHANGED <<outside, seen, applied, row, hour>>

ReconcileWrite(r) ==
    /\ req[r].step = "write"
    /\ Finish(r)
    /\ WriteRow(mapStripeStatus(req[r].status), TRUE)
    /\ UNCHANGED <<outside, seen, applied, hour>>

\* A day ends: the row has been left alone, and past due, for one more.
NextDay(days) == IF days < GraceDays THEN days + 1 ELSE days

AfterFive ==
    /\ hour = "05:00"
    /\ hour' = "06:00"
    /\ UNCHANGED <<outside, seen, applied, row, req>>

\* suspendLongPastDueSubscriptions: one conditional updateMany.
SuspendCron ==
    /\ hour = "06:00"
    /\ hour' = "05:00"
    /\ IF sub.status = "past_due" /\ age >= GraceDays
       THEN /\ sub' = [sub EXCEPT !.status = "suspended"]
            /\ age' = 0
            /\ pastDue' = 0
       ELSE /\ sub' = sub
            /\ age' = NextDay(age)
            /\ pastDue' = IF sub.status = "past_due" THEN NextDay(pastDue) ELSE 0
    /\ UNCHANGED <<outside, seen, applied, req>>

\* No process is up at six.
SuspendMissed ==
    /\ hour = "06:00"
    /\ hour' = "05:00"
    /\ age' = NextDay(age)
    /\ pastDue' = IF sub.status = "past_due" THEN NextDay(pastDue) ELSE 0
    /\ UNCHANGED <<outside, seen, applied, sub, req>>

-----------------------------------------------------------------------------
\* updateTenant, suspendTenant, overrideLimits, updateGracePeriod: staff
\* writes a status, or data that leaves it as it is, whatever Stripe says.
SetByHand(status) ==
    /\ byHand < MaxByHand
    /\ byHand' = byHand + 1
    /\ WriteRow(status, sub.linked)
    /\ UNCHANGED <<stripe, event, seen, applied, hour, req>>

\* extendTrial: a subscription that was canceled gets no trial ...
ExtendTrialFind(r) ==
    /\ req[r] = Idle
    /\ byHand < MaxByHand
    /\ byHand' = byHand + 1
    /\ sub.status # "canceled"
    /\ req' = [req EXCEPT ![r] = [Idle EXCEPT !.step = "trial"]]
    /\ UNCHANGED <<stripe, event, seen, applied, row, hour>>

\* ... but it may have been since.
ExtendTrialWrite(r) ==
    /\ req[r].step = "trial"
    /\ Finish(r)
    /\ WriteRow("trial", sub.linked)
    /\ UNCHANGED <<outside, seen, applied, hour>>

-----------------------------------------------------------------------------
\* The process dies, or an await throws, between two statements.
Crash(r) ==
    /\ req[r] # Idle
    /\ Finish(r)
    /\ UNCHANGED <<outside, seen, applied, row, hour>>

-----------------------------------------------------------------------------
Init ==
    /\ stripe = "none"
    /\ event = << >>
    /\ byHand = 0
    /\ seen = {}
    /\ applied = [e \in 1 .. MaxEvents |-> 0]
    /\ \E status \in {"trial", "active"} : sub = [status |-> status, linked |-> FALSE]
    /\ age = 0
    /\ pastDue = 0
    /\ hour = "05:00"
    /\ req = [r \in Slots |-> Idle]

DeliveryStep(r) ==
    \/ \E e \in 1 .. Len(event) : Deliver(r, e)
    \/ Record(r)
    \/ Handle(r)

Next ==
    \/ \E s \in Reached : Checkout(s) \/ Change(s)
    \/ \E r \in Deliveries : DeliveryStep(r)
    \/ \E r \in Processes : ReconcileFetch(r) \/ ReconcileWrite(r)
    \/ \E status \in Statuses : SetByHand(status)
    \/ \E r \in Staff : ExtendTrialFind(r) \/ ExtendTrialWrite(r)
    \/ \E r \in Slots : Crash(r)
    \/ AfterFive
    \/ SuspendCron
    \/ SuspendMissed

Spec == Init /\ [][Next]_vars

\* Days pass, and a reconcile that fails is repeated every day and does not
\* fail for ever.  Nothing is assumed of the webhooks.
Fairness ==
    /\ WF_vars(AfterFive)
    /\ WF_vars(SuspendCron)
    /\ \A r \in Processes : SF_vars(ReconcileFetch(r)) /\ SF_vars(ReconcileWrite(r))

FairSpec == Spec /\ Fairness

-----------------------------------------------------------------------------
\* The row, the events and the requests have their types.
TypeOK ==
    /\ stripe \in StripeStatuses \cup {"none"}
    /\ event \in Seq(Event) /\ Len(event) <= MaxEvents
    /\ byHand \in 0 .. MaxByHand
    /\ seen \subseteq 1 .. Len(event)
    /\ applied \in [1 .. MaxEvents -> Nat]
    /\ sub \in Row
    /\ age \in 0 .. GraceDays
    /\ pastDue \in 0 .. GraceDays
    /\ hour \in {"05:00", "06:00"}
    /\ req \in [Slots -> Request]

\* An event is handled at most once, however often and however concurrently
\* it is delivered and whatever crashes: the row of stripe_webhook_events is
\* inserted before the handler runs, and its primary key decides the race of
\* two deliveries that both found none.
HandledOnce == \A e \in 1 .. MaxEvents : applied[e] <= 1

\* The cron suspends a tenant only after the row was past_due on each of the
\* last GraceDays days: a recovery or a new failure in between restarts the
\* grace period.
NeverSuspendedEarly ==
    [][SuspendCron /\ sub'.status # sub.status => pastDue = GraceDays]_vars

\* The deliveries implement the ledger: among any number of them, late, at
\* once or cut off by a crash, one claims an event, and only that one handles
\* it, once.
Ledger == INSTANCE EventLedger WITH sent <- Len(event), claimed <- seen, handled <- applied
LedgerKept == Ledger!Spec

\* Once the subscription at Stripe has ended, the row of a linked tenant
\* becomes and stays canceled, although events sent before the end may still
\* be delivered after it, reconcile may still write an older answer, and staff
\* may have given a trial since (but does not for ever).
CanceledForGood ==
    [](stripe = "canceled" => <>[](sub.linked => sub.status = "canceled"))

\* The row of a linked tenant follows whatever status the subscription at
\* Stripe settles on, even if every webhook for it was lost, and whatever
\* staff has written by hand.
FollowsStripe ==
    \A s \in Reached :
        stripe = s /\ sub.linked ~> stripe # s \/ sub.status = mapStripeStatus(s)

-----------------------------------------------------------------------------
\* "Cron suspends after 7 days past_due": no tenant that has been past due
\* for the grace period is past due after the cron.
SuspendedAfterGrace ==
    [][SuspendCron /\ pastDue = GraceDays => sub'.status # "past_due"]_vars
=============================================================================
