-------------------------- MODULE SubscriptionsProofs --------------------------
(***************************************************************************)
(* No webhook event is handled twice and no tenant is suspended before its *)
(* grace period is over, for any number of events, deliveries, processes   *)
(* and days of grace.                                                      *)
(***************************************************************************)
EXTENDS Subscriptions, TLAPS

Ids == 1 .. MaxEvents

\* What a delivery holds when it is about to handle its event: the event's
\* row is its own, and nobody has handled the event before.
DeliveryOK(q) ==
    /\ q.step \in {"record", "handle"} => q.id \in 1 .. Len(event)
    /\ q.step = "handle" => q.id \in seen /\ applied[q.id] = 0

OutsideOK == /\ stripe \in StripeStatuses \cup {"none"}
             /\ event \in Seq(Event) /\ Len(event) <= MaxEvents
             /\ byHand \in 0 .. MaxByHand
SeenOK    == /\ seen \subseteq 1 .. Len(event)
             /\ applied \in [Ids -> Nat]
             /\ \A e \in Ids : applied[e] <= 1 /\ (e \notin seen => applied[e] = 0)
\* The row is not past due for longer than its updatedAt is old.
RowOK     == /\ sub \in Row
             /\ age \in 0 .. GraceDays
             /\ pastDue \in 0 .. GraceDays
             /\ sub.status = "past_due" => age <= pastDue
HourOK    == hour \in {"05:00", "06:00"}
RequestsOK == /\ req \in [Slots -> Request]
              /\ \A r \in Slots : DeliveryOK(req[r])
OneOwner  == \A r, s \in Slots :
                req[r].step = "handle" /\ req[s].step = "handle" /\ req[r].id = req[s].id => r = s

IInv == OutsideOK /\ SeenOK /\ RowOK /\ HourOK /\ RequestsOK /\ OneOwner

-----------------------------------------------------------------------------
LEMMA IdleOK == Idle \in Request /\ Idle.step = "none"
BY MaxEventsAssumption DEF Idle, Request

LEMMA InitIInv == Init => IInv
<1> SUFFICES ASSUME Init PROVE IInv
  OBVIOUS
<1>1. OutsideOK /\ SeenOK /\ HourOK
  BY MaxEventsAssumption, ByHandAssumption DEF Init, OutsideOK, SeenOK, HourOK, Ids
<1>2. RowOK
  BY GraceAssumption DEF Init, RowOK, Row, Statuses
<1>3. RequestsOK /\ OneOwner
  BY IdleOK DEF Init, RequestsOK, OneOwner, DeliveryOK, Slots
<1> QED
  BY <1>1, <1>2, <1>3 DEF IInv

-----------------------------------------------------------------------------
(* The row.                                                                *)

LEMMA Mapped == \A s \in StripeStatuses \cup {"none"} : mapStripeStatus(s) \in Statuses
BY DEF mapStripeStatus, StripeStatuses, Statuses

LEMMA Written ==
    ASSUME RowOK, NEW status \in Statuses, NEW linked \in BOOLEAN, WriteRow(status, linked)
    PROVE  RowOK'
BY GraceAssumption DEF RowOK, WriteRow, Row, Statuses

LEMMA RowStays ==
    ASSUME RowOK, UNCHANGED row
    PROVE  RowOK'
BY DEF RowOK, row

LEMMA RowDay ==
    ASSUME RowOK, SuspendCron \/ SuspendMissed
    PROVE  RowOK'
<1>1. \A d \in 0 .. GraceDays : NextDay(d) \in 0 .. GraceDays
  BY GraceAssumption DEF NextDay
<1>2. \A c, d \in 0 .. GraceDays : c <= d => NextDay(c) <= NextDay(d)
  BY GraceAssumption DEF NextDay
<1>3. CASE SuspendCron /\ sub.status = "past_due" /\ age >= GraceDays
  <2>1. sub' \in Row /\ sub'.status = "suspended" /\ age' = 0 /\ pastDue' = 0
    BY <1>3 DEF SuspendCron, RowOK, Row, Statuses
  <2> QED
    BY <2>1, GraceAssumption DEF RowOK
<1>4. CASE ~(SuspendCron /\ sub.status = "past_due" /\ age >= GraceDays)
  <2>1. sub' = sub /\ age' = NextDay(age)
    BY <1>4 DEF SuspendCron, SuspendMissed
  <2>2. pastDue' = IF sub.status = "past_due" THEN NextDay(pastDue) ELSE 0
    BY <1>4 DEF SuspendCron, SuspendMissed
  <2>3. pastDue' \in 0 .. GraceDays
    BY <1>1, <2>2, GraceAssumption DEF RowOK
  <2>4. sub.status = "past_due" => NextDay(age) <= NextDay(pastDue)
    BY <1>2 DEF RowOK
  <2> QED
    BY <1>1, <2>1, <2>2, <2>3, <2>4 DEF RowOK
<1> QED
  BY <1>3, <1>4

-----------------------------------------------------------------------------
(* The requests.                                                           *)

\* A slot becomes idle: the others keep what they hold.
LEMMA Finishes ==
    ASSUME RequestsOK, OneOwner, NEW r \in Slots, Finish(r), UNCHANGED <<event, seen, applied>>
    PROVE  RequestsOK' /\ OneOwner'
<1>1. req' \in [Slots -> Request]
  BY IdleOK DEF RequestsOK, Finish
<1>2. \A s \in Slots : req'[s] = IF s = r THEN Idle ELSE req[s]
  BY DEF RequestsOK, Finish
<1>3. \A s \in Slots : DeliveryOK(req[s])'
  BY <1>2, IdleOK DEF RequestsOK, DeliveryOK
<1>4. OneOwner'
  BY <1>2, IdleOK DEF OneOwner
<1> QED
  BY <1>1, <1>3, <1>4 DEF RequestsOK

\* A slot takes a request that is not about to handle anything.
LEMMA Takes ==
    ASSUME RequestsOK, OneOwner, NEW r \in Slots, NEW q \in Request, q.step # "handle",
           q.step = "record" => q.id \in 1 .. Len(event),
           req' = [req EXCEPT ![r] = q], UNCHANGED <<event, seen, applied>>
    PROVE  RequestsOK' /\ OneOwner'
<1>1. \A s \in Slots : req'[s] = IF s = r THEN q ELSE req[s]
  BY DEF RequestsOK
<1>2. \A s \in Slots : DeliveryOK(req[s])'
  BY <1>1 DEF RequestsOK, DeliveryOK
<1>3. OneOwner'
  BY <1>1 DEF OneOwner
<1> QED
  BY <1>2, <1>3 DEF RequestsOK

\* A change at Stripe sends one event or two.
LEMMA Batches ==
    ASSUME NEW s \in Reached, Checkout(s) \/ Change(s)
    PROVE  \E batch \in Seq(Event) : Send(batch) /\ Len(batch) \in {1, 2}
<1> DEFINE checkout == <<[type |-> "checkout", status |-> s]>>
           updated  == <<[type |-> "updated", status |-> s]>>
           deleted  == <<[type |-> "deleted", status |-> s]>>
           failed   == <<[type |-> "failed", status |-> s], [type |-> "updated", status |-> s]>>
<1>1. /\ checkout \in Seq(Event) /\ updated \in Seq(Event)
      /\ deleted \in Seq(Event) /\ failed \in Seq(Event)
  BY ReachedAssumption DEF Event
<1>2. Len(checkout) = 1 /\ Len(updated) = 1 /\ Len(deleted) = 1 /\ Len(failed) = 2
  OBVIOUS
<1>3. Send(checkout) \/ Send(updated) \/ Send(deleted) \/ Send(failed)
  BY DEF Checkout, Change
<1> HIDE DEF checkout, updated, deleted, failed
<1> QED
  BY <1>1, <1>2, <1>3

LEMMA StepOutside ==
    ASSUME IInv, NEW s \in Reached, Checkout(s) \/ Change(s)
    PROVE  IInv'
<1>1. s \in StripeStatuses
  BY ReachedAssumption
<1>2. ASSUME NEW batch \in Seq(Event), Send(batch)
      PROVE  event' \in Seq(Event) /\ Len(event') <= MaxEvents /\ Len(event) <= Len(event')
  BY <1>2 DEF Send, IInv, OutsideOK
<1>3. PICK batch \in Seq(Event) : Send(batch)
  BY Batches
<1>4. event' \in Seq(Event) /\ Len(event') <= MaxEvents /\ Len(event) <= Len(event')
  BY <1>2, <1>3
<1>5. stripe' = s /\ UNCHANGED <<byHand, seen, applied, sub, age, pastDue, hour, req>>
  BY DEF Checkout, Change, row
<1>6. Len(event) \in Nat /\ Len(event') \in Nat
  BY <1>4 DEF IInv, OutsideOK
<1>7. OutsideOK' /\ SeenOK'
  BY <1>1, <1>4, <1>5, <1>6 DEF IInv, OutsideOK, SeenOK
<1>8. RowOK' /\ HourOK' /\ OneOwner'
  BY <1>5 DEF IInv, RowOK, HourOK, OneOwner
<1>9. RequestsOK'
  <2>1. \A r \in Slots : req[r].id \in 1 .. Len(event) => req[r].id \in 1 .. Len(event')
    BY <1>4, <1>6
  <2> QED
    BY <1>5, <2>1 DEF IInv, RequestsOK, DeliveryOK
<1> QED
  BY <1>7, <1>8, <1>9 DEF IInv

\* The ids of the events sent so far.
LEMMA Sent == OutsideOK => 1 .. Len(event) \subseteq Ids /\ 1 .. Len(event) \subseteq 0 .. MaxEvents
<1> SUFFICES ASSUME OutsideOK PROVE \A e \in 1 .. Len(event) : e \in Ids /\ e \in 0 .. MaxEvents
  OBVIOUS
<1>1. Len(event) \in Nat /\ Len(event) <= MaxEvents
  BY DEF OutsideOK
<1> QED
  BY <1>1, MaxEventsAssumption DEF Ids

LEMMA StepDeliver ==
    ASSUME IInv, NEW r \in Deliveries, NEW e \in 1 .. Len(event), Deliver(r, e)
    PROVE  IInv'
<1> DEFINE q == [Idle EXCEPT !.step = "record", !.id = e]
<1>1. q \in Request /\ q.step = "record" /\ q.id = e
  <2>1. e \in 0 .. MaxEvents
    BY Sent DEF IInv
  <2> QED
    BY <2>1 DEF Idle, Request
<1>2. req' = [req EXCEPT ![r] = q] /\ UNCHANGED <<stripe, event, byHand, seen, applied, sub, age, pastDue, hour>>
  BY DEF Deliver, outside, row
<1> HIDE DEF q
<1>3. RequestsOK' /\ OneOwner'
  BY <1>1, <1>2, Takes DEF IInv, Slots
<1> QED
  BY <1>2, <1>3 DEF IInv, OutsideOK, SeenOK, RowOK, HourOK

LEMMA StepRecord ==
    ASSUME IInv, NEW r \in Deliveries, Record(r)
    PROVE  IInv'
<1>1. UNCHANGED <<stripe, event, byHand, applied, sub, age, pastDue, hour>>
  BY DEF Record, outside, row
<1>2. OutsideOK' /\ RowOK' /\ HourOK'
  BY <1>1 DEF IInv, OutsideOK, RowOK, HourOK
<1>3. CASE req[r].id \in seen
  <2>1. Finish(r) /\ UNCHANGED seen
    BY <1>3 DEF Record
  <2>2. RequestsOK' /\ OneOwner'
    BY <1>1, <2>1, Finishes DEF IInv, Slots
  <2> QED
    BY <1>1, <1>2, <2>1, <2>2 DEF IInv, SeenOK
<1>4. CASE req[r].id \notin seen
  <2> DEFINE k == req[r].id
             q == [req[r] EXCEPT !.step = "handle"]
  <2>1. k \in 1 .. Len(event) /\ k \in Ids /\ applied[k] = 0 /\ req[r] \in Request /\ req[r].step = "record"
    <3>1. r \in Slots /\ req[r] \in Request /\ req[r].step = "record" /\ DeliveryOK(req[r])
      BY <1>4 DEF Record, IInv, RequestsOK, Slots
    <3>2. k \in 1 .. Len(event)
      BY <3>1 DEF DeliveryOK
    <3>3. k \in Ids
      BY <3>2, Sent DEF IInv
    <3> QED
      BY <1>4, <3>1, <3>2, <3>3 DEF IInv, SeenOK
  <2>2. q \in Request /\ q.step = "handle" /\ q.id = k
    BY <2>1 DEF Request
  <2>3. seen' = seen \cup {k} /\ req' = [req EXCEPT ![r] = q]
    BY <1>4 DEF Record
  <2> HIDE DEF q
  <2>4. \A s \in Slots : req'[s] = IF s = r THEN q ELSE req[s]
    BY <2>3 DEF IInv, RequestsOK
  <2>5. SeenOK'
    BY <1>1, <2>1, <2>3 DEF IInv, SeenOK
  <2>6. RequestsOK'
    <3>1. \A s \in Slots : DeliveryOK(req[s])'
      BY <1>1, <2>1, <2>2, <2>3, <2>4 DEF IInv, RequestsOK, DeliveryOK
    <3> QED
      BY <2>2, <2>3, <3>1 DEF IInv, RequestsOK
  <2>7. OneOwner'
    <3>1. \A s \in Slots : req[s].step = "handle" => req[s].id # k
      BY <1>4 DEF IInv, RequestsOK, DeliveryOK
    <3> QED
      BY <2>2, <2>4, <3>1 DEF IInv, OneOwner
  <2> QED
    BY <1>2, <2>5, <2>6, <2>7 DEF IInv
<1> QED
  BY <1>3, <1>4

LEMMA StepHandle ==
    ASSUME IInv, NEW r \in Deliveries, Handle(r)
    PROVE  IInv'
<1> DEFINE k == req[r].id
<1>1. UNCHANGED <<stripe, event, byHand, seen, hour>> /\ Finish(r)
      /\ applied' = [applied EXCEPT ![k] = applied[k] + 1]
  BY DEF Handle, outside
<1>2. k \in 1 .. Len(event) /\ k \in Ids /\ k \in seen /\ applied[k] = 0
  <2>1. r \in Slots /\ req[r].step = "handle"
    BY DEF Handle, Slots
  <2>2. k \in 1 .. Len(event) /\ k \in seen /\ applied[k] = 0
    BY <2>1 DEF IInv, RequestsOK, DeliveryOK
  <2> QED
    BY <2>2, Sent DEF IInv
<1>3. OutsideOK' /\ HourOK'
  BY <1>1 DEF IInv, OutsideOK, HourOK
<1>4. SeenOK'
  BY <1>1, <1>2 DEF IInv, SeenOK
<1>5. RowOK'
  <2>1. event[k] \in Event
    BY <1>2 DEF IInv, OutsideOK
  <2>2. mapStripeStatus(event[k].status) \in Statuses /\ sub.linked \in BOOLEAN
    BY <2>1, Mapped DEF Event, IInv, RowOK, Row
  <2>3. \/ \E st \in Statuses, l \in BOOLEAN : WriteRow(st, l)
        \/ UNCHANGED row
    <3>1. "active" \in Statuses /\ "canceled" \in Statuses /\ "past_due" \in Statuses
      BY DEF Statuses
    <3> QED
      BY <2>2, <3>1, Zenon DEF Handle
  <2> QED
    BY <2>3, Written, RowStays DEF IInv
<1>6. \A s \in Slots : req'[s] = IF s = r THEN Idle ELSE req[s]
  BY <1>1 DEF Finish, IInv, RequestsOK
<1>7. \A s \in Slots : s # r /\ req[s].step = "handle" => req[s].id # k
  BY DEF IInv, OneOwner, Handle, Slots
<1>8. RequestsOK'
  <2>1. req' \in [Slots -> Request]
    BY <1>1, IdleOK DEF Finish, IInv, RequestsOK
  <2>2. \A i \in Ids : i # k => applied'[i] = applied[i]
    BY <1>1 DEF IInv, SeenOK
  <2>3. \A s \in Slots : DeliveryOK(req[s])'
    <3> SUFFICES ASSUME NEW s \in Slots PROVE DeliveryOK(req[s])'
      OBVIOUS
    <3>1. CASE s = r
      BY <1>6, <3>1, IdleOK DEF DeliveryOK
    <3>2. CASE s # r
      <4>1. req'[s] = req[s] /\ DeliveryOK(req[s])
        BY <1>6, <3>2 DEF IInv, RequestsOK
      <4>2. req[s].step = "handle" => req[s].id \in Ids /\ req[s].id # k
        <5>1. req[s].step = "handle" => req[s].id \in 1 .. Len(event)
          BY <4>1 DEF DeliveryOK
        <5> QED
          BY <1>7, <3>2, <5>1, Sent DEF IInv
      <4> QED
        BY <1>1, <2>2, <4>1, <4>2 DEF DeliveryOK
    <3> QED
      BY <3>1, <3>2
  <2> QED
    BY <2>1, <2>3 DEF RequestsOK
<1>9. OneOwner'
  BY <1>6, IdleOK DEF IInv, OneOwner
<1> QED
  BY <1>3, <1>4, <1>5, <1>8, <1>9 DEF IInv

LEMMA StepReconcile ==
    ASSUME IInv, NEW r \in Processes, ReconcileFetch(r) \/ ReconcileWrite(r)
    PROVE  IInv'
<1>1. UNCHANGED <<stripe, event, byHand, seen, applied, hour>>
  BY DEF ReconcileFetch, ReconcileWrite, outside
<1>2. OutsideOK' /\ SeenOK' /\ HourOK'
  BY <1>1 DEF IInv, OutsideOK, SeenOK, HourOK
<1>3. CASE ReconcileFetch(r)
  <2> DEFINE q == [Idle EXCEPT !.step = "write", !.status = stripe]
  <2>1. q \in Request /\ q.step = "write"
    BY IdleOK DEF Idle, Request, IInv, OutsideOK
  <2>2. req' = [req EXCEPT ![r] = q] /\ UNCHANGED row
    BY <1>3 DEF ReconcileFetch
  <2> HIDE DEF q
  <2>3. RequestsOK' /\ OneOwner'
    BY <1>1, <2>1, <2>2, Takes DEF IInv, Slots
  <2> QED
    BY <1>2, <2>2, <2>3, RowStays DEF IInv
<1>4. CASE ReconcileWrite(r)
  <2>1. mapStripeStatus(req[r].status) \in Statuses
    BY Mapped DEF IInv, RequestsOK, Request, Slots
  <2>2. WriteRow(mapStripeStatus(req[r].status), TRUE) /\ Finish(r)
    BY <1>4 DEF ReconcileWrite
  <2>3. RowOK'
    BY <2>1, <2>2, Written DEF IInv
  <2>4. RequestsOK' /\ OneOwner'
    BY <1>1, <2>2, Finishes DEF IInv, Slots
  <2> QED
    BY <1>2, <2>3, <2>4 DEF IInv
<1> QED
  BY <1>3, <1>4

\* What staff writes is a status, and the delivery of no event is touched.
LEMMA StepByHand ==
    ASSUME IInv, NEW status \in Statuses, SetByHand(status)
    PROVE  IInv'
<1>1. /\ UNCHANGED <<stripe, event, seen, applied, hour, req>>
      /\ WriteRow(status, sub.linked) /\ byHand < MaxByHand /\ byHand' = byHand + 1
  BY DEF SetByHand
<1>2. sub.linked \in BOOLEAN
  BY DEF IInv, RowOK, Row
<1>3. RowOK'
  BY <1>1, <1>2, Written DEF IInv
<1>4. OutsideOK'
  BY <1>1, ByHandAssumption DEF IInv, OutsideOK
<1> QED
  BY <1>1, <1>3, <1>4 DEF IInv, SeenOK, HourOK, RequestsOK, OneOwner, DeliveryOK

LEMMA StepTrial ==
    ASSUME IInv, NEW r \in Staff, ExtendTrialFind(r) \/ ExtendTrialWrite(r)
    PROVE  IInv'
<1>1. UNCHANGED <<stripe, event, seen, applied, hour>>
  BY DEF ExtendTrialFind, ExtendTrialWrite, outside
<1>2. OutsideOK'
  BY <1>1, ByHandAssumption DEF IInv, OutsideOK, ExtendTrialFind, ExtendTrialWrite, outside
<1>3. SeenOK' /\ HourOK'
  BY <1>1 DEF IInv, SeenOK, HourOK
<1>4. CASE ExtendTrialFind(r)
  <2> DEFINE q == [Idle EXCEPT !.step = "trial"]
  <2>1. q \in Request /\ q.step = "trial"
    BY IdleOK DEF Idle, Request
  <2>2. req' = [req EXCEPT ![r] = q] /\ UNCHANGED row
    BY <1>4 DEF ExtendTrialFind
  <2> HIDE DEF q
  <2>3. RequestsOK' /\ OneOwner'
    BY <1>1, <2>1, <2>2, Takes DEF IInv, Slots
  <2> QED
    BY <1>2, <1>3, <2>2, <2>3, RowStays DEF IInv
<1>5. CASE ExtendTrialWrite(r)
  <2>1. WriteRow("trial", sub.linked) /\ Finish(r)
    BY <1>5 DEF ExtendTrialWrite
  <2>2. sub.linked \in BOOLEAN /\ "trial" \in Statuses
    BY DEF IInv, RowOK, Row, Statuses
  <2>3. RowOK'
    BY <2>1, <2>2, Written DEF IInv
  <2>4. RequestsOK' /\ OneOwner'
    BY <1>1, <2>1, Finishes DEF IInv, Slots
  <2> QED
    BY <1>2, <1>3, <2>3, <2>4 DEF IInv
<1> QED
  BY <1>4, <1>5

LEMMA StepCrash ==
    ASSUME IInv, NEW r \in Slots, Crash(r)
    PROVE  IInv'
<1>1. UNCHANGED <<stripe, event, byHand, seen, applied, sub, age, pastDue, hour>> /\ Finish(r)
  BY DEF Crash, outside, row
<1>2. RequestsOK' /\ OneOwner'
  BY <1>1, Finishes DEF IInv
<1> QED
  BY <1>1, <1>2 DEF IInv, OutsideOK, SeenOK, RowOK, HourOK

\* The hours, and steps that leave every variable alone.
LEMMA StepHour ==
    ASSUME IInv, AfterFive \/ SuspendCron \/ SuspendMissed \/ UNCHANGED vars
    PROVE  IInv'
<1>1. UNCHANGED <<stripe, event, byHand, seen, applied, req>>
  BY DEF AfterFive, SuspendCron, SuspendMissed, vars, outside
<1>2. HourOK'
  BY DEF AfterFive, SuspendCron, SuspendMissed, vars, IInv, HourOK
<1>3. RowOK'
  BY RowDay, RowStays DEF AfterFive, vars, row, IInv
<1> QED
  BY <1>1, <1>2, <1>3 DEF IInv, OutsideOK, SeenOK, RequestsOK, OneOwner, DeliveryOK

LEMMA StepIInv == IInv /\ [Next]_vars => IInv'
<1> SUFFICES ASSUME IInv, [Next]_vars PROVE IInv'
  OBVIOUS
<1>1. ASSUME NEW r \in Deliveries, DeliveryStep(r) PROVE IInv'
  BY <1>1, StepDeliver, StepRecord, StepHandle DEF DeliveryStep
<1> QED
  BY <1>1, StepOutside, StepReconcile, StepByHand, StepTrial, StepCrash, StepHour DEF Next

-----------------------------------------------------------------------------
\* The inductive invariant holds in every reachable state, for every interleaving
\* of webhooks, reconcilers, cron jobs and crashes and every value of the constants.
THEOREM Invariance == Spec => []IInv
BY InitIInv, StepIInv, PTL DEF Spec

\* The row, the events and the requests keep their types.
THEOREM TypeCorrect == Spec => []TypeOK
<1>1. IInv => TypeOK
  BY DEF IInv, TypeOK, OutsideOK, SeenOK, RowOK, HourOK, RequestsOK, Slots, Ids
<1> QED
  BY <1>1, Invariance, PTL

\* No interleaving of deliveries and crashes handles an event twice.
THEOREM AtMostOnce == Spec => []HandledOnce
<1>1. IInv => HandledOnce
  BY DEF IInv, SeenOK, HandledOnce, Ids
<1> QED
  BY <1>1, Invariance, PTL

\* Whatever webhooks and reconciles write in between, the cron suspends only
\* a row that has been past due for the whole grace period.
THEOREM FullGrace == Spec => NeverSuspendedEarly
<1>1. IInv /\ [Next]_vars => [SuspendCron /\ sub'.status # sub.status => pastDue = GraceDays]_vars
  <2> SUFFICES ASSUME IInv, SuspendCron, sub'.status # sub.status PROVE pastDue = GraceDays
    OBVIOUS
  <2>1. sub.status = "past_due" /\ age >= GraceDays
    BY DEF SuspendCron
  <2> QED
    BY <2>1, GraceAssumption DEF IInv, RowOK
<1> QED
  BY <1>1, Invariance, PTL DEF Spec, NeverSuspendedEarly

-----------------------------------------------------------------------------
(* The refinement of EventLedger.                                          *)

LEMMA LedgerInit == Init => Ledger!Init
BY DEF Init, Ledger!Init

LEMMA LedgerSends ==
    ASSUME IInv, NEW s \in Reached, Checkout(s) \/ Change(s)
    PROVE  Ledger!Send
<1>1. PICK batch \in Seq(Event) : Send(batch) /\ Len(batch) \in {1, 2}
  BY Batches
<1>2. /\ event' = event \o batch /\ Len(event) + Len(batch) <= MaxEvents
      /\ Len(event) \in Nat
  BY <1>1 DEF Send, IInv, OutsideOK
<1>3. Len(event') = Len(event) + Len(batch)
  BY <1>2 DEF IInv, OutsideOK
<1>4. \A n \in Nat, k \in {1, 2} : n + k <= MaxEvents => n + k \in n + 1 .. MaxEvents
  BY MaxEventsAssumption
<1>5. Len(event') \in Len(event) + 1 .. MaxEvents
  BY <1>1, <1>2, <1>3, <1>4
<1> QED
  BY <1>5 DEF Ledger!Send, Checkout, Change

LEMMA LedgerDelivers ==
    ASSUME IInv, NEW r \in Deliveries, DeliveryStep(r)
    PROVE  [Ledger!Next]_(Ledger!ledger)
<1>1. CASE \E e \in 1 .. Len(event) : Deliver(r, e)
  BY <1>1 DEF Deliver, outside, Ledger!ledger
<1>2. CASE Record(r) /\ req[r].id \in seen
  BY <1>2 DEF Record, outside, Ledger!ledger
<1>3. CASE Record(r) /\ req[r].id \notin seen
  <2>1. req[r].id \in 1 .. Len(event)
    BY <1>3 DEF Record, IInv, RequestsOK, DeliveryOK, Slots
  <2>2. Ledger!Claim(req[r].id)
    BY <1>3 DEF Record, outside, Ledger!Claim
  <2> QED
    BY <2>1, <2>2 DEF Ledger!Next
<1>4. CASE Handle(r)
  <2>1. /\ req[r].id \in 1 .. Len(event)
        /\ req[r].id \in seen /\ applied[req[r].id] = 0
    BY <1>4 DEF Handle, IInv, RequestsOK, DeliveryOK, Slots
  <2>2. applied' = [applied EXCEPT ![req[r].id] = 1]
    BY <1>4, <2>1 DEF Handle
  <2>3. Ledger!Handle(req[r].id)
    BY <1>4, <2>1, <2>2 DEF Handle, outside, Ledger!Handle
  <2> QED
    BY <2>1, <2>3 DEF Ledger!Next
<1> QED
  BY <1>1, <1>2, <1>3, <1>4 DEF DeliveryStep

LEMMA LedgerStep == IInv /\ [Next]_vars => [Ledger!Next]_(Ledger!ledger)
<1> SUFFICES ASSUME IInv, [Next]_vars PROVE [Ledger!Next]_(Ledger!ledger)
  OBVIOUS
<1>1. CASE \E s \in Reached : Checkout(s) \/ Change(s)
  BY <1>1, LedgerSends DEF Ledger!Next
<1>2. CASE \E r \in Deliveries : DeliveryStep(r)
  BY <1>2, LedgerDelivers
<1>3. CASE UNCHANGED <<event, seen, applied>>
  BY <1>3 DEF Ledger!ledger
<1> QED
  BY <1>1, <1>2, <1>3 DEF Next, vars, outside, ReconcileFetch, ReconcileWrite, Crash,
     SetByHand, ExtendTrialFind, ExtendTrialWrite, AfterFive, SuspendCron, SuspendMissed

\* The webhook deliveries implement the ledger, for any number of events,
\* deliveries and crashes.
THEOREM ImplementsLedger == Spec => LedgerKept
BY LedgerInit, LedgerStep, Invariance, PTL DEF Spec, Ledger!Spec, LedgerKept
=============================================================================
