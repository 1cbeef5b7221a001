-------------------------- MODULE TimesheetsProofs --------------------------
(***************************************************************************)
(* Theorems about the timesheet workflow, for every number of days, any    *)
(* sets of requests, entries and amendment requests, and every bound.      *)
(***************************************************************************)
EXTENDS TimesheetsHistory, TLAPS

-----------------------------------------------------------------------------
(* What the local variables of a request are when it reaches a step.       *)

RequestOK(q) ==
    /\ q.op \in {"submit", "approve", "reject", "amendCreate"} => q.key \in Days
    /\ q.step = "walk" => q.to \in Days /\ q.from \in Days
    /\ q.op = "reject" => q.flag = TRUE
    /\ q.op \in {"amendApprove", "amendDeny"} => q.item \in Amendments
    /\ q.op = "logCreate" => q.to \in Days /\ q.from = 0 /\ q.step \in {"dest", "destRow", "write"}
    /\ q.op = "logUpdate" =>
          q.item \in Logs /\ q.from \in Days /\ q.rest \in Rests /\ q.to \in Days
    /\ q.op = "logRemove" =>
          q.item \in Logs /\ q.from \in Days /\ q.rest \in Rests /\ q.to = 0
          /\ q.step \in {"source", "sourceRow", "write"}

\* What update and remove hold of the entry is a content its trail shows.
ReadsOK ==
    \A r \in Requests :
        req[r].op \in {"logUpdate", "logRemove"} =>
            \E j \in 1 .. Len(audit[req[r].item]) : audit[req[r].item][j].after = ReadEntry(r)

IInv ==
    /\ TypeOK
    /\ \A r \in Requests : RequestOK(req[r])
    /\ \A a \in Amendments : amendment[a].status # "NONE" => amendment[a].key \in Days
    /\ FieldsMatchStatus
    /\ OnePendingAmendment
    /\ ReadsOK
    /\ AuditReplay

LEMMA InitIInv == Init => IInv
<1> SUFFICES ASSUME Init PROVE IInv
  OBVIOUS
<1>1. TypeOK
  BY NAssumption DEF Init, TypeOK, Row, NoRow, Statuses, Amendment, Snapshot, NoEntry, Request, Idle,
                     Ops, Steps, Days
<1>2. \A r \in Requests : RequestOK(req[r])
  BY DEF Init, RequestOK, Idle
<1>3. FieldsMatchStatus
  BY DEF Init, FieldsMatchStatus, NoRow
<1>4. \A a \in Amendments : amendment[a].status = "NONE"
  BY DEF Init
<1>5. AuditReplay /\ ReadsOK
  BY DEF Init, AuditReplay, ReadsOK, Idle
<1> QED
  BY <1>1, <1>2, <1>3, <1>4, <1>5 DEF IInv, OnePendingAmendment

-----------------------------------------------------------------------------
(* Only slot r moves, to a well-formed request.                            *)

RequestsOK == req \in [Requests -> Request] /\ \A r \in Requests : RequestOK(req[r])

LEMMA Moves ==
    ASSUME RequestsOK, NEW r \in Requests, NEW q \in Request, RequestOK(q),
           req' = [req EXCEPT ![r] = q]
    PROVE  RequestsOK'
BY DEF RequestsOK

LEMMA Finishes ==
    ASSUME RequestsOK, NEW r \in Requests, Finish(r)
    PROVE  RequestsOK'
<1>1. Idle \in Request /\ RequestOK(Idle)
  BY NAssumption DEF Idle, Request, RequestOK, Ops, Steps
<1> QED
  BY <1>1, Moves DEF Finish

LEMMA Begins ==
    ASSUME RequestsOK, NEW r \in Requests, NEW q \in Request, RequestOK(q), Begin(r, q)
    PROVE  RequestsOK'
BY Moves DEF Begin

LEMMA Continues ==
    ASSUME RequestsOK, NEW r \in Requests, NEW s \in Steps \ {"walk"}, Continue(r, s),
           req[r].op \in LogOps => s = "write" \/ (s = "dest" /\ req[r].op = "logUpdate")
    PROVE  RequestsOK'
<1> DEFINE q == [req[r] EXCEPT !.step = s]
<1>1. q \in Request
  BY DEF RequestsOK, Request
<1>2. RequestOK(q)
  BY DEF RequestsOK, RequestOK, Request, LogOps
<1>3. req' = [req EXCEPT ![r] = q]
  BY DEF Continue
<1> QED
  BY <1>1, <1>2, <1>3, Moves

Step(r) ==
    SubmitStep(r) \/ ReviewStep(r) \/ PendingCheck(r) \/ AmendStep(r)
    \/ LogStep(r) \/ SettingsStep(r) \/ Crash(r)

LEMMA IdleRequest == Idle \in Request /\ RequestOK(Idle)
BY NAssumption DEF Idle, Request, RequestOK, Ops, Steps

LEMMA Asks ==
    ASSUME NEW op \in Ops, NEW step \in Steps
    PROVE  /\ Asking(op, step) \in Request
           /\ Asking(op, step).op = op
           /\ Asking(op, step).step = step
           /\ Asking(op, step).from = 0
           /\ Asking(op, step).to = 0
<1>1. Idle.from = 0 /\ Idle.to = 0
  BY DEF Idle
<1> QED
  BY <1>1, IdleRequest DEF Asking, Request

LEMMA SubmitRequests ==
    ASSUME RequestsOK, grain \in {"daily", "weekly"}, log \in [Logs -> Snapshot],
           NEW r \in Requests, SubmitStep(r)
    PROVE  RequestsOK'
<1>0. req[r] \in Request /\ RequestOK(req[r]) /\ N \in Nat \ {0}
  BY NAssumption DEF RequestsOK
<1>1. ASSUME NEW d \in Days, SubmitBegin(r, d) PROVE RequestsOK'
  <2> DEFINE a0 == Asking("submit", "earliest")
             q == [a0 EXCEPT !.key = PeriodStart(d, grain),
                                                       !.grain = grain]
  <2>1. a0 \in Request /\ a0.op = "submit" /\ a0.step = "earliest" /\ a0.from = 0 /\ a0.to = 0
    BY Asks DEF Ops, Steps
  <2> HIDE DEF a0
  <2>2. PeriodStart(d, grain) \in Days /\ Days \subseteq 0 .. N
    BY <1>0 DEF PeriodStart, Days
  <2>3. q \in Request
    BY <2>1, <2>2, <1>0 DEF Request, Ops, Steps
  <2>4. RequestOK(q)
    BY <2>1, <2>2 DEF Request, RequestOK
  <2>5. Begin(r, q)
    BY <1>1 DEF a0, SubmitBegin
  <2> HIDE DEF q
  <2> QED
    BY <2>3, <2>4, <2>5, Begins
<1>2. CASE SubmitEarliest(r)
  <2>1. CASE Continue(r, "target")
    BY <1>2, <2>1, Continues DEF SubmitEarliest, At, LogOps, Steps
  <2>2. ASSUME NEW d \in LoggedDays, req[r].key > 1,
               req' = [req EXCEPT ![r].step = "walk", ![r].from = d,
                                  ![r].to = req[r].key - 1]
        PROVE  RequestsOK'
    <3> DEFINE q == [req[r] EXCEPT !.step = "walk", !.from = d, !.to = req[r].key - 1]
    <3>1. d \in 0 .. N /\ d \in Days /\ req[r].op = "submit"
      <4>1. PICK l \in Logs : d = log[l].day /\ d # 0
        BY DEF LoggedDays
      <4>2. req[r].op = "submit"
        BY <1>2 DEF SubmitEarliest, At
      <4>3. log[l].day \in 0 .. N
        BY <1>0, <4>1 DEF Snapshot, Entry, NoEntry, Days
      <4> QED
        BY <1>0, <4>1, <4>2, <4>3 DEF Days
    <3>2. req[r].key - 1 \in Days /\ req[r].key - 1 \in 0 .. N
      BY <1>0, <2>2, <3>1 DEF Request, RequestOK, Days
    <3>3. q \in Request
      BY <1>0, <3>1, <3>2 DEF Request, Steps
    <3>4. RequestOK(q)
      BY <1>0, <3>1, <3>2 DEF Request, RequestOK
    <3>5. req' = [req EXCEPT ![r] = q]
      BY <2>2
    <3> QED
      BY <3>3, <3>4, <3>5, Moves
  <2> QED
    BY <1>2, <2>1, <2>2 DEF SubmitEarliest
<1>3. CASE SubmitWalk(r)
  <2>1. CASE Finish(r)
    BY <2>1, Finishes
  <2>2. CASE Continue(r, "target")
    BY <1>3, <2>2, Continues DEF SubmitWalk, At, LogOps, Steps
  <2>3. CASE ~(req[r].to <= req[r].from) /\ req' = [req EXCEPT ![r].to = req[r].to - 1]
    <3> DEFINE q == [req[r] EXCEPT !.to = req[r].to - 1]
    <3>1. req[r].op = "submit" /\ req[r].step = "walk"
      BY <1>3 DEF SubmitWalk, At
    <3>2. req[r].to - 1 \in Days /\ req[r].to - 1 \in 0 .. N
      BY <1>0, <2>3, <3>1 DEF RequestOK, Days
    <3>3. q \in Request
      BY <1>0, <3>2 DEF Request
    <3>4. RequestOK(q)
      BY <1>0, <3>1, <3>2 DEF Request, RequestOK
    <3>5. req' = [req EXCEPT ![r] = q]
      BY <2>3
    <3> QED
      BY <3>3, <3>4, <3>5, Moves
  <2> QED
    BY <1>3, <2>1, <2>2, <2>3 DEF SubmitWalk
<1>4. CASE SubmitTarget(r)
  <2>1. CASE Finish(r)
    BY <2>1, Finishes
  <2>2. CASE Continue(r, "write")
    BY <1>4, <2>2, Continues DEF SubmitTarget, At, LogOps, Steps
  <2>3. CASE req' = [req EXCEPT ![r].step = "pending", ![r].flag = TRUE]
    <3> DEFINE q == [req[r] EXCEPT !.step = "pending", !.flag = TRUE]
    <3>1. req[r].op = "submit"
      BY <1>4 DEF SubmitTarget, At
    <3>2. q \in Request
      BY <1>0 DEF Request, Steps
    <3>3. RequestOK(q)
      BY <1>0, <3>1 DEF Request, RequestOK
    <3>4. req' = [req EXCEPT ![r] = q]
      BY <2>3
    <3> QED
      BY <3>2, <3>3, <3>4, Moves
  <2> QED
    BY <1>4, <2>1, <2>2, <2>3 DEF SubmitTarget
<1> QED
  BY <1>1, <1>2, <1>3, <1>4, Finishes DEF SubmitStep, SubmitWrite

LEMMA ReviewRequests ==
    ASSUME RequestsOK, NEW r \in Requests, ReviewStep(r) \/ PendingCheck(r)
    PROVE  RequestsOK'
<1>1. ASSUME NEW op \in {"approve", "reject"}, NEW k \in Days, NEW note \in BOOLEAN,
             ReviewBegin(r, op, k, note)
      PROVE  RequestsOK'
  <2> DEFINE a0 == Asking(op, "status")
             q == [a0 EXCEPT !.key = k, !.flag = note]
  <2>1. a0 \in Request /\ a0.op = op /\ a0.step = "status" /\ a0.from = 0 /\ a0.to = 0
    BY Asks DEF Ops, Steps
  <2> HIDE DEF a0
  <2>2. q \in Request
    <3>1. [a0 EXCEPT !.key = k] \in Request
      BY <2>1, NAssumption DEF Request, Days
    <3> QED
      BY <3>1 DEF Request
  <2>3. RequestOK(q)
    BY <1>1, <2>1 DEF Request, RequestOK, ReviewBegin
  <2>4. Begin(r, q)
    BY <1>1 DEF a0, ReviewBegin
  <2> HIDE DEF q
  <2> QED
    BY <2>2, <2>3, <2>4, Begins
<1>2. CASE ReviewStatus(r)
  BY <1>2, Continues, Finishes DEF ReviewStatus, At, LogOps, Steps
<1>3. CASE PendingCheck(r)
  BY <1>3, Continues, Finishes DEF PendingCheck, At, LogOps, Steps
<1> QED
  BY <1>1, <1>2, <1>3, Finishes DEF ReviewStep, ReviewWrite

LEMMA AmendRequests ==
    ASSUME RequestsOK, NEW r \in Requests, AmendStep(r)
    PROVE  RequestsOK'
<1>1. ASSUME NEW k \in Days, AmendBegin(r, k) PROVE RequestsOK'
  <2> DEFINE a0 == Asking("amendCreate", "pending")
             q == [a0 EXCEPT !.key = k]
  <2>1. a0 \in Request /\ a0.op = "amendCreate" /\ a0.step = "pending" /\ a0.from = 0 /\ a0.to = 0
    BY Asks DEF Ops, Steps
  <2> HIDE DEF a0
  <2>2. q \in Request
    BY <2>1, NAssumption DEF Request, Ops, Steps, Days
  <2>3. RequestOK(q)
    BY <2>1 DEF Request, RequestOK
  <2>4. Begin(r, q)
    BY <1>1 DEF a0, AmendBegin
  <2> HIDE DEF q
  <2> QED
    BY <2>2, <2>3, <2>4, Begins
<1>2. ASSUME NEW op \in {"amendApprove", "amendDeny"}, NEW a \in Amendments,
             DecideBegin(r, op, a)
      PROVE  RequestsOK'
  <2> DEFINE a0 == Asking(op, "write")
             q == [a0 EXCEPT !.item = a]
  <2>1. a0 \in Request /\ a0.op = op /\ a0.step = "write" /\ a0.from = 0 /\ a0.to = 0
    BY Asks DEF Ops, Steps
  <2> HIDE DEF a0
  <2>2. q \in Request
    BY <2>1, NAssumption DEF Request, Ops, Steps, Days
  <2>3. RequestOK(q)
    BY <2>1 DEF Request, RequestOK
  <2>4. Begin(r, q)
    BY <1>2 DEF a0, DecideBegin
  <2> HIDE DEF q
  <2> QED
    BY <2>2, <2>3, <2>4, Begins
<1> QED
  BY <1>1, <1>2, Finishes DEF AmendStep, AmendWrite, AmendApproveWrite, AmendDenyWrite

LEMMA LogRequests ==
    ASSUME RequestsOK, log \in [Logs -> Snapshot], NEW r \in Requests, LogStep(r)
    PROVE  RequestsOK'
<1>0. req[r] \in Request /\ RequestOK(req[r]) /\ N \in Nat \ {0}
  BY NAssumption DEF RequestsOK
<1>1. ASSUME NEW d \in Days, LogCreateBegin(r, d) PROVE RequestsOK'
  <2> DEFINE a0 == Asking("logCreate", "dest")
             q == [a0 EXCEPT !.to = d]
  <2>1. a0 \in Request /\ a0.op = "logCreate" /\ a0.step = "dest" /\ a0.from = 0
    BY Asks DEF Ops, LogOps, Steps
  <2>2. Begin(r, q)
    BY <1>1 DEF LogCreateBegin
  <2> HIDE DEF a0
  <2>3. q \in Request
    BY <2>1, <1>0 DEF Request, Days
  <2>4. RequestOK(q)
    BY <2>1 DEF Request, RequestOK
  <2> HIDE DEF q
  <2> QED
    BY <2>2, <2>3, <2>4, Begins
<1>2. ASSUME NEW l \in Logs, NEW d \in Days, LogUpdateBegin(r, l, d) PROVE RequestsOK'
  <2> DEFINE a0 == Asking("logUpdate", "source")
             q == [a0 EXCEPT !.item = l, !.from = log[l].day, !.rest = log[l].rest, !.to = d]
  <2>1. a0 \in Request /\ a0.op = "logUpdate" /\ a0.step = "source"
    BY Asks DEF Ops, LogOps, Steps
  <2>2. Begin(r, q)
    BY <1>2 DEF LogUpdateBegin
  <2> HIDE DEF a0
  <2>3. log[l].day \in Days /\ log[l].day \in 0 .. N /\ log[l].rest \in Rests /\ d \in 0 .. N
    BY <1>0, <1>2 DEF LogUpdateBegin, Snapshot, Entry, Days
  <2>4. q \in Request
    BY <2>1, <2>3 DEF Request
  <2>5. RequestOK(q)
    BY <2>1, <2>3 DEF Request, RequestOK
  <2> HIDE DEF q
  <2> QED
    BY <2>2, <2>4, <2>5, Begins
<1>3. ASSUME NEW l \in Logs, LogRemoveBegin(r, l) PROVE RequestsOK'
  <2> DEFINE a0 == Asking("logRemove", "source")
             q == [a0 EXCEPT !.item = l, !.from = log[l].day, !.rest = log[l].rest]
  <2>1. a0 \in Request /\ a0.op = "logRemove" /\ a0.step = "source" /\ a0.to = 0
    BY Asks DEF Ops, LogOps, Steps
  <2>2. Begin(r, q)
    BY <1>3 DEF LogRemoveBegin
  <2> HIDE DEF a0
  <2>3. log[l].day \in Days /\ log[l].day \in 0 .. N /\ log[l].rest \in Rests
    BY <1>0, <1>3 DEF LogRemoveBegin, Snapshot, Entry, Days
  <2>4. q \in Request
    BY <2>1, <2>3 DEF Request
  <2>5. RequestOK(q)
    BY <2>1, <2>3 DEF Request, RequestOK
  <2> HIDE DEF q
  <2> QED
    BY <2>2, <2>4, <2>5, Begins
<1>4. ASSUME NEW s \in {"sourceRow", "destRow"}, NEW k \in Days,
             req[r].op \in LogOps,
             s = "sourceRow" => req[r].op # "logCreate",
             s = "destRow" => req[r].op # "logRemove",
             req' = [req EXCEPT ![r].step = s, ![r].key = k]
      PROVE  RequestsOK'
  <2> DEFINE q == [req[r] EXCEPT !.step = s, !.key = k]
  <2>0. s \in Steps /\ k \in 0 .. N
    BY <1>0 DEF Steps, Days
  <2>1. q \in Request
    BY <1>0, <2>0 DEF Request
  <2>2. RequestOK(q)
    BY <1>0, <1>4 DEF Request, RequestOK, LogOps
  <2>3. req' = [req EXCEPT ![r] = q]
    BY <1>4
  <2> QED
    BY <2>1, <2>2, <2>3, Moves
<1>5. ASSUME At(r, LogOps, "source") \/ At(r, LogOps, "sourceRow"),
             Continue(r, AfterSource(r))
      PROVE  RequestsOK'
  <2>1. CASE AfterSource(r) = "write"
    BY <1>5, <2>1, Continues DEF Steps
  <2>2. CASE AfterSource(r) = "dest" /\ req[r].op = "logUpdate"
    BY <1>5, <2>2, Continues DEF Steps
  <2>3. req[r].op = "logRemove" => AfterSource(r) = "write"
    BY <1>0 DEF RequestOK, AfterSource
  <2>4. req[r].op \in {"logRemove", "logUpdate"}
    BY <1>0, <1>5 DEF At, LogOps, RequestOK
  <2> QED
    BY <2>1, <2>2, <2>3, <2>4 DEF AfterSource
<1>6. CASE LockSettings(r)
  <2>1. CASE At(r, LogOps, "source")
    <3>1. req[r].from \in Days /\ req[r].op # "logCreate" /\ req[r].op \in LogOps
      BY <1>0, <2>1 DEF At, LogOps, RequestOK
    <3>2. PeriodStart(req[r].from, grain) \in Days
      BY <1>0, <3>1 DEF PeriodStart, Days
    <3> QED
      BY <1>4, <1>5, <1>6, <2>1, <3>1, <3>2 DEF LockSettings, At
  <2>2. CASE At(r, LogOps, "dest")
    <3>1. req[r].to \in Days /\ req[r].op # "logRemove" /\ req[r].op \in LogOps
      BY <1>0, <2>2 DEF At, LogOps, RequestOK
    <3>2. PeriodStart(req[r].to, grain) \in Days
      BY <1>0, <3>1 DEF PeriodStart, Days
    <3>3. CASE Continue(r, "write")
      BY <3>3, Continues DEF Steps
    <3> QED
      BY <1>4, <1>6, <2>2, <3>1, <3>2, <3>3 DEF LockSettings, At
  <2> QED
    BY <1>6, <2>1, <2>2 DEF LockSettings
<1>7. CASE LockRow(r)
  <2>1. CASE Finish(r)
    BY <2>1, Finishes
  <2>2. CASE Continue(r, "write")
    BY <2>2, Continues DEF Steps
  <2> QED
    BY <1>5, <1>7, <2>1, <2>2 DEF LockRow
<1> QED
  BY <1>1, <1>2, <1>3, <1>6, <1>7, Finishes DEF LogStep, LogCreateWrite, LogChangeWrite

LEMMA SettingsRequests ==
    ASSUME RequestsOK, enabled \in BOOLEAN, NEW r \in Requests, SettingsStep(r)
    PROVE  RequestsOK'
<1>1. ASSUME NEW op \in {"enable", "disable", "regrain"}, NEW g \in Grains,
             SettingsBegin(r, op, g)
      PROVE  RequestsOK'
  <2> DEFINE a0 == Asking(op, "write")
             f == (op # "regrain" \/ enabled)
             q == [a0 EXCEPT !.grain = g, !.flag = f]
  <2>1. a0 \in Request /\ a0.op = op /\ a0.step = "write"
    BY Asks DEF Ops, Steps
  <2>2. Begin(r, q)
    BY <1>1 DEF SettingsBegin
  <2>3. f \in BOOLEAN
    OBVIOUS
  <2> HIDE DEF a0, f
  <2>4. q \in Request
    <3>1. [a0 EXCEPT !.grain = g] \in Request
      BY <2>1, GrainsAssumption DEF Request
    <3> QED
      BY <2>3, <3>1 DEF Request
  <2>5. RequestOK(q)
    BY <2>1 DEF Request, RequestOK
  <2> HIDE DEF q
  <2> QED
    BY <2>2, <2>4, <2>5, Begins
<1>2. ASSUME NEW d \in Days, SettingsWrite(r, d) PROVE RequestsOK'
  BY <1>2, Continues, Finishes DEF SettingsWrite, At, LogOps, Steps
<1> QED
  BY <1>1, <1>2, Finishes DEF SettingsStep, Waive

-----------------------------------------------------------------------------
(* The rows keep their types, and a period its review fields.              *)

RowOK(row) ==
    /\ row.status \in {"NONE", "DRAFT"} => ~row.submitted /\ ~row.reviewed /\ ~row.note
    /\ row.status = "SUBMITTED" => row.submitted /\ ~row.reviewed /\ ~row.note
    /\ row.status = "APPROVED" => row.reviewed
    /\ row.status = "REJECTED" => row.reviewed /\ row.note
    /\ row.status = "WAIVED" => row.reviewed = row.note

RowsOK == period \in [Days -> Row] /\ \A k \in Days : RowOK(period[k])

LEMMA RowsMove ==
    ASSUME RowsOK, NEW k \in Days, NEW row \in Row, RowOK(row),
           period' = [period EXCEPT ![k] = row]
    PROVE  RowsOK'
BY DEF RowsOK

LEMMA RowsStay ==
    ASSUME RowsOK, UNCHANGED period
    PROVE  RowsOK'
BY DEF RowsOK

LEMMA SubmitRows ==
    ASSUME RowsOK, RequestsOK, NEW r \in Requests, SubmitWrite(r)
    PROVE  RowsOK'
<1> DEFINE k == req[r].key
           end == IF req[r].flag THEN period[k].last ELSE PeriodEnd(k, req[r].grain)
           row == [status |-> "SUBMITTED", submitted |-> TRUE, reviewed |-> FALSE,
                   note |-> FALSE, last |-> end]
<1>1. k \in Days /\ req[r] \in Request
  BY DEF RequestsOK, RequestOK, SubmitWrite, At
<1>2. end \in 0 .. N
  BY <1>1, NAssumption DEF RowsOK, Row, PeriodEnd, Days
<1>3. period' = [period EXCEPT ![k] = row] \/ UNCHANGED period
  BY DEF SubmitWrite
<1> HIDE DEF end
<1>4. row \in Row /\ RowOK(row)
  BY <1>2 DEF Row, Statuses, RowOK
<1> QED
  BY <1>1, <1>3, <1>4, RowsMove, RowsStay

LEMMA ReviewRows ==
    ASSUME RowsOK, RequestsOK, NEW r \in Requests, ReviewWrite(r)
    PROVE  RowsOK'
<1> DEFINE k == req[r].key
           sub == period[k].submitted
           end == period[k].last
           flag == req[r].flag
<1>1. k \in Days /\ req[r].op \in {"approve", "reject"} /\ flag \in BOOLEAN
      /\ (req[r].op = "reject" => flag = TRUE)
  BY DEF RequestsOK, RequestOK, Request, ReviewWrite, At
<1>2. sub \in BOOLEAN /\ end \in 0 .. N
  BY <1>1 DEF RowsOK, Row
<1>3. PICK s \in {"APPROVED", "REJECTED"} :
         /\ s = "REJECTED" => req[r].op = "reject"
         /\ period' = [period EXCEPT ![k] = [status |-> s, submitted |-> sub, reviewed |-> TRUE,
                                             note |-> flag, last |-> end]]
  BY <1>1 DEF ReviewWrite
<1> DEFINE row == [status |-> s, submitted |-> sub, reviewed |-> TRUE, note |-> flag, last |-> end]
<1> HIDE DEF sub, end, flag
<1>4. row \in Row
  BY <1>1, <1>2, <1>3 DEF Row, Statuses
<1>5. RowOK(row)
  BY <1>1, <1>2, <1>3 DEF RowOK
<1> QED
  BY <1>1, <1>3, <1>4, <1>5, RowsMove

AmendmentsOK ==
    /\ amendment \in [Amendments -> Amendment]
    /\ \A a \in Amendments : amendment[a].status # "NONE" => amendment[a].key \in Days
    /\ OnePendingAmendment

LEMMA AmendRows ==
    ASSUME RowsOK, AmendmentsOK, RequestsOK, NEW r \in Requests, AmendApproveWrite(r)
    PROVE  RowsOK'
<1> DEFINE k == amendment[req[r].item].key
           end == period[k].last
           row == [status |-> "DRAFT", submitted |-> FALSE, reviewed |-> FALSE,
                   note |-> FALSE, last |-> end]
<1>1. CASE UNCHANGED period
  BY <1>1, RowsStay
<1>2. CASE amendment[req[r].item].status = "PENDING" /\ period' = [period EXCEPT ![k] = row]
  <2>1. k \in Days
    BY <1>2 DEF AmendmentsOK, RequestsOK, RequestOK, AmendApproveWrite, At
  <2>2. end \in 0 .. N
    BY <2>1 DEF RowsOK, Row
  <2> HIDE DEF end
  <2>3. row \in Row /\ RowOK(row)
    BY <2>2 DEF Row, Statuses, RowOK
  <2> QED
    BY <1>2, <2>1, <2>3, RowsMove
<1> QED
  BY <1>1, <1>2 DEF AmendApproveWrite

LEMMA WaiveRows ==
    ASSUME RowsOK, NEW r \in Requests, Waive(r)
    PROVE  RowsOK'
<1>1. ASSUME NEW k \in Days PROVE period'[k] \in Row /\ RowOK(period'[k])
  <2>1. period[k] \in Row /\ RowOK(period[k])
    BY DEF RowsOK
  <2>2. CASE period[k].status \notin {"DRAFT", "REJECTED"}
    BY <2>1, <2>2 DEF Waive
  <2>3. CASE period[k].status \in {"DRAFT", "REJECTED"}
    <3> DEFINE row == [period[k] EXCEPT !.status = "WAIVED"]
    <3>1. period'[k] = row
      BY <2>3 DEF Waive
    <3>2. row \in Row
      BY <2>1 DEF Row, Statuses
    <3>3. RowOK(row)
      BY <2>1, <2>3 DEF Row, RowOK
    <3> QED
      BY <3>1, <3>2, <3>3
  <2> QED
    BY <2>2, <2>3
<1>2. period' = [k \in Days |-> period'[k]]
  BY DEF Waive
<1> QED
  BY <1>1, <1>2 DEF RowsOK

LEMMA StepRows ==
    ASSUME RowsOK, AmendmentsOK, RequestsOK, NEW r \in Requests, Step(r)
    PROVE  RowsOK'
<1>1. CASE SubmitWrite(r) \/ ReviewWrite(r) \/ AmendApproveWrite(r) \/ Waive(r)
  BY <1>1, SubmitRows, ReviewRows, AmendRows, WaiveRows
<1>2. CASE UNCHANGED period
  BY <1>2, RowsStay
<1>3. CASE SubmitStep(r)
  BY <1>1, <1>2, <1>3 DEF SubmitStep, SubmitBegin, SubmitEarliest, SubmitWalk, SubmitTarget, stored
<1>4. CASE ReviewStep(r)
  BY <1>1, <1>2, <1>4 DEF ReviewStep, ReviewBegin, ReviewStatus, stored
<1>5. CASE AmendStep(r)
  BY <1>1, <1>2, <1>5 DEF AmendStep, AmendBegin, AmendWrite, DecideBegin, AmendDenyWrite, stored
<1>6. CASE LogStep(r)
  BY <1>2, <1>6 DEF LogStep, LogCreateBegin, LogUpdateBegin, LogRemoveBegin, LockSettings,
                    LockRow, LogCreateWrite, LogChangeWrite, stored
<1>7. CASE SettingsStep(r)
  BY <1>1, <1>2, <1>7 DEF SettingsStep, SettingsBegin, SettingsWrite, stored
<1>8. CASE PendingCheck(r) \/ Crash(r)
  BY <1>2, <1>8 DEF PendingCheck, Crash, stored
<1> QED
  BY <1>3, <1>4, <1>5, <1>6, <1>7, <1>8 DEF Step

-----------------------------------------------------------------------------
(* Amendments: at most one is pending for a period.                        *)

LEMMA AmendmentsStay ==
    ASSUME AmendmentsOK, UNCHANGED amendment
    PROVE  AmendmentsOK'
BY DEF AmendmentsOK, OnePendingAmendment

LEMMA AmendmentOpened ==
    ASSUME AmendmentsOK, RequestsOK, NEW r \in Requests, AmendWrite(r)
    PROVE  AmendmentsOK'
<1> DEFINE k == req[r].key
           new == [status |-> "PENDING", key |-> k]
<1>1. CASE UNCHANGED amendment
  BY <1>1, AmendmentsStay
<1>2. ASSUME NEW a \in Amendments, ~HasPending(k), amendment' = [amendment EXCEPT ![a] = new]
      PROVE  AmendmentsOK'
  <2>1. k \in Days /\ AmendWrite(r)
    BY DEF RequestsOK, RequestOK, AmendWrite, At
  <2>2. new \in Amendment
    BY <2>1, NAssumption DEF Amendment, Days
  <2>3. amendment' \in [Amendments -> Amendment]
    BY <1>2, <2>2 DEF AmendmentsOK
  <2>4. ASSUME NEW b \in Amendments PROVE b # a => amendment'[b] = amendment[b] /\ amendment[b] # new
    BY <1>2 DEF AmendmentsOK, HasPending
  <2>5. amendment'[a] = new
    BY <1>2 DEF AmendmentsOK
  <2>6. OnePendingAmendment'
    BY <2>4, <2>5 DEF AmendmentsOK, OnePendingAmendment
  <2>7. \A b \in Amendments : amendment'[b].status # "NONE" => amendment'[b].key \in Days
    BY <2>1, <2>4, <2>5 DEF AmendmentsOK
  <2> QED
    BY <2>3, <2>6, <2>7 DEF AmendmentsOK
<1> QED
  BY <1>1, <1>2 DEF AmendWrite

LEMMA AmendmentDecided ==
    ASSUME AmendmentsOK, NEW a \in Amendments, NEW s \in {"APPROVED", "DENIED"},
           amendment[a].status = "PENDING",
           amendment' = [amendment EXCEPT ![a].status = s]
    PROVE  AmendmentsOK'
<1>1. amendment[a] \in Amendment
  BY DEF AmendmentsOK
<1>2. amendment' \in [Amendments -> Amendment]
  BY <1>1 DEF AmendmentsOK, Amendment
<1>3. amendment'[a].status = s /\ amendment'[a].key = amendment[a].key
  BY <1>1 DEF AmendmentsOK, Amendment
<1>4. \A b \in Amendments : b # a => amendment'[b] = amendment[b]
  BY DEF AmendmentsOK
<1>5. OnePendingAmendment'
  BY <1>3, <1>4 DEF AmendmentsOK, OnePendingAmendment
<1>6. \A b \in Amendments : amendment'[b].status # "NONE" => amendment'[b].key \in Days
  BY <1>3, <1>4 DEF AmendmentsOK
<1> QED
  BY <1>2, <1>5, <1>6 DEF AmendmentsOK

LEMMA StepAmendments ==
    ASSUME AmendmentsOK, RequestsOK, NEW r \in Requests, Step(r)
    PROVE  AmendmentsOK'
<1>1. CASE UNCHANGED amendment
  BY <1>1, AmendmentsStay
<1>2. CASE AmendWrite(r)
  BY <1>2, AmendmentOpened
<1>3. CASE AmendApproveWrite(r) \/ AmendDenyWrite(r)
  <2>1. req[r].item \in Amendments
    BY <1>3 DEF RequestsOK, RequestOK, AmendApproveWrite, AmendDenyWrite, At
  <2> QED
    BY <1>1, <1>3, <2>1, AmendmentDecided DEF AmendApproveWrite, AmendDenyWrite
<1>4. CASE SubmitStep(r)
  BY <1>1, <1>4 DEF SubmitStep, SubmitBegin, SubmitEarliest, SubmitWalk, SubmitTarget,
                    SubmitWrite, stored
<1>5. CASE ReviewStep(r)
  BY <1>1, <1>5 DEF ReviewStep, ReviewBegin, ReviewStatus, ReviewWrite, stored
<1>6. CASE AmendStep(r)
  BY <1>1, <1>2, <1>3, <1>6 DEF AmendStep, AmendBegin, DecideBegin, stored
<1>7. CASE LogStep(r)
  BY <1>1, <1>7 DEF LogStep, LogCreateBegin, LogUpdateBegin, LogRemoveBegin, LockSettings,
                    LockRow, LogCreateWrite, LogChangeWrite, stored
<1>8. CASE SettingsStep(r) \/ PendingCheck(r) \/ Crash(r)
  BY <1>1, <1>8 DEF SettingsStep, SettingsBegin, SettingsWrite, Waive, PendingCheck, Crash, stored
<1> QED
  BY <1>4, <1>5, <1>6, <1>7, <1>8 DEF Step

-----------------------------------------------------------------------------
(* Entries: each audit trail retells its entry.                            *)

\* What the trail says of an entry, and that it showed a content at some time.
Shows(events, n, entry) == \E j \in 1 .. n : events[j].after = entry

Follows(events, i) ==
    /\ events[i].after # NoEntry
    /\ events[i + 1].before.day = events[i].after.day
    /\ Shows(events, i, events[i + 1].before)

ReplayOK(entry, events) ==
    LET n == Len(events) IN
    /\ n = 0 => entry = NoEntry
    /\ n > 0 => events[1].before = NoEntry /\ events[n].after = entry
    /\ \A i \in 1 .. (n - 1) : Follows(events, i)

EntriesOK ==
    /\ log \in [Logs -> Snapshot]
    /\ audit \in [Logs -> Seq(Event)]
    /\ \A l \in Logs : ReplayOK(log[l], audit[l])

\* An entry that exists is on a day and is what its last event left.
LEMMA EntryShown ==
    ASSUME EntriesOK, NEW l \in Logs, log[l] # NoEntry
    PROVE  /\ log[l] \in Entry
           /\ Len(audit[l]) > 0
           /\ Shows(audit[l], Len(audit[l]), log[l])
<1>1. log[l] \in Entry /\ Len(audit[l]) \in Nat
  BY DEF EntriesOK, Snapshot
<1>2. Len(audit[l]) > 0 /\ audit[l][Len(audit[l])].after = log[l]
  BY <1>1 DEF EntriesOK, ReplayOK
<1> QED
  BY <1>1, <1>2 DEF Shows

\* A replay of an entry, or an empty one, takes one more event.
LEMMA ReplayGrows ==
    ASSUME NEW entry, NEW events \in Seq(Event), ReplayOK(entry, events),
           NEW before, NEW after,
           \/ events = << >> /\ before = NoEntry
           \/ /\ entry # NoEntry
              /\ before.day = entry.day
              /\ Shows(events, Len(events), before)
    PROVE  ReplayOK(after, Append(events, [before |-> before, after |-> after]))
<1> DEFINE e == [before |-> before, after |-> after]
           more == Append(events, e)
           n == Len(events)
<1>1. n \in Nat /\ Len(more) = n + 1 /\ more[n + 1] = e /\ \A i \in 1 .. n : more[i] = events[i]
  OBVIOUS
<1>2. e.before = before /\ e.after = after
  OBVIOUS
<1> HIDE DEF e, more
<1>3. CASE n = 0
  <2>1. before = NoEntry
    BY <1>3 DEF Shows
  <2> QED
    BY <1>1, <1>2, <1>3, <2>1 DEF ReplayOK
<1>4. CASE n > 0
  <2>1. /\ events[n].after = entry /\ events[1].before = NoEntry
        /\ entry # NoEntry /\ before.day = entry.day /\ Shows(events, n, before)
    BY <1>1, <1>4 DEF ReplayOK
  <2>2. ASSUME NEW i \in 1 .. n PROVE Follows(more, i)
    <3>1. CASE i = n
      BY <1>1, <1>2, <2>1, <3>1 DEF Follows, Shows
    <3>2. CASE i \in 1 .. (n - 1)
      <4>1. Follows(events, i) /\ more[i] = events[i] /\ more[i + 1] = events[i + 1]
        BY <1>1, <3>2 DEF ReplayOK
      <4>2. \A j \in 1 .. i : more[j] = events[j]
        BY <1>1
      <4> QED
        BY <4>1, <4>2 DEF Follows, Shows
    <3> QED
      BY <1>1, <3>1, <3>2
  <2>3. more[1].before = NoEntry /\ more[n + 1].after = after
    BY <1>1, <1>2, <1>4, <2>1
  <2>4. ReplayOK(after, more)
    BY <1>1, <1>4, <2>2, <2>3 DEF ReplayOK
  <2> QED
    BY <2>4 DEF more, e
<1> QED
  BY <1>1, <1>3, <1>4 DEF more, e

LEMMA EntriesStay ==
    ASSUME EntriesOK, UNCHANGED <<log, audit>>
    PROVE  EntriesOK'
BY DEF EntriesOK

LEMMA EntryRecorded ==
    ASSUME EntriesOK, NEW l \in Logs, NEW before \in Snapshot, NEW after \in Snapshot,
           Record(l, before, after),
           \/ audit[l] = << >> /\ before = NoEntry
           \/ /\ log[l] # NoEntry
              /\ before.day = log[l].day
              /\ Shows(audit[l], Len(audit[l]), before)
    PROVE  EntriesOK'
<1> DEFINE e == [before |-> before, after |-> after]
<1>1. audit[l] \in Seq(Event) /\ ReplayOK(log[l], audit[l])
  BY DEF EntriesOK
<1>2. ReplayOK(after, Append(audit[l], e))
  BY <1>1, ReplayGrows
<1>3. e \in Event
  BY DEF Event
<1> HIDE DEF e
<1>4. Append(audit[l], e) \in Seq(Event)
  BY <1>1, <1>3
<1>5. log' = [log EXCEPT ![l] = after] /\ audit' = [audit EXCEPT ![l] = Append(audit[l], e)]
  BY DEF Record, e
<1> DEFINE longer == Append(audit[l], e)
<1> HIDE DEF longer
<1> QED
  BY <1>2, <1>4, <1>5 DEF EntriesOK

\* An update or a delete that goes ahead: the row has kept the day it was read on.
LEMMA ChangeRecords ==
    ASSUME EntriesOK, RequestsOK, ReadsOK, NEW r \in Requests, LogChangeWrite(r)
    PROVE  \/ UNCHANGED <<log, audit>>
           \/ /\ req[r].item \in Logs
              /\ log[req[r].item] # NoEntry
              /\ ReadEntry(r) \in Entry
              /\ ReadEntry(r).day = log[req[r].item].day
              /\ Shows(audit[req[r].item], Len(audit[req[r].item]), ReadEntry(r))
              /\ \E after \in Snapshot : Record(req[r].item, ReadEntry(r), after)
<1> USE DEF LogChangeWrite
<1>1. req[r].op \in {"logUpdate", "logRemove"} /\ req[r].item \in Logs
      /\ req[r].from \in Days /\ req[r].rest \in Rests
      /\ (req[r].op = "logUpdate" => req[r].to \in Days)
  BY DEF RequestsOK, RequestOK, At
<1>2. ReadEntry(r) \in Entry /\ ReadEntry(r).day = req[r].from
  BY <1>1 DEF ReadEntry, Entry
<1>3. EntriesAfter(r) \subseteq Snapshot
  BY <1>1 DEF EntriesAfter, Snapshot, Entry
<1>4. Shows(audit[req[r].item], Len(audit[req[r].item]), ReadEntry(r))
  BY <1>1 DEF ReadsOK, Shows
<1>5. log[req[r].item].day = req[r].from => log[req[r].item] # NoEntry
  BY <1>1, NAssumption DEF NoEntry, Days
<1> QED
  BY <1>1, <1>2, <1>3, <1>4, <1>5

LEMMA StepEntries ==
    ASSUME EntriesOK, RequestsOK, ReadsOK, NEW r \in Requests, Step(r)
    PROVE  EntriesOK'
<1>1. CASE UNCHANGED <<log, audit>>
  BY <1>1, EntriesStay
<1>2. CASE LogCreateWrite(r)
  <2>1. req[r].to \in Days
    BY <1>2 DEF RequestsOK, RequestOK, LogCreateWrite, At
  <2>2. PICK l \in Logs, x \in Rests :
           audit[l] = << >> /\ Record(l, NoEntry, [day |-> req[r].to, rest |-> x])
    BY <1>2 DEF LogCreateWrite
  <2>3. NoEntry \in Snapshot /\ [day |-> req[r].to, rest |-> x] \in Snapshot
    BY <2>1 DEF Snapshot, Entry
  <2> QED
    BY <2>2, <2>3, EntryRecorded
<1>3. CASE LogChangeWrite(r)
  <2>1. Entry \subseteq Snapshot
    BY DEF Snapshot
  <2> QED
    BY <1>1, <1>3, <2>1, ChangeRecords, EntryRecorded
<1>4. CASE LogStep(r)
  BY <1>1, <1>2, <1>3, <1>4 DEF LogStep, LogCreateBegin, LogUpdateBegin, LogRemoveBegin,
                                LockSettings, LockRow, stored
<1>5. CASE SubmitStep(r)
  BY <1>1, <1>5 DEF SubmitStep, SubmitBegin, SubmitEarliest, SubmitWalk, SubmitTarget,
                    SubmitWrite, stored
<1>6. CASE ReviewStep(r)
  BY <1>1, <1>6 DEF ReviewStep, ReviewBegin, ReviewStatus, ReviewWrite, stored
<1>7. CASE AmendStep(r)
  BY <1>1, <1>7 DEF AmendStep, AmendBegin, AmendWrite, DecideBegin, AmendApproveWrite,
                    AmendDenyWrite, stored
<1>8. CASE SettingsStep(r) \/ PendingCheck(r) \/ Crash(r)
  BY <1>1, <1>8 DEF SettingsStep, SettingsBegin, SettingsWrite, Waive, PendingCheck, Crash, stored
<1> QED
  BY <1>4, <1>5, <1>6, <1>7, <1>8 DEF Step

-----------------------------------------------------------------------------
(* What update and remove have read stays in the trail: it only grows.     *)

LEMMA TrailGrows ==
    ASSUME EntriesOK, RequestsOK, NEW r \in Requests, Step(r)
    PROVE  \A l \in Logs : \/ audit'[l] = audit[l]
                           \/ \E e : audit'[l] = Append(audit[l], e)
<1>1. CASE UNCHANGED audit
  BY <1>1
<1>2. ASSUME NEW m \in Logs, NEW before, NEW after, Record(m, before, after)
      PROVE  \A l \in Logs : audit'[l] = audit[l] \/ \E e : audit'[l] = Append(audit[l], e)
  <2> DEFINE e1 == [before |-> before, after |-> after]
  <2>1. audit' = [audit EXCEPT ![m] = Append(audit[m], e1)] /\ audit \in [Logs -> Seq(Event)]
    BY <1>2 DEF Record, EntriesOK
  <2> HIDE DEF e1
  <2> QED
    BY <2>1
<1>3. CASE LogCreateWrite(r)
  BY <1>2, <1>3 DEF LogCreateWrite
<1>4. CASE LogChangeWrite(r)
  <2>1. req[r].item \in Logs
    BY <1>4 DEF RequestsOK, RequestOK, LogChangeWrite, At
  <2> QED
    BY <1>1, <1>2, <1>4, <2>1 DEF LogChangeWrite
<1>5. CASE LogStep(r)
  BY <1>1, <1>3, <1>4, <1>5 DEF LogStep, LogCreateBegin, LogUpdateBegin, LogRemoveBegin,
                                LockSettings, LockRow, stored
<1>6. CASE SubmitStep(r)
  BY <1>1, <1>6 DEF SubmitStep, SubmitBegin, SubmitEarliest, SubmitWalk, SubmitTarget,
                    SubmitWrite, stored
<1>7. CASE ReviewStep(r)
  BY <1>1, <1>7 DEF ReviewStep, ReviewBegin, ReviewStatus, ReviewWrite, stored
<1>8. CASE AmendStep(r)
  BY <1>1, <1>8 DEF AmendStep, AmendBegin, AmendWrite, DecideBegin, AmendApproveWrite,
                    AmendDenyWrite, stored
<1>9. CASE SettingsStep(r) \/ PendingCheck(r) \/ Crash(r)
  BY <1>1, <1>9 DEF SettingsStep, SettingsBegin, SettingsWrite, Waive, PendingCheck, Crash, stored
<1> QED
  BY <1>5, <1>6, <1>7, <1>8, <1>9 DEF Step

\* What request s holds of an entry.
SameRead(s) ==
    /\ req'[s].op = req[s].op
    /\ req'[s].item = req[s].item
    /\ req'[s].from = req[s].from
    /\ req'[s].rest = req[s].rest

Changing(q) == q.op \in {"logUpdate", "logRemove"}

\* A request that changes an entry has just read it or reads it no more.
LEMMA ReadOnce ==
    ASSUME RequestsOK, NEW r \in Requests, Step(r)
    PROVE  \A s \in Requests :
              \/ ~Changing(req'[s])
              \/ SameRead(s)
              \/ \E l \in Logs : /\ log[l] # NoEntry /\ UNCHANGED audit
                                 /\ req'[s].item = l
                                 /\ req'[s].from = log[l].day
                                 /\ req'[s].rest = log[l].rest
<1> SUFFICES ASSUME NEW s \in Requests, Changing(req'[s]), ~SameRead(s)
             PROVE  \E l \in Logs : /\ log[l] # NoEntry /\ UNCHANGED audit
                                    /\ req'[s].item = l
                                    /\ req'[s].from = log[l].day
                                    /\ req'[s].rest = log[l].rest
  OBVIOUS
<1>0. req \in [Requests -> Request] /\ req[r] \in Request
  BY DEF RequestsOK
<1>1. ASSUME NEW q, req' = [req EXCEPT ![r] = q]
      PROVE  s = r /\ req'[s] = q /\ Changing(q)
  BY <1>0, <1>1 DEF SameRead
<1>2. ~Finish(r)
  BY <1>1 DEF Finish, Changing, Idle
<1>3. ASSUME NEW step, Continue(r, step) PROVE FALSE
  BY <1>0, <1>3 DEF Continue, SameRead, Request
<1>4. ASSUME NEW op \in Ops \ {"logUpdate", "logRemove"}, NEW step \in Steps, NEW q,
             q.op = op, Begin(r, q)
      PROVE  FALSE
  BY <1>1, <1>4 DEF Begin, Changing
<1>5. CASE SubmitStep(r)
  <2>1. ASSUME NEW d \in Days, SubmitBegin(r, d) PROVE FALSE
    <3> DEFINE a0 == Asking("submit", "earliest")
               q == [a0 EXCEPT !.key = PeriodStart(d, grain), !.grain = grain]
    <3>1. a0 \in Request /\ a0.op = "submit"
      BY Asks DEF Ops, Steps
    <3>2. Begin(r, q)
      BY <2>1 DEF SubmitBegin
    <3> HIDE DEF a0
    <3>3. q.op = "submit"
      BY <3>1 DEF Request
    <3> HIDE DEF q
    <3> QED
      BY <1>1, <3>2, <3>3 DEF Begin, Changing
  <2>2. ASSUME SubmitEarliest(r) \/ SubmitWalk(r) \/ SubmitTarget(r) PROVE FALSE
    <3>1. req[r].op = "submit"
      BY <2>2 DEF SubmitEarliest, SubmitWalk, SubmitTarget, At
    <3>2. ASSUME NEW q, req' = [req EXCEPT ![r] = q], q.op = "submit" PROVE FALSE
      BY <1>1, <3>2 DEF Changing
    <3>3. ASSUME NEW d, req' = [req EXCEPT ![r].step = "walk", ![r].from = d,
                                           ![r].to = req[r].key - 1]
          PROVE  FALSE
      <4> DEFINE q == [req[r] EXCEPT !.step = "walk", !.from = d, !.to = req[r].key - 1]
      <4>1. req' = [req EXCEPT ![r] = q]
        BY <1>0, <3>3
      <4>2. q.op = "submit"
        BY <1>0, <3>1 DEF Request
      <4> HIDE DEF q
      <4> QED
        BY <3>2, <4>1, <4>2
    <3>4. ASSUME NEW k, req' = [req EXCEPT ![r].to = k] PROVE FALSE
      BY <1>0, <3>1, <3>2, <3>4 DEF Request
    <3>5. ASSUME req' = [req EXCEPT ![r].step = "pending", ![r].flag = TRUE] PROVE FALSE
      BY <1>0, <3>1, <3>2, <3>5 DEF Request
    <3>6. CASE SubmitEarliest(r)
      BY <1>3, <3>3, <3>6 DEF SubmitEarliest
    <3>7. CASE SubmitWalk(r)
      BY <1>2, <1>3, <3>4, <3>7 DEF SubmitWalk
    <3>8. CASE SubmitTarget(r)
      BY <1>2, <1>3, <3>5, <3>8 DEF SubmitTarget
    <3> QED
      BY <2>2, <3>6, <3>7, <3>8
  <2> QED
    BY <1>2, <1>5, <2>1, <2>2 DEF SubmitStep, SubmitWrite
<1>6. CASE ReviewStep(r)
  <2>1. ASSUME NEW op \in {"approve", "reject"}, NEW k \in Days, NEW note \in BOOLEAN,
               ReviewBegin(r, op, k, note)
        PROVE  FALSE
    <3> DEFINE a0 == Asking(op, "status")
               q == [a0 EXCEPT !.key = k, !.flag = note]
    <3>1. a0 \in Request /\ a0.op = op
      BY Asks DEF Ops, Steps
    <3>2. Begin(r, q)
      BY <2>1 DEF ReviewBegin
    <3> HIDE DEF a0
    <3>3. q.op = op
      BY <3>1 DEF Request
    <3> HIDE DEF q
    <3> QED
      BY <1>1, <3>2, <3>3 DEF Begin, Changing
  <2> QED
    BY <1>2, <1>3, <1>6, <2>1 DEF ReviewStep, ReviewStatus, ReviewWrite
<1>7. CASE AmendStep(r)
  <2>1. ASSUME NEW k \in Days, AmendBegin(r, k) PROVE FALSE
    <3> DEFINE a0 == Asking("amendCreate", "pending")
               q == [a0 EXCEPT !.key = k]
    <3>1. a0 \in Request /\ a0.op = "amendCreate"
      BY Asks DEF Ops, Steps
    <3>2. Begin(r, q)
      BY <2>1 DEF AmendBegin
    <3> HIDE DEF a0
    <3>3. q.op = "amendCreate"
      BY <3>1 DEF Request
    <3> HIDE DEF q
    <3> QED
      BY <1>1, <3>2, <3>3 DEF Begin, Changing
  <2>2. ASSUME NEW op \in {"amendApprove", "amendDeny"}, NEW a \in Amendments,
               DecideBegin(r, op, a)
        PROVE  FALSE
    <3> DEFINE a0 == Asking(op, "write")
               q == [a0 EXCEPT !.item = a]
    <3>1. a0 \in Request /\ a0.op = op
      BY Asks DEF Ops, Steps
    <3>2. Begin(r, q)
      BY <2>2 DEF DecideBegin
    <3> HIDE DEF a0
    <3>3. q.op = op
      BY <3>1 DEF Request
    <3> HIDE DEF q
    <3> QED
      BY <1>1, <3>2, <3>3 DEF Begin, Changing
  <2> QED
    BY <1>2, <1>7, <2>1, <2>2 DEF AmendStep, AmendWrite, AmendApproveWrite, AmendDenyWrite
<1>8. CASE SettingsStep(r)
  <2>1. ASSUME NEW op \in {"enable", "disable", "regrain"}, NEW g \in Grains,
               SettingsBegin(r, op, g)
        PROVE  FALSE
    <3> DEFINE a0 == Asking(op, "write")
               f == (op # "regrain" \/ enabled)
               q == [a0 EXCEPT !.grain = g, !.flag = f]
    <3>1. a0 \in Request /\ a0.op = op
      BY Asks DEF Ops, Steps
    <3>2. Begin(r, q)
      BY <2>1 DEF SettingsBegin
    <3> HIDE DEF a0, f
    <3>3. q.op = op
      BY <3>1 DEF Request
    <3> HIDE DEF q
    <3> QED
      BY <1>1, <3>2, <3>3 DEF Begin, Changing
  <2> QED
    BY <1>2, <1>3, <1>8, <2>1 DEF SettingsStep, SettingsWrite, Waive
<1>9. CASE LogStep(r)
  <2>1. ASSUME NEW d \in Days, LogCreateBegin(r, d) PROVE FALSE
    <3> DEFINE a0 == Asking("logCreate", "dest")
               q == [a0 EXCEPT !.to = d]
    <3>1. a0 \in Request /\ a0.op = "logCreate"
      BY Asks DEF Ops, LogOps, Steps
    <3>2. Begin(r, q)
      BY <2>1 DEF LogCreateBegin
    <3> HIDE DEF a0
    <3>3. q.op = "logCreate"
      BY <3>1 DEF Request
    <3> HIDE DEF q
    <3> QED
      BY <1>1, <3>2, <3>3 DEF Begin, Changing
  <2>2. ASSUME NEW l \in Logs, NEW q, Begin(r, q), q.item = l, q.from = log[l].day,
               q.rest = log[l].rest, log[l] # NoEntry, UNCHANGED audit
        PROVE  \E m \in Logs : /\ log[m] # NoEntry /\ UNCHANGED audit
                               /\ req'[s].item = m
                               /\ req'[s].from = log[m].day
                               /\ req'[s].rest = log[m].rest
    BY <1>1, <2>2 DEF Begin
  <2>3. ASSUME NEW l \in Logs, NEW d \in Days, LogUpdateBegin(r, l, d)
        PROVE  \E m \in Logs : /\ log[m] # NoEntry /\ UNCHANGED audit
                               /\ req'[s].item = m
                               /\ req'[s].from = log[m].day
                               /\ req'[s].rest = log[m].rest
    <3> DEFINE a0 == Asking("logUpdate", "source")
               q == [a0 EXCEPT !.item = l, !.from = log[l].day, !.rest = log[l].rest, !.to = d]
    <3>1. a0 \in Request
      BY Asks DEF Ops, LogOps, Steps
    <3>2. Begin(r, q) /\ log[l] # NoEntry /\ UNCHANGED audit
      BY <2>3 DEF LogUpdateBegin, stored
    <3> HIDE DEF a0
    <3>3. q.item = l /\ q.from = log[l].day /\ q.rest = log[l].rest
      BY <3>1 DEF Request
    <3> HIDE DEF q
    <3> QED
      BY <2>2, <3>2, <3>3
  <2>4. ASSUME NEW l \in Logs, LogRemoveBegin(r, l)
        PROVE  \E m \in Logs : /\ log[m] # NoEntry /\ UNCHANGED audit
                               /\ req'[s].item = m
                               /\ req'[s].from = log[m].day
                               /\ req'[s].rest = log[m].rest
    <3> DEFINE a0 == Asking("logRemove", "source")
               q == [a0 EXCEPT !.item = l, !.from = log[l].day, !.rest = log[l].rest]
    <3>1. a0 \in Request
      BY Asks DEF Ops, LogOps, Steps
    <3>2. Begin(r, q) /\ log[l] # NoEntry /\ UNCHANGED audit
      BY <2>4 DEF LogRemoveBegin, stored
    <3> HIDE DEF a0
    <3>3. q.item = l /\ q.from = log[l].day /\ q.rest = log[l].rest
      BY <3>1 DEF Request
    <3> HIDE DEF q
    <3> QED
      BY <2>2, <3>2, <3>3
  <2>5. ASSUME LockSettings(r) \/ LockRow(r) PROVE FALSE
    <3>1. ASSUME NEW step, NEW k, req' = [req EXCEPT ![r].step = step, ![r].key = k] PROVE FALSE
      BY <1>0, <3>1 DEF SameRead, Request
    <3> QED
      BY <1>2, <1>3, <2>5, <3>1 DEF LockSettings, LockRow
  <2> QED
    BY <1>2, <1>9, <2>1, <2>3, <2>4, <2>5 DEF LogStep, LogCreateWrite, LogChangeWrite
<1>10. CASE PendingCheck(r) \/ Crash(r)
  BY <1>2, <1>3, <1>10 DEF PendingCheck, Crash
<1> QED
  BY <1>5, <1>6, <1>7, <1>8, <1>9, <1>10 DEF Step

LEMMA StepReads ==
    ASSUME EntriesOK, RequestsOK, ReadsOK, NEW r \in Requests, Step(r)
    PROVE  ReadsOK'
<1> SUFFICES ASSUME NEW s \in Requests, Changing(req'[s])
             PROVE  Shows(audit'[req'[s].item], Len(audit'[req'[s].item]), ReadEntry(s)')
  BY DEF ReadsOK, Shows, Changing
<1>1. CASE SameRead(s)
  <2> DEFINE m == req[s].item
             trail == audit[m]
             longer == audit'[m]
  <2>1. Changing(req[s]) /\ ReadEntry(s)' = ReadEntry(s) /\ req'[s].item = m
    BY <1>1 DEF SameRead, Changing, ReadEntry
  <2>2. Shows(trail, Len(trail), ReadEntry(s))
    BY <2>1 DEF ReadsOK, Shows, Changing
  <2>3. m \in Logs
    BY <2>1 DEF RequestsOK, RequestOK, Changing
  <2>4. trail \in Seq(Event) /\ (longer = trail \/ \E e : longer = Append(trail, e))
    BY <2>3, TrailGrows DEF EntriesOK
  <2>5. Len(longer) >= Len(trail) /\ Len(longer) \in Nat /\ Len(trail) \in Nat
        /\ \A j \in 1 .. Len(trail) : longer[j] = trail[j]
    BY <2>4
  <2> HIDE DEF longer, trail, m
  <2>6. Shows(longer, Len(longer), ReadEntry(s))
    BY <2>2, <2>5 DEF Shows
  <2> QED
    BY <2>1, <2>6 DEF longer
<1>2. ASSUME NEW l \in Logs, log[l] # NoEntry, UNCHANGED audit,
             req'[s].item = l, req'[s].from = log[l].day, req'[s].rest = log[l].rest
      PROVE  Shows(audit'[req'[s].item], Len(audit'[req'[s].item]), ReadEntry(s)')
  <2>1. log[l] \in Entry /\ Shows(audit[l], Len(audit[l]), log[l])
    BY <1>2, EntryShown
  <2>2. ReadEntry(s)' = log[l]
    BY <1>2, <2>1 DEF ReadEntry, Entry
  <2> QED
    BY <1>2, <2>1, <2>2
<1> QED
  BY <1>1, <1>2, ReadOnce

-----------------------------------------------------------------------------
(* The settings keep their types.                                          *)

SettingsOK == enabled \in BOOLEAN /\ grain \in {"daily", "weekly"} /\ policy \in Days

LEMMA StepSettings ==
    ASSUME SettingsOK, RequestsOK, NEW r \in Requests, Step(r)
    PROVE  SettingsOK'
<1>1. CASE UNCHANGED <<enabled, grain, policy>>
  BY <1>1 DEF SettingsOK
<1>2. ASSUME NEW d \in Days, SettingsWrite(r, d) PROVE SettingsOK'
  <2>1. req[r].grain \in {"daily", "weekly"} /\ 1 \in Days
    BY NAssumption DEF RequestsOK, Request, Days
  <2> QED
    BY <1>2, <2>1 DEF SettingsOK, SettingsWrite
<1>3. CASE SettingsStep(r)
  BY <1>1, <1>2, <1>3 DEF SettingsStep, SettingsBegin, Waive, stored
<1>4. CASE SubmitStep(r)
  BY <1>1, <1>4 DEF SubmitStep, SubmitBegin, SubmitEarliest, SubmitWalk, SubmitTarget,
                    SubmitWrite, stored
<1>5. CASE ReviewStep(r)
  BY <1>1, <1>5 DEF ReviewStep, ReviewBegin, ReviewStatus, ReviewWrite, stored
<1>6. CASE AmendStep(r)
  BY <1>1, <1>6 DEF AmendStep, AmendBegin, AmendWrite, DecideBegin, AmendApproveWrite,
                    AmendDenyWrite, stored
<1>7. CASE LogStep(r)
  BY <1>1, <1>7 DEF LogStep, LogCreateBegin, LogUpdateBegin, LogRemoveBegin, LockSettings,
                    LockRow, LogCreateWrite, LogChangeWrite, stored
<1>8. CASE PendingCheck(r) \/ Crash(r)
  BY <1>1, <1>8 DEF PendingCheck, Crash, stored
<1> QED
  BY <1>3, <1>4, <1>5, <1>6, <1>7, <1>8 DEF Step

-----------------------------------------------------------------------------
(* The parts together.                                                     *)

AllOK == SettingsOK /\ RequestsOK /\ RowsOK /\ AmendmentsOK /\ EntriesOK /\ ReadsOK

LEMMA Parts == IInv <=> AllOK
<1>1. FieldsMatchStatus <=> \A k \in Days : RowOK(period[k])
  BY DEF FieldsMatchStatus, RowOK
<1>2. AuditReplay <=> \A l \in Logs : ReplayOK(log[l], audit[l])
  BY DEF AuditReplay, ReplayOK, Follows, Shows
<1> QED
  BY <1>1, <1>2 DEF AllOK, IInv, TypeOK, SettingsOK, RequestsOK, RowsOK, AmendmentsOK, EntriesOK

LEMMA NextIsStep == Next <=> \E r \in Requests : Step(r)
BY DEF Next, Step

LEMMA StepIInv == IInv /\ [Next]_vars => IInv'
<1>1. (IInv <=> AllOK) /\ (IInv <=> AllOK)'
  BY Parts, PTL
<1>2. SUFFICES ASSUME AllOK, [Next]_vars PROVE AllOK'
  BY <1>1
<1>3. ASSUME NEW r \in Requests, Step(r) PROVE AllOK'
  <2>1. SettingsOK' /\ RowsOK' /\ AmendmentsOK' /\ EntriesOK' /\ ReadsOK'
    BY <1>2, <1>3, StepSettings, StepRows, StepAmendments, StepEntries, StepReads DEF AllOK
  <2>2. enabled \in BOOLEAN /\ grain \in {"daily", "weekly"} /\ log \in [Logs -> Snapshot]
    BY <1>2 DEF AllOK, SettingsOK, EntriesOK
  <2>3. RequestsOK'
    BY <1>2, <1>3, <2>2, SubmitRequests, ReviewRequests, AmendRequests, LogRequests,
       SettingsRequests, Finishes DEF AllOK, Step, Crash
  <2> QED
    BY <2>1, <2>3 DEF AllOK
<1>4. CASE UNCHANGED vars
  <2>1. UNCHANGED <<enabled, grain, policy, period, amendment, log, audit, req>>
    BY <1>4 DEF vars, stored
  <2>2. RowsOK' /\ AmendmentsOK' /\ EntriesOK'
    BY <1>2, <2>1, RowsStay, AmendmentsStay, EntriesStay DEF AllOK
  <2>3. SettingsOK' /\ RequestsOK' /\ ReadsOK'
    BY <1>2, <2>1 DEF AllOK, SettingsOK, RequestsOK, ReadsOK, ReadEntry
  <2> QED
    BY <2>2, <2>3 DEF AllOK
<1>5. CASE Next
  BY <1>3, <1>5, NextIsStep
<1> QED
  BY <1>2, <1>4, <1>5

\* The inductive invariant holds in every reachable state, for every interleaving
\* of timesheet, entry and settings requests and every value of the constants.
THEOREM Invariance == Spec => []IInv
BY InitIInv, StepIInv, PTL DEF Spec

\* Every row and every request in flight keeps its type.
THEOREM TypeCorrect == Spec => []TypeOK
<1>1. IInv => TypeOK
  BY DEF IInv
<1> QED
  BY <1>1, Invariance, PTL

\* Whatever writes race on a period, its review fields agree with its status.
THEOREM FieldsMatch == Spec => []FieldsMatchStatus
<1>1. IInv => FieldsMatchStatus
  BY DEF IInv
<1> QED
  BY <1>1, Invariance, PTL

\* However many creates race, one amendment request of a period is pending.
THEOREM PendingUnique == Spec => []OnePendingAmendment
<1>1. IInv => OnePendingAmendment
  BY DEF IInv
<1> QED
  BY <1>1, Invariance, PTL

\* However updates and deletes of an entry race, its audit trail retells it:
\* the `after` snapshots end at the row as it is, and each `before` is a content
\* it had, on the day the preceding event left it on.
THEOREM AuditTrail == Spec => []AuditReplay
<1>1. IInv => AuditReplay
  BY DEF IInv
<1> QED
  BY <1>1, Invariance, PTL

-----------------------------------------------------------------------------
(* What a step may never do.                                               *)

\* Racing decisions of one amendment request: the first one stands.
THEOREM FirstDecisionStands == Spec => DecisionsFinal
<1> DEFINE Kept == \A a \in Amendments :
             amendment[a].status \in {"APPROVED", "DENIED"} => amendment'[a] = amendment[a]
<1>1. ASSUME AllOK, NEW r \in Requests, Step(r) PROVE Kept
  <2>1. CASE UNCHANGED amendment
    BY <2>1
  <2>2. CASE AmendWrite(r) \/ AmendApproveWrite(r) \/ AmendDenyWrite(r)
    <3>1. \/ UNCHANGED amendment
          \/ \E a \in Amendments : /\ amendment[a].status \in {"NONE", "PENDING"}
                                   /\ \E row : amendment' = [amendment EXCEPT ![a] = row]
      <4>1. CASE AmendWrite(r)
        BY <4>1 DEF AmendWrite
      <4>2. CASE AmendApproveWrite(r) \/ AmendDenyWrite(r)
        <5> DEFINE decided(s) == [amendment[req[r].item] EXCEPT !.status = s]
        <5>1. req[r].item \in Amendments
          BY <1>1, <4>2 DEF AllOK, RequestsOK, RequestOK, AmendApproveWrite, AmendDenyWrite, At
        <5>2. \/ UNCHANGED amendment
              \/ /\ amendment[req[r].item].status = "PENDING"
                 /\ \E s \in {"APPROVED", "DENIED"} :
                       amendment' = [amendment EXCEPT ![req[r].item] = decided(s)]
          BY <4>2 DEF AmendApproveWrite, AmendDenyWrite
        <5> HIDE DEF decided
        <5> QED
          BY <5>1, <5>2
      <4> QED
        BY <2>2, <4>1, <4>2
    <3>2. amendment \in [Amendments -> Amendment]
      BY <1>1 DEF AllOK, AmendmentsOK
    <3> QED
      BY <2>1, <3>1, <3>2
  <2>3. CASE SubmitStep(r)
    BY <2>1, <2>3 DEF SubmitStep, SubmitBegin, SubmitEarliest, SubmitWalk, SubmitTarget,
                      SubmitWrite, stored
  <2>4. CASE ReviewStep(r)
    BY <2>1, <2>4 DEF ReviewStep, ReviewBegin, ReviewStatus, ReviewWrite, stored
  <2>5. CASE AmendStep(r)
    BY <2>1, <2>2, <2>5 DEF AmendStep, AmendBegin, DecideBegin, stored
  <2>6. CASE LogStep(r)
    BY <2>1, <2>6 DEF LogStep, LogCreateBegin, LogUpdateBegin, LogRemoveBegin, LockSettings,
                      LockRow, LogCreateWrite, LogChangeWrite, stored
  <2>7. CASE SettingsStep(r) \/ PendingCheck(r) \/ Crash(r)
    BY <2>1, <2>7 DEF SettingsStep, SettingsBegin, SettingsWrite, Waive, PendingCheck, Crash, stored
  <2> QED
    BY <1>1, <2>3, <2>4, <2>5, <2>6, <2>7 DEF Step
<1>2. IInv /\ [Next]_vars => [Kept]_vars
  BY <1>1, Parts, NextIsStep
<1>3. Spec => [][Kept]_vars
  BY <1>2, Invariance, PTL DEF Spec
<1> QED
  BY <1>3 DEF DecisionsFinal

\* Only a rejection or an approved amendment request reopens a locked period.
THEOREM UnlockedByDecision == Spec => UnlockOnlyByDecision
<1> DEFINE Reopened(k) ==
             \/ period'[k].status = "REJECTED" /\ period'[k].reviewed
             \/ /\ period'[k].status = "DRAFT"
                /\ \E a \in Amendments :
                      /\ amendment[a] = [status |-> "PENDING", key |-> k]
                      /\ amendment'[a].status = "APPROVED"
           Held == \A k \in Days :
             period[k].status \in Locked /\ period'[k].status \notin Locked => Reopened(k)
<1>1. ASSUME AllOK, NEW r \in Requests, Step(r) PROVE Held
  <2>0. period \in [Days -> Row] /\ amendment \in [Amendments -> Amendment]
    BY <1>1 DEF AllOK, RowsOK, AmendmentsOK
  <2>1. CASE UNCHANGED period
    BY <2>1
  <2>2. CASE SubmitWrite(r)
    BY <2>0, <2>2 DEF SubmitWrite, Locked
  <2>3. CASE ReviewWrite(r)
    <3>1. ASSUME NEW k \in Days, period'[k] # period[k]
          PROVE  period'[k].status \in {"APPROVED", "REJECTED"} /\ period'[k].reviewed
      BY <2>0, <2>3, <3>1 DEF ReviewWrite
    <3> QED
      BY <3>1 DEF Locked
  <2>4. CASE AmendApproveWrite(r)
    <3> DEFINE a == req[r].item
               key == amendment[a].key
    <3>1. a \in Amendments
      BY <1>1, <2>4 DEF AllOK, RequestsOK, RequestOK, AmendApproveWrite, At
    <3>2. CASE amendment[a].status = "PENDING"
      <4>1. amendment[a] = [status |-> "PENDING", key |-> key]
        BY <2>0, <3>1, <3>2 DEF Amendment
      <4>2. amendment'[a].status = "APPROVED"
        BY <2>0, <2>4, <3>1, <3>2 DEF AmendApproveWrite, Amendment
      <4>3. ASSUME NEW k \in Days, period'[k] # period[k]
            PROVE  k = key /\ period'[k].status = "DRAFT"
        BY <2>0, <2>4, <3>2, <4>3 DEF AmendApproveWrite
      <4> QED
        BY <3>1, <4>1, <4>2, <4>3
    <3> QED
      BY <2>1, <2>4, <3>2 DEF AmendApproveWrite
  <2>5. CASE Waive(r)
    BY <2>0, <2>5 DEF Waive, Locked
  <2>6. CASE SubmitStep(r)
    BY <2>1, <2>2, <2>6 DEF SubmitStep, SubmitBegin, SubmitEarliest, SubmitWalk, SubmitTarget, stored
  <2>7. CASE ReviewStep(r)
    BY <2>1, <2>3, <2>7 DEF ReviewStep, ReviewBegin, ReviewStatus, stored
  <2>8. CASE AmendStep(r)
    BY <2>1, <2>4, <2>8 DEF AmendStep, AmendBegin, AmendWrite, DecideBegin, AmendDenyWrite, stored
  <2>9. CASE LogStep(r)
    BY <2>1, <2>9 DEF LogStep, LogCreateBegin, LogUpdateBegin, LogRemoveBegin, LockSettings,
                      LockRow, LogCreateWrite, LogChangeWrite, stored
  <2>10. CASE SettingsStep(r) \/ PendingCheck(r) \/ Crash(r)
    BY <2>1, <2>5, <2>10 DEF SettingsStep, SettingsBegin, SettingsWrite, PendingCheck, Crash, stored
  <2> QED
    BY <1>1, <2>6, <2>7, <2>8, <2>9, <2>10 DEF Step
<1>2. IInv /\ [Next]_vars => [Held]_vars
  BY <1>1, Parts, NextIsStep
<1>3. Spec => [][Held]_vars
  BY <1>2, Invariance, PTL DEF Spec
<1> QED
  BY <1>3 DEF UnlockOnlyByDecision
=============================================================================
