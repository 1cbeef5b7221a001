----------------------- MODULE TimesheetsHistoryProofs -----------------------
(***************************************************************************)
(* Theorems about what the handlers of the timesheet workflow have seen by *)
(* the time they write, for every number of days, any sets of requests,    *)
(* entries and amendment requests, and every interleaving.                 *)
(***************************************************************************)
EXTENDS TimesheetsProofs

-----------------------------------------------------------------------------
(* What a request has seen when it reaches a step: q is the request, S the *)
(* days it has seen, g the approval period of the project now.             *)

Sees(q, S, g) ==
    /\ q.op = "submit" /\ q.step = "earliest" => q.from = 0
    /\ q.op = "submit" /\ q.step = "walk" =>
          q.to < q.key /\ (q.to + 1 .. q.key - 1) \subseteq S
    /\ q.op = "submit" /\ q.step \in {"target", "pending", "write"} /\ q.from # 0 =>
          (q.from .. q.key - 1) \subseteq S
    /\ q.op \in {"submit", "approve", "reject"} /\ q.step \in {"pending", "write"} => q.key \in S
    /\ q.op \in LogOps /\ q.step = "sourceRow" => q.from \in S \/ q.key = PeriodStart(q.from, g)
    /\ q.op \in LogOps /\ q.step \in {"dest", "destRow", "write"} => q.from = 0 \/ q.from \in S
    /\ q.op \in LogOps /\ q.step = "destRow" => q.to \in S \/ q.key = PeriodStart(q.to, g)
    /\ q.op \in LogOps /\ q.step = "write" => q.to = 0 \/ q.to \in S

SeenOK == \A r \in Requests : Met(r) \subseteq seen[r] /\ Sees(req[r], seen[r], grain)

HIInv == AllOK /\ seen \in [Requests -> SUBSET Days] /\ SeenOK

-----------------------------------------------------------------------------
(* The history variable.                                                   *)

LEMMA IdleSees == /\ DaysOf(Idle) = {}
                  /\ \A S, g : Sees(Idle, S, g)
BY DEF DaysOf, Sees, Idle, LogOps

\* The days a request is about are days of the week.
LEMMA DaysTyped ==
    ASSUME NEW q \in Request, RequestOK(q)
    PROVE  DaysOf(q) \subseteq Days
<1>1. CASE q.op \in LogOps
  BY <1>1, NAssumption DEF DaysOf, Request, Days
<1>2. CASE q.op = "submit"
  <2>1. q.key \in 1 .. N /\ N \in Nat
    BY <1>2, NAssumption DEF RequestOK, Days
  <2>2. DaysOf(q) = 1 .. q.key
    BY <1>2 DEF DaysOf, LogOps
  <2> QED
    BY <2>1, <2>2 DEF Days
<1>3. CASE q.op \notin LogOps /\ q.op # "submit"
  BY <1>3, NAssumption DEF DaysOf, Request, Days
<1> QED
  BY <1>1, <1>2, <1>3

\* What a request in flight has seen it keeps, and adds to.
LEMMA SeenGrows ==
    ASSUME Observe, NEW r \in Requests, req'[r] # Idle
    PROVE  /\ seen[r] \subseteq seen'[r]
           /\ Met(r)' \subseteq seen'[r]
           /\ <<enabled, grain>>' # <<enabled, grain>> => DaysOf(req[r]) \subseteq seen'[r]
BY DEF Observe

LEMMA MetIsSeen ==
    ASSUME Observe, NEW r \in Requests
    PROVE  Met(r)' \subseteq seen'[r]
<1>1. CASE req'[r] = Idle
  <2>1. Met(r)' = {}
    BY <1>1, IdleSees DEF Met
  <2> QED
    BY <2>1
<1> QED
  BY <1>1, SeenGrows

LEMMA SeenTyped ==
    ASSUME AllOK, AllOK', seen \in [Requests -> SUBSET Days], Observe
    PROVE  seen' \in [Requests -> SUBSET Days]
<1>1. ASSUME NEW r \in Requests PROVE seen'[r] \in SUBSET Days
  <2>1. DaysOf(req[r]) \subseteq Days /\ DaysOf(req'[r]) \subseteq Days
    BY DaysTyped DEF AllOK, RequestsOK
  <2>2. Met(r)' \subseteq Days
    BY <2>1 DEF Met
  <2> QED
    BY <2>1, <2>2 DEF Observe
<1>2. seen' = [r \in Requests |-> seen'[r]]
  BY DEF Observe
<1> QED
  BY <1>1, <1>2

-----------------------------------------------------------------------------
(* The other requests: what they have seen outlives the step, and a change *)
(* of settings between their two reads of a lock check counts as seen.     *)

LEMMA OthersSee ==
    ASSUME HIInv, Observe, NEW r \in Requests, req'[r] = req[r]
    PROVE  Sees(req'[r], seen'[r], grain')
<1> DEFINE q == req[r]
<1>0. Sees(q, seen[r], grain) /\ q \in Request /\ RequestOK(q)
  BY DEF HIInv, SeenOK, AllOK, RequestsOK
<1>1. CASE q = Idle
  BY <1>1, IdleSees
<1>2. CASE q # Idle
  <2>1. seen[r] \subseteq seen'[r]
    BY <1>2, SeenGrows
  <2>2. CASE grain' = grain
    BY <1>0, <2>1, <2>2 DEF Sees
  <2>3. CASE grain' # grain
    <3>1. DaysOf(q) \subseteq seen'[r]
      BY <1>2, <2>3, SeenGrows
    <3>2. q.op \in LogOps => DaysOf(q) = {q.from, q.to} \ {0}
      BY DEF DaysOf, LogOps
    <3>3. q.op \in LogOps /\ q.step = "sourceRow" => q.from \in seen'[r]
      BY <1>0, <3>1, <3>2 DEF RequestOK, LogOps, Days
    <3>4. q.op \in LogOps /\ q.step = "destRow" => q.to \in seen'[r]
      BY <1>0, <3>1, <3>2 DEF RequestOK, LogOps, Days
    <3> QED
      BY <1>0, <2>1, <3>3, <3>4 DEF Sees
  <2> QED
    BY <2>2, <2>3
<1> QED
  BY <1>1, <1>2

-----------------------------------------------------------------------------
(* The request that takes the step.                                        *)

\* In flight after the step, it keeps what it had seen; what it has just
\* read was in the table in the state before the step.
LEMMA StepSees ==
    ASSUME HIInv, Observe, NEW r \in Requests, NEW q \in Request, q # Idle,
           req' = [req EXCEPT ![r] = q]
    PROVE  /\ req'[r] = q
           /\ seen[r] \subseteq seen'[r]
           /\ Sees(req[r], seen[r], grain)
           /\ req[r] \in Request /\ RequestOK(req[r])
           /\ \A d \in DaysOf(req[r]) : Meets(req[r], d) => d \in seen'[r]
<1>1. req'[r] = q
  BY DEF HIInv, AllOK, RequestsOK
<1>2. seen[r] \subseteq seen'[r]
  BY <1>1, SeenGrows
<1>3. Sees(req[r], seen[r], grain) /\ req[r] \in Request /\ RequestOK(req[r]) /\ Met(r) \subseteq seen[r]
  BY DEF HIInv, SeenOK, AllOK, RequestsOK
<1> QED
  BY <1>1, <1>2, <1>3 DEF Met

\* A request that finishes has nothing more to see.
LEMMA FinishSees ==
    ASSUME HIInv, NEW r \in Requests, Finish(r)
    PROVE  Sees(req'[r], seen'[r], grain')
<1>1. req'[r] = Idle
  BY DEF Finish, HIInv, AllOK, RequestsOK
<1> QED
  BY <1>1, IdleSees

\* The earlier periods of a submit: the walk back from the target has found
\* each one it has passed unrejected, down to the one of the earliest entry.
LEMMA SubmitSees ==
    ASSUME HIInv, Observe, NEW r \in Requests, SubmitStep(r)
    PROVE  Sees(req'[r], seen'[r], grain')
<1> DEFINE q == req[r]
<1>0. q \in Request /\ RequestOK(q) /\ req \in [Requests -> Request] /\ N \in Nat \ {0}
  BY NAssumption DEF HIInv, AllOK, RequestsOK
<1>1. ASSUME NEW d \in Days, SubmitBegin(r, d)
      PROVE  Sees(req'[r], seen'[r], grain')
  <2> DEFINE a0 == Asking("submit", "earliest")
  <2>1. a0 \in Request /\ a0.op = "submit" /\ a0.step = "earliest" /\ a0.from = 0
    BY Asks DEF Ops, Steps
  <2>2. req'[r] = [a0 EXCEPT !.key = PeriodStart(d, grain), !.grain = grain]
    BY <1>0, <1>1 DEF SubmitBegin, Begin
  <2> HIDE DEF a0
  <2>3. req'[r].op = "submit" /\ req'[r].step = "earliest" /\ req'[r].from = 0
    BY <2>1, <2>2 DEF Request
  <2> QED
    BY <2>3 DEF Sees, LogOps
<1>2. CASE SubmitEarliest(r)
  <2>1. q.op = "submit" /\ q.step = "earliest" /\ q.from = 0
    BY <1>2 DEF SubmitEarliest, At, HIInv, SeenOK, Sees
  <2>2. CASE Continue(r, "target")
    <3>1. req'[r] = [q EXCEPT !.step = "target"]
      BY <1>0, <2>2 DEF Continue
    <3> QED
      BY <1>0, <2>1, <3>1 DEF Request, Sees, LogOps
  <2>3. ASSUME NEW d \in LoggedDays,
               req' = [req EXCEPT ![r].step = "walk", ![r].from = d, ![r].to = q.key - 1]
        PROVE  Sees(req'[r], seen'[r], grain')
    <3>1. req'[r] = [q EXCEPT !.step = "walk", !.from = d, !.to = q.key - 1]
      BY <1>0, <2>3
    <3>2. q.key \in Days
      BY <1>0, <2>1 DEF RequestOK
    <3>3. req'[r].op = "submit" /\ req'[r].step = "walk" /\ req'[r].key = q.key
          /\ req'[r].to = q.key - 1
      BY <1>0, <2>1, <3>1 DEF Request
    <3>4. req'[r].to < req'[r].key /\ (req'[r].to + 1 .. req'[r].key - 1) = {}
      BY <1>0, <3>2, <3>3 DEF Days
    <3> QED
      BY <3>3, <3>4 DEF Sees, LogOps
  <2> QED
    BY <1>2, <2>2, <2>3 DEF SubmitEarliest
<1>3. CASE SubmitWalk(r)
  <2>1. q.op = "submit" /\ q.step = "walk" /\ q.key \in Days /\ q.from \in Days /\ q.to \in Days
        /\ q.to < q.key /\ (q.to + 1 .. q.key - 1) \subseteq seen[r]
    BY <1>0, <1>3 DEF SubmitWalk, At, HIInv, SeenOK, Sees, RequestOK
  <2>2. q.to \in DaysOf(q)
    BY <1>0, <2>1 DEF DaysOf, LogOps, Days
  <2>3. period[q.to].status # "REJECTED" => Meets(q, q.to)
    BY <2>1 DEF Meets
  <2>4. CASE Finish(r)
    BY <2>4, FinishSees
  <2>5. ASSUME NEW s, period[q.to].status # "REJECTED", s \in Request, s # Idle,
               req' = [req EXCEPT ![r] = s]
        PROVE  req'[r] = s /\ (q.to .. q.key - 1) \subseteq seen'[r]
    <3>1. req'[r] = s /\ seen[r] \subseteq seen'[r] /\ q.to \in seen'[r]
      BY <2>2, <2>3, <2>5, StepSees
    <3>2. \A d \in q.to .. q.key - 1 : d = q.to \/ d \in q.to + 1 .. q.key - 1
      BY <1>0, <2>1 DEF Days
    <3> QED
      BY <2>1, <3>1, <3>2
  <2>6. CASE period[q.to].status # "REJECTED" /\ q.to <= q.from /\ Continue(r, "target")
    <3> DEFINE s == [q EXCEPT !.step = "target"]
    <3>1. s \in Request /\ s.op = "submit" /\ s.step = "target" /\ s.key = q.key /\ s.from = q.from
      BY <1>0, <2>1 DEF Request, Steps
    <3>2. s # Idle /\ req' = [req EXCEPT ![r] = s]
      BY <2>6, <3>1 DEF Idle, Continue
    <3>3. req'[r] = s /\ (q.to .. q.key - 1) \subseteq seen'[r]
      BY <2>5, <2>6, <3>1, <3>2
    <3>4. (q.from .. q.key - 1) \subseteq (q.to .. q.key - 1)
      BY <1>0, <2>1, <2>6 DEF Days
    <3> HIDE DEF s
    <3> QED
      BY <3>1, <3>3, <3>4 DEF Sees, LogOps
  <2>7. CASE /\ period[q.to].status # "REJECTED"
             /\ ~(q.to <= q.from)
             /\ req' = [req EXCEPT ![r].to = q.to - 1]
    <3> DEFINE s == [q EXCEPT !.to = q.to - 1]
    <3>1. q.to - 1 \in 0 .. N
      BY <1>0, <2>1 DEF Days
    <3>2. s \in Request /\ s.op = "submit" /\ s.step = "walk" /\ s.key = q.key /\ s.to = q.to - 1
      BY <1>0, <2>1, <3>1 DEF Request
    <3>3. s # Idle /\ req' = [req EXCEPT ![r] = s]
      BY <2>7, <3>2 DEF Idle
    <3>4. req'[r] = s /\ (q.to .. q.key - 1) \subseteq seen'[r]
      BY <2>5, <2>7, <3>2, <3>3
    <3>5. s.to < s.key /\ s.to + 1 = q.to
      BY <1>0, <2>1, <3>2 DEF Days
    <3> HIDE DEF s
    <3> QED
      BY <3>2, <3>4, <3>5 DEF Sees, LogOps
  <2> QED
    BY <1>3, <2>4, <2>6, <2>7 DEF SubmitWalk
<1>4. CASE SubmitTarget(r)
  <2>1. q.op = "submit" /\ q.step = "target" /\ q.key \in Days
        /\ (q.from # 0 => (q.from .. q.key - 1) \subseteq seen[r])
    BY <1>0, <1>4 DEF SubmitTarget, At, HIInv, SeenOK, Sees, RequestOK
  <2>2. q.key \in DaysOf(q)
    BY <1>0, <2>1 DEF DaysOf, LogOps, Days
  <2>3. period[q.key].status \notin Locked => Meets(q, q.key)
    BY <2>1 DEF Meets
  <2>4. CASE Finish(r)
    BY <2>4, FinishSees
  <2>5. ASSUME NEW s \in Request, s.op = "submit", s.step \in {"pending", "write"},
               s.key = q.key, s.from = q.from, period[q.key].status \notin Locked,
               req' = [req EXCEPT ![r] = s]
        PROVE  Sees(req'[r], seen'[r], grain')
    <3>1. s # Idle
      BY <2>5 DEF Idle
    <3>2. req'[r] = s /\ seen[r] \subseteq seen'[r] /\ q.key \in seen'[r]
      BY <2>2, <2>3, <2>5, <3>1, StepSees
    <3> QED
      BY <2>1, <2>5, <3>2 DEF Sees, LogOps
  <2>6. CASE period[q.key].status = "NONE" /\ Continue(r, "write")
    <3> DEFINE s == [q EXCEPT !.step = "write"]
    <3>1. s \in Request /\ s.op = "submit" /\ s.step = "write" /\ s.key = q.key /\ s.from = q.from
      BY <1>0, <2>1 DEF Request, Steps
    <3>2. req' = [req EXCEPT ![r] = s]
      BY <2>6 DEF Continue
    <3> HIDE DEF s
    <3> QED
      BY <2>5, <2>6, <3>1, <3>2 DEF Locked
  <2>7. CASE /\ period[q.key].status \in {"DRAFT", "REJECTED", "WAIVED"}
             /\ req' = [req EXCEPT ![r].step = "pending", ![r].flag = TRUE]
    <3> DEFINE s == [q EXCEPT !.step = "pending", !.flag = TRUE]
    <3>1. s \in Request /\ s.op = "submit" /\ s.step = "pending" /\ s.key = q.key /\ s.from = q.from
      BY <1>0, <2>1 DEF Request, Steps
    <3>2. req' = [req EXCEPT ![r] = s]
      BY <2>7
    <3> HIDE DEF s
    <3> QED
      BY <2>5, <2>7, <3>1, <3>2 DEF Locked
  <2> QED
    BY <1>4, <2>4, <2>6, <2>7 DEF SubmitTarget
<1> QED
  BY <1>1, <1>2, <1>3, <1>4, FinishSees DEF SubmitStep, SubmitWrite

\* A review goes on from its status check only if it read "SUBMITTED".
LEMMA ReviewSees ==
    ASSUME HIInv, Observe, NEW r \in Requests, ReviewStep(r)
    PROVE  Sees(req'[r], seen'[r], grain')
<1> DEFINE q == req[r]
<1>0. q \in Request /\ RequestOK(q) /\ req \in [Requests -> Request]
  BY DEF HIInv, AllOK, RequestsOK
<1>1. ASSUME NEW op \in {"approve", "reject"}, NEW k \in Days, NEW note \in BOOLEAN,
             ReviewBegin(r, op, k, note)
      PROVE  Sees(req'[r], seen'[r], grain')
  <2> DEFINE a0 == Asking(op, "status")
  <2>1. a0 \in Request /\ a0.op = op /\ a0.step = "status"
    BY Asks DEF Ops, Steps
  <2>2. req'[r] = [a0 EXCEPT !.key = k, !.flag = note]
    BY <1>0, <1>1 DEF ReviewBegin, Begin
  <2> HIDE DEF a0
  <2>3. req'[r].op = op /\ req'[r].step = "status"
    BY <2>1, <2>2 DEF Request
  <2> QED
    BY <2>3 DEF Sees, LogOps
<1>2. CASE ReviewStatus(r)
  <2>1. CASE Finish(r)
    BY <2>1, FinishSees
  <2>2. CASE period[q.key].status = "SUBMITTED" /\ Continue(r, "pending")
    <3> DEFINE s == [q EXCEPT !.step = "pending"]
    <3>1. q.op \in {"approve", "reject"} /\ q.key \in Days /\ 0 \notin Days
      BY <1>0, <1>2 DEF ReviewStatus, At, RequestOK, Days
    <3>2. q.key \in DaysOf(q) /\ Meets(q, q.key)
      BY <2>2, <3>1 DEF DaysOf, LogOps, Meets
    <3>3. s \in Request /\ s.op = q.op /\ s.step = "pending" /\ s.key = q.key
      BY <1>0 DEF Request, Steps
    <3>4. s # Idle /\ req' = [req EXCEPT ![r] = s]
      BY <2>2, <3>3 DEF Idle, Continue
    <3>5. req'[r] = s /\ q.key \in seen'[r]
      BY <3>2, <3>3, <3>4, StepSees
    <3> HIDE DEF s
    <3> QED
      BY <3>1, <3>3, <3>5 DEF Sees, LogOps
  <2> QED
    BY <1>2, <2>1, <2>2 DEF ReviewStatus
<1> QED
  BY <1>1, <1>2, FinishSees DEF ReviewStep, ReviewWrite

LEMMA PendingSees ==
    ASSUME HIInv, Observe, NEW r \in Requests, PendingCheck(r)
    PROVE  Sees(req'[r], seen'[r], grain')
<1> DEFINE q == req[r]
           s == [q EXCEPT !.step = "write"]
<1>1. CASE Finish(r)
  BY <1>1, FinishSees
<1>2. CASE Continue(r, "write")
  <2>0. q \in Request
    BY DEF HIInv, AllOK, RequestsOK
  <2>1. q.op \in {"submit", "approve", "reject", "amendCreate"} /\ q.step = "pending"
    BY DEF PendingCheck, At
  <2>2. s \in Request /\ s.op = q.op /\ s.step = "write" /\ s.key = q.key /\ s.from = q.from
    BY <2>0 DEF Request, Steps
  <2>3. s # Idle /\ req' = [req EXCEPT ![r] = s]
    BY <1>2, <2>2 DEF Idle, Continue
  <2>4. req'[r] = s /\ seen[r] \subseteq seen'[r] /\ Sees(q, seen[r], grain)
    BY <2>2, <2>3, StepSees
  <2> HIDE DEF s, q
  <2> QED
    BY <2>1, <2>2, <2>4 DEF Sees, LogOps
<1> QED
  BY <1>1, <1>2 DEF PendingCheck

\* Amendment requests and changes of settings check nothing of this kind.
LEMMA AmendSees ==
    ASSUME HIInv, NEW r \in Requests, AmendStep(r)
    PROVE  Sees(req'[r], seen'[r], grain')
<1>0. req \in [Requests -> Request]
  BY DEF HIInv, AllOK, RequestsOK
<1>1. ASSUME NEW k \in Days, AmendBegin(r, k) PROVE req'[r].op = "amendCreate"
  <2> DEFINE a0 == Asking("amendCreate", "pending")
  <2>1. a0 \in Request /\ a0.op = "amendCreate"
    BY Asks DEF Ops, Steps
  <2>2. req'[r] = [a0 EXCEPT !.key = k]
    BY <1>0, <1>1 DEF AmendBegin, Begin
  <2> HIDE DEF a0
  <2> QED
    BY <2>1, <2>2 DEF Request
<1>2. ASSUME NEW op \in {"amendApprove", "amendDeny"}, NEW a \in Amendments,
             DecideBegin(r, op, a)
      PROVE  req'[r].op = op
  <2> DEFINE a0 == Asking(op, "write")
  <2>1. a0 \in Request /\ a0.op = op
    BY Asks DEF Ops, Steps
  <2>2. req'[r] = [a0 EXCEPT !.item = a]
    BY <1>0, <1>2 DEF DecideBegin, Begin
  <2> HIDE DEF a0
  <2> QED
    BY <2>1, <2>2 DEF Request
<1>3. req'[r].op \in {"amendCreate", "amendApprove", "amendDeny"} => Sees(req'[r], seen'[r], grain')
  BY DEF Sees, LogOps
<1> QED
  BY <1>1, <1>2, <1>3, FinishSees DEF AmendStep, AmendWrite, AmendApproveWrite, AmendDenyWrite

LEMMA SettingsSees ==
    ASSUME HIInv, NEW r \in Requests, SettingsStep(r)
    PROVE  Sees(req'[r], seen'[r], grain')
<1>0. req \in [Requests -> Request]
  BY DEF HIInv, AllOK, RequestsOK
<1>1. ASSUME NEW op \in {"enable", "disable", "regrain"}, NEW g \in Grains,
             SettingsBegin(r, op, g)
      PROVE  req'[r].op \in {"enable", "disable", "regrain"}
  <2> DEFINE a0 == Asking(op, "write")
             f == (op # "regrain" \/ enabled)
  <2>1. a0 \in Request /\ a0.op = op
    BY Asks DEF Ops, Steps
  <2>2. req'[r] = [a0 EXCEPT !.grain = g, !.flag = f]
    BY <1>0, <1>1 DEF SettingsBegin, Begin
  <2> HIDE DEF a0, f
  <2> QED
    BY <2>1, <2>2 DEF Request
<1>2. ASSUME NEW d \in Days, SettingsWrite(r, d)
      PROVE  req'[r].op \in {"enable", "disable", "regrain"} \/ Finish(r)
  <2>1. CASE Continue(r, "waive")
    BY <1>0, <1>2, <2>1 DEF SettingsWrite, At, Continue, Request
  <2> QED
    BY <1>2, <2>1 DEF SettingsWrite
<1>3. req'[r].op \in {"enable", "disable", "regrain"} => Sees(req'[r], seen'[r], grain')
  BY DEF Sees, LogOps
<1> QED
  BY <1>1, <1>2, <1>3, FinishSees DEF SettingsStep, Waive

\* The lock check: a day is found editable under the settings just read, or
\* under a period row whose key those settings gave; when they have changed
\* since, the day was seen at the change.
LEMMA LogSees ==
    ASSUME HIInv, Observe, NEW r \in Requests, LogStep(r)
    PROVE  Sees(req'[r], seen'[r], grain')
<1> DEFINE q == req[r]
           Found(d) == d \in Days /\ Editable(d)
<1>0. q \in Request /\ RequestOK(q) /\ req \in [Requests -> Request] /\ 0 \notin Days
      /\ Sees(q, seen[r], grain)
  BY DEF HIInv, AllOK, RequestsOK, SeenOK, Days
<1>1. ASSUME NEW d \in Days, LogCreateBegin(r, d) PROVE Sees(req'[r], seen'[r], grain')
  <2> DEFINE a0 == Asking("logCreate", "dest")
  <2>1. a0 \in Request /\ a0.op = "logCreate" /\ a0.step = "dest" /\ a0.from = 0
    BY Asks DEF Ops, LogOps, Steps
  <2>2. req'[r] = [a0 EXCEPT !.to = d]
    BY <1>0, <1>1 DEF LogCreateBegin, Begin
  <2> HIDE DEF a0
  <2>3. req'[r].op = "logCreate" /\ req'[r].step = "dest" /\ req'[r].from = 0
    BY <2>1, <2>2 DEF Request
  <2> QED
    BY <2>3 DEF Sees, LogOps
<1>2. ASSUME NEW l \in Logs, NEW d \in Days, LogUpdateBegin(r, l, d)
      PROVE  Sees(req'[r], seen'[r], grain')
  <2> DEFINE a0 == Asking("logUpdate", "source")
  <2>1. a0 \in Request /\ a0.op = "logUpdate" /\ a0.step = "source"
    BY Asks DEF Ops, LogOps, Steps
  <2>2. req'[r] = [a0 EXCEPT !.item = l, !.from = log[l].day, !.rest = log[l].rest, !.to = d]
    BY <1>0, <1>2 DEF LogUpdateBegin, Begin
  <2> HIDE DEF a0
  <2>3. req'[r].op = "logUpdate" /\ req'[r].step = "source"
    BY <2>1, <2>2 DEF Request
  <2> QED
    BY <2>3 DEF Sees, LogOps
<1>3. ASSUME NEW l \in Logs, LogRemoveBegin(r, l) PROVE Sees(req'[r], seen'[r], grain')
  <2> DEFINE a0 == Asking("logRemove", "source")
  <2>1. a0 \in Request /\ a0.op = "logRemove" /\ a0.step = "source"
    BY Asks DEF Ops, LogOps, Steps
  <2>2. req'[r] = [a0 EXCEPT !.item = l, !.from = log[l].day, !.rest = log[l].rest]
    BY <1>0, <1>3 DEF LogRemoveBegin, Begin
  <2> HIDE DEF a0
  <2>3. req'[r].op = "logRemove" /\ req'[r].step = "source"
    BY <2>1, <2>2 DEF Request
  <2> QED
    BY <2>3 DEF Sees, LogOps
\* Of the days of the request, those editable now are among the seen ones.
<1>4. ASSUME NEW s \in Steps, s # "none", Continue(r, s), q.op \in LogOps
      PROVE  /\ req'[r] = [q EXCEPT !.step = s]
             /\ seen[r] \subseteq seen'[r]
             /\ Found(q.from) => q.from \in seen'[r]
             /\ Found(q.to) => q.to \in seen'[r]
  <2> DEFINE t == [q EXCEPT !.step = s]
  <2>1. t \in Request /\ t # Idle /\ req' = [req EXCEPT ![r] = t]
    BY <1>0, <1>4 DEF Request, Idle, Continue
  <2>2. req'[r] = t /\ seen[r] \subseteq seen'[r]
        /\ \A d \in DaysOf(q) : Meets(q, d) => d \in seen'[r]
    BY <2>1, StepSees
  <2>3. DaysOf(q) = {q.from, q.to} \ {0}
    BY <1>4 DEF DaysOf, LogOps
  <2> QED
    BY <1>0, <1>4, <2>2, <2>3 DEF Meets
\* The source day is editable: the update goes on with the other day.
<1>5. ASSUME q.op \in LogOps, q.step \in {"source", "sourceRow"},
             Editable(q.from) \/ q.from \in seen[r], Continue(r, AfterSource(r))
      PROVE  Sees(req'[r], seen'[r], grain')
  <2>1. q.from \in Days
    BY <1>0, <1>5 DEF RequestOK, LogOps
  <2>2. AfterSource(r) = "dest" \/ (AfterSource(r) = "write" /\ q.to \in {0, q.from})
    BY DEF AfterSource
  <2>3. req'[r] = [q EXCEPT !.step = AfterSource(r)] /\ q.from \in seen'[r]
    BY <1>4, <1>5, <2>1, <2>2 DEF Steps
  <2>4. req'[r].op = q.op /\ req'[r].step = AfterSource(r) /\ req'[r].from = q.from
        /\ req'[r].to = q.to
    BY <1>0, <2>3 DEF Request
  <2> QED
    BY <1>5, <2>2, <2>3, <2>4 DEF Sees, LogOps
\* The day the entry goes to is editable.
<1>6. ASSUME q.op \in LogOps, q.step \in {"dest", "destRow"},
             Editable(q.to) \/ q.to \in seen[r], Continue(r, "write")
      PROVE  Sees(req'[r], seen'[r], grain')
  <2>1. q.to \in Days
    BY <1>0, <1>6 DEF RequestOK, LogOps
  <2>2. req'[r] = [q EXCEPT !.step = "write"] /\ q.to \in seen'[r] /\ seen[r] \subseteq seen'[r]
    BY <1>4, <1>6, <2>1 DEF Steps
  <2>3. req'[r].op = q.op /\ req'[r].step = "write" /\ req'[r].from = q.from /\ req'[r].to = q.to
    BY <1>0, <2>2 DEF Request
  <2>4. q.from = 0 \/ q.from \in seen[r]
    BY <1>0, <1>6 DEF Sees
  <2> QED
    BY <1>6, <2>2, <2>3, <2>4 DEF Sees, LogOps
\* The settings were read: the row to look at is that of their period.
<1>7. ASSUME NEW s \in {"sourceRow", "destRow"}, NEW d \in Days, q.op \in LogOps,
             s = "sourceRow" => d = q.from,
             s = "destRow" => d = q.to /\ q.step = "dest",
             grain' = grain, grain \in {"daily", "weekly"},
             req' = [req EXCEPT ![r].step = s, ![r].key = PeriodStart(d, grain)]
      PROVE  Sees(req'[r], seen'[r], grain')
  <2> DEFINE t == [q EXCEPT !.step = s, !.key = PeriodStart(d, grain)]
  <2>1. PeriodStart(d, grain) \in 0 .. N
    BY NAssumption DEF PeriodStart, Days
  <2>2. t \in Request /\ t.op = q.op /\ t.step = s /\ t.key = PeriodStart(d, grain)
        /\ t.from = q.from /\ t.to = q.to
    BY <1>0, <2>1 DEF Request, Steps
  <2>3. t # Idle /\ req' = [req EXCEPT ![r] = t]
    BY <1>7, <2>2 DEF Idle
  <2>4. req'[r] = t /\ seen[r] \subseteq seen'[r]
    BY <2>2, <2>3, StepSees
  <2>5. s = "destRow" => q.from = 0 \/ q.from \in seen[r]
    BY <1>0, <1>7 DEF Sees
  <2> HIDE DEF t
  <2> QED
    BY <1>7, <2>2, <2>4, <2>5 DEF Sees, LogOps
<1>8. CASE LockSettings(r)
  <2>0. grain' = grain /\ grain \in {"daily", "weekly"}
    BY <1>8 DEF LockSettings, stored, HIInv, AllOK, SettingsOK
  <2>1. CASE At(r, LogOps, "source")
    <3>1. q.op \in LogOps /\ q.step = "source" /\ q.from \in Days
      BY <1>0, <2>1 DEF At, LogOps, RequestOK
    <3>2. CASE enabled
      BY <1>7, <1>8, <2>0, <3>1, <3>2 DEF LockSettings, At
    <3>3. CASE ~enabled
      BY <1>5, <1>8, <3>1, <3>3 DEF LockSettings, At, Editable
    <3> QED
      BY <3>2, <3>3
  <2>2. CASE At(r, LogOps, "dest")
    <3>1. q.op \in LogOps /\ q.step = "dest" /\ q.to \in Days
      BY <1>0, <2>2 DEF At, LogOps, RequestOK
    <3>2. CASE enabled
      BY <1>7, <1>8, <2>0, <3>1, <3>2 DEF LockSettings, At
    <3>3. CASE ~enabled
      BY <1>6, <1>8, <3>1, <3>3 DEF LockSettings, At, Editable
    <3> QED
      BY <3>2, <3>3
  <2> QED
    BY <1>8, <2>1, <2>2 DEF LockSettings
<1>9. CASE LockRow(r)
  <2>1. CASE Finish(r)
    BY <2>1, FinishSees
  <2>2. CASE At(r, LogOps, "sourceRow") /\ ~Finish(r)
    <3>1. q.op \in LogOps /\ q.step = "sourceRow"
      BY <2>2 DEF At
    <3>2. period[q.key].status \notin Locked /\ Continue(r, AfterSource(r))
      BY <1>9, <2>2, <3>1 DEF LockRow, At
    <3>3. Editable(q.from) \/ q.from \in seen[r]
      BY <1>0, <3>1, <3>2 DEF Sees, Editable
    <3> QED
      BY <1>5, <3>1, <3>2, <3>3
  <2>3. CASE At(r, LogOps, "destRow") /\ ~Finish(r)
    <3>1. q.op \in LogOps /\ q.step = "destRow"
      BY <2>3 DEF At
    <3>2. period[q.key].status \notin Locked /\ Continue(r, "write")
      BY <1>9, <2>3, <3>1 DEF LockRow, At
    <3>3. Editable(q.to) \/ q.to \in seen[r]
      BY <1>0, <3>1, <3>2 DEF Sees, Editable
    <3> QED
      BY <1>6, <3>1, <3>2, <3>3
  <2> QED
    BY <1>9, <2>1, <2>2, <2>3 DEF LockRow
<1> QED
  BY <1>1, <1>2, <1>3, <1>8, <1>9, FinishSees DEF LogStep, LogCreateWrite, LogChangeWrite

-----------------------------------------------------------------------------
(* The invariant of the history.                                           *)

\* A step of slot r leaves the other requests as they are.
LEMMA OneMoves ==
    ASSUME req \in [Requests -> Request], NEW r \in Requests, Step(r),
           NEW t \in Requests, t # r
    PROVE  req'[t] = req[t]
<1>1. CASE SubmitStep(r)
  BY <1>1 DEF SubmitStep, SubmitBegin, SubmitEarliest, SubmitWalk, SubmitTarget, SubmitWrite,
              Begin, Continue, Finish
<1>2. CASE ReviewStep(r) \/ PendingCheck(r) \/ Crash(r)
  BY <1>2 DEF ReviewStep, ReviewBegin, ReviewStatus, ReviewWrite, PendingCheck, Crash,
              Begin, Continue, Finish
<1>3. CASE AmendStep(r)
  BY <1>3 DEF AmendStep, AmendBegin, AmendWrite, DecideBegin, AmendApproveWrite, AmendDenyWrite,
              Begin, Finish
<1>4. CASE LogStep(r)
  BY <1>4 DEF LogStep, LogCreateBegin, LogUpdateBegin, LogRemoveBegin, LockSettings, LockRow,
              LogCreateWrite, LogChangeWrite, Begin, Continue, Finish
<1>5. CASE SettingsStep(r)
  BY <1>5 DEF SettingsStep, SettingsBegin, SettingsWrite, Waive, Begin, Continue, Finish
<1> QED
  BY <1>1, <1>2, <1>3, <1>4, <1>5 DEF Step

LEMMA HInitHIInv == HInit => HIInv
<1> SUFFICES ASSUME HInit PROVE HIInv
  OBVIOUS
<1>1. AllOK
  BY InitIInv, Parts DEF HInit
<1>2. \A r \in Requests : req[r] = Idle /\ seen[r] = {}
  BY DEF HInit, Init
<1>3. SeenOK
  BY <1>2, IdleSees DEF SeenOK, Met
<1> QED
  BY <1>1, <1>3 DEF HIInv, HInit

LEMMA HStepHIInv == HIInv /\ [HNext]_hvars => HIInv'
<1> SUFFICES ASSUME HIInv, [HNext]_hvars PROVE HIInv'
  OBVIOUS
<1>1. CASE UNCHANGED hvars
  <2>1. UNCHANGED vars /\ UNCHANGED <<enabled, grain, period, req, seen>>
    BY <1>1 DEF hvars, vars, stored
  <2>2. AllOK'
    <3>1. (IInv <=> AllOK) /\ (IInv <=> AllOK)'
      BY Parts, PTL
    <3> QED
      BY <2>1, <3>1, StepIInv DEF HIInv
  <2>3. SeenOK'
    BY <2>1 DEF HIInv, SeenOK, Met, Meets, Editable
  <2> QED
    BY <2>1, <2>2, <2>3 DEF HIInv
<1>2. CASE HNext
  <2>1. Next /\ Observe
    BY <1>2 DEF HNext
  <2>2. AllOK'
    <3>1. (IInv <=> AllOK) /\ (IInv <=> AllOK)'
      BY Parts, PTL
    <3> QED
      BY <2>1, <3>1, StepIInv DEF HIInv
  <2>3. seen' \in [Requests -> SUBSET Days]
    BY <2>1, <2>2, SeenTyped DEF HIInv
  <2>4. PICK r \in Requests : Step(r)
    BY <2>1, NextIsStep
  <2>5. Sees(req'[r], seen'[r], grain')
    BY <2>1, <2>4, SubmitSees, ReviewSees, PendingSees, AmendSees, LogSees, SettingsSees,
       FinishSees DEF Step, Crash
  <2>6. \A t \in Requests : t # r => Sees(req'[t], seen'[t], grain')
    BY <2>1, <2>4, OneMoves, OthersSee DEF HIInv, AllOK, RequestsOK
  <2>7. SeenOK'
    BY <2>1, <2>5, <2>6, MetIsSeen DEF SeenOK
  <2> QED
    BY <2>2, <2>3, <2>7 DEF HIInv
<1> QED
  BY <1>1, <1>2

\* Whatever a request is about to rely on, it has seen at some moment since it
\* began: in every reachable state, for every value of the constants.
THEOREM HistoryInvariance == HSpec => []HIInv
BY HInitHIInv, HStepHIInv, PTL DEF HSpec

\* The observer adds a variable to the workflow and takes no step away.
THEOREM HistoryIsWorkflow == HSpec => Spec
<1>1. HInit => Init
  BY DEF HInit
<1>2. [HNext]_hvars => [Next]_vars
  BY DEF HNext, hvars
<1> QED
  BY <1>1, <1>2, PTL DEF HSpec, Spec

\* Every row, every request and every set of seen days keeps its type.
THEOREM HistoryTypes == HSpec => []HTypeOK
<1>1. HIInv => HTypeOK
  BY Parts DEF HIInv, HTypeOK, IInv
<1> QED
  BY <1>1, HistoryInvariance, PTL

-----------------------------------------------------------------------------
(* What was seen when something is written.                                *)

\* The step that writes a row of timesheet_periods, and the request it ends.
LEMMA PeriodWritten ==
    ASSUME HIInv, NEW r \in Requests, Step(r), NEW k \in Days, period'[k] # period[k]
    PROVE  \/ /\ Writing(r, {"submit"})
              /\ k = req[r].key /\ period'[k].status = "SUBMITTED"
           \/ /\ Writing(r, {"approve", "reject"})
              /\ k = req[r].key /\ period'[k].status \in {"APPROVED", "REJECTED"}
           \/ /\ req[r].op \notin {"submit", "approve", "reject"}
              /\ period'[k].status \in {"DRAFT", "WAIVED"}
<1>0. period \in [Days -> Row] /\ req \in [Requests -> Request]
  BY DEF HIInv, AllOK, RowsOK, RequestsOK
<1>1. CASE SubmitWrite(r)
  <2>1. Writing(r, {"submit"})
    BY <1>0, <1>1 DEF SubmitWrite, Writing, Finish
  <2>2. k = req[r].key /\ period'[k].status = "SUBMITTED"
    BY <1>0, <1>1 DEF SubmitWrite
  <2> QED
    BY <2>1, <2>2
<1>2. CASE ReviewWrite(r)
  <2>1. Writing(r, {"approve", "reject"})
    BY <1>0, <1>2 DEF ReviewWrite, Writing, Finish
  <2>2. k = req[r].key /\ period'[k].status \in {"APPROVED", "REJECTED"}
    BY <1>0, <1>2 DEF ReviewWrite
  <2> QED
    BY <2>1, <2>2
<1>3. CASE AmendApproveWrite(r)
  <2>1. req[r].op \notin {"submit", "approve", "reject"}
    BY <1>3 DEF AmendApproveWrite, At
  <2>2. period'[k].status = "DRAFT"
    BY <1>0, <1>3 DEF AmendApproveWrite
  <2> QED
    BY <2>1, <2>2
<1>4. CASE Waive(r)
  <2>1. req[r].op \notin {"submit", "approve", "reject"}
    BY <1>4 DEF Waive, At
  <2>2. period[k] \in Row
    BY <1>0
  <2>3. period'[k].status = "WAIVED"
    BY <1>4, <2>2 DEF Waive, Row
  <2> QED
    BY <2>1, <2>3
<1>5. CASE SubmitStep(r)
  BY <1>1, <1>5 DEF SubmitStep, SubmitBegin, SubmitEarliest, SubmitWalk, SubmitTarget, stored
<1>6. CASE ReviewStep(r)
  BY <1>2, <1>6 DEF ReviewStep, ReviewBegin, ReviewStatus, stored
<1>7. CASE AmendStep(r)
  BY <1>3, <1>7 DEF AmendStep, AmendBegin, AmendWrite, DecideBegin, AmendDenyWrite, stored
<1>8. CASE LogStep(r)
  BY <1>8 DEF LogStep, LogCreateBegin, LogUpdateBegin, LogRemoveBegin, LockSettings,
              LockRow, LogCreateWrite, LogChangeWrite, stored
<1>9. CASE SettingsStep(r) \/ PendingCheck(r) \/ Crash(r)
  BY <1>4, <1>9 DEF SettingsStep, SettingsBegin, SettingsWrite, PendingCheck, Crash, stored
<1> QED
  BY <1>5, <1>6, <1>7, <1>8, <1>9 DEF Step

\* A request that writes has seen the day it writes to.
LEMMA WritesSeen ==
    ASSUME HIInv, NEW r \in Requests
    PROVE  /\ Writing(r, {"submit", "approve", "reject"}) => req[r].key \in seen[r]
           /\ Writing(r, {"submit"}) /\ req[r].from # 0 =>
                 (req[r].from .. req[r].key - 1) \subseteq seen[r]
           /\ Writing(r, LogOps) => {req[r].from, req[r].to} \ {0} \subseteq seen[r]
BY DEF HIInv, SeenOK, Sees, Writing, At

\* A review never decides a period that was not submitted at any moment of it.
THEOREM ReviewsSeen == HSpec => ReviewWritesSeen
<1> DEFINE Held == \A k \in Days :
             /\ period'[k] # period[k]
             /\ period'[k].status \in {"APPROVED", "REJECTED"}
             => \E r \in Requests : Writing(r, {"approve", "reject"}) /\ k \in seen[r]
<1>1. ASSUME HIInv, NEW r \in Requests, Step(r) PROVE Held
  BY <1>1, PeriodWritten, WritesSeen DEF Writing, At
<1>2. HIInv /\ [HNext]_hvars => [Held]_hvars
  BY <1>1, NextIsStep DEF HNext
<1>3. HSpec => [][Held]_hvars
  BY <1>2, HistoryInvariance, PTL DEF HSpec
<1> QED
  BY <1>3 DEF ReviewWritesSeen

\* A submit never overrides a submission or an approval that stands for as
\* long as the request runs.
THEOREM SubmitsSeen == HSpec => SubmitWritesSeen
<1> DEFINE Held == \A k \in Days :
             /\ period'[k] # period[k]
             /\ period'[k].status = "SUBMITTED"
             => \E r \in Requests : Writing(r, {"submit"}) /\ k \in seen[r]
<1>1. ASSUME HIInv, NEW r \in Requests, Step(r) PROVE Held
  BY <1>1, PeriodWritten, WritesSeen DEF Writing, At
<1>2. HIInv /\ [HNext]_hvars => [Held]_hvars
  BY <1>1, NextIsStep DEF HNext
<1>3. HSpec => [][Held]_hvars
  BY <1>2, HistoryInvariance, PTL DEF HSpec
<1> QED
  BY <1>3 DEF SubmitWritesSeen

\* A rejection that stands for as long as a submit runs blocks every later
\* period: the walk back to the earliest entry has missed none.
THEOREM RejectionsSeen == HSpec => RejectionsAnsweredSeen
<1> DEFINE Held == \A k \in Days, r \in Requests :
             /\ period'[k] # period[k]
             /\ Writing(r, {"submit"})
             /\ req[r].from # 0
             => (req[r].from .. k - 1) \subseteq seen[r]
<1>1. ASSUME HIInv, NEW t \in Requests, Step(t) PROVE Held
  <2> SUFFICES ASSUME NEW k \in Days, NEW r \in Requests, period'[k] # period[k],
                      Writing(r, {"submit"}), req[r].from # 0
               PROVE  (req[r].from .. k - 1) \subseteq seen[r]
    OBVIOUS
  <2>1. req[r].op = "submit" /\ req'[r] # req[r]
    BY DEF Writing, At, Idle
  <2>2. r = t
    BY <1>1, <2>1, OneMoves DEF HIInv, AllOK, RequestsOK
  <2>3. k = req[r].key
    BY <1>1, <2>1, <2>2, PeriodWritten DEF Writing, At
  <2> QED
    BY <1>1, <2>3, WritesSeen
<1>2. HIInv /\ [HNext]_hvars => [Held]_hvars
  BY <1>1, NextIsStep DEF HNext
<1>3. HSpec => [][Held]_hvars
  BY <1>2, HistoryInvariance, PTL DEF HSpec
<1> QED
  BY <1>3 DEF RejectionsAnsweredSeen

\* An entry in a period that stays submitted or approved for as long as a
\* request runs is not created, changed or removed by it.
THEOREM EntriesSeen == HSpec => EntryWritesSeen
<1> DEFINE Held == \A l \in Logs :
             audit'[l] # audit[l] =>
                \E r \in Requests :
                   /\ Writing(r, LogOps)
                   /\ {log[l].day, log'[l].day} \ {0} \subseteq seen[r]
<1>1. ASSUME HIInv, NEW r \in Requests, Step(r) PROVE Held
  <2> SUFFICES ASSUME NEW l \in Logs, audit'[l] # audit[l]
               PROVE  Writing(r, LogOps) /\ {log[l].day, log'[l].day} \ {0} \subseteq seen[r]
    OBVIOUS
  <2>0. /\ log \in [Logs -> Snapshot] /\ audit \in [Logs -> Seq(Event)]
        /\ req \in [Requests -> Request] /\ RequestOK(req[r]) /\ ReplayOK(log[l], audit[l])
    BY <1>1 DEF HIInv, AllOK, RequestsOK, EntriesOK
  <2>1. CASE LogCreateWrite(r)
    <3>1. Writing(r, LogOps)
      BY <2>0, <2>1 DEF LogCreateWrite, Writing, At, Finish, LogOps
    <3>2. audit[l] = << >> /\ log'[l].day = req[r].to
      BY <2>0, <2>1 DEF LogCreateWrite, Record
    <3>3. log[l].day = 0
      BY <2>0, <3>2 DEF ReplayOK, NoEntry
    <3> QED
      BY <1>1, <3>1, <3>2, <3>3, WritesSeen
  <2>2. CASE LogChangeWrite(r)
    <3>1. Writing(r, LogOps)
      BY <2>0, <2>2 DEF LogChangeWrite, Writing, At, Finish, LogOps
    <3>2. req[r].item = l /\ log[l].day = req[r].from /\ log'[l] \in EntriesAfter(r)
      BY <2>0, <2>2 DEF LogChangeWrite, Record
    <3>3. log'[l].day = req[r].to
      BY <2>0, <2>2, <3>2 DEF EntriesAfter, NoEntry, RequestOK, LogChangeWrite, At
    <3> QED
      BY <1>1, <3>1, <3>2, <3>3, WritesSeen
  <2>3. CASE SubmitStep(r)
    BY <2>3 DEF SubmitStep, SubmitBegin, SubmitEarliest, SubmitWalk, SubmitTarget, SubmitWrite, stored
  <2>4. CASE ReviewStep(r)
    BY <2>4 DEF ReviewStep, ReviewBegin, ReviewStatus, ReviewWrite, stored
  <2>5. CASE AmendStep(r)
    BY <2>5 DEF AmendStep, AmendBegin, AmendWrite, DecideBegin, AmendApproveWrite,
                AmendDenyWrite, stored
  <2>6. CASE LogStep(r)
    BY <2>1, <2>2, <2>6 DEF LogStep, LogCreateBegin, LogUpdateBegin, LogRemoveBegin,
                            LockSettings, LockRow, stored
  <2>7. CASE SettingsStep(r) \/ PendingCheck(r) \/ Crash(r)
    BY <2>7 DEF SettingsStep, SettingsBegin, SettingsWrite, Waive, PendingCheck, Crash, stored
  <2> QED
    BY <1>1, <2>3, <2>4, <2>5, <2>6, <2>7 DEF Step
<1>2. HIInv /\ [HNext]_hvars => [Held]_hvars
  BY <1>1, NextIsStep DEF HNext
<1>3. HSpec => [][Held]_hvars
  BY <1>2, HistoryInvariance, PTL DEF HSpec
<1> QED
  BY <1>3 DEF EntryWritesSeen
=============================================================================
