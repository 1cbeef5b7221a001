----------------------------- MODULE TimerProofs -----------------------------
(***************************************************************************)
(* A timer never tracks more than the time since it was started, for any   *)
(* workspaces, requests, tickers, ceiling and horizon.                     *)
(***************************************************************************)
EXTENDS Timer, TLAPS

Slots == Requests \cup Workers

\* A value of the key, and the value a request is about to set, tracks no
\* more than the time from its start to the moment at.
TimerOK(t, at) ==
    t.active =>
        IF t.isPaused THEN t.begun + t.accumulated <= at
                      ELSE t.begun + t.accumulated <= t.startedAt /\ t.startedAt <= at

RequestOK(q, at) ==
    /\ q.op \notin {"none", "manual"} => q.ws \in Workspaces
    /\ q.step = "set" => TimerOK(q.timer, at)
    /\ q.op = "stop" => q.timer.begun <= q.from
    /\ q.op \in {"stop", "manual"} => q.from <= q.to
    /\ q.op = "autoStop" => q.timer.begun + Cap <= at

ClockOK == now \in Times
TimersOK == timer \in [Workspaces -> TimerState] /\ \A w \in Workspaces : TimerOK(timer[w], now)
FlagsOK == stopped \in [Workspaces -> BOOLEAN]
LogsOK ==
    /\ DOMAIN logs \subseteq Entry
    /\ \A e \in DOMAIN logs : logs[e] \in 1 .. Copies /\ e.begun <= e.start /\ e.start <= e.end
RequestsOK == req \in [Slots -> Request] /\ \A r \in Slots : RequestOK(req[r], now)

IInv == ClockOK /\ TimersOK /\ FlagsOK /\ LogsOK /\ RequestsOK

-----------------------------------------------------------------------------
LEMMA NoTimerOK == NoTimer \in TimerState /\ ~NoTimer.active /\ NoTimer.begun = 0
BY HorizonAssumption DEF NoTimer, TimerState, Times

LEMMA IdleOK == Idle \in Request /\ \A at \in Times : RequestOK(Idle, at)
BY NoTimerOK, HorizonAssumption DEF Idle, Request, RequestOK, TimerOK, Ops, Steps, Times

LEMMA InitIInv == Init => IInv
<1> SUFFICES ASSUME Init PROVE IInv
  OBVIOUS
<1>1. ClockOK /\ FlagsOK /\ LogsOK
  BY HorizonAssumption DEF Init, ClockOK, FlagsOK, LogsOK, Times
<1>2. TimersOK
  BY NoTimerOK DEF Init, TimersOK, TimerOK
<1>3. RequestsOK
  BY <1>1, IdleOK DEF Init, RequestsOK, Slots, ClockOK
<1> QED
  BY <1>1, <1>2, <1>3 DEF IInv

-----------------------------------------------------------------------------
(* The requests.                                                           *)

LEMMA Moves ==
    ASSUME RequestsOK, NEW r \in Slots, NEW q \in Request, RequestOK(q, now),
           req' = [req EXCEPT ![r] = q], now' = now
    PROVE  RequestsOK'
BY DEF RequestsOK

LEMMA Finishes ==
    ASSUME ClockOK, RequestsOK, NEW r \in Slots, Finish(r), now' = now
    PROVE  RequestsOK'
BY IdleOK, Moves DEF Finish, ClockOK

LEMMA Continues ==
    ASSUME RequestsOK, NEW r \in Slots, NEW s \in Steps \ {"set"}, Continue(r, s), now' = now
    PROVE  RequestsOK'
<1> DEFINE q == [req[r] EXCEPT !.step = s]
<1>1. q \in Request
  BY DEF RequestsOK, Request
<1>2. RequestOK(q, now)
  BY DEF RequestsOK, RequestOK, Request
<1>3. req' = [req EXCEPT ![r] = q]
  BY DEF Continue
<1> QED
  BY <1>1, <1>2, <1>3, Moves

LEMMA RequestsStay ==
    ASSUME RequestsOK, UNCHANGED <<req, now>>
    PROVE  RequestsOK'
BY DEF RequestsOK

\* A request that asks for workspace w and carries the timer t.
LEMMA Asks ==
    ASSUME NEW op \in Ops, NEW step \in Steps, NEW w \in Workspaces, NEW t \in TimerState
    PROVE  /\ Asking(op, step, w, t) \in Request
           /\ Asking(op, step, w, t).op = op
           /\ Asking(op, step, w, t).step = step
           /\ Asking(op, step, w, t).ws = w
           /\ Asking(op, step, w, t).timer = t
<1>1. Idle \in Request
  BY IdleOK
<1> QED
  BY <1>1 DEF Asking, Request

\* The first command of a request that carries no entry.
LEMMA Opens ==
    ASSUME RequestsOK, NEW r \in Slots, NEW op \in Ops \ {"stop", "manual"}, NEW step \in Steps,
           NEW w \in Workspaces, NEW t \in TimerState, now' = now,
           step = "set" => TimerOK(t, now),
           op = "autoStop" => t.begun + Cap <= now,
           Begin(r, Asking(op, step, w, t))
    PROVE  RequestsOK'
<1> DEFINE q == Asking(op, step, w, t)
<1>1. q \in Request /\ q.op = op /\ q.step = step /\ q.ws = w /\ q.timer = t
  BY Asks
<1>2. Begin(r, q)
  OBVIOUS
<1> HIDE DEF q
<1>3. RequestOK(q, now)
  BY <1>1 DEF RequestOK
<1> QED
  BY <1>1, <1>2, <1>3, Moves DEF Begin

-----------------------------------------------------------------------------
(* The time a timer shows.                                                 *)

LEMMA ElapsedOK ==
    ASSUME ClockOK, TimersOK, NEW w \in Workspaces, timer[w].active
    PROVE  /\ timer[w] \in TimerState /\ TimerOK(timer[w], now)
           /\ Elapsed(timer[w]) \in Times
           /\ timer[w].begun + Elapsed(timer[w]) <= now
<1>1. timer[w] \in TimerState /\ TimerOK(timer[w], now)
  BY DEF TimersOK
<1> DEFINE b == timer[w].begun
           a == timer[w].accumulated
           s == timer[w].startedAt
<1>2. b \in Times /\ a \in Times /\ s \in Times /\ now \in Times
  BY <1>1 DEF TimerState, ClockOK
<1>3. CASE timer[w].isPaused
  <2>1. Elapsed(timer[w]) = a /\ b + a <= now
    BY <1>1, <1>3 DEF Elapsed, TimerOK
  <2> QED
    BY <1>1, <1>2, <2>1
<1>4. CASE ~timer[w].isPaused
  <2>1. Elapsed(timer[w]) = a + (now - s) /\ b + a <= s /\ s <= now
    BY <1>1, <1>4 DEF Elapsed, TimerOK
  <2> HIDE DEF a, b, s
  <2>2. a + (now - s) \in Times /\ b + (a + (now - s)) <= now
    BY <1>2, <2>1, HorizonAssumption DEF Times
  <2> QED
    BY <1>1, <2>1, <2>2 DEF b
<1> QED
  BY <1>3, <1>4

LEMMA StartRequests ==
    ASSUME ClockOK, RequestsOK, NEW r \in Slots, StartOverlap(r)
    PROVE  RequestsOK'
<1>1. CASE Finish(r)
  BY <1>1, Finishes DEF StartOverlap
<1> DEFINE t == [NoTimer EXCEPT !.active = TRUE, !.begun = now, !.startedAt = now]
           q == [req[r] EXCEPT !.step = "set", !.timer = t]
<1>2. CASE req' = [req EXCEPT ![r].step = "set", ![r].timer = t]
  <2>1. req[r] \in Request /\ RequestOK(req[r], now) /\ req[r].op = "start"
    BY DEF RequestsOK, StartOverlap, At
  <2>2. t \in TimerState
    BY NoTimerOK DEF TimerState, ClockOK
  <2>3. t.begun = now /\ t.startedAt = now /\ t.accumulated = 0
    BY DEF NoTimer
  <2>4. TimerOK(t, now)
    BY <2>3, HorizonAssumption DEF TimerOK, NoTimer, ClockOK, Times
  <2> HIDE DEF t
  <2>5. q \in Request
    BY <2>1, <2>2 DEF Request, Steps
  <2>6. RequestOK(q, now)
    BY <2>1, <2>4 DEF Request, RequestOK
  <2>7. req' = [req EXCEPT ![r] = q]
    BY <1>2
  <2> QED
    BY <2>5, <2>6, <2>7, Moves DEF StartOverlap
<1> QED
  BY <1>1, <1>2 DEF StartOverlap

LEMMA StopRequests ==
    ASSUME ClockOK, TimersOK, RequestsOK, NEW r \in Slots, NEW w \in Workspaces, StopBegin(r, w)
    PROVE  RequestsOK'
<1> DEFINE t == [NoTimer EXCEPT !.begun = timer[w].begun]
           a0 == Asking("stop", "overlap", w, t)
           from == now - Elapsed(timer[w])
           q == [a0 EXCEPT !.from = from, !.to = now]
<1>1. timer[w] \in TimerState /\ Elapsed(timer[w]) \in Times
      /\ timer[w].begun + Elapsed(timer[w]) <= now /\ timer[w].begun \in Times
  BY ElapsedOK DEF StopBegin, TimerState
<1>2. t \in TimerState /\ t.begun = timer[w].begun
  BY <1>1, NoTimerOK DEF TimerState
<1>3. from \in Times /\ timer[w].begun <= from /\ from <= now
  BY <1>1, HorizonAssumption DEF ClockOK, Times
<1>4. Begin(r, q)
  BY DEF StopBegin
<1> HIDE DEF t, from
<1>5. a0 \in Request /\ a0.op = "stop" /\ a0.step = "overlap" /\ a0.ws = w /\ a0.timer = t
  BY <1>2, Asks DEF Ops, Steps
<1> HIDE DEF a0
<1>6. q \in Request
  BY <1>3, <1>5 DEF Request, ClockOK
<1>7. RequestOK(q, now)
  BY <1>2, <1>3, <1>5 DEF Request, RequestOK
<1> HIDE DEF q
<1> QED
  BY <1>4, <1>6, <1>7, Moves DEF Begin, StopBegin

LEMMA PauseRequests ==
    ASSUME ClockOK, TimersOK, RequestsOK, NEW r \in Slots, NEW w \in Workspaces,
           PauseBegin(r, w) \/ ResumeBegin(r, w)
    PROVE  RequestsOK'
<1>1. timer[w] \in TimerState /\ TimerOK(timer[w], now) /\ Elapsed(timer[w]) \in Times
      /\ timer[w].begun + Elapsed(timer[w]) <= now /\ timer[w].active
  BY ElapsedOK DEF PauseBegin, ResumeBegin
<1>2. CASE PauseBegin(r, w)
  <2> DEFINE t == [timer[w] EXCEPT !.accumulated = Elapsed(timer[w]), !.isPaused = TRUE]
  <2>1. t \in TimerState /\ TimerOK(t, now)
    BY <1>1 DEF TimerState, TimerOK
  <2>2. Begin(r, Asking("pause", "set", w, t)) /\ now' = now
    BY <1>2 DEF PauseBegin
  <2> HIDE DEF t
  <2> QED
    BY <2>1, <2>2, Opens DEF Ops, Steps
<1>3. CASE ResumeBegin(r, w)
  <2> DEFINE t == [timer[w] EXCEPT !.startedAt = now, !.isPaused = FALSE]
  <2>1. timer[w].begun + timer[w].accumulated <= now
    BY <1>1, <1>3 DEF ResumeBegin, TimerOK
  <2>2. t \in TimerState
    BY <1>1 DEF TimerState, ClockOK
  <2>4. TimerOK(t, now)
    <3>1. t.begun = timer[w].begun /\ t.accumulated = timer[w].accumulated
          /\ t.startedAt = now /\ t.isPaused = FALSE
      BY <1>1 DEF TimerState
    <3> HIDE DEF t
    <3> QED
      BY <2>1, <3>1, HorizonAssumption DEF TimerOK, ClockOK, Times
  <2>3. Begin(r, Asking("resume", "set", w, t)) /\ now' = now
    BY <1>3 DEF ResumeBegin
  <2> HIDE DEF t
  <2> QED
    BY <2>2, <2>3, <2>4, Opens DEF Ops, Steps
<1> QED
  BY <1>2, <1>3

LEMMA ManualRequests ==
    ASSUME RequestsOK, NEW r \in Slots, NEW i \in Manual, ManualBegin(r, i[1], i[2])
    PROVE  RequestsOK'
<1> DEFINE q == [Idle EXCEPT !.op = "manual", !.step = "overlap", !.from = i[1], !.to = i[2]]
<1>1. i[1] \in Times /\ i[2] \in Times /\ i[1] <= i[2]
  BY ManualAssumption DEF Times
<1>2. q \in Request
  BY <1>1, IdleOK DEF Request, Ops, Steps
<1>3. RequestOK(q, now)
  BY <1>1, IdleOK DEF Request, RequestOK
<1>4. Begin(r, q) /\ now' = now
  BY DEF ManualBegin
<1> HIDE DEF q
<1> QED
  BY <1>2, <1>3, <1>4, Moves DEF Begin

LEMMA AutoStopRequests ==
    ASSUME ClockOK, TimersOK, RequestsOK, NEW r \in Slots, NEW w \in Workspaces,
           AutoStopBegin(r, w)
    PROVE  RequestsOK'
<1> DEFINE t == [NoTimer EXCEPT !.begun = timer[w].begun]
<1>1. timer[w] \in TimerState /\ Elapsed(timer[w]) \in Times
      /\ timer[w].begun + Elapsed(timer[w]) <= now /\ timer[w].begun \in Times
      /\ Elapsed(timer[w]) >= Cap
  BY ElapsedOK DEF AutoStopBegin, TimerState
<1>2. t \in TimerState /\ t.begun = timer[w].begun
  BY <1>1, NoTimerOK DEF TimerState
<1>3. timer[w].begun + Cap <= now
  BY <1>1, CapAssumption, HorizonAssumption DEF ClockOK, Times
<1>4. Begin(r, Asking("autoStop", "create", w, t)) /\ now' = now
  BY DEF AutoStopBegin
<1> HIDE DEF t
<1> QED
  BY <1>2, <1>3, <1>4, Opens DEF Ops, Steps

LEMMA StepRequests ==
    ASSUME IInv, NEW r \in Slots, (r \in Requests /\ RequestStep(r)) \/ WorkerStep(r) \/ Crash(r)
    PROVE  RequestsOK' /\ now' = now
<1>0. ClockOK /\ TimersOK /\ RequestsOK
  BY DEF IInv
<1>1. ASSUME NEW w \in Workspaces,
             \/ StartBegin(r, w) \/ StopBegin(r, w) \/ PauseBegin(r, w) \/ ResumeBegin(r, w)
             \/ DiscardBegin(r, w) \/ ActiveBegin(r, w) \/ AutoStopBegin(r, w)
      PROVE  RequestsOK' /\ now' = now
  <2>1. CASE StartBegin(r, w)
    BY <1>0, <2>1, NoTimerOK, Opens DEF StartBegin, Ops, Steps
  <2>2. CASE DiscardBegin(r, w)
    BY <1>0, <2>2, NoTimerOK, Opens DEF DiscardBegin, Ops, Steps
  <2>3. CASE ActiveBegin(r, w)
    BY <1>0, <2>3, NoTimerOK, Opens DEF ActiveBegin, Ops, Steps
  <2>4. CASE StopBegin(r, w)
    BY <1>0, <2>4, StopRequests DEF StopBegin
  <2>5. CASE PauseBegin(r, w) \/ ResumeBegin(r, w)
    BY <1>0, <2>5, PauseRequests DEF PauseBegin, ResumeBegin
  <2>6. CASE AutoStopBegin(r, w)
    BY <1>0, <2>6, AutoStopRequests DEF AutoStopBegin
  <2> QED
    BY <1>1, <2>1, <2>2, <2>3, <2>4, <2>5, <2>6
<1>2. ASSUME NEW i \in Manual, ManualBegin(r, i[1], i[2]) PROVE RequestsOK' /\ now' = now
  BY <1>0, <1>2, ManualRequests DEF ManualBegin
<1>3. CASE StartOverlap(r)
  BY <1>0, <1>3, StartRequests DEF StartOverlap
<1>4. CASE \/ OverlapCheck(r) \/ StopCreate(r) \/ AutoStopCreate(r) \/ AutoStopFlag(r)
  BY <1>0, <1>4, Continues, Finishes DEF OverlapCheck, StopCreate, AutoStopCreate, AutoStopFlag, Steps
<1>5. CASE SetTimer(r) \/ DelTimer(r) \/ ActiveDel(r) \/ ManualCreate(r) \/ Crash(r)
  BY <1>0, <1>5, Finishes DEF SetTimer, DelTimer, ActiveDel, ManualCreate, Crash
<1>6. CASE RequestStep(r)
  BY <1>1, <1>2, <1>3, <1>4, <1>5, <1>6 DEF RequestStep
<1>7. CASE WorkerStep(r)
  BY <1>1, <1>4, <1>5, <1>7 DEF WorkerStep
<1> QED
  BY <1>5, <1>6, <1>7

-----------------------------------------------------------------------------
(* The keys and the rows.                                                  *)

LEMMA SetTimers ==
    ASSUME TimersOK, RequestsOK, NEW r \in Slots, SetTimer(r)
    PROVE  TimersOK'
<1> DEFINE w == req[r].ws
           t == req[r].timer
<1>1. w \in Workspaces /\ t \in TimerState /\ TimerOK(t, now)
  BY DEF RequestsOK, RequestOK, Request, SetTimer
<1>2. timer' = [timer EXCEPT ![w] = t] /\ now' = now
  BY DEF SetTimer
<1> HIDE DEF w, t
<1> QED
  BY <1>1, <1>2 DEF TimersOK

LEMMA DelTimers ==
    ASSUME TimersOK, NEW r \in Slots, DelTimer(r)
    PROVE  TimersOK'
<1>1. timer' = [timer EXCEPT ![req[r].ws] = NoTimer] /\ now' = now
  BY DEF DelTimer
<1>2. TimerOK(NoTimer, now)
  BY NoTimerOK DEF TimerOK
<1> QED
  BY <1>1, <1>2, NoTimerOK DEF TimersOK

LEMMA Records ==
    ASSUME LogsOK, NEW begun \in Times, NEW from \in Times, NEW to \in Times,
           begun <= from, from <= to, Record(begun, from, to)
    PROVE  LogsOK'
<1> DEFINE e == [begun |-> begun, start |-> from, end |-> to]
<1>1. e \in Entry /\ e.begun <= e.start /\ e.start <= e.end
  BY DEF Entry
<1> HIDE DEF e
<1>2. logs' = IF Uncounted(e) THEN logs ELSE BagAdd(logs, e)
  BY DEF Record, e
<1>3. CASE e \in DOMAIN logs /\ ~Uncounted(e)
  <2>1. logs' = [f \in DOMAIN logs |-> IF f = e THEN logs[f] + 1 ELSE logs[f]]
    BY <1>2, <1>3 DEF BagAdd
  <2>2. logs[e] \in 1 .. Copies /\ logs[e] # Copies
    BY <1>3 DEF LogsOK, Uncounted
  <2>3. logs[e] + 1 \in 1 .. Copies
    BY <2>2, CopiesAssumption
  <2> QED
    BY <1>1, <2>1, <2>3 DEF LogsOK
<1>4. CASE e \notin DOMAIN logs
  <2>1. logs' = [f \in DOMAIN logs \cup {e} |-> IF f = e THEN 1 ELSE logs[f]]
    BY <1>2, <1>4 DEF BagAdd, Uncounted
  <2> QED
    BY <1>1, <1>4, <2>1, CopiesAssumption DEF LogsOK
<1> QED
  BY <1>2, <1>3, <1>4 DEF LogsOK

LEMMA StepLogs ==
    ASSUME IInv, NEW r \in Slots, StopCreate(r) \/ ManualCreate(r) \/ AutoStopCreate(r)
    PROVE  LogsOK'
<1>0. /\ ClockOK /\ LogsOK /\ RequestOK(req[r], now) /\ req[r] \in Request
      /\ req[r].from \in Times /\ req[r].to \in Times /\ req[r].timer.begun \in Times
  BY DEF IInv, RequestsOK, Request, TimerState
<1>1. CASE StopCreate(r)
  BY <1>0, <1>1, Records DEF StopCreate, At, RequestOK
<1>2. CASE ManualCreate(r)
  <2>1. req[r].from <= req[r].from
    BY <1>0, HorizonAssumption DEF Times
  <2> QED
    BY <1>0, <1>2, <2>1, Records DEF ManualCreate, At, RequestOK
<1>3. CASE AutoStopCreate(r)
  <2>1. req[r].timer.begun + Cap <= now
    BY <1>0, <1>3 DEF AutoStopCreate, At, RequestOK
  <2>2. now - Cap \in Times /\ req[r].timer.begun <= now - Cap /\ now - Cap <= now /\ now \in Times
    BY <1>0, <2>1, CapAssumption, HorizonAssumption DEF Times, ClockOK
  <2> QED
    BY <1>0, <1>3, <2>2, Records DEF AutoStopCreate
<1> QED
  BY <1>1, <1>2, <1>3

LEMMA StepStored ==
    ASSUME IInv, NEW r \in Slots, RequestStep(r) \/ WorkerStep(r) \/ Crash(r), now' = now
    PROVE  TimersOK' /\ FlagsOK' /\ LogsOK'
<1>0. TimersOK /\ FlagsOK /\ LogsOK /\ RequestsOK
  BY DEF IInv
<1>1. CASE UNCHANGED stored
  BY <1>0, <1>1 DEF stored, TimersOK, FlagsOK, LogsOK
<1>2. CASE SetTimer(r) \/ DelTimer(r)
  <2>1. FlagsOK' /\ LogsOK'
    BY <1>0, <1>2 DEF SetTimer, DelTimer, FlagsOK, LogsOK
  <2> QED
    BY <1>0, <1>2, <2>1, SetTimers, DelTimers
<1>3. CASE StopCreate(r) \/ ManualCreate(r) \/ AutoStopCreate(r)
  <2>1. TimersOK' /\ FlagsOK'
    BY <1>0, <1>3 DEF StopCreate, ManualCreate, AutoStopCreate, TimersOK, FlagsOK
  <2> QED
    BY <1>3, <2>1, StepLogs
<1>4. CASE ActiveDel(r) \/ AutoStopFlag(r)
  <2>1. TimersOK' /\ LogsOK'
    BY <1>0, <1>4 DEF ActiveDel, AutoStopFlag, TimersOK, LogsOK
  <2>2. FlagsOK'
    BY <1>0, <1>4 DEF ActiveDel, AutoStopFlag, FlagsOK
  <2> QED
    BY <2>1, <2>2
<1>5. CASE RequestStep(r)
  BY <1>1, <1>2, <1>3, <1>4, <1>5 DEF RequestStep, StartBegin, StopBegin, PauseBegin, ResumeBegin,
     DiscardBegin, ActiveBegin, ManualBegin, StartOverlap, OverlapCheck
<1>6. CASE WorkerStep(r)
  BY <1>1, <1>2, <1>3, <1>4, <1>6 DEF WorkerStep, AutoStopBegin
<1>7. CASE Crash(r)
  BY <1>1, <1>7 DEF Crash
<1> QED
  BY <1>5, <1>6, <1>7

-----------------------------------------------------------------------------
(* Time passes.                                                            *)

LEMMA StepTick ==
    ASSUME IInv, Tick
    PROVE  IInv'
<1>1. now \in Times /\ now' = now + 1 /\ now' \in Times
  BY HorizonAssumption DEF IInv, ClockOK, Tick, Times
<1>2. ASSUME NEW t \in TimerState, TimerOK(t, now) PROVE TimerOK(t, now')
  <2> DEFINE b == t.begun
             a == t.accumulated
             s == t.startedAt
  <2>1. b \in Int /\ a \in Int /\ s \in Int /\ now \in Int
    BY <1>1, HorizonAssumption DEF TimerState, Times
  <2>2. b + a <= now => b + a <= now'
    BY <1>1, <2>1
  <2>3. s <= now => s <= now'
    BY <1>1, <2>1
  <2> QED
    BY <1>2, <2>2, <2>3 DEF TimerOK
<1>3. ASSUME NEW q \in Request, RequestOK(q, now) PROVE RequestOK(q, now')
  <2>1. q.timer \in TimerState /\ q.timer.begun \in Times
    BY DEF Request, TimerState
  <2>2. q.timer.begun + Cap <= now => q.timer.begun + Cap <= now'
    BY <1>1, <2>1, CapAssumption, HorizonAssumption DEF Times
  <2> QED
    BY <1>2, <1>3, <2>1, <2>2 DEF RequestOK
<1>4. TimersOK' /\ FlagsOK' /\ LogsOK'
  BY <1>2 DEF IInv, TimersOK, FlagsOK, LogsOK, Tick, stored
<1>5. RequestsOK'
  BY <1>3 DEF IInv, RequestsOK, Tick
<1> QED
  BY <1>1, <1>4, <1>5 DEF IInv, ClockOK

LEMMA StepIInv == IInv /\ [Next]_vars => IInv'
<1> SUFFICES ASSUME IInv, [Next]_vars PROVE IInv'
  OBVIOUS
<1>1. ASSUME NEW r \in Slots, (r \in Requests /\ RequestStep(r)) \/ WorkerStep(r) \/ Crash(r)
      PROVE  IInv'
  <2>1. RequestsOK' /\ now' = now
    BY <1>1, StepRequests
  <2>2. TimersOK' /\ FlagsOK' /\ LogsOK'
    BY <1>1, <2>1, StepStored
  <2> QED
    BY <2>1, <2>2 DEF IInv, ClockOK
<1>2. ASSUME NEW w \in Workspaces, FlagExpires(w) PROVE IInv'
  BY <1>2 DEF IInv, ClockOK, TimersOK, FlagsOK, LogsOK, RequestsOK, FlagExpires
<1>3. CASE UNCHANGED vars
  BY <1>3 DEF IInv, ClockOK, TimersOK, FlagsOK, LogsOK, RequestsOK, vars, stored
<1>4. CASE Next
  BY <1>1, <1>2, <1>4, StepTick DEF Next, Slots
<1> QED
  BY <1>3, <1>4

\* The inductive invariant holds in every reachable state, for every interleaving
\* of timer, entry and policy requests, cron jobs and hours and every value of the constants.
THEOREM Invariance == Spec => []IInv
BY InitIInv, StepIInv, PTL DEF Spec

\* Every key, row and request keeps its type.
THEOREM TypeCorrect == Spec => []TypeOK
<1>1. IInv => TypeOK
  BY DEF IInv, TypeOK, ClockOK, TimersOK, FlagsOK, LogsOK, RequestsOK, Slots
<1> QED
  BY <1>1, Invariance, PTL

\* A timer never shows more than the time since its start, and none of its
\* entries reaches back before it.
THEOREM WallClock == Spec => []TrackedWithinWallClock
<1>1. IInv => TrackedWithinWallClock
  <2> SUFFICES ASSUME IInv PROVE TrackedWithinWallClock
    OBVIOUS
  <2>1. \A w \in Workspaces : timer[w].active => timer[w].begun + Elapsed(timer[w]) <= now
    BY ElapsedOK DEF IInv
  <2> QED
    BY <2>1 DEF TrackedWithinWallClock, IInv, LogsOK
<1> QED
  BY <1>1, Invariance, PTL
=============================================================================
