-------------------------------- MODULE Timer --------------------------------
(***************************************************************************)
(* The timers of one user in several workspaces: TimerService (start,      *)
(* stop, pause, resume, discard, active), StaleTimerService (the auto-stop *)
(* ticker of each API process) and the manual entries of TimelogsService   *)
(* they have to coexist with.                                              *)
(*                                                                         *)
(* Running timers are values under a Redis key per workspace, entries are  *)
(* rows of time_logs.  A handler gets the value, computes, and sets or     *)
(* deletes the key in a later command: nothing (no NX, no WATCH) ties the  *)
(* two, so each command is an action and other handlers run in between.    *)
(***************************************************************************)
EXTENDS Integers, BagsExt

CONSTANTS
    Workspaces,  \* the workspaces the user is a member of
    Requests,    \* slots for HTTP requests in flight
    Workers,     \* the API processes, each with its auto-stop ticker
    Manual,      \* bound: the intervals <<from, to>> of the manual entries
    Cap,         \* HARD_AUTO_STOP_HOURS
    Horizon,     \* bound: the last instant of the clock
    Copies       \* bound: rows of one content that are counted

ASSUME CapAssumption == Cap \in Nat \ {0}
ASSUME HorizonAssumption == Horizon \in Nat
ASSUME CopiesAssumption == Copies \in Nat \ {0}
ASSUME ManualAssumption == \A i \in Manual : i \in (0 .. Horizon) \X (0 .. Horizon) /\ i[1] <= i[2]
ASSUME SlotAssumption == Requests \cap Workers = {}

VARIABLES
    now,     \* the wall clock
    timer,   \* the Redis key timer:<workspace>:<user>
    stopped, \* the Redis key timer_autostopped:<workspace>:<user> is set
    logs,    \* rows of time_logs: how many there are of each content
    req      \* the requests and the tickers in flight

stored == <<timer, stopped, logs>>
vars == <<now, stored, req>>

-----------------------------------------------------------------------------
Times == 0 .. Horizon

\* begun is not a field of the code's TimerState: it remembers when the timer
\* was started, while startedAt moves with every resume.
TimerState == [active: BOOLEAN, begun: Times, startedAt: Times, accumulated: Times,
               isPaused: BOOLEAN]

NoTimer == [active |-> FALSE, begun |-> 0, startedAt |-> 0, accumulated |-> 0,
            isPaused |-> FALSE]

\* begun: when the timer that an entry comes from was started.
Entry == [begun: Times, start: Times, end: Times]

Ops == {"none", "start", "stop", "pause", "resume", "discard", "active", "manual", "autoStop"}
Steps == {"none", "overlap", "set", "create", "flag", "del"}

\* timer: the value to be written, or the begun of the one read; from and to: the entry to create.
Request == [op: Ops, step: Steps, ws: Workspaces \cup {"none"}, timer: TimerState,
            from: Times, to: Times]

Idle == [op |-> "none", step |-> "none", ws |-> "none", timer |-> NoTimer,
         from |-> 0, to |-> 0]

Asking(op, step, w, t) == [Idle EXCEPT !.op = op, !.step = step, !.ws = w, !.timer = t]

Begin(r, q)       == req[r] = Idle /\ req' = [req EXCEPT ![r] = q]
At(r, op, step)   == req[r].op = op /\ req[r].step = step
Continue(r, step) == req' = [req EXCEPT ![r].step = step]
Finish(r)         == req' = [req EXCEPT ![r] = Idle]

\* Mutant: the accumulated time is counted from the first start.
ElapsedSinceBegun(t) == t.accumulated + (now - t.begun)

\* totalSec of stop, elapsedSec of active, totalElapsedSec of the ticker.
Elapsed(t) == IF t.isPaused THEN t.accumulated ELSE t.accumulated + (now - t.startedAt)

\* assertNoOverlap: a row of the user that meets the open interval.
Overlaps(from, to) == \E e \in DOMAIN logs : e.start < to /\ e.end > from

\* Every insert makes a row of its own (the id is a new uuid), whatever rows
\* there are.  Rows are counted up to Copies for the first content that comes
\* twice; of every other content the count stops at one.
Uncounted(e) ==
    /\ e \in DOMAIN logs
    /\ logs[e] = Copies \/ \E f \in DOMAIN logs \ {e} : logs[f] > 1

Record(begun, from, to) ==
    LET e == [begun |-> begun, start |-> from, end |-> to] IN
    logs' = IF Uncounted(e) THEN logs ELSE BagAdd(logs, e)

-----------------------------------------------------------------------------
\* assertNoActiveTimerAnywhere: one MGET over the keys of every membership.
StartBegin(r, w) ==
    /\ \A v \in Workspaces : ~timer[v].active
    /\ Begin(r, Asking("start", "overlap", w, NoTimer))
    /\ UNCHANGED <<now, stored>>

StartOverlap(r) ==
    /\ At(r, "start", "overlap")
    /\ IF Overlaps(now, now)
       THEN Finish(r)
       ELSE req' = [req EXCEPT ![r].step = "set",
                               ![r].timer = [NoTimer EXCEPT !.active = TRUE, !.begun = now,
                                                            !.startedAt = now]]
    /\ UNCHANGED <<now, stored>>

\* stop: the value is read once; the end of the entry is the present moment
\* and its start is computed back from the elapsed time.
StopBegin(r, w) ==
    /\ timer[w].active
    /\ Begin(r, [Asking("stop", "overlap", w, [NoTimer EXCEPT !.begun = timer[w].begun])
                   EXCEPT !.from = now - Elapsed(timer[w]), !.to = now])
    /\ UNCHANGED <<now, stored>>

\* The entry of a manual create or the synthetic one of a stop.
OverlapCheck(r) ==
    /\ req[r].op \in {"stop", "manual"} /\ req[r].step = "overlap"
    /\ IF Overlaps(req[r].from, req[r].to) THEN Finish(r) ELSE Continue(r, "create")
    /\ UNCHANGED <<now, stored>>

StopCreate(r) ==
    /\ At(r, "stop", "create")
    /\ Continue(r, "del")
    /\ Record(req[r].timer.begun, req[r].from, req[r].to)
    /\ UNCHANGED <<now, timer, stopped>>

PauseBegin(r, w) ==
    /\ timer[w].active /\ ~timer[w].isPaused
    /\ Begin(r, Asking("pause", "set", w,
                       [timer[w] EXCEPT !.accumulated = Elapsed(timer[w]), !.isPaused = TRUE]))
    /\ UNCHANGED <<now, stored>>

\* Mutant: resume forgets to restart the running segment.
ResumeOldSegment(r, w) ==
    /\ timer[w].active /\ timer[w].isPaused
    /\ Begin(r, Asking("resume", "set", w, [timer[w] EXCEPT !.isPaused = FALSE]))
    /\ UNCHANGED <<now, stored>>

ResumeBegin(r, w) ==
    /\ timer[w].active /\ timer[w].isPaused
    /\ Begin(r, Asking("resume", "set", w,
                       [timer[w] EXCEPT !.startedAt = now, !.isPaused = FALSE]))
    /\ UNCHANGED <<now, stored>>

DiscardBegin(r, w) ==
    /\ timer[w].active
    /\ Begin(r, Asking("discard", "del", w, NoTimer))
    /\ UNCHANGED <<now, stored>>

\* SET overwrites whatever the key holds by now, or creates it again.
SetTimer(r) ==
    /\ req[r].op \in {"start", "pause", "resume"} /\ req[r].step = "set"
    /\ Finish(r)
    /\ timer' = [timer EXCEPT ![req[r].ws] = req[r].timer]
    /\ UNCHANGED <<now, stopped, logs>>

\* Mutant: the ticker leaves the key to the client.
KeepTimer(r) ==
    /\ req[r].op \in {"stop", "discard", "autoStop"} /\ req[r].step = "del"
    /\ Finish(r)
    /\ timer' = IF req[r].op = "autoStop" THEN timer ELSE [timer EXCEPT ![req[r].ws] = NoTimer]
    /\ UNCHANGED <<now, stopped, logs>>

\* DEL removes whatever the key holds by now.
DelTimer(r) ==
    /\ req[r].op \in {"stop", "discard", "autoStop"} /\ req[r].step = "del"
    /\ Finish(r)
    /\ timer' = [timer EXCEPT ![req[r].ws] = NoTimer]
    /\ UNCHANGED <<now, stopped, logs>>

\* active: the flag of an auto-stop is read and then deleted.
ActiveBegin(r, w) ==
    /\ stopped[w]
    /\ Begin(r, Asking("active", "del", w, NoTimer))
    /\ UNCHANGED <<now, stored>>

ActiveDel(r) ==
    /\ At(r, "active", "del")
    /\ Finish(r)
    /\ stopped' = [stopped EXCEPT ![req[r].ws] = FALSE]
    /\ UNCHANGED <<now, timer, logs>>

\* TimelogsService.create, reduced to what it shares with the timers.
ManualBegin(r, from, to) ==
    /\ Begin(r, [Idle EXCEPT !.op = "manual", !.step = "overlap", !.from = from, !.to = to])
    /\ UNCHANGED <<now, stored>>

ManualCreate(r) ==
    /\ At(r, "manual", "create")
    /\ Finish(r)
    /\ Record(req[r].from, req[r].from, req[r].to)
    /\ UNCHANGED <<now, timer, stopped>>

-----------------------------------------------------------------------------
\* scanAndAutoStop: a key whose timer has reached the ceiling, paused or not.
AutoStopBegin(r, w) ==
    /\ timer[w].active
    /\ Elapsed(timer[w]) >= Cap
    /\ Begin(r, Asking("autoStop", "create", w, [NoTimer EXCEPT !.begun = timer[w].begun]))
    /\ UNCHANGED <<now, stored>>

\* The entry ends now, is Cap long, and is checked against nothing.
AutoStopCreate(r) ==
    /\ At(r, "autoStop", "create")
    /\ Continue(r, "flag")
    /\ Record(req[r].timer.begun, now - Cap, now)
    /\ UNCHANGED <<now, timer, stopped>>

AutoStopFlag(r) ==
    /\ At(r, "autoStop", "flag")
    /\ Continue(r, "del")
    /\ stopped' = [stopped EXCEPT ![req[r].ws] = TRUE]
    /\ UNCHANGED <<now, timer, logs>>

\* The SETEX of two hours runs out.
FlagExpires(w) ==
    /\ stopped[w]
    /\ stopped' = [stopped EXCEPT ![w] = FALSE]
    /\ UNCHANGED <<now, timer, logs, req>>

\* The process dies, an await throws, or the request is refused (a locked
\* period, a lapsed subscription) before the next command.
Crash(r) ==
    /\ req[r] # Idle
    /\ Finish(r)
    /\ UNCHANGED <<now, stored>>

Tick ==
    /\ now < Horizon
    /\ now' = now + 1
    /\ UNCHANGED <<stored, req>>

-----------------------------------------------------------------------------
Init ==
    /\ now = 0
    /\ timer = [w \in Workspaces |-> NoTimer]
    /\ stopped = [w \in Workspaces |-> FALSE]
    /\ logs = << >>
    /\ req = [r \in Requests \cup Workers |-> Idle]

RequestStep(r) ==
    \/ \E w \in Workspaces :
          \/ StartBegin(r, w)
          \/ StopBegin(r, w)
          \/ PauseBegin(r, w)
          \/ ResumeBegin(r, w)
          \/ DiscardBegin(r, w)
          \/ ActiveBegin(r, w)
    \/ \E i \in Manual : ManualBegin(r, i[1], i[2])
    \/ StartOverlap(r)
    \/ OverlapCheck(r)
    \/ StopCreate(r)
    \/ SetTimer(r)
    \/ DelTimer(r)
    \/ ActiveDel(r)
    \/ ManualCreate(r)

WorkerStep(r) ==
    \/ \E w \in Workspaces : AutoStopBegin(r, w)
    \/ AutoStopCreate(r)
    \/ AutoStopFlag(r)
    \/ DelTimer(r)

Next ==
    \/ \E r \in Requests : RequestStep(r)
    \/ \E r \in Workers : WorkerStep(r)
    \/ \E r \in Requests \cup Workers : Crash(r)
    \/ \E w \in Workspaces : FlagExpires(w)
    \/ Tick

Spec == Init /\ [][Next]_vars

\* Time passes, and the tickers run every minute in every process: a scan
\* that fails is repeated at the next tick, and does not fail for ever.
Fairness ==
    /\ WF_vars(Tick)
    /\ \A r \in Workers :
          /\ \A w \in Workspaces : SF_vars(AutoStopBegin(r, w))
          /\ SF_vars(AutoStopCreate(r))
          /\ SF_vars(AutoStopFlag(r))
          /\ SF_vars(DelTimer(r))

FairSpec == Spec /\ Fairness

-----------------------------------------------------------------------------
\* The clock, the two keys, the rows and the requests have their types.
TypeOK ==
    /\ now \in Times
    /\ timer \in [Workspaces -> TimerState]
    /\ stopped \in [Workspaces -> BOOLEAN]
    /\ DOMAIN logs \subseteq Entry
    /\ \A e \in DOMAIN logs : logs[e] \in 1 .. Copies
    /\ req \in [Requests \cup Workers -> Request]

\* However pauses, resumes, stops and auto-stops race on a key, and whichever
\* stale value is set last, a timer never shows more time than has passed
\* since it was started, and no entry reaches back before the start of the
\* timer it comes from.  This bounds each entry by itself: a stop racing an
\* auto-stop, or an auto-stop repeated after it died before its DEL, logs the
\* same hours in two entries (see EntriesDisjoint below).
TrackedWithinWallClock ==
    /\ \A w \in Workspaces : timer[w].active => timer[w].begun + Elapsed(timer[w]) <= now
    /\ \A e \in DOMAIN logs : e.begun <= e.start /\ e.start <= e.end

\* A timer at the ceiling, running or paused, does not stay there: the
\* tickers log it and delete its key, whatever the user's devices do.
OverdueStops ==
    \A w \in Workspaces :
        timer[w].active /\ Elapsed(timer[w]) >= Cap
            ~> ~(timer[w].active /\ Elapsed(timer[w]) >= Cap)

-----------------------------------------------------------------------------
(* What the documentation says, and the code does not keep.                *)

\* "Redis stores one active timer per user; overlapping start returns
\* conflict."
OneTimerPerUser ==
    \A v, w \in Workspaces : timer[v].active /\ timer[w].active => v = w

\* "When start/end overlaps another log for the same user, then the API
\* returns a validation/conflict error."  So no hour is logged by two entries.
EntriesDisjoint ==
    \A e, f \in DOMAIN logs :
        e # f \/ logs[e] > 1 => ~(e.start < f.end /\ f.start < e.end)
=============================================================================
