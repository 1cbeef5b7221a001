-------------------------- MODULE TimesheetsHistory --------------------------
(***************************************************************************)
(* Timesheets with a history variable.  The handlers check a row in one    *)
(* statement and write in a later one, so what they checked may no longer  *)
(* hold when they write.  seen[r] holds the days (rows of timesheet_periods*)
(* for submit and the reviews) for which the condition the request r has   *)
(* to check was true in at least one state since r began.  The properties  *)
(* say how much of the documented rules survives every interleaving: a     *)
(* write goes ahead only if its condition held at some moment of the       *)
(* request, so a period that stays locked (approved, undecided) throughout *)
(* the request is never touched by it.                                     *)
(***************************************************************************)
EXTENDS Timesheets

VARIABLE seen

\* The days the request has to find in a certain state.
DaysOf(q) == CASE q.op \in LogOps -> {q.from, q.to} \ {0}
               [] q.op = "submit" -> 1 .. q.key
               [] OTHER           -> {q.key} \ {0}

\* That state, now.
Meets(q, d) ==
    \/ q.op \in LogOps /\ Editable(d)
    \/ q.op \in {"approve", "reject"} /\ period[d].status = "SUBMITTED"
    \/ q.op = "submit" /\ d = q.key /\ period[d].status \notin Locked
    \/ q.op = "submit" /\ d < q.key /\ period[d].status # "REJECTED"

Met(r) == {d \in DaysOf(req[r]) : Meets(req[r], d)}

\* The lock check reads the settings and the period row in two statements:
\* a change of settings in between counts as a moment of unlocking.
Observe ==
    seen' = [r \in Requests |->
               IF req'[r] = Idle THEN {}
               ELSE seen[r] \cup Met(r)'
                    \cup (IF <<enabled, grain>>' # <<enabled, grain>>
                          THEN DaysOf(req[r]) ELSE {})]

HInit == Init /\ seen = [r \in Requests |-> {}]
HNext == Next /\ Observe
hvars == <<vars, seen>>
HSpec == HInit /\ [][HNext]_hvars

-----------------------------------------------------------------------------
HTypeOK == TypeOK /\ seen \in [Requests -> SUBSET Days]

\* The request whose write ends in this step.
Writing(r, ops) == At(r, ops, "write") /\ req'[r] = Idle

\* An entry is created, changed or removed only by a request during which, at
\* some moment, every day it touches was editable: an entry in a period that
\* stays submitted or approved for the whole request is not changed.
EntryWritesSeen ==
    [][\A l \in Logs :
          audit'[l] # audit[l] =>
             \E r \in Requests :
                /\ Writing(r, LogOps)
                /\ {log[l].day, log'[l].day} \ {0} \subseteq seen[r]]_hvars

\* A period is approved or rejected only by a review during which it was at
\* some moment submitted.
ReviewWritesSeen ==
    [][\A k \in Days :
          /\ period'[k] # period[k]
          /\ period'[k].status \in {"APPROVED", "REJECTED"}
          => \E r \in Requests : Writing(r, {"approve", "reject"}) /\ k \in seen[r]]_hvars

\* A period is submitted only by a request during which it was at some
\* moment neither submitted nor approved: an approval that stands for the
\* whole request is not overridden by it.
SubmitWritesSeen ==
    [][\A k \in Days :
          /\ period'[k] # period[k]
          /\ period'[k].status = "SUBMITTED"
          => \E r \in Requests : Writing(r, {"submit"}) /\ k \in seen[r]]_hvars

\* A period is submitted only by a request that found, each at some moment,
\* every period between the member's earliest entry and this one without an
\* unanswered rejection: a rejection that stands for the whole request blocks
\* the later periods.
RejectionsAnsweredSeen ==
    [][\A k \in Days, r \in Requests :
          /\ period'[k] # period[k]
          /\ Writing(r, {"submit"})
          /\ req[r].from # 0
          => (req[r].from .. k - 1) \subseteq seen[r]]_hvars
=============================================================================
