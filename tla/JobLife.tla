------------------------------- MODULE JobLife -------------------------------
(***************************************************************************)
(* What ExportJobService and the import processor promise of a job: it     *)
(* runs once, it ends as its work left it, and what it kept in storage is  *)
(* gone before it counts as expired.  Queues, workers, requests and the    *)
(* purge are not seen here; of a job that a fault took nothing is promised *)
(* any more.                                                               *)
(***************************************************************************)
EXTENDS Integers

CONSTANTS
    Exports,   \* jobs that make a file
    Imports    \* jobs that use up an upload

Jobs == Exports \cup Imports

VARIABLES
    status,   \* where each job is
    file,     \* the jobs with a file or an upload in storage
    overdue   \* the jobs past their retention

life == <<status, file, overdue>>

Move(j, from, to) == status[j] \in from /\ status' = [status EXCEPT ![j] = to]

\* An export's file is there, an import's upload is used up.
Done(j) == j \in file <=> j \in Exports

Init ==
    /\ status = [j \in Jobs |-> "none"]
    /\ file = {}
    /\ overdue = {}

Create(j) == Move(j, {"none"}, "queued") /\ UNCHANGED <<file, overdue>>

Upload(j) ==
    /\ j \in Imports /\ status[j] = "queued"
    /\ file' = file \cup {j}
    /\ UNCHANGED <<status, overdue>>

Start(j) == ~Done(j) /\ Move(j, {"queued"}, "running") /\ UNCHANGED <<file, overdue>>

Work(j) ==
    /\ ~Done(j) /\ status[j] = "running"
    /\ file' = IF j \in Exports THEN file \cup {j} ELSE file \ {j}
    /\ UNCHANGED <<status, overdue>>

Offer(j) == Done(j) /\ Move(j, {"running"}, "ready") /\ UNCHANGED <<file, overdue>>

Fail(j) == ~Done(j) /\ Move(j, {"running"}, "failed") /\ UNCHANGED <<file, overdue>>

\* The upload of an import that failed, the file of an export that is old.
Discard(j) ==
    /\ \/ j \in Imports /\ status[j] = "failed"
       \/ j \in Exports \cap overdue /\ status[j] = "ready"
    /\ file' = file \ {j}
    /\ UNCHANGED <<status, overdue>>

Age(j) ==
    /\ overdue' = overdue \cup {j}
    /\ UNCHANGED <<status, file>>

Expire(j) ==
    /\ j \in (Exports \cap overdue) \ file
    /\ Move(j, {"ready", "failed"}, "expired")
    /\ UNCHANGED <<file, overdue>>

\* A fault takes the job.
Lose(j) ==
    /\ status' = [status EXCEPT ![j] = "lost"]
    /\ file' = file \ {j}
    /\ UNCHANGED overdue

Next ==
    \E j \in Jobs :
        \/ Create(j) \/ Upload(j) \/ Start(j) \/ Work(j) \/ Offer(j) \/ Fail(j)
        \/ Discard(j) \/ Age(j) \/ Expire(j) \/ Lose(j)

Spec == Init /\ [][Next]_life
=============================================================================
