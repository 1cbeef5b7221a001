------------------------------- MODULE DataJobs -------------------------------
(***************************************************************************)
(* The jobs that move an organization's data as files: the workspace       *)
(* exports of ExportJobService with their daily purge, and the exports and *)
(* imports of a whole tenant.  A job is a row (an import is a value in     *)
(* Redis), an entry of a BullMQ queue and a file.                          *)
(*                                                                         *)
(* The request that creates a job, the worker, a cancellation and the      *)
(* purge work on it in awaited statements of their own.  A worker may die, *)
(* or lose its lock while it goes on: BullMQ then hands the job out once   *)
(* more.  The queues have one attempt: an await that throws out of the     *)
(* worker is the end of the job.                                           *)
(*                                                                         *)
(* The storage directory is taken to be one that all processes share.  In  *)
(* the code each process resolves its own and falls back to /tmp when it   *)
(* cannot create it; a file written there only its own process can see.    *)
(***************************************************************************)
EXTENDS Integers, FiniteSets

CONSTANTS
    Exports,        \* workspace exports
    TenantExports,  \* exports of all workspaces of a tenant
    Imports,        \* imports into a tenant
    Workers,        \* slots of the workers of all processes
    Batch,          \* how many exports the purge takes a day
    MaxJobs,        \* bound: the jobs that are created
    MaxFaults,      \* bound: faults
    None            \* no job

Jobs == Exports \cup TenantExports \cup Imports

ASSUME KindsAssumption ==
    /\ Exports \cap TenantExports = {} /\ Exports \cap Imports = {}
    /\ TenantExports \cap Imports = {}
ASSUME FaultAssumption == MaxFaults \in Nat
ASSUME BatchAssumption == Batch \in Nat \ {0}
ASSUME NoneAssumption == None \notin Jobs

VARIABLES
    row,        \* export_jobs, tenant_data_export_jobs, tenant:import:job:*
    file,       \* the jobs with a file in the storage directory
    queue,      \* the jobs that wait in BullMQ
    stalled,    \* the jobs BullMQ has handed out again
    creator,    \* the request that creates a job
    worker,     \* the job a worker has, and its next step
    canceller,  \* the request that cancels a job
    purge,      \* the job the purge is at, with the key it read, and the rest
    overdue,    \* the workspace exports past their retention
    cancelled,  \* the jobs whose cancellation was written while they were
                \* queued and no worker had found them so (history)
    faults,     \* how much of MaxFaults is used
    hit,        \* the jobs a fault has touched (history)
    lost        \* of those, the ones a worker or a request let go (history)

history == <<cancelled, hit, lost>>
vars == <<row, file, queue, stalled, creator, worker, canceller, purge, overdue,
          faults, history>>

-----------------------------------------------------------------------------
Statuses == {"none", "queued", "running", "ready", "failed", "expired"}
Row      == [status: Statuses, key: BOOLEAN]
Steps    == {"find", "mark", "work", "unlink", "ready", "tell", "fail", "drop"}
Idle     == [job |-> None, step |-> "none"]
NoPurge  == [todo |-> {}, job |-> None, key |-> FALSE]

Open(j)  == row[j].status \in {"queued", "running"}

SetStatus(j, status) == row' = [row EXCEPT ![j].status = status]

\* Mutant: the slot is freed but not reset.
FinishHalf(w) == worker' = [worker EXCEPT ![w].job = None]

Finish(w)     == worker' = [worker EXCEPT ![w] = Idle]
Continue(w, s) == worker' = [worker EXCEPT ![w].step = s]

Strikes(j) ==
    /\ faults < MaxFaults
    /\ faults' = faults + 1
    /\ hit' = hit \cup {j}

\* A fault the code catches, and one after which nobody has the job.
Fault(j) == Strikes(j) /\ UNCHANGED lost
Loses(j) == Strikes(j) /\ lost' = lost \cup {j}

-----------------------------------------------------------------------------
\* create: the row, then the queue.
Create(j) ==
    /\ row[j].status = "none"
    /\ Cardinality({k \in Jobs : row[k].status # "none"}) < MaxJobs
    /\ SetStatus(j, "queued")
    /\ creator' = [creator EXCEPT ![j] = IF j \in Imports THEN "store" ELSE "add"]
    /\ UNCHANGED <<file, queue, stalled, worker, canceller, purge, overdue, faults, history>>

\* An import's upload is written in between.
StoreUpload(j) ==
    /\ creator[j] = "store"
    /\ file' = file \cup {j}
    /\ creator' = [creator EXCEPT ![j] = "add"]
    /\ UNCHANGED <<row, queue, stalled, worker, canceller, purge, overdue, faults, history>>

Add(j) ==
    /\ creator[j] = "add"
    /\ creator' = [creator EXCEPT ![j] = "none"]
    /\ queue' = queue \cup {j}
    /\ UNCHANGED <<row, file, stalled, worker, canceller, purge, overdue, faults, history>>

\* add throws, whether or not the entry is in Redis by then.
AddFails(j) ==
    /\ creator[j] = "add"
    /\ Fault(j)
    /\ creator' = [creator EXCEPT ![j] = "fail"]
    /\ queue' \in {queue, queue \cup {j}}
    /\ UNCHANGED <<row, file, stalled, worker, canceller, purge, overdue, cancelled>>

\* Mutant: the request ends with its error and the row stays queued.
FailCreateSilently(j) ==
    /\ creator[j] = "fail"
    /\ creator' = [creator EXCEPT ![j] = "none"]
    /\ UNCHANGED <<row, file, queue, stalled, worker, canceller, purge, overdue, faults, history>>

FailCreate(j) ==
    /\ creator[j] = "fail"
    /\ SetStatus(j, "failed")
    /\ creator' = [creator EXCEPT ![j] = "none"]
    /\ UNCHANGED <<file, queue, stalled, worker, canceller, purge, overdue, faults, history>>

-----------------------------------------------------------------------------
\* BullMQ hands a waiting job to a worker.
Take(w, j) ==
    /\ worker[w] = Idle
    /\ j \in queue
    /\ queue' = queue \ {j}
    /\ worker' = [worker EXCEPT ![w] = [job |-> j, step |-> "find"]]
    /\ UNCHANGED <<row, file, stalled, creator, canceller, purge, overdue, faults, history>>

\* Mutant: whatever the row says, the job runs.
FindAny(w) ==
    /\ worker[w].step = "find"
    /\ Continue(w, "mark")
    /\ UNCHANGED <<row, file, queue, stalled, creator, canceller, purge, overdue, faults, history>>

\* runJob: only a queued job runs.
Find(w) ==
    /\ worker[w].step = "find"
    /\ IF row[worker[w].job].status = "queued" THEN Continue(w, "mark") ELSE Finish(w)
    /\ UNCHANGED <<row, file, queue, stalled, creator, canceller, purge, overdue, faults, history>>

Mark(w) ==
    /\ worker[w].step = "mark"
    /\ SetStatus(worker[w].job, "running")
    /\ Continue(w, "work")
    /\ UNCHANGED <<file, queue, stalled, creator, canceller, purge, overdue, faults, history>>

\* Mutant: an export is ready before its file is written.
WorkLate(w) ==
    /\ worker[w].step = "work"
    /\ Continue(w, "ready")
    /\ UNCHANGED <<row, file, queue, stalled, creator, canceller, purge, overdue, faults, history>>

\* An export is generated and its file written, an import reads its upload;
\* either may fail.
Work(w) ==
    /\ worker[w].step = "work"
    /\ LET j == worker[w].job IN
       \/ Continue(w, "fail") /\ UNCHANGED file
       \/ j \notin Imports /\ file' = file \cup {j} /\ Continue(w, "ready")
       \/ j \in Imports \cap file /\ Continue(w, "unlink") /\ UNCHANGED file
    /\ UNCHANGED <<row, queue, stalled, creator, canceller, purge, overdue, faults, history>>

Unlink(w) ==
    /\ worker[w].step = "unlink"
    /\ file' = file \ {worker[w].job}
    /\ Continue(w, "ready")
    /\ UNCHANGED <<row, queue, stalled, creator, canceller, purge, overdue, faults, history>>

Ready(w) ==
    /\ worker[w].step = "ready"
    /\ LET j == worker[w].job IN
       row' = [row EXCEPT ![j] = [status |-> "ready", key |-> j \notin Imports]]
    /\ Continue(w, "tell")
    /\ UNCHANGED <<file, queue, stalled, creator, canceller, purge, overdue, faults, history>>

\* The mail and the notifications go out.
Tell(w) ==
    /\ worker[w].step = "tell"
    /\ Finish(w)
    /\ UNCHANGED <<row, file, queue, stalled, creator, canceller, purge, overdue, faults, history>>

\* A file that cannot be removed stays, and nobody hears of it.
UnlinkFails(w) ==
    /\ worker[w].step = "unlink"
    /\ Fault(worker[w].job)
    /\ Continue(w, "ready")
    /\ UNCHANGED <<row, file, queue, stalled, creator, canceller, purge, overdue, cancelled>>

\* The try block covers the rows and the look-ups of the message too.
Throws(w) ==
    /\ worker[w].step \in {"ready", "tell"}
    /\ Fault(worker[w].job)
    /\ Continue(w, "fail")
    /\ UNCHANGED <<row, file, queue, stalled, creator, canceller, purge, overdue, cancelled>>

\* Mutant: the worker ends without a word.
FailSilently(w) ==
    /\ worker[w].step = "fail"
    /\ Finish(w)
    /\ UNCHANGED <<row, file, queue, stalled, creator, canceller, purge, overdue, faults, history>>

\* The catch block; an import deletes its upload after it.
Fail(w) ==
    /\ worker[w].step = "fail"
    /\ SetStatus(worker[w].job, "failed")
    /\ IF worker[w].job \in Imports THEN Continue(w, "drop") ELSE Finish(w)
    /\ UNCHANGED <<file, queue, stalled, creator, canceller, purge, overdue, faults, history>>

DropUpload(w) ==
    /\ worker[w].step = "drop"
    /\ file' = file \ {worker[w].job}
    /\ Finish(w)
    /\ UNCHANGED <<row, queue, stalled, creator, canceller, purge, overdue, faults, history>>

-----------------------------------------------------------------------------
\* cancel: a job that is open; its entry is removed unless a worker holds it.
Cancel(j) ==
    /\ j \in TenantExports
    /\ canceller[j] = "none"
    /\ Open(j)
    /\ canceller' = [canceller EXCEPT ![j] = "remove"]
    /\ UNCHANGED <<row, file, queue, stalled, creator, worker, purge, overdue, faults, history>>

CancelRemove(j) ==
    /\ canceller[j] = "remove"
    /\ queue' = queue \ {j}
    /\ canceller' = [canceller EXCEPT ![j] = "write"]
    /\ UNCHANGED <<row, file, stalled, creator, worker, purge, overdue, faults, history>>

\* A worker has found the job queued: it is about to mark it, or has.
Working(j) == \E w \in Workers : worker[w].job = j /\ worker[w].step # "find"

CancelWrite(j) ==
    /\ canceller[j] = "write"
    /\ SetStatus(j, "failed")
    /\ canceller' = [canceller EXCEPT ![j] = "none"]
    /\ cancelled' = IF Working(j) \/ row[j].status # "queued" THEN cancelled
                    ELSE cancelled \cup {j}
    /\ UNCHANGED <<file, queue, stalled, creator, worker, purge, overdue, faults, hit, lost>>

-----------------------------------------------------------------------------
\* Mutant: whatever became of the job, it expires.
PurgeFindAny ==
    /\ purge = NoPurge
    /\ LET due == {j \in Exports \cap overdue : row[j].status # "none"} IN
       /\ due # {}
       /\ purge' = [NoPurge EXCEPT !.todo = {[job |-> j, key |-> row[j].key] : j \in due}]
    /\ UNCHANGED <<row, file, queue, stalled, creator, worker, canceller, overdue, faults, history>>

\* expireOldJobs, at four in the morning: at most Batch of the workspace
\* exports past their retention, in no order, one after the other.
PurgeFind ==
    /\ purge = NoPurge
    /\ LET due == {j \in Exports \cap overdue : row[j].status \in {"ready", "failed"}} IN
       \E some \in SUBSET due \ {{}} :
          /\ Cardinality(some) <= Batch
          /\ some = due \/ Cardinality(some) = Batch
          /\ purge' = [NoPurge EXCEPT !.todo = {[job |-> j, key |-> row[j].key] : j \in some}]
    /\ UNCHANGED <<row, file, queue, stalled, creator, worker, canceller, overdue, faults, history>>

\* Mutant: the row is all that expires.
PurgeRowOnly(e) ==
    /\ purge.job = None
    /\ e \in purge.todo
    /\ purge' = [todo |-> purge.todo \ {e}, job |-> e.job, key |-> e.key]
    /\ UNCHANGED <<row, file, queue, stalled, creator, worker, canceller, overdue, faults, history>>

PurgeFile(e) ==
    /\ purge.job = None
    /\ e \in purge.todo
    /\ purge' = [todo |-> purge.todo \ {e}, job |-> e.job, key |-> e.key]
    /\ file' = IF e.key THEN file \ {e.job} ELSE file
    /\ UNCHANGED <<row, queue, stalled, creator, worker, canceller, overdue, faults, history>>

PurgeFileFails(e) ==
    /\ purge.job = None
    /\ e \in purge.todo /\ e.key
    /\ Fault(e.job)
    /\ purge' = [todo |-> purge.todo \ {e}, job |-> e.job, key |-> e.key]
    /\ UNCHANGED <<row, file, queue, stalled, creator, worker, canceller, overdue, cancelled>>

PurgeRow ==
    /\ purge.job # None
    /\ row' = [row EXCEPT ![purge.job] = [status |-> "expired", key |-> FALSE]]
    /\ purge' = [NoPurge EXCEPT !.todo = purge.todo]
    /\ UNCHANGED <<file, queue, stalled, creator, worker, canceller, overdue, faults, history>>

-----------------------------------------------------------------------------
\* The environment: time, and faults.  The retention of a tenant export is
\* looked at by its download only, and an import has none.
Age(j) ==
    /\ row[j].status # "none" /\ j \notin overdue
    /\ overdue' = overdue \cup {j}
    /\ UNCHANGED <<row, file, queue, stalled, creator, worker, canceller, purge, faults, history>>

\* A lock is lost: the job waits again, the first time, and the worker may
\* live on.
Stall(w) ==
    /\ worker[w] # Idle
    /\ Loses(worker[w].job)
    /\ LET j == worker[w].job IN
       /\ queue' = IF j \in stalled THEN queue ELSE queue \cup {j}
       /\ stalled' = stalled \cup {j}
    /\ \/ UNCHANGED worker
       \/ Finish(w)
    /\ UNCHANGED <<row, file, creator, canceller, purge, overdue, cancelled>>

\* An await outside the try block throws; staff may put the failed entry of a
\* workspace export back into its queue (retryFailedJobs).
Abort(w) ==
    /\ worker[w].step \in {"find", "mark", "fail", "drop"}
    /\ Loses(worker[w].job)
    /\ Finish(w)
    /\ queue' \in {queue, queue \cup ({worker[w].job} \cap Exports)}
    /\ UNCHANGED <<row, file, stalled, creator, canceller, purge, overdue, cancelled>>

\* The API process dies under a request, or under the purge.
DropRequest(j) ==
    /\ creator[j] # "none" \/ canceller[j] # "none"
    /\ Loses(j)
    /\ creator' = [creator EXCEPT ![j] = "none"]
    /\ canceller' = [canceller EXCEPT ![j] = "none"]
    /\ UNCHANGED <<row, file, queue, stalled, worker, purge, overdue, cancelled>>

DropPurge ==
    /\ purge # NoPurge
    /\ faults < MaxFaults
    /\ faults' = faults + 1
    /\ purge' = NoPurge
    /\ UNCHANGED <<row, file, queue, stalled, creator, worker, canceller, overdue, history>>

-----------------------------------------------------------------------------
Init ==
    /\ row = [j \in Jobs |-> [status |-> "none", key |-> FALSE]]
    /\ file = {}
    /\ queue = {}
    /\ stalled = {}
    /\ creator = [j \in Jobs |-> "none"]
    /\ worker = [w \in Workers |-> Idle]
    /\ canceller = [j \in Jobs |-> "none"]
    /\ purge = NoPurge
    /\ overdue = {}
    /\ cancelled = {}
    /\ faults = 0
    /\ hit = {}
    /\ lost = {}

CreateStep(j) == StoreUpload(j) \/ Add(j) \/ FailCreate(j)
CancelStep(j) == CancelRemove(j) \/ CancelWrite(j)
WorkerStep(w) ==
    \/ \E j \in Jobs : Take(w, j)
    \/ Find(w) \/ Mark(w) \/ Work(w) \/ Unlink(w) \/ Ready(w) \/ Tell(w)
    \/ Fail(w) \/ DropUpload(w)
PurgeStep ==
    \/ PurgeFind
    \/ \E e \in purge.todo : PurgeFile(e)
    \/ PurgeRow

Next ==
    \/ \E j \in Jobs : Create(j) \/ CreateStep(j) \/ AddFails(j)
    \/ \E w \in Workers : WorkerStep(w) \/ UnlinkFails(w) \/ Throws(w) \/ Stall(w) \/ Abort(w)
    \/ \E j \in Jobs : Cancel(j) \/ CancelStep(j)
    \/ PurgeStep \/ \E e \in purge.todo : PurgeFileFails(e)
    \/ \E j \in Exports : Age(j)
    \/ \E j \in Jobs : DropRequest(j)
    \/ DropPurge

Spec == Init /\ [][Next]_vars

\* Requests and workers that have begun go on, waiting jobs are taken, and
\* the purge comes every day.
Fairness ==
    /\ \A j \in Jobs : WF_vars(CreateStep(j))
    /\ \A j \in TenantExports : WF_vars(CancelStep(j))
    /\ \A w \in Workers : WF_vars(WorkerStep(w))
    /\ WF_vars(PurgeStep)

FairSpec == Spec /\ Fairness

-----------------------------------------------------------------------------
\* Type correctness: a slot without a job has no step.
TypeOK ==
    /\ row \in [Jobs -> Row]
    /\ file \subseteq Jobs /\ queue \subseteq Jobs /\ stalled \subseteq Jobs
    /\ creator \in [Jobs -> {"none", "store", "add", "fail"}]
    /\ worker \in [Workers -> [job: Jobs, step: Steps] \cup {Idle}]
    /\ canceller \in [Jobs -> {"none", "remove", "write"}]
    /\ purge \in [todo: SUBSET [job: Exports, key: BOOLEAN], job: Exports \cup {None},
                  key: BOOLEAN]
    /\ overdue \subseteq Exports
    /\ cancelled \subseteq TenantExports
    /\ faults \in 0 .. MaxFaults
    /\ hit \subseteq Jobs
    /\ lost \subseteq Jobs

\* download never answers for a file that is gone: a row that is ready, has a
\* key and is within its retention has its file, whichever workers ran the
\* job, how often, and wherever the purge was interrupted.
ReadyHasFile ==
    \A j \in Jobs : row[j].status = "ready" /\ row[j].key /\ j \notin overdue => j \in file

\* A tenant export makes a file after its cancellation only if a worker had
\* read its row as queued before the cancellation was written: one cancelled
\* sooner stays failed and has none, also when its entry is added, or handed
\* out, after the cancellation.  (One cancelled between that read and the
\* worker's next write is made: see CancelLasts below.)
CancelledNotRun == \A j \in cancelled : row[j].status = "failed" /\ j \notin file

\* No job stays open for ever, also when the queue throws after taking its entry
\* or the row cannot be written at first: unless a worker or a request that had
\* it died, or let it go outside of any catch block.
Settles == \A j \in Jobs : []<>(Open(j) => j \in lost)

\* The file of a workspace export does not stay for ever once its retention is
\* over, although the daily purge takes a few exports at a time, in no order,
\* and may itself be interrupted; unless a fault touched the job (a file that
\* could not be removed, or whose row could not be written, stays).  The exports
\* are finitely many: with more than Batch new ones due every day, for ever, the
\* code bounds no export's wait.
FilesPurged == \A j \in Exports : []<>(j \in overdue \cap file => j \in hit)

\* A workspace export or an import that no fault touched lives as JobLife
\* says: it runs once, fails only with its work undone, is ready only with its
\* file written or its upload used up, and expires only when it has ended, is
\* old and has no file left; however the request, the workers and the purge
\* interleave.  (A cancelled tenant export may still be made: it is not a part.)
Lived == Exports \cup Imports

Life == INSTANCE JobLife WITH
    status  <- [j \in Lived |-> IF j \in hit THEN "lost" ELSE row[j].status],
    file    <- (file \cap Lived) \ hit,
    overdue <- overdue

LifeKept == Life!Spec

-----------------------------------------------------------------------------
(* What the answer of a cancellation says, and the code does not keep.     *)

\* cancel answers that the job has failed ("Cancelled by user"): a tenant export
\* that has failed stays so.
CancelLasts ==
    [][\A j \in TenantExports : row[j].status = "failed" => row'[j].status = "failed"]_vars
=============================================================================
