---------------------------- MODULE DataJobsProofs ----------------------------
(***************************************************************************)
(* A finished export that is within its retention has its file, and a      *)
(* tenant export cancelled before a worker has found it queued never gets  *)
(* one, for any jobs, workers and faults.                                  *)
(*                                                                         *)
(* A status never returns to "queued", so that a worker which has marked a *)
(* job, or has more to do for it, proves that the job has begun; and only  *)
(* a job that has begun has an export's file.                              *)
(*                                                                         *)
(* A workspace export or an import that no fault touched lives as JobLife  *)
(* says, because it is in one place at a time.                             *)
(***************************************************************************)
EXTENDS DataJobs, TLAPS

Begun(j) == row[j].status \notin {"none", "queued"}
Marked   == {"work", "unlink", "ready", "tell", "fail", "drop"}

\* What a worker's step shows of its job.
WorkerOK(w) ==
    LET q == worker[w] IN
    /\ q.step \in Marked => Begun(q.job)
    /\ q.step = "ready" => q.job \in Imports \cup file \cup overdue
    /\ q.step \in {"unlink", "drop"} => q.job \in Imports
    /\ q.job \in cancelled => q.step = "find"

JobOK(j) ==
    /\ row[j].key => j \notin Imports
    /\ row[j].status = "ready" /\ row[j].key => j \in file \cup overdue
    /\ j \in file => j \in Imports \/ Begun(j)
    /\ j \in cancelled => row[j].status = "failed" /\ j \notin file

WorkersOK == \A w \in Workers : WorkerOK(w)
JobsOK    == \A j \in Jobs : JobOK(j)
PurgeOK   == (\A e \in purge.todo : e.job \in overdue) /\ purge.job \in overdue \cup {None}
RequestsOK ==
    /\ \A j \in Jobs : creator[j] = "store" => j \in Imports
    /\ \A j \in Jobs : canceller[j] \in {"remove", "write"} => j \in TenantExports

IInv == TypeOK /\ WorkersOK /\ JobsOK /\ PurgeOK /\ RequestsOK

-----------------------------------------------------------------------------
(* Slots of the workers.                                                   *)

Slot == [job: Jobs, step: Steps] \cup {Idle}

LEMMA IdleSlot == Idle \in Slot /\ Idle.step = "none" /\ Idle.job = None
BY DEF Idle, Slot

\* A worker with a step has a job.
LEMMA HasJob ==
    ASSUME TypeOK, NEW w \in Workers, worker[w].step # "none"
    PROVE  worker[w] \in [job: Jobs, step: Steps] /\ worker[w].job \in Jobs
<1>1. worker[w] \in [job: Jobs, step: Steps] \cup {Idle}
  BY DEF TypeOK
<1> QED
  BY <1>1 DEF Idle

LEMMA Continued ==
    ASSUME TypeOK, NEW w \in Workers, worker[w].step # "none", NEW s \in Steps, Continue(w, s)
    PROVE  /\ worker' \in [Workers -> Slot]
           /\ worker'[w].job = worker[w].job /\ worker'[w].step = s
           /\ \A v \in Workers : v # w => worker'[v] = worker[v]
<1>1. worker \in [Workers -> Slot]
  BY DEF TypeOK, Slot
<1>2. worker[w] \in [job: Jobs, step: Steps]
  BY HasJob
<1>3. worker' = [worker EXCEPT ![w] = [worker[w] EXCEPT !.step = s]]
  BY DEF Continue
<1>4. [worker[w] EXCEPT !.step = s] \in [job: Jobs, step: Steps]
  BY <1>2
<1> QED
  BY <1>1, <1>2, <1>3, <1>4 DEF Slot

LEMMA Finished ==
    ASSUME TypeOK, NEW w \in Workers, Finish(w)
    PROVE  /\ worker' \in [Workers -> Slot]
           /\ worker'[w] = Idle
           /\ \A v \in Workers : v # w => worker'[v] = worker[v]
BY IdleSlot DEF TypeOK, Finish, Slot

\* A slot that is idle shows nothing.
LEMMA IdleOK == ASSUME NEW w \in Workers, worker[w] = Idle, cancelled \subseteq Jobs
                PROVE  WorkerOK(w)
BY IdleSlot, NoneAssumption DEF WorkerOK, Marked

-----------------------------------------------------------------------------
(* What is kept when the rows, the files and the retention change.         *)

\* Statuses do not return to "queued", and files go only when they may.
Onwards ==
    /\ \A j \in Jobs : Begun(j) => Begun(j)'
    /\ \A j \in file \cup overdue : j \in Imports \cup file' \cup overdue'
    /\ cancelled' = cancelled

LEMMA WorkerKept ==
    ASSUME IInv, Onwards, NEW w \in Workers, worker'[w] = worker[w]
    PROVE  WorkerOK(w)'
<1>1. WorkerOK(w)
  BY DEF IInv, WorkersOK
<1>2. CASE worker[w].step = "none"
  <2>1. worker[w].job \notin cancelled
    BY <1>1, <1>2 DEF WorkerOK
  <2> QED
    BY <1>2, <2>1 DEF WorkerOK, Marked, Onwards
<1>3. CASE worker[w].step # "none"
  <2>1. worker[w].job \in Jobs
    BY <1>3, HasJob DEF IInv
  <2> QED
    BY <1>1, <2>1 DEF WorkerOK, Onwards
<1> QED
  BY <1>2, <1>3

LEMMA WorkersKept ==
    ASSUME IInv, Onwards, UNCHANGED worker
    PROVE  WorkersOK'
BY WorkerKept DEF WorkersOK

LEMMA WorkerGoesOn ==
    ASSUME IInv, Onwards, NEW w \in Workers, worker[w].step # "none", NEW s \in Steps,
           NEW j \in Jobs, worker[w].job = j, j \notin cancelled, Continue(w, s),
           s \in Marked => Begun(j)',
           s = "ready" => j \in Imports \cup file' \cup overdue',
           s \in {"unlink", "drop"} => j \in Imports
    PROVE  WorkersOK' /\ worker' \in [Workers -> Slot]
<1>1. /\ worker' \in [Workers -> Slot]
      /\ worker'[w].job = j /\ worker'[w].step = s
      /\ \A v \in Workers : v # w => worker'[v] = worker[v]
  BY Continued DEF IInv
<1>2. WorkerOK(w)'
  BY <1>1 DEF WorkerOK, Onwards, Begun
<1> QED
  BY <1>1, <1>2, WorkerKept DEF WorkersOK

LEMMA WorkerEnds ==
    ASSUME IInv, Onwards, NEW w \in Workers, Finish(w)
    PROVE  WorkersOK' /\ worker' \in [Workers -> Slot]
<1>1. /\ worker' \in [Workers -> Slot] /\ worker'[w] = Idle
      /\ \A v \in Workers : v # w => worker'[v] = worker[v]
  BY Finished DEF IInv
<1>2. WorkerOK(w)'
  <2>1. None \notin cancelled'
    BY NoneAssumption DEF Onwards, IInv, TypeOK, Jobs
  <2> QED
    BY <1>1, <2>1, IdleSlot DEF WorkerOK, Marked
<1> QED
  BY <1>1, <1>2, WorkerKept DEF WorkersOK

LEMMA JobsKept ==
    ASSUME IInv, UNCHANGED <<row, file, cancelled>>, overdue \subseteq overdue'
    PROVE  JobsOK'
BY DEF IInv, JobsOK, JobOK, Begun

\* A job that gets another status and keeps its key, its file and the rest.
LEMMA JobsMoved ==
    ASSUME IInv, NEW j \in Jobs, NEW s \in {"queued", "running", "failed"}, SetStatus(j, s),
           UNCHANGED <<file, overdue, cancelled>>,
           s = "queued" => ~Begun(j), s # "failed" => j \notin cancelled
    PROVE  JobsOK' /\ row' \in [Jobs -> Row] /\ Onwards
<1>1. row \in [Jobs -> Row]
  BY DEF IInv, TypeOK
<1>2. row' = [row EXCEPT ![j] = [row[j] EXCEPT !.status = s]]
  BY DEF SetStatus
<1>3. [row[j] EXCEPT !.status = s] \in Row
  BY <1>1 DEF Row, Statuses
<1>4. row' \in [Jobs -> Row]
  BY <1>1, <1>2, <1>3
<1>5. /\ row'[j].status = s /\ row'[j].key = row[j].key
      /\ \A k \in Jobs : k # j => row'[k] = row[k]
  BY <1>1, <1>2 DEF Row
<1>6. \A k \in Jobs : Begun(k) => Begun(k)'
  BY <1>5 DEF Begun
<1>7. JobsOK'
  <2> SUFFICES ASSUME NEW k \in Jobs PROVE JobOK(k)'
    BY DEF JobsOK
  <2>1. JobOK(k)
    BY DEF IInv, JobsOK
  <2>2. CASE k # j
    BY <1>5, <2>1, <2>2 DEF JobOK, Begun
  <2>3. CASE k = j
    BY <1>5, <1>6, <2>1, <2>3 DEF JobOK
  <2> QED
    BY <2>2, <2>3
<1> QED
  BY <1>4, <1>6, <1>7 DEF Onwards

\* What a fault, and the sets nothing else depends on, have as their types.
Faulty == faults' \in 0 .. MaxFaults /\ hit' \subseteq Jobs /\ lost' \subseteq Jobs

LEMMA FaultTyped ==
    ASSUME TypeOK, NEW j \in Jobs, Fault(j) \/ Loses(j)
    PROVE  Faulty
BY FaultAssumption DEF TypeOK, Fault, Loses, Strikes, Faulty

LEMMA NoFaultTyped ==
    ASSUME TypeOK, UNCHANGED <<faults, hit, lost>>
    PROVE  Faulty
BY DEF TypeOK, Faulty

\* A worker's job has begun, unless the worker is still looking at it.
LEMMA WorkersJob ==
    ASSUME IInv, NEW w \in Workers, worker[w].step # "none"
    PROVE  /\ worker[w].job \in Jobs
           /\ worker[w].step \in Marked => Begun(worker[w].job)
           /\ worker[w].step = "ready" => worker[w].job \in Imports \cup file \cup overdue
           /\ worker[w].step \in {"unlink", "drop"} => worker[w].job \in Imports
           /\ worker[w].step # "find" => worker[w].job \notin cancelled
BY HasJob DEF IInv, WorkersOK, WorkerOK

LEMMA InitIInv == Init => IInv
<1> SUFFICES ASSUME Init PROVE IInv
  OBVIOUS
<1>1. TypeOK
  BY FaultAssumption, IdleSlot DEF Init, TypeOK, Row, Statuses, Slot, NoPurge
<1>2. WorkersOK
  BY IdleSlot, NoneAssumption DEF Init, WorkersOK, WorkerOK, Marked
<1>3. JobsOK
  BY DEF Init, JobsOK, JobOK
<1>4. PurgeOK
  BY DEF Init, PurgeOK, NoPurge
<1>5. RequestsOK
  BY DEF Init, RequestsOK
<1> QED
  BY <1>1, <1>2, <1>3, <1>4, <1>5 DEF IInv

-----------------------------------------------------------------------------
(* The request that creates a job.                                         *)

LEMMA KeepsCreate ==
    ASSUME IInv, NEW j \in Jobs, Create(j)
    PROVE  IInv'
<1>1. ~Begun(j) /\ j \notin cancelled
  BY DEF Create, Begun, IInv, JobsOK, JobOK
<1>2. JobsOK' /\ row' \in [Jobs -> Row] /\ Onwards
  BY <1>1, JobsMoved DEF Create, history
<1>3. WorkersOK'
  BY <1>2, WorkersKept DEF Create
<1>4. TypeOK'
  BY <1>2 DEF IInv, TypeOK, Create, history
<1>5. PurgeOK'
  BY DEF IInv, PurgeOK, Create
<1>6. RequestsOK'
  BY DEF IInv, RequestsOK, TypeOK, Create
<1> QED
  BY <1>2, <1>3, <1>4, <1>5, <1>6 DEF IInv

LEMMA KeepsStoreUpload ==
    ASSUME IInv, NEW j \in Jobs, StoreUpload(j)
    PROVE  IInv'
<1>1. j \in Imports /\ j \notin cancelled
  BY KindsAssumption DEF Jobs, IInv, TypeOK, RequestsOK, StoreUpload
<1>2. Onwards
  BY DEF StoreUpload, Onwards, Begun, history
<1>3. WorkersOK'
  BY <1>2, WorkersKept DEF StoreUpload
<1>4. TypeOK'
  BY <1>1 DEF IInv, TypeOK, StoreUpload, history
<1>5. JobsOK'
  BY <1>1 DEF IInv, JobsOK, JobOK, StoreUpload, Begun, history
<1>6. PurgeOK' /\ RequestsOK'
  BY DEF IInv, PurgeOK, RequestsOK, TypeOK, StoreUpload
<1> QED
  BY <1>3, <1>4, <1>5, <1>6 DEF IInv

LEMMA KeepsAdd ==
    ASSUME IInv, NEW j \in Jobs, Add(j) \/ AddFails(j)
    PROVE  IInv'
<1>1. UNCHANGED <<row, file, overdue, cancelled, worker, purge>>
  BY DEF Add, AddFails, history
<1>2. Onwards
  BY <1>1 DEF Onwards, Begun
<1>3. WorkersOK' /\ JobsOK'
  BY <1>1, <1>2, WorkersKept, JobsKept
<1>4. Faulty
  BY FaultTyped, NoFaultTyped DEF IInv, Add, AddFails, history
<1>5. TypeOK'
  BY <1>1, <1>4 DEF IInv, TypeOK, Add, AddFails, Faulty
<1>6. PurgeOK' /\ RequestsOK'
  BY <1>1 DEF IInv, PurgeOK, RequestsOK, TypeOK, Add, AddFails
<1> QED
  BY <1>3, <1>5, <1>6 DEF IInv

LEMMA KeepsFailCreate ==
    ASSUME IInv, NEW j \in Jobs, FailCreate(j)
    PROVE  IInv'
<1>1. JobsOK' /\ row' \in [Jobs -> Row] /\ Onwards
  BY JobsMoved DEF FailCreate, history
<1>2. WorkersOK'
  BY <1>1, WorkersKept DEF FailCreate
<1>3. TypeOK'
  BY <1>1 DEF IInv, TypeOK, FailCreate, history
<1>4. PurgeOK' /\ RequestsOK'
  BY DEF IInv, PurgeOK, RequestsOK, TypeOK, FailCreate
<1> QED
  BY <1>1, <1>2, <1>3, <1>4 DEF IInv

-----------------------------------------------------------------------------
(* The worker.                                                             *)

LEMMA KeepsTake ==
    ASSUME IInv, NEW w \in Workers, NEW j \in Jobs, Take(w, j)
    PROVE  IInv'
<1>1. /\ UNCHANGED <<row, file, overdue, cancelled, purge, creator, canceller, stalled, faults, hit, lost>>
      /\ queue' = queue \ {j}
      /\ worker' = [worker EXCEPT ![w] = [job |-> j, step |-> "find"]]
  BY DEF Take, history
<1>2. worker \in [Workers -> Slot]
  BY DEF IInv, TypeOK, Slot
<1>3. worker' \in [Workers -> Slot]
  BY <1>1, <1>2 DEF Slot, Steps
<1>4. Onwards
  BY <1>1 DEF Onwards, Begun
<1>5. WorkerOK(w)'
  BY <1>1, <1>2 DEF WorkerOK, Marked
<1>6. WorkersOK'
  BY <1>1, <1>2, <1>4, <1>5, WorkerKept DEF WorkersOK
<1>7. TypeOK'
  BY <1>1, <1>3 DEF IInv, TypeOK, Slot
<1>8. JobsOK' /\ PurgeOK' /\ RequestsOK'
  BY <1>1, JobsKept DEF IInv, PurgeOK, RequestsOK
<1> QED
  BY <1>6, <1>7, <1>8 DEF IInv

LEMMA KeepsFind ==
    ASSUME IInv, NEW w \in Workers, Find(w)
    PROVE  IInv'
<1>1. UNCHANGED <<row, file, overdue, cancelled, purge, creator, queue, canceller, stalled, faults, hit, lost>>
  BY DEF Find, history
<1>2. Onwards
  BY <1>1 DEF Onwards, Begun
<1> PICK j \in Jobs : worker[w].job = j
  BY WorkersJob DEF Find
<1>4. WorkersOK' /\ worker' \in [Workers -> Slot]
  <2>1. CASE row[worker[w].job].status = "queued"
    <3>1. Continue(w, "mark")
      BY <2>1 DEF Find
    <3>2. j \notin cancelled
      BY <2>1 DEF IInv, JobsOK, JobOK
    <3> QED
      BY <1>2, <3>1, <3>2, WorkerGoesOn DEF Find, Steps, Marked
  <2>2. CASE row[worker[w].job].status # "queued"
    BY <1>2, <2>2, WorkerEnds DEF Find
  <2> QED
    BY <2>1, <2>2
<1>5. TypeOK'
  BY <1>1, <1>4 DEF IInv, TypeOK, Slot
<1>6. JobsOK' /\ PurgeOK' /\ RequestsOK'
  BY <1>1, JobsKept DEF IInv, PurgeOK, RequestsOK
<1> QED
  BY <1>4, <1>5, <1>6 DEF IInv

LEMMA KeepsMark ==
    ASSUME IInv, NEW w \in Workers, Mark(w)
    PROVE  IInv'
<1>1. UNCHANGED <<file, overdue, cancelled, purge, creator, queue, canceller, stalled, faults, hit, lost>>
  BY DEF Mark, history
<1> PICK j \in Jobs : worker[w].job = j
  BY WorkersJob DEF Mark
<1>2. j \notin cancelled
  BY WorkersJob DEF Mark
<1>3. JobsOK' /\ row' \in [Jobs -> Row] /\ Onwards
  BY <1>1, <1>2, JobsMoved DEF Mark
<1>4. Begun(j)'
  BY <1>2 DEF Mark, SetStatus, IInv, TypeOK, Row, Begun
<1>5. WorkersOK' /\ worker' \in [Workers -> Slot]
  BY <1>2, <1>3, <1>4, WorkerGoesOn DEF Mark, Steps
<1>6. TypeOK'
  BY <1>1, <1>3, <1>5 DEF IInv, TypeOK, Slot
<1>7. PurgeOK' /\ RequestsOK'
  BY <1>1 DEF IInv, PurgeOK, RequestsOK
<1> QED
  BY <1>3, <1>5, <1>6, <1>7 DEF IInv

\* A job's file that a worker writes or deletes.
LEMMA JobsFiled ==
    ASSUME IInv, NEW j \in Jobs, UNCHANGED <<row, overdue, cancelled>>, j \notin cancelled,
           \/ file' = file \cup {j} /\ Begun(j)
           \/ file' = file \ {j} /\ j \in Imports
    PROVE  JobsOK' /\ file' \subseteq Jobs /\ Onwards
<1>1. JobsOK'
  BY DEF IInv, JobsOK, JobOK, Begun
<1>2. file' \subseteq Jobs
  BY DEF IInv, TypeOK
<1>3. Onwards
  BY <1>2 DEF Onwards, Begun, IInv, TypeOK
<1> QED
  BY <1>1, <1>2, <1>3

LEMMA KeepsWork ==
    ASSUME IInv, NEW w \in Workers, Work(w)
    PROVE  IInv'
<1>1. UNCHANGED <<row, overdue, cancelled, purge, creator, queue, canceller, stalled, faults, hit, lost>>
  BY DEF Work, history
<1> PICK j \in Jobs : worker[w].job = j
  BY WorkersJob DEF Work
<1>2. j \notin cancelled /\ Begun(j)
  BY WorkersJob DEF Work, Marked
<1>3. Begun(j)'
  BY <1>1, <1>2 DEF Begun
<1>4. WorkersOK' /\ worker' \in [Workers -> Slot] /\ JobsOK' /\ file' \subseteq Jobs
  <2>1. CASE Continue(w, "fail") /\ UNCHANGED file
    <3>1. Onwards
      BY <1>1, <2>1 DEF Onwards, Begun
    <3> QED
      BY <1>1, <1>2, <1>3, <2>1, <3>1, WorkerGoesOn, JobsKept DEF Work, Steps, IInv, TypeOK
  <2>2. CASE file' = file \cup {j} /\ Continue(w, "ready")
    <3>1. JobsOK' /\ file' \subseteq Jobs /\ Onwards
      BY <1>1, <1>2, <2>2, JobsFiled
    <3> QED
      BY <1>2, <1>3, <2>2, <3>1, WorkerGoesOn DEF Work, Steps
  <2>3. CASE j \in Imports /\ Continue(w, "unlink") /\ UNCHANGED file
    <3>1. Onwards
      BY <1>1, <2>3 DEF Onwards, Begun
    <3> QED
      BY <1>1, <1>2, <1>3, <2>3, <3>1, WorkerGoesOn, JobsKept DEF Work, Steps, IInv, TypeOK
  <2> QED
    BY <2>1, <2>2, <2>3 DEF Work
<1>5. TypeOK'
  BY <1>1, <1>4 DEF IInv, TypeOK, Slot
<1>6. PurgeOK' /\ RequestsOK'
  BY <1>1 DEF IInv, PurgeOK, RequestsOK
<1> QED
  BY <1>4, <1>5, <1>6 DEF IInv

LEMMA KeepsUnlink ==
    ASSUME IInv, NEW w \in Workers, Unlink(w)
    PROVE  IInv'
<1>1. UNCHANGED <<row, overdue, cancelled, purge, creator, queue, canceller, stalled, faults, hit, lost>>
  BY DEF Unlink, history
<1> PICK j \in Jobs : worker[w].job = j
  BY WorkersJob DEF Unlink
<1>2. j \in Imports /\ j \notin cancelled /\ Begun(j)
  BY WorkersJob DEF Unlink, Marked
<1>3. JobsOK' /\ file' \subseteq Jobs /\ Onwards
  BY <1>1, <1>2, JobsFiled DEF Unlink
<1>4. WorkersOK' /\ worker' \in [Workers -> Slot]
  BY <1>1, <1>2, <1>3, WorkerGoesOn DEF Unlink, Steps, Begun
<1>5. TypeOK'
  BY <1>1, <1>3, <1>4 DEF IInv, TypeOK, Slot
<1>6. PurgeOK' /\ RequestsOK'
  BY <1>1 DEF IInv, PurgeOK, RequestsOK
<1> QED
  BY <1>3, <1>4, <1>5, <1>6 DEF IInv

LEMMA KeepsReady ==
    ASSUME IInv, NEW w \in Workers, Ready(w)
    PROVE  IInv'
<1>1. UNCHANGED <<file, overdue, cancelled, purge, creator, queue, canceller, stalled, faults, hit, lost>>
  BY DEF Ready, history
<1> PICK j \in Jobs : worker[w].job = j
  BY WorkersJob DEF Ready
<1>2. j \notin cancelled /\ j \in Imports \cup file \cup overdue
  BY WorkersJob DEF Ready
<1> DEFINE key == j \notin Imports
<1>3. row \in [Jobs -> Row] /\ row' = [row EXCEPT ![j] = [status |-> "ready", key |-> key]]
  BY DEF Ready, IInv, TypeOK
<1>0. key \in BOOLEAN /\ (key => j \notin Imports)
  OBVIOUS
<1> HIDE DEF key
<1>4. row' \in [Jobs -> Row]
  BY <1>3, <1>0 DEF Row, Statuses
<1>5. /\ row'[j].status = "ready" /\ row'[j].key = key
      /\ \A k \in Jobs : k # j => row'[k] = row[k]
  BY <1>3
<1>6. Onwards
  BY <1>1, <1>5 DEF Onwards, Begun
<1>7. JobsOK'
  <2> SUFFICES ASSUME NEW k \in Jobs PROVE JobOK(k)'
    BY DEF JobsOK
  <2>1. JobOK(k)
    BY DEF IInv, JobsOK
  <2>2. CASE k # j
    BY <1>1, <1>5, <2>1, <2>2 DEF JobOK, Begun
  <2>3. CASE k = j
    BY <1>1, <1>2, <1>0, <1>5, <2>1, <2>3 DEF JobOK, Begun
  <2> QED
    BY <2>2, <2>3
<1>8. WorkersOK' /\ worker' \in [Workers -> Slot]
  BY <1>2, <1>5, <1>6, WorkerGoesOn DEF Ready, Steps, Begun
<1>9. TypeOK'
  BY <1>1, <1>4, <1>8 DEF IInv, TypeOK, Slot
<1>10. PurgeOK' /\ RequestsOK'
  BY <1>1 DEF IInv, PurgeOK, RequestsOK
<1> QED
  BY <1>7, <1>8, <1>9, <1>10 DEF IInv

\* A worker that ends, whether or not a fault made it and staff put the entry
\* back.
LEMMA KeepsTell ==
    ASSUME IInv, NEW w \in Workers, Tell(w) \/ Abort(w)
    PROVE  IInv'
<1>1. UNCHANGED <<row, file, overdue, cancelled, purge, creator, canceller, stalled>>
  BY DEF Tell, Abort, history
<1>2. Faulty
  BY FaultTyped, NoFaultTyped, WorkersJob DEF IInv, Tell, Abort, history
<1>3. queue' \subseteq Jobs
  BY DEF IInv, TypeOK, Jobs, Tell, Abort
<1>4. Onwards
  BY <1>1 DEF Onwards, Begun
<1>5. WorkersOK' /\ worker' \in [Workers -> Slot]
  BY <1>4, WorkerEnds DEF Tell, Abort
<1>6. TypeOK'
  BY <1>1, <1>2, <1>3, <1>5 DEF IInv, TypeOK, Slot, Faulty
<1>7. JobsOK' /\ PurgeOK' /\ RequestsOK'
  BY <1>1, JobsKept DEF IInv, PurgeOK, RequestsOK
<1> QED
  BY <1>5, <1>6, <1>7 DEF IInv

LEMMA KeepsThrows ==
    ASSUME IInv, NEW w \in Workers, Throws(w) \/ UnlinkFails(w)
    PROVE  IInv'
<1>1. UNCHANGED <<row, file, overdue, cancelled, purge, creator, queue, canceller, stalled>>
  BY DEF Throws, UnlinkFails
<1> PICK j \in Jobs : worker[w].job = j
  BY WorkersJob DEF Throws, UnlinkFails
<1>2. j \notin cancelled /\ Begun(j) /\ (UnlinkFails(w) => j \in Imports)
  BY WorkersJob DEF Throws, UnlinkFails, Marked
<1>3. Faulty
  BY FaultTyped DEF IInv, Throws, UnlinkFails
<1>4. Onwards
  BY <1>1 DEF Onwards, Begun
<1>5. WorkersOK' /\ worker' \in [Workers -> Slot]
  BY <1>1, <1>2, <1>4, WorkerGoesOn DEF Throws, UnlinkFails, Steps, Begun
<1>6. TypeOK'
  BY <1>1, <1>3, <1>5 DEF IInv, TypeOK, Slot, Faulty
<1>7. JobsOK' /\ PurgeOK' /\ RequestsOK'
  BY <1>1, JobsKept DEF IInv, PurgeOK, RequestsOK
<1> QED
  BY <1>5, <1>6, <1>7 DEF IInv

LEMMA KeepsFail ==
    ASSUME IInv, NEW w \in Workers, Fail(w)
    PROVE  IInv'
<1>1. UNCHANGED <<file, overdue, cancelled, purge, creator, queue, canceller, stalled, faults, hit, lost>>
  BY DEF Fail, history
<1> PICK j \in Jobs : worker[w].job = j
  BY WorkersJob DEF Fail
<1>2. j \notin cancelled
  BY WorkersJob DEF Fail
<1>3. JobsOK' /\ row' \in [Jobs -> Row] /\ Onwards
  BY <1>1, JobsMoved DEF Fail
<1>4. Begun(j)'
  BY DEF Fail, SetStatus, IInv, TypeOK, Row, Begun
<1>5. WorkersOK' /\ worker' \in [Workers -> Slot]
  <2>1. CASE j \in Imports
    BY <1>2, <1>3, <1>4, <2>1, WorkerGoesOn DEF Fail, Steps
  <2>2. CASE j \notin Imports
    BY <1>3, <2>2, WorkerEnds DEF Fail
  <2> QED
    BY <2>1, <2>2
<1>6. TypeOK'
  BY <1>1, <1>3, <1>5 DEF IInv, TypeOK, Slot
<1>7. PurgeOK' /\ RequestsOK'
  BY <1>1 DEF IInv, PurgeOK, RequestsOK
<1> QED
  BY <1>3, <1>5, <1>6, <1>7 DEF IInv

LEMMA KeepsDropUpload ==
    ASSUME IInv, NEW w \in Workers, DropUpload(w)
    PROVE  IInv'
<1>1. UNCHANGED <<row, overdue, cancelled, purge, creator, queue, canceller, stalled, faults, hit, lost>>
  BY DEF DropUpload, history
<1> PICK j \in Jobs : worker[w].job = j
  BY WorkersJob DEF DropUpload
<1>2. j \in Imports /\ j \notin cancelled
  BY WorkersJob DEF DropUpload
<1>3. JobsOK' /\ file' \subseteq Jobs /\ Onwards
  BY <1>1, <1>2, JobsFiled DEF DropUpload
<1>4. WorkersOK' /\ worker' \in [Workers -> Slot]
  BY <1>3, WorkerEnds DEF DropUpload
<1>5. TypeOK'
  BY <1>1, <1>3, <1>4 DEF IInv, TypeOK, Slot
<1>6. PurgeOK' /\ RequestsOK'
  BY <1>1 DEF IInv, PurgeOK, RequestsOK
<1> QED
  BY <1>3, <1>4, <1>5, <1>6 DEF IInv

LEMMA KeepsStall ==
    ASSUME IInv, NEW w \in Workers, Stall(w)
    PROVE  IInv'
<1>1. UNCHANGED <<row, file, overdue, cancelled, purge, creator, canceller>>
  BY DEF Stall
<1>2. PICK j \in Jobs : worker[w].job = j
  <2>1. worker[w] \in [job: Jobs, step: Steps] \cup {Idle}
    BY DEF IInv, TypeOK
  <2> QED
    BY <2>1 DEF Stall
<1>3. Faulty /\ queue' \subseteq Jobs /\ stalled' \subseteq Jobs
  BY <1>2, FaultTyped DEF IInv, TypeOK, Stall
<1>4. Onwards
  BY <1>1 DEF Onwards, Begun
<1>5. WorkersOK' /\ worker' \in [Workers -> Slot]
  BY <1>4, WorkerEnds, WorkersKept DEF Stall, IInv, TypeOK, Slot
<1>6. TypeOK'
  BY <1>1, <1>3, <1>5 DEF IInv, TypeOK, Slot, Faulty
<1>7. JobsOK' /\ PurgeOK' /\ RequestsOK'
  BY <1>1, JobsKept DEF IInv, PurgeOK, RequestsOK
<1> QED
  BY <1>5, <1>6, <1>7 DEF IInv

-----------------------------------------------------------------------------
(* A cancellation.                                                         *)

LEMMA KeepsCancel ==
    ASSUME IInv, NEW j \in Jobs, Cancel(j) \/ CancelRemove(j) \/ DropRequest(j)
    PROVE  IInv'
<1>1. UNCHANGED <<row, file, overdue, cancelled, worker, purge, stalled>>
  BY DEF Cancel, CancelRemove, DropRequest, history
<1>2. Onwards
  BY <1>1 DEF Onwards, Begun
<1>3. WorkersOK' /\ JobsOK'
  BY <1>1, <1>2, WorkersKept, JobsKept
<1>4. Faulty
  BY FaultTyped, NoFaultTyped DEF IInv, Cancel, CancelRemove, DropRequest, history
<1>5. TypeOK'
  BY <1>1, <1>4 DEF IInv, TypeOK, Cancel, CancelRemove, DropRequest, Faulty
<1>6. PurgeOK' /\ RequestsOK'
  BY <1>1 DEF IInv, PurgeOK, RequestsOK, TypeOK, Cancel, CancelRemove, DropRequest
<1> QED
  BY <1>3, <1>5, <1>6 DEF IInv

\* A queued job that no worker has found so has no file, and one that looks at
\* it next finds it failed.
LEMMA KeepsCancelWrite ==
    ASSUME IInv, NEW j \in Jobs, CancelWrite(j)
    PROVE  IInv'
<1>1. UNCHANGED <<file, queue, stalled, creator, worker, purge, overdue, faults, hit, lost>>
  BY DEF CancelWrite
<1>2. row \in [Jobs -> Row] /\ j \in TenantExports /\ j \notin Imports
  BY KindsAssumption DEF IInv, TypeOK, RequestsOK, CancelWrite
<1>3. row' = [row EXCEPT ![j] = [row[j] EXCEPT !.status = "failed"]]
  BY DEF CancelWrite, SetStatus
<1>4. row' \in [Jobs -> Row]
  BY <1>2, <1>3 DEF Row, Statuses
<1>5. /\ row'[j].status = "failed" /\ row'[j].key = row[j].key
      /\ \A k \in Jobs : k # j => row'[k] = row[k]
  BY <1>2, <1>3 DEF Row
<1>6. /\ cancelled \subseteq cancelled' /\ cancelled' \subseteq cancelled \cup {j}
      /\ j \in cancelled' => j \in cancelled \/ (~Working(j) /\ row[j].status = "queued")
  BY DEF CancelWrite
<1>7. JobsOK'
  <2> SUFFICES ASSUME NEW k \in Jobs PROVE JobOK(k)'
    BY DEF JobsOK
  <2>1. JobOK(k)
    BY DEF IInv, JobsOK
  <2>2. CASE k # j
    BY <1>1, <1>5, <1>6, <2>1, <2>2 DEF JobOK, Begun
  <2>3. CASE k = j
    BY <1>1, <1>2, <1>5, <1>6, <2>1, <2>3 DEF JobOK, Begun
  <2> QED
    BY <2>2, <2>3
<1>8. WorkersOK'
  <2> SUFFICES ASSUME NEW w \in Workers PROVE WorkerOK(w)'
    BY DEF WorkersOK
  <2>1. WorkerOK(w)
    BY DEF IInv, WorkersOK
  <2>2. \A k \in Jobs : Begun(k) => Begun(k)'
    BY <1>5 DEF Begun
  <2>3. worker[w].step \in Marked => worker[w].job \in Jobs
    BY WorkersJob DEF Marked
  <2>4. worker[w].step \in Marked => Begun(worker[w].job)'
    BY <1>1, <2>1, <2>2, <2>3 DEF WorkerOK, Begun
  <2>5. worker[w].job \in cancelled' => worker[w].step = "find"
    BY <1>6, <2>1 DEF WorkerOK, Working
  <2> QED
    BY <1>1, <2>1, <2>4, <2>5 DEF WorkerOK
<1>9. TypeOK'
  BY <1>1, <1>2, <1>4, <1>6 DEF IInv, TypeOK, CancelWrite
<1>10. PurgeOK' /\ RequestsOK'
  BY <1>1 DEF IInv, TypeOK, PurgeOK, RequestsOK, CancelWrite
<1> QED
  BY <1>7, <1>8, <1>9, <1>10 DEF IInv

-----------------------------------------------------------------------------
(* The purge, and time.                                                    *)

\* What the purge leaves alone.
PurgeFrame == UNCHANGED <<queue, stalled, creator, worker, canceller, overdue, cancelled>> /\ Faulty

LEMMA PurgeSteps ==
    ASSUME IInv, NEW todo, NEW j, NEW key, purge' = [todo |-> todo, job |-> j, key |-> key],
           todo \subseteq [job: Exports \cap overdue, key: BOOLEAN],
           j \in (Exports \cap overdue) \cup {None}, key \in BOOLEAN,
           row' \in [Jobs -> Row], file' \subseteq Jobs, PurgeFrame
    PROVE  TypeOK' /\ PurgeOK' /\ RequestsOK'
<1>1. purge' \in [todo: SUBSET [job: Exports, key: BOOLEAN], job: Exports \cup {None},
                  key: BOOLEAN]
  <2>1. [job: Exports \cap overdue, key: BOOLEAN] \subseteq [job: Exports, key: BOOLEAN]
    OBVIOUS
  <2>2. todo \in SUBSET [job: Exports, key: BOOLEAN]
    BY <2>1
  <2> QED
    BY <2>2
<1>2. TypeOK'
  BY <1>1 DEF IInv, TypeOK, PurgeFrame, Faulty
<1>3. PurgeOK'
  BY DEF PurgeOK, PurgeFrame
<1> QED
  BY <1>2, <1>3 DEF IInv, RequestsOK, PurgeFrame

LEMMA KeepsPurgeFind ==
    ASSUME IInv, PurgeFind
    PROVE  IInv'
<1> PICK some \in SUBSET (Exports \cap overdue) :
        purge' = [NoPurge EXCEPT !.todo = {[job |-> j, key |-> row[j].key] : j \in some}]
  BY DEF PurgeFind
<1> DEFINE todo == {[job |-> j, key |-> row[j].key] : j \in some}
<1>1. purge' = [todo |-> todo, job |-> None, key |-> FALSE]
  BY DEF NoPurge
<1>2. UNCHANGED <<row, file, queue, stalled, creator, worker, canceller, overdue, cancelled, faults, hit, lost>>
  BY DEF PurgeFind, history
<1>3. \A j \in Exports : row[j].key \in BOOLEAN
  BY DEF IInv, TypeOK, Row, Jobs
<1>4. todo \subseteq [job: Exports \cap overdue, key: BOOLEAN]
  BY <1>3
<1> HIDE DEF todo
<1>5. PurgeFrame
  BY <1>2, NoFaultTyped DEF PurgeFrame, IInv
<1>6. TypeOK' /\ PurgeOK' /\ RequestsOK'
  BY <1>1, <1>2, <1>4, <1>5, PurgeSteps DEF IInv, TypeOK
<1>7. Onwards
  BY <1>2 DEF Onwards, Begun
<1>8. WorkersOK' /\ JobsOK'
  BY <1>2, <1>7, WorkersKept, JobsKept
<1> QED
  BY <1>6, <1>8 DEF IInv

LEMMA KeepsPurgeFile ==
    ASSUME IInv, NEW e \in purge.todo, PurgeFile(e) \/ PurgeFileFails(e)
    PROVE  IInv'
<1>1. /\ purge' = [todo |-> purge.todo \ {e}, job |-> e.job, key |-> e.key]
      /\ UNCHANGED <<row, queue, stalled, creator, worker, canceller, overdue, cancelled>>
  BY DEF PurgeFile, PurgeFileFails, history
<1>2. /\ purge.todo \subseteq [job: Exports \cap overdue, key: BOOLEAN]
      /\ e.job \in Exports \cap overdue /\ e.key \in BOOLEAN
  BY DEF IInv, TypeOK, PurgeOK
<1>3. e.job \in Jobs /\ e.job \notin cancelled
  BY <1>2, KindsAssumption DEF Jobs, IInv, TypeOK
<1>4. file' \in {file, file \ {e.job}}
  BY DEF PurgeFile, PurgeFileFails
<1>5. PurgeFrame
  BY <1>1, <1>3, FaultTyped, NoFaultTyped DEF PurgeFrame, IInv, PurgeFile, PurgeFileFails, history
<1>6. TypeOK' /\ PurgeOK' /\ RequestsOK'
  BY <1>1, <1>2, <1>4, <1>5, PurgeSteps DEF IInv, TypeOK
<1>7. Onwards
  BY <1>1, <1>2, <1>4 DEF Onwards, Begun, IInv, TypeOK
<1>8. JobsOK'
  BY <1>1, <1>2, <1>4 DEF IInv, JobsOK, JobOK, Begun
<1>9. WorkersOK'
  BY <1>1, <1>7, WorkersKept
<1> QED
  BY <1>6, <1>8, <1>9 DEF IInv

LEMMA KeepsPurgeRow ==
    ASSUME IInv, PurgeRow
    PROVE  IInv'
<1>1. /\ purge' = [todo |-> purge.todo, job |-> None, key |-> FALSE]
      /\ UNCHANGED <<file, queue, stalled, creator, worker, canceller, overdue, cancelled, faults, hit, lost>>
  BY DEF PurgeRow, history, NoPurge
<1> PICK j \in Exports \cap overdue : purge.job = j
  BY DEF PurgeRow, IInv, TypeOK, PurgeOK
<1>2. j \in Jobs /\ j \notin cancelled
  BY KindsAssumption DEF Jobs, IInv, TypeOK
<1>3. row \in [Jobs -> Row] /\ row' = [row EXCEPT ![j] = [status |-> "expired", key |-> FALSE]]
  BY DEF PurgeRow, IInv, TypeOK
<1>4. row' \in [Jobs -> Row]
  BY <1>3 DEF Row, Statuses
<1>5. /\ row'[j].status = "expired" /\ ~row'[j].key
      /\ \A k \in Jobs : k # j => row'[k] = row[k]
  BY <1>2, <1>3
<1>6. PurgeFrame
  BY <1>1, NoFaultTyped DEF PurgeFrame, IInv
<1>7. purge.todo \subseteq [job: Exports \cap overdue, key: BOOLEAN]
  BY DEF IInv, TypeOK, PurgeOK
<1>8. TypeOK' /\ PurgeOK' /\ RequestsOK'
  BY <1>1, <1>4, <1>6, <1>7, PurgeSteps DEF IInv, TypeOK
<1>9. Onwards
  BY <1>1, <1>5 DEF Onwards, Begun
<1>10. JobsOK'
  BY <1>1, <1>2, <1>5 DEF IInv, JobsOK, JobOK, Begun
<1>11. WorkersOK'
  BY <1>1, <1>9, WorkersKept
<1> QED
  BY <1>8, <1>10, <1>11 DEF IInv

LEMMA KeepsDropPurge ==
    ASSUME IInv, DropPurge
    PROVE  IInv'
<1>1. /\ purge' = NoPurge /\ faults < MaxFaults /\ faults' = faults + 1
      /\ UNCHANGED <<row, file, queue, stalled, creator, worker, canceller, overdue, cancelled, hit, lost>>
  BY DEF DropPurge, history
<1>2. TypeOK'
  BY <1>1, FaultAssumption DEF IInv, TypeOK, NoPurge
<1>3. PurgeOK' /\ RequestsOK'
  BY <1>1 DEF IInv, PurgeOK, RequestsOK, NoPurge
<1>4. Onwards
  BY <1>1 DEF Onwards, Begun
<1>5. WorkersOK' /\ JobsOK'
  BY <1>1, <1>4, WorkersKept, JobsKept
<1> QED
  BY <1>2, <1>3, <1>5 DEF IInv

LEMMA KeepsAge ==
    ASSUME IInv, NEW j \in Exports, Age(j)
    PROVE  IInv'
<1>1. /\ overdue' = overdue \cup {j}
      /\ UNCHANGED <<row, file, queue, stalled, creator, worker, canceller, purge, cancelled, faults, hit, lost>>
  BY DEF Age, history
<1>2. TypeOK'
  BY <1>1 DEF IInv, TypeOK
<1>3. PurgeOK' /\ RequestsOK'
  BY <1>1 DEF IInv, PurgeOK, RequestsOK
<1>4. Onwards
  BY <1>1 DEF Onwards, Begun, IInv, TypeOK
<1>5. WorkersOK' /\ JobsOK'
  BY <1>1, <1>4, WorkersKept, JobsKept
<1> QED
  BY <1>2, <1>3, <1>5 DEF IInv

LEMMA Stutters ==
    ASSUME IInv, UNCHANGED vars
    PROVE  IInv'
BY DEF IInv, TypeOK, WorkersOK, WorkerOK, JobsOK, JobOK, PurgeOK, RequestsOK, Begun, vars, history

-----------------------------------------------------------------------------
LEMMA NextIInv == IInv /\ [Next]_vars => IInv'
<1> SUFFICES ASSUME IInv, [Next]_vars PROVE IInv'
  OBVIOUS
<1>1. CASE \E j \in Jobs : Create(j) \/ CreateStep(j) \/ AddFails(j)
  BY <1>1, KeepsCreate, KeepsStoreUpload, KeepsAdd, KeepsFailCreate DEF CreateStep
<1>2. CASE \E w \in Workers : WorkerStep(w)
  BY <1>2, KeepsTake, KeepsFind, KeepsMark, KeepsWork, KeepsUnlink, KeepsReady, KeepsTell,
     KeepsFail, KeepsDropUpload DEF WorkerStep
<1>3. CASE \E w \in Workers : UnlinkFails(w) \/ Throws(w) \/ Stall(w) \/ Abort(w)
  BY <1>3, KeepsThrows, KeepsStall, KeepsTell
<1>4. CASE \E j \in Jobs : Cancel(j) \/ CancelStep(j) \/ DropRequest(j)
  BY <1>4, KeepsCancel, KeepsCancelWrite DEF CancelStep
<1>5. CASE PurgeStep \/ (\E e \in purge.todo : PurgeFileFails(e)) \/ DropPurge
  BY <1>5, KeepsPurgeFind, KeepsPurgeFile, KeepsPurgeRow, KeepsDropPurge DEF PurgeStep
<1>6. CASE \E j \in Exports : Age(j)
  BY <1>6, KeepsAge
<1>7. CASE UNCHANGED vars
  BY <1>7, Stutters
<1> QED
  BY <1>1, <1>2, <1>3, <1>4, <1>5, <1>6, <1>7 DEF Next

\* The inductive invariant holds throughout.
THEOREM Invariance == Spec => []IInv
<1> QED
  BY InitIInv, NextIInv, PTL DEF Spec

\* Type correctness: a worker's slot without a job has no step.
THEOREM TypeCorrect == Spec => []TypeOK
<1>1. IInv => TypeOK
  BY DEF IInv
<1> QED
  BY <1>1, Invariance, PTL

\* An export that download would answer for has its file, whatever workers
\* ran it, how often, and wherever they and the purge were interrupted.
THEOREM FileOfReady == Spec => []ReadyHasFile
<1>1. IInv => ReadyHasFile
  BY DEF IInv, JobsOK, JobOK, ReadyHasFile
<1> QED
  BY <1>1, Invariance, PTL

\* A tenant export whose cancellation is written before a worker has found its
\* row queued stays failed, and no file of it is ever written.  Nothing is said
\* of one cancelled after that read, marked by the worker or not.
THEOREM CancelledStays == Spec => []CancelledNotRun
<1>1. IInv => CancelledNotRun
  BY DEF IInv, TypeOK, JobsOK, JobOK, CancelledNotRun, Jobs
<1> QED
  BY <1>1, Invariance, PTL
-----------------------------------------------------------------------------
(* The refinement of JobLife.                                              *)
(*                                                                         *)
(* A job that no fault touched is in one place at a time: with the request *)
(* that creates it, in the queue or with one worker; and its place tells   *)
(* its status and whether its work is done.                                *)

\* A workspace export without its file, or an import with its upload.
Undone(j) == j \in file <=> j \in Imports

Stage == [step \in Steps |->
    CASE step \in {"find", "mark"}           -> {"queued"}
      [] step = "tell"                       -> {"ready", "expired"}
      [] step = "drop"                       -> {"failed"}
      [] OTHER                               -> {"running"}]

\* The worker w may have job j.
Serves(w, j) ==
    LET s == worker[w].step IN
    /\ row[j].status \in Stage[s]
    /\ s \in {"find", "mark", "work", "fail", "unlink"} => Undone(j)
    /\ s = "ready" => ~Undone(j)

PlacesOK(j) ==
    /\ creator[j] \in {"none", "store", "add"}
    /\ creator[j] # "none" \/ j \in queue => row[j].status = "queued"
    /\ creator[j] = "add" \/ j \in queue => Undone(j)
    /\ creator[j] # "none" => j \notin queue
    /\ \A w \in Workers : worker[w].job = j =>
           /\ Serves(w, j)
           /\ creator[j] = "none" /\ j \notin queue
           /\ \A v \in Workers : worker[v].job = j => v = w

RestOK(j) ==
    /\ row[j].key <=> j \in Exports /\ row[j].status = "ready"
    /\ j \in Exports /\ row[j].status = "failed" => j \notin file
    /\ \A e \in purge.todo : e.job = j =>
           row[j].status = IF e.key THEN "ready" ELSE "failed"
    /\ purge.job = j =>
           /\ row[j].status \in {"ready", "failed"} /\ j \notin file
           /\ \A e \in purge.todo : e.job # j

LifeInv == \A j \in Lived \ hit : PlacesOK(j) /\ RestOK(j)

\* No step moves job k.
Same(k) ==
    /\ row'[k] = row[k]
    /\ k \in file' <=> k \in file
    /\ k \in queue' <=> k \in queue
    /\ creator'[k] = creator[k]
    /\ \A w \in Workers : worker'[w].job = k => worker'[w] = worker[w]
    /\ \A e \in purge'.todo : e.job = k => e \in purge.todo
    /\ purge'.job = k => purge.job = k

LEMMA LivedJobs == Lived \subseteq Jobs /\ None \notin Lived
BY NoneAssumption DEF Lived, Jobs

LEMMA SameLives ==
    ASSUME NEW k \in Lived, PlacesOK(k), RestOK(k), Same(k)
    PROVE  PlacesOK(k)' /\ RestOK(k)'
<1>1. Undone(k)' <=> Undone(k)
  BY DEF Same, Undone
<1>2. \A w \in Workers : worker'[w].job = k /\ Serves(w, k) => Serves(w, k)'
  BY <1>1 DEF Same, Serves
<1>3. PlacesOK(k)'
  BY <1>1, <1>2 DEF Same, PlacesOK
<1>4. RestOK(k)'
  BY DEF Same, RestOK
<1> QED
  BY <1>3, <1>4

\* All jobs but one are left alone.
LEMMA OthersLive ==
    ASSUME LifeInv, hit \subseteq hit', NEW j, \A k \in Lived : k # j => Same(k),
           j \in Lived \ hit' => PlacesOK(j)' /\ RestOK(j)'
    PROVE  LifeInv'
BY SameLives DEF LifeInv

LEMMA StepOfSlot ==
    ASSUME TypeOK, NEW w \in Workers, worker[w] # Idle
    PROVE  worker[w].step # "none"
BY DEF TypeOK, Steps

\* A worker that goes on, or ends, has to do with no other job.
LEMMA WorkersSame ==
    ASSUME TypeOK, NEW w \in Workers, worker[w].step # "none",
           Finish(w) \/ \E s \in Steps : Continue(w, s)
    PROVE  \A k \in Lived, v \in Workers :
               k # worker[w].job /\ worker'[v].job = k => worker'[v] = worker[v]
<1>1. CASE Finish(w)
  BY <1>1, Finished, IdleSlot, LivedJobs
<1>2. CASE \E s \in Steps : Continue(w, s)
  BY <1>2, Continued
<1> QED
  BY <1>1, <1>2

\* A job that somebody has begun with has a status.
LEMMA StageNotNone ==
    ASSUME TypeOK, NEW j \in Jobs, NEW w \in Workers, worker[w].job = j
    PROVE  worker[w].step \in Steps /\ "none" \notin Stage[worker[w].step]
<1>1. worker[w] \in [job: Jobs, step: Steps]
  BY NoneAssumption DEF TypeOK, Idle
<1> QED
  BY <1>1 DEF Stage, Steps

-----------------------------------------------------------------------------
(* What a step is in JobLife.                                              *)

LEMMA LifeIdles ==
    ASSUME UNCHANGED <<row, file, overdue, hit>>
    PROVE  UNCHANGED Life!life
BY DEF Life!life

\* A tenant export, or a job a fault has taken, is not seen.
LEMMA LifeUnseen ==
    ASSUME NEW j \in Jobs, j \notin Lived \ hit, UNCHANGED <<overdue, hit>>,
           \A k \in Lived : k # j => row'[k] = row[k] /\ (k \in file' <=> k \in file)
    PROVE  UNCHANGED Life!life
<1>1. \A k \in Lived : k \notin hit => row'[k] = row[k] /\ (k \in file' <=> k \in file)
  OBVIOUS
<1>2. [k \in Lived |-> IF k \in hit THEN "lost" ELSE row[k].status]'
      = [k \in Lived |-> IF k \in hit THEN "lost" ELSE row[k].status]
  BY <1>1
<1>3. ((file \cap Lived) \ hit)' = (file \cap Lived) \ hit
  BY <1>1
<1> QED
  BY <1>2, <1>3 DEF Life!life

\* A fault takes its job.
LEMMA LifeLoses ==
    ASSUME NEW j \in Jobs, Strikes(j), UNCHANGED <<row, file, overdue>>
    PROVE  [Life!Next]_(Life!life)
<1> hit' = hit \cup {j}
  BY DEF Strikes
<1>1. CASE j \notin Lived
  <2>1. [k \in Lived |-> IF k \in hit THEN "lost" ELSE row[k].status]'
        = [k \in Lived |-> IF k \in hit THEN "lost" ELSE row[k].status]
    BY <1>1
  <2>2. ((file \cap Lived) \ hit)' = (file \cap Lived) \ hit
    BY <1>1
  <2> QED
    BY <2>1, <2>2 DEF Life!life
<1>2. CASE j \in Lived
  <2> DEFINE status == [k \in Lived |-> IF k \in hit THEN "lost" ELSE row[k].status]
  <2>1. status' = [status EXCEPT ![j] = "lost"]
    BY <1>2
  <2>2. ((file \cap Lived) \ hit)' = ((file \cap Lived) \ hit) \ {j}
    OBVIOUS
  <2>3. Life!Lose(j)
    BY <2>1, <2>2 DEF Life!Lose
  <2> QED
    BY <1>2, <2>3 DEF Life!Next, Life!Jobs, Lived
<1> QED
  BY <1>1, <1>2

\* A job gets a status that JobLife lets it get.
LEMMA LifeMoves ==
    ASSUME TypeOK, NEW j \in Lived \ hit, NEW from, NEW s, row[j].status \in from,
           row'[j].status = s, \A k \in Lived : k # j => row'[k] = row[k],
           UNCHANGED <<file, overdue, hit>>
    PROVE  /\ Life!Move(j, from, s)
           /\ UNCHANGED <<(file \cap Lived) \ hit, overdue>>
<1> DEFINE status == [k \in Lived |-> IF k \in hit THEN "lost" ELSE row[k].status]
<1>1. status[j] \in from
  OBVIOUS
<1>2. status' = [status EXCEPT ![j] = s]
  OBVIOUS
<1>3. Life!Move(j, from, s)
  BY <1>1, <1>2 DEF Life!Move
<1>4. UNCHANGED <<(file \cap Lived) \ hit, overdue>>
  OBVIOUS
<1> QED
  BY <1>3, <1>4

LEMMA LifeActs ==
    ASSUME NEW j \in Lived,
           \/ Life!Create(j) \/ Life!Upload(j) \/ Life!Start(j) \/ Life!Work(j)
           \/ Life!Offer(j) \/ Life!Fail(j) \/ Life!Discard(j) \/ Life!Age(j)
           \/ Life!Expire(j)
    PROVE  [Life!Next]_(Life!life)
<1>1. j \in Life!Jobs
  BY DEF Life!Jobs, Lived
<1> QED
  BY <1>1 DEF Life!Next

\* What a job's status is in JobLife, and when its work is done.
LEMMA LifeHas ==
    ASSUME NEW j \in Lived \ hit
    PROVE  /\ [k \in Lived |-> IF k \in hit THEN "lost" ELSE row[k].status][j] = row[j].status
           /\ Life!Done(j) <=> ~Undone(j)
           /\ j \in Life!Jobs
BY KindsAssumption DEF Life!Done, Life!Jobs, Undone, Lived

-----------------------------------------------------------------------------
(* What each step does to the life of its job.  The request that creates   *)
(* it.                                                                     *)

LEMMA InitLives == Init => LifeInv /\ Life!Init
<1> SUFFICES ASSUME Init PROVE LifeInv /\ Life!Init
  OBVIOUS
<1>1. LifeInv
  BY LivedJobs, IdleSlot DEF Init, LifeInv, PlacesOK, RestOK, NoPurge
<1>2. Life!Init
  BY LivedJobs DEF Init, Life!Init, Life!Jobs, Lived
<1> QED
  BY <1>1, <1>2

LEMMA CreateLives ==
    ASSUME IInv, LifeInv, NEW j \in Jobs, Create(j)
    PROVE  LifeInv' /\ [Life!Next]_(Life!life)
<1>1. /\ row[j].status = "none" /\ row' = [row EXCEPT ![j].status = "queued"]
      /\ creator' = [creator EXCEPT ![j] = IF j \in Imports THEN "store" ELSE "add"]
      /\ UNCHANGED <<file, queue, worker, purge, overdue, hit>>
      /\ row \in [Jobs -> Row] /\ creator \in [Jobs -> {"none", "store", "add", "fail"}]
  BY DEF Create, SetStatus, history, IInv, TypeOK
<1>2. row'[j].status = "queued" /\ row'[j].key = row[j].key
  BY <1>1 DEF Row
<1>3. \A k \in Lived : k # j => Same(k)
  BY <1>1, LivedJobs DEF Same
<1>4. ASSUME j \in Lived \ hit PROVE PlacesOK(j)' /\ RestOK(j)'
  <2>1. PlacesOK(j) /\ RestOK(j)
    BY <1>4 DEF LifeInv
  <2>2. \A w \in Workers : worker[w].job # j
    BY <1>1, <2>1, StageNotNone DEF PlacesOK, Serves, IInv
  <2>3. j \notin queue /\ (j \notin Imports => Undone(j)')
    BY <1>1, <2>1 DEF PlacesOK, Undone, IInv, JobsOK, JobOK, Begun
  <2>4. PlacesOK(j)'
    BY <1>1, <1>2, <2>2, <2>3 DEF PlacesOK
  <2>5. RestOK(j)'
    BY <1>1, <1>2, <2>1 DEF RestOK
  <2> QED
    BY <2>4, <2>5
<1>5. LifeInv'
  BY <1>1, <1>3, <1>4, OthersLive
<1>6. ASSUME j \in Lived \ hit PROVE [Life!Next]_(Life!life)
  <2>1. Life!Create(j)
    BY <1>1, <1>2, <1>6, LifeMoves, LivedJobs DEF Life!Create, IInv
  <2> QED
    BY <1>6, <2>1, LifeActs
<1>7. ASSUME j \notin Lived \ hit PROVE UNCHANGED Life!life
  BY <1>1, <1>7, LivedJobs, LifeUnseen
<1> QED
  BY <1>5, <1>6, <1>7

LEMMA StoreUploadLives ==
    ASSUME IInv, LifeInv, NEW j \in Jobs, StoreUpload(j)
    PROVE  LifeInv' /\ [Life!Next]_(Life!life)
<1>1. /\ creator[j] = "store" /\ creator' = [creator EXCEPT ![j] = "add"]
      /\ file' = file \cup {j} /\ j \in Imports
      /\ UNCHANGED <<row, queue, worker, purge, overdue, hit>>
      /\ creator \in [Jobs -> {"none", "store", "add", "fail"}]
  BY DEF StoreUpload, history, IInv, TypeOK, RequestsOK
<1>2. \A k \in Lived : k # j => Same(k)
  BY <1>1, LivedJobs DEF Same
<1>3. ASSUME j \in Lived \ hit
      PROVE  PlacesOK(j)' /\ RestOK(j)' /\ row[j].status = "queued"
  <2>1. PlacesOK(j) /\ RestOK(j)
    BY <1>3 DEF LifeInv
  <2>2. row[j].status = "queued" /\ \A w \in Workers : worker[w].job # j
    BY <1>1, <2>1 DEF PlacesOK
  <2>3. PlacesOK(j)'
    BY <1>1, <2>1, <2>2 DEF PlacesOK, Undone
  <2>4. RestOK(j)'
    BY <1>1, <2>1, <2>2 DEF RestOK
  <2> QED
    BY <2>2, <2>3, <2>4
<1>4. LifeInv'
  BY <1>1, <1>2, <1>3, OthersLive
<1>5. ASSUME j \in Lived \ hit PROVE [Life!Next]_(Life!life)
  <2>1. Life!Upload(j)
    BY <1>1, <1>3, <1>5 DEF Life!Upload
  <2> QED
    BY <1>5, <2>1, LifeActs
<1>6. ASSUME j \notin Lived \ hit PROVE UNCHANGED Life!life
  BY <1>1, <1>6, LivedJobs, LifeUnseen
<1> QED
  BY <1>4, <1>5, <1>6

LEMMA AddLives ==
    ASSUME IInv, LifeInv, NEW j \in Jobs, Add(j)
    PROVE  LifeInv' /\ [Life!Next]_(Life!life)
<1>1. /\ creator[j] = "add" /\ creator' = [creator EXCEPT ![j] = "none"]
      /\ queue' = queue \cup {j}
      /\ UNCHANGED <<row, file, worker, purge, overdue, hit>>
      /\ creator \in [Jobs -> {"none", "store", "add", "fail"}]
  BY DEF Add, history, IInv, TypeOK
<1>2. \A k \in Lived : k # j => Same(k)
  BY <1>1, LivedJobs DEF Same
<1>3. ASSUME j \in Lived \ hit PROVE PlacesOK(j)' /\ RestOK(j)'
  <2>1. PlacesOK(j) /\ RestOK(j)
    BY <1>3 DEF LifeInv
  <2>2. PlacesOK(j)'
    BY <1>1, <2>1 DEF PlacesOK, Undone
  <2> QED
    BY <1>1, <2>1, <2>2 DEF RestOK
<1>4. LifeInv'
  BY <1>1, <1>2, <1>3, OthersLive
<1> QED
  BY <1>1, <1>4, LifeIdles

\* Only a fault makes a request fail.
LEMMA FailCreateLives ==
    ASSUME IInv, LifeInv, NEW j \in Jobs, FailCreate(j)
    PROVE  LifeInv' /\ [Life!Next]_(Life!life)
<1>1. /\ creator[j] = "fail" /\ creator' = [creator EXCEPT ![j] = "none"]
      /\ row' = [row EXCEPT ![j].status = "failed"]
      /\ UNCHANGED <<file, queue, worker, purge, overdue, hit>>
      /\ row \in [Jobs -> Row] /\ creator \in [Jobs -> {"none", "store", "add", "fail"}]
  BY DEF FailCreate, SetStatus, history, IInv, TypeOK
<1>2. \A k \in Lived : k # j => Same(k)
  BY <1>1, LivedJobs DEF Same
<1>3. j \notin Lived \ hit
  BY <1>1 DEF LifeInv, PlacesOK
<1>4. LifeInv'
  BY <1>1, <1>2, <1>3, OthersLive
<1>5. UNCHANGED Life!life
  BY <1>1, <1>3, LivedJobs, LifeUnseen
<1> QED
  BY <1>4, <1>5

-----------------------------------------------------------------------------
(* The worker that has a job.                                              *)

LEMMA ServedPlace ==
    ASSUME TypeOK, NEW w \in Workers, worker[w].step # "none", NEW j \in Lived,
           worker[w].job = j, PlacesOK(j), UNCHANGED <<creator, queue>>,
           \/ Finish(w)
           \/ \E s \in Steps :
                 /\ Continue(w, s)
                 /\ row'[j].status \in Stage[s]
                 /\ s \in {"find", "mark", "work", "fail", "unlink"} => Undone(j)'
                 /\ s = "ready" => ~Undone(j)'
    PROVE  PlacesOK(j)'
<1>1. creator[j] = "none" /\ j \notin queue
  BY DEF PlacesOK
<1>2. \A v \in Workers : worker[v].job = j => v = w
  BY DEF PlacesOK
<1>3. CASE Finish(w)
  <2>1. \A v \in Workers : worker'[v].job # j
    BY <1>2, <1>3, Finished, IdleSlot, LivedJobs
  <2> QED
    BY <1>1, <2>1 DEF PlacesOK
<1>4. ASSUME NEW s \in Steps, Continue(w, s), row'[j].status \in Stage[s],
             s \in {"find", "mark", "work", "fail", "unlink"} => Undone(j)',
             s = "ready" => ~Undone(j)'
      PROVE  PlacesOK(j)'
  <2>1. /\ worker'[w].step = s /\ worker'[w].job = j
        /\ \A v \in Workers : v # w => worker'[v] = worker[v]
    BY <1>4, Continued
  <2>2. Serves(w, j)'
    BY <1>4, <2>1 DEF Serves
  <2>3. \A v \in Workers : worker'[v].job = j => v = w
    BY <1>2, <2>1
  <2> QED
    BY <1>1, <2>2, <2>3 DEF PlacesOK
<1> QED
  BY <1>3, <1>4

\* What a worker's step tells about a job that no fault touched.
LEMMA Served ==
    ASSUME IInv, LifeInv, NEW w \in Workers, worker[w].step # "none",
           worker[w].job \in Lived \ hit
    PROVE  /\ PlacesOK(worker[w].job) /\ RestOK(worker[w].job)
           /\ worker[w].step \in {"find", "mark"} => row[worker[w].job].status = "queued"
           /\ worker[w].step \in {"work", "unlink", "ready", "fail"}
                  => row[worker[w].job].status = "running"
           /\ worker[w].step = "drop" => row[worker[w].job].status = "failed"
           /\ worker[w].step \in {"find", "mark", "work", "unlink", "fail"}
                  => Undone(worker[w].job)
           /\ worker[w].step = "ready" => ~Undone(worker[w].job)
<1>1. PlacesOK(worker[w].job) /\ RestOK(worker[w].job) /\ Serves(w, worker[w].job)
  BY DEF LifeInv, PlacesOK
<1>2. worker[w].step \in Steps
  BY HasJob DEF IInv
<1>3. row[worker[w].job].status \in Stage[worker[w].step]
  BY <1>1 DEF Serves
<1>4. /\ worker[w].step \in {"find", "mark"} => row[worker[w].job].status = "queued"
      /\ worker[w].step \in {"work", "unlink", "ready", "fail"}
             => row[worker[w].job].status = "running"
      /\ worker[w].step = "drop" => row[worker[w].job].status = "failed"
  BY <1>2, <1>3 DEF Stage, Steps
<1> QED
  BY <1>1, <1>4 DEF Serves

LEMMA TakeLives ==
    ASSUME IInv, LifeInv, NEW w \in Workers, NEW j \in Jobs, Take(w, j)
    PROVE  LifeInv' /\ [Life!Next]_(Life!life)
<1>1. /\ worker[w] = Idle /\ j \in queue /\ queue' = queue \ {j}
      /\ worker' = [worker EXCEPT ![w] = [job |-> j, step |-> "find"]]
      /\ UNCHANGED <<row, file, creator, purge, overdue, hit>>
      /\ worker \in [Workers -> Slot]
  BY DEF Take, history, IInv, TypeOK, Slot
<1>2. /\ worker'[w].job = j /\ worker'[w].step = "find"
      /\ \A v \in Workers : v # w => worker'[v] = worker[v]
  BY <1>1
<1>3. \A k \in Lived : k # j => Same(k)
  BY <1>1, <1>2 DEF Same
<1>4. ASSUME j \in Lived \ hit PROVE PlacesOK(j)' /\ RestOK(j)'
  <2>1. PlacesOK(j) /\ RestOK(j)
    BY <1>4 DEF LifeInv
  <2>2. /\ row[j].status = "queued" /\ Undone(j) /\ creator[j] = "none"
        /\ \A v \in Workers : worker[v].job # j
    BY <1>1, <2>1 DEF PlacesOK
  <2>3. Serves(w, j)'
    BY <1>1, <1>2, <2>2 DEF Serves, Stage, Steps, Undone
  <2>4. PlacesOK(j)'
    BY <1>1, <1>2, <2>2, <2>3 DEF PlacesOK
  <2> QED
    BY <1>1, <2>1, <2>4 DEF RestOK
<1>5. LifeInv'
  BY <1>1, <1>3, <1>4, OthersLive
<1> QED
  BY <1>1, <1>5, LifeIdles

\* A worker's step that changes no row and no file.
LEMMA IdleStepLives ==
    ASSUME IInv, LifeInv, NEW w \in Workers, Find(w) \/ Tell(w)
    PROVE  LifeInv' /\ [Life!Next]_(Life!life)
<1>1. /\ worker[w].step \in {"find", "tell"}
      /\ \/ Finish(w)
         \/ worker[w].step = "find" /\ Continue(w, "mark")
      /\ UNCHANGED <<row, file, queue, creator, purge, overdue, hit>>
  BY DEF Find, Tell, history
<1> PICK j \in Jobs : j = worker[w].job
  BY <1>1, HasJob DEF IInv
<1>2. \A k \in Lived : k # j => Same(k)
  BY <1>1, WorkersSame DEF Same, IInv, Steps
<1>3. ASSUME j \in Lived \ hit PROVE PlacesOK(j)' /\ RestOK(j)'
  <2>1. /\ PlacesOK(j) /\ RestOK(j)
        /\ worker[w].step = "find" => row[j].status = "queued" /\ Undone(j)
    BY <1>1, <1>3, Served
  <2>2. PlacesOK(j)'
    BY <1>1, <1>3, <2>1, ServedPlace DEF IInv, Stage, Steps, Undone
  <2> QED
    BY <1>1, <2>1, <2>2 DEF RestOK
<1>4. LifeInv'
  BY <1>1, <1>2, <1>3, OthersLive
<1> QED
  BY <1>1, <1>4, LifeIdles

LEMMA MarkLives ==
    ASSUME IInv, LifeInv, NEW w \in Workers, Mark(w)
    PROVE  LifeInv' /\ [Life!Next]_(Life!life)
<1>1. /\ worker[w].step = "mark" /\ Continue(w, "work")
      /\ SetStatus(worker[w].job, "running")
      /\ UNCHANGED <<file, queue, creator, purge, overdue, hit>>
      /\ row \in [Jobs -> Row]
  BY DEF Mark, history, IInv, TypeOK
<1> PICK j \in Jobs : j = worker[w].job
  BY <1>1, HasJob DEF IInv
<1>2. /\ row'[j].status = "running" /\ row'[j].key = row[j].key
      /\ \A k \in Jobs : k # j => row'[k] = row[k]
  BY <1>1 DEF SetStatus, Row
<1>3. \A k \in Lived : k # j => Same(k)
  BY <1>1, <1>2, WorkersSame, LivedJobs DEF Same, IInv, Steps
<1>4. ASSUME j \in Lived \ hit
      PROVE  PlacesOK(j)' /\ RestOK(j)' /\ row[j].status = "queued" /\ Undone(j)
  <2>1. PlacesOK(j) /\ RestOK(j) /\ row[j].status = "queued" /\ Undone(j)
    BY <1>1, <1>4, Served
  <2>2. PlacesOK(j)'
    BY <1>1, <1>2, <1>4, <2>1, ServedPlace DEF IInv, Stage, Steps, Undone
  <2>3. RestOK(j)'
    BY <1>1, <1>2, <2>1 DEF RestOK
  <2> QED
    BY <2>1, <2>2, <2>3
<1>5. LifeInv'
  BY <1>1, <1>3, <1>4, OthersLive
<1>6. ASSUME j \in Lived \ hit PROVE [Life!Next]_(Life!life)
  <2>1. Life!Move(j, {"queued"}, "running")
    BY <1>1, <1>2, <1>4, <1>6, LifeMoves, LivedJobs DEF IInv
  <2>2. Life!Start(j)
    BY <1>1, <1>4, <1>6, <2>1, LifeHas DEF Life!Start
  <2> QED
    BY <1>6, <2>2, LifeActs
<1>7. ASSUME j \notin Lived \ hit PROVE UNCHANGED Life!life
  BY <1>1, <1>2, <1>7, LivedJobs, LifeUnseen
<1> QED
  BY <1>5, <1>6, <1>7

LEMMA WorkLives ==
    ASSUME IInv, LifeInv, NEW w \in Workers, Work(w)
    PROVE  LifeInv' /\ [Life!Next]_(Life!life)
<1> PICK j \in Jobs : j = worker[w].job
  BY HasJob DEF Work, IInv
<1>1. /\ worker[w].step = "work"
      /\ \/ Continue(w, "fail") /\ UNCHANGED file
         \/ j \notin Imports /\ file' = file \cup {j} /\ Continue(w, "ready")
         \/ j \in Imports \cap file /\ Continue(w, "unlink") /\ UNCHANGED file
      /\ UNCHANGED <<row, queue, creator, purge, overdue, hit>>
  BY DEF Work, history
<1>2. \A k \in Lived : k # j => Same(k)
  BY <1>1, WorkersSame DEF Same, IInv, Steps
<1>3. ASSUME j \in Lived \ hit
      PROVE  PlacesOK(j)' /\ RestOK(j)' /\ row[j].status = "running" /\ Undone(j)
  <2>1. PlacesOK(j) /\ RestOK(j) /\ row[j].status = "running" /\ Undone(j)
    BY <1>1, <1>3, Served
  <2>2. PlacesOK(j)'
    <3>1. CASE Continue(w, "fail") /\ UNCHANGED file
      BY <1>1, <1>3, <2>1, <3>1, ServedPlace DEF IInv, Stage, Steps, Undone
    <3>2. CASE j \notin Imports /\ file' = file \cup {j} /\ Continue(w, "ready")
      BY <1>1, <1>3, <2>1, <3>2, ServedPlace DEF IInv, Stage, Steps, Undone
    <3>3. CASE j \in Imports \cap file /\ Continue(w, "unlink") /\ UNCHANGED file
      BY <1>1, <1>3, <2>1, <3>3, ServedPlace DEF IInv, Stage, Steps, Undone
    <3> QED
      BY <1>1, <3>1, <3>2, <3>3
  <2>3. RestOK(j)'
    BY <1>1, <2>1 DEF RestOK
  <2> QED
    BY <2>1, <2>2, <2>3
<1>4. LifeInv'
  BY <1>1, <1>2, <1>3, OthersLive
<1>5. ASSUME j \in Lived \ hit PROVE [Life!Next]_(Life!life)
  <2>1. CASE UNCHANGED file
    BY <1>1, <2>1, LifeIdles
  <2>2. CASE j \notin Imports /\ file' = file \cup {j}
    <3>1. j \in Exports
      BY <1>5, <2>2 DEF Lived
    <3>2. Life!Work(j)
      BY <1>1, <1>3, <1>5, <2>2, <3>1, LifeHas DEF Life!Work
    <3> QED
      BY <1>5, <3>2, LifeActs
  <2> QED
    BY <1>1, <2>1, <2>2
<1>6. ASSUME j \notin Lived \ hit PROVE UNCHANGED Life!life
  BY <1>1, <1>6, LivedJobs, LifeUnseen
<1> QED
  BY <1>4, <1>5, <1>6

LEMMA UnlinkLives ==
    ASSUME IInv, LifeInv, NEW w \in Workers, Unlink(w)
    PROVE  LifeInv' /\ [Life!Next]_(Life!life)
<1> PICK j \in Jobs : j = worker[w].job
  BY HasJob DEF Unlink, IInv
<1>1. /\ worker[w].step = "unlink" /\ file' = file \ {j} /\ Continue(w, "ready")
      /\ UNCHANGED <<row, queue, creator, purge, overdue, hit>>
      /\ j \in Imports
  BY WorkersJob DEF Unlink, history
<1>2. \A k \in Lived : k # j => Same(k)
  BY <1>1, WorkersSame DEF Same, IInv, Steps
<1>3. ASSUME j \in Lived \ hit
      PROVE  PlacesOK(j)' /\ RestOK(j)' /\ row[j].status = "running" /\ Undone(j)
  <2>1. PlacesOK(j) /\ RestOK(j) /\ row[j].status = "running" /\ Undone(j)
    BY <1>1, <1>3, Served
  <2>2. PlacesOK(j)'
    BY <1>1, <1>3, <2>1, ServedPlace DEF IInv, Stage, Steps, Undone
  <2>3. RestOK(j)'
    BY <1>1, <2>1 DEF RestOK
  <2> QED
    BY <2>1, <2>2, <2>3
<1>4. LifeInv'
  BY <1>1, <1>2, <1>3, OthersLive
<1>5. ASSUME j \in Lived \ hit PROVE [Life!Next]_(Life!life)
  <2>1. j \notin Exports
    BY <1>1, KindsAssumption
  <2>2. Life!Work(j)
    BY <1>1, <1>3, <1>5, <2>1, LifeHas DEF Life!Work
  <2> QED
    BY <1>5, <2>2, LifeActs
<1>6. ASSUME j \notin Lived \ hit PROVE UNCHANGED Life!life
  BY <1>1, <1>6, LivedJobs, LifeUnseen
<1> QED
  BY <1>4, <1>5, <1>6

LEMMA ReadyLives ==
    ASSUME IInv, LifeInv, NEW w \in Workers, Ready(w)
    PROVE  LifeInv' /\ [Life!Next]_(Life!life)
<1> PICK j \in Jobs : j = worker[w].job
  BY HasJob DEF Ready, IInv
<1>1. /\ worker[w].step = "ready" /\ Continue(w, "tell")
      /\ row' = [row EXCEPT ![j] = [status |-> "ready", key |-> j \notin Imports]]
      /\ UNCHANGED <<file, queue, creator, purge, overdue, hit>>
      /\ row \in [Jobs -> Row]
  BY DEF Ready, history, IInv, TypeOK
<1>2. /\ row'[j].status = "ready" /\ row'[j].key = (j \notin Imports)
      /\ \A k \in Jobs : k # j => row'[k] = row[k]
  BY <1>1
<1>3. \A k \in Lived : k # j => Same(k)
  BY <1>1, <1>2, WorkersSame, LivedJobs DEF Same, IInv, Steps
<1>4. ASSUME j \in Lived \ hit
      PROVE  PlacesOK(j)' /\ RestOK(j)' /\ row[j].status = "running" /\ ~Undone(j)
  <2>1. PlacesOK(j) /\ RestOK(j) /\ row[j].status = "running" /\ ~Undone(j)
    BY <1>1, <1>4, Served
  <2>2. PlacesOK(j)'
    BY <1>1, <1>2, <1>4, <2>1, ServedPlace DEF IInv, Stage, Steps, Undone
  <2>3. j \notin Imports <=> j \in Exports
    BY <1>4, KindsAssumption DEF Lived
  <2>4. RestOK(j)'
    BY <1>1, <1>2, <2>1, <2>3 DEF RestOK
  <2> QED
    BY <2>1, <2>2, <2>4
<1>5. LifeInv'
  BY <1>1, <1>3, <1>4, OthersLive
<1>6. ASSUME j \in Lived \ hit PROVE [Life!Next]_(Life!life)
  <2>1. Life!Move(j, {"running"}, "ready")
    BY <1>1, <1>2, <1>4, <1>6, LifeMoves, LivedJobs DEF IInv
  <2>2. Life!Offer(j)
    BY <1>1, <1>4, <1>6, <2>1, LifeHas DEF Life!Offer
  <2> QED
    BY <1>6, <2>2, LifeActs
<1>7. ASSUME j \notin Lived \ hit PROVE UNCHANGED Life!life
  BY <1>1, <1>2, <1>7, LivedJobs, LifeUnseen
<1> QED
  BY <1>5, <1>6, <1>7

LEMMA FailLives ==
    ASSUME IInv, LifeInv, NEW w \in Workers, Fail(w)
    PROVE  LifeInv' /\ [Life!Next]_(Life!life)
<1> PICK j \in Jobs : j = worker[w].job
  BY HasJob DEF Fail, IInv
<1>1. /\ worker[w].step = "fail" /\ SetStatus(j, "failed")
      /\ Finish(w) \/ Continue(w, "drop")
      /\ UNCHANGED <<file, queue, creator, purge, overdue, hit>>
      /\ row \in [Jobs -> Row]
  BY DEF Fail, history, IInv, TypeOK
<1>2. /\ row'[j].status = "failed" /\ row'[j].key = row[j].key
      /\ \A k \in Jobs : k # j => row'[k] = row[k]
  BY <1>1 DEF SetStatus, Row
<1>3. \A k \in Lived : k # j => Same(k)
  BY <1>1, <1>2, WorkersSame, LivedJobs DEF Same, IInv, Steps
<1>4. ASSUME j \in Lived \ hit
      PROVE  PlacesOK(j)' /\ RestOK(j)' /\ row[j].status = "running" /\ Undone(j)
  <2>1. PlacesOK(j) /\ RestOK(j) /\ row[j].status = "running" /\ Undone(j)
    BY <1>1, <1>4, Served
  <2>2. PlacesOK(j)'
    BY <1>1, <1>2, <1>4, <2>1, ServedPlace DEF IInv, Stage, Steps, Undone
  <2>3. j \in Exports => j \notin file
    BY <2>1, KindsAssumption DEF Undone
  <2>4. RestOK(j)'
    BY <1>1, <1>2, <2>1, <2>3 DEF RestOK
  <2> QED
    BY <2>1, <2>2, <2>4
<1>5. LifeInv'
  BY <1>1, <1>3, <1>4, OthersLive
<1>6. ASSUME j \in Lived \ hit PROVE [Life!Next]_(Life!life)
  <2>1. Life!Move(j, {"running"}, "failed")
    BY <1>1, <1>2, <1>4, <1>6, LifeMoves, LivedJobs DEF IInv
  <2>2. Life!Fail(j)
    BY <1>1, <1>4, <1>6, <2>1, LifeHas DEF Life!Fail
  <2> QED
    BY <1>6, <2>2, LifeActs
<1>7. ASSUME j \notin Lived \ hit PROVE UNCHANGED Life!life
  BY <1>1, <1>2, <1>7, LivedJobs, LifeUnseen
<1> QED
  BY <1>5, <1>6, <1>7

LEMMA DropUploadLives ==
    ASSUME IInv, LifeInv, NEW w \in Workers, DropUpload(w)
    PROVE  LifeInv' /\ [Life!Next]_(Life!life)
<1> PICK j \in Jobs : j = worker[w].job
  BY HasJob DEF DropUpload, IInv
<1>1. /\ worker[w].step = "drop" /\ file' = file \ {j} /\ Finish(w)
      /\ UNCHANGED <<row, queue, creator, purge, overdue, hit>>
      /\ j \in Imports
  BY WorkersJob DEF DropUpload, history
<1>2. \A k \in Lived : k # j => Same(k)
  BY <1>1, WorkersSame DEF Same, IInv
<1>3. ASSUME j \in Lived \ hit
      PROVE  PlacesOK(j)' /\ RestOK(j)' /\ row[j].status = "failed"
  <2>1. PlacesOK(j) /\ RestOK(j) /\ row[j].status = "failed"
    BY <1>1, <1>3, Served
  <2>2. PlacesOK(j)'
    BY <1>1, <1>3, <2>1, ServedPlace DEF IInv
  <2>3. RestOK(j)'
    BY <1>1, <2>1 DEF RestOK
  <2> QED
    BY <2>1, <2>2, <2>3
<1>4. LifeInv'
  BY <1>1, <1>2, <1>3, OthersLive
<1>5. ASSUME j \in Lived \ hit PROVE [Life!Next]_(Life!life)
  <2>1. Life!Discard(j)
    BY <1>1, <1>3, <1>5, LifeHas DEF Life!Discard
  <2> QED
    BY <1>5, <2>1, LifeActs
<1>6. ASSUME j \notin Lived \ hit PROVE UNCHANGED Life!life
  BY <1>1, <1>6, LivedJobs, LifeUnseen
<1> QED
  BY <1>4, <1>5, <1>6

-----------------------------------------------------------------------------
(* Cancellations, which are of tenant exports only.                        *)

LEMMA CancelLives ==
    ASSUME IInv, LifeInv, NEW j \in Jobs, Cancel(j) \/ CancelStep(j)
    PROVE  LifeInv' /\ UNCHANGED Life!life
<1>1. j \notin Lived
  BY KindsAssumption DEF Cancel, CancelStep, CancelRemove, CancelWrite, IInv, RequestsOK, Lived
<1>2. /\ UNCHANGED <<file, creator, worker, purge, overdue, hit>>
      /\ \A k \in Jobs : k # j => row'[k] = row[k] /\ (k \in queue' <=> k \in queue)
  BY DEF Cancel, CancelStep, CancelRemove, CancelWrite, SetStatus, IInv, TypeOK, history
<1>3. \A k \in Lived : k # j => Same(k)
  BY <1>2, LivedJobs DEF Same
<1>4. LifeInv'
  BY <1>1, <1>2, <1>3, OthersLive
<1>5. UNCHANGED Life!life
  BY <1>1, <1>2, LivedJobs, LifeUnseen
<1> QED
  BY <1>4, <1>5

-----------------------------------------------------------------------------
(* The purge.                                                              *)

LEMMA PurgeFindLives ==
    ASSUME IInv, LifeInv, PurgeFind
    PROVE  LifeInv' /\ UNCHANGED Life!life
<1> PICK some \in SUBSET {j \in Exports \cap overdue : row[j].status \in {"ready", "failed"}} :
        purge' = [NoPurge EXCEPT !.todo = {[job |-> j, key |-> row[j].key] : j \in some}]
  BY DEF PurgeFind
<1>1. /\ purge'.todo = {[job |-> j, key |-> row[j].key] : j \in some} /\ purge'.job = None
      /\ UNCHANGED <<row, file, queue, creator, worker, overdue, hit>>
  BY DEF PurgeFind, NoPurge, history
<1>2. ASSUME NEW k \in Lived, PlacesOK(k), RestOK(k)
      PROVE  PlacesOK(k)' /\ RestOK(k)'
  <2>1. PlacesOK(k)'
    BY <1>1, <1>2 DEF PlacesOK, Serves, Undone
  <2>2. \A e \in purge'.todo : e.job = k =>
            k \in some /\ e.key = row[k].key
    BY <1>1
  <2>3. \A e \in purge'.todo : e.job = k =>
            row[k].status = IF e.key THEN "ready" ELSE "failed"
    BY <1>2, <2>2 DEF RestOK
  <2>4. purge'.job # k
    BY <1>1, LivedJobs
  <2>5. RestOK(k)'
    BY <1>1, <1>2, <2>3, <2>4 DEF RestOK
  <2> QED
    BY <2>1, <2>5
<1>3. LifeInv'
  BY <1>1, <1>2 DEF LifeInv
<1> QED
  BY <1>1, <1>3, LifeIdles

\* A worker that has an export which has ended only tells of it.
LEMMA EndedPlace ==
    ASSUME TypeOK, NEW j \in Exports, PlacesOK(j), row[j].status \in {"ready", "failed"},
           UNCHANGED <<queue, creator, worker>>,
           row'[j].status \in {row[j].status, "expired"},
           \A w \in Workers : worker[w].job = j => worker[w].step # "drop"
    PROVE  PlacesOK(j)'
<1>1. creator[j] = "none" /\ j \notin queue
  BY DEF PlacesOK
<1>2. ASSUME NEW w \in Workers, worker[w].job = j
      PROVE  Serves(w, j)'
  <2>1. worker[w].step \in Steps /\ row[j].status \in Stage[worker[w].step]
    BY <1>2, StageNotNone DEF PlacesOK, Serves, Jobs
  <2>2. worker[w].step = "tell" /\ row[j].status = "ready"
    BY <1>2, <2>1 DEF Stage, Steps
  <2> QED
    BY <2>2 DEF Serves, Stage, Steps
<1> QED
  BY <1>1, <1>2 DEF PlacesOK

LEMMA PurgeFileLives ==
    ASSUME IInv, LifeInv, NEW e \in purge.todo, PurgeFile(e)
    PROVE  LifeInv' /\ [Life!Next]_(Life!life)
<1>1. /\ purge'.todo = purge.todo \ {e} /\ purge'.job = e.job
      /\ file' = IF e.key THEN file \ {e.job} ELSE file
      /\ UNCHANGED <<row, queue, creator, worker, overdue, hit>>
  BY DEF PurgeFile, history
<1>2. /\ purge.todo \subseteq [job: Exports, key: BOOLEAN]
      /\ e.job \in Exports \cap overdue
  BY DEF IInv, TypeOK, PurgeOK
<1> PICK j \in Exports : j = e.job
  BY <1>2
<1>3. \A k \in Lived : k # j => Same(k)
  BY <1>1 DEF Same
<1>4. ASSUME j \in Lived \ hit
      PROVE  /\ PlacesOK(j)' /\ RestOK(j)'
             /\ row[j].status = IF e.key THEN "ready" ELSE "failed"
  <2>1. PlacesOK(j) /\ RestOK(j)
    BY <1>4 DEF LifeInv
  <2>2. row[j].status = IF e.key THEN "ready" ELSE "failed"
    BY <2>1 DEF RestOK
  <2>3. \A w \in Workers : worker[w].job = j => worker[w].step # "drop"
    BY KindsAssumption, WorkersJob
  <2>4. PlacesOK(j)'
    BY <1>1, <2>1, <2>2, <2>3, EndedPlace DEF IInv
  <2>5. j \notin file'
    BY <1>1, <2>1, <2>2 DEF RestOK
  <2>6. \A d \in purge.todo : d.job = j => d = e
    <3> SUFFICES ASSUME NEW d \in purge.todo, d.job = j PROVE d = e
      OBVIOUS
    <3>1. row[j].status = IF d.key THEN "ready" ELSE "failed"
      BY <2>1 DEF RestOK
    <3>2. d.key = e.key
      BY <1>2, <2>2, <3>1
    <3> QED
      BY <1>2, <3>2
  <2>7. RestOK(j)'
    BY <1>1, <2>1, <2>2, <2>5, <2>6 DEF RestOK
  <2> QED
    BY <2>2, <2>4, <2>7
<1>5. LifeInv'
  BY <1>1, <1>3, <1>4, OthersLive
<1>6. ASSUME j \in Lived \ hit PROVE [Life!Next]_(Life!life)
  <2>1. CASE e.key
    <3>1. Life!Discard(j)
      BY <1>1, <1>2, <1>4, <1>6, <2>1, LifeHas DEF Life!Discard
    <3> QED
      BY <1>6, <3>1, LifeActs
  <2>2. CASE ~e.key
    BY <1>1, <2>2, LifeIdles
  <2> QED
    BY <2>1, <2>2
<1>7. ASSUME j \notin Lived \ hit PROVE UNCHANGED Life!life
  BY <1>1, <1>7, LifeUnseen DEF Jobs
<1> QED
  BY <1>5, <1>6, <1>7

LEMMA PurgeRowLives ==
    ASSUME IInv, LifeInv, PurgeRow
    PROVE  LifeInv' /\ [Life!Next]_(Life!life)
<1>1. purge.job \in Exports \cap overdue
  BY DEF PurgeRow, IInv, TypeOK, PurgeOK
<1> PICK j \in Exports : j = purge.job
  BY <1>1
<1>2. /\ row' = [row EXCEPT ![j] = [status |-> "expired", key |-> FALSE]]
      /\ purge'.todo = purge.todo /\ purge'.job = None
      /\ UNCHANGED <<file, queue, creator, worker, overdue, hit>>
      /\ row \in [Jobs -> Row] /\ j \in Jobs
  BY DEF PurgeRow, NoPurge, history, IInv, TypeOK, Jobs
<1>3. /\ row'[j].status = "expired" /\ row'[j].key = FALSE
      /\ \A k \in Jobs : k # j => row'[k] = row[k]
  BY <1>2
<1>4. \A k \in Lived : k # j => Same(k)
  BY <1>2, <1>3, LivedJobs DEF Same
<1>5. ASSUME j \in Lived \ hit
      PROVE  /\ PlacesOK(j)' /\ RestOK(j)'
             /\ row[j].status \in {"ready", "failed"} /\ j \notin file
  <2>1. PlacesOK(j) /\ RestOK(j)
    BY <1>5 DEF LifeInv
  <2>2. /\ row[j].status \in {"ready", "failed"} /\ j \notin file
        /\ \A e \in purge.todo : e.job # j
    BY <2>1 DEF RestOK
  <2>3. \A w \in Workers : worker[w].job = j => worker[w].step # "drop"
    BY KindsAssumption, WorkersJob
  <2>4. PlacesOK(j)'
    BY <1>2, <1>3, <2>1, <2>2, <2>3, EndedPlace DEF IInv
  <2>5. RestOK(j)'
    BY <1>2, <1>3, <2>2, LivedJobs DEF RestOK, Lived
  <2> QED
    BY <2>2, <2>4, <2>5
<1>6. LifeInv'
  BY <1>2, <1>4, <1>5, OthersLive
<1>7. ASSUME j \in Lived \ hit PROVE [Life!Next]_(Life!life)
  <2>1. Life!Move(j, {"ready", "failed"}, "expired")
    BY <1>2, <1>3, <1>5, <1>7, LifeMoves, LivedJobs DEF IInv
  <2>2. Life!Expire(j)
    BY <1>1, <1>2, <1>5, <1>7, <2>1 DEF Life!Expire
  <2> QED
    BY <1>7, <2>2, LifeActs
<1>8. ASSUME j \notin Lived \ hit PROVE UNCHANGED Life!life
  BY <1>2, <1>3, <1>8, LivedJobs, LifeUnseen
<1> QED
  BY <1>6, <1>7, <1>8

LEMMA DropPurgeLives ==
    ASSUME LifeInv, DropPurge
    PROVE  LifeInv' /\ UNCHANGED Life!life
<1>1. /\ UNCHANGED <<row, file, queue, creator, worker, overdue, hit>>
      /\ purge'.todo = {} /\ purge'.job = None
  BY DEF DropPurge, NoPurge, history
<1>2. \A k \in Lived : Same(k)
  BY <1>1, LivedJobs DEF Same
<1> QED
  BY <1>1, <1>2, SameLives, LifeIdles DEF LifeInv

LEMMA AgeLives ==
    ASSUME LifeInv, NEW j \in Exports, Age(j)
    PROVE  LifeInv' /\ [Life!Next]_(Life!life)
<1>1. /\ UNCHANGED <<row, file, queue, creator, worker, purge, hit>>
      /\ overdue' = overdue \cup {j}
  BY DEF Age, history
<1>2. \A k \in Lived : Same(k)
  BY <1>1 DEF Same
<1>3. LifeInv'
  BY <1>1, <1>2, SameLives DEF LifeInv
<1>4. Life!Age(j)
  BY <1>1 DEF Life!Age
<1> QED
  BY <1>3, <1>4, LifeActs DEF Lived

-----------------------------------------------------------------------------
(* Faults: each takes one job, and moves no other.                         *)

LEMMA FaultLives ==
    ASSUME LifeInv, NEW j \in Jobs, Strikes(j), UNCHANGED <<row, file, overdue>>,
           \A k \in Lived : k # j => Same(k)
    PROVE  LifeInv' /\ [Life!Next]_(Life!life)
<1>1. hit \subseteq hit' /\ j \in hit'
  BY DEF Strikes
<1>2. LifeInv'
  BY <1>1, OthersLive
<1> QED
  BY <1>2, LifeLoses

LEMMA RequestFaultLives ==
    ASSUME IInv, LifeInv, NEW j \in Jobs, AddFails(j) \/ DropRequest(j)
    PROVE  LifeInv' /\ [Life!Next]_(Life!life)
<1>1. Strikes(j) /\ UNCHANGED <<row, file, overdue, worker, purge>>
  BY DEF AddFails, DropRequest, Fault, Loses
<1>2. \A k \in Jobs : k # j => creator'[k] = creator[k] /\ (k \in queue' <=> k \in queue)
  BY DEF AddFails, DropRequest, IInv, TypeOK
<1>3. \A k \in Lived : k # j => Same(k)
  BY <1>1, <1>2, LivedJobs DEF Same
<1> QED
  BY <1>1, <1>3, FaultLives

LEMMA WorkerFaultLives ==
    ASSUME IInv, LifeInv, NEW w \in Workers,
           UnlinkFails(w) \/ Throws(w) \/ Stall(w) \/ Abort(w)
    PROVE  LifeInv' /\ [Life!Next]_(Life!life)
<1>1. /\ worker[w].step # "none" /\ Strikes(worker[w].job)
      /\ UNCHANGED <<row, file, overdue, creator, purge>>
  BY StepOfSlot DEF UnlinkFails, Throws, Stall, Abort, Fault, Loses, IInv
<1> PICK j \in Jobs : j = worker[w].job
  BY <1>1, HasJob DEF IInv
<1>2. \A k \in Jobs : k # j => (k \in queue' <=> k \in queue)
  BY DEF UnlinkFails, Throws, Stall, Abort
<1>3. UNCHANGED worker \/ Finish(w) \/ \E s \in Steps : Continue(w, s)
  BY DEF UnlinkFails, Throws, Stall, Abort, Steps
<1>4. \A k \in Lived : k # j => Same(k)
  BY <1>1, <1>2, <1>3, WorkersSame, LivedJobs DEF Same, IInv
<1> QED
  BY <1>1, <1>4, FaultLives

LEMMA PurgeFaultLives ==
    ASSUME IInv, LifeInv, NEW e \in purge.todo, PurgeFileFails(e)
    PROVE  LifeInv' /\ [Life!Next]_(Life!life)
<1>1. /\ Strikes(e.job) /\ purge'.todo = purge.todo \ {e} /\ purge'.job = e.job
      /\ UNCHANGED <<row, file, queue, creator, worker, overdue>>
  BY DEF PurgeFileFails, Fault
<1>2. e.job \in Jobs
  BY DEF IInv, TypeOK, Jobs
<1>3. \A k \in Lived : k # e.job => Same(k)
  BY <1>1 DEF Same
<1> QED
  BY <1>1, <1>2, <1>3, FaultLives

-----------------------------------------------------------------------------
LEMMA NextLives == IInv /\ LifeInv /\ [Next]_vars => LifeInv' /\ [Life!Next]_(Life!life)
<1> SUFFICES ASSUME IInv, LifeInv, [Next]_vars PROVE LifeInv' /\ [Life!Next]_(Life!life)
  OBVIOUS
<1>1. CASE \E j \in Jobs : Create(j) \/ CreateStep(j) \/ AddFails(j)
  BY <1>1, CreateLives, StoreUploadLives, AddLives, FailCreateLives, RequestFaultLives
     DEF CreateStep
<1>2. CASE \E w \in Workers : WorkerStep(w)
  BY <1>2, TakeLives, IdleStepLives, MarkLives, WorkLives, UnlinkLives, ReadyLives,
     FailLives, DropUploadLives DEF WorkerStep
<1>3. CASE \E w \in Workers : UnlinkFails(w) \/ Throws(w) \/ Stall(w) \/ Abort(w)
  BY <1>3, WorkerFaultLives
<1>4. CASE \E j \in Jobs : Cancel(j) \/ CancelStep(j)
  BY <1>4, CancelLives
<1>5. CASE PurgeStep \/ (\E e \in purge.todo : PurgeFileFails(e)) \/ DropPurge
  BY <1>5, PurgeFindLives, PurgeFileLives, PurgeRowLives, PurgeFaultLives, DropPurgeLives
     DEF PurgeStep
<1>6. CASE (\E j \in Exports : Age(j)) \/ \E j \in Jobs : DropRequest(j)
  BY <1>6, AgeLives, RequestFaultLives
<1>7. CASE UNCHANGED vars
  <2>1. \A k \in Lived : Same(k)
    BY <1>7 DEF Same, vars
  <2> QED
    BY <1>7, <2>1, SameLives, LifeIdles DEF LifeInv, vars, history
<1> QED
  BY <1>1, <1>2, <1>3, <1>4, <1>5, <1>6, <1>7 DEF Next

\* The jobs implement JobLife: every step of the requests, the workers, the
\* cancellations and the purge is a step in the life of one job that no fault
\* touched, or none; for any jobs, workers and faults.
THEOREM ImplementsLife == Spec => LifeKept
<1>1. Init => IInv /\ LifeInv /\ Life!Init
  BY InitIInv, InitLives
<1>2. IInv /\ LifeInv /\ [Next]_vars => LifeInv' /\ [Life!Next]_(Life!life)
  BY NextLives
<1> QED
  BY <1>1, <1>2, Invariance, PTL DEF Spec, Life!Spec, LifeKept
=============================================================================
