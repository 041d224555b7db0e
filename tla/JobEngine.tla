------------------------------ MODULE JobEngine ------------------------------
(***************************************************************************)
(* createJobEngine of job-engine.js with a storage directory: maps in      *)
(* memory, one file per entity, every file replaced atomically (temporary  *)
(* file, then rename).  A call runs to its end without interleaving, but   *)
(* the process may crash, or a write may throw, between any two file       *)
(* operations; a restart loads what the directories hold.                  *)
(***************************************************************************)
EXTENDS JobTables

CONSTANTS
  ResultIds,     \* the execution results that may be recorded
  Watched,       \* bound of the model: the jobs clients look at and make plans for
  Paddings,      \* the ids a client sends: {FALSE} clean, TRUE with white space
  WritesMayFail  \* bound of the model: may writeFileSync or renameSync throw?

ASSUME EngineAssumption ==
  Watched \subseteq JobIds /\ Paddings \subseteq BOOLEAN /\ WritesMayFail \in BOOLEAN

VARIABLES
  jobs, tasks, results, plans,          \* the maps of the engine
  diskJobs, diskTasks, diskResults,     \* the files of the storage directory
  write,                                \* the file the current call writes next
  up,                                   \* is the process running?
  seen,                                 \* the status getJob last showed a client
  planSeen                              \* the jobs getJobPlan has shown a plan of

memory == <<jobs, tasks, results, plans>>
disk == <<diskJobs, diskTasks, diskResults>>
vars == <<memory, disk, write, up, seen, planSeen>>

Done == <<"done">>

Writes ==
  {Done} \cup ({"job"} \X JobIds) \cup ({"task", "newTask"} \X TaskIds)
  \cup ({"result"} \X (JobIds \X ResultIds))

NoJobs == [i \in JobIds |-> AbsentJob]
NoTasks == [t \in TaskIds |-> AbsentTask]
NoResults == [i \in JobIds |-> {}]
NoPlans == [i \in JobIds |-> FALSE]

Init ==
  /\ jobs = NoJobs /\ tasks = NoTasks /\ results = NoResults /\ plans = NoPlans
  /\ diskJobs = NoJobs /\ diskTasks = NoTasks /\ diskResults = NoResults
  /\ write = Done
  /\ up = TRUE
  /\ seen = [i \in JobIds |-> "ABSENT"]
  /\ planSeen = {}

-----------------------------------------------------------------------------
(* The calls: what they do in memory, and the file they then write *)

Free == up /\ write = Done

CreateJobUnchecked(i, padded) ==
  /\ Free
  /\ jobs' = [jobs EXCEPT ![i] = NewJob]
  /\ write' = <<"job", i>>
  /\ UNCHANGED <<tasks, results, plans, disk, up, seen, planSeen>>
\* The check for an existing job looks the id up as it was sent; the job is then
\* stored under the trimmed id.
CreateJob(i, padded) ==
  /\ Free
  /\ padded \/ jobs[i] = AbsentJob
  /\ jobs' = [jobs EXCEPT ![i] = NewJob]
  /\ write' = <<"job", i>>
  /\ UNCHANGED <<tasks, results, plans, disk, up, seen, planSeen>>

UpdateJobStateUnsaved(i, s) ==
  /\ Free
  /\ <<jobs[i].status, s>> \in ValidJobTransitions
  /\ jobs' = [jobs EXCEPT ![i].status = s]
  /\ UNCHANGED <<tasks, results, plans, disk, write, up, seen, planSeen>>
\* A status equal to the current one is returned as it is.
UpdateJobState(i, s) ==
  /\ Free
  /\ <<jobs[i].status, s>> \in ValidJobTransitions
  /\ jobs' = [jobs EXCEPT ![i].status = s]
  /\ write' = <<"job", i>>
  /\ UNCHANGED <<tasks, results, plans, disk, up, seen, planSeen>>

\* The parent must exist; its state is not looked at.
CreateTask(t, i, padded) ==
  /\ Free
  /\ padded \/ tasks[t] = AbsentTask
  /\ jobs[i] # AbsentJob
  /\ tasks' = [tasks EXCEPT ![t] = NewTask(i)]
  /\ write' = <<"newTask", t>>
  /\ UNCHANGED <<jobs, results, plans, disk, up, seen, planSeen>>

UpdateTaskState(t, s) ==
  /\ Free
  /\ <<tasks[t].status, s>> \in ValidTaskTransitions
  /\ tasks' = [tasks EXCEPT ![t].status = s]
  /\ write' = <<"task", t>>
  /\ UNCHANGED <<jobs, results, plans, disk, up, seen, planSeen>>

\* A plan is only ever kept in memory.
SetJobPlan(i) ==
  /\ Free
  /\ jobs[i] # AbsentJob
  /\ plans' = [plans EXCEPT ![i] = TRUE]
  /\ UNCHANGED <<jobs, tasks, results, disk, write, up, seen, planSeen>>

RecordExecutionResult(i, r) ==
  /\ Free
  /\ jobs[i] # AbsentJob
  /\ \A k \in JobIds : r \notin results[k] \cup diskResults[k]
  /\ results' = [results EXCEPT ![i] = @ \cup {r}]
  /\ write' = <<"result", <<i, r>>>>
  /\ UNCHANGED <<jobs, tasks, plans, disk, up, seen, planSeen>>

GetJob(i) ==
  /\ Free
  /\ seen' = [seen EXCEPT ![i] = jobs[i].status]
  /\ UNCHANGED <<memory, disk, write, up, planSeen>>

GetJobPlan(i) ==
  /\ Free
  /\ plans[i]
  /\ planSeen' = planSeen \cup {i}
  /\ UNCHANGED <<memory, disk, write, up, seen>>

-----------------------------------------------------------------------------
(* Files *)

WriteJob(i) ==
  /\ write = <<"job", i>>
  /\ diskJobs' = [diskJobs EXCEPT ![i] = jobs[i]]
  /\ write' = Done
  /\ UNCHANGED <<memory, diskTasks, diskResults, up, seen, planSeen>>

LinkFirst(t) ==
  /\ write = <<"newTask", t>>
  /\ jobs' = [jobs EXCEPT ![tasks[t].jobId].taskIds = @ \cup {t}]
  /\ diskJobs' = [diskJobs EXCEPT ![tasks[t].jobId] = jobs'[tasks[t].jobId]]
  /\ write' = <<"task", t>>
  /\ UNCHANGED <<tasks, results, plans, diskTasks, diskResults, up, seen, planSeen>>
\* createTask adds the task to its parent once the task is written.
WriteNewTask(t) ==
  /\ write = <<"newTask", t>>
  /\ diskTasks' = [diskTasks EXCEPT ![t] = tasks[t]]
  /\ jobs' = [jobs EXCEPT ![tasks[t].jobId].taskIds = @ \cup {t}]
  /\ write' = <<"job", tasks[t].jobId>>
  /\ UNCHANGED <<tasks, results, plans, diskJobs, diskResults, up, seen, planSeen>>

WriteTask(t) ==
  /\ write = <<"task", t>>
  /\ diskTasks' = [diskTasks EXCEPT ![t] = tasks[t]]
  /\ write' = Done
  /\ UNCHANGED <<memory, diskJobs, diskResults, up, seen, planSeen>>

WriteResult(i, r) ==
  /\ write = <<"result", <<i, r>>>>
  /\ diskResults' = [diskResults EXCEPT ![i] = @ \cup {r}]
  /\ write' = Done
  /\ UNCHANGED <<memory, diskJobs, diskTasks, up, seen, planSeen>>

\* The call throws; the maps keep what it had done.
WriteFails ==
  /\ WritesMayFail /\ write # Done
  /\ write' = Done
  /\ UNCHANGED <<memory, disk, up, seen, planSeen>>

-----------------------------------------------------------------------------
(* Crash and restart *)

Crash ==
  /\ up
  /\ up' = FALSE
  /\ jobs' = NoJobs /\ tasks' = NoTasks /\ results' = NoResults /\ plans' = NoPlans
  /\ write' = Done
  /\ UNCHANGED <<disk, seen, planSeen>>

Restart ==
  /\ ~up
  /\ up' = TRUE
  /\ jobs' = diskJobs /\ tasks' = diskTasks /\ results' = diskResults
  /\ UNCHANGED <<plans, disk, write, seen, planSeen>>

Next ==
  \/ \E i \in JobIds :
       \/ \E padded \in Paddings : CreateJob(i, padded)
       \/ \E s \in JobState : UpdateJobState(i, s)
       \/ \E r \in ResultIds : RecordExecutionResult(i, r) \/ WriteResult(i, r)
       \/ WriteJob(i)
  \/ \E i \in Watched : SetJobPlan(i) \/ GetJob(i) \/ GetJobPlan(i)
  \/ \E t \in TaskIds :
       \/ \E i \in JobIds, padded \in Paddings : CreateTask(t, i, padded)
       \/ \E s \in TaskState : UpdateTaskState(t, s)
       \/ WriteNewTask(t) \/ WriteTask(t)
  \/ WriteFails \/ Crash \/ Restart

Spec == Init /\ [][Next]_vars

-----------------------------------------------------------------------------
TypeOK ==
  /\ jobs \in [JobIds -> Job] /\ diskJobs \in [JobIds -> Job]
  /\ tasks \in [TaskIds -> Task] /\ diskTasks \in [TaskIds -> Task]
  /\ results \in [JobIds -> SUBSET ResultIds]
  /\ diskResults \in [JobIds -> SUBSET ResultIds]
  /\ plans \in [JobIds -> BOOLEAN]
  /\ write \in Writes
  /\ up \in BOOLEAN
  /\ seen \in [JobIds -> JobState \cup {"ABSENT"}]
  /\ planSeen \subseteq JobIds

\* A call that has returned is on disk: whatever it reported survives a crash.
Durable ==
  Free /\ ~WritesMayFail =>
    /\ jobs = diskJobs /\ tasks = diskTasks /\ results = diskResults

\* The files of a crashed engine never make a job list a task that is not there,
\* also when writes fail: createTask writes the task before its parent.
NoDanglingTask ==
  \A i \in JobIds : \A t \in diskJobs[i].taskIds :
    diskTasks[t].status # "ABSENT" /\ diskTasks[t].jobId = i

\* A client that was shown a job in a terminal state is never shown another one,
\* crashes included.
FinalWhenSeen ==
  [][\A i \in JobIds : seen[i] \in JobTerminal => seen'[i] = seen[i]]_seen

\* The files are a store of jobs and tasks: crashes, restarts and the maps in
\* memory are invisible in them (createTask is two steps, AddTask and LinkTask).
Store == INSTANCE JobStore WITH job <- diskJobs, task <- diskTasks
StoreSpec == Store!Spec
=============================================================================
