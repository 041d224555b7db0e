--------------------------- MODULE JobEngineProofs ---------------------------
(***************************************************************************)
(* The engine keeps its types whatever it is sent, keeps every task listed *)
(* by its parent even when writes fail (clean ids), and, when writes do    *)
(* not fail, its files implement JobStore across crashes and restarts.     *)
(***************************************************************************)
EXTENDS JobEngine, TLAPS

USE NoJobAssumption, EngineAssumption

-----------------------------------------------------------------------------
(* Types *)

LEMMA EntitiesTyped ==
  /\ AbsentJob \in Job /\ NewJob \in Job /\ AbsentTask \in Task
  /\ \A i \in JobIds : NewTask(i) \in Task /\ NewTask(i).jobId = i
  /\ AbsentJob # NewJob /\ \A i \in JobIds : NewTask(i) # AbsentTask
BY DEF AbsentJob, AbsentTask, NewJob, NewTask, Job, Task, JobState, TaskState

LEMMA MovedJobTyped ==
  ASSUME NEW j \in Job, NEW s \in JobState
  PROVE  [j EXCEPT !.status = s] \in Job
BY DEF Job

LEMMA MovedTaskTyped ==
  ASSUME NEW k \in Task, NEW s \in TaskState
  PROVE  [k EXCEPT !.status = s] \in Task
BY DEF Task

LEMMA LinkedJobTyped ==
  ASSUME NEW j \in Job, NEW t \in TaskIds
  PROVE  [j EXCEPT !.taskIds = j.taskIds \cup {t}] \in Job
BY DEF Job

\* A task about to be written for the first time has a parent to be added to, and
\* a process that is down writes nothing.
NewTaskHasParent ==
  /\ \A t \in TaskIds : write = <<"newTask", t>> =>
       tasks[t].jobId \in JobIds /\ tasks[t].status # "ABSENT"
  /\ ~up => write = Done

Typed == TypeOK /\ NewTaskHasParent

LEMMA TypedInit == Init => Typed
<1> SUFFICES ASSUME Init PROVE Typed
  OBVIOUS
<1>1. NoJobs \in [JobIds -> Job] /\ NoTasks \in [TaskIds -> Task]
      /\ NoResults \in [JobIds -> SUBSET ResultIds] /\ NoPlans \in [JobIds -> BOOLEAN]
  BY EntitiesTyped DEF NoJobs, NoTasks, NoResults, NoPlans
<1>2. write = Done /\ Done \in Writes /\ \A t \in TaskIds : Done # <<"newTask", t>>
  BY DEF Init, Done, Writes
<1>3. [i \in JobIds |-> "ABSENT"] \in [JobIds -> JobState \cup {"ABSENT"}]
  OBVIOUS
<1> QED  BY <1>1, <1>2, <1>3 DEF Typed, TypeOK, NewTaskHasParent, Init

LEMMA WritesTyped ==
  /\ Done \in Writes
  /\ \A i \in JobIds : <<"job", i>> \in Writes
  /\ \A t \in TaskIds : <<"task", t>> \in Writes /\ <<"newTask", t>> \in Writes
  /\ \A i \in JobIds, r \in ResultIds : <<"result", <<i, r>>>> \in Writes
BY DEF Writes

\* Which file is to be written tells the calls apart.
LEMMA WritesDiffer ==
  /\ \A t \in TaskIds :
       /\ <<"newTask", t>> # Done
       /\ \A u \in TaskIds : <<"newTask", t>> # <<"task", u>>
                               /\ (<<"newTask", t>> = <<"newTask", u>> => t = u)
                               /\ (<<"task", t>> = <<"task", u>> => t = u)
       /\ \A i : <<"newTask", t>> # <<"job", i>> /\ <<"task", t>> # <<"job", i>>
       /\ \A i : <<"newTask", t>> # <<"result", i>> /\ <<"task", t>> # <<"result", i>>
       /\ <<"task", t>> # Done
  /\ \A i, k : /\ <<"job", i>> # Done /\ <<"result", k>> # Done
               /\ <<"job", i>> # <<"result", k>>
               /\ (<<"job", i>> = <<"job", k>> => i = k)
BY DEF Done

LEMMA TypedNext == Typed /\ [Next]_vars => Typed'
<1> SUFFICES ASSUME Typed, [Next]_vars PROVE Typed'
  OBVIOUS
<1> USE DEF Typed, TypeOK, NewTaskHasParent, memory, disk
<1>n. /\ NoJobs \in [JobIds -> Job] /\ NoTasks \in [TaskIds -> Task]
      /\ NoResults \in [JobIds -> SUBSET ResultIds] /\ NoPlans \in [JobIds -> BOOLEAN]
  BY EntitiesTyped DEF NoJobs, NoTasks, NoResults, NoPlans
<1>s. \A j \in Job : j.status \in JobState \cup {"ABSENT"}
  BY DEF Job
<1>1. ASSUME NEW i \in JobIds, NEW padded, CreateJob(i, padded)
      PROVE  Typed'
  BY <1>1, EntitiesTyped, WritesTyped, WritesDiffer DEF CreateJob, Free
<1>2. ASSUME NEW i \in JobIds, NEW s \in JobState, UpdateJobState(i, s)
      PROVE  Typed'
  <2>1. [jobs[i] EXCEPT !.status = s] \in Job
    BY MovedJobTyped
  <2>2. jobs' = [jobs EXCEPT ![i] = [jobs[i] EXCEPT !.status = s]]
    BY <1>2 DEF UpdateJobState
  <2>3. jobs' \in [JobIds -> Job]
    BY <2>1, <2>2
  <2> QED  BY <1>2, <2>3, WritesTyped, WritesDiffer DEF UpdateJobState, Free
<1>3. ASSUME NEW i \in JobIds, NEW r \in ResultIds, RecordExecutionResult(i, r)
      PROVE  Typed'
  BY <1>3, WritesTyped, WritesDiffer DEF RecordExecutionResult, Free
<1>4. ASSUME NEW i \in JobIds, NEW r \in ResultIds, WriteResult(i, r)
      PROVE  Typed'
  BY <1>4, WritesTyped, WritesDiffer DEF WriteResult
<1>5. ASSUME NEW i \in JobIds, WriteJob(i)
      PROVE  Typed'
  BY <1>5, WritesTyped, WritesDiffer DEF WriteJob
<1>6. ASSUME NEW i \in Watched, SetJobPlan(i)
      PROVE  Typed'
  BY <1>6 DEF SetJobPlan
<1>7. ASSUME NEW i \in Watched, GetJob(i)
      PROVE  Typed'
  BY <1>7, <1>s DEF GetJob
<1>8. ASSUME NEW i \in Watched, GetJobPlan(i)
      PROVE  Typed'
  BY <1>8 DEF GetJobPlan
<1>9. ASSUME NEW t \in TaskIds, NEW i \in JobIds, NEW padded, CreateTask(t, i, padded)
      PROVE  Typed'
  <2>1. NewTask(i).jobId = i /\ NewTask(i).status # "ABSENT" /\ NewTask(i) \in Task
    BY EntitiesTyped DEF NewTask
  <2>2. tasks' = [tasks EXCEPT ![t] = NewTask(i)] /\ write' = <<"newTask", t>>
    BY <1>9 DEF CreateTask
  <2>3. \A u \in TaskIds : write' = <<"newTask", u>> => u = t
    BY <2>2, WritesDiffer
  <2> QED  BY <1>9, <2>1, <2>2, <2>3, WritesTyped DEF CreateTask, Free
<1>10. ASSUME NEW t \in TaskIds, NEW s \in TaskState, UpdateTaskState(t, s)
       PROVE  Typed'
  <2>1. [tasks[t] EXCEPT !.status = s] \in Task
    BY MovedTaskTyped
  <2>2. tasks' = [tasks EXCEPT ![t] = [tasks[t] EXCEPT !.status = s]]
    BY <1>10 DEF UpdateTaskState
  <2>3. tasks' \in [TaskIds -> Task]
    BY <2>1, <2>2
  <2> QED  BY <1>10, <2>3, WritesTyped, WritesDiffer DEF UpdateTaskState, Free
<1>11. ASSUME NEW t \in TaskIds, WriteNewTask(t)
       PROVE  Typed'
  <2> DEFINE i == tasks[t].jobId
  <2>1. i \in JobIds
    BY <1>11 DEF WriteNewTask
  <2>2. [jobs[i] EXCEPT !.taskIds = jobs[i].taskIds \cup {t}] \in Job
    BY <2>1, LinkedJobTyped
  <2>3. jobs' = [jobs EXCEPT ![i] = [jobs[i] EXCEPT !.taskIds = jobs[i].taskIds \cup {t}]]
    BY <1>11 DEF WriteNewTask
  <2>4. jobs' \in [JobIds -> Job]
    BY <2>1, <2>2, <2>3
  <2> QED  BY <1>11, <2>1, <2>4, WritesTyped, WritesDiffer DEF WriteNewTask
<1>12. ASSUME NEW t \in TaskIds, WriteTask(t)
       PROVE  Typed'
  BY <1>12, WritesTyped, WritesDiffer DEF WriteTask
<1>13. CASE WriteFails
  BY <1>13, WritesTyped, WritesDiffer DEF WriteFails
<1>14. CASE Crash
  BY <1>14, <1>n, WritesTyped, WritesDiffer DEF Crash
<1>15. CASE Restart
  <2>1. \A t \in TaskIds : write # <<"newTask", t>>
    BY <1>15, WritesDiffer DEF Restart
  <2> QED  BY <1>15, <2>1 DEF Restart
<1>16. CASE UNCHANGED vars
  BY <1>16 DEF vars
<1> QED  BY <1>1, <1>2, <1>3, <1>4, <1>5, <1>6, <1>7, <1>8, <1>9, <1>10, <1>11, <1>12,
            <1>13, <1>14, <1>15, <1>16 DEF Next

THEOREM EngineTyped == Spec => []TypeOK
<1>1. Typed => TypeOK
  BY DEF Typed
<1> QED  BY <1>1, TypedInit, TypedNext, PTL DEF Spec

-----------------------------------------------------------------------------
(* No dangling task, also when writes fail *)

Kin(m, i, t) == m[t].status # "ABSENT" /\ m[t].jobId = i

\* A task that is listed, in memory or in a file, has a file and, while the
\* process runs, a record in memory, and both name the job that lists it.
Linking ==
  \A i \in JobIds, t \in TaskIds :
    t \in jobs[i].taskIds \cup diskJobs[i].taskIds =>
      Kin(diskTasks, i, t) /\ (up => Kin(tasks, i, t))

LEMMA LinkingInit == Init => Linking
BY DEF Init, Linking, NoJobs, AbsentJob

\* Transitions are defined on the states of existing entities.
LEMMA TransitionsOfExisting ==
  /\ \A s, r : <<s, r>> \in ValidJobTransitions => s # "ABSENT" /\ s \notin JobTerminal
                                                  /\ r # "ABSENT" /\ r \in JobState
  /\ \A s, r : <<s, r>> \in ValidTaskTransitions => s # "ABSENT" /\ r # "ABSENT"
BY DEF ValidJobTransitions, ValidTaskTransitions, TaskState, JobState, JobTerminal

LEMMA LinkingNext ==
  ASSUME TRUE \notin Paddings, Typed, Linking, [Next]_vars
  PROVE  Linking'
<1> USE DEF Linking, Kin
<1>t. /\ jobs \in [JobIds -> Job] /\ diskJobs \in [JobIds -> Job]
      /\ tasks \in [TaskIds -> Task] /\ diskTasks \in [TaskIds -> Task]
  BY DEF Typed, TypeOK
<1>u. ~up => write = Done
  BY DEF Typed, NewTaskHasParent
<1>1. ASSUME NEW i \in JobIds, NEW padded \in Paddings, CreateJob(i, padded)
      PROVE  Linking'
  <2>1. jobs' = [jobs EXCEPT ![i] = NewJob] /\ NewJob.taskIds = {}
    BY <1>1 DEF CreateJob, NewJob
  <2>2. \A k \in JobIds : jobs'[k].taskIds \subseteq jobs[k].taskIds
    BY <1>t, <2>1
  <2> QED  BY <1>1, <2>2 DEF CreateJob, disk
<1>2. ASSUME NEW i \in JobIds, NEW s \in JobState, UpdateJobState(i, s)
      PROVE  Linking'
  <2>1. jobs' = [jobs EXCEPT ![i] = [jobs[i] EXCEPT !.status = s]]
    BY <1>2 DEF UpdateJobState
  <2>2. \A k \in JobIds : jobs'[k].taskIds = jobs[k].taskIds
    BY <1>t, <2>1 DEF Job
  <2> QED  BY <1>2, <2>2 DEF UpdateJobState, disk
<1>3. ASSUME NEW i \in JobIds, NEW r \in ResultIds,
             RecordExecutionResult(i, r) \/ WriteResult(i, r)
      PROVE  Linking'
  BY <1>3 DEF RecordExecutionResult, WriteResult, disk, memory
<1>5. ASSUME NEW i \in JobIds, WriteJob(i)
      PROVE  Linking'
  BY <1>5, <1>t DEF WriteJob, memory
<1>6. ASSUME NEW i \in Watched, SetJobPlan(i) \/ GetJob(i) \/ GetJobPlan(i)
      PROVE  Linking'
  BY <1>6 DEF SetJobPlan, GetJob, GetJobPlan, disk, memory
<1>9. ASSUME NEW t \in TaskIds, NEW i \in JobIds, NEW padded \in Paddings,
             CreateTask(t, i, padded)
      PROVE  Linking'
  <2>1. tasks[t].status = "ABSENT" /\ up
    <3>1. padded = FALSE
      OBVIOUS
    <3> QED  BY <1>9, <3>1 DEF CreateTask, AbsentTask, Free
  <2>2. \A u \in TaskIds : u # t => tasks'[u] = tasks[u]
    BY <1>9, <1>t DEF CreateTask
  <2>3. \A k \in JobIds : t \notin jobs[k].taskIds \cup diskJobs[k].taskIds
    BY <2>1
  <2> QED  BY <1>9, <2>2, <2>3 DEF CreateTask, disk
<1>10. ASSUME NEW t \in TaskIds, NEW s \in TaskState, UpdateTaskState(t, s)
       PROVE  Linking'
  <2>1. tasks' = [tasks EXCEPT ![t] = [tasks[t] EXCEPT !.status = s]] /\ s # "ABSENT"
    BY <1>10, TransitionsOfExisting DEF UpdateTaskState
  <2>2. \A k \in JobIds, u \in TaskIds : Kin(tasks, k, u) => Kin(tasks', k, u)
    BY <1>t, <2>1 DEF Task
  <2> QED  BY <1>10, <2>2 DEF UpdateTaskState, disk
<1>11. ASSUME NEW t \in TaskIds, WriteNewTask(t)
       PROVE  Linking'
  <2> DEFINE i == tasks[t].jobId
             x == [jobs[i] EXCEPT !.taskIds = jobs[i].taskIds \cup {t}]
  <2>1. i \in JobIds /\ Kin(tasks, i, t) /\ up
    BY <1>11, <1>u, WritesDiffer DEF WriteNewTask, Typed, NewTaskHasParent
  <2>2. jobs' = [jobs EXCEPT ![i] = x]
    BY <1>11 DEF WriteNewTask
  <2>x. x.taskIds = jobs[i].taskIds \cup {t}
    BY <1>t, <2>1 DEF Job
  <2>3. /\ jobs'[i].taskIds = jobs[i].taskIds \cup {t}
        /\ \A k \in JobIds : k # i => jobs'[k].taskIds = jobs[k].taskIds
    <3> HIDE DEF x, i
    <3> QED  BY <1>t, <2>1, <2>2, <2>x
  <2>4. diskTasks' = [diskTasks EXCEPT ![t] = tasks[t]] /\ up' = up
        /\ tasks' = tasks /\ diskJobs' = diskJobs
    BY <1>11 DEF WriteNewTask
  <2>5. \A k \in JobIds, u \in TaskIds :
          Kin(diskTasks, k, u) /\ Kin(tasks, k, u) => Kin(diskTasks', k, u)
    BY <1>t, <2>4
  <2>6. Kin(diskTasks', i, t)
    BY <1>t, <2>1, <2>4
  <2> HIDE DEF i, Kin
  <2>7. Kin(tasks', i, t) /\ \A k \in JobIds, u \in TaskIds : Kin(tasks', k, u) = Kin(tasks, k, u)
    BY <2>1, <2>4
  <2> QED  BY <2>1, <2>3, <2>4, <2>5, <2>6, <2>7
<1>12. ASSUME NEW t \in TaskIds, WriteTask(t)
       PROVE  Linking'
  <2>1. up /\ diskTasks' = [diskTasks EXCEPT ![t] = tasks[t]] /\ up' = up
        /\ tasks' = tasks /\ diskJobs' = diskJobs /\ jobs' = jobs
    BY <1>12, <1>u, WritesDiffer DEF WriteTask, memory
  <2> QED  BY <1>t, <2>1
<1>13. CASE WriteFails
  BY <1>13 DEF WriteFails, memory, disk
<1>14. CASE Crash
  BY <1>14 DEF Crash, NoJobs, AbsentJob, disk
<1>15. CASE Restart
  BY <1>15 DEF Restart, disk
<1>16. CASE UNCHANGED vars
  BY <1>16 DEF vars, memory, disk
<1> QED  BY <1>1, <1>2, <1>3, <1>5, <1>6, <1>9, <1>10, <1>11, <1>12,
            <1>13, <1>14, <1>15, <1>16 DEF Next

\* With clean ids the files never hold a dangling task, whatever crashes or fails.
THEOREM NeverDangling ==
  ASSUME TRUE \notin Paddings
  PROVE  Spec => []NoDanglingTask
<1>1. Typed /\ Linking => NoDanglingTask
  BY DEF Typed, TypeOK, Linking, Kin, NoDanglingTask, Job
<1>2. Typed /\ Linking /\ [Next]_vars => (Typed /\ Linking)'
  BY TypedNext, LinkingNext
<1> QED  BY <1>1, <1>2, TypedInit, LinkingInit, PTL DEF Spec

-----------------------------------------------------------------------------
(* The files implement the store, if writes do not fail *)

\* Job i in memory is one step of the store ahead of its file.
JobAhead(i) ==
  /\ jobs = [diskJobs EXCEPT ![i] = jobs[i]]
  /\ \/ diskJobs[i] = AbsentJob /\ jobs[i] = NewJob
     \/ \E s \in JobState :
          /\ <<diskJobs[i].status, s>> \in ValidJobTransitions
          /\ jobs[i] = [diskJobs[i] EXCEPT !.status = s]
     \/ \E t \in TaskIds :
          /\ diskTasks[t] # AbsentTask /\ diskTasks[t].jobId = i
          /\ jobs[i] = [diskJobs[i] EXCEPT !.taskIds = @ \cup {t}]

\* So is task t.
NewTaskAhead(t) ==
  /\ tasks = [diskTasks EXCEPT ![t] = tasks[t]]
  /\ diskTasks[t] = AbsentTask
  /\ \E i \in JobIds : jobs[i] # AbsentJob /\ tasks[t] = NewTask(i)

TaskAhead(t) ==
  /\ tasks = [diskTasks EXCEPT ![t] = tasks[t]]
  /\ \E s \in TaskState :
       /\ <<diskTasks[t].status, s>> \in ValidTaskTransitions
       /\ tasks[t] = [diskTasks[t] EXCEPT !.status = s]

\* While the process runs, memory is what the files will be once the current call
\* has written.
Ahead ==
  /\ (write = Done \/ \E k : write = <<"result", k>>) => jobs = diskJobs /\ tasks = diskTasks
  /\ \A i \in JobIds : write = <<"job", i>> => JobAhead(i) /\ tasks = diskTasks
  /\ \A t \in TaskIds : write = <<"newTask", t>> => NewTaskAhead(t) /\ jobs = diskJobs
  /\ \A t \in TaskIds : write = <<"task", t>> => TaskAhead(t) /\ jobs = diskJobs

ResultsAhead ==
  /\ (\A k : write # <<"result", k>>) => results = diskResults
  /\ \A i \in JobIds, r \in ResultIds : write = <<"result", <<i, r>>>> =>
       results = [diskResults EXCEPT ![i] = @ \cup {r}]

\* A terminal state a client was shown is the state of the file.
ShownIsKept ==
  \A i \in JobIds : seen[i] \in JobTerminal => diskJobs[i].status = seen[i]

Mirror == Typed /\ (up => Ahead /\ ResultsAhead) /\ ShownIsKept

LEMMA MirrorInit == Init => Mirror
<1> SUFFICES ASSUME Init PROVE Mirror
  OBVIOUS
<1>1. Ahead /\ ResultsAhead
  BY WritesDiffer DEF Init, Ahead, ResultsAhead
<1>2. ShownIsKept
  BY DEF Init, ShownIsKept, JobTerminal
<1> QED  BY <1>1, <1>2, TypedInit DEF Mirror

CleanWrites == TRUE \notin Paddings /\ ~WritesMayFail

LEMMA AheadNext ==
  ASSUME CleanWrites, Mirror, [Next]_vars, up, up'
  PROVE  Ahead'
<1> USE DEF Ahead
<1>t. /\ jobs \in [JobIds -> Job] /\ diskJobs \in [JobIds -> Job]
      /\ tasks \in [TaskIds -> Task] /\ diskTasks \in [TaskIds -> Task]
      /\ Ahead
  BY DEF Mirror, Typed, TypeOK
<1>1. ASSUME NEW i \in JobIds, NEW padded \in Paddings, CreateJob(i, padded)
      PROVE  Ahead'
  <2>1. padded = FALSE
    BY DEF CleanWrites
  <2>2. /\ write' = <<"job", i>> /\ tasks' = tasks /\ diskTasks' = diskTasks
        /\ diskJobs' = diskJobs /\ jobs = diskJobs /\ tasks = diskTasks
        /\ jobs' = [jobs EXCEPT ![i] = NewJob] /\ jobs[i] = AbsentJob
    BY <1>1, <1>t, <2>1 DEF CreateJob, disk, Free
  <2>3. JobAhead(i)'
    BY <1>t, <2>2 DEF JobAhead
  <2> QED  BY <2>2, <2>3, WritesDiffer
<1>2. ASSUME NEW i \in JobIds, NEW s \in JobState, UpdateJobState(i, s)
      PROVE  Ahead'
  <2>1. /\ write' = <<"job", i>> /\ tasks' = tasks /\ diskTasks' = diskTasks
        /\ diskJobs' = diskJobs /\ jobs = diskJobs /\ tasks = diskTasks
        /\ jobs' = [jobs EXCEPT ![i] = [jobs[i] EXCEPT !.status = s]]
        /\ <<jobs[i].status, s>> \in ValidJobTransitions
    BY <1>2, <1>t DEF UpdateJobState, disk, Free
  <2>2. JobAhead(i)'
    BY <1>t, <2>1 DEF JobAhead
  <2> QED  BY <2>1, <2>2, WritesDiffer
<1>3. ASSUME NEW i \in JobIds, NEW r \in ResultIds, RecordExecutionResult(i, r)
      PROVE  Ahead'
  BY <1>3, <1>t, WritesDiffer DEF RecordExecutionResult, disk, Free
<1>4. ASSUME NEW i \in JobIds, NEW r \in ResultIds, WriteResult(i, r)
      PROVE  Ahead'
  BY <1>4, <1>t, WritesDiffer DEF WriteResult, memory
<1>5. ASSUME NEW i \in JobIds, WriteJob(i)
      PROVE  Ahead'
  <2>1. /\ jobs = [diskJobs EXCEPT ![i] = jobs[i]] /\ tasks = diskTasks
        /\ jobs' = jobs /\ tasks' = tasks /\ diskTasks' = diskTasks
        /\ diskJobs' = [diskJobs EXCEPT ![i] = jobs[i]] /\ write' = Done
    BY <1>5, <1>t DEF WriteJob, memory, JobAhead
  <2> QED  BY <2>1, WritesDiffer
<1>6. ASSUME NEW i \in Watched, SetJobPlan(i) \/ GetJob(i) \/ GetJobPlan(i)
      PROVE  Ahead'
  BY <1>6, <1>t, WritesDiffer DEF SetJobPlan, GetJob, GetJobPlan, disk, memory, Free
<1>9. ASSUME NEW t \in TaskIds, NEW i \in JobIds, NEW padded \in Paddings,
             CreateTask(t, i, padded)
      PROVE  Ahead'
  <2>1. padded = FALSE
    BY DEF CleanWrites
  <2>2. /\ write' = <<"newTask", t>> /\ jobs' = jobs /\ diskTasks' = diskTasks
        /\ diskJobs' = diskJobs /\ jobs = diskJobs /\ tasks = diskTasks
        /\ tasks' = [tasks EXCEPT ![t] = NewTask(i)] /\ tasks[t] = AbsentTask
        /\ jobs[i] # AbsentJob
    BY <1>9, <1>t, <2>1 DEF CreateTask, disk, Free
  <2>3. NewTaskAhead(t)'
    BY <1>t, <2>2 DEF NewTaskAhead
  <2> QED  BY <2>2, <2>3, WritesDiffer
<1>10. ASSUME NEW t \in TaskIds, NEW s \in TaskState, UpdateTaskState(t, s)
       PROVE  Ahead'
  <2>1. /\ write' = <<"task", t>> /\ jobs' = jobs /\ diskTasks' = diskTasks
        /\ diskJobs' = diskJobs /\ jobs = diskJobs /\ tasks = diskTasks
        /\ tasks' = [tasks EXCEPT ![t] = [tasks[t] EXCEPT !.status = s]]
        /\ <<tasks[t].status, s>> \in ValidTaskTransitions
    BY <1>10, <1>t DEF UpdateTaskState, disk, Free
  <2>2. TaskAhead(t)'
    BY <1>t, <2>1 DEF TaskAhead
  <2> QED  BY <2>1, <2>2, WritesDiffer
<1>11. ASSUME NEW t \in TaskIds, WriteNewTask(t)
       PROVE  Ahead'
  <2>0. PICK i \in JobIds : i = tasks[t].jobId
    BY <1>11 DEF WriteNewTask, Mirror, Typed, NewTaskHasParent
  <2>1. /\ write = <<"newTask", t>> /\ write' = <<"job", i>>
        /\ tasks' = tasks /\ diskJobs' = diskJobs
        /\ diskTasks' = [diskTasks EXCEPT ![t] = tasks[t]]
        /\ jobs' = [jobs EXCEPT ![i] = [jobs[i] EXCEPT !.taskIds = @ \cup {t}]]
    BY <1>11, <2>0 DEF WriteNewTask
  <2>2. /\ tasks = [diskTasks EXCEPT ![t] = tasks[t]] /\ jobs = diskJobs
        /\ tasks[t] # AbsentTask
    BY <1>t, <2>1, EntitiesTyped DEF NewTaskAhead
  <2>3. diskTasks' = tasks'
    BY <2>1, <2>2
  <2>4. JobAhead(i)'
    <3>1. jobs' = [diskJobs' EXCEPT ![i] = jobs'[i]]
          /\ jobs'[i] = [diskJobs'[i] EXCEPT !.taskIds = @ \cup {t}]
      BY <1>t, <2>1, <2>2
    <3>2. diskTasks'[t] # AbsentTask /\ diskTasks'[t].jobId = i
      BY <2>0, <2>1, <2>2, <2>3
    <3> QED  BY <3>1, <3>2 DEF JobAhead
  <2> QED  BY <2>1, <2>2, <2>3, <2>4, WritesDiffer
<1>12. ASSUME NEW t \in TaskIds, WriteTask(t)
       PROVE  Ahead'
  <2>1. /\ tasks = [diskTasks EXCEPT ![t] = tasks[t]] /\ jobs = diskJobs
        /\ jobs' = jobs /\ tasks' = tasks /\ diskJobs' = diskJobs
        /\ diskTasks' = [diskTasks EXCEPT ![t] = tasks[t]] /\ write' = Done
    BY <1>12, <1>t DEF WriteTask, memory, TaskAhead
  <2> QED  BY <2>1, WritesDiffer
<1>13. CASE UNCHANGED vars
  <2>1. /\ jobs' = jobs /\ diskJobs' = diskJobs /\ tasks' = tasks
        /\ diskTasks' = diskTasks /\ write' = write
    BY <1>13 DEF vars, memory, disk
  <2>2. \A i \in JobIds : JobAhead(i) => JobAhead(i)'
    BY <2>1 DEF JobAhead
  <2>3. \A t \in TaskIds : (NewTaskAhead(t) => NewTaskAhead(t)') /\ (TaskAhead(t) => TaskAhead(t)')
    BY <2>1 DEF NewTaskAhead, TaskAhead
  <2> QED  BY <1>t, <2>1, <2>2, <2>3
<1>14. ~WriteFails /\ ~Crash /\ ~Restart
  BY DEF CleanWrites, WriteFails, Crash, Restart
<1> QED  BY <1>1, <1>2, <1>3, <1>4, <1>5, <1>6, <1>9, <1>10, <1>11, <1>12,
            <1>13, <1>14 DEF Next

LEMMA ResultsNext ==
  ASSUME CleanWrites, Mirror, [Next]_vars, up, up'
  PROVE  ResultsAhead'
<1> USE DEF ResultsAhead
<1>t. /\ results \in [JobIds -> SUBSET ResultIds] /\ diskResults \in [JobIds -> SUBSET ResultIds]
      /\ ResultsAhead
  BY DEF Mirror, Typed, TypeOK
<1>1. ASSUME NEW i \in JobIds, NEW r \in ResultIds, RecordExecutionResult(i, r)
      PROVE  ResultsAhead'
  <2>1. results = diskResults
    BY <1>1, <1>t, WritesDiffer DEF RecordExecutionResult, Free
  <2>2. /\ results' = [results EXCEPT ![i] = @ \cup {r}] /\ diskResults' = diskResults
        /\ write' = <<"result", <<i, r>>>>
    BY <1>1 DEF RecordExecutionResult, disk
  <2> QED  BY <2>1, <2>2
<1>2. ASSUME NEW i \in JobIds, NEW r \in ResultIds, WriteResult(i, r)
      PROVE  ResultsAhead'
  <2>1. results = [diskResults EXCEPT ![i] = @ \cup {r}]
    BY <1>2, <1>t DEF WriteResult
  <2>2. results' = results /\ write' = Done
        /\ diskResults' = [diskResults EXCEPT ![i] = @ \cup {r}]
    BY <1>2 DEF WriteResult, memory
  <2> QED  BY <2>1, <2>2, WritesDiffer
<1>3. ASSUME results' = results, diskResults' = diskResults,
             \A k : write # <<"result", k>> /\ write' # <<"result", k>>
      PROVE  ResultsAhead'
  BY <1>t, <1>3
<1>4. ASSUME NEW i \in JobIds,
             \/ \E padded \in Paddings : CreateJob(i, padded)
             \/ \E s \in JobState : UpdateJobState(i, s)
             \/ WriteJob(i)
      PROVE  ResultsAhead'
  BY <1>3, <1>4, WritesDiffer DEF CreateJob, UpdateJobState, WriteJob, memory, disk, Free
<1>5. ASSUME NEW t \in TaskIds,
             \/ \E i \in JobIds, padded \in Paddings : CreateTask(t, i, padded)
             \/ \E s \in TaskState : UpdateTaskState(t, s)
             \/ WriteNewTask(t) \/ WriteTask(t)
      PROVE  ResultsAhead'
  BY <1>3, <1>5, WritesDiffer DEF CreateTask, UpdateTaskState, WriteNewTask, WriteTask,
     memory, disk, Free
<1>6. ASSUME NEW i \in Watched, SetJobPlan(i) \/ GetJob(i) \/ GetJobPlan(i)
      PROVE  ResultsAhead'
  BY <1>3, <1>6, WritesDiffer DEF SetJobPlan, GetJob, GetJobPlan, disk, memory, Free
<1>7. CASE UNCHANGED vars
  BY <1>7, <1>t DEF vars, memory, disk
<1>8. ~WriteFails /\ ~Crash /\ ~Restart
  BY DEF CleanWrites, WriteFails, Crash, Restart
<1> QED  BY <1>1, <1>2, <1>4, <1>5, <1>6, <1>7, <1>8 DEF Next

\* What a step does to the files is a step of the store, or nothing.
LEMMA StoreStep ==
  ASSUME CleanWrites, Mirror, [Next]_vars
  PROVE  [Store!Next]_<<diskJobs, diskTasks>>
<1>t. /\ jobs \in [JobIds -> Job] /\ diskJobs \in [JobIds -> Job]
      /\ tasks \in [TaskIds -> Task] /\ diskTasks \in [TaskIds -> Task]
  BY DEF Mirror, Typed, TypeOK
<1>u. write # Done => up /\ Ahead
  BY DEF Mirror, Typed, NewTaskHasParent
<1>1. ASSUME NEW i \in JobIds, WriteJob(i)
      PROVE  Store!Next
  <2>1. /\ diskTasks' = diskTasks /\ diskJobs' = [diskJobs EXCEPT ![i] = jobs[i]]
        /\ JobAhead(i)
    BY <1>1, <1>u, WritesDiffer DEF WriteJob, Ahead
  <2>2. CASE diskJobs[i] = AbsentJob /\ jobs[i] = NewJob
    <3>1. Store!AddJob(i)
      BY <2>1, <2>2 DEF Store!AddJob, Store!AbsentJob, Store!NewJob, AbsentJob, NewJob
    <3> QED  BY <3>1 DEF Store!Next
  <2>3. ASSUME NEW s \in JobState, <<diskJobs[i].status, s>> \in ValidJobTransitions,
               jobs[i] = [diskJobs[i] EXCEPT !.status = s]
        PROVE  Store!Next
    <3>1. Store!MoveJob(i, s)
      BY <2>1, <2>3 DEF Store!MoveJob, Store!ValidJobTransitions, ValidJobTransitions
    <3> QED  BY <2>3, <3>1 DEF Store!Next, Store!JobState, JobState
  <2>4. ASSUME NEW t \in TaskIds, diskTasks[t] # AbsentTask, diskTasks[t].jobId = i,
               jobs[i] = [diskJobs[i] EXCEPT !.taskIds = @ \cup {t}]
        PROVE  Store!Next
    <3>1. Store!LinkTask(t)
      BY <2>1, <2>4 DEF Store!LinkTask, Store!AbsentTask, AbsentTask
    <3> QED  BY <3>1 DEF Store!Next
  <2> QED  BY <2>1, <2>2, <2>3, <2>4 DEF JobAhead
<1>2. ASSUME NEW t \in TaskIds, WriteNewTask(t)
      PROVE  Store!Next
  <2>1. /\ diskJobs' = diskJobs /\ diskTasks' = [diskTasks EXCEPT ![t] = tasks[t]]
        /\ NewTaskAhead(t) /\ jobs = diskJobs
    BY <1>2, <1>u, WritesDiffer DEF WriteNewTask, Ahead
  <2>2. PICK i \in JobIds : jobs[i] # AbsentJob /\ tasks[t] = NewTask(i)
    BY <2>1 DEF NewTaskAhead
  <2>3. Store!AddTask(t, i)
    BY <2>1, <2>2 DEF NewTaskAhead, Store!AddTask, Store!AbsentTask, AbsentTask,
       Store!AbsentJob, AbsentJob, Store!NewTask, NewTask
  <2> QED  BY <2>3 DEF Store!Next
<1>3. ASSUME NEW t \in TaskIds, WriteTask(t)
      PROVE  Store!Next
  <2>1. /\ diskJobs' = diskJobs /\ diskTasks' = [diskTasks EXCEPT ![t] = tasks[t]]
        /\ TaskAhead(t)
    BY <1>3, <1>u, WritesDiffer DEF WriteTask, Ahead
  <2>2. PICK s \in TaskState : /\ <<diskTasks[t].status, s>> \in ValidTaskTransitions
                               /\ tasks[t] = [diskTasks[t] EXCEPT !.status = s]
    BY <2>1 DEF TaskAhead
  <2>3. Store!MoveTask(t, s)
    BY <2>1, <2>2 DEF Store!MoveTask, Store!ValidTaskTransitions, ValidTaskTransitions,
       Store!TaskState, TaskState, Store!TaskTerminal, TaskTerminal
  <2> QED  BY <2>3 DEF Store!Next, Store!TaskState, TaskState
<1>4. ASSUME ~(\E i \in JobIds : WriteJob(i)),
             ~(\E t \in TaskIds : WriteNewTask(t) \/ WriteTask(t))
      PROVE  UNCHANGED <<diskJobs, diskTasks>>
  BY <1>4 DEF Next, vars, disk, CreateJob, UpdateJobState, RecordExecutionResult, WriteResult,
     SetJobPlan, GetJob, GetJobPlan, CreateTask, UpdateTaskState, WriteFails, Crash, Restart
<1> QED  BY <1>1, <1>2, <1>3, <1>4

LEMMA StoreInit == Init => Store!Init
BY DEF Init, NoJobs, NoTasks, Store!Init, Store!AbsentJob, AbsentJob, Store!AbsentTask, AbsentTask

\* The file of a job keeps its terminal state.
LEMMA FilesFinal ==
  ASSUME CleanWrites, Mirror, [Next]_vars, NEW i \in JobIds,
         diskJobs[i].status \in JobTerminal
  PROVE  diskJobs'[i].status = diskJobs[i].status
<1>t. diskJobs \in [JobIds -> Job]
  BY DEF Mirror, Typed, TypeOK
<1>1. CASE UNCHANGED <<diskJobs, diskTasks>>
  BY <1>1
<1>2. ASSUME NEW k \in JobIds, Store!AddJob(k)
      PROVE  diskJobs'[i].status = diskJobs[i].status
  BY <1>t, <1>2 DEF Store!AddJob, Store!AbsentJob, JobTerminal
<1>3. ASSUME NEW k \in JobIds, NEW s, Store!MoveJob(k, s)
      PROVE  diskJobs'[i].status = diskJobs[i].status
  <2>1. k # i
    BY <1>3, TransitionsOfExisting
       DEF Store!MoveJob, Store!ValidJobTransitions, ValidJobTransitions
  <2> QED  BY <1>t, <1>3, <2>1 DEF Store!MoveJob
<1>4. ASSUME NEW t \in TaskIds, Store!LinkTask(t)
      PROVE  diskJobs'[i].status = diskJobs[i].status
  BY <1>t, <1>4 DEF Store!LinkTask, Job
<1>5. ASSUME NEW t \in TaskIds,
             (\E k \in JobIds : Store!AddTask(t, k)) \/ (\E s : Store!MoveTask(t, s))
      PROVE  diskJobs'[i].status = diskJobs[i].status
  BY <1>5 DEF Store!AddTask, Store!MoveTask
<1> QED  BY <1>1, <1>2, <1>3, <1>4, <1>5, StoreStep DEF Store!Next

LEMMA ShownNext ==
  ASSUME CleanWrites, Mirror, [Next]_vars
  PROVE  ShownIsKept' /\ \A i \in JobIds : seen[i] \in JobTerminal => seen'[i] = seen[i]
<1>t. seen \in [JobIds -> JobState \cup {"ABSENT"}] /\ ShownIsKept
  BY DEF Mirror, Typed, TypeOK
<1>1. CASE seen' = seen
  BY <1>1, <1>t, FilesFinal DEF ShownIsKept
<1>2. ASSUME NEW i \in Watched, GetJob(i)
      PROVE  ShownIsKept' /\ \A k \in JobIds : seen[k] \in JobTerminal => seen'[k] = seen[k]
  <2>1. jobs = diskJobs /\ diskJobs' = diskJobs /\ seen' = [seen EXCEPT ![i] = jobs[i].status]
    BY <1>2 DEF GetJob, Free, Mirror, Ahead, disk
  <2> QED  BY <1>t, <2>1 DEF ShownIsKept
<1>3. ASSUME ~(\E i \in Watched : GetJob(i))
      PROVE  seen' = seen
  BY <1>3 DEF Next, vars, CreateJob, UpdateJobState, RecordExecutionResult, WriteResult,
     WriteJob, SetJobPlan, GetJobPlan, CreateTask, UpdateTaskState, WriteNewTask, WriteTask,
     WriteFails, Crash, Restart
<1> QED  BY <1>1, <1>2, <1>3

LEMMA MirrorNext ==
  ASSUME CleanWrites, Mirror, [Next]_vars
  PROVE  Mirror'
<1>1. Typed'
  BY TypedNext DEF Mirror
<1>2. ASSUME up'
      PROVE  Ahead' /\ ResultsAhead'
  <2>1. CASE up
    BY <1>2, <2>1, AheadNext, ResultsNext
  <2>2. CASE ~up
    <3>1. write = Done
      BY <2>2 DEF Mirror, Typed, NewTaskHasParent
    <3>2. Restart
      BY <1>2, <2>2, <3>1, WritesDiffer DEF Next, vars, Free, CreateJob, UpdateJobState,
         RecordExecutionResult, WriteResult, WriteJob, SetJobPlan, GetJob, GetJobPlan,
         CreateTask, UpdateTaskState, WriteNewTask, WriteTask, WriteFails, Crash
    <3> QED  BY <3>1, <3>2, WritesDiffer DEF Restart, disk, Ahead, ResultsAhead
  <2> QED  BY <2>1, <2>2
<1> QED  BY <1>1, <1>2, ShownNext DEF Mirror

\* With clean ids and writes that do not fail, what a call has returned is on disk.
THEOREM Durability ==
  ASSUME CleanWrites
  PROVE  Spec => []Durable
<1>1. Mirror => Durable
  BY WritesDiffer DEF Mirror, Durable, Free, Ahead, ResultsAhead
<1>2. Mirror /\ [Next]_vars => Mirror'
  BY MirrorNext
<1> QED  BY <1>1, <1>2, MirrorInit, PTL DEF Spec

\* A job that was shown in a terminal state is shown in it ever after.
THEOREM ShownFinal ==
  ASSUME CleanWrites
  PROVE  Spec => FinalWhenSeen
<1>1. Mirror /\ [Next]_vars
      => [\A i \in JobIds : seen[i] \in JobTerminal => seen'[i] = seen[i]]_seen
  BY ShownNext
<1>2. Mirror /\ [Next]_vars => Mirror'
  BY MirrorNext
<1> QED  BY <1>1, <1>2, MirrorInit, PTL DEF Spec, FinalWhenSeen

\* The files implement the store of jobs and tasks.
THEOREM FilesImplementStore ==
  ASSUME CleanWrites
  PROVE  Spec => StoreSpec
<1>1. Mirror /\ [Next]_vars => [Store!Next]_<<diskJobs, diskTasks>>
  BY StoreStep
<1>2. Mirror /\ [Next]_vars => Mirror'
  BY MirrorNext
<1> QED  BY <1>1, <1>2, MirrorInit, StoreInit, PTL DEF Spec, StoreSpec, Store!Spec, Store!storeVars
=============================================================================
