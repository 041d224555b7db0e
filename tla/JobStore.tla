------------------------------ MODULE JobStore ------------------------------
(***************************************************************************)
(* What a client may rely on of the store of jobs and tasks: an entity     *)
(* appears once, moves only along the transition tables of constants.js,   *)
(* and a job lists only tasks of its own.  There is no crash, no file and  *)
(* no cache here: JobEngine is shown to implement this specification.      *)
(***************************************************************************)
EXTENDS JobTables

VARIABLES job, task

storeVars == <<job, task>>

Init ==
  /\ job = [i \in JobIds |-> AbsentJob]
  /\ task = [t \in TaskIds |-> AbsentTask]

AddJob(i) ==
  /\ job[i] = AbsentJob
  /\ job' = [job EXCEPT ![i] = NewJob]
  /\ UNCHANGED task

MoveJob(i, s) ==
  /\ <<job[i].status, s>> \in ValidJobTransitions
  /\ job' = [job EXCEPT ![i].status = s]
  /\ UNCHANGED task

AddTask(t, i) ==
  /\ task[t] = AbsentTask
  /\ job[i] # AbsentJob
  /\ task' = [task EXCEPT ![t] = NewTask(i)]
  /\ UNCHANGED job

MoveTask(t, s) ==
  /\ <<task[t].status, s>> \in ValidTaskTransitions
  /\ task' = [task EXCEPT ![t].status = s]
  /\ UNCHANGED job

\* The parent lists the task.
LinkTask(t) ==
  /\ task[t] # AbsentTask
  /\ job' = [job EXCEPT ![task[t].jobId].taskIds = @ \cup {t}]
  /\ UNCHANGED task

Next ==
  \/ \E i \in JobIds : AddJob(i) \/ \E s \in JobState : MoveJob(i, s)
  \/ \E t \in TaskIds :
       \/ \E i \in JobIds : AddTask(t, i)
       \/ \E s \in TaskState : MoveTask(t, s)
       \/ LinkTask(t)

Spec == Init /\ [][Next]_storeVars
=============================================================================
