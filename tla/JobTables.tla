------------------------------ MODULE JobTables ------------------------------
(***************************************************************************)
(* Jobs and tasks of the authoritative job engine: their states and the    *)
(* transition matrices of constants.js, and the records domain.js builds   *)
(* (what the engine never branches on is left out: objective, metadata,    *)
(* timestamps, and the tenant, which only narrows who may call).           *)
(***************************************************************************)
CONSTANTS JobIds, TaskIds,
          NoJob       \* the parent of a task that does not exist

ASSUME NoJobAssumption == NoJob \notin JobIds

JobState == {"PENDING", "READY", "RUNNING", "APPROVAL_REQUIRED", "VALIDATING",
             "COMPLETED", "FAILED", "CANCELLED"}

TaskState == {"PENDING", "READY", "RUNNING", "WAITING", "VALIDATING",
              "COMPLETED", "BLOCKED", "FAILED"}

JobTerminal == {"COMPLETED", "FAILED", "CANCELLED"}
TaskTerminal == {"COMPLETED", "FAILED"}

ValidJobTransitions ==
  {<<"PENDING", "READY">>, <<"PENDING", "CANCELLED">>,
   <<"READY", "RUNNING">>, <<"READY", "CANCELLED">>,
   <<"RUNNING", "APPROVAL_REQUIRED">>, <<"RUNNING", "VALIDATING">>,
   <<"RUNNING", "FAILED">>, <<"RUNNING", "CANCELLED">>,
   <<"APPROVAL_REQUIRED", "RUNNING">>, <<"APPROVAL_REQUIRED", "CANCELLED">>,
   <<"VALIDATING", "COMPLETED">>, <<"VALIDATING", "FAILED">>}

ValidTaskTransitions ==
  {<<"PENDING", "READY">>, <<"PENDING", "RUNNING">>, <<"READY", "RUNNING">>,
   <<"RUNNING", "WAITING">>, <<"RUNNING", "VALIDATING">>, <<"WAITING", "RUNNING">>,
   <<"VALIDATING", "COMPLETED">>, <<"BLOCKED", "READY">>, <<"BLOCKED", "RUNNING">>}
  \cup {<<s, "FAILED">> : s \in TaskState \ TaskTerminal}
  \cup {<<s, "BLOCKED">> : s \in TaskState \ (TaskTerminal \cup {"BLOCKED"})}

\* Entities that were never created.
AbsentJob == [status |-> "ABSENT", taskIds |-> {}]
AbsentTask == [status |-> "ABSENT", jobId |-> NoJob]

\* createJob and createTask may be given a status; no caller in src/src does.
NewJob == [status |-> "PENDING", taskIds |-> {}]
NewTask(i) == [status |-> "PENDING", jobId |-> i]

Job == [status: JobState \cup {"ABSENT"}, taskIds: SUBSET TaskIds]
Task == [status: TaskState \cup {"ABSENT"}, jobId: JobIds \cup {NoJob}]
=============================================================================
