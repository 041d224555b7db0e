---------------------------- MODULE ExecutionBridge ----------------------------
(***************************************************************************)
(* From approved proposals to one effect on the workspace: approval records *)
(* and admission (approval-admission), the execution bridge, work units and *)
(* self-correction, on the job engine whose files survive a crash.          *)
(*                                                                         *)
(* The server keeps no approvals and no admissions, and gives none out:     *)
(* clients write them and send them in, so that an approval here is a       *)
(* record that says so.  A draft is what a client sends as proposals, a     *)
(* sequence of operations <<type, target, payload>>, the payload being the  *)
(* content or the command; an action is <<what, target or command, payload>>. *)
(* One tenant, workspace and plan; a review says REVIEWED and is of the     *)
(* draft that was approved.  A bridge call runs to its end before the next  *)
(* request is looked at, but the process may crash inside it.  The plans    *)
(* here are the bridge's: other routes that bind a plan to a job are left   *)
(* out.                                                                     *)
(***************************************************************************)
EXTENDS Naturals, Sequences, FiniteSets

CONSTANTS
  Tasks, Executions, None,
  Elsewhere,      \* the tasks whose failures other engines report, for correction here
  Drafts,         \* bound of the model: the sequences of operations clients send
  Actions,        \* bound of the model: the actions they send with a work unit
  Omissions,      \* bound of the model: what they leave out of an approval record
  MaxApprovals, MaxNow, MaxCrashes, MaxEffects,  \* bounds of the model
  Lifetime,       \* DEFAULT_APPROVAL_TTL_MS
  MaxCycles       \* MAX_CORRECTION_CYCLES

ASSUME BridgeAssumption ==
  /\ None \notin Tasks \cup Executions
  /\ Elsewhere \subseteq Tasks
  /\ \A d \in Drafts : d # <<>> => 1 \in DOMAIN d
  /\ Omissions \subseteq SUBSET {"fingerprint", "expiry"}
  /\ {MaxApprovals, MaxNow, MaxCrashes, MaxEffects, Lifetime, MaxCycles} \subseteq Nat

VARIABLES
  approvals,   \* the approval records that clients hold
  now, crashes,
  jobs, tasks, results,  \* on disk: the engine's jobs, the job of each task, results
  plans, tracker,        \* in memory: the plan of each job, the approvals used
  effects,     \* what was done to the workspace, in order
  call         \* the request in progress, up to its answer

files == <<jobs, tasks, results>>
memory == <<plans, tracker>>
client == <<approvals, now>>
vars == <<client, crashes, files, memory, effects, call>>

NoPlan == [task |-> None, action |-> <<>>]
Idle == [pc |-> "idle", kind |-> "none", exec |-> None, task |-> None, approval |-> 0,
         action |-> <<>>, tracked |-> FALSE, cycle |-> 0, fresh |-> FALSE, status |-> "none"]

Init ==
  /\ approvals = <<>> /\ now = 0 /\ crashes = 0
  /\ jobs = {} /\ tasks = [t \in Tasks |-> None] /\ results = <<>>
  /\ plans = [e \in Executions |-> NoPlan] /\ tracker = {}
  /\ effects = <<>> /\ call = Idle

-----------------------------------------------------------------------------
(* Approvals and admission. *)

\* The fingerprint of a draft has the sorted names of its operations (type, target and
\* description), not the content they write or the command they run.
Name(op) == <<op[1], op[2]>>
Fingerprint(draft) == {Name(draft[k]) : k \in DOMAIN draft}

\* The loop engine's records have both a fingerprint and an expiry.  A client of the
\* server writes its own, and a field that it leaves out is not checked.
CreateApprovalRecord(t, draft, status, lacks) ==
  /\ Len(approvals) < MaxApprovals
  /\ status = "REJECTED" => lacks = {}
  /\ approvals' =
       Append(approvals,
              [task |-> t, status |-> status,
               fingerprint |-> IF "fingerprint" \in lacks THEN None ELSE Fingerprint(draft),
               expires |-> IF "expiry" \in lacks THEN None ELSE now + Lifetime])
  /\ UNCHANGED <<now, crashes, files, memory, effects, call>>

ApprovedOnce(i, t, draft) == approvals[i].status = "APPROVED"
Approved(i, t, draft) ==
  /\ approvals[i].status = "APPROVED"
  /\ approvals[i].task = t
  /\ approvals[i].expires # None => now <= approvals[i].expires
  /\ approvals[i].fingerprint \in {None, Fingerprint(draft)}

\* Admission makes the same checks and records nothing; the server passes it no
\* seenApprovalIds, so that an approval may be admitted again.
EvaluateApprovalAdmission(i, t, draft) == Approved(i, t, draft)

TimePasses ==
  /\ now < MaxNow /\ now' = now + 1
  /\ UNCHANGED <<approvals, crashes, files, memory, effects, call>>

-----------------------------------------------------------------------------
(* The bridge. *)

\* What the bridge makes of an operation: it tells a deletion from the other changes of
\* a file, but not a file to create from one to modify.
FileTypes == {"CREATE", "MODIFY", "DELETE"}
MapOperation(op) ==
  IF op[1] \in FileTypes
  THEN <<IF op[1] = "DELETE" THEN "DELETE" ELSE "WRITE", op[2], op[3]>>
  ELSE <<"COMMAND", op[3], op[3]>>

\* A call of some kind for an execution and a task, under an approval or none (0);
\* action is what it will run, fresh that it has created its job.
Called(kind, e, t, i) ==
  [pc |-> "job", kind |-> kind, exec |-> e, task |-> t, approval |-> i,
   action |-> <<>>, tracked |-> FALSE, cycle |-> 0, fresh |-> FALSE, status |-> "none"]

Answer(request, status) ==
  call' = [Called(request.kind, request.exec, request.task, 0)
             EXCEPT !.pc = "done", !.fresh = request.fresh, !.status = status]
Reply(status) == Answer(call, status)
GoesOn(request, op) == call' = [request EXCEPT !.action = MapOperation(op)]
Respond ==
  /\ call.pc = "done" /\ call' = Idle
  /\ UNCHANGED <<client, crashes, files, memory, effects>>

\* Gates 1 to 9: what does not depend on the engine.  Callers inside the process hand
\* the bridge a tracker of the approvals it has used and an admission they just had
\* evaluated; the server has no tracker, and takes the client's word for the admission.
GatesOpen(i, t, draft, tracked) ==
  /\ ~(tracked /\ i \in tracker)
  /\ Approved(i, t, draft)
  /\ draft # <<>>
ExecuteAdmittedBridge(e, i, t, draft, tracked) ==
  /\ call = Idle
  /\ tracked => EvaluateApprovalAdmission(i, t, draft)
  /\ LET request == [Called("bridge", e, t, i) EXCEPT !.tracked = tracked]
     IN \/ GatesOpen(i, t, draft, tracked) /\ GoesOn(request, draft[1])
        \/ ~GatesOpen(i, t, draft, tracked) /\ Answer(request, "EXECUTION_DENIED")
  /\ UNCHANGED <<client, crashes, files, memory, effects>>

\* A correction admits and executes in one call, for the task whose failure it
\* answers; its execution id is made of the correction's, the cycle is the client's.
OrchestrateSelfCorrection(e, i, draft, cycle) ==
  /\ call = Idle
  /\ LET t == approvals[i].task
         request == [Called("correction", e, t, i) EXCEPT !.cycle = cycle]
     IN /\ t \in Elsewhere \/ \E k \in DOMAIN results : results[k].task = t
        /\ \/ cycle > MaxCycles /\ Answer(request, "CORRECTION_LIMIT_REACHED")
           \/ /\ cycle <= MaxCycles /\ ~GatesOpen(i, t, draft, FALSE)
              /\ Answer(request, "CORRECTION_DENIED")
           \/ /\ cycle <= MaxCycles /\ GatesOpen(i, t, draft, FALSE)
              /\ GoesOn(request, draft[1])
  /\ UNCHANGED <<client, crashes, files, memory, effects>>

\* Gate 10: a job id or a task id the engine knows is thrown out of the bridge.
JobKnownWithTask(e) == \E t \in Tasks : tasks[t] = e
JobKnown(e) == e \in jobs
BridgeCreatesJob ==
  /\ call.pc = "job"
  /\ \/ JobKnown(call.exec) /\ Reply("THROWN") /\ UNCHANGED jobs
     \/ /\ ~JobKnown(call.exec)
        /\ jobs' = jobs \cup {call.exec}
        /\ call' = [call EXCEPT !.pc = "task", !.fresh = TRUE]
  /\ UNCHANGED <<client, crashes, tasks, results, memory, effects>>

TaskKnownToJob(t, e) == tasks[t] = e
TaskKnown(t, e) == tasks[t] # None
BridgeCreatesTask ==
  /\ call.pc = "task"
  /\ \/ TaskKnown(call.task, call.exec) /\ Reply("THROWN") /\ UNCHANGED tasks
     \/ /\ ~TaskKnown(call.task, call.exec)
        /\ tasks' = [tasks EXCEPT ![call.task] = call.exec]
        /\ call' = [call EXCEPT !.pc = "prepare"]
  /\ UNCHANGED <<client, crashes, jobs, results, memory, effects>>

\* Plan, work unit, policy and tracker, all in memory.  What the client sent decides
\* now: a unit without a tenant is thrown out, one the client's policy denies is
\* answered, and neither undoes the job, the task and the plan.  A correction has a
\* tenant and brings no policy.
BridgePrepares ==
  /\ call.pc = "prepare"
  /\ plans' = [plans EXCEPT ![call.exec] = [task |-> call.task, action |-> call.action]]
  /\ \/ /\ call.kind = "bridge"
        /\ Reply("THROWN") \/ Reply("EXECUTION_DENIED")
        /\ UNCHANGED tracker
     \/ /\ tracker' = IF call.tracked THEN tracker \cup {call.approval} ELSE tracker
        /\ call' = [call EXCEPT !.pc = "run", !.tracked = FALSE, !.approval = 0]
  /\ UNCHANGED <<client, crashes, files, effects>>

-----------------------------------------------------------------------------
(* Work units. *)

\* The plan of a job lists the target of its mutation, or its command: of a mutation
\* that a client sends, what it does to the target and what it writes may be others.
Expected(e, action) ==
  /\ action[1] = "COMMAND" <=> plans[e].action[1] = "COMMAND"
  /\ action[2] = plans[e].action[2]
AdmitWorkUnit(e, t, action) ==
  e \in jobs /\ TaskKnownToJob(t, e) /\ plans[e].task = t /\ Expected(e, action)

\* A client may have a unit of any job executed, any number of times; it throws when
\* it is not admitted, and without consent it is only recorded.
ExecuteWorkUnit(e, t, action) ==
  /\ call = Idle
  /\ Len(effects) < MaxEffects /\ Len(results) < MaxEffects
  /\ LET request == Called("unit", e, t, 0)
     IN \/ ~AdmitWorkUnit(e, t, action) /\ Answer(request, "THROWN")
        \/ AdmitWorkUnit(e, t, action) /\ call' = [request EXCEPT !.pc = "record", !.status = "DENIED"]
        \/ AdmitWorkUnit(e, t, action) /\ call' = [request EXCEPT !.pc = "run", !.action = action]
  /\ UNCHANGED <<client, crashes, files, memory, effects>>

\* The command or file mutation.  A failure is caught, whether it came before anything
\* was done (an unreadable file, a command that cannot start) or after.
UnitRuns(outcome) ==
  /\ call.pc = "run"
  /\ \/ effects' = Append(effects, [kind |-> call.kind, exec |-> call.exec, task |-> call.task,
                                    action |-> call.action])
     \/ outcome = "FAILED" /\ UNCHANGED effects
  /\ call' = [call EXCEPT !.pc = "record", !.status = outcome]
  /\ UNCHANGED <<client, crashes, files, memory>>

OutcomesOfBridge == {IF call.status = "SUCCEEDED" THEN "EXECUTED" ELSE "EXECUTION_DENIED"}
\* What a call answers once its unit is done: a correction has to pass the checks
\* of the unit and of the project, and asks for the plan of the latter only now.
Outcomes ==
  CASE call.kind = "unit" -> {call.status}
    [] call.kind = "bridge" -> {IF call.status = "SUCCEEDED" THEN "EXECUTED" ELSE "FAILED"}
    [] call.kind = "correction" ->
         LET failed == IF call.cycle = MaxCycles THEN "CORRECTION_LIMIT_REACHED" ELSE "CORRECTION_FAILED"
         IN IF call.status # "SUCCEEDED" THEN {failed}
            ELSE {"CORRECTION_DENIED", "CORRECTION_SUCCEEDED", failed}

Record == Append(results, [task |-> call.task, outcome |-> call.status])
UnitRecordsOnlySuccess ==
  /\ call.pc = "record"
  /\ results' = IF call.status = "SUCCEEDED" THEN Record ELSE results
  /\ \E status \in Outcomes : Reply(status)
  /\ UNCHANGED <<client, crashes, jobs, tasks, memory, effects>>
UnitRecords ==
  /\ call.pc = "record"
  /\ results' = Record
  /\ \E status \in Outcomes : Reply(status)
  /\ UNCHANGED <<client, crashes, jobs, tasks, memory, effects>>

\* The process dies and comes up with the jobs, tasks and results of its files.
Crash ==
  /\ crashes < MaxCrashes /\ crashes' = crashes + 1
  /\ plans' = [e \in Executions |-> NoPlan] /\ tracker' = {} /\ call' = Idle
  /\ UNCHANGED <<client, files, effects>>

-----------------------------------------------------------------------------
ClientActs ==
  \/ \E t \in Tasks, d \in Drafts, s \in {"APPROVED", "REJECTED"}, lacks \in Omissions :
       CreateApprovalRecord(t, d, s, lacks)
  \/ TimePasses

Request ==
  \/ \E e \in Executions, i \in DOMAIN approvals, t \in Tasks, d \in Drafts, tracked \in BOOLEAN :
       ExecuteAdmittedBridge(e, i, t, d, tracked)
  \/ \E e \in Executions, i \in DOMAIN approvals, d \in Drafts, c \in 1..MaxCycles + 1 :
       OrchestrateSelfCorrection(e, i, d, c)
  \/ \E e \in Executions, t \in Tasks, action \in Actions : ExecuteWorkUnit(e, t, action)

Next ==
  \/ ClientActs \/ Request
  \/ BridgeCreatesJob \/ BridgeCreatesTask \/ BridgePrepares
  \/ \E o \in {"SUCCEEDED", "FAILED"} : UnitRuns(o)
  \/ UnitRecords \/ Respond \/ Crash

Spec == Init /\ [][Next]_vars

-----------------------------------------------------------------------------
Kinds == {"bridge", "correction", "unit"}
Statuses == {"EXECUTION_DENIED", "EXECUTED", "FAILED", "THROWN", "SUCCEEDED", "DENIED",
             "CORRECTION_DENIED", "CORRECTION_FAILED", "CORRECTION_LIMIT_REACHED", "CORRECTION_SUCCEEDED"}
Ran == Actions \cup {MapOperation(d[1]) : d \in Drafts} \cup {<<>>}
CallRecord ==
  [pc: {"job", "task", "prepare", "run", "record", "done"}, kind: Kinds, exec: Executions,
   task: Tasks, approval: Nat, action: Ran, tracked: BOOLEAN, cycle: Nat,
   fresh: BOOLEAN, status: Statuses \cup {"none"}]
Effect == [kind: Kinds, exec: Executions, task: Tasks, action: Ran]

\* The shape of the state.
TypeOK ==
  /\ approvals \in Seq([task: Tasks, status: {"APPROVED", "REJECTED"},
                     fingerprint: {Fingerprint(d) : d \in Drafts} \cup {None},
                     expires: Nat \cup {None}])
  /\ now \in Nat /\ crashes \in Nat
  /\ jobs \subseteq Executions
  /\ tasks \in [Tasks -> Executions \cup {None}]
  /\ results \in Seq([task: Tasks, outcome: {"SUCCEEDED", "FAILED", "DENIED"}])
  /\ plans \in [Executions -> [task: Tasks \cup {None}, action: Ran]]
  /\ tracker \subseteq DOMAIN approvals
  /\ effects \in Seq(Effect)
  /\ call \in CallRecord \cup {Idle}

EffectsOf(t, kinds) == {k \in DOMAIN effects : effects[k].task = t /\ effects[k].kind \in kinds}

\* However often a client retries, with whatever ids, approvals and corrections, and
\* wherever the process crashes, the bridge does the work of a task at most once.
\* A tracker is lost with the process and denials leave it alone: the task's id in
\* the engine's files is all there is.
OneExecutionPerTask == \A t \in Tasks : Cardinality(EffectsOf(t, {"bridge", "correction"})) <= 1

\* Does the name of an operation allow the action: exactly, or with whatever a client
\* would do to the same file?
Allows(name, action, exactly) ==
  /\ action[1] = "COMMAND" <=> name[1] \notin FileTypes
  /\ action[1] # "COMMAND" =>
       /\ name[2] = action[2]
       /\ exactly => (action[1] = "DELETE" <=> name[1] = "DELETE")

\* Everything that was done has an approval of its own task, and unless that record came
\* without a fingerprint it names the operation: what the bridge did is what was named,
\* and a unit that a client sent touched no other file and ran no command in place of a
\* change.  That the unit did to the file what was approved is not promised, nor who
\* wrote the approval.
RunsOnlyApproved ==
  \A k \in DOMAIN effects : \E i \in DOMAIN approvals :
    /\ approvals[i].status = "APPROVED" /\ approvals[i].task = effects[k].task
    /\ approvals[i].fingerprint # None =>
         \E name \in approvals[i].fingerprint :
           Allows(name, effects[k].action, effects[k].kind # "unit")

\* Every effect has its result in the files, but for one per crash, and every success in
\* the files had its effect.
ResultsAccount ==
  LET with(outcomes) == Cardinality({k \in DOMAIN results : results[k].outcome \in outcomes})
                        + IF call.pc = "record" /\ call.status \in outcomes THEN 1 ELSE 0
  IN /\ with({"SUCCEEDED"}) <= Len(effects)
     /\ Len(effects) <= with({"SUCCEEDED", "FAILED"}) + crashes

\* The answer to an execution whose id was new to the engine says no less than what was
\* done under that id: after EXECUTED it was done, and after a denial or an error nothing
\* was.  After FAILED, which also answers executed: true, both are possible.
AnswerTellsEffect ==
  call.pc = "done" /\ call.kind = "bridge" /\ call.fresh =>
    LET did == \E k \in EffectsOf(call.task, {"bridge"}) : effects[k].exec = call.exec
    IN /\ call.status = "EXECUTED" => did
       /\ did => call.status \in {"EXECUTED", "FAILED"}

\* Work whose plan a crash took is never done again: its job id and its task id are
\* used up, and no unit of it is admitted.
Planned(e) == plans[e].task # None
Lost(e) == e \in jobs /\ ~Planned(e) /\ ~(call.pc \in {"task", "prepare"} /\ call.exec = e)
LostWorkStaysUndone ==
  [][\A e \in Executions : Lost(e) =>
       /\ Lost(e)'
       /\ {k \in DOMAIN effects' : effects'[k].exec = e} = {k \in DOMAIN effects : effects[k].exec = e}]_vars
=============================================================================
