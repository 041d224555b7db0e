--------------------------- MODULE AutonomousLoop ---------------------------
(***************************************************************************)
(* executeJob of autonomous-loop-engine.js with the repair controller of   *)
(* auto-repair-controller.js, run concurrently on a single JavaScript      *)
(* thread.  A run is one call of executeJob.  The code between two awaits  *)
(* cannot be interleaved: `thread' names the run that has the thread, and  *)
(* every other run, and every request of an operator, waits until it comes *)
(* to an await or ends.  One action is one call on the job object (or one  *)
(* await that settles), in the order the code makes them.                  *)
(*                                                                         *)
(* As in server.js the engine has a provider gateway, and all the jobs     *)
(* share one workspace, one repair controller and one job engine.  The two *)
(* runners are optional: one that is given may pass, fail or reject; where *)
(* none is given the code assumes a pass and launches nothing.  server.js  *)
(* gives none (Runners = {}).                                              *)
(***************************************************************************)
EXTENDS AutonomousJob

CONSTANTS
  Runs,             \* the calls of executeJob; each happens at most once
  MaxRepairs,       \* MAX_FIX_ATTEMPTS of the repair controller
  Customs,          \* what a caller may pass: sequences of files, one per
                    \* operation of a custom proposal
  CustomTasks,      \* task ids a custom proposal may carry
  Claims,           \* the initialTestOutcome values a caller may pass
  Runners,          \* which of testRunner and regressionRunner the engine has
  GenFile,          \* the file a generated proposal writes
  Timed,            \* bound of the model: the jobs whose deadline may pass
  Prices,           \* bound of the model: may a call take the job over budget?
  Idle              \* nobody has the thread

ASSUME LoopAssumption ==
  /\ Jobs # {}
  /\ MaxRepairs \in Nat \ {0}
  /\ Customs \subseteq Seq(Files) \ {<<>>}
  /\ Claims \subseteq {"pass", "fail"}
  /\ Runners \subseteq {"tests", "regression"}
  /\ GenFile \in Files
  /\ Timed \subseteq Jobs
  /\ Prices \subseteq BOOLEAN
  /\ Idle \notin Runs

VARIABLES
  thread,           \* the run that has the thread, or Idle
  pc,               \* where each run is
  run,              \* the parameters and local variables of each run
  attemptCount,     \* closure variable of the one repair controller
  tasks,            \* ids of the tasks in the shared job engine
  written,          \* files the bridge really wrote, per job
  invoked           \* provider invocations made on behalf of a job

loopVars == <<job, thread, pc, run, attemptCount, tasks, written, invoked>>

-----------------------------------------------------------------------------
Evidence == {"none", "pass", "fail"}

RepairOutcome == {"none", "REPAIRED", "ATTEMPT_FAILED", "LIMIT_EXCEEDED",
                  "ADMISSION_DENIED", "SECURITY_BLOCKED"}

\* Promises a run may be waiting for.
Awaits == {"analysis", "plan", "implement", "test", "diagnose", "rediagnose",
           "fixcall", "targeted", "regression", "repaired"}

Sync == {"iterate", "begin", "toPlanning", "toArchitecting", "toImplementing",
         "propose", "toExecuting", "govern", "recordFiles", "toTesting",
         "recordTest", "loop", "attempt", "fixpropose", "fixfiles",
         "assumeTargeted", "assumeRegression", "giveUp",
         "toReviewing", "toSecurityReview", "toVerifying", "deliver", "catch"}

\* A run that returns and a run that rejects both end; only "delivered" matters.
Ended == {"returned", "rejected", "delivered"}

MainTask(i) == <<i, 0>>
FixTask(i, n) == <<i, n>>
Tasks == (Jobs \X (0..MaxRepairs)) \cup CustomTasks

Local ==
  [of: Jobs, custom: BOOLEAN, claim: Evidence, ops: Seq(Files),
   evidence: Evidence,      \* testEvidence, then the outcome of the repair
   lastFailure: Evidence,   \* lastFailureEvidence: what the analysis is given
   targeted: Evidence,      \* repairOutcome.targetedEvidence
   outcome: RepairOutcome,  \* repairOutcome.status
   task: Tasks,             \* taskId: of the proposal, then of the repair
   unseen: SUBSET Jobs]     \* jobs that wrote since the last full test of this
                            \* run was launched (history of the model)

Fresh(i) ==
  [of |-> i, custom |-> FALSE, claim |-> "none", ops |-> <<GenFile>>,
   evidence |-> "none", lastFailure |-> "none", targeted |-> "none",
   outcome |-> "none", task |-> MainTask(i), unseen |-> {}]

LoopInit ==
  /\ Init
  /\ thread = Idle
  /\ pc = [r \in Runs |-> "idle"]
  /\ run = [r \in Runs |-> Fresh(CHOOSE i \in Jobs : TRUE)]
  /\ attemptCount = 0
  /\ tasks = {}
  /\ written = [i \in Jobs |-> {}]
  /\ invoked = [i \in Jobs |-> 0]

-----------------------------------------------------------------------------
(* The thread *)

J(r) == job[run[r].of]

\* Run r executes synchronously at label l / is resumed from the await at l.
At(r, l) == thread = r /\ pc[r] = l
Settles(r, l) == thread = Idle /\ pc[r] = l

Goto(r, l) ==
  /\ pc' = [pc EXCEPT ![r] = l]
  /\ thread' = IF l \in Sync THEN r ELSE Idle

SetJob(r, j) == Set(run[r].of, j)

\* transitionTo inside the try block: a throw goes to the catch clause.
Move(r, s, next) ==
  IF Allowed(J(r), s)
  THEN SetJob(r, TransitionTo(J(r), s)) /\ Goto(r, next)
  ELSE UNCHANGED job /\ Goto(r, "catch")

\* A record* method: count, check the bounds, ignore the result; it may throw.
Record(r, counted, next) ==
  /\ SetJob(r, CheckBounds(counted))
  /\ Goto(r, IF BoundsThrow(counted) THEN "catch" ELSE next)

\* if (!checkBounds()) return; if (aborted) { ->CANCELLED; return }; ->s
GateUnchecked(r, s, next) ==
  IF J(r).aborted THEN Move(r, "CANCELLED", "returned") ELSE Move(r, s, next)
Gate(r, s, next) ==
  IF BoundsThrow(J(r)) THEN UNCHANGED job /\ Goto(r, "catch")
  ELSE IF ~InBounds(J(r)) THEN SetJob(r, CheckBounds(J(r))) /\ Goto(r, "returned")
  ELSE IF J(r).aborted THEN Move(r, "CANCELLED", "returned")
  ELSE Move(r, s, next)

\* A provider call of the loop returned (its usage is recorded, a throw of the
\* record is swallowed) or failed (nothing is recorded); the code falls back.
ProviderReturns(r, next) ==
  \/ UNCHANGED job /\ Goto(r, next)
  \/ \E expensive \in Prices :
       /\ SetJob(r, CheckBounds(CountProviderCall(J(r), expensive)))
       /\ Goto(r, next)

\* A provider is asked on behalf of the job when the run comes to the await l.
InvokesAt(r, l) ==
  invoked' = IF pc'[r] = l THEN [invoked EXCEPT ![run[r].of] = @ + 1] ELSE invoked

KeepWorld == UNCHANGED <<attemptCount, tasks, written, invoked>>
KeepRun == UNCHANGED run

\* The bridge refuses a task id the job engine already has by throwing.
NoConflict(task) == FALSE
TaskConflict(task) == task \in tasks

\* The bridge creates the task and then runs the first operation only.
BridgeWrites(r, task, f) ==
  /\ tasks' = tasks \cup {task}
  /\ written' = [written EXCEPT ![run[r].of] = @ \cup {f}]
  /\ run' = [x \in Runs |-> [run[x] EXCEPT !.unseen = @ \cup {run[r].of}]]

BridgeFails(task) ==
  /\ tasks' = tasks \cup {task}
  /\ UNCHANGED <<written, run>>

-----------------------------------------------------------------------------
(* Entering the loop *)

\* executeJob up to the first bounds check, which is outside the try block.
\* server.js calls it when a job is submitted with executeNow; a submission
\* with the idempotency key of an existing job runs that job again.
Execute(r, i) ==
  /\ thread = Idle /\ pc[r] = "idle"
  /\ \/ run' = [run EXCEPT ![r] = Fresh(i)]
     \/ \E claim \in Claims : run' = [run EXCEPT ![r] = [Fresh(i) EXCEPT !.claim = claim]]
     \/ \E ops \in Customs, task \in CustomTasks \cup {MainTask(i)},
           claim \in Claims \cup {"none"} :
          run' = [run EXCEPT ![r] = [Fresh(i) EXCEPT !.custom = TRUE, !.ops = ops,
                                                     !.task = task, !.claim = claim]]
  /\ IF job[i].status \in Terminal
     THEN UNCHANGED job /\ Goto(r, "returned")
     ELSE /\ Set(i, CheckBounds(job[i]))
          /\ Goto(r, IF BoundsThrow(job[i]) THEN "rejected"
                     ELSE IF InBounds(job[i]) THEN "iterate" ELSE "returned")
  /\ KeepWorld

\* recordIteration: the bounds are checked again, the result is not looked at.
RecordIteration(r) ==
  /\ At(r, "iterate")
  /\ SetJob(r, CheckBounds(CountIteration(J(r))))
  /\ Goto(r, IF BoundsThrow(CountIteration(J(r))) THEN "rejected" ELSE "begin")
  /\ KeepRun /\ KeepWorld

\* The analysis of the workspace asks a provider itself.
Begin(r) ==
  /\ At(r, "begin")
  /\ IF J(r).aborted THEN Move(r, "CANCELLED", "returned")
                     ELSE Move(r, "ANALYZING", "analysis")
  /\ InvokesAt(r, "analysis")
  /\ KeepRun /\ UNCHANGED <<attemptCount, tasks, written>>

Analysed(r) ==
  /\ Settles(r, "analysis")
  /\ Goto(r, "toPlanning") \/ Goto(r, "catch")
  /\ UNCHANGED job /\ KeepRun /\ KeepWorld

ToPlanning(r) ==
  /\ At(r, "toPlanning")
  /\ Gate(r, "PLANNING", "plan")
  /\ InvokesAt(r, "plan")
  /\ KeepRun /\ UNCHANGED <<attemptCount, tasks, written>>

Planned(r) ==
  /\ Settles(r, "plan")
  /\ ProviderReturns(r, "toArchitecting")
  /\ KeepRun /\ KeepWorld

ToArchitecting(r) ==
  /\ At(r, "toArchitecting")
  /\ Gate(r, "ARCHITECTING", "toImplementing")
  /\ KeepRun /\ KeepWorld

ToImplementing(r) ==
  /\ At(r, "toImplementing")
  /\ Gate(r, "IMPLEMENTING", IF run[r].custom THEN "propose" ELSE "implement")
  /\ InvokesAt(r, "implement")
  /\ KeepRun /\ UNCHANGED <<attemptCount, tasks, written>>

Implemented(r) ==
  /\ Settles(r, "implement")
  /\ ProviderReturns(r, "propose")
  /\ KeepRun /\ KeepWorld

-----------------------------------------------------------------------------
(* Governance and the bridge *)

\* A target outside the allowed paths denies the job; only a caller's can be.
Propose(r) ==
  /\ At(r, "propose")
  /\ \/ UNCHANGED job /\ Goto(r, "toExecuting")
     \/ run[r].custom /\ Move(r, "POLICY_DENIED", "returned")
  /\ KeepRun /\ KeepWorld

ToExecuting(r) ==
  /\ At(r, "toExecuting")
  /\ Gate(r, "EXECUTING", "govern")
  /\ KeepRun /\ KeepWorld

\* Review and admission may deny; the bridge throws on a known task id, fails,
\* or writes the file of the first operation.
Govern(r) ==
  /\ At(r, "govern")
  /\ UNCHANGED <<attemptCount, invoked>>
  /\ \/ /\ run[r].custom
        /\ Move(r, "POLICY_DENIED", "returned")
        /\ KeepRun /\ UNCHANGED <<tasks, written>>
     \/ /\ TaskConflict(run[r].task)
        /\ UNCHANGED job /\ Goto(r, "catch")
        /\ KeepRun /\ UNCHANGED <<tasks, written>>
     \/ /\ ~TaskConflict(run[r].task)
        /\ BridgeFails(run[r].task)
        /\ Move(r, "FAILED", "returned")
     \/ /\ ~TaskConflict(run[r].task)
        /\ BridgeWrites(r, run[r].task, Head(run[r].ops))
        /\ UNCHANGED job /\ Goto(r, "recordFiles")

RecordFilesButFirst(r) ==
  /\ At(r, "recordFiles")
  /\ IF Len(run[r].ops) = 1
     THEN UNCHANGED <<job, run>> /\ Goto(r, "toTesting")
     ELSE /\ Record(r, CountFile(J(r), run[r].ops[2]), "recordFiles")
          /\ run' = [run EXCEPT ![r].ops = Tail(@)]
  /\ KeepWorld
\* One recordFileMutation per operation of the proposal, the first one included.
RecordFiles(r) ==
  /\ At(r, "recordFiles")
  /\ IF run[r].ops = <<>>
     THEN UNCHANGED <<job, run>> /\ Goto(r, "toTesting")
     ELSE /\ Record(r, CountFile(J(r), Head(run[r].ops)), "recordFiles")
          /\ run' = [run EXCEPT ![r].ops = Tail(@)]
  /\ KeepWorld

-----------------------------------------------------------------------------
(* Testing *)

\* An initialTestOutcome takes the place of the test, and so does the assumed pass
\* of an engine without testRunner; no test is run then.
LaunchesTest(r) == run[r].claim = "none" /\ "tests" \in Runners
ToTesting(r) ==
  /\ At(r, "toTesting")
  /\ Gate(r, "TESTING", IF LaunchesTest(r) THEN "test" ELSE "recordTest")
  /\ run' = CASE pc'[r] = "test" -> [run EXCEPT ![r].unseen = {}]
              [] pc'[r] = "recordTest" ->
                   [run EXCEPT ![r].evidence =
                      IF run[r].claim = "none" THEN "pass" ELSE run[r].claim]
              [] OTHER -> run
  /\ KeepWorld

Tested(r) ==
  /\ Settles(r, "test")
  /\ \/ \E result \in {"pass", "fail"} :
          run' = [run EXCEPT ![r].evidence = result] /\ Goto(r, "recordTest")
     \/ KeepRun /\ Goto(r, "catch")
  /\ UNCHANGED job /\ KeepWorld

RecordTest(r) ==
  /\ At(r, "recordTest")
  /\ Record(r, CountCommand(J(r)),
            IF run[r].evidence = "pass" THEN "toReviewing" ELSE "loop")
  /\ run' = [run EXCEPT ![r].lastFailure = run[r].evidence]
  /\ KeepWorld

-----------------------------------------------------------------------------
(* The repair loop *)

\* maxFixAttempts || MAX_FIX_ATTEMPTS: a limit of zero means the default.
RepairLimit == IF MaxFixAttempts = 0 THEN MaxRepairs ELSE MaxFixAttempts

\* The abort flag is looked at before the bounds here.
LoopHeadOneMore(r) ==
  /\ At(r, "loop")
  /\ IF J(r).fixAttempts > RepairLimit THEN UNCHANGED job /\ Goto(r, "giveUp")
     ELSE IF J(r).aborted THEN Move(r, "CANCELLED", "returned")
     ELSE Gate(r, "ANALYZING_FAILURE", "diagnose")
  /\ InvokesAt(r, "diagnose")
  /\ KeepRun /\ UNCHANGED <<attemptCount, tasks, written>>
LoopHead(r) ==
  /\ At(r, "loop")
  /\ IF J(r).fixAttempts >= RepairLimit THEN UNCHANGED job /\ Goto(r, "giveUp")
     ELSE IF J(r).aborted THEN Move(r, "CANCELLED", "returned")
     ELSE Gate(r, "ANALYZING_FAILURE", "diagnose")
  /\ InvokesAt(r, "diagnose")
  /\ KeepRun /\ UNCHANGED <<attemptCount, tasks, written>>

Diagnosed(r) ==
  /\ Settles(r, "diagnose")
  /\ Move(r, "FIXING", "attempt")
  /\ KeepRun /\ KeepWorld

\* attemptRepair up to its first await.  The count is the controller's, not the
\* job's; a throw of recordFixAttempt rejects the promise of attemptRepair.
Attempt(r) ==
  /\ At(r, "attempt")
  /\ IF attemptCount >= MaxRepairs
     THEN /\ run' = [run EXCEPT ![r].outcome = "LIMIT_EXCEEDED", ![r].targeted = "none"]
          /\ Record(r, CountFixAttempt(J(r)), "repaired")
          /\ UNCHANGED <<attemptCount, invoked>>
     ELSE /\ attemptCount' = attemptCount + 1
          /\ Record(r, CountFixAttempt(J(r)), "rediagnose")
          /\ run' = [run EXCEPT ![r].outcome = "none", ![r].targeted = "none"]
          /\ InvokesAt(r, "rediagnose")
  /\ UNCHANGED <<tasks, written>>

\* repairTaskId is built after the await, from the count of that moment.
RediagnosedOffByOne(r) ==
  /\ Settles(r, "rediagnose")
  /\ run' = [run EXCEPT ![r].task = FixTask(run[r].of, attemptCount + 1)]
  /\ UNCHANGED job /\ Goto(r, "fixcall")
  /\ InvokesAt(r, "fixcall")
  /\ UNCHANGED <<attemptCount, tasks, written>>
Rediagnosed(r) ==
  /\ Settles(r, "rediagnose")
  /\ run' = [run EXCEPT ![r].task = FixTask(run[r].of, attemptCount)]
  /\ UNCHANGED job /\ Goto(r, "fixcall")
  /\ InvokesAt(r, "fixcall")
  /\ UNCHANGED <<attemptCount, tasks, written>>

FixReturned(r) ==
  /\ Settles(r, "fixcall")
  /\ ProviderReturns(r, "fixpropose")
  /\ KeepRun /\ KeepWorld

\* attemptRepair returns: its caller is resumed later.
RepairEnds(r, outcome, targeted) ==
  /\ run' = [run EXCEPT ![r].outcome = outcome, ![r].targeted = targeted]
  /\ Goto(r, "repaired")

\* Target check, review, admission and bridge of the fix, which names the first
\* changed file.  Neither the status of the job nor the abort flag is looked at.
FixPropose(r) ==
  /\ At(r, "fixpropose")
  /\ UNCHANGED <<job, attemptCount, invoked>>
  /\ \/ /\ \E denial \in {"SECURITY_BLOCKED", "ADMISSION_DENIED"} :
             RepairEnds(r, denial, "none")
        /\ UNCHANGED <<tasks, written>>
     \/ /\ TaskConflict(run[r].task)
        /\ Goto(r, "catch") /\ KeepRun /\ UNCHANGED <<tasks, written>>
     \/ /\ ~TaskConflict(run[r].task)
        /\ tasks' = tasks \cup {run[r].task}
        /\ RepairEnds(r, "ATTEMPT_FAILED", "none")
        /\ UNCHANGED written
     \/ /\ ~TaskConflict(run[r].task)
        /\ BridgeWrites(r, run[r].task, Head(J(r).files))
        /\ Goto(r, "fixfiles")

FixFiles(r) ==
  /\ At(r, "fixfiles")
  /\ Record(r, CountFile(J(r), Head(J(r).files)),
            IF "tests" \in Runners THEN "targeted" ELSE "assumeTargeted")
  /\ KeepRun /\ KeepWorld

\* The targeted test decides whether the full regression is run at all.
TargetedIsEnough(r) ==
  /\ Settles(r, "targeted")
  /\ \E result \in {"pass", "fail"} :
       /\ Record(r, CountCommand(J(r)), "repaired")
       /\ run' = [run EXCEPT ![r].targeted = result,
            ![r].outcome = IF result = "pass" THEN "REPAIRED" ELSE "ATTEMPT_FAILED"]
  /\ KeepWorld
\* A pass goes on to the regression, if there is a runner for it.
TargetedPasses(r) ==
  IF "regression" \in Runners
  THEN /\ Record(r, CountCommand(J(r)), "regression")
       /\ run' = [run EXCEPT ![r].targeted = "pass", ![r].unseen = {}]
  ELSE /\ Record(r, CountCommand(J(r)), "assumeRegression")
       /\ run' = [run EXCEPT ![r].targeted = "pass"]
TargetedReturns(r) ==
  /\ Settles(r, "targeted")
  /\ \/ /\ UNCHANGED job /\ Goto(r, "catch") /\ KeepRun
     \/ /\ Record(r, CountCommand(J(r)), "repaired")
        /\ run' = [run EXCEPT ![r].outcome = "ATTEMPT_FAILED", ![r].targeted = "fail"]
     \/ TargetedPasses(r)
  /\ KeepWorld
\* Without a testRunner the targeted test is taken to have passed, at once.
TargetedAssumed(r) ==
  /\ At(r, "assumeTargeted")
  /\ TargetedPasses(r)
  /\ KeepWorld

RegressionReturns(r) ==
  /\ Settles(r, "regression")
  /\ \/ UNCHANGED job /\ Goto(r, "catch") /\ KeepRun
     \/ \E outcome \in {"REPAIRED", "ATTEMPT_FAILED"} :
          /\ Record(r, CountCommand(J(r)), "repaired")
          /\ run' = [run EXCEPT ![r].outcome = outcome]
  /\ KeepWorld
\* And so is the regression without a regressionRunner.
RegressionAssumed(r) ==
  /\ At(r, "assumeRegression")
  /\ Record(r, CountCommand(J(r)), "repaired")
  /\ run' = [run EXCEPT ![r].outcome = "REPAIRED"]
  /\ KeepWorld

\* The loop looks at the outcome.  AutonomousJobState has no SECURITY_BLOCKED, so
\* the transition that name is given to throws.
Repaired(r) ==
  /\ Settles(r, "repaired")
  /\ CASE run[r].outcome = "LIMIT_EXCEEDED" ->
            UNCHANGED job /\ Goto(r, "giveUp") /\ KeepRun
       [] run[r].outcome = "SECURITY_BLOCKED" ->
            UNCHANGED job /\ Goto(r, "catch") /\ KeepRun
       [] run[r].outcome = "REPAIRED" ->
            /\ Move(r, "RETESTING", "toReviewing")
            /\ run' = [run EXCEPT ![r].evidence = "pass"]
       [] OTHER ->
            /\ UNCHANGED job /\ Goto(r, "loop")
            /\ run' = [run EXCEPT ![r].lastFailure =
                          IF run[r].targeted # "none" THEN run[r].targeted ELSE @]
  /\ KeepWorld

GiveUp(r) ==
  /\ At(r, "giveUp")
  /\ Move(r, "BLOCKED", "returned")
  /\ KeepRun /\ KeepWorld

-----------------------------------------------------------------------------
(* Review, verification, delivery *)

ToReviewing(r) ==
  /\ At(r, "toReviewing")
  /\ Gate(r, "REVIEWING", "toSecurityReview")
  /\ KeepRun /\ KeepWorld

ToSecurityReview(r) ==
  /\ At(r, "toSecurityReview")
  /\ Move(r, "SECURITY_REVIEW", "toVerifying")
  /\ KeepRun /\ KeepWorld

ToVerifying(r) ==
  /\ At(r, "toVerifying")
  /\ Gate(r, "VERIFYING", "deliver")
  /\ KeepRun /\ KeepWorld

\* The five checks are constant or implied by being here: none can fail.  The
\* package is attached before the transition that could throw.
Deliver(r) ==
  /\ At(r, "deliver")
  /\ IF Allowed(J(r), "READY_FOR_DELIVERY")
     THEN SetJob(r, Delivered(J(r))) /\ Goto(r, "delivered")
     ELSE SetJob(r, [J(r) EXCEPT !.delivery = TRUE]) /\ Goto(r, "catch")
  /\ KeepRun /\ KeepWorld

\* catch: fail the job unless it is terminal, and reject.
CatchAlways(r) ==
  /\ At(r, "catch")
  /\ SetJob(r, TransitionTo(J(r), "FAILED"))
  /\ Goto(r, "rejected")
  /\ KeepRun /\ KeepWorld
CatchLosesRethrow(r) ==
  /\ At(r, "catch")
  /\ J(r).status \notin Terminal
  /\ SetJob(r, TransitionTo(J(r), "FAILED"))
  /\ Goto(r, "rejected")
  /\ KeepRun /\ KeepWorld
Catch(r) ==
  /\ At(r, "catch")
  /\ IF J(r).status \in Terminal \/ ~Allowed(J(r), "FAILED") THEN UNCHANGED job
     ELSE SetJob(r, TransitionTo(J(r), "FAILED"))
  /\ Goto(r, "rejected")
  /\ KeepRun /\ KeepWorld

-----------------------------------------------------------------------------
(* Operators and the clock *)

\* A request handler runs when no run has the thread.
Cancel(i) ==
  /\ thread = Idle
  /\ job[i].status \notin Terminal
  /\ Set(i, Cancelled(job[i]))
  /\ UNCHANGED <<thread, pc>> /\ KeepRun /\ KeepWorld

Resume(i) ==
  /\ thread = Idle
  /\ \E s \in JobState : Resumable(job[i], s) /\ s # "BLOCKED" /\ Set(i, TransitionTo(job[i], s))
  /\ UNCHANGED <<thread, pc>> /\ KeepRun /\ KeepWorld

Deadline(i) ==
  /\ i \in Timed
  /\ DeadlinePasses(i)
  /\ UNCHANGED <<thread, pc>> /\ KeepRun /\ KeepWorld

-----------------------------------------------------------------------------
RunStep(r) ==
  \/ RecordIteration(r) \/ Begin(r) \/ Analysed(r) \/ ToPlanning(r) \/ Planned(r)
  \/ ToArchitecting(r) \/ ToImplementing(r) \/ Implemented(r) \/ Propose(r)
  \/ ToExecuting(r) \/ Govern(r) \/ RecordFiles(r) \/ ToTesting(r) \/ Tested(r)
  \/ RecordTest(r) \/ LoopHead(r) \/ Diagnosed(r) \/ Attempt(r) \/ Rediagnosed(r)
  \/ FixReturned(r) \/ FixPropose(r) \/ FixFiles(r) \/ TargetedReturns(r)
  \/ TargetedAssumed(r) \/ RegressionReturns(r) \/ RegressionAssumed(r) \/ Repaired(r) \/ GiveUp(r) \/ ToReviewing(r)
  \/ ToSecurityReview(r) \/ ToVerifying(r) \/ Deliver(r) \/ Catch(r)

LoopNext ==
  \/ \E r \in Runs : RunStep(r) \/ \E i \in Jobs : Execute(r, i)
  \/ \E i \in Jobs : Cancel(i) \/ Resume(i) \/ Deadline(i)

LoopSpec == LoopInit /\ [][LoopNext]_loopVars

\* The thread never stays on a synchronous statement, and every promise that is
\* awaited settles (provider calls and commands carry timeouts).
LoopFairSpec == LoopSpec /\ \A r \in Runs : WF_loopVars(RunStep(r))

-----------------------------------------------------------------------------
(* What the loop achieves *)

\* The bridge wrote the proposal of r: its files are being, or were, recorded.
WasImplemented(r) == pc[r] = "recordFiles" \/ run[r].ops = <<>>

LoopTypeOK ==
  /\ TypeOK
  /\ thread \in Runs \cup {Idle}
  /\ pc \in [Runs -> {"idle"} \cup Awaits \cup Sync \cup Ended]
  /\ run \in [Runs -> Local]
  /\ attemptCount \in 0..MaxRepairs
  /\ tasks \subseteq Tasks
  /\ written \in [Jobs -> SUBSET Files]
  /\ invoked \in [Jobs -> Nat]

\* An engine with both runners takes no pass for granted.
AssumesNothing == Runners = {"tests", "regression"}

\* When a run delivers, its last evidence is a pass, and in an engine that has both
\* runners the test that gave it was launched after the last write of the run's own
\* job (unless the caller claimed the pass): a repair is not delivered on the
\* evidence of an older test.  An engine that lacks a runner, as the server's does,
\* promises only that the evidence says so: it may deliver what nothing tested.
DeliveredWasTested ==
  \A r \in Runs :
    pc[r] = "deliver" =>
      /\ run[r].evidence = "pass"
      /\ AssumesNothing /\ run[r].claim # "pass" => run[r].of \notin run[r].unseen

\* Of all the runs a job ever has (duplicate submissions, and submissions of a
\* job that gave up and was resumed), one gets its generated proposal past the
\* bridge: the proposal goes by the id of the job's task, the bridge refuses an id
\* that is taken, and no step gives one back.
ImplementedOnce ==
  \A r, q \in Runs :
    /\ r # q /\ run[r].of = run[q].of
    /\ ~run[r].custom /\ ~run[q].custom
    => ~(WasImplemented(r) /\ WasImplemented(q))

\* When a run is about to write its first change, or to deliver, its job is in
\* work and within every limit but the clock, which may have moved on: no
\* ignored result of a record call lets the job get that far.
WithinLimits ==
  \A r \in Runs :
    pc[r] \in {"govern", "deliver"} =>
      J(r).status \in Working /\ Breach(J(r)) \in {"NONE", "TIMEOUT"}

\* The repair loop is bounded for the job as well as for the controller, also
\* when several runs of a job check the count before they raise it.
RepairsBounded ==
  \A i \in Jobs : job[i].fixAttempts <= RepairLimit

\* Every file the bridge wrote for a job, in its first change or in a repair and
\* by whichever run, is listed among the changed files of a delivered package.
WritesAreListed ==
  \A i \in Jobs : job[i].delivery =>
    written[i] \subseteq {job[i].files[k] : k \in DOMAIN job[i].files}

\* The analyses of a job ask the provider without being counted, so that its limit
\* of provider calls does not bound them; its runs and its repairs do: the analysis,
\* the plan and the implementation of a run, and for a repair its diagnosis, the
\* second one of the controller and the fix.  A diagnosis is paid for before its
\* repair is counted: that none is made in vain rests on a job having one run at a
\* time past its implementation.
InvocationsBounded ==
  \A i \in Jobs :
    invoked[i] <= 3 * Cardinality({r \in Runs : pc[r] # "idle" /\ run[r].of = i})
                    + 3 * RepairLimit

\* A run that has started ends, however often tests fail and repairs are denied.
RunsEnd == \A r \in Runs : pc[r] # "idle" ~> pc[r] \in Ended
=============================================================================
