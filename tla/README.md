# Onlunet Zeka: a TLA+ model

Onlunet Zeka is a Node.js program that turns a request into an agency's job: it
plans, lets AI providers write files, tests them, repairs what fails and delivers
a package. This directory models the parts of it that hold state and meet
concurrency, failure or repetition. Source paths below are those of the
repository root (`src/...` is its program, `tests/...` its tests, `docs/...` its
documents); `PROJECT.json` gives the lines behind every definition.

## 1. Inventory

One process, one JavaScript thread. A piece of code runs until it comes to an
`await`; requests, promises and timers are interleaved only there. Components call
each other directly; state is shared through closures (one job engine, one
repair controller, one gateway per server).

| component | sources | state | operations | what makes it hard |
|---|---|---|---|---|
| autonomous job | `autonomous/autonomous-job.js` | status, counters, abort flag, delivery package | `transitionTo`, `checkBounds`, `record*`, `cancel`, `resume` | called by loop, repair controller and requests in any order; the clock decides what `checkBounds` does |
| autonomous loop, repair controller | `autonomous/autonomous-loop-engine.js`, `auto-repair-controller.js` | jobs by id and by idempotency key; locals of every execution; one `attemptCount` for all jobs | `createJob`, `executeJob`, `attemptRepair`, `cancelJob`, `resumeJob` | ten kinds of await per execution, each followed by code that trusts what was read before it |
| job engine | `contracts/job-engine.js`, `constants.js`, `domain.js` | maps of jobs, tasks, results, plans; one file per entity | `createJob`, `createTask`, `update*State`, `setJobPlan`, `recordExecutionResult`, reads, restart | two files per `createTask`, memory ahead of disk, crash between writes |
| agent registry, routing, composition, review | `contracts/agent-registry.js`, `task-routing.js`, `multi-agent-orchestration.js`, `proposal-review.js` | registered agents; plans and proposals are the client's | register, route, compose, review | the client sends back what it was given; orders and circles |
| execution bridge, work units, admission | `contracts/execution-bridge.js`, `work-unit.js`, `approval-admission.js` | files of the job engine, plans, a tracker per client; approvals are the client's | approve, admit, execute, execute a unit again | several entities changed by one call, partial failure, replays |
| self correction, verification | `contracts/self-correction.js`, `*-verification.js` | cycles, told by the client | bounded correction | a second way into the bridge |
| circuit breaker | `providers/circuit-breaker.js` | state, failure count, time of opening, per provider | `canExecute`, `recordSuccess`, `recordFailure`, `reset`, reads | reads change the state; results arrive long after the call was let through |
| provider gateway, budget | `providers/provider-gateway.js`, `cost-tracker.js` | shared tracker and breaker | `dispatch`, `_executeWithRetry` | check, await, record; retries and fallback between |
| credential pool | `providers/credential-pool.js` | calls in flight, marks, health, per credential | register, remove, acquire, release, mark | counters lost on re-registration, marks that overwrite each other |
| routing engine, model and provider registries | `providers/routing-engine.js`, `*-registry.js` | registered models | choice | looking at a circuit may move it |
| resource orchestrator | `orchestration/ai-resource-orchestrator.js` | pools, circuits, cooldowns, dispatch counts | select, dispatch, fail over, account | failover chains over shared counters |
| multi-agent executor | `orchestration/multi-agent-executor.js`, `conflict-resolver.js` | answers of the agents of a plan | `executePlan` in four modes | concurrent agents, one failing; plans the client put together |
| control plane | `control-plane/*.js` | two idempotency stores, one budget, lifecycles | `executeDispatch`, pipeline `execute` | duplicate requests, entries that expire under a running call |
| phase engine, visual loops | `autonomous/phase-engine.js`, `visual-*-loop.js` | phase, tier, iteration | phases, repetition | bounded repetition around external measurements |
| site generation and analysis | most of `autonomous/` | none | pure text and images | nothing for a model checker |
| server, command line | `app/server.js`, `src/bin` | the singletons above | HTTP endpoints | the environment of all of the above |

What makes each of the modelled ones correct:

* job: the state table is never left, terminal states are final, an abort is never
  lost, a package exists exactly on delivered jobs, a limit that is checked stops
  the job;
* loop: with its test runners, what is delivered was tested after it was last
  changed (without them nothing is, see section 6); no more repairs,
  calls or files than allowed get through; one execution's late steps do no harm
  to a job another one, or an operator, has finished; every execution ends;
* job engine: what was returned is on disk, tasks and parents agree, a terminal
  state that was shown stays, at whatever point the process dies;
* gateway: concurrency exceeds the budget by a known amount at most, retries and
  fallbacks are bounded, a circuit stays open for its cooldown;
* planning and review: an order respects what the agents wait for, a refusal has a
  cause, after a review the order of the changes does not decide whether a file is
  there, and its contents only when it is both created and modified;
* bridge: the work of a task is done once, under an approval record that names it, and
  is accounted for; EXECUTED means it was done, a denial or an error that it was not;
* pool and orchestrator: no slot is leaked; an account that was told to wait is not
  called before, unless an older call there succeeds in the meantime;
* control plane: a key that no two calls shared gets one answer per lifetime of its
  entry, a replay is fresh, no lock outlives its calls but that of a call that threw,
  the budget is the calls made;
* multi-agent executor: COMPLETED means that nobody's part is missing; every
  execution ends.

## 2. Hazards

`PROJECT.json` lists each at its line. They fall into these groups, and the
properties named there are there because of them.

* **Stale reads over an await** (loop, gateway, control plane): the job is cancelled,
  or blocked, or delivered while a repair waits for a provider; the circuit opens
  between a failure and its retry; the budget is checked before and charged after a
  call; the entry of an idempotency key expires under the call that took it.
* **Shared counters** (repair controller, budgets): attempts of one job use up
  another one's; overlapping dispatches, and the members of a team asked at once,
  are admitted for one remaining unit; a control-plane call is counted twice.
* **Results out of order** (breaker, pool): failures of old calls arrive while the
  circuit is open or half open; a late answer's mark replaces a newer one, a late
  success clears it. The same is true of changes that passed a review together.
* **Ignored results** (loop, orchestrator, control plane): every `record*` checks the
  bounds and may move the job, `acquireConcurrency` may refuse, `acquire` may say
  *in progress*; the callers look at none of these results.
* **Two writes in one call, memory before disk** (job engine).
* **One step of several failing** (bridge, pipeline): a denial or a throw leaves the job and the
  task behind, so that every retry meets its own ids; the effect comes before its
  result, and a crash between them leaves a changed workspace nobody has a record of;
  a request that throws leaves the lock of its key.
* **Repeated calls** (loop, engine, bridge, control plane): duplicate submissions, ids
  known already, resumed jobs, a unit executed again, identical requests at once.
* **Circles** (composition, review): who waits for whom is the client's to say.
* **Settling**: an execution whose catch clause throws, a retry that is not counted, a
  team of which one member's answer rejects the whole, would never end.

Five hazards have no property; each has a note saying why. So have some whose
property covers them in part, because the code promises no more.

## 3. Modules

```
AutonomousJob  <- AutonomousLoop <- MCAutonomousLoop
     ^               ^- AutonomousLoopProofs (of the job object too)
     ^- MCAutonomousJob
JobTables <- JobStore
     ^- JobEngine <- MCJobEngine             (JobEngine implements JobStore)
            ^- JobEngineProofs
CircuitBreaker <- ProviderGateway <- MCProviderGateway
                         ^- ProviderGatewayProofs
ProposalReview <- AgentPlanning <- MCAgentPlanning, AgentPlanningProofs
ExecutionBridge <- MCExecutionBridge, ExecutionBridgeProofs
CredentialPool <- ResourceOrchestrator <- MCResourceOrchestrator
                         ^- ResourceOrchestratorProofs
                 (an instance of CircuitBreaker with the models for providers)
Idempotency <- ControlPlane <- MCControlPlane, ControlPlaneProofs
MultiAgentExecutor <- MCMultiAgentExecutor, MultiAgentExecutorProofs
```
(`A <- B`: B extends A.)

**AutonomousJob** is the class. A method is an operator on a job record
(`CheckBounds(j)`, `Cancelled(j)`, ...), so that the loop can use several of them
in one action; the module's own state machine lets any client call any method at
any time. A call that throws leaves the record as it is, or as the statements
before the throw left it. Elapsed time is one bit, *past the deadline*, set by
`DeadlinePasses` at any moment; cost and tokens are one bit, *over budget*, that
a provider call may set. `READY_FOR_DELIVERY` is reached by `CallDeliver` only: the
loop is the only client that makes that transition, and it attaches the package in
the statement before.

**AutonomousLoop** is `executeJob` with `attemptRepair`. A *run* is one call of
`executeJob`, with its locals in `run[r]` and its place in `pc[r]`. The code
between two awaits is several actions, because each is one call on the job object
that may throw, but `thread` keeps every other run and every request out until the
run comes to an await (`Settles`) or ends: the interleavings are those of the
event loop. `Move` is `transitionTo` inside the try block, `Gate` the recurring
`if (!checkBounds()) return; if (aborted) ...`, `Record` a `record*` whose result is
ignored. The bridge, the providers and the tests answer with any of their
outcomes. The abstract specification is `AutonomousJob!Spec` itself: the property
`Spec` says that the loop, the repair controller and the requests together are a
client that stays within it. `Runners` says which test runners the engine was built
with. Where one is missing the code assumes a pass and launches nothing
(`TargetedAssumed`, `RegressionAssumed`, the second case of `ToTesting`); `server.js`
builds its engine without any (`:436-440`), which is the engine of `LoopTwoJobs`,
while that of `LoopOneJob` has both, as those of the tests do.

**JobTables, JobStore, JobEngine.** `JobStore` is what a client may rely on, without
files or crashes. `JobEngine` is the code with a storage directory: the maps, the
files, and in `write` the file the current call replaces next, so that a crash
(`Crash`) or, when `WritesMayFail`, a throw (`WriteFails`) can fall between any two
file operations. A file is replaced by writing a temporary file and renaming it,
which is why a write is one step. `Restart` is the constructor, which loads the
directories. `padded` is an id sent with white space: looked up as sent, stored
trimmed. (Without a storage directory, the server's default, there are no files
and nothing survives; that is the engine without `Restart`.) The refinement maps
the store to the files: `Store == INSTANCE JobStore WITH job <- diskJobs, task <-
diskTasks`; `createTask` is the two store steps `AddTask` and `LinkTask`.

**CircuitBreaker** has the methods as operators on an entry and a state machine in
which results arrive in any order at any time. `streak` is history: failures since
the last success of any call. **ProviderGateway** adds `dispatch`: the code from
its start to the adapter's `await` is `Dispatch`, each outcome of the adapter is one
action (`Answers`, `FailsForNow`, `Fails`), and a retry after its delay is `Retry`.
`asked` and `probe` are history. A dispatch that the budget or the circuits refuse
changes nothing and is not a step. Cost, tokens and elapsed time of the tracker are
the bit `exhausted`.

**AgentPlanning** is what happens between a task and a reviewed change: the agent
registry, the choice of one agent (`task-routing.js`), the composition of a team with
its order (Kahn's algorithm, least id first), and **ProposalReview**, which decides
whether the team's operations conflict. An operation names its file by a target, a
trimmed text; `FileOf` is the file that the text names, so that one file may have
several targets. These are functions of the registry and of
what the client sends; the client hands a plan back with any proposals for it.

**ExecutionBridge** goes from an approved draft to one effect on the workspace. The
server keeps no approvals and no admissions and gives none out: clients write them
into their requests (`server.js:3142-3175`), with or without a fingerprint and an
expiry (`Omissions`), and what a record leaves out is not checked
(`approval-admission.js:372-413`). A draft is a sequence of operations `<<type, target,
payload>>`; the approval is bound to types and targets only (`Name`), and what runs
is made of the first operation by `MapOperation`, which knows no difference between
a file to create and one to modify. One call runs to its end before the next
(it has no await), but the process may crash between any two of its steps: job,
task, preparation (policy, plan), effect, result. After a crash jobs, tasks and
results are there, plans and trackers are not. Self-correction is a second way to
the same bridge; a client may also have a work unit executed again, with an action
of its own (`server.js:2796-2815`), of which admission compares the command or the
target (`Expected`). A unit that fails may have done something or nothing (`UnitRuns`).
Plans that other routes bind to a job (`server.js:612`, `:654`, `:1178`, `:1275`) are
left out.

**CredentialPool** has the pool's methods as operators on an entry;
**ResourceOrchestrator** composes them as `dispatchTask` does: candidates that pass the
gates, in any order, tried in turn. `Dispatch` is the code to the first gateway
call; `Answer` is one outcome of a call with everything recorded for it, and the
code on to the next candidate or the end. The gateway is the environment. `barred`
is history: until when an account was last told to wait for a model, which calls were
under way there at that moment, and whether one of them has succeeded since (`lifted`).

**Idempotency** is the store, in which an entry lives from the moment its lock is
taken. **ControlPlane** is the two ways the server offers to one model answer,
`executeDispatch` and the pipeline's `execute`, each with its store, on one budget.
Either has one kind of await, the gateway's dispatch, so a step goes from there to
the next one: `acquire` and all gates, then an answer with its verification and
corrections, `commit` or `release`, or the end of a request that throws after its lock
was taken (`PipelineThrows`). Which requests throw is not modelled: any may. `life` is
the pipeline's state history.

**MultiAgentExecutor** is `executePlan` in its four modes. The client sends the plan,
so members and order need not agree, agents may be named twice or be unknown. What
an agent's call does to the budget happens when it answers.

The `MC...` modules add bounds for TLC. The `...Proofs` modules hold theorems. An
operator that differs from the next one in one respect (`LoopHeadOneMore` before
`LoopHead`) is not used: it is the mistake the properties were tried against, and
each property fails with one of them.

## 4. Runs

| run | question | states, time | bounds and why they are enough |
|---|---|---|---|
| `MCAutonomousJob` | Does the job object keep its word under any client? | 30,000, seconds | one job (jobs are independent), every limit 1 and counters up to 2: each limit is met exactly and exceeded |
| `LoopOneJob` | Two executions of one job, cancels, resumes, deadline, a claimed test: is the job used legally, is what is delivered tested, are limits kept, does every execution end? | 540,000, 1 min | an engine with both runners; two repairs, so that one fails and one follows it; limits of three calls and four commands, reached within the second repair; two runs, because a duplicate submission is two |
| `LoopTwoJobs` | Does what two jobs share (the repair count, the task ids) break one of them, with proposals, task ids and test outcomes of the caller? | 467,000, 10 s | the server's engine, without runners; one repair in all, so that the jobs compete for it; proposals of two operations with a limit of one changed file: the second exceeds it; a claimed failure, so that repairs start without a test |
| `EngineCrashes` | Do files, memory and what clients saw agree, whenever the process dies? Do the files implement the store? | 17 s | two jobs (a task could be linked to the wrong one), one task, one result; clients look at one of the jobs |
| `EngineFailedWrites` | What remains true when writes throw? | 16 s | one of each |
| `GatewayRace` | Two dispatches, a retry each, a fallback, the last unit of the budget, openings and cooldowns | 215,000, 30 s | threshold and cooldown 2, so that one failure is not enough and a cooldown can be half over; one provider is not registered; the clock runs to 3, past one cooldown; no dispatch starts once a provider has failed more than twice |
| `PlansAndReviews` | Are orders, refusals and reviews what they should be, for every registry and request? | 96,000, 2 min | three agents with overlapping capabilities: teams of one to three and circles of two and three; up to four operations on one file, enough for every pair of conflicts and for two agents that wait for each other; the file has a second name |
| `BridgeOnce` | Retries with any ids, approvals and drafts, corrections, crashes: is work done once, as approved, and accounted for? | 9,230,000, 160 s | two tasks, both also reported as failed by another engine; two executions (a retry under a new id), two approvals, complete or without fingerprint and expiry, drafts with different first operations, a unit of a client that deletes what was to be modified and one that runs a command, one crash, two effects, a lifetime that is over at the next tick, one correction cycle |
| `PoolFailover` | Do slots, marks and circuits survive failover, late answers and changes of the credentials? | 1,790,000, 80 s | two accounts of one provider and a second provider without accounts as the last fallback; three tasks, so that two answers come before the third starts; threshold 2, one slot per account, one registration or removal, clock to 1, one cooldown of the pool |
| `ControlPlaneCalls` | Identical requests that overlap, fail, are corrected and outlive their entries | 709,000, 15 s | three calls of one key: a holder, which may throw, one that overlaps it, one that finds its entry expired; lifetime 1 and clock to 3; a budget of two calls, one correction |
| `MultiAgentRuns` | What do COMPLETED and the budget mean for two executions at once, and do they end? | 82,000, 10 s | seven plans: whole, with a stranger in the order, a repeated member, too many, nobody, an order that repeats; a budget of two calls |
| `ControlPlaneClaimOneRun` | section 6 | | the same as `ControlPlaneCalls` |

`LoopOneJob`, `GatewayRace` and `MultiAgentRuns` check liveness, the others safety only.
Deadlock is not checked in runs that may stop: an execution may end and no request
need come, a bounded clock stands still, every execution has its answer. For
bounded executions and dispatches the absence of deadlock is what `RunsEnd`,
`DispatchEnds` and `ExecutionsEnd` say. Symmetry is used for sets no property or
constant singles a member out of, and in no run that checks liveness.

What the properties say (each is commented where it is defined):

* `DeliveredWasTested`: the evidence a job is delivered on is a pass, and, if the
  engine has both runners and the caller did not claim the pass, comes from a test
  launched after the last write for this job by *any* run. The repair's targeted test
  is not enough; the write of another run makes an older pass stale.
* `ImplementedOnce`: of all the runs a job ever has, one gets its generated proposal
  past the bridge. That rests on the task's id alone: the bridge refuses a known one,
  and nothing gives an id back.
* `WithinLimits`: whatever results of `record*` were ignored, a run that is about to
  write or to deliver has a job in work and within its limits.
* `RepairsBounded`, `InvocationsBounded`: the repairs of a job over all its runs, and its
  provider calls including those that no limit counts: three per run and three per
  repair. A diagnosis is paid for before its repair is counted; that none is paid
  for in vain is due to the state table, which keeps overlapping runs of a job apart.
* `WritesAreListed`: no file the bridge wrote is missing in a delivered package.
* `Spec`: above. `RunsEnd`: every run returns or rejects.
* `Durable`, `NoDanglingTask`, `FinalWhenSeen`, `StoreSpec`: the engine over crashes. Plans,
  which are in memory only, are no part of `Durable`; `FinalWhenSeen` supposes writes that do
  not fail.
* `CountsFailuresInARow`, `CooldownIsKept`: late results neither pollute the count of the
  next closed period nor restart or cut a cooldown. `CircuitsStayOpen` is the latter
  for the circuits of the orchestrator's models.
* `OvershootBounded`: recorded calls plus calls in flight exceed `maxCalls` by fewer
  than there are callers. `docs/faz-arsiv/FAZ58_COST_BUDGET_REPORT.md:35` calls
  `maxCalls` the maximum number of invocations; for overlapping dispatches this is
  as much of that as the code keeps. `OvershootByTeams` says the same of executions of plans: what
  is recorded and what is out exceeds the budget by no more than the members that a
  team asks at once, and by one per other execution that is asking, less the call that
  was left; executions that have ended count as if they could still ask, so the bound is
  loose when many came one after the other.
* `AsksBounded`: retries of both turns together, also when an open circuit had made
  the fallback the first to be asked. `DispatchEnds`: every dispatch returns.
* `OrderIsTopological`, `TeamOrCause`: a plan's order has everybody once, after all it
  waits for, the least id first where there is a choice; the composition answers with
  a team that can do all that anybody can, or has a cause to refuse. `ReviewedSettlesFiles`:
  over all orders in which the changes of a file that passed the review may be
  applied, the file is there at the end in all or in none, with the same contents
  unless it is both created and modified: the review lets that pair pass, and either
  writes whatever is there. It speaks of files whose changes use one name; that two
  names are one file the review does not see.
* `OneExecutionPerTask`: the bridge does the work of a task at most once, over crashes
  and retries with new ids. Not the tracker does that, which dies with the process, but
  the task's id in the files. The same ids make `LostWorkStaysUndone` true: work
  whose plan a crash took is never done under its id. `RunsOnlyApproved`: whatever is
  done, some approval record of its task with the status APPROVED stands for, and if the
  record has a fingerprint, that names it: exactly (a deletion, a write, a command) for
  the bridge; for a unit that a client sends, the file alone, or that it is a command.
  `ResultsAccount`: effects without a result are no more than crashes, and recorded
  successes no more than effects. `AnswerTellsEffect`: to the caller whose ids were new,
  EXECUTED says that it was done and a denial or an error that it was not; FAILED says
  neither.
* `SlotsComeBack`: a credential never counts more calls than are in flight, replaced or
  removed meanwhile or not; a leaked slot would be lost for ever. `WaitsWhenTold`: no
  call starts at an account and model before the time it was last told to wait for,
  whatever failures other tasks have recorded there since. One thing ends the wait:
  the success of a call that was under way there when it was told (section 6).
* `AnsweredOnce`: two answers are stored for one key only if the second request came after
  the lifetime of the entry the first answer went to, or if two requests of the key
  once overlapped. That lifetime counts from the first request, or from an earlier one
  that threw and left its lock. An answer may still cost several calls: each correction
  is one. `ReplaysAreFresh`:
  an answer handed out again was stored at most a lifetime ago, although an entry may
  be completed by a call that did not take its lock. `LockHasOwner`: no way of ending
  but a throw in the pipeline leaves a lock behind, and that one goes a lifetime after its
  call began. `CountedInferences`: the budget is the number of inferences made,
  those of the control plane twice.
* `CompletedIsWhole`: COMPLETED means a proposal from every place of the order, or every
  member; of a debate, from the first and the last stage. Members that a sequential
  plan's order leaves out are not asked and not missed. `ExecutionsEnd`: every
  execution ends.

### Fairness

`LoopFairSpec` is weak fairness of the steps of each run: JavaScript does not stop
in the middle of synchronous code, and every promise the loop awaits is taken to
settle: providers have timeouts; a test runner has none in this code, so that
`RunsEnd` rests on runners that return. Requests, the deadline and new
executions are not fair: nobody has to come. `Settle` in the gateway is weakly fair
per caller: an adapter answers, fails, or is aborted by the timeout of
`_executeWithRetry`, and a retry timer fires. Nothing is assumed about which way.
`Answered` in the executor is weakly fair per agent: what it awaits is a dispatch of
the gateway, and `DispatchEnds` is that these return.

## 5. Proofs

Checked by tlapm, for all values of the constants under the named `ASSUME`s.

* **AutonomousLoopProofs**, the job object (types, `AbortIsFinal`, `DeliveryMatchesStatus`,
  `TerminalIsFinal`, `OverLimitStops`). The invariant `AllSound` is the conjunction, per
  job, of type, abort and delivery facts. None of the last two is inductive without
  the type, since each rests on rows of the table: terminal rows are empty, every
  other row has `CANCELLED`, and only `VERIFYING` leads to delivery. One lemma per method
  (`TransitionSound`, `CheckBoundsSound`, `CancelSound`, ...) shows that it keeps a
  sound record sound.
* **AutonomousLoopProofs**, the loop (types, `Spec` and all the safety properties of
  `LoopOneJob` and `LoopTwoJobs`) for any number of jobs, runs, repairs and files.
  `LInv` gives types, `Spec`, `WithinLimits` and `WritesAreListed`. Each step of the
  loop is one call on one job object or none, which gives the refinement
  `JobsWellUsed` and, with the lemmas above, sound jobs. The rest follows the thread:
  a run at a synchronous label has it (`Threaded`), so what it has read of its job
  still holds when it goes on (`Placed`: a run that has passed its gate and is about
  to write has a job in work and within its limits). Across an await only what never
  shrinks survives, the files of a job. `Accounted` says that a written file is
  listed, or is the one its writer lists next (`Pending`); that run keeps the thread
  until it has done so, and no step delivers in between. `KInv`, under `LInv`, gives
  `DeliveredWasTested`, `ImplementedOnce`, `RepairsBounded` and `InvocationsBounded`.
  It is about pairs of runs: a job within its limits that has been implemented leaves
  testing and repairing for a terminal state only, so that no second run gets it to
  `IMPLEMENTING` while a first one is on its way (`Sole`, `AtWork`). So nobody else
  writes between a run's test (in an engine that launches it) and its delivery, nobody
  raises the count of repairs between a check and the repair it allows, and a paid
  diagnosis is followed by its repair or by the end of its run (`Budget`).
  `ImplementedOnce` needs none of this: what was implemented has its id in the engine
  (`AllKnow`).
* **JobEngineProofs.** `EngineTyped` holds with padded ids and failing writes; its
  strengthening says that a task about to be written has a parent. `NeverDangling`
  (clean ids) needs that listed tasks exist in memory as well as on disk while the
  process is up, or a later `updateTaskState` could write one with another parent.
  `Durability`, `ShownFinal` and the refinement `FilesImplementStore` (clean ids, writes
  that do not fail: `CleanWrites`) rest on `Mirror`: memory is one step of the store
  ahead of the files, and `write` tells which. Both conditions are needed: section 6
  shows what happens without them.
* **ProviderGatewayProofs** (types, `OvershootBounded`, `AsksBounded`,
  `CountsFailuresInARow`, `CooldownIsKept`) for any number of callers and providers,
  any threshold, cooldown and retries. The invariant `GInv` adds to the properties what
  the attempts of a dispatch have to do with whom it asked, per turn, and that a
  closed entry's count is its streak. A step is cut in two: what it does to entries
  (`StepOfEntries`) and to calls (`StepOfCalls`). `BreakerCounts` and `CooldownCut` are
  about the breaker alone, under any client: only a reset cuts a cooldown.
  `DispatchesComeNearer` is the safety half of `DispatchEnds`: a number of steps left,
  which every own step of a dispatch lowers and no step of another raises.
* **ExecutionBridgeProofs** (types and all five properties of `BridgeOnce`) for any
  drafts, approvals, actions of clients, crashes and lifetimes. `BInv` follows the
  call in progress: which ids it has taken and under which approval it runs
  (`CallSound`), that a plan's operation has an approval of its task (`PlanSound`,
  `Covered`), from which a unit's own action is at most another change of the same
  file (`ExpectedAllowed`), that an effect's task is taken (`EffectSound`) and has no
  second one (`Once`): a task is taken before anything is done for it, and the files
  never give it back.
* **ResourceOrchestratorProofs** (types, `SlotsComeBack`, `WaitsWhenTold`, the counts of the
  circuits, `CircuitsStayOpen`). Circuits, slots and marks do not depend on each other:
  `RInv` has a part for each, kept by what one method does to one entry. The slots need
  that a credential that is gone counts nothing, the marks that an account told to
  wait still knows it of the model (`Waiting`), whichever health it has come to show, until
  the success of a call that was under way then: any later call starts only once the wait
  is over, so no other success can clear a mark that still counts.
* **ControlPlaneProofs** (types, `LockHasOwner`, `ReplaysAreFresh`, legal lifecycles,
  `AnsweredOnce`, `CountedInferences`) for any calls, keys, lifetime and budget. A
  step is first reduced to what it does to the store and to the fields of one call.
  `AnsweredOnce` needs that, as long as a key was never shared, a running call is
  alone with its key's entry (`Alone`): it is its own lock or that of a call that
  threw, or has expired. For `CountedInferences` the inferences are numbered per call
  (`Billed`), so that a sum over calls is the size of a set and each step adds as many
  elements to it as it charges.
* **MultiAgentExecutorProofs** (types, `CompletedIsWhole`, `OvershootByTeams`) for any
  plans and budgets. Executions share nothing but the budget, so the invariant is one
  of a single execution (`Fits`): its answers only grow and fill no place its plan
  does not have. The overshoot is one of all of them: an execution asks only with
  budget left, and has then no more calls out than its width (`Narrow`), so an answer
  moves a call from those that are out to those that are counted, and new ones come
  only below the budget. The safety half of `ExecutionsEnd` is `RunningIsWaiting` (a
  running execution has a call out, for every plan and mode: `WInv`) and
  `AnswersStand` (an answer settles its place, and no settled place is asked again:
  one after the other, whoever is out is the last who was asked, `Onward`); the places
  of a plan are finitely many.
* **AgentPlanningProofs** (types and all three properties of `PlansAndReviews`) for any
  agents, capabilities, requests and proposals. The order of a team is a recursive
  function on its subsets. That the function exists, and that what it computes is an
  order (`Sound`), is an induction over sizes, written with a set of numbers that has 0
  and every next one (`NextOfAll`), since the induction theorems of the library are out
  of reach. A full order is topological (`FullIsTopological`). One that is too short
  leaves agents that all wait for each other; the chain without requested
  dependencies has none (`ChainIsAcyclic`: the first of those chosen for the first
  category waits for nobody), so a refusal is for a ring the client asked for. For
  reviews the argument is about one answer: a deletion is a file's only change, so that
  whichever change comes last the file is there or not (`LastIsSettled`), and two
  different changes that both write are a creation and a modification.

Only model-checked: liveness (`RunsEnd`, `DispatchEnds`, `ExecutionsEnd`), which the
prover does not reach: for `DispatchEnds` and `ExecutionsEnd` the progress of each
step is proved, and what fairness adds to it is left to TLC. Every safety property
that a passing run checks has a theorem.

## 6. Where documents and code differ

One has a run that shows it (`expect: violation`), with the quoted lines in
`PROJECT.json`: `ControlPlaneClaimOneRun`. `acquire` tells the second of two identical
requests that the first is in progress; `executeDispatch` and the pipeline look only
for a finished one, and both are sent to the model.

The models also show the following; no run is kept for it.

Job, loop and engine:

* A duplicate submission executes a job that is being executed, and the second
  execution fails the job of the first (`server.js:3607`).
* A job gives up without its attempts because other jobs have used the count of the
  shared repair controller up; it is never reset (`auto-repair-controller.js:121`).
* After a crash in `createTask` the task is listed by no job and cannot be created
  again (`job-engine.js:250`); an id with a trailing blank puts an existing job, also
  a terminal one, back to `PENDING` (`:142`).
* `attemptRepair` does not look at the abort flag: a job cancelled while its repair
  awaits the diagnosis still has the fix written (`auto-repair-controller.js`;
  FAZ59_AUTONOMOUS_WORKFLOW.md:233 says execution aborts immediately).
* After a failed regression the evidence handed to the failure analysis is that of
  the targeted test, which passed (`autonomous-loop-engine.js:587`).
* The server builds its engine with neither test runner (`server.js:436-440`), so that
  every test and regression is a hard-coded pass (`autonomous-loop-engine.js:507-516`,
  `auto-repair-controller.js:371-380`, `:411-420`): it delivers jobs nothing has tested.
  The headers of both files promise that tests are run (`autonomous-loop-engine.js:6-9`,
  `:15-17`, `auto-repair-controller.js:9-16`).
* A limit of zero fix attempts means three (`:528`); a package lists a changed file
  per operation although only the first is executed (`:481`); a caller's own
  `initialTestOutcome` replaces the test (`:500`); a resumed job is not executed
  (`server.js:3634`).
* After a failed write clients see a state that the next restart takes back
  (`job-engine.js:205`); plans do not survive a restart (`:333`).

Planning, approval, bridge:

* The review is commented to detect circles of two or more agents and detects those of
  two (`proposal-review.js:675-678`): three agents of which each tests what the one
  before it changes, six operations on three files, pass it.
* A creation and a modification of one file are no conflict (`proposal-review.js:529-628`),
  and either writes whatever is there (`execution-bridge.js:88-99`, `work-unit.js:343-345`,
  `file-mutation.js:201-212`): the contents are those of the last. Targets are compared
  as trimmed texts (`proposal-review.js:515`, `agent-proposal.js:91-122`): two changes of
  one file under two names, `a.js` and `./a.js`, pass as changes of two files.
* Any change is said to invalidate an approval (`approval-admission.js:23`); its
  fingerprint leaves out the contents and the order of the operations (`:87`).
* "Client claims alone are NEVER trusted" (`execution-bridge.js:8`): the server takes
  approval and admission from the request's body (`server.js:3142-3175`), no route of it
  creates an approval, and a record without a fingerprint or an expiry is not checked
  for them (`approval-admission.js:372-413`).
* `POST /api/work-units/execute` runs the action of the request (`server.js:2796-2815`),
  and admission compares its command or target alone (`work-unit.js:154-163`): a file
  whose modification was approved may be deleted, or written with other contents.
* A change that throws before it does anything (`file-mutation.js:154-157`, caught at
  `work-unit.js:364`) is answered with `executed: true` and FAILED
  (`execution-bridge.js:433-444`, `:457-471`), as one that failed half done is.
* A bridge call that is denied, or that throws, leaves its job and task behind, and
  the retry is refused because of them (`execution-bridge.js:366`).
* Failures of the pipeline end without a terminal event in the audit ledger.

Providers, pool, control plane, executor:

* Overlapping dispatches exceed `maxCalls`; a retry is sent to a provider whose circuit
  has opened meanwhile (`provider-gateway.js:454`); a half-open circuit is closed by
  the success of a call sent before it opened (`circuit-breaker.js:91`).
* The answer of `acquireConcurrency` is not looked at: an account may have more calls
  in flight than its limit (`ai-resource-orchestrator.js:1661`). The mark of a late
  failure replaces that of a newer one for the account as a whole
  (`credential-pool.js:251`); what keeps `WaitsWhenTold` true are the marks per model.
* The success of a call that was sent before its account was told to wait clears the
  newer mark (`ai-resource-orchestrator.js:1765-1768`, `credential-pool.js:374-376`,
  `:388-396`), and the account is called again at once.
* `release` is commented "in case of an abort or error" (`idempotency.js:89`); a pipeline
  request that throws after its lock was taken (`ai-execution-pipeline.js:347`) is not
  released: a prompt of more than 100,000 characters (`:362`, `prompt-security.js:80-84`),
  or a quality target that is not a text (`:397`, `task-analyzer.js:187`). The lock stays
  for its lifetime, and the next answer of the key is kept only until it ends.
* A control-plane call is counted by the gateway and by the cost governor
  (`cost-governor.js:106`). Answers that say FAILED or CIRCUIT_OPEN are kept and replayed
  for five minutes.
* A debate is COMPLETED although the agent in the middle failed; a team asked at once
  overshoots the budget by its size.

## 7. Not modelled

Most of the repository's lines compute text, HTML and images from their input
(generation and analysis of sites, presets, reference geometry), parse requests
or render answers, talk to services, or validate records. They keep no state that
two actors share, so a model would only repeat them; `PROJECT.json` lists them.
Beyond these:

* Contents of prompts, proposals, diffs, reports and pages; HTTP; authentication and
  tenants, which only narrow who may call; event listeners and logs.
* The workspace is not shared in the model of the loop: two jobs that write the same
  file are not told apart from two that do not.
* The scores by which routing engine and orchestrator rank: any order is allowed.
* The phase engine, a table of states with a budget and evidence for a single client;
  only tests create one. Read along the models: `compileEvidence` counts a test result
  without a `success` field as one failure (`phase-engine.js:512`), and
  `recordTestVerification` (`:911`) writes none, so that `completePhase` fails every phase
  with a recorded test and completes one with none, although completion is said to
  require test evidence (`:19-20`).
* The visual loops, bounded repetition around external measurements.

## 8. Plan

Modelled are the parts every job, request and answer passes through. What is left,
in the order of its worth:

1. One workspace for all jobs of the loop, with the question what a delivered
   package's tests were about.
2. The gateway inside the orchestrator and the control plane, in place of their
   environment, through the refinement of a settling call.
3. The phase engine over the orchestrator, once something besides tests uses it.
4. The progress of a run, for `RunsEnd`, like that of a dispatch and an execution.

## 9. Checking

In this directory: `tlc -config LoopOneJob.cfg MCAutonomousLoop`, and likewise for
the other runs (module and configuration are listed in `PROJECT.json`);
`tlapm JobEngineProofs.tla` for the proofs.
