---------------------------- MODULE AutonomousJob ----------------------------
(***************************************************************************)
(* The job object of the autonomous loop (autonomous-job.js): a status     *)
(* that moves along a fixed table, counters that never go back, limits     *)
(* that are checked after every count, an abort flag, cancel and resume.   *)
(*                                                                         *)
(* A method is an operator on a job record, so that the loop engine can    *)
(* call it inside an action of its own.  A method that may throw comes as  *)
(* a pair: whether it throws, and the job it leaves behind.  The state     *)
(* machine at the end lets any client call any method in any order: it is  *)
(* what the class promises, and what AutonomousLoop is shown to respect.   *)
(***************************************************************************)
EXTENDS Naturals, FiniteSets, Sequences

CONSTANTS
  Jobs,              \* the jobs that may be created
  Files,             \* the files a proposal may name
  MaxIterations, MaxFixAttempts, MaxProviderCalls, MaxFilesChanged, MaxCommands

ASSUME LimitsAssumption ==
  {MaxIterations, MaxFixAttempts, MaxProviderCalls, MaxFilesChanged, MaxCommands}
    \subseteq Nat

-----------------------------------------------------------------------------
(* The states and the table of legal transitions *)

Terminal == {"READY_FOR_DELIVERY", "FAILED", "CANCELLED", "TIMEOUT",
             "BUDGET_EXCEEDED", "POLICY_DENIED", "VERIFICATION_FAILED"}

Waiting == {"CREATED", "QUEUED", "BLOCKED"}

Working == {"ANALYZING", "PLANNING", "ARCHITECTING", "IMPLEMENTING",
            "EXECUTING", "TESTING", "ANALYZING_FAILURE", "FIXING",
            "RETESTING", "REVIEWING", "SECURITY_REVIEW", "VERIFYING"}

JobState == Waiting \cup Working \cup Terminal

\* What every state that does work can fall into.
InterruptsButBudget == {"CANCELLED", "FAILED", "BLOCKED", "TIMEOUT"}
InterruptsButCancel == {"FAILED", "BLOCKED", "TIMEOUT", "BUDGET_EXCEEDED"}
Interrupts == {"CANCELLED", "FAILED", "BLOCKED", "TIMEOUT", "BUDGET_EXCEEDED"}

\* Where the work goes on, and the denials that are legal in a state.
Onward(s) ==
  CASE s = "CREATED"   -> {"QUEUED", "ANALYZING", "POLICY_DENIED",
                           "CANCELLED", "FAILED", "BLOCKED"}
    [] s = "QUEUED"    -> {"ANALYZING", "CANCELLED", "FAILED", "BLOCKED"}
    [] s = "BLOCKED"   -> {"ANALYZING", "PLANNING", "IMPLEMENTING", "EXECUTING",
                           "TESTING", "FIXING", "VERIFYING", "CANCELLED", "FAILED"}
    [] s = "ANALYZING"         -> {"PLANNING"}
    [] s = "PLANNING"          -> {"ARCHITECTING", "IMPLEMENTING"}
    [] s = "ARCHITECTING"      -> {"PLANNING", "IMPLEMENTING"}
    [] s = "IMPLEMENTING"      -> {"EXECUTING", "POLICY_DENIED"}
    [] s = "EXECUTING"         -> {"TESTING", "ANALYZING_FAILURE", "POLICY_DENIED"}
    [] s = "TESTING"           -> {"REVIEWING", "ANALYZING_FAILURE"}
    [] s = "ANALYZING_FAILURE" -> {"FIXING"}
    [] s = "FIXING"            -> {"EXECUTING", "RETESTING", "ANALYZING_FAILURE",
                                   "POLICY_DENIED"}
    [] s = "RETESTING"         -> {"REVIEWING", "TESTING", "ANALYZING_FAILURE"}
    [] s = "REVIEWING"         -> {"SECURITY_REVIEW", "FIXING"}
    [] s = "SECURITY_REVIEW"   -> {"VERIFYING", "FIXING", "POLICY_DENIED"}
    [] s = "VERIFYING"         -> {"READY_FOR_DELIVERY", "ANALYZING_FAILURE",
                                   "VERIFICATION_FAILED"}
    [] OTHER -> {}

ValidTransitions(s) ==
  Onward(s) \cup (IF s \in Working THEN Interrupts ELSE {})

-----------------------------------------------------------------------------
(* The job object *)

\* overTime: Date.now() - startedAt is past maxElapsedTimeMs.  overBudget: the
\* cost or the tokens are past their limit (both send the job to the same state).
JobRecord ==
  [status: JobState, aborted: BOOLEAN, overTime: BOOLEAN, overBudget: BOOLEAN,
   iterations: Nat, fixAttempts: Nat, providerCalls: Nat, commands: Nat,
   files: Seq(Files), delivery: BOOLEAN]

NewJob ==
  [status |-> "CREATED", aborted |-> FALSE, overTime |-> FALSE,
   overBudget |-> FALSE, iterations |-> 0, fixAttempts |-> 0,
   providerCalls |-> 0, commands |-> 0, files |-> <<>>, delivery |-> FALSE]

\* transitionTo throws unless the target is the same state or a legal one.
Allowed(j, s) == s = j.status \/ s \in ValidTransitions(j.status)
TransitionTo(j, s) == [j EXCEPT !.status = s]

\* The first limit that is exceeded decides where checkBounds sends the job.
Breach(j) ==
  CASE j.overTime   -> "TIMEOUT"
    [] ~j.overTime /\ j.overBudget -> "BUDGET_EXCEEDED"
    [] /\ ~j.overTime /\ ~j.overBudget
       /\ \/ j.providerCalls > MaxProviderCalls
          \/ j.iterations > MaxIterations
          \/ j.fixAttempts > MaxFixAttempts
          \/ Len(j.files) > MaxFilesChanged
          \/ j.commands > MaxCommands -> "BLOCKED"
    [] OTHER -> "NONE"

InBounds(j) == Breach(j) = "NONE"
BoundsThrow(j) == ~InBounds(j) /\ ~Allowed(j, Breach(j))
CheckBounds(j) ==
  IF InBounds(j) \/ BoundsThrow(j) THEN j ELSE TransitionTo(j, Breach(j))

\* The record* methods count first and then call checkBounds; `expensive' says
\* whether this call takes the cost or the tokens over their limit.
CountProviderCall(j, expensive) ==
  [j EXCEPT !.providerCalls = @ + 1, !.overBudget = @ \/ expensive]
CountCommand(j) == [j EXCEPT !.commands = @ + 1]
CountFile(j, f) ==
  IF \E k \in DOMAIN j.files : j.files[k] = f THEN j
  ELSE [j EXCEPT !.files = Append(@, f)]
CountFixAttempt(j) == [j EXCEPT !.fixAttempts = @ + 1]
CountIteration(j) == [j EXCEPT !.iterations = @ + 1]

\* cancel is a no-op on a terminal job; otherwise abort, and then a transition
\* that may throw.
CancelledAnyway(j) == TransitionTo([j EXCEPT !.aborted = TRUE], "CANCELLED")
Cancelled(j) ==
  IF j.status \in Terminal THEN j
  ELSE IF Allowed(j, "CANCELLED")
       THEN TransitionTo([j EXCEPT !.aborted = TRUE], "CANCELLED")
       ELSE [j EXCEPT !.aborted = TRUE]

\* resume throws unless the job is BLOCKED and the target legal from there.
Resumable(j, s) == j.status = "BLOCKED" /\ Allowed(j, s)

\* The delivery package is attached just before the last transition.
Delivered(j) == TransitionTo([j EXCEPT !.delivery = TRUE], "READY_FOR_DELIVERY")

-----------------------------------------------------------------------------
(* Any client, any method, any order *)

VARIABLE job

vars == job

Init == job = [i \in Jobs |-> NewJob]

Set(i, j) == job' = [job EXCEPT ![i] = j]

CallTransition(i) ==
  \E s \in JobState \ {"READY_FOR_DELIVERY"} :
    /\ Allowed(job[i], s)
    /\ Set(i, TransitionTo(job[i], s))

CallCheckBounds(i) == Set(i, CheckBounds(job[i]))

CallRecord(i) ==
  \E counted \in {CountProviderCall(job[i], TRUE), CountProviderCall(job[i], FALSE),
                  CountCommand(job[i]), CountFixAttempt(job[i]), CountIteration(job[i])}
                 \cup {CountFile(job[i], f) : f \in Files} :
    Set(i, CheckBounds(counted))

CallCancel(i) == Set(i, Cancelled(job[i]))

CallResume(i) ==
  \E s \in JobState : Resumable(job[i], s) /\ Set(i, TransitionTo(job[i], s))

CallDeliver(i) ==
  /\ Allowed(job[i], "READY_FOR_DELIVERY")
  /\ ~job[i].delivery
  /\ Set(i, Delivered(job[i]))

\* The wall clock passes the deadline of a job.
DeadlinePasses(i) ==
  /\ ~job[i].overTime
  /\ Set(i, [job[i] EXCEPT !.overTime = TRUE])

Step(i) ==
  \/ CallTransition(i) \/ CallCheckBounds(i) \/ CallRecord(i)
  \/ CallCancel(i) \/ CallResume(i) \/ CallDeliver(i) \/ DeadlinePasses(i)

Next == \E i \in Jobs : Step(i)

Spec == Init /\ [][Next]_vars

-----------------------------------------------------------------------------
(* What the class promises *)

TypeOK == job \in [Jobs -> JobRecord]

\* Every state a job can still leave lists CANCELLED, so an abort is never lost:
\* an aborted job is CANCELLED, whatever was called around it (cancel, lines
\* 536-542, is two statements: abort(), then a transition that could throw).
AbortIsFinal == \A i \in Jobs : job[i].aborted => job[i].status = "CANCELLED"

\* A delivery package exists exactly on the jobs that reached READY_FOR_DELIVERY.
DeliveryMatchesStatus ==
  \A i \in Jobs : job[i].delivery <=> job[i].status = "READY_FOR_DELIVERY"

\* No call, however late, moves a job out of a terminal state.
TerminalIsFinal ==
  [][\A i \in Jobs : job[i].status \in Terminal => job'[i].status = job[i].status]_vars

\* A method that checks the bounds and leaves a job over one of them does not
\* leave it working: it stopped the job, or the job waited or was stopped already
\* (from CREATED, QUEUED and BLOCKED checkBounds throws instead of timing out).
OverLimitStops ==
  [][\A i \in Jobs : CallRecord(i) /\ ~InBounds(job'[i])
       => job'[i].status \notin Working]_vars
=============================================================================
