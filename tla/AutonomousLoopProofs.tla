------------------------ MODULE AutonomousLoopProofs ------------------------
(***************************************************************************)
(* What a job object promises under any client, and what the loop that     *)
(* uses it keeps for any number of jobs, executions, repairs and files, in *)
(* three invariants.                                                       *)
(*                                                                         *)
(* AllSound, of the job objects alone: types, abort and delivery.  The     *)
(* delivery fact needs that nothing leaves READY_FOR_DELIVERY, the abort   *)
(* fact that nothing leaves CANCELLED, and both need the statuses typed.   *)
(*                                                                         *)
(* LInv: its types, the use of every job object within the object's own    *)
(* specification, the limits, and the list of what was written.  The       *)
(* argument rests on the thread: a run at a synchronous label has it, so   *)
(* what it has just read of its job still holds when it goes on (Placed);  *)
(* across an await only what never shrinks survives, the files of a job.   *)
(*                                                                         *)
(* KInv, under LInv: the evidence a run delivers on, the one proposal of a *)
(* job that is written, and the bounds on its repairs and on its calls.    *)
(* Here the argument rests on the table.  A job within its limits that has *)
(* been implemented leaves that part of the table for a terminal state     *)
(* only, so a second run cannot get it to IMPLEMENTING while a first one   *)
(* is on its way (Sole, AtWork); and so the first one's tests, and its     *)
(* check of the repairs, are of no other run's making.                     *)
(***************************************************************************)
EXTENDS AutonomousLoop, FiniteSetTheorems, TLAPS

-----------------------------------------------------------------------------
(* The job object, under any client *)

Sound(j) ==
  /\ j \in JobRecord
  /\ j.aborted => j.status = "CANCELLED"
  /\ j.delivery <=> j.status = "READY_FOR_DELIVERY"

AllSound ==
  /\ job \in [Jobs -> JobRecord]
  /\ \A i \in Jobs : Sound(job[i])

-----------------------------------------------------------------------------
(* The transition table *)

\* The table never names a state outside AutonomousJobState.
LEMMA TableIsClosed ==
  ASSUME NEW s \in JobState PROVE ValidTransitions(s) \subseteq JobState
  BY DEF ValidTransitions, Onward, Interrupts, JobState, Waiting, Working, Terminal

\* A terminal state has an empty row.
LEMMA TerminalIsStuck ==
  ASSUME NEW s \in Terminal PROVE ValidTransitions(s) = {}
  BY DEF ValidTransitions, Onward, Working, Terminal

\* Every state that can be left can be left by a cancellation.
LEMMA CancelIsLegal ==
  ASSUME NEW s \in JobState, s \notin Terminal PROVE "CANCELLED" \in ValidTransitions(s)
  BY DEF ValidTransitions, Onward, Interrupts, JobState, Waiting, Working, Terminal

\* READY_FOR_DELIVERY is entered from VERIFYING only.
LEMMA DeliveryGate ==
  ASSUME NEW s \in JobState, "READY_FOR_DELIVERY" \in ValidTransitions(s)
  PROVE  s = "VERIFYING"
  BY DEF ValidTransitions, Onward, Interrupts, JobState, Waiting, Working, Terminal

-----------------------------------------------------------------------------
(* The methods *)

\* A legal transition other than the one that delivers keeps a job sound.
LEMMA TransitionSound ==
  ASSUME NEW j, Sound(j), NEW s \in JobState, Allowed(j, s),
         s = "READY_FOR_DELIVERY" => j.status = s
  PROVE  Sound(TransitionTo(j, s)) /\ TransitionTo(j, s).status = s
<1>1. j \in JobRecord /\ j.status \in JobState
  BY DEF Sound, JobRecord
<1>2. TransitionTo(j, s) \in JobRecord
  BY <1>1 DEF TransitionTo, JobRecord
<1>3. /\ TransitionTo(j, s).status = s
      /\ TransitionTo(j, s).aborted = j.aborted
      /\ TransitionTo(j, s).delivery = j.delivery
  BY <1>1 DEF TransitionTo, JobRecord
<1>4. j.status \in Terminal => s = j.status
  BY <1>1, TerminalIsStuck DEF Allowed
<1> QED BY <1>2, <1>3, <1>4 DEF Sound, Terminal

\* checkBounds keeps a job sound, and moves it only where the table allows.
LEMMA CheckBoundsSound ==
  ASSUME NEW j, Sound(j)
  PROVE  /\ Sound(CheckBounds(j))
         /\ CheckBounds(j).status = j.status
              \/ CheckBounds(j).status \in ValidTransitions(j.status)
<1>1. CASE InBounds(j) \/ BoundsThrow(j)
  BY <1>1 DEF CheckBounds
<1>2. CASE ~(InBounds(j) \/ BoundsThrow(j))
  <2>1. Allowed(j, Breach(j)) /\ Breach(j) # "NONE"
    BY <1>2 DEF InBounds, BoundsThrow
  <2>2. Breach(j) \in {"TIMEOUT", "BUDGET_EXCEEDED", "BLOCKED", "NONE"}
    BY DEF Breach
  <2>3. Breach(j) \in JobState /\ Breach(j) # "READY_FOR_DELIVERY"
    BY <2>1, <2>2 DEF JobState, Waiting, Terminal
  <2>4. CheckBounds(j) = TransitionTo(j, Breach(j))
    BY <1>2 DEF CheckBounds
  <2> QED BY <2>1, <2>3, <2>4, TransitionSound DEF Allowed
<1> QED BY <1>1, <1>2

\* Counting disturbs neither the status nor the flags the invariant is about.
LEMMA CountingSound ==
  ASSUME NEW j, Sound(j)
  PROVE  \A c \in {CountProviderCall(j, TRUE), CountProviderCall(j, FALSE),
                   CountCommand(j), CountFixAttempt(j), CountIteration(j)} :
           Sound(c) /\ c.status = j.status
<1>1. j \in JobRecord
  BY DEF Sound
<1>2. ASSUME NEW expensive \in BOOLEAN
      PROVE  /\ Sound(CountProviderCall(j, expensive))
             /\ CountProviderCall(j, expensive).status = j.status
  <2> DEFINE called == [j EXCEPT !.providerCalls = @ + 1]
             over == j.overBudget \/ expensive
  <2>1. Sound(called) /\ called \in JobRecord /\ called.status = j.status
    BY <1>1 DEF Sound, JobRecord
  <2>2. over \in BOOLEAN
    OBVIOUS
  <2>3. CountProviderCall(j, expensive) = [called EXCEPT !.overBudget = over]
    <3>1. called.overBudget = j.overBudget
      BY <1>1 DEF JobRecord
    <3> QED BY <3>1 DEF CountProviderCall
  <2> HIDE DEF called, over
  <2> QED BY <2>1, <2>2, <2>3 DEF Sound, JobRecord
<1>3. Sound(CountCommand(j)) /\ CountCommand(j).status = j.status
  BY <1>1 DEF Sound, JobRecord, CountCommand
<1>4. Sound(CountFixAttempt(j)) /\ CountFixAttempt(j).status = j.status
  BY <1>1 DEF Sound, JobRecord, CountFixAttempt
<1>5. Sound(CountIteration(j)) /\ CountIteration(j).status = j.status
  BY <1>1 DEF Sound, JobRecord, CountIteration
<1> QED BY <1>2, <1>3, <1>4, <1>5

\* So does listing a changed file.
LEMMA CountFileSound ==
  ASSUME NEW j, Sound(j), NEW f \in Files
  PROVE  Sound(CountFile(j, f)) /\ CountFile(j, f).status = j.status
<1>1. j \in JobRecord
  BY DEF Sound
<1>2. Append(j.files, f) \in Seq(Files)
  BY <1>1 DEF JobRecord
<1> QED BY <1>1, <1>2 DEF Sound, JobRecord, CountFile

\* cancel never leaves an aborted job in a state other than CANCELLED.
LEMMA CancelSound ==
  ASSUME NEW j, Sound(j)
  PROVE  /\ Sound(Cancelled(j))
         /\ j.status \in Terminal => Cancelled(j) = j
<1>1. j \in JobRecord /\ j.status \in JobState
  BY DEF Sound, JobRecord
<1>2. CASE j.status \in Terminal
  BY <1>2 DEF Cancelled
<1>3. CASE j.status \notin Terminal
  <2>1. Allowed(j, "CANCELLED")
    BY <1>1, <1>3, CancelIsLegal DEF Allowed
  <2>2. Cancelled(j) = TransitionTo([j EXCEPT !.aborted = TRUE], "CANCELLED")
    BY <1>3, <2>1 DEF Cancelled
  <2>3. j.delivery = FALSE
    BY <1>1, <1>3 DEF Sound, Terminal, JobRecord
  <2> QED BY <1>1, <1>3, <2>2, <2>3 DEF Sound, JobRecord, TransitionTo, JobState, Terminal
<1> QED BY <1>2, <1>3

\* A job is delivered with its package.
LEMMA DeliverSound ==
  ASSUME NEW j, Sound(j), Allowed(j, "READY_FOR_DELIVERY"), ~j.delivery
  PROVE  Sound(Delivered(j)) /\ j.status = "VERIFYING"
<1>1. j \in JobRecord /\ j.status \in JobState
  BY DEF Sound, JobRecord
<1>2. j.status = "VERIFYING"
  BY <1>1, DeliveryGate DEF Allowed, Sound
<1> QED BY <1>1, <1>2 DEF Sound, JobRecord, Delivered, TransitionTo, JobState, Terminal

-----------------------------------------------------------------------------
(* The invariant *)

\* One step replaces one job by a sound one, which keeps the status if it is
\* terminal; the three facts about Spec below are read off this lemma.
LEMMA StepSound ==
  ASSUME AllSound, NEW i \in Jobs, Step(i)
  PROVE  \E j : /\ Set(i, j) /\ Sound(j)
                /\ job[i].status \in Terminal => j.status = job[i].status
<1> USE DEF AllSound
<1>1. Sound(job[i]) /\ job[i] \in JobRecord /\ job[i].status \in JobState
  BY DEF Sound, JobRecord
<1>2. CASE CallTransition(i)
  <2>1. PICK s \in JobState \ {"READY_FOR_DELIVERY"} :
          Allowed(job[i], s) /\ Set(i, TransitionTo(job[i], s))
    BY <1>2 DEF CallTransition
  <2>2. Sound(TransitionTo(job[i], s)) /\ TransitionTo(job[i], s).status = s
    BY <1>1, <2>1, TransitionSound
  <2>3. job[i].status \in Terminal => s = job[i].status
    BY <2>1, TerminalIsStuck DEF Allowed
  <2> QED BY <2>1, <2>2, <2>3
<1>3. CASE CallCheckBounds(i)
  BY <1>1, <1>3, CheckBoundsSound, TerminalIsStuck DEF CallCheckBounds
<1>4. CASE CallRecord(i)
  <2>1. PICK c \in {CountProviderCall(job[i], TRUE), CountProviderCall(job[i], FALSE),
                    CountCommand(job[i]), CountFixAttempt(job[i]), CountIteration(job[i])}
                   \cup {CountFile(job[i], f) : f \in Files} : Set(i, CheckBounds(c))
    BY <1>4 DEF CallRecord
  <2>2. Sound(c) /\ c.status = job[i].status
    <3>1. CASE \E f \in Files : c = CountFile(job[i], f)
      BY <1>1, <3>1, CountFileSound
    <3>2. CASE c \in {CountProviderCall(job[i], TRUE), CountProviderCall(job[i], FALSE),
                      CountCommand(job[i]), CountFixAttempt(job[i]), CountIteration(job[i])}
      BY <1>1, <3>2, CountingSound
    <3> QED BY <2>1, <3>1, <3>2
  <2> QED BY <2>1, <2>2, CheckBoundsSound, TerminalIsStuck
<1>5. CASE CallCancel(i)
  BY <1>1, <1>5, CancelSound DEF CallCancel
<1>6. CASE CallResume(i)
  <2>1. PICK s \in JobState : Resumable(job[i], s) /\ Set(i, TransitionTo(job[i], s))
    BY <1>6 DEF CallResume
  <2>2. Allowed(job[i], s) /\ job[i].status = "BLOCKED" /\ job[i].status \notin Terminal
    BY <2>1 DEF Resumable, Terminal
  <2>3. s # "READY_FOR_DELIVERY"
    BY <1>1, <2>2, DeliveryGate DEF Allowed
  <2> QED BY <1>1, <2>1, <2>2, <2>3, TransitionSound
<1>7. CASE CallDeliver(i)
  <2>1. Sound(Delivered(job[i])) /\ job[i].status = "VERIFYING" /\ Set(i, Delivered(job[i]))
    BY <1>1, <1>7, DeliverSound DEF CallDeliver
  <2> QED BY <2>1 DEF Terminal
<1>8. CASE DeadlinePasses(i)
  <2> DEFINE late == [job[i] EXCEPT !.overTime = TRUE]
  <2>1. Sound(late) /\ late.status = job[i].status
    BY <1>1 DEF Sound, JobRecord
  <2>2. Set(i, late)
    BY <1>8 DEF DeadlinePasses
  <2> QED BY <2>1, <2>2
<1> QED BY <1>2, <1>3, <1>4, <1>5, <1>6, <1>7, <1>8 DEF Step

LEMMA SoundInit == Init => AllSound
<1> SUFFICES ASSUME Init PROVE AllSound
  OBVIOUS
<1>1. Sound(NewJob)
  <2>1. <<>> \in Seq(Files)
    OBVIOUS
  <2> QED BY <2>1 DEF Sound, NewJob, JobRecord, JobState, Waiting
<1> QED BY <1>1 DEF Init, AllSound, Sound

LEMMA SoundNext == AllSound /\ [Next]_vars => AllSound'
<1> SUFFICES ASSUME AllSound, [Next]_vars PROVE AllSound'
  OBVIOUS
<1>1. CASE UNCHANGED vars
  BY <1>1 DEF AllSound, Sound, vars
<1>2. CASE Next
  <2>1. PICK i \in Jobs : Step(i)
    BY <1>2 DEF Next
  <2>2. PICK j : Set(i, j) /\ Sound(j)
    BY <2>1, StepSound
  <2> QED BY <2>2 DEF AllSound, Set, Sound
<1> QED BY <1>1, <1>2

\* AllSound is an invariant of the class.
THEOREM JobsAreSound == Spec => []AllSound
  BY SoundInit, SoundNext, PTL DEF Spec

\* Every job keeps its type: in particular its status is one of the
\* AutonomousJobState, whatever is called on it.
THEOREM JobTyped == Spec => []TypeOK
<1>1. AllSound => TypeOK
  BY DEF AllSound, TypeOK
<1> QED BY <1>1, JobsAreSound, PTL

\* An abort is final: the abort flag of cancel() is up only on CANCELLED jobs.
THEOREM AbortStays == Spec => []AbortIsFinal
<1>1. AllSound => AbortIsFinal
  BY DEF AllSound, Sound, AbortIsFinal
<1> QED BY <1>1, JobsAreSound, PTL

\* A job has a delivery package exactly when it is READY_FOR_DELIVERY.
THEOREM DeliveryIsExact == Spec => []DeliveryMatchesStatus
<1>1. AllSound => DeliveryMatchesStatus
  BY DEF AllSound, Sound, DeliveryMatchesStatus
<1> QED BY <1>1, JobsAreSound, PTL

\* No call moves a job out of a terminal state.
THEOREM TerminalStays == Spec => TerminalIsFinal
<1>1. AllSound /\ [Next]_vars =>
        [\A i \in Jobs : job[i].status \in Terminal => job'[i].status = job[i].status]_vars
  <2> SUFFICES ASSUME AllSound, Next, NEW k \in Jobs, job[k].status \in Terminal
               PROVE  job'[k].status = job[k].status
    OBVIOUS
  <2>1. PICK i \in Jobs : Step(i)
    BY DEF Next
  <2>2. PICK j : /\ Set(i, j) /\ Sound(j)
                 /\ job[i].status \in Terminal => j.status = job[i].status
    BY <2>1, StepSound
  <2> QED BY <2>2 DEF AllSound, Set
<1> QED BY <1>1, JobsAreSound, PTL DEF Spec, TerminalIsFinal

\* After a check of exceeded limits a job is outside the working states: either
\* the breach is legal where the job is, or the job was not working.
LEMMA CheckedStops ==
  ASSUME NEW c \in JobRecord, ~InBounds(CheckBounds(c))
  PROVE  CheckBounds(c).status \notin Working
<1>1. ~InBounds(c)
  BY DEF CheckBounds
<1>2. Breach(c) \in {"TIMEOUT", "BUDGET_EXCEEDED", "BLOCKED"}
  BY <1>1 DEF InBounds, Breach
<1>3. CASE c.status \in Working
  <2>1. Breach(c) \in ValidTransitions(c.status)
    BY <1>2, <1>3 DEF ValidTransitions, Interrupts
  <2>2. CheckBounds(c) = TransitionTo(c, Breach(c))
    BY <1>1, <2>1 DEF CheckBounds, BoundsThrow, Allowed
  <2>3. CheckBounds(c).status = Breach(c)
    BY <2>2 DEF TransitionTo, JobRecord
  <2> QED BY <1>2, <2>3 DEF Working
<1>4. CASE c.status \notin Working
  <2>1. CASE BoundsThrow(c)
    BY <1>4, <2>1 DEF CheckBounds
  <2>2. CASE ~BoundsThrow(c)
    <3>1. CheckBounds(c) = TransitionTo(c, Breach(c))
      BY <1>1, <2>2 DEF CheckBounds
    <3>2. CheckBounds(c).status = Breach(c)
      BY <3>1 DEF TransitionTo, JobRecord
    <3> QED BY <1>2, <3>2 DEF Working
  <2> QED BY <2>1, <2>2
<1> QED BY <1>3, <1>4

\* No recording method leaves a job that is over a limit working.
THEOREM ChecksStop == Spec => OverLimitStops
<1>1. AllSound /\ [Next]_vars =>
        [\A i \in Jobs : CallRecord(i) /\ ~InBounds(job'[i])
           => job'[i].status \notin Working]_vars
  <2> SUFFICES ASSUME AllSound, NEW i \in Jobs, CallRecord(i), ~InBounds(job'[i])
               PROVE  job'[i].status \notin Working
    OBVIOUS
  <2>1. Sound(job[i])
    BY DEF AllSound
  <2>2. PICK c \in {CountProviderCall(job[i], TRUE), CountProviderCall(job[i], FALSE),
                    CountCommand(job[i]), CountFixAttempt(job[i]), CountIteration(job[i])}
                   \cup {CountFile(job[i], f) : f \in Files} : Set(i, CheckBounds(c))
    BY DEF CallRecord
  <2>3. c \in JobRecord
    BY <2>1, <2>2, CountingSound, CountFileSound DEF Sound
  <2>4. job'[i] = CheckBounds(c)
    BY <2>2 DEF AllSound, Set
  <2> QED BY <2>3, <2>4, CheckedStops
<1> QED BY <1>1, JobsAreSound, PTL DEF Spec, OverLimitStops

-----------------------------------------------------------------------------
(* The loop *)

USE LoopAssumption, LimitsAssumption

Labels == {"idle"} \cup Awaits \cup Sync \cup Ended

\* Before its proposal is written a run has operations; from then on its job has files.
Before == {"iterate", "begin", "analysis", "toPlanning", "plan", "toArchitecting",
           "toImplementing", "implement", "propose", "toExecuting", "govern"}
After == {"toTesting", "test", "recordTest", "loop", "diagnose", "attempt", "rediagnose",
          "fixcall", "fixpropose", "fixfiles", "targeted", "assumeTargeted", "regression",
          "assumeRegression", "repaired"}

Listed(j) == {j.files[n] : n \in DOMAIN j.files}

\* What a run with locals x at label l knows of its job j.
Placed(l, x, j) ==
  /\ l \in Before => x.ops # <<>>
  /\ l = "recordFiles" => j.status # "READY_FOR_DELIVERY" /\ (x.ops # <<>> \/ j.files # <<>>)
  /\ l \in After => j.files # <<>>
  /\ l = "govern" => j.status = "EXECUTING" /\ Breach(j) \in {"NONE", "TIMEOUT"}
  /\ l = "deliver" => j.status = "VERIFYING" /\ Breach(j) \in {"NONE", "TIMEOUT"}

\* The file that r has written for i and is about to list.
Pending(r, i) ==
  IF pc[r] = "recordFiles" /\ run[r].of = i /\ run[r].ops # <<>> THEN {Head(run[r].ops)} ELSE {}

Threaded == \A r \in Runs : pc[r] \in Sync <=> thread = r
AllPlaced == \A r \in Runs : Placed(pc[r], run[r], J(r))
Accounted ==
  \A i \in Jobs : \A f \in written[i] : f \in Listed(job[i]) \/ \E r \in Runs : f \in Pending(r, i)

LInv == LoopTypeOK /\ AllSound /\ Threaded /\ AllPlaced /\ Accounted

-----------------------------------------------------------------------------
(* The job object as the loop uses it *)

Counted(j) ==
  {CountProviderCall(j, TRUE), CountProviderCall(j, FALSE), CountCommand(j),
   CountFixAttempt(j), CountIteration(j)} \cup {CountFile(j, f) : f \in Files}

\* k is j after one call of a method, or none.
Legal(j, k) ==
  \/ k = j
  \/ \E s \in JobState \ {"READY_FOR_DELIVERY"} : Allowed(j, s) /\ k = TransitionTo(j, s)
  \/ k = CheckBounds(j)
  \/ \E c \in Counted(j) : k = CheckBounds(c)
  \/ k = Cancelled(j)
  \/ Allowed(j, "READY_FOR_DELIVERY") /\ ~j.delivery /\ k = Delivered(j)
  \/ ~j.overTime /\ k = [j EXCEPT !.overTime = TRUE]

JobMoved(i) == \E k : Legal(job[i], k) /\ Set(i, k)

\* Such a call is a step of the object's specification.
LEMMA MovesAreSteps ==
  ASSUME TypeOK, NEW i \in Jobs, JobMoved(i)
  PROVE  [Next]_vars
<1>1. PICK k : Legal(job[i], k) /\ Set(i, k)
  BY DEF JobMoved
<1>2. CASE k = job[i]
  BY <1>1, <1>2 DEF TypeOK, Set, vars
<1>3. CASE \E s \in JobState \ {"READY_FOR_DELIVERY"} : Allowed(job[i], s) /\ k = TransitionTo(job[i], s)
  <2>1. CallTransition(i)
    BY <1>1, <1>3 DEF CallTransition
  <2> QED  BY <2>1 DEF Next, Step
<1>4. CASE k = CheckBounds(job[i])
  <2>1. CallCheckBounds(i)
    BY <1>1, <1>4 DEF CallCheckBounds
  <2> QED  BY <2>1 DEF Next, Step
<1>5. CASE \E c \in Counted(job[i]) : k = CheckBounds(c)
  <2>1. CallRecord(i)
    BY <1>1, <1>5 DEF CallRecord, Counted
  <2> QED  BY <2>1 DEF Next, Step
<1>6. CASE k = Cancelled(job[i])
  <2>1. CallCancel(i)
    BY <1>1, <1>6 DEF CallCancel
  <2> QED  BY <2>1 DEF Next, Step
<1>7. CASE Allowed(job[i], "READY_FOR_DELIVERY") /\ ~job[i].delivery /\ k = Delivered(job[i])
  <2>1. CallDeliver(i)
    BY <1>1, <1>7 DEF CallDeliver
  <2> QED  BY <2>1 DEF Next, Step
<1>8. CASE ~job[i].overTime /\ k = [job[i] EXCEPT !.overTime = TRUE]
  <2>1. DeadlinePasses(i)
    BY <1>1, <1>8 DEF DeadlinePasses
  <2> QED  BY <2>1 DEF Next, Step
<1> QED  BY <1>1, <1>2, <1>3, <1>4, <1>5, <1>6, <1>7, <1>8 DEF Legal

\* checkBounds leaves the files alone and never delivers.
LEMMA CheckKeeps ==
  ASSUME NEW j \in JobRecord
  PROVE  /\ CheckBounds(j).files = j.files
         /\ j.status # "READY_FOR_DELIVERY" => CheckBounds(j).status # "READY_FOR_DELIVERY"
<1>1. Breach(j) # "READY_FOR_DELIVERY"
  BY DEF Breach
<1> QED  BY <1>1 DEF CheckBounds, TransitionTo, JobRecord

\* Counting keeps the shape and the status; only a file is ever added to the list.
LEMMA CountedKeeps ==
  ASSUME NEW j, Sound(j), NEW c \in Counted(j)
  PROVE  /\ Sound(c) /\ c \in JobRecord /\ c.status = j.status
         /\ c.files = j.files \/ \E f \in Files : c.files = Append(j.files, f)
<1>1. j \in JobRecord
  BY DEF Sound
<1>2. Sound(c) /\ c.status = j.status
  <2>1. CASE \E f \in Files : c = CountFile(j, f)
    BY <2>1, CountFileSound
  <2>2. CASE c \in {CountProviderCall(j, TRUE), CountProviderCall(j, FALSE), CountCommand(j),
                   CountFixAttempt(j), CountIteration(j)}
    BY <2>2, CountingSound
  <2> QED  BY <2>1, <2>2 DEF Counted
<1>3. c.files = j.files \/ \E f \in Files : c.files = Append(j.files, f)
  <2>1. CASE \E f \in Files : c = CountFile(j, f)
    BY <1>1, <2>1 DEF CountFile, JobRecord
  <2>2. CASE \E expensive \in BOOLEAN : c = CountProviderCall(j, expensive)
    BY <1>1, <2>2 DEF CountProviderCall, JobRecord
  <2>3. CASE c \in {CountCommand(j), CountFixAttempt(j), CountIteration(j)}
    BY <1>1, <2>3 DEF CountCommand, CountFixAttempt, CountIteration, JobRecord
  <2> QED  BY <2>1, <2>2, <2>3 DEF Counted
<1> QED  BY <1>2, <1>3 DEF Sound

\* The list of files only grows.
LEMMA FilesGrow ==
  ASSUME NEW j, Sound(j), NEW k, Legal(j, k)
  PROVE  /\ k.files = j.files \/ \E f \in Files : k.files = Append(j.files, f)
         /\ Listed(j) \subseteq Listed(k)
         /\ j.files # <<>> => k.files # <<>>
<1>1. j \in JobRecord /\ j.files \in Seq(Files)
  BY DEF Sound, JobRecord
<1>2. k.files = j.files \/ \E f \in Files : k.files = Append(j.files, f)
  <2>1. CASE \E s \in JobState \ {"READY_FOR_DELIVERY"} : Allowed(j, s) /\ k = TransitionTo(j, s)
    BY <1>1, <2>1 DEF TransitionTo, JobRecord
  <2>2. CASE k = CheckBounds(j)
    BY <1>1, <2>2, CheckKeeps
  <2>3. CASE \E c \in Counted(j) : k = CheckBounds(c)
    BY <2>3, CountedKeeps, CheckKeeps
  <2>4. CASE k = Cancelled(j)
    BY <1>1, <2>4 DEF Cancelled, TransitionTo, JobRecord
  <2>5. CASE k = Delivered(j)
    BY <1>1, <2>5 DEF Delivered, TransitionTo, JobRecord
  <2>6. CASE k = [j EXCEPT !.overTime = TRUE]
    BY <1>1, <2>6 DEF JobRecord
  <2> QED  BY <2>1, <2>2, <2>3, <2>4, <2>5, <2>6 DEF Legal
<1>3. Listed(j) \subseteq Listed(k) /\ (j.files # <<>> => k.files # <<>>)
  <2>1. CASE k.files = j.files
    BY <2>1 DEF Listed
  <2>2. CASE \E f \in Files : k.files = Append(j.files, f)
    BY <1>1, <2>2 DEF Listed
  <2> QED  BY <1>2, <2>1, <2>2
<1> QED  BY <1>2, <1>3

\* Listing a file lists it.
LEMMA FileListed ==
  ASSUME NEW j, Sound(j), NEW f \in Files
  PROVE  /\ f \in Listed(CheckBounds(CountFile(j, f)))
         /\ CheckBounds(CountFile(j, f)).files # <<>>
<1>1. j \in JobRecord /\ j.files \in Seq(Files)
  BY DEF Sound, JobRecord
<1>2. CountFile(j, f) \in JobRecord
  BY CountFileSound DEF Sound
<1>3. \E n \in DOMAIN CountFile(j, f).files : CountFile(j, f).files[n] = f
  <2>1. CASE \E n \in DOMAIN j.files : j.files[n] = f
    BY <2>1 DEF CountFile
  <2>2. CASE ~(\E n \in DOMAIN j.files : j.files[n] = f)
    <3>1. CountFile(j, f).files = Append(j.files, f)
      BY <1>1, <2>2 DEF CountFile, JobRecord
    <3> QED  BY <1>1, <3>1
  <2> QED  BY <2>1, <2>2
<1>4. CheckBounds(CountFile(j, f)).files = CountFile(j, f).files
  BY <1>2, CheckKeeps
<1> QED  BY <1>3, <1>4 DEF Listed

-----------------------------------------------------------------------------
(* What a step of a run does *)

\* A run goes on from where it has the thread or is resumed, and moves its own job.
RunMoves(r) ==
  /\ thread \in {r, Idle}
  /\ \E l \in Labels : Goto(r, l)
  /\ run' \in [Runs -> Local]
  /\ \A q \in Runs \ {r} : run'[q].of = run[q].of /\ run'[q].ops = run[q].ops
  /\ JobMoved(run'[r].of)
  /\ Placed(pc'[r], run'[r], job'[run'[r].of])
  /\ \A i \in Jobs : \A f \in (written'[i] \ written[i]) \cup Pending(r, i) :
       f \in Listed(job'[i]) \/ f \in Pending(r, i)'
  /\ attemptCount' \in 0..MaxRepairs /\ tasks' \subseteq Tasks
  /\ written' \in [Jobs -> SUBSET Files] /\ invoked' \in [Jobs -> Nat]

\* What a run has at hand.
LEMMA Here ==
  ASSUME LInv, NEW r \in Runs
  PROVE  /\ run[r] \in Local /\ run[r].of \in Jobs /\ run[r].ops \in Seq(Files)
         /\ J(r) \in JobRecord /\ Sound(J(r)) /\ J(r).status \in JobState
         /\ pc[r] \in Labels /\ Placed(pc[r], run[r], J(r))
BY DEF LInv, LoopTypeOK, TypeOK, AllSound, AllPlaced, Local, J, JobRecord, Labels

\* The labels at which nothing but the files of the job is relied upon.
Loose == Labels \ {"recordFiles", "govern", "deliver"}

\* A run that goes on among loose labels knows there what it knew.
LEMMA PlacedOn ==
  ASSUME LInv, NEW r \in Runs, JobMoved(run[r].of), NEW l \in Loose,
         l \in Before => pc[r] \in Before, l \in After => pc[r] \in After,
         NEW x, x.ops = run[r].ops
  PROVE  Placed(l, x, job'[run[r].of])
<1>1. PICK k : Legal(J(r), k) /\ job'[run[r].of] = k
  BY Here DEF JobMoved, Set, J, LInv, LoopTypeOK, TypeOK
<1>2. J(r).files # <<>> => k.files # <<>>
  BY <1>1, Here, FilesGrow
<1> QED  BY <1>1, <1>2, Here DEF Placed, Loose

\* Every such step keeps the invariant, and is one of the job's own.
LEMMA RunKeeps ==
  ASSUME LInv, NEW r \in Runs, RunMoves(r)
  PROVE  LInv' /\ [Next]_vars
<1> DEFINE i == run'[r].of
<1>1. PICK l \in Labels : Goto(r, l)
  BY DEF RunMoves
<1>2. /\ pc' = [pc EXCEPT ![r] = l] /\ thread' = IF l \in Sync THEN r ELSE Idle
      /\ pc \in [Runs -> Labels]
  BY <1>1 DEF Goto, LInv, LoopTypeOK, Labels
<1>3. i \in Jobs
  BY DEF RunMoves, Local
<1>4. PICK k : Legal(job[i], k) /\ Set(i, k)
  BY DEF RunMoves, JobMoved
<1>5. Sound(job[i]) /\ job \in [Jobs -> JobRecord] /\ TypeOK
  BY <1>3 DEF LInv, AllSound, TypeOK
<1>6. [Next]_vars
  BY <1>3, <1>5, MovesAreSteps DEF RunMoves
<1>7. AllSound'
  BY <1>6, SoundNext DEF LInv
<1>8. job' = [job EXCEPT ![i] = k] /\ \A j \in Jobs : job'[j] = IF j = i THEN k ELSE job[j]
  BY <1>3, <1>4, <1>5 DEF Set
<1>9. \A j \in Jobs : /\ Listed(job[j]) \subseteq Listed(job'[j])
                      /\ job[j].files # <<>> => job'[j].files # <<>>
  BY <1>3, <1>4, <1>5, <1>8, FilesGrow
<1>10. LoopTypeOK'
  <2>1. TypeOK'
    BY <1>7 DEF AllSound, TypeOK
  <2>2. pc' \in [Runs -> Labels] /\ thread' \in Runs \cup {Idle}
    BY <1>2
  <2> QED  BY <2>1, <2>2 DEF LoopTypeOK, RunMoves, Labels
<1>11. Threaded'
  BY <1>2 DEF LInv, Threaded, RunMoves
<1>12. AllPlaced'
  <2>1. Placed(pc'[r], run'[r], job'[run'[r].of])
    BY DEF RunMoves
  <2>2. ASSUME NEW q \in Runs \ {r}
        PROVE  Placed(pc'[q], run'[q], job'[run'[q].of])
    <3>1. pc'[q] = pc[q] /\ pc[q] \notin Sync
      BY <1>2 DEF LInv, Threaded, RunMoves
    <3>2. run'[q].of = run[q].of /\ run'[q].ops = run[q].ops /\ run[q].of \in Jobs
      BY Here DEF RunMoves
    <3>3. J(q).files # <<>> => job'[run[q].of].files # <<>>
      BY <1>9, <3>2 DEF J
    <3>4. Placed(pc[q], run[q], J(q))
      BY Here
    <3>5. pc[q] \notin {"recordFiles", "govern", "deliver"}
      BY <3>1 DEF Sync
    <3> QED  BY <3>1, <3>2, <3>3, <3>4, <3>5 DEF Placed
  <2> QED  BY <2>1, <2>2 DEF AllPlaced, J
<1>13. Accounted'
  <2> SUFFICES ASSUME NEW j \in Jobs, NEW f \in written'[j]
               PROVE  f \in Listed(job'[j]) \/ \E q \in Runs : f \in Pending(q, j)'
    BY DEF Accounted
  <2>1. CASE f \in (written'[j] \ written[j]) \cup Pending(r, j)
    BY <2>1 DEF RunMoves
  <2>2. CASE f \in Listed(job[j])
    BY <1>9, <2>2
  <2>3. ASSUME NEW q \in Runs \ {r}, f \in Pending(q, j)
        PROVE  f \in Pending(q, j)'
    <3>1. pc'[q] = pc[q] /\ run'[q].of = run[q].of /\ run'[q].ops = run[q].ops
      BY <1>2 DEF RunMoves
    <3> QED  BY <2>3, <3>1 DEF Pending
  <2>4. f \in written[j] => f \in Listed(job[j]) \/ \E q \in Runs : f \in Pending(q, j)
    BY DEF LInv, Accounted
  <2> QED  BY <2>1, <2>2, <2>3, <2>4
<1> QED  BY <1>6, <1>7, <1>10, <1>11, <1>12, <1>13 DEF LInv

\* A step that writes no file and changes no locals but those of its run.
LEMMA LocalMoves ==
  ASSUME LInv, NEW r \in Runs, thread \in {r, Idle}, pc[r] # "recordFiles",
         NEW l \in Labels, Goto(r, l),
         NEW x \in Local, x.of = run[r].of, run' = [run EXCEPT ![r] = x],
         JobMoved(run[r].of), Placed(l, x, job'[run[r].of]),
         attemptCount' \in 0..MaxRepairs, tasks' \subseteq Tasks, written' = written,
         invoked' \in [Jobs -> Nat]
  PROVE  RunMoves(r)
<1>1. run \in [Runs -> Local] /\ written \in [Jobs -> SUBSET Files] /\ pc \in [Runs -> Labels]
  BY DEF LInv, LoopTypeOK, Labels
<1>2. run' \in [Runs -> Local] /\ run'[r] = x /\ \A q \in Runs \ {r} : run'[q] = run[q]
  BY <1>1
<1>3. pc'[r] = l
  BY <1>1 DEF Goto
<1>4. \A i \in Jobs : written'[i] \ written[i] = {} /\ Pending(r, i) = {}
  BY DEF Pending
<1> QED  BY <1>1, <1>2, <1>3, <1>4 DEF RunMoves

\* One that leaves the locals alone, too, and stays among loose labels.
LEMMA PlainMoves ==
  ASSUME LInv, NEW r \in Runs, thread \in {r, Idle}, pc[r] # "recordFiles",
         NEW l \in Loose, Goto(r, l), l \in Before => pc[r] \in Before,
         l \in After => pc[r] \in After,
         KeepRun, JobMoved(run[r].of),
         UNCHANGED <<attemptCount, tasks, written>>, invoked' \in [Jobs -> Nat]
  PROVE  RunMoves(r)
<1>1. run' = [run EXCEPT ![r] = run[r]] /\ run[r] \in Local
  BY DEF LInv, LoopTypeOK, KeepRun
<1>2. Placed(l, run[r], job'[run[r].of])
  BY PlacedOn
<1>3. attemptCount' \in 0..MaxRepairs /\ tasks' \subseteq Tasks /\ l \in Labels
  BY DEF LInv, LoopTypeOK, Loose
<1> QED  BY <1>1, <1>2, <1>3, LocalMoves

-----------------------------------------------------------------------------
(* The calls on the job object *)

LEMMA StaysMoves ==
  ASSUME LInv, NEW r \in Runs, UNCHANGED job
  PROVE  JobMoved(run[r].of)
BY Here DEF JobMoved, Legal, Set, LInv, LoopTypeOK, TypeOK

LEMMA MoveMoves ==
  ASSUME LInv, NEW r \in Runs, NEW s \in JobState \ {"READY_FOR_DELIVERY"}, NEW next,
         Move(r, s, next)
  PROVE  /\ JobMoved(run[r].of)
         /\ \/ Goto(r, "catch")
            \/ Goto(r, next) /\ job'[run[r].of] = TransitionTo(J(r), s)
<1>1. CASE Allowed(J(r), s)
  <2>1. Set(run[r].of, TransitionTo(J(r), s)) /\ Goto(r, next)
    BY <1>1 DEF Move, SetJob
  <2>2. Legal(J(r), TransitionTo(J(r), s))
    BY <1>1 DEF Legal
  <2>3. job'[run[r].of] = TransitionTo(J(r), s)
    BY <2>1, Here DEF Set, LInv, LoopTypeOK, TypeOK
  <2> QED  BY <2>1, <2>2, <2>3 DEF JobMoved, J
<1>2. CASE ~Allowed(J(r), s)
  BY <1>2, StaysMoves DEF Move
<1> QED  BY <1>1, <1>2

LEMMA GateMoves ==
  ASSUME LInv, NEW r \in Runs, NEW s \in JobState \ {"READY_FOR_DELIVERY"}, NEW next,
         Gate(r, s, next)
  PROVE  /\ JobMoved(run[r].of)
         /\ \/ Goto(r, "catch") \/ Goto(r, "returned")
            \/ Goto(r, next) /\ InBounds(J(r)) /\ job'[run[r].of] = TransitionTo(J(r), s)
<1>1. CASE BoundsThrow(J(r))
  BY <1>1, StaysMoves DEF Gate
<1>2. CASE ~BoundsThrow(J(r)) /\ ~InBounds(J(r))
  <2>1. Set(run[r].of, CheckBounds(J(r))) /\ Goto(r, "returned")
    BY <1>2 DEF Gate, SetJob
  <2>2. Legal(J(r), CheckBounds(J(r)))
    BY DEF Legal
  <2> QED  BY <2>1, <2>2 DEF JobMoved, J
<1>3. CASE ~BoundsThrow(J(r)) /\ InBounds(J(r)) /\ J(r).aborted
  <2>1. Move(r, "CANCELLED", "returned")
    BY <1>3 DEF Gate
  <2>2. "CANCELLED" \in JobState \ {"READY_FOR_DELIVERY"}
    BY DEF JobState, Terminal
  <2> QED  BY <2>1, <2>2, MoveMoves
<1>4. CASE ~BoundsThrow(J(r)) /\ InBounds(J(r)) /\ ~J(r).aborted
  <2>1. Move(r, s, next)
    BY <1>4 DEF Gate
  <2> QED  BY <1>4, <2>1, MoveMoves
<1> QED  BY <1>1, <1>2, <1>3, <1>4

LEMMA RecordMoves ==
  ASSUME LInv, NEW r \in Runs, NEW c \in Counted(J(r)), NEW next, Record(r, c, next)
  PROVE  /\ JobMoved(run[r].of)
         /\ job'[run[r].of] = CheckBounds(c)
         /\ Goto(r, "catch") \/ Goto(r, next)
<1>1. Set(run[r].of, CheckBounds(c))
  BY DEF Record, SetJob
<1>2. Legal(J(r), CheckBounds(c))
  BY DEF Legal
<1>3. job'[run[r].of] = CheckBounds(c)
  BY <1>1, Here DEF Set, LInv, LoopTypeOK, TypeOK
<1>4. Goto(r, "catch") \/ Goto(r, next)
  BY DEF Record
<1> QED  BY <1>1, <1>2, <1>3, <1>4 DEF JobMoved, J

LEMMA ReturnMoves ==
  ASSUME LInv, NEW r \in Runs, NEW next, ProviderReturns(r, next)
  PROVE  JobMoved(run[r].of) /\ Goto(r, next)
<1>1. CASE UNCHANGED job /\ Goto(r, next)
  BY <1>1, StaysMoves
<1>2. CASE \E expensive \in Prices :
             /\ SetJob(r, CheckBounds(CountProviderCall(J(r), expensive)))
             /\ Goto(r, next)
  <2>1. PICK expensive \in BOOLEAN :
             /\ Set(run[r].of, CheckBounds(CountProviderCall(J(r), expensive)))
             /\ Goto(r, next)
    BY <1>2 DEF SetJob
  <2>2. CountProviderCall(J(r), expensive) \in Counted(J(r))
    BY <2>1 DEF Counted
  <2>3. Legal(J(r), CheckBounds(CountProviderCall(J(r), expensive)))
    BY <2>2 DEF Legal
  <2> QED  BY <2>1, <2>3 DEF JobMoved, J
<1> QED  BY <1>1, <1>2 DEF ProviderReturns

LEMMA InvokesTyped ==
  ASSUME LInv, NEW r \in Runs, NEW l, InvokesAt(r, l)
  PROVE  invoked' \in [Jobs -> Nat]
BY Here DEF InvokesAt, LInv, LoopTypeOK

\* The two counts of calls that a job may find kept.
LEMMA WorldTyped ==
  ASSUME LInv, NEW r \in Runs
  PROVE  /\ attemptCount \in 0..MaxRepairs /\ tasks \subseteq Tasks
         /\ invoked \in [Jobs -> Nat] /\ written \in [Jobs -> SUBSET Files]
BY DEF LInv, LoopTypeOK

\* A transition leaves the limits and the files as they were.
LEMMA TransitionKeeps ==
  ASSUME NEW j \in JobRecord, NEW s \in JobState
  PROVE  /\ TransitionTo(j, s).status = s
         /\ TransitionTo(j, s).files = j.files
         /\ Breach(TransitionTo(j, s)) = Breach(j)
BY DEF TransitionTo, Breach, JobRecord

-----------------------------------------------------------------------------
(* The steps that leave the locals of the run alone *)

LEMMA QuietKeeps ==
  ASSUME LInv, NEW r \in Runs,
         \/ RecordIteration(r) \/ Begin(r) \/ Analysed(r) \/ ToPlanning(r) \/ Planned(r)
         \/ ToArchitecting(r) \/ ToImplementing(r) \/ Implemented(r) \/ Propose(r)
         \/ LoopHead(r) \/ Diagnosed(r) \/ FixReturned(r) \/ FixFiles(r) \/ GiveUp(r)
         \/ ToReviewing(r) \/ ToSecurityReview(r) \/ Catch(r)
  PROVE  RunMoves(r)
<1> USE DEF Before, After, Loose, Labels, Awaits, Sync, Ended, JobState, Waiting, Working, Terminal
<1>1. CASE RecordIteration(r)
  <2>1. CountIteration(J(r)) \in Counted(J(r))
    BY DEF Counted
  <2>2. Set(run[r].of, CheckBounds(CountIteration(J(r))))
    BY <1>1 DEF RecordIteration, SetJob
  <2>3. JobMoved(run[r].of)
    BY <2>1, <2>2 DEF JobMoved, Legal, J
  <2>4. Goto(r, "rejected") \/ Goto(r, "begin")
    BY <1>1 DEF RecordIteration
  <2> QED  BY <1>1, <2>3, <2>4, PlainMoves, WorldTyped DEF RecordIteration, At, KeepWorld
<1>2. CASE Begin(r)
  <2>1. Move(r, "CANCELLED", "returned") \/ Move(r, "ANALYZING", "analysis")
    BY <1>2 DEF Begin
  <2>2. JobMoved(run[r].of) /\ (Goto(r, "catch") \/ Goto(r, "returned") \/ Goto(r, "analysis"))
    BY <2>1, MoveMoves
  <2> QED  BY <1>2, <2>2, PlainMoves, InvokesTyped DEF Begin, At
<1>3. CASE Analysed(r)
  BY <1>3, StaysMoves, PlainMoves, WorldTyped DEF Analysed, Settles, KeepWorld
<1>4. CASE ToPlanning(r)
  <2>1. JobMoved(run[r].of) /\ (Goto(r, "catch") \/ Goto(r, "returned") \/ Goto(r, "plan"))
    BY <1>4, GateMoves DEF ToPlanning
  <2> QED  BY <1>4, <2>1, PlainMoves, InvokesTyped DEF ToPlanning, At
<1>5. CASE Planned(r)
  <2>1. JobMoved(run[r].of) /\ Goto(r, "toArchitecting")
    BY <1>5, ReturnMoves DEF Planned
  <2> QED  BY <1>5, <2>1, PlainMoves, WorldTyped DEF Planned, Settles, KeepWorld
<1>6. CASE ToArchitecting(r)
  <2>1. JobMoved(run[r].of) /\ (Goto(r, "catch") \/ Goto(r, "returned") \/ Goto(r, "toImplementing"))
    BY <1>6, GateMoves DEF ToArchitecting
  <2> QED  BY <1>6, <2>1, PlainMoves, WorldTyped DEF ToArchitecting, At, KeepWorld
<1>7. CASE ToImplementing(r)
  <2>1. Gate(r, "IMPLEMENTING", "propose") \/ Gate(r, "IMPLEMENTING", "implement")
    BY <1>7 DEF ToImplementing
  <2>2. JobMoved(run[r].of) /\ (Goto(r, "catch") \/ Goto(r, "returned")
                                 \/ Goto(r, "propose") \/ Goto(r, "implement"))
    BY <2>1, GateMoves
  <2> QED  BY <1>7, <2>2, PlainMoves, InvokesTyped DEF ToImplementing, At
<1>8. CASE Implemented(r)
  <2>1. JobMoved(run[r].of) /\ Goto(r, "propose")
    BY <1>8, ReturnMoves DEF Implemented
  <2> QED  BY <1>8, <2>1, PlainMoves, WorldTyped DEF Implemented, Settles, KeepWorld
<1>9. CASE Propose(r)
  <2>1. (UNCHANGED job /\ Goto(r, "toExecuting")) \/ Move(r, "POLICY_DENIED", "returned")
    BY <1>9 DEF Propose
  <2>2. JobMoved(run[r].of) /\ (Goto(r, "catch") \/ Goto(r, "returned") \/ Goto(r, "toExecuting"))
    BY <2>1, MoveMoves, StaysMoves
  <2> QED  BY <1>9, <2>2, PlainMoves, WorldTyped DEF Propose, At, KeepWorld
<1>10. CASE LoopHead(r)
  <2>1. \/ UNCHANGED job /\ Goto(r, "giveUp")
        \/ Move(r, "CANCELLED", "returned")
        \/ Gate(r, "ANALYZING_FAILURE", "diagnose")
    BY <1>10 DEF LoopHead
  <2>2. JobMoved(run[r].of) /\ (Goto(r, "catch") \/ Goto(r, "returned")
                                 \/ Goto(r, "giveUp") \/ Goto(r, "diagnose"))
    BY <2>1, MoveMoves, GateMoves, StaysMoves
  <2> QED  BY <1>10, <2>2, PlainMoves, InvokesTyped DEF LoopHead, At
<1>11. CASE Diagnosed(r)
  <2>1. JobMoved(run[r].of) /\ (Goto(r, "catch") \/ Goto(r, "attempt"))
    BY <1>11, MoveMoves DEF Diagnosed
  <2> QED  BY <1>11, <2>1, PlainMoves, WorldTyped DEF Diagnosed, Settles, KeepWorld
<1>12. CASE FixReturned(r)
  <2>1. JobMoved(run[r].of) /\ Goto(r, "fixpropose")
    BY <1>12, ReturnMoves DEF FixReturned
  <2> QED  BY <1>12, <2>1, PlainMoves, WorldTyped DEF FixReturned, Settles, KeepWorld
<1>13. CASE FixFiles(r)
  <2>1. J(r).files # <<>> /\ J(r).files \in Seq(Files)
    BY <1>13, Here DEF FixFiles, At, Placed, JobRecord
  <2>2. CountFile(J(r), Head(J(r).files)) \in Counted(J(r))
    <3>1. Head(J(r).files) \in Files
      BY <2>1
    <3> QED  BY <3>1 DEF Counted
  <2>3. /\ JobMoved(run[r].of)
        /\ Goto(r, "catch") \/ Goto(r, "targeted") \/ Goto(r, "assumeTargeted")
    <3>1. \/ Record(r, CountFile(J(r), Head(J(r).files)), "targeted")
          \/ Record(r, CountFile(J(r), Head(J(r).files)), "assumeTargeted")
      BY <1>13 DEF FixFiles
    <3> QED  BY <2>2, <3>1, RecordMoves
  <2> QED  BY <1>13, <2>3, PlainMoves, WorldTyped DEF FixFiles, At, KeepWorld
<1>14. CASE GiveUp(r)
  <2>1. JobMoved(run[r].of) /\ (Goto(r, "catch") \/ Goto(r, "returned"))
    BY <1>14, MoveMoves DEF GiveUp
  <2> QED  BY <1>14, <2>1, PlainMoves, WorldTyped DEF GiveUp, At, KeepWorld
<1>15. CASE ToReviewing(r)
  <2>1. JobMoved(run[r].of) /\ (Goto(r, "catch") \/ Goto(r, "returned") \/ Goto(r, "toSecurityReview"))
    BY <1>15, GateMoves DEF ToReviewing
  <2> QED  BY <1>15, <2>1, PlainMoves, WorldTyped DEF ToReviewing, At, KeepWorld
<1>16. CASE ToSecurityReview(r)
  <2>1. JobMoved(run[r].of) /\ (Goto(r, "catch") \/ Goto(r, "toVerifying"))
    BY <1>16, MoveMoves DEF ToSecurityReview
  <2> QED  BY <1>16, <2>1, PlainMoves, WorldTyped DEF ToSecurityReview, At, KeepWorld
<1>17. CASE Catch(r)
  <2>1. CASE J(r).status \in Terminal \/ ~Allowed(J(r), "FAILED")
    <3>1. UNCHANGED job /\ Goto(r, "rejected")
      BY <1>17, <2>1 DEF Catch
    <3> QED  BY <1>17, <3>1, StaysMoves, PlainMoves, WorldTyped DEF Catch, At, KeepWorld
  <2>2. CASE Allowed(J(r), "FAILED") /\ J(r).status \notin Terminal
    <3>1. Set(run[r].of, TransitionTo(J(r), "FAILED")) /\ Goto(r, "rejected")
      BY <1>17, <2>2 DEF Catch, SetJob
    <3>2. JobMoved(run[r].of)
      BY <2>2, <3>1 DEF JobMoved, Legal, J
    <3> QED  BY <1>17, <3>1, <3>2, PlainMoves, WorldTyped DEF Catch, At, KeepWorld
  <2> QED  BY <2>1, <2>2
<1> QED  BY <1>1, <1>2, <1>3, <1>4, <1>5, <1>6, <1>7, <1>8, <1>9, <1>10, <1>11, <1>12, <1>13,
            <1>14, <1>15, <1>16, <1>17

\* A gate that leads to labels where the job is relied upon is passed by a job within
\* its limits.
LEMMA ToExecutingKeeps ==
  ASSUME LInv, NEW r \in Runs, ToExecuting(r) \/ ToVerifying(r)
  PROVE  RunMoves(r)
<1> USE DEF Before, After, Labels, Awaits, Sync, Ended, JobState, Waiting, Working, Terminal
<1>1. PICK s \in {"EXECUTING", "VERIFYING"} :
        /\ Gate(r, s, IF s = "EXECUTING" THEN "govern" ELSE "deliver")
        /\ pc[r] = IF s = "EXECUTING" THEN "toExecuting" ELSE "toVerifying"
        /\ thread = r /\ KeepRun /\ KeepWorld
  BY DEF ToExecuting, ToVerifying, At
<1> DEFINE next == IF s = "EXECUTING" THEN "govern" ELSE "deliver"
<1>2. /\ JobMoved(run[r].of)
      /\ \/ Goto(r, "catch") \/ Goto(r, "returned")
         \/ Goto(r, next) /\ InBounds(J(r)) /\ job'[run[r].of] = TransitionTo(J(r), s)
  BY <1>1, GateMoves
<1>3. CASE Goto(r, "catch") \/ Goto(r, "returned")
  BY <1>1, <1>2, <1>3, PlainMoves, WorldTyped DEF KeepWorld, Loose
<1>4. CASE Goto(r, next) /\ InBounds(J(r)) /\ job'[run[r].of] = TransitionTo(J(r), s)
  <2> DEFINE k == job'[run[r].of]
  <2>1. k.status = s /\ Breach(k) = "NONE"
    BY <1>4, Here, TransitionKeeps DEF InBounds
  <2>2. s = "EXECUTING" => run[r].ops # <<>>
    BY <1>1, Here DEF Placed
  <2>3. Placed(next, run[r], k)
    BY <1>1, <2>1, <2>2 DEF Placed
  <2>4. run' = [run EXCEPT ![r] = run[r]] /\ run[r] \in Local
    BY <1>1, Here DEF LInv, LoopTypeOK, KeepRun
  <2>5. next \in Labels /\ thread \in {r, Idle} /\ pc[r] # "recordFiles"
    BY <1>1
  <2>6. attemptCount' \in 0..MaxRepairs /\ tasks' \subseteq Tasks /\ written' = written
        /\ invoked' \in [Jobs -> Nat]
    BY <1>1, WorldTyped DEF KeepWorld
  <2> HIDE DEF next
  <2> QED  BY <1>2, <1>4, <2>3, <2>4, <2>5, <2>6, LocalMoves
<1> QED  BY <1>2, <1>3, <1>4

\* The job is where the table allows its delivery, and has no package yet.
LEMMA DeliverKeeps ==
  ASSUME LInv, NEW r \in Runs, Deliver(r)
  PROVE  RunMoves(r)
<1> USE DEF Before, After, Loose, Labels, Awaits, Sync, Ended
<1>1. J(r).status = "VERIFYING" /\ ~J(r).delivery
  BY Here DEF Deliver, At, Placed, Sound, JobRecord
<1>2. Allowed(J(r), "READY_FOR_DELIVERY")
  BY <1>1 DEF Allowed, ValidTransitions, Onward
<1>3. Set(run[r].of, Delivered(J(r))) /\ Goto(r, "delivered")
  BY <1>2 DEF Deliver, SetJob
<1>4. JobMoved(run[r].of)
  BY <1>1, <1>2, <1>3 DEF JobMoved, Legal, J
<1> QED  BY <1>3, <1>4, PlainMoves, WorldTyped DEF Deliver, At, KeepWorld

-----------------------------------------------------------------------------
(* The steps that change the locals of the run *)

\* A run's locals keep their shape when one of them is assigned.
LEMMA LocalTyped ==
  ASSUME NEW x \in Local
  PROVE  /\ \A v \in Evidence :
              /\ [x EXCEPT !.evidence = v] \in Local
              /\ [x EXCEPT !.evidence = v].of = x.of /\ [x EXCEPT !.evidence = v].ops = x.ops
         /\ \A v \in Evidence :
              /\ [x EXCEPT !.lastFailure = v] \in Local
              /\ [x EXCEPT !.lastFailure = v].of = x.of /\ [x EXCEPT !.lastFailure = v].ops = x.ops
         /\ \A v \in Evidence :
              /\ [x EXCEPT !.targeted = v] \in Local
              /\ [x EXCEPT !.targeted = v].of = x.of /\ [x EXCEPT !.targeted = v].ops = x.ops
         /\ \A v \in RepairOutcome :
              /\ [x EXCEPT !.outcome = v] \in Local
              /\ [x EXCEPT !.outcome = v].of = x.of /\ [x EXCEPT !.outcome = v].ops = x.ops
         /\ \A v \in Tasks :
              /\ [x EXCEPT !.task = v] \in Local
              /\ [x EXCEPT !.task = v].of = x.of /\ [x EXCEPT !.task = v].ops = x.ops
         /\ \A v \in SUBSET Jobs :
              /\ [x EXCEPT !.unseen = v] \in Local
              /\ [x EXCEPT !.unseen = v].of = x.of /\ [x EXCEPT !.unseen = v].ops = x.ops
         /\ \A v \in Seq(Files) :
              /\ [x EXCEPT !.ops = v] \in Local
              /\ [x EXCEPT !.ops = v].of = x.of /\ [x EXCEPT !.ops = v].ops = v
BY DEF Local

\* Only r's locals change, in a way that its operations and its job do not show.
LEMMA NotedMoves ==
  ASSUME LInv, NEW r \in Runs, thread \in {r, Idle}, pc[r] # "recordFiles",
         NEW l \in Loose, Goto(r, l), l \in Before => pc[r] \in Before,
         l \in After => pc[r] \in After,
         NEW x \in Local, x.of = run[r].of, x.ops = run[r].ops, run' = [run EXCEPT ![r] = x],
         JobMoved(run[r].of),
         attemptCount' \in 0..MaxRepairs, UNCHANGED written, tasks' \subseteq Tasks,
         invoked' \in [Jobs -> Nat]
  PROVE  RunMoves(r)
<1>1. Placed(l, x, job'[run[r].of]) /\ l \in Labels
  BY PlacedOn DEF Loose
<1> QED  BY <1>1, LocalMoves

\* Assigning several of them is assigning one after the other.
LEMMA LocalsTyped ==
  ASSUME NEW x \in Local, NEW outcome \in RepairOutcome, NEW v \in Evidence
  PROVE  /\ [x EXCEPT !.outcome = outcome, !.targeted = v] \in Local
         /\ [x EXCEPT !.outcome = outcome, !.targeted = v].of = x.of
         /\ [x EXCEPT !.outcome = outcome, !.targeted = v].ops = x.ops
         /\ [x EXCEPT !.targeted = v, !.outcome = outcome] \in Local
         /\ [x EXCEPT !.targeted = v, !.outcome = outcome].of = x.of
         /\ [x EXCEPT !.targeted = v, !.outcome = outcome].ops = x.ops
         /\ [x EXCEPT !.targeted = v] \in Local
         /\ [x EXCEPT !.targeted = v].of = x.of
         /\ [x EXCEPT !.targeted = v].ops = x.ops
         /\ [x EXCEPT !.targeted = v, !.unseen = {}] \in Local
         /\ [x EXCEPT !.targeted = v, !.unseen = {}].of = x.of
         /\ [x EXCEPT !.targeted = v, !.unseen = {}].ops = x.ops
BY DEF Local

\* What the repair loop and the tests assign is of the right type.
LEMMA NotedKeeps ==
  ASSUME LInv, NEW r \in Runs,
         \/ ToTesting(r) \/ Tested(r) \/ RecordTest(r) \/ Attempt(r) \/ Rediagnosed(r)
         \/ TargetedReturns(r) \/ TargetedAssumed(r) \/ RegressionReturns(r)
         \/ RegressionAssumed(r) \/ Repaired(r)
  PROVE  RunMoves(r)
<1> USE DEF Before, After, Loose, Labels, Awaits, Sync, Ended
<1>0. /\ run[r] \in Local /\ run \in [Runs -> Local] /\ Evidence = {"none", "pass", "fail"}
      /\ {"none", "REPAIRED", "ATTEMPT_FAILED", "LIMIT_EXCEEDED"} \subseteq RepairOutcome
      /\ {run[r].evidence, run[r].claim, run[r].targeted} \subseteq Evidence
      /\ {"ANALYZING", "TESTING", "RETESTING"} \subseteq JobState \ {"READY_FOR_DELIVERY"}
  BY DEF LInv, LoopTypeOK, Local, RepairOutcome, Evidence, JobState, Working
<1>1. CASE ToTesting(r)
  <2>1. Gate(r, "TESTING", "test") \/ Gate(r, "TESTING", "recordTest")
    BY <1>1 DEF ToTesting
  <2>2. /\ JobMoved(run[r].of)
        /\ (Goto(r, "catch") \/ Goto(r, "returned") \/ Goto(r, "test") \/ Goto(r, "recordTest"))
    BY <1>0, <2>1, GateMoves
  <2>3. PICK x \in {run[r], [run[r] EXCEPT !.unseen = {}],
                    [run[r] EXCEPT !.evidence = run[r].claim], [run[r] EXCEPT !.evidence = "pass"]} :
          run' = [run EXCEPT ![r] = x]
    BY <1>0, <1>1 DEF ToTesting
  <2>4. x \in Local /\ x.of = run[r].of /\ x.ops = run[r].ops
    <3>1. {} \in SUBSET Jobs /\ {run[r].claim, "pass"} \subseteq Evidence /\ run[r] \in Local
      BY <1>0
    <3>2. LET y == [run[r] EXCEPT !.unseen = {}]
          IN  y \in Local /\ y.of = run[r].of /\ y.ops = run[r].ops
      BY <3>1, LocalTyped
    <3>3. LET y == [run[r] EXCEPT !.evidence = run[r].claim]
          IN  y \in Local /\ y.of = run[r].of /\ y.ops = run[r].ops
      BY <3>1, LocalTyped
    <3>4. LET y == [run[r] EXCEPT !.evidence = "pass"]
          IN  y \in Local /\ y.of = run[r].of /\ y.ops = run[r].ops
      BY <3>1, LocalTyped
    <3> QED  BY <2>3, <3>1, <3>2, <3>3, <3>4
  <2> QED  BY <1>1, <2>2, <2>3, <2>4, NotedMoves, WorldTyped DEF ToTesting, At, KeepWorld
<1>2. CASE Tested(r)
  <2>1. JobMoved(run[r].of)
    BY <1>2, StaysMoves DEF Tested
  <2>2. CASE KeepRun /\ Goto(r, "catch")
    BY <1>2, <2>1, <2>2, PlainMoves, WorldTyped DEF Tested, Settles, KeepWorld
  <2>3. CASE \E result \in {"pass", "fail"} :
               run' = [run EXCEPT ![r].evidence = result] /\ Goto(r, "recordTest")
    <3>1. PICK result \in {"pass", "fail"} :
            run' = [run EXCEPT ![r].evidence = result] /\ Goto(r, "recordTest")
      BY <2>3
    <3> DEFINE x == [run[r] EXCEPT !.evidence = result]
    <3>2. x \in Local /\ x.of = run[r].of /\ x.ops = run[r].ops
      BY <1>0, LocalTyped
    <3>3. run' = [run EXCEPT ![r] = x]
      BY <1>0, <3>1
    <3> HIDE DEF x
    <3> QED  BY <1>2, <2>1, <3>1, <3>2, <3>3, NotedMoves, WorldTyped DEF Tested, Settles, KeepWorld
  <2> QED  BY <1>2, <2>2, <2>3 DEF Tested
<1>3. CASE RecordTest(r)
  <2>1. CountCommand(J(r)) \in Counted(J(r))
    BY DEF Counted
  <2>2. /\ JobMoved(run[r].of)
        /\ (Goto(r, "catch") \/ Goto(r, "toReviewing") \/ Goto(r, "loop"))
    <3>1. \/ Record(r, CountCommand(J(r)), "toReviewing")
          \/ Record(r, CountCommand(J(r)), "loop")
      BY <1>3 DEF RecordTest
    <3> QED  BY <2>1, <3>1, RecordMoves
  <2> DEFINE x == [run[r] EXCEPT !.lastFailure = run[r].evidence]
  <2>3. x \in Local /\ x.of = run[r].of /\ x.ops = run[r].ops
    BY <1>0, LocalTyped
  <2>4. run' = [run EXCEPT ![r] = x]
    BY <1>0, <1>3 DEF RecordTest
  <2> HIDE DEF x
  <2> QED  BY <1>3, <2>2, <2>3, <2>4, NotedMoves, WorldTyped DEF RecordTest, At, KeepWorld
<1>4. CASE Attempt(r)
  <2>1. CountFixAttempt(J(r)) \in Counted(J(r))
    BY DEF Counted
  <2>2. /\ JobMoved(run[r].of)
        /\ (Goto(r, "catch") \/ Goto(r, "repaired") \/ Goto(r, "rediagnose"))
    <3>1. \/ Record(r, CountFixAttempt(J(r)), "repaired")
          \/ Record(r, CountFixAttempt(J(r)), "rediagnose")
      BY <1>4 DEF Attempt
    <3> QED  BY <2>1, <3>1, RecordMoves
  <2>3. PICK outcome \in {"LIMIT_EXCEEDED", "none"} :
          run' = [run EXCEPT ![r].outcome = outcome, ![r].targeted = "none"]
    BY <1>4 DEF Attempt
  <2> DEFINE x == [run[r] EXCEPT !.outcome = outcome, !.targeted = "none"]
  <2>4. x \in Local /\ x.of = run[r].of /\ x.ops = run[r].ops
    <3>1. outcome \in RepairOutcome /\ "none" \in Evidence /\ run[r] \in Local
      BY <1>0, <2>3
    <3> QED  BY <3>1 DEF Local
  <2>5. run' = [run EXCEPT ![r] = x]
    BY <1>0, <2>3
  <2>6. attemptCount' \in 0..MaxRepairs /\ invoked' \in [Jobs -> Nat]
    <3>1. attemptCount \in 0..MaxRepairs /\ MaxRepairs \in Nat
      BY WorldTyped
    <3>2. attemptCount' = attemptCount \/ (attemptCount < MaxRepairs /\ attemptCount' = attemptCount + 1)
      BY <1>4, <3>1 DEF Attempt
    <3>3. invoked' \in [Jobs -> Nat]
      BY <1>4, InvokesTyped, WorldTyped DEF Attempt
    <3> QED  BY <3>1, <3>2, <3>3
  <2>7. UNCHANGED written /\ tasks' \subseteq Tasks
    BY <1>4, WorldTyped DEF Attempt
  <2> HIDE DEF x
  <2> QED  BY <1>4, <2>2, <2>4, <2>5, <2>6, <2>7, NotedMoves DEF Attempt, At
<1>5. CASE Rediagnosed(r)
  <2>1. JobMoved(run[r].of) /\ Goto(r, "fixcall")
    BY <1>5, StaysMoves DEF Rediagnosed
  <2> DEFINE task == FixTask(run[r].of, attemptCount)
             x == [run[r] EXCEPT !.task = task]
  <2>2. task \in Tasks
    BY Here, WorldTyped DEF FixTask, Tasks
  <2>3. x \in Local /\ x.of = run[r].of /\ x.ops = run[r].ops
    BY <1>0, <2>2, LocalTyped
  <2>4. run' = [run EXCEPT ![r] = x]
    BY <1>0, <1>5 DEF Rediagnosed
  <2>5. invoked' \in [Jobs -> Nat]
    BY <1>5, InvokesTyped DEF Rediagnosed
  <2> HIDE DEF x
  <2> QED  BY <1>5, <2>1, <2>3, <2>4, <2>5, NotedMoves, WorldTyped DEF Rediagnosed, Settles
<1>p. ASSUME TargetedPasses(r), pc[r] \in {"targeted", "assumeTargeted"}, thread \in {r, Idle},
             UNCHANGED <<attemptCount, tasks, written, invoked>>
      PROVE  RunMoves(r)
  <2>1. CountCommand(J(r)) \in Counted(J(r))
    BY DEF Counted
  <2>2. /\ JobMoved(run[r].of)
        /\ Goto(r, "catch") \/ Goto(r, "regression") \/ Goto(r, "assumeRegression")
    <3>1. \/ Record(r, CountCommand(J(r)), "regression")
          \/ Record(r, CountCommand(J(r)), "assumeRegression")
      BY <1>p DEF TargetedPasses
    <3> QED  BY <2>1, <3>1, RecordMoves
  <2>3. PICK x \in {[run[r] EXCEPT !.targeted = "pass", !.unseen = {}],
                    [run[r] EXCEPT !.targeted = "pass"]} :
          run' = [run EXCEPT ![r] = x]
    BY <1>0, <1>p DEF TargetedPasses
  <2>4. x \in Local /\ x.of = run[r].of /\ x.ops = run[r].ops
    <3>1. run[r] \in Local /\ "pass" \in Evidence /\ "REPAIRED" \in RepairOutcome
      BY <1>0 DEF Evidence, RepairOutcome
    <3>2. CASE x = [run[r] EXCEPT !.targeted = "pass", !.unseen = {}]
      BY <3>1, <3>2, LocalsTyped
    <3>3. CASE x = [run[r] EXCEPT !.targeted = "pass"]
      BY <3>1, <3>3, LocalsTyped
    <3> QED  BY <2>3, <3>2, <3>3
  <2>5. PICK l \in {"catch", "regression", "assumeRegression"} : Goto(r, l)
    BY <2>2
  <2>6. l \in Loose /\ l \notin Before /\ pc[r] # "recordFiles"
    BY <1>p, <2>5 DEF Loose, Before, Settles
  <2>7. l \in After => pc[r] \in After
    BY <1>p, <2>5 DEF After
  <2>8. /\ attemptCount' \in 0..MaxRepairs /\ tasks' \subseteq Tasks
        /\ invoked' \in [Jobs -> Nat] /\ UNCHANGED written
    BY <1>p, WorldTyped
  <2>9. run' = [run EXCEPT ![r] = x]
    BY <2>3
  <2> QED  BY <1>p, <2>2, <2>4, <2>5, <2>6, <2>7, <2>8, <2>9, NotedMoves
<1>6. CASE TargetedReturns(r)
  <2>1. CountCommand(J(r)) \in Counted(J(r))
    BY DEF Counted
  <2>2. CASE UNCHANGED job /\ Goto(r, "catch") /\ KeepRun
    BY <1>6, <2>2, StaysMoves, PlainMoves, WorldTyped DEF TargetedReturns, Settles, KeepWorld
  <2>3. CASE /\ Record(r, CountCommand(J(r)), "repaired")
             /\ run' = [run EXCEPT ![r].outcome = "ATTEMPT_FAILED", ![r].targeted = "fail"]
    <3>1. JobMoved(run[r].of) /\ (Goto(r, "catch") \/ Goto(r, "repaired"))
      BY <2>1, <2>3, RecordMoves
    <3> DEFINE x == [run[r] EXCEPT !.outcome = "ATTEMPT_FAILED", !.targeted = "fail"]
    <3>2. x \in Local /\ x.of = run[r].of /\ x.ops = run[r].ops
      BY <1>0, LocalsTyped
    <3>3. run' = [run EXCEPT ![r] = x]
      BY <1>0, <2>3
    <3> HIDE DEF x
    <3> QED  BY <1>6, <3>1, <3>2, <3>3, NotedMoves, WorldTyped DEF TargetedReturns, Settles, KeepWorld
  <2>4. CASE TargetedPasses(r)
    BY <1>6, <1>p, <2>4 DEF TargetedReturns, Settles, KeepWorld
  <2> QED  BY <1>6, <2>2, <2>3, <2>4 DEF TargetedReturns
<1>9. CASE TargetedAssumed(r)
  BY <1>9, <1>p DEF TargetedAssumed, At, KeepWorld
<1>10. CASE RegressionAssumed(r)
  <2>1. CountCommand(J(r)) \in Counted(J(r))
    BY DEF Counted
  <2>2. JobMoved(run[r].of) /\ (Goto(r, "catch") \/ Goto(r, "repaired"))
    BY <1>10, <2>1, RecordMoves DEF RegressionAssumed
  <2> DEFINE x == [run[r] EXCEPT !.outcome = "REPAIRED"]
  <2>3. x \in Local /\ x.of = run[r].of /\ x.ops = run[r].ops
    <3>1. "REPAIRED" \in RepairOutcome /\ run[r] \in Local
      BY <1>0
    <3> QED  BY <3>1, LocalTyped
  <2>4. run' = [run EXCEPT ![r] = x]
    BY <1>0, <1>10 DEF RegressionAssumed
  <2> HIDE DEF x
  <2> QED  BY <1>10, <2>2, <2>3, <2>4, NotedMoves, WorldTyped DEF RegressionAssumed, At, KeepWorld
<1>7. CASE RegressionReturns(r)
  <2>1. CountCommand(J(r)) \in Counted(J(r))
    BY DEF Counted
  <2>2. CASE UNCHANGED job /\ Goto(r, "catch") /\ KeepRun
    BY <1>7, <2>2, StaysMoves, PlainMoves, WorldTyped DEF RegressionReturns, Settles, KeepWorld
  <2>3. CASE \E outcome \in {"REPAIRED", "ATTEMPT_FAILED"} :
               /\ Record(r, CountCommand(J(r)), "repaired")
               /\ run' = [run EXCEPT ![r].outcome = outcome]
    <3>1. PICK outcome \in {"REPAIRED", "ATTEMPT_FAILED"} :
               /\ Record(r, CountCommand(J(r)), "repaired")
               /\ run' = [run EXCEPT ![r].outcome = outcome]
      BY <2>3
    <3>2. JobMoved(run[r].of) /\ (Goto(r, "catch") \/ Goto(r, "repaired"))
      BY <2>1, <3>1, RecordMoves
    <3> DEFINE x == [run[r] EXCEPT !.outcome = outcome]
    <3>3. x \in Local /\ x.of = run[r].of /\ x.ops = run[r].ops
      <4>1. outcome \in RepairOutcome /\ run[r] \in Local
        BY <1>0, <3>1
      <4> QED  BY <4>1, LocalTyped
    <3>4. run' = [run EXCEPT ![r] = x]
      BY <1>0, <3>1
    <3> HIDE DEF x
    <3> QED  BY <1>7, <3>2, <3>3, <3>4, NotedMoves, WorldTyped DEF RegressionReturns, Settles, KeepWorld
  <2> QED  BY <1>7, <2>2, <2>3 DEF RegressionReturns
<1>8. CASE Repaired(r)
  <2>1. CASE run[r].outcome \in {"LIMIT_EXCEEDED", "SECURITY_BLOCKED"}
    <3>1. UNCHANGED job /\ KeepRun /\ (Goto(r, "giveUp") \/ Goto(r, "catch"))
      BY <1>8, <2>1 DEF Repaired
    <3> QED  BY <1>8, <3>1, StaysMoves, PlainMoves, WorldTyped DEF Repaired, Settles, KeepWorld
  <2>2. CASE run[r].outcome = "REPAIRED"
    <3>1. Move(r, "RETESTING", "toReviewing") /\ run' = [run EXCEPT ![r].evidence = "pass"]
      BY <1>8, <2>2 DEF Repaired
    <3>2. JobMoved(run[r].of) /\ (Goto(r, "catch") \/ Goto(r, "toReviewing"))
      BY <1>0, <3>1, MoveMoves
    <3> DEFINE x == [run[r] EXCEPT !.evidence = "pass"]
    <3>3. x \in Local /\ x.of = run[r].of /\ x.ops = run[r].ops
      BY <1>0, LocalTyped
    <3>4. run' = [run EXCEPT ![r] = x]
      BY <1>0, <3>1
    <3> HIDE DEF x
    <3> QED  BY <1>8, <3>2, <3>3, <3>4, NotedMoves, WorldTyped DEF Repaired, Settles, KeepWorld
  <2>3. CASE run[r].outcome \notin {"LIMIT_EXCEEDED", "SECURITY_BLOCKED", "REPAIRED"}
    <3>1. /\ UNCHANGED job /\ Goto(r, "loop")
          /\ \E v \in {run[r].targeted, run[r].lastFailure} :
               run' = [run EXCEPT ![r].lastFailure = v]
      BY <1>8, <2>3 DEF Repaired
    <3>2. PICK v \in {run[r].targeted, run[r].lastFailure} :
            run' = [run EXCEPT ![r].lastFailure = v]
      BY <3>1
    <3> DEFINE x == [run[r] EXCEPT !.lastFailure = v]
    <3>3. v \in Evidence
      BY <1>0, <3>2 DEF Local
    <3>4. x \in Local /\ x.of = run[r].of /\ x.ops = run[r].ops
      BY <1>0, <3>3, LocalTyped
    <3>5. run' = [run EXCEPT ![r] = x]
      BY <1>0, <3>2
    <3>6. JobMoved(run[r].of)
      BY <3>1, StaysMoves
    <3> HIDE DEF x
    <3> QED  BY <1>8, <3>1, <3>4, <3>5, <3>6, NotedMoves, WorldTyped DEF Repaired, Settles, KeepWorld
  <2> QED  BY <2>1, <2>2, <2>3
<1> QED  BY <1>1, <1>2, <1>3, <1>4, <1>5, <1>6, <1>7, <1>8, <1>9, <1>10

-----------------------------------------------------------------------------
(* The steps that write and list files *)

\* One file is listed after the other; the last of them leaves a list that is not empty.
LEMMA RecordFilesKeeps ==
  ASSUME LInv, NEW r \in Runs, RecordFiles(r)
  PROVE  RunMoves(r)
<1> USE DEF Before, After, Labels, Awaits, Sync, Ended
<1>1. /\ thread = r /\ pc[r] = "recordFiles" /\ KeepWorld
      /\ J(r).status # "READY_FOR_DELIVERY" /\ (run[r].ops # <<>> \/ J(r).files # <<>>)
  BY Here DEF RecordFiles, At, Placed
<1>2. run \in [Runs -> Local] /\ pc \in [Runs -> Labels] /\ run[r].ops \in Seq(Files)
  BY Here DEF LInv, LoopTypeOK
<1>3. /\ attemptCount' \in 0..MaxRepairs /\ tasks' \subseteq Tasks
      /\ written' = written /\ written' \in [Jobs -> SUBSET Files] /\ invoked' \in [Jobs -> Nat]
  BY <1>1, WorldTyped DEF KeepWorld
<1>4. CASE run[r].ops = <<>>
  <2>1. UNCHANGED <<job, run>> /\ Goto(r, "toTesting")
    BY <1>4 DEF RecordFiles
  <2>2. JobMoved(run[r].of)
    BY <2>1, StaysMoves
  <2>3. Placed("toTesting", run[r], J(r)) /\ pc'[r] = "toTesting"
    BY <1>1, <1>2, <1>4, <2>1 DEF Placed, Goto
  <2>4. \A i \in Jobs : Pending(r, i) = {}
    BY <1>4 DEF Pending
  <2>5. run' \in [Runs -> Local] /\ job'[run'[r].of] = J(r) /\ run' = run
    BY <1>2, <2>1 DEF J
  <2> QED  BY <1>1, <1>3, <2>1, <2>2, <2>3, <2>4, <2>5 DEF RunMoves
<1>5. CASE run[r].ops # <<>>
  <2> DEFINE f == Head(run[r].ops)
             x == [run[r] EXCEPT !.ops = Tail(run[r].ops)]
             k == CheckBounds(CountFile(J(r), f))
  <2>1. f \in Files /\ Tail(run[r].ops) \in Seq(Files)
    BY <1>2, <1>5
  <2>2. CountFile(J(r), f) \in Counted(J(r))
    BY <2>1 DEF Counted
  <2>3. Record(r, CountFile(J(r), f), "recordFiles")
    BY <1>5 DEF RecordFiles
  <2>4. JobMoved(run[r].of) /\ job'[run[r].of] = k /\ (Goto(r, "catch") \/ Goto(r, "recordFiles"))
    BY <2>2, <2>3, RecordMoves
  <2>5. x \in Local /\ x.of = run[r].of
    BY <2>1, Here, LocalTyped
  <2>6. run' = [run EXCEPT ![r] = x]
    BY <1>2, <1>5 DEF RecordFiles
  <2>7. run' \in [Runs -> Local] /\ run'[r] = x /\ \A q \in Runs \ {r} : run'[q] = run[q]
    BY <1>2, <2>5, <2>6
  <2>8. f \in Listed(k) /\ k.files # <<>>
    BY <2>1, Here, FileListed
  <2>9. k.status # "READY_FOR_DELIVERY"
    <3>1. CountFile(J(r), f) \in JobRecord /\ CountFile(J(r), f).status = J(r).status
      BY <2>2, Here, CountedKeeps
    <3> QED  BY <1>1, <3>1, CheckKeeps
  <2> HIDE DEF k
  <2>10. pc'[r] \in {"catch", "recordFiles"} /\ \E l \in Labels : Goto(r, l)
    BY <1>2, <2>4 DEF Goto
  <2>11. Placed(pc'[r], x, k)
    BY <2>8, <2>9, <2>10 DEF Placed
  <2>12. \A i \in Jobs : \A g \in Pending(r, i) : i = run[r].of /\ g = f
    BY DEF Pending
  <2> HIDE DEF x, f
  <2>13. \A i \in Jobs : \A g \in (written'[i] \ written[i]) \cup Pending(r, i) :
           g \in Listed(job'[i]) \/ g \in Pending(r, i)'
    BY <1>3, <2>4, <2>8, <2>12
  <2>14. \A q \in Runs \ {r} : run'[q].of = run[q].of /\ run'[q].ops = run[q].ops
    BY <2>7
  <2>15. JobMoved(run'[r].of) /\ Placed(pc'[r], run'[r], job'[run'[r].of])
    BY <2>4, <2>5, <2>7, <2>11
  <2> QED  BY <1>1, <1>3, <2>7, <2>10, <2>13, <2>14, <2>15 DEF RunMoves
<1> QED  BY <1>4, <1>5

\* The bridge writes the first file of the proposal, which is not listed yet.
LEMMA GovernKeeps ==
  ASSUME LInv, NEW r \in Runs, Govern(r)
  PROVE  RunMoves(r)
<1> USE DEF Before, After, Loose, Labels, Awaits, Sync, Ended
<1>0. /\ run \in [Runs -> Local] /\ pc \in [Runs -> Labels] /\ run[r].ops # <<>>
      /\ {"POLICY_DENIED", "FAILED"} \subseteq JobState \ {"READY_FOR_DELIVERY"}
      /\ J(r).status = "EXECUTING" /\ pc[r] = "govern" /\ thread = r
      /\ run[r].task \in Tasks
      /\ attemptCount' \in 0..MaxRepairs /\ invoked' \in [Jobs -> Nat]
  BY Here, WorldTyped DEF LInv, LoopTypeOK, Govern, At, Placed, JobState, Terminal, Local
<1>1. CASE /\ Move(r, "POLICY_DENIED", "returned")
           /\ KeepRun /\ UNCHANGED <<tasks, written>>
  <2>1. JobMoved(run[r].of) /\ (Goto(r, "catch") \/ Goto(r, "returned"))
    BY <1>0, <1>1, MoveMoves
  <2> QED  BY <1>0, <1>1, <2>1, PlainMoves, WorldTyped DEF Govern
<1>2. CASE /\ UNCHANGED job /\ Goto(r, "catch")
           /\ KeepRun /\ UNCHANGED <<tasks, written>>
  BY <1>0, <1>2, StaysMoves, PlainMoves, WorldTyped DEF Govern
<1>3. CASE BridgeFails(run[r].task) /\ Move(r, "FAILED", "returned")
  <2>1. JobMoved(run[r].of) /\ (Goto(r, "catch") \/ Goto(r, "returned"))
    BY <1>0, <1>3, MoveMoves
  <2>2. run' = [run EXCEPT ![r] = run[r]] /\ run[r] \in Local
    BY <1>0, <1>3 DEF BridgeFails
  <2>3. tasks' \subseteq Tasks /\ UNCHANGED written
    BY <1>0, <1>3, WorldTyped DEF BridgeFails
  <2> QED  BY <1>0, <2>1, <2>2, <2>3, NotedMoves
<1>4. CASE /\ BridgeWrites(r, run[r].task, Head(run[r].ops))
           /\ UNCHANGED job /\ Goto(r, "recordFiles")
  <2> DEFINE f == Head(run[r].ops)
  <2>1. f \in Files
    BY <1>0, Here
  <2>2. /\ tasks' \subseteq Tasks
        /\ written' = [written EXCEPT ![run[r].of] = @ \cup {f}]
        /\ run' = [q \in Runs |-> [run[q] EXCEPT !.unseen = run[q].unseen \cup {run[r].of}]]
    BY <1>0, <1>4, WorldTyped DEF BridgeWrites
  <2>3. ASSUME NEW q \in Runs
        PROVE  run'[q] \in Local /\ run'[q].of = run[q].of /\ run'[q].ops = run[q].ops
    <3>1. run[q] \in Local /\ run[q].unseen \cup {run[r].of} \in SUBSET Jobs
      BY <1>0, Here DEF Local
    <3>2. run'[q] = [run[q] EXCEPT !.unseen = run[q].unseen \cup {run[r].of}]
      BY <2>2
    <3> QED  BY <3>1, <3>2 DEF Local
  <2>4. run' \in [Runs -> Local]
    BY <2>2, <2>3
  <2>5. written' \in [Jobs -> SUBSET Files]
        /\ \A i \in Jobs : \A g \in written'[i] \ written[i] : i = run[r].of /\ g = f
    <3>1. written \in [Jobs -> SUBSET Files]
      BY WorldTyped
    <3> HIDE DEF f
    <3> QED  BY <2>1, <2>2, <3>1
  <2>6. pc'[r] = "recordFiles"
    BY <1>0, <1>4 DEF Goto
  <2>7. \A i \in Jobs : i = run[r].of => f \in Pending(r, i)'
    BY <1>0, <2>3, <2>6 DEF Pending
  <2>8. \A i \in Jobs : Pending(r, i) = {}
    BY <1>0 DEF Pending
  <2>9. JobMoved(run[r].of) /\ job'[run[r].of] = J(r)
    BY <1>4, StaysMoves DEF J
  <2>10. JobMoved(run'[r].of) /\ Placed(pc'[r], run'[r], job'[run'[r].of])
    BY <1>0, <2>3, <2>6, <2>9 DEF Placed
  <2>11. thread \in {r, Idle} /\ \E l \in Labels : Goto(r, l)
    BY <1>0, <1>4
  <2>12. \A i \in Jobs : \A g \in (written'[i] \ written[i]) \cup Pending(r, i) :
           g \in Listed(job'[i]) \/ g \in Pending(r, i)'
    <3> HIDE DEF f
    <3> QED  BY <2>5, <2>7, <2>8
  <2> QED  BY <1>0, <2>2, <2>3, <2>4, <2>5, <2>10, <2>11, <2>12 DEF RunMoves
<1> QED  BY <1>1, <1>2, <1>3, <1>4 DEF Govern

\* A repair writes a file that is on the list already.
LEMMA FixProposeKeeps ==
  ASSUME LInv, NEW r \in Runs, FixPropose(r)
  PROVE  RunMoves(r)
<1> USE DEF Before, After, Loose, Labels, Awaits, Sync, Ended
<1>0. /\ run \in [Runs -> Local] /\ pc \in [Runs -> Labels] /\ J(r).files # <<>>
      /\ J(r).files \in Seq(Files)
      /\ pc[r] = "fixpropose" /\ thread = r /\ run[r].task \in Tasks
      /\ attemptCount' \in 0..MaxRepairs /\ invoked' \in [Jobs -> Nat]
      /\ UNCHANGED job
  BY Here, WorldTyped DEF LInv, LoopTypeOK, FixPropose, At, Placed, JobRecord, Local
<1>1. JobMoved(run[r].of)
  BY <1>0, StaysMoves
<1>2. CASE \E outcome \in {"SECURITY_BLOCKED", "ADMISSION_DENIED", "ATTEMPT_FAILED"} :
             RepairEnds(r, outcome, "none") /\ tasks' \subseteq Tasks /\ UNCHANGED written
  <2>1. PICK outcome \in {"SECURITY_BLOCKED", "ADMISSION_DENIED", "ATTEMPT_FAILED"} :
          RepairEnds(r, outcome, "none") /\ tasks' \subseteq Tasks /\ UNCHANGED written
    BY <1>2
  <2> DEFINE x == [run[r] EXCEPT !.outcome = outcome, !.targeted = "none"]
  <2>2. x \in Local /\ x.of = run[r].of /\ x.ops = run[r].ops
    <3>1. outcome \in RepairOutcome /\ "none" \in Evidence /\ run[r] \in Local
      BY <1>0, <2>1 DEF RepairOutcome, Evidence
    <3> QED  BY <3>1 DEF Local
  <2>3. run' = [run EXCEPT ![r] = x] /\ Goto(r, "repaired")
    BY <1>0, <2>1 DEF RepairEnds
  <2> HIDE DEF x
  <2> QED  BY <1>0, <1>1, <2>1, <2>2, <2>3, NotedMoves
<1>3. CASE Goto(r, "catch") /\ KeepRun /\ UNCHANGED <<tasks, written>>
  BY <1>0, <1>1, <1>3, PlainMoves, WorldTyped DEF FixPropose
<1>4. CASE BridgeWrites(r, run[r].task, Head(J(r).files)) /\ Goto(r, "fixfiles")
  <2> DEFINE f == Head(J(r).files)
  <2>1. f \in Files /\ f \in Listed(J(r))
    <3>1. f = J(r).files[1] /\ 1 \in DOMAIN J(r).files
      BY <1>0
    <3> QED  BY <1>0, <3>1 DEF Listed
  <2>2. /\ tasks' \subseteq Tasks
        /\ written' = [written EXCEPT ![run[r].of] = @ \cup {f}]
        /\ run' = [q \in Runs |-> [run[q] EXCEPT !.unseen = run[q].unseen \cup {run[r].of}]]
    BY <1>0, <1>4, WorldTyped DEF BridgeWrites
  <2>3. ASSUME NEW q \in Runs
        PROVE  run'[q] \in Local /\ run'[q].of = run[q].of /\ run'[q].ops = run[q].ops
    <3>1. run[q] \in Local /\ run[q].unseen \cup {run[r].of} \in SUBSET Jobs
      BY <1>0, Here DEF Local
    <3>2. run'[q] = [run[q] EXCEPT !.unseen = run[q].unseen \cup {run[r].of}]
      BY <2>2
    <3> QED  BY <3>1, <3>2 DEF Local
  <2>4. run' \in [Runs -> Local]
    BY <2>2, <2>3
  <2>5. written' \in [Jobs -> SUBSET Files]
        /\ \A i \in Jobs : \A g \in written'[i] \ written[i] : i = run[r].of /\ g = f
    <3>1. written \in [Jobs -> SUBSET Files]
      BY WorldTyped
    <3> HIDE DEF f
    <3> QED  BY <2>1, <2>2, <3>1
  <2>6. pc'[r] = "fixfiles"
    BY <1>0, <1>4 DEF Goto
  <2>7. job'[run[r].of] = J(r)
    BY <1>0 DEF J
  <2>8. \A i \in Jobs : Pending(r, i) = {}
    BY <1>0 DEF Pending
  <2>9. JobMoved(run'[r].of) /\ Placed(pc'[r], run'[r], job'[run'[r].of])
    BY <1>0, <1>1, <2>3, <2>6, <2>7 DEF Placed
  <2>10. thread \in {r, Idle} /\ \E l \in Labels : Goto(r, l)
    BY <1>0, <1>4
  <2>11. \A i \in Jobs : \A g \in (written'[i] \ written[i]) \cup Pending(r, i) :
           g \in Listed(job'[i]) \/ g \in Pending(r, i)'
    <3> HIDE DEF f
    <3> QED  BY <2>1, <2>5, <2>7, <2>8
  <2> QED  BY <1>0, <2>2, <2>3, <2>4, <2>5, <2>9, <2>10, <2>11 DEF RunMoves
<1>5. \/ \E outcome \in {"SECURITY_BLOCKED", "ADMISSION_DENIED", "ATTEMPT_FAILED"} :
           RepairEnds(r, outcome, "none") /\ tasks' \subseteq Tasks /\ UNCHANGED written
      \/ Goto(r, "catch") /\ KeepRun /\ UNCHANGED <<tasks, written>>
      \/ BridgeWrites(r, run[r].task, Head(J(r).files)) /\ Goto(r, "fixfiles")
  BY <1>0, WorldTyped DEF FixPropose
<1> QED  BY <1>2, <1>3, <1>4, <1>5

-----------------------------------------------------------------------------
(* Submissions, operators and the clock *)

\* A submission starts a run with a proposal that is not empty.
LEMMA ExecuteKeeps ==
  ASSUME LInv, NEW r \in Runs, NEW i \in Jobs, Execute(r, i)
  PROVE  RunMoves(r)
<1> USE DEF Before, After, Labels, Awaits, Sync, Ended
<1>0. /\ run \in [Runs -> Local] /\ pc \in [Runs -> Labels] /\ TypeOK
      /\ thread = Idle /\ pc[r] = "idle" /\ KeepWorld
  BY DEF LInv, LoopTypeOK, Execute
<1>1. Fresh(i) \in Local /\ Fresh(i).of = i /\ Fresh(i).ops # <<>>
  <2>1. MainTask(i) \in Tasks
    BY DEF MainTask, Tasks
  <2>2. <<GenFile>> \in Seq(Files) /\ <<GenFile>> # <<>>
    BY DEF LoopAssumption
  <2> QED  BY <2>1, <2>2 DEF Fresh, Local, Evidence, RepairOutcome
<1>2. PICK y \in Local : y.of = i /\ y.ops # <<>> /\ run' = [run EXCEPT ![r] = y]
  <2>1. CASE run' = [run EXCEPT ![r] = Fresh(i)]
    BY <1>1, <2>1
  <2>2. CASE \E claim \in Claims : run' = [run EXCEPT ![r] = [Fresh(i) EXCEPT !.claim = claim]]
    <3>1. PICK claim \in Claims : run' = [run EXCEPT ![r] = [Fresh(i) EXCEPT !.claim = claim]]
      BY <2>2
    <3> DEFINE y == [Fresh(i) EXCEPT !.claim = claim]
    <3>2. claim \in Evidence
      BY <3>1 DEF Evidence, LoopAssumption
    <3>3. y \in Local /\ y.of = i /\ y.ops # <<>>
      BY <1>1, <3>2 DEF Local
    <3> HIDE DEF y
    <3> QED  BY <3>1, <3>3 DEF y
  <2>3. CASE \E ops \in Customs, task \in CustomTasks \cup {MainTask(i)},
                claim \in Claims \cup {"none"} :
          run' = [run EXCEPT ![r] = [Fresh(i) EXCEPT !.custom = TRUE, !.ops = ops,
                                                     !.task = task, !.claim = claim]]
    <3>1. PICK ops \in Customs, task \in CustomTasks \cup {MainTask(i)},
                claim \in Claims \cup {"none"} :
          run' = [run EXCEPT ![r] = [Fresh(i) EXCEPT !.custom = TRUE, !.ops = ops,
                                                     !.task = task, !.claim = claim]]
      BY <2>3
    <3> DEFINE y == [Fresh(i) EXCEPT !.custom = TRUE, !.ops = ops, !.task = task, !.claim = claim]
    <3>2. ops \in Seq(Files) /\ ops # <<>> /\ task \in Tasks /\ claim \in Evidence
      BY DEF LoopAssumption, Tasks, MainTask, Evidence
    <3>3. y \in Local /\ y.of = i /\ y.ops # <<>>
      BY <1>1, <3>2 DEF Local
    <3> HIDE DEF y
    <3> QED  BY <3>1, <3>3 DEF y
  <2> QED  BY <2>1, <2>2, <2>3 DEF Execute
<1>3. /\ JobMoved(i)
      /\ \E l \in {"returned", "rejected", "iterate"} : Goto(r, l)
  <2>1. CASE UNCHANGED job /\ Goto(r, "returned")
    <3>1. Set(i, job[i])
      BY <1>0, <2>1 DEF Set, TypeOK
    <3> QED  BY <2>1, <3>1 DEF JobMoved, Legal
  <2>2. CASE /\ Set(i, CheckBounds(job[i]))
             /\ Goto(r, IF BoundsThrow(job[i]) THEN "rejected"
                        ELSE IF InBounds(job[i]) THEN "iterate" ELSE "returned")
    <3>1. JobMoved(i)
      BY <2>2 DEF JobMoved, Legal
    <3>2. \E l \in {"returned", "rejected", "iterate"} : Goto(r, l)
      BY <2>2
    <3> QED  BY <3>1, <3>2
  <2> QED  BY <2>1, <2>2 DEF Execute
<1>4. PICK l \in {"returned", "rejected", "iterate"} : Goto(r, l)
  BY <1>3
<1>5. pc'[r] = l /\ l \in Labels
  BY <1>0, <1>4 DEF Goto
<1>6. run' \in [Runs -> Local] /\ run'[r] = y /\ \A q \in Runs \ {r} : run'[q] = run[q]
  BY <1>0, <1>2
<1>7. Placed(pc'[r], run'[r], job'[run'[r].of])
  BY <1>2, <1>5, <1>6 DEF Placed
<1>8. /\ attemptCount' \in 0..MaxRepairs /\ tasks' \subseteq Tasks
      /\ written' = written /\ written' \in [Jobs -> SUBSET Files] /\ invoked' \in [Jobs -> Nat]
  BY <1>0, WorldTyped DEF KeepWorld
<1>9. \A j \in Jobs : (written'[j] \ written[j]) \cup Pending(r, j) = {}
  BY <1>0, <1>8 DEF Pending
<1> QED  BY <1>0, <1>2, <1>3, <1>4, <1>5, <1>6, <1>7, <1>8, <1>9 DEF RunMoves

\* What happens to a job when no run is looking, and the clock at any time.
LEMMA OutsideKeeps ==
  ASSUME LInv, NEW i \in Jobs, NEW k, Legal(job[i], k), Set(i, k),
         \/ thread = Idle
         \/ k = [job[i] EXCEPT !.overTime = TRUE],
         UNCHANGED <<thread, pc, run, attemptCount, tasks, written, invoked>>
  PROVE  LInv' /\ [Next]_vars
<1>1. Sound(job[i]) /\ job \in [Jobs -> JobRecord] /\ TypeOK /\ job[i] \in JobRecord
  BY DEF LInv, AllSound, TypeOK
<1>2. [Next]_vars
  BY <1>1, MovesAreSteps DEF JobMoved
<1>3. AllSound'
  BY <1>2, SoundNext DEF LInv
<1>4. \A j \in Jobs : job'[j] = IF j = i THEN k ELSE job[j]
  BY <1>1 DEF Set
<1>5. \A j \in Jobs : /\ Listed(job[j]) \subseteq Listed(job'[j])
                      /\ job[j].files # <<>> => job'[j].files # <<>>
  BY <1>1, <1>4, FilesGrow
<1>6. LoopTypeOK'
  <2>1. TypeOK'
    BY <1>3 DEF AllSound, TypeOK
  <2> QED  BY <2>1 DEF LInv, LoopTypeOK
<1>7. Threaded'
  BY DEF LInv, Threaded
<1>8. AllPlaced'
  <2> SUFFICES ASSUME NEW q \in Runs
               PROVE  Placed(pc[q], run[q], job'[run[q].of])
    BY DEF AllPlaced, J
  <2>1. Placed(pc[q], run[q], J(q)) /\ run[q].of \in Jobs
    BY Here
  <2>2. J(q).files # <<>> => job'[run[q].of].files # <<>>
    BY <1>5, <2>1 DEF J
  <2>3. CASE thread = Idle
    <3>1. pc[q] \notin {"recordFiles", "govern", "deliver"}
      BY <2>3 DEF LInv, Threaded, Sync, LoopAssumption
    <3> QED  BY <2>1, <2>2, <3>1 DEF Placed
  <2>4. CASE k = [job[i] EXCEPT !.overTime = TRUE]
    <3>1. /\ job'[run[q].of].status = J(q).status
          /\ Breach(J(q)) \in {"NONE", "TIMEOUT"} =>
               Breach(job'[run[q].of]) \in {"NONE", "TIMEOUT"}
      <4>1. k.status = job[i].status /\ Breach(k) = "TIMEOUT"
        BY <1>1, <2>4 DEF JobRecord, Breach
      <4> QED  BY <1>4, <2>1, <4>1 DEF J
    <3> QED  BY <2>1, <2>2, <3>1 DEF Placed
  <2> QED  BY <2>3, <2>4
<1>9. Accounted'
  <2> SUFFICES ASSUME NEW j \in Jobs, NEW f \in written[j]
               PROVE  f \in Listed(job'[j]) \/ \E q \in Runs : f \in Pending(q, j)'
    BY DEF Accounted
  <2>1. f \in Listed(job[j]) \/ \E q \in Runs : f \in Pending(q, j)
    BY DEF LInv, Accounted
  <2>2. \A q \in Runs : f \in Pending(q, j) => f \in Pending(q, j)'
    BY DEF Pending
  <2> QED  BY <1>5, <2>1, <2>2
<1> QED  BY <1>2, <1>3, <1>6, <1>7, <1>8, <1>9 DEF LInv

\* Requests of an operator, and a deadline that passes.
LEMMA OperatorsKeep ==
  ASSUME LInv, NEW i \in Jobs, Cancel(i) \/ Resume(i) \/ Deadline(i)
  PROVE  LInv' /\ [Next]_vars
<1> USE DEF KeepRun, KeepWorld
<1>1. CASE Cancel(i)
  <2>1. Legal(job[i], Cancelled(job[i]))
    BY DEF Legal
  <2> QED  BY <1>1, <2>1, OutsideKeeps DEF Cancel
<1>2. CASE Resume(i)
  <2>1. PICK s \in JobState : Resumable(job[i], s) /\ Set(i, TransitionTo(job[i], s))
    BY <1>2 DEF Resume
  <2>2. s # "READY_FOR_DELIVERY"
    BY <2>1 DEF Resumable, Allowed, ValidTransitions, Onward, Working
  <2>3. Legal(job[i], TransitionTo(job[i], s))
    BY <2>1, <2>2 DEF Legal, Resumable
  <2> QED  BY <1>2, <2>1, <2>3, OutsideKeeps DEF Resume
<1>3. CASE Deadline(i)
  <2>1. ~job[i].overTime /\ Set(i, [job[i] EXCEPT !.overTime = TRUE])
    BY <1>3 DEF Deadline, DeadlinePasses
  <2>2. Legal(job[i], [job[i] EXCEPT !.overTime = TRUE])
    BY <2>1 DEF Legal
  <2> QED  BY <1>3, <2>1, <2>2, OutsideKeeps DEF Deadline
<1> QED  BY <1>1, <1>2, <1>3

-----------------------------------------------------------------------------
(* The invariant and what follows from it *)

LEMMA LInvInitially == LoopInit => LInv
<1> SUFFICES ASSUME LoopInit PROVE LInv
  OBVIOUS
<1> USE DEF LoopInit
<1>1. AllSound /\ TypeOK
  BY SoundInit DEF AllSound, TypeOK
<1> DEFINE i == CHOOSE i \in Jobs : TRUE
<1>2. i \in Jobs
  BY DEF LoopAssumption
<1> HIDE DEF i
<1>3. Fresh(i) \in Local
  <2>1. MainTask(i) \in Tasks
    BY <1>2 DEF MainTask, Tasks, LoopAssumption
  <2>2. <<GenFile>> \in Seq(Files)
    BY DEF LoopAssumption
  <2> QED  BY <1>2, <2>1, <2>2 DEF Fresh, Local, Evidence, RepairOutcome
<1>4. run = [r \in Runs |-> Fresh(i)]
  BY DEF i
<1>5. LoopTypeOK
  BY <1>1, <1>3, <1>4 DEF LoopTypeOK, LoopAssumption
<1>6. Threaded
  BY DEF Threaded, Sync, LoopAssumption
<1>7. AllPlaced
  BY DEF AllPlaced, Placed, Before, After
<1>8. Accounted
  BY DEF Accounted
<1> QED  BY <1>1, <1>5, <1>6, <1>7, <1>8 DEF LInv

LEMMA RunStepKeeps ==
  ASSUME LInv, NEW r \in Runs, RunStep(r)
  PROVE  LInv' /\ [Next]_vars
<1>1. RunMoves(r)
  BY QuietKeeps, ToExecutingKeeps, DeliverKeeps, NotedKeeps, RecordFilesKeeps, GovernKeeps,
     FixProposeKeeps DEF RunStep
<1> QED  BY <1>1, RunKeeps

LEMMA LInvKept == LInv /\ [LoopNext]_loopVars => LInv' /\ [Next]_vars
<1> SUFFICES ASSUME LInv, [LoopNext]_loopVars PROVE LInv' /\ [Next]_vars
  OBVIOUS
<1>1. CASE \E r \in Runs : RunStep(r)
  BY <1>1, RunStepKeeps
<1>2. CASE \E r \in Runs, i \in Jobs : Execute(r, i)
  BY <1>2, ExecuteKeeps, RunKeeps
<1>3. CASE \E i \in Jobs : Cancel(i) \/ Resume(i) \/ Deadline(i)
  BY <1>3, OperatorsKeep
<1>4. CASE UNCHANGED loopVars
  <2>1. LInv'
    BY <1>4 DEF LInv, LoopTypeOK, TypeOK, AllSound, Sound, Threaded, AllPlaced, J, Accounted,
                Pending, Listed, loopVars
  <2> QED  BY <1>4, <2>1 DEF loopVars, vars
<1> QED  BY <1>1, <1>2, <1>3, <1>4 DEF LoopNext

\* What the proofs below read off: LInv always holds, and every step of the loop is one
\* of the job objects, or none.
LEMMA LoopKeeps == LoopSpec => [](LInv) /\ [][Next]_vars
  BY LInvInitially, LInvKept, PTL DEF LoopSpec

\* Runs, requests and the clock keep every variable of the loop in its type.
THEOREM LoopTyped == LoopSpec => []LoopTypeOK
<1>1. LInv => LoopTypeOK
  BY DEF LInv
<1> QED  BY <1>1, LoopKeeps, PTL

\* executeJob uses a job only as the class allows: whatever the loop, the repair
\* controller, the operators and the clock do, the jobs behave as AutonomousJob says, so
\* that all that is proved of the class holds of the jobs of the loop.
THEOREM JobsWellUsed == LoopSpec => Spec
<1>1. LoopInit => Init
  BY DEF LoopInit
<1> QED  BY <1>1, LoopKeeps, PTL DEF Spec, LoopSpec

\* A run that is about to write its first change, or to deliver, has a job in work and
\* within every limit but the clock.
THEOREM WithinLimitsAlways == LoopSpec => []WithinLimits
<1>1. LInv => WithinLimits
  BY DEF LInv, AllPlaced, Placed, WithinLimits, Working
<1> QED  BY <1>1, LoopKeeps, PTL

\* Every file written for a job, in its first change or in a repair and by whichever run,
\* is listed in the package that is delivered.
THEOREM WritesAlwaysListed == LoopSpec => []WritesAreListed
<1>1. ASSUME LInv PROVE WritesAreListed
  <2> SUFFICES ASSUME NEW i \in Jobs, job[i].delivery, NEW f \in written[i]
               PROVE  f \in Listed(job[i])
    BY DEF WritesAreListed, Listed
  <2>1. job[i].status = "READY_FOR_DELIVERY"
    BY <1>1 DEF LInv, AllSound, Sound
  <2>2. ASSUME NEW r \in Runs PROVE Pending(r, i) = {}
    <3>1. Placed(pc[r], run[r], J(r))
      BY <1>1, Here
    <3> QED  BY <2>1, <3>1 DEF Pending, Placed, J
  <2> QED  BY <1>1, <2>2 DEF LInv, Accounted
<1> QED  BY <1>1, LoopKeeps, PTL

-----------------------------------------------------------------------------
(* One run of a job at a time past its implementation, and what it has spent *)

Early == {"iterate", "begin", "analysis", "toPlanning", "plan", "toArchitecting",
          "toImplementing"}
Late == {"implement", "propose", "toExecuting", "govern", "recordFiles", "toTesting", "test",
         "recordTest", "loop", "diagnose", "attempt", "rediagnose", "fixcall", "fixpropose",
         "fixfiles", "targeted", "assumeTargeted", "regression", "assumeRegression",
         "repaired", "giveUp", "toReviewing", "toSecurityReview", "toVerifying", "deliver"}
Proposing == Early \cup {"implement", "propose", "toExecuting", "govern"}
Passed == {"toReviewing", "toSecurityReview", "toVerifying", "deliver"}

AfterImplementing ==
  {"IMPLEMENTING", "EXECUTING", "TESTING", "ANALYZING_FAILURE", "FIXING", "RETESTING",
   "REVIEWING", "SECURITY_REVIEW", "VERIFYING"}

\* The last full test of x was launched after the last write of its own job.
UpToDate(x) == x.of \notin x.unseen

\* What a run with locals x at label l knows of its evidence and of the repairs of its job.
Knows(l, x, j) ==
  /\ l = "toImplementing" => j.status = "ARCHITECTING"
  /\ l \in {"diagnose", "attempt"} => j.fixAttempts < RepairLimit
  /\ l = "test" => x.claim = "none"
  /\ l \in {"test", "regression"} => UpToDate(x)
  /\ l = "recordTest" =>
       IF x.claim = "none" THEN (AssumesNothing => UpToDate(x)) ELSE x.evidence = x.claim
  /\ l = "assumeRegression" => ~AssumesNothing
  /\ l = "repaired" /\ x.outcome = "REPAIRED" => (AssumesNothing => UpToDate(x))
  /\ l \in Passed => /\ x.evidence = "pass"
                    /\ (AssumesNothing /\ x.claim # "pass" => UpToDate(x))

\* A generated proposal goes by the task id of its job, which is taken once it is written.
Implements(l, x) == ~x.custom /\ (l = "recordFiles" \/ x.ops = <<>>)
Owns(l, x, taken) ==
  /\ l \in Proposing /\ ~x.custom => x.task = MainTask(x.of)
  /\ Implements(l, x) => MainTask(x.of) \in taken

AllKnow == \A r \in Runs : Knows(pc[r], run[r], J(r)) /\ Owns(pc[r], run[r], tasks)

\* While a job is within its limits, a run past the implementation keeps it there, and so
\* keeps every other run of the job before it.
Sole == \A r, q \in Runs : pc[r] \in Late /\ pc[q] \in Late /\ run[r].of = run[q].of => r = q
AtWork ==
  \A r \in Runs : pc[r] \in Late /\ InBounds(J(r)) => J(r).status \in AfterImplementing \cup Terminal

\* The calls that a run has made at most by the time it is at l, its repairs left aside.
Spent(l) ==
  IF l \in {"idle", "iterate", "begin"} THEN 0
  ELSE IF l \in {"analysis", "toPlanning"} THEN 1
  ELSE IF l \in {"plan", "toArchitecting", "toImplementing"} THEN 2
  ELSE 3

Started(i) == {r \in Runs : pc[r] # "idle" /\ run[r].of = i}
Units(i) == {u \in Runs \X (1..3) : run[u[1]].of = i /\ u[2] <= Spent(pc[u[1]])}
AllStarted == {r \in Runs : pc[r] # "idle"}

\* A repair is paid for in three parts: its diagnosis before it is counted, two more after.
Owed(l) == IF l = "rediagnose" THEN 1 ELSE 0
Lent(l) == IF l \in {"diagnose", "attempt"} THEN 1 ELSE 0

Afforded == \A i \in Jobs : invoked[i] <= Cardinality(Units(i)) + 3 * RepairLimit
LateAfforded ==
  \A i \in Jobs : \A r \in Runs : pc[r] \in Late /\ run[r].of = i =>
    invoked[i] + Owed(pc[r]) <= Cardinality(Units(i)) + 3 * job[i].fixAttempts + Lent(pc[r])
Calm(i) ==
  /\ job[i].status \notin Terminal
  /\ \A r \in Runs : run[r].of = i => pc[r] \notin Late \cup {"catch"}
CalmAfforded ==
  \A i \in Jobs : Calm(i) => invoked[i] <= Cardinality(Units(i)) + 3 * job[i].fixAttempts

Budget == IsFiniteSet(AllStarted) /\ Afforded /\ LateAfforded /\ CalmAfforded

KInv == AllKnow /\ Sole /\ AtWork /\ RepairsBounded /\ ImplementedOnce /\ Budget

-----------------------------------------------------------------------------
(* The limits and the table again *)

LEMMA LimitTyped == RepairLimit \in Nat \ {0}
BY DEF RepairLimit

\* A job that is over a limit stays over it, whatever is called.
LEMMA OverStays ==
  ASSUME NEW j, Sound(j), NEW k, Legal(j, k), InBounds(k)
  PROVE  InBounds(j)
<1>1. j \in JobRecord /\ j.files \in Seq(Files)
  BY DEF Sound, JobRecord
<1>2. ASSUME NEW c \in JobRecord, NEW s \in JobState PROVE Breach(TransitionTo(c, s)) = Breach(c)
  BY <1>2, TransitionKeeps
<1>3. ASSUME NEW c \in JobRecord PROVE Breach(CheckBounds(c)) = Breach(c)
  <2>1. CASE InBounds(c) \/ BoundsThrow(c)
    BY <2>1 DEF CheckBounds
  <2>2. CASE ~InBounds(c) /\ ~BoundsThrow(c)
    <3>1. Breach(c) \in JobState
      BY <2>2 DEF InBounds, Breach, JobState, Waiting, Terminal
    <3> QED  BY <1>2, <2>2, <3>1 DEF CheckBounds
  <2> QED  BY <2>1, <2>2
<1>4. ASSUME NEW c \in Counted(j), Breach(c) = "NONE" PROVE Breach(j) = "NONE"
  <2>1. c \in JobRecord /\ c.files \in Seq(Files) /\ Len(j.files) \in Nat
        /\ Len(j.files) <= Len(c.files)
    BY <1>1, CountedKeeps DEF JobRecord
  <2>2. /\ j.providerCalls <= c.providerCalls /\ j.iterations <= c.iterations
        /\ j.fixAttempts <= c.fixAttempts /\ j.commands <= c.commands
        /\ c.overTime = j.overTime /\ (j.overBudget => c.overBudget)
    <3>1. CASE \E f \in Files : c = CountFile(j, f)
      BY <1>1, <3>1 DEF CountFile, JobRecord
    <3>2. CASE \E expensive \in BOOLEAN : c = CountProviderCall(j, expensive)
      BY <1>1, <3>2 DEF CountProviderCall, JobRecord
    <3>3. CASE c \in {CountCommand(j), CountFixAttempt(j), CountIteration(j)}
      BY <1>1, <3>3 DEF CountCommand, CountFixAttempt, CountIteration, JobRecord
    <3> QED  BY <3>1, <3>2, <3>3 DEF Counted
  <2> QED  BY <1>1, <1>4, <2>1, <2>2 DEF Breach, JobRecord
<1>5. CASE \E c \in Counted(j) : k = CheckBounds(c)
  <2>1. PICK c \in Counted(j) : k = CheckBounds(c)
    BY <1>5
  <2>2. c \in JobRecord
    BY CountedKeeps
  <2> QED  BY <1>3, <1>4, <2>1, <2>2 DEF InBounds
<1>6. CASE k = Cancelled(j)
  <2>1. Breach([j EXCEPT !.aborted = TRUE]) = Breach(j) /\ [j EXCEPT !.aborted = TRUE] \in JobRecord
    BY <1>1 DEF Breach, JobRecord
  <2>2. "CANCELLED" \in JobState
    BY DEF JobState, Terminal
  <2> QED  BY <1>2, <1>6, <2>1, <2>2 DEF Cancelled, InBounds
<1>7. CASE k = Delivered(j)
  <2>1. Breach([j EXCEPT !.delivery = TRUE]) = Breach(j) /\ [j EXCEPT !.delivery = TRUE] \in JobRecord
    BY <1>1 DEF Breach, JobRecord
  <2>2. "READY_FOR_DELIVERY" \in JobState
    BY DEF JobState, Terminal
  <2> QED  BY <1>2, <1>7, <2>1, <2>2 DEF Delivered, InBounds
<1>8. CASE k = [j EXCEPT !.overTime = TRUE]
  BY <1>1, <1>8 DEF InBounds, Breach, JobRecord
<1> QED  BY <1>1, <1>2, <1>3, <1>5, <1>6, <1>7, <1>8 DEF Legal, InBounds

\* No call gets a job out of a terminal state.
LEMMA TerminalKept ==
  ASSUME NEW j, Sound(j), NEW k, Legal(j, k), j.status \in Terminal
  PROVE  k.status \in Terminal
<1>1. j \in JobRecord /\ ValidTransitions(j.status) = {}
  BY TerminalIsStuck DEF Sound
<1>2. CASE \E s \in JobState \ {"READY_FOR_DELIVERY"} : Allowed(j, s) /\ k = TransitionTo(j, s)
  BY <1>1, <1>2 DEF Allowed, TransitionTo, JobRecord
<1>3. CASE k = CheckBounds(j)
  BY <1>1, <1>3, CheckBoundsSound
<1>4. CASE \E c \in Counted(j) : k = CheckBounds(c)
  BY <1>1, <1>4, CheckBoundsSound, CountedKeeps
<1>5. CASE k = Cancelled(j)
  BY <1>5 DEF Cancelled
<1>6. CASE k = Delivered(j)
  BY <1>1, <1>6 DEF Delivered, TransitionTo, Terminal, JobRecord
<1>7. CASE k = [j EXCEPT !.overTime = TRUE]
  BY <1>1, <1>7 DEF JobRecord
<1> QED  BY <1>2, <1>3, <1>4, <1>5, <1>6, <1>7 DEF Legal

-----------------------------------------------------------------------------
(* What a step of a run does to what is known *)

\* Within the limits, work past the implementation is left for its end only.
Steady(j, k) ==
  InBounds(k) /\ j.status \in AfterImplementing \cup Terminal
    => k.status \in AfterImplementing \cup Terminal

\* The order of the labels.
Road(l, m) ==
  /\ m # "idle" /\ Spent(l) <= Spent(m)
  /\ l \in Late => m \in Late \cup {"catch", "returned", "delivered"}
  /\ l \notin Late /\ m \in Late => l = "toImplementing" /\ m \in {"implement", "propose"}
  /\ l = "giveUp" => m \in {"returned", "catch"}
  /\ l = "diagnose" => m \in {"attempt", "catch"}
  /\ l = "attempt" => m \in {"rediagnose", "repaired", "catch"}
  /\ l = "rediagnose" => m = "fixcall"
  /\ m = "diagnose" => l = "loop"
  /\ m = "attempt" => l = "diagnose"
  /\ m = "rediagnose" => l = "attempt"

\* A call that the repair pays for.
Repairing == {<<"loop", "diagnose">>, <<"attempt", "rediagnose">>, <<"rediagnose", "fixcall">>}

\* The provider is asked at most once, and the way to m pays for it.
Pays(r, m, i) ==
  \/ UNCHANGED invoked
  \/ /\ invoked' = [invoked EXCEPT ![i] = @ + 1]
     /\ Spent(m) = Spent(pc[r]) + 1 \/ <<pc[r], m>> \in Repairing

\* Run r goes to m and leaves its job i as k.
Turn(r, m, i, k) ==
  /\ m \in Labels /\ thread \in {r, Idle} /\ Goto(r, m) /\ Road(pc[r], m)
  /\ Set(i, k) /\ Legal(job[i], k)
  /\ k.fixAttempts = IF pc[r] = "attempt" THEN job[i].fixAttempts + 1 ELSE job[i].fixAttempts
  /\ pc[r] # "giveUp" => Steady(job[i], k)
  /\ pc[r] \notin Late /\ m \in Late => InBounds(job[i]) /\ k.status = "IMPLEMENTING"
  /\ pc[r] = "catch" => k.status \in Terminal
  /\ Pays(r, m, i)

Marked(x, i) == [x EXCEPT !.unseen = x.unseen \cup {i}]

Acts(r, m, i, k) ==
  /\ Turn(r, m, i, k)
  /\ pc[r] # "idle" => run[r].of = i
  /\ run'[r].of = i
  /\ \A q \in Runs \ {r} :
       run'[q] = run[q] \/ (pc[r] \in Late /\ run'[q] = Marked(run[q], i))
  /\ Knows(m, run'[r], k) /\ Owns(m, run'[r], tasks')
  /\ tasks \subseteq tasks'
  /\ Implements(m, run'[r]) =>
       (pc[r] # "idle" /\ Implements(pc[r], run[r])) \/ MainTask(i) \notin tasks

\* The frame of a step: what it does to the labels, the jobs and the other runs.
Framed(r, m, i, k) ==
         /\ pc'[r] = m /\ \A q \in Runs \ {r} : pc'[q] = pc[q] /\ pc[q] \notin Sync
         /\ job'[i] = k /\ \A j \in Jobs \ {i} : job'[j] = job[j]
         /\ \A q \in Runs \ {r} :
              /\ run'[q].of = run[q].of /\ run'[q].custom = run[q].custom
              /\ run'[q].claim = run[q].claim /\ run'[q].ops = run[q].ops
              /\ run'[q].evidence = run[q].evidence /\ run'[q].outcome = run[q].outcome
              /\ run'[q].task = run[q].task
              /\ UpToDate(run[q]) => UpToDate(run'[q]) \/ (run[q].of = i /\ pc[r] \in Late)
         /\ pc[r] # "idle" => run[r].of = i
         /\ \A q \in Runs \ {r} : pc[q] \in Late /\ run[q].of = i => pc[r] \notin Late
         /\ Sound(job[i])

LEMMA Frame ==
  ASSUME LInv, KInv, NEW r \in Runs, NEW m, NEW i \in Jobs, NEW k, Acts(r, m, i, k)
  PROVE  Framed(r, m, i, k)
<1>1. pc \in [Runs -> Labels] /\ job \in [Jobs -> JobRecord] /\ Sound(job[i])
  BY DEF LInv, LoopTypeOK, TypeOK, AllSound, Labels
<1>2. pc' = [pc EXCEPT ![r] = m] /\ job' = [job EXCEPT ![i] = k] /\ thread \in {r, Idle}
  BY DEF Acts, Turn, Goto, Set
<1>3. \A q \in Runs \ {r} : pc[q] \notin Sync
  BY <1>2, LoopAssumption DEF LInv, Threaded
<1>4. ASSUME NEW q \in Runs \ {r}
      PROVE  /\ run'[q].of = run[q].of /\ run'[q].custom = run[q].custom
             /\ run'[q].claim = run[q].claim /\ run'[q].ops = run[q].ops
             /\ run'[q].evidence = run[q].evidence /\ run'[q].outcome = run[q].outcome
             /\ run'[q].task = run[q].task
             /\ UpToDate(run[q]) => UpToDate(run'[q]) \/ (run[q].of = i /\ pc[r] \in Late)
  <2>1. run[q] \in Local
    BY Here
  <2>2. CASE run'[q] = run[q]
    BY <2>2
  <2>3. CASE pc[r] \in Late /\ run'[q] = Marked(run[q], i)
    BY <2>1, <2>3 DEF Marked, Local, UpToDate
  <2> QED  BY <2>2, <2>3 DEF Acts
<1>5. pc[r] # "idle" => run[r].of = i
  BY DEF Acts
<1>6. \A q \in Runs \ {r} : pc[q] \in Late /\ run[q].of = i => pc[r] \notin Late
  BY <1>5 DEF KInv, Sole, Late
<1> QED  BY <1>1, <1>2, <1>3, <1>4, <1>5, <1>6 DEF Framed

LEMMA KnowKept ==
  ASSUME LInv, KInv, NEW r \in Runs, NEW m, NEW i \in Jobs, NEW k, Acts(r, m, i, k)
  PROVE  AllKnow'
<1>0. Framed(r, m, i, k)
  BY Frame
<1>1. Knows(pc'[r], run'[r], job'[run'[r].of]) /\ Owns(pc'[r], run'[r], tasks')
  BY <1>0 DEF Framed, Acts
<1>2. ASSUME NEW q \in Runs \ {r}
      PROVE  Knows(pc'[q], run'[q], job'[run'[q].of]) /\ Owns(pc'[q], run'[q], tasks')
  <2>1. Knows(pc[q], run[q], J(q)) /\ Owns(pc[q], run[q], tasks) /\ run[q].of \in Jobs
    BY Here DEF KInv, AllKnow
  <2>2. pc'[q] = pc[q] /\ pc[q] \notin Sync
    BY <1>0 DEF Framed
  <2>3. pc[q] = "diagnose" => job'[run[q].of].fixAttempts = J(q).fixAttempts
    <3>1. CASE run[q].of # i
      BY <1>0, <2>1, <3>1 DEF Framed, J
    <3>2. CASE run[q].of = i /\ pc[q] = "diagnose"
      <4>1. pc[r] # "attempt"
        BY <1>0, <3>2 DEF Framed, Late
      <4> QED  BY <1>0, <3>2, <4>1 DEF Framed, Acts, Turn, J
    <3> QED  BY <3>1, <3>2
  <2>4. pc[q] \in Late => (UpToDate(run[q]) => UpToDate(run'[q]))
    BY <1>0 DEF Framed
  <2>5. Knows(pc'[q], run'[q], job'[run'[q].of])
    <3>1. pc[q] \notin {"toImplementing", "attempt", "recordTest"} \cup Passed
      BY <2>2 DEF Sync, Passed
    <3>2. run'[q].claim = run[q].claim /\ run'[q].outcome = run[q].outcome /\ run'[q].of = run[q].of
      BY <1>0 DEF Framed
    <3> QED  BY <2>1, <2>2, <2>3, <2>4, <3>1, <3>2 DEF Knows, Late
  <2>6. Owns(pc'[q], run'[q], tasks')
    <3>1. /\ run'[q].of = run[q].of /\ run'[q].custom = run[q].custom
          /\ run'[q].ops = run[q].ops /\ run'[q].task = run[q].task
      BY <1>0 DEF Framed
    <3> QED  BY <2>1, <2>2, <3>1 DEF Owns, Implements, Acts
  <2> QED  BY <2>5, <2>6
<1> QED  BY <1>1, <1>2 DEF AllKnow, J

\* Only a job that no late run works on is let into its implementation.
LEMMA AloneAtEntry ==
  ASSUME LInv, KInv, NEW r \in Runs, NEW m, NEW i \in Jobs, NEW k, Acts(r, m, i, k),
         pc[r] \notin Late, m \in Late
  PROVE  /\ pc[r] = "toImplementing" /\ job[i].status = "ARCHITECTING"
         /\ \A q \in Runs : run[q].of = i => pc[q] \notin Late
<1>1. pc[r] = "toImplementing" /\ InBounds(job[i]) /\ run[r].of = i
  BY DEF Acts, Turn, Road
<1>2. job[i].status = "ARCHITECTING"
  BY <1>1 DEF KInv, AllKnow, Knows, J
<1> QED  BY <1>1, <1>2 DEF KInv, AtWork, J, AfterImplementing, Terminal, Late

LEMMA SoleKept ==
  ASSUME LInv, KInv, NEW r \in Runs, NEW m, NEW i \in Jobs, NEW k, Acts(r, m, i, k)
  PROVE  Sole' /\ AtWork'
<1>0. Framed(r, m, i, k)
  BY Frame
<1>1. Sole'
  <2> SUFFICES ASSUME NEW q \in Runs \ {r}, pc'[q] \in Late, run'[q].of = i, m \in Late
               PROVE  FALSE
    <3>1. run'[r].of = i
      BY DEF Acts
    <3> QED  BY <1>0, <3>1 DEF Framed, KInv, Sole
  <2>1. pc[q] \in Late /\ run[q].of = i
    BY <1>0 DEF Framed
  <2>2. CASE pc[r] \in Late
    BY <1>0, <2>1, <2>2 DEF Framed
  <2>3. CASE pc[r] \notin Late
    BY <2>1, <2>3, AloneAtEntry
  <2> QED  BY <2>2, <2>3
<1>2. AtWork'
  <2> SUFFICES ASSUME NEW q \in Runs, pc'[q] \in Late, InBounds(job'[run'[q].of])
               PROVE  job'[run'[q].of].status \in AfterImplementing \cup Terminal
    BY DEF AtWork, J
  <2>1. InBounds(k) => InBounds(job[i])
    BY <1>0, OverStays DEF Framed, Acts, Turn
  <2>2. CASE q = r
    <3>1. pc'[q] = m /\ run'[q].of = i /\ job'[i] = k
      BY <1>0, <2>2 DEF Framed, Acts
    <3>2. CASE pc[r] \in Late
      <4>1. pc[r] # "giveUp"
        BY <3>1 DEF Acts, Turn, Road, Late
      <4>2. run[r].of = i
        BY <1>0, <3>2 DEF Framed, Late
      <4>3. job[i].status \in AfterImplementing \cup Terminal
        BY <2>1, <3>1, <3>2, <4>2 DEF KInv, AtWork, J
      <4> QED  BY <3>1, <4>1, <4>3 DEF Acts, Turn, Steady
    <3>3. CASE pc[r] \notin Late
      BY <3>1, <3>3 DEF Acts, Turn, AfterImplementing
    <3> QED  BY <3>2, <3>3
  <2>3. CASE q # r
    <3>1. pc[q] \in Late /\ run'[q].of = run[q].of /\ run[q].of \in Jobs
      BY <1>0, <2>3, Here DEF Framed
    <3>2. CASE run[q].of # i
      BY <1>0, <3>1, <3>2 DEF Framed, KInv, AtWork, J
    <3>3. CASE run[q].of = i
      <4>1. pc[r] # "giveUp"
        BY <1>0, <2>3, <3>1, <3>3 DEF Framed, Late
      <4>2. job[i].status \in AfterImplementing \cup Terminal
        BY <1>0, <2>1, <3>1, <3>3 DEF Framed, KInv, AtWork, J
      <4> QED  BY <1>0, <3>1, <3>3, <4>1, <4>2 DEF Framed, Acts, Turn, Steady
    <3> QED  BY <3>2, <3>3
  <2> QED  BY <2>2, <2>3
<1> QED  BY <1>1, <1>2

LEMMA RepairsKept ==
  ASSUME LInv, KInv, NEW r \in Runs, NEW m, NEW i \in Jobs, NEW k, Acts(r, m, i, k)
  PROVE  RepairsBounded'
<1>0. Framed(r, m, i, k)
  BY Frame
<1>1. \A j \in Jobs : job[j].fixAttempts \in Nat /\ job[j].fixAttempts <= RepairLimit
  BY DEF LInv, LoopTypeOK, TypeOK, JobRecord, KInv, RepairsBounded
<1>2. pc[r] = "attempt" => job[i].fixAttempts < RepairLimit
  BY <1>0 DEF Framed, KInv, AllKnow, Knows, J
<1>3. k.fixAttempts <= RepairLimit
  BY <1>1, <1>2, LimitTyped DEF Acts, Turn
<1> QED  BY <1>0, <1>1, <1>3 DEF Framed, RepairsBounded, RepairLimit

LEMMA OnceKept ==
  ASSUME LInv, KInv, NEW r \in Runs, NEW m, NEW i \in Jobs, NEW k, Acts(r, m, i, k)
  PROVE  ImplementedOnce'
<1>0. Framed(r, m, i, k)
  BY Frame
<1>1. ASSUME NEW p \in Runs, NEW q \in Runs, p # q, run[p].of = run[q].of,
             Implements(pc[p], run[p]), Implements(pc[q], run[q])
      PROVE  FALSE
  BY <1>1 DEF KInv, ImplementedOnce, Implements, WasImplemented
<1>2. \A q \in Runs \ {r} : Implements(pc'[q], run'[q]) => Implements(pc[q], run[q])
  BY <1>0 DEF Framed, Implements
<1>3. ASSUME NEW q \in Runs \ {r}, run'[q].of = i, Implements(pc'[q], run'[q]),
             Implements(m, run'[r])
      PROVE  FALSE
  <2>1. run[q].of = i /\ Implements(pc[q], run[q])
    BY <1>0, <1>2, <1>3 DEF Framed
  <2>2. MainTask(i) \in tasks
    BY <2>1 DEF KInv, AllKnow, Owns
  <2>3. pc[r] # "idle" /\ Implements(pc[r], run[r]) /\ run[r].of = i
    BY <1>0, <1>3, <2>2 DEF Framed, Acts
  <2> QED  BY <1>1, <2>1, <2>3
<1>4. run'[r].of = i /\ pc'[r] = m
  BY <1>0 DEF Framed, Acts
<1>5. ASSUME NEW p \in Runs, NEW q \in Runs, p # q, run'[p].of = run'[q].of,
             Implements(pc'[p], run'[p]), Implements(pc'[q], run'[q])
      PROVE  FALSE
  <2>1. CASE p = r \/ q = r
    BY <1>3, <1>4, <1>5, <2>1
  <2>2. CASE p # r /\ q # r
    BY <1>0, <1>1, <1>2, <1>5, <2>2 DEF Framed
  <2> QED  BY <2>1, <2>2
<1> QED  BY <1>5 DEF ImplementedOnce, Implements, WasImplemented

\* The units of a job are finitely many, never fewer, and one more for every call that is
\* no repair's.
LEMMA PairsCounted ==
  ASSUME NEW S, IsFiniteSet(S), NEW T \in SUBSET (S \X (1..3))
  PROVE  IsFiniteSet(T) /\ Cardinality(T) \in Nat /\ Cardinality(T) <= 3 * Cardinality(S)
<1>1. IsFiniteSet(1..3) /\ Cardinality(1..3) = 3
  <2>1. 1 \in Int /\ 3 \in Int /\ ~(1 > 3) /\ 3 - 1 + 1 = 3
    OBVIOUS
  <2>2. IsFiniteSet(1..3) /\ Cardinality(1..3) = IF 1 > 3 THEN 0 ELSE 3 - 1 + 1
    BY <2>1, FS_Interval, Zenon
  <2> QED  BY <2>1, <2>2
<1>2. IsFiniteSet(S \X (1..3)) /\ Cardinality(S \X (1..3)) = Cardinality(S) * Cardinality(1..3)
  BY <1>1, FS_Product
<1>3. Cardinality(S) \in Nat
  BY FS_CardinalityType
<1>4. IsFiniteSet(T) /\ Cardinality(T) <= Cardinality(S \X (1..3))
  BY <1>2, FS_Subset
<1>5. Cardinality(T) \in Nat
  BY <1>4, FS_CardinalityType
<1> QED  BY <1>1, <1>2, <1>3, <1>4, <1>5

LEMMA UnitsFinite ==
  ASSUME IsFiniteSet(AllStarted), NEW i
  PROVE  /\ IsFiniteSet(Started(i)) /\ IsFiniteSet(Units(i))
         /\ Cardinality(Units(i)) \in Nat
         /\ Cardinality(Units(i)) <= 3 * Cardinality(Started(i))
<1>1. Started(i) \in SUBSET AllStarted
  BY DEF Started, AllStarted
<1>2. IsFiniteSet(Started(i))
  BY <1>1, FS_Subset
<1>3. Units(i) \in SUBSET (Started(i) \X (1..3))
  BY DEF Units, Started, Spent
<1> QED  BY <1>2, <1>3, PairsCounted

LEMMA UnitsGrow ==
  ASSUME LInv, KInv, NEW r \in Runs, NEW m, NEW i \in Jobs, NEW k, Acts(r, m, i, k)
  PROVE  /\ IsFiniteSet(AllStarted)'
         /\ \A j \in Jobs : Cardinality(Units(j)) \in Nat /\ Cardinality(Units(j)') \in Nat
         /\ \A j \in Jobs \ {i} : Units(j)' = Units(j)
         /\ Cardinality(Units(i)) <= Cardinality(Units(i)')
         /\ Spent(m) = Spent(pc[r]) + 1 => Cardinality(Units(i)) + 1 <= Cardinality(Units(i)')
<1>0. Framed(r, m, i, k)
  BY Frame
<1>1. IsFiniteSet(AllStarted)
  BY DEF KInv, Budget
<1>2. IsFiniteSet(AllStarted)'
  <2>1. IsFiniteSet(AllStarted \cup {r})
    BY <1>1, FS_AddElement
  <2>2. AllStarted' \in SUBSET (AllStarted \cup {r})
    BY <1>0 DEF Framed, AllStarted
  <2> QED  BY <2>1, <2>2, FS_Subset
<1>3. ASSUME NEW j \in Jobs
      PROVE  IsFiniteSet(Units(j)) /\ Cardinality(Units(j)) \in Nat
  BY <1>1, UnitsFinite
<1>4. ASSUME NEW j \in Jobs
      PROVE  IsFiniteSet(Units(j)') /\ Cardinality(Units(j)') \in Nat
  <2>1. Units(j)' \in SUBSET (AllStarted' \X (1..3))
    BY DEF Units, AllStarted, Spent
  <2> QED  BY <1>2, <2>1, PairsCounted
<1>5. run'[r].of = i /\ Spent(pc[r]) \in 0..3 /\ Spent(m) \in 0..3 /\ Spent(pc[r]) <= Spent(m)
      /\ (pc[r] = "idle" => Spent(pc[r]) = 0)
  BY DEF Acts, Turn, Road, Spent
<1>6. ASSUME NEW j \in Jobs \ {i} PROVE Units(j)' = Units(j)
  <2>1. ASSUME NEW u \in Runs \X (1..3)
        PROVE  (run'[u[1]].of = j /\ u[2] <= Spent(pc'[u[1]]))
                 <=> (run[u[1]].of = j /\ u[2] <= Spent(pc[u[1]]))
    <3>1. CASE u[1] = r
      BY <1>0, <1>5, <3>1 DEF Framed
    <3>2. CASE u[1] # r
      BY <1>0, <3>2 DEF Framed
    <3> QED  BY <3>1, <3>2
  <2> QED  BY <2>1 DEF Units, Spent
<1>7. Units(i) \subseteq Units(i)'
  <2>1. ASSUME NEW u \in Runs \X (1..3), run[u[1]].of = i, u[2] <= Spent(pc[u[1]])
        PROVE  run'[u[1]].of = i /\ u[2] <= Spent(pc'[u[1]])
    <3>1. CASE u[1] = r
      BY <1>0, <1>5, <2>1, <3>1 DEF Framed
    <3>2. CASE u[1] # r
      BY <1>0, <2>1, <3>2 DEF Framed
    <3> QED  BY <3>1, <3>2
  <2> QED  BY <2>1 DEF Units, Spent
<1>8. Cardinality(Units(i)) <= Cardinality(Units(i)')
  BY <1>4, <1>7, FS_Subset
<1>9. ASSUME Spent(m) = Spent(pc[r]) + 1
      PROVE  Cardinality(Units(i)) + 1 <= Cardinality(Units(i)')
  <2> DEFINE u == <<r, Spent(m)>>
  <2>1. u \notin Units(i)
    <3>1. ~(Spent(m) <= Spent(pc[r]))
      BY <1>5, <1>9
    <3> QED  BY <3>1 DEF Units
  <2>2. u \in Units(i)'
    <3>1. Spent(m) \in 1..3 /\ pc'[r] = m
      BY <1>0, <1>5, <1>9 DEF Framed
    <3>2. u \in Runs \X (1..3) /\ run'[u[1]].of = i /\ u[2] <= Spent(pc'[u[1]])
      BY <1>5, <3>1
    <3> QED  BY <3>2 DEF Units, Spent
  <2> HIDE DEF u
  <2>3. Units(i) \cup {u} \in SUBSET Units(i)'
    BY <1>7, <2>2
  <2>4. Cardinality(Units(i) \cup {u}) = Cardinality(Units(i)) + 1
    BY <1>3, <2>1, FS_AddElement
  <2>5. Cardinality(Units(i) \cup {u}) <= Cardinality(Units(i)')
    BY <1>4, <2>3, FS_Subset
  <2> QED  BY <2>4, <2>5
<1> QED  BY <1>2, <1>3, <1>4, <1>6, <1>8, <1>9

\* What the job of the step has been asked for, before and after.
LEMMA BudgetKept ==
  ASSUME LInv, KInv, NEW r \in Runs, NEW m, NEW i \in Jobs, NEW k, Acts(r, m, i, k)
  PROVE  Budget'
<1>0. Framed(r, m, i, k)
  BY Frame
<1>1. /\ \A j \in Jobs : Cardinality(Units(j)) \in Nat /\ Cardinality(Units(j)') \in Nat
      /\ \A j \in Jobs \ {i} : Units(j)' = Units(j)
      /\ Cardinality(Units(i)) <= Cardinality(Units(i)')
      /\ Spent(m) = Spent(pc[r]) + 1 => Cardinality(Units(i)) + 1 <= Cardinality(Units(i)')
  BY UnitsGrow
<1>2. /\ invoked \in [Jobs -> Nat] /\ \A j \in Jobs : job[j].fixAttempts \in Nat
      /\ RepairLimit \in Nat /\ \A q \in Runs : run[q].of \in Jobs
      /\ \A j \in Jobs : job[j].fixAttempts <= RepairLimit
  BY Here, LimitTyped DEF LInv, LoopTypeOK, TypeOK, JobRecord, KInv, RepairsBounded
<1>3. /\ \A j \in Jobs \ {i} : invoked'[j] = invoked[j]
      /\ \/ invoked'[i] = invoked[i]
         \/ /\ invoked'[i] = invoked[i] + 1
            /\ Spent(m) = Spent(pc[r]) + 1 \/ <<pc[r], m>> \in Repairing
  BY <1>2 DEF Acts, Turn, Pays
<1>4. /\ job'[i].fixAttempts
           = IF pc[r] = "attempt" THEN job[i].fixAttempts + 1 ELSE job[i].fixAttempts
      /\ \A j \in Jobs \ {i} : job'[j] = job[j]
  BY <1>0 DEF Framed, Acts, Turn
<1> DEFINE u == Cardinality(Units(i))       v == Cardinality(Units(i)')
           c == invoked[i]                  d == invoked'[i]
           f == job[i].fixAttempts          g == job'[i].fixAttempts
           owed == Owed(pc[r])              lent == Lent(pc[r])
<1>5. pc[r] \in Late => c + owed <= u + 3 * f + lent /\ run[r].of = i
  BY <1>0 DEF Framed, KInv, Budget, LateAfforded, Late
<1>types. /\ u \in Nat /\ v \in Nat /\ c \in Nat /\ d \in Nat /\ f \in Nat /\ g \in Nat
       /\ owed \in Nat /\ lent \in Nat /\ RepairLimit \in Nat
  <2>1. u \in Nat /\ v \in Nat /\ c \in Nat /\ f \in Nat /\ RepairLimit \in Nat
    BY <1>1, <1>2
  <2>2. g = IF pc[r] = "attempt" THEN f + 1 ELSE f
    BY <1>4
  <2>3. d = c \/ d = c + 1
    BY <1>3
  <2>4. owed \in Nat /\ lent \in Nat
    BY DEF Owed, Lent
  <2> HIDE DEF u, v, c, d, f, g, owed, lent
  <2> QED  BY <2>1, <2>2, <2>3, <2>4
<1>6. /\ u <= v /\ (Spent(m) = Spent(pc[r]) + 1 => u + 1 <= v)
      /\ d = c \/ (d = c + 1 /\ (Spent(m) = Spent(pc[r]) + 1 \/ <<pc[r], m>> \in Repairing))
      /\ g = IF pc[r] = "attempt" THEN f + 1 ELSE f
      /\ f <= RepairLimit
      /\ owed = IF pc[r] = "rediagnose" THEN 1 ELSE 0
      /\ lent = IF pc[r] \in {"diagnose", "attempt"} THEN 1 ELSE 0
  BY <1>1, <1>2, <1>3, <1>4 DEF Owed, Lent
<1>7. /\ pc[r] = "attempt" => f + 1 <= RepairLimit
      /\ m = "diagnose" => f + 1 <= RepairLimit
  <2>1. pc[r] = "attempt" => f < RepairLimit
    BY <1>0 DEF Framed, KInv, AllKnow, Knows, J
  <2>2. m = "diagnose" => g < RepairLimit /\ pc[r] = "loop"
    BY <1>0 DEF Framed, Acts, Turn, Road, Knows
  <2> HIDE DEF u, v, c, d, f, g, owed, lent
  <2> QED  BY <1>types, <1>6, <2>1, <2>2
<1>8. /\ <<pc[r], m>> \in Repairing <=>
           \/ pc[r] = "loop" /\ m = "diagnose"
           \/ pc[r] = "attempt" /\ m = "rediagnose"
           \/ pc[r] = "rediagnose" /\ m = "fixcall"
      /\ Road(pc[r], m)
  BY DEF Repairing, Acts, Turn
<1>9. d <= v + 3 * RepairLimit
  <2>1. c <= u + 3 * RepairLimit
    BY DEF KInv, Budget, Afforded
  <2> HIDE DEF u, v, c, d, f, g, owed, lent
  <2>2. CASE d = c
    BY <1>types, <1>6, <2>1, <2>2
  <2>3. CASE d = c + 1 /\ Spent(m) = Spent(pc[r]) + 1
    BY <1>types, <1>6, <2>1, <2>3
  <2>4. CASE d = c + 1 /\ <<pc[r], m>> \in Repairing
    <3>1. pc[r] \in Late /\ c + owed <= u + 3 * f + lent
      BY <1>5, <1>8, <2>4 DEF Late
    <3>2. CASE pc[r] = "loop" /\ m = "diagnose"
      BY <1>types, <1>6, <1>7, <2>4, <3>1, <3>2
    <3>3. CASE pc[r] = "attempt"
      <4>1. lent = 1 /\ owed = 0 /\ f + 1 <= RepairLimit /\ d = c + 1 /\ u <= v
        BY <1>6, <1>7, <2>4, <3>3
      <4> QED  BY <1>types, <3>1, <4>1
    <3>4. CASE pc[r] = "rediagnose"
      <4>1. lent = 0 /\ owed = 1 /\ f <= RepairLimit /\ d = c + 1 /\ u <= v
        BY <1>types, <1>6, <2>4, <3>4
      <4> QED  BY <1>types, <3>1, <4>1
    <3> QED  BY <1>8, <2>4, <3>2, <3>3, <3>4
  <2> QED  BY <1>types, <1>6, <2>2, <2>3, <2>4
<1>10. ASSUME m \in Late
       PROVE  d + Owed(m) <= v + 3 * g + Lent(m)
  <2>1. /\ Owed(m) = IF m = "rediagnose" THEN 1 ELSE 0
        /\ Lent(m) = IF m \in {"diagnose", "attempt"} THEN 1 ELSE 0
    BY DEF Owed, Lent
  <2>2. CASE pc[r] \notin Late
    <3>1. /\ pc[r] = "toImplementing" /\ m \in {"implement", "propose"}
          /\ job[i].status = "ARCHITECTING"
          /\ \A q \in Runs : run[q].of = i => pc[q] \notin Late
      BY <1>8, <1>10, <2>2, AloneAtEntry DEF Road
    <3>2. Calm(i)
      <4>1. \A q \in Runs \ {r} : pc[q] # "catch"
        BY <1>0 DEF Framed, Sync
      <4> QED  BY <3>1, <4>1 DEF Calm, Terminal
    <3>3. c <= u + 3 * f
      BY <3>2 DEF KInv, Budget, CalmAfforded
    <3>4. <<pc[r], m>> \notin Repairing
      BY <1>8, <3>1
    <3> HIDE DEF u, v, c, d, f, g, owed, lent
    <3> QED  BY <1>types, <1>6, <2>1, <3>1, <3>3, <3>4
  <2>3. CASE pc[r] \in Late
    <3>1. c + owed <= u + 3 * f + lent
      BY <1>5, <2>3
    <3>2. /\ pc[r] = "diagnose" => m = "attempt"
          /\ pc[r] = "attempt" => m \in {"rediagnose", "repaired"}
          /\ pc[r] = "rediagnose" => m = "fixcall"
          /\ m = "attempt" => pc[r] = "diagnose"
          /\ m = "rediagnose" => pc[r] = "attempt"
          /\ m = "diagnose" => pc[r] = "loop"
      BY <1>8, <1>10 DEF Road, Late
    <3>3. Spent(m) # Spent(pc[r]) + 1
      BY <1>10, <2>3 DEF Spent, Late
    <3> HIDE DEF u, v, c, d, f, g, owed, lent
    <3>4. CASE pc[r] = "diagnose"
      BY <1>types, <1>6, <1>8, <2>1, <3>1, <3>2, <3>3, <3>4
    <3>5. CASE pc[r] = "attempt"
      <4>1. /\ lent = 1 /\ owed = 0 /\ g = f + 1 /\ Lent(m) = 0 /\ u <= v
            /\ Owed(m) = IF m = "rediagnose" THEN 1 ELSE 0
            /\ d = c \/ (d = c + 1 /\ m = "rediagnose")
        BY <1>types, <1>6, <1>8, <2>1, <3>2, <3>3, <3>5
      <4> QED  BY <1>types, <3>1, <4>1
    <3>6. CASE pc[r] = "rediagnose"
      <4>1. /\ lent = 0 /\ owed = 1 /\ g = f /\ Lent(m) = 0 /\ Owed(m) = 0 /\ u <= v
            /\ d = c \/ d = c + 1
        BY <1>types, <1>6, <1>8, <2>1, <3>2, <3>3, <3>6
      <4> QED  BY <1>types, <3>1, <4>1
    <3>7. CASE pc[r] \notin {"diagnose", "attempt", "rediagnose"}
      <4>1. m # "attempt" /\ m # "rediagnose" /\ (<<pc[r], m>> \in Repairing => m = "diagnose")
        BY <1>8, <3>2, <3>7
      <4> QED  BY <1>types, <1>6, <2>1, <3>1, <3>3, <3>7, <4>1
    <3> QED  BY <3>4, <3>5, <3>6, <3>7
  <2> QED  BY <2>2, <2>3
<1>11. Afforded'
  <2> SUFFICES ASSUME NEW j \in Jobs
               PROVE  invoked'[j] <= Cardinality(Units(j)') + 3 * RepairLimit
    BY DEF Afforded, RepairLimit
  <2>1. CASE j = i
    BY <1>9, <2>1
  <2>2. CASE j # i
    BY <1>1, <1>3, <2>2 DEF KInv, Budget, Afforded
  <2> QED  BY <2>1, <2>2
<1>12. LateAfforded'
  <2> SUFFICES ASSUME NEW j \in Jobs, NEW q \in Runs, pc'[q] \in Late, run'[q].of = j
               PROVE  invoked'[j] + Owed(pc'[q])
                        <= Cardinality(Units(j)') + 3 * job'[j].fixAttempts + Lent(pc'[q])
    BY DEF LateAfforded, Late, Owed, Lent
  <2>1. CASE q = r
    <3>1. pc'[q] = m /\ j = i
      BY <1>0, <2>1 DEF Framed, Acts
    <3> QED  BY <1>10, <3>1
  <2>2. CASE q # r
    <3>1. pc'[q] = pc[q] /\ run[q].of = j /\ pc[q] \in Late
      BY <1>0, <2>2 DEF Framed
    <3>2. invoked[j] + Owed(pc[q])
            <= Cardinality(Units(j)) + 3 * job[j].fixAttempts + Lent(pc[q])
      BY <3>1 DEF KInv, Budget, LateAfforded
    <3>3. CASE j # i
      <4>1. invoked'[j] = invoked[j] /\ job'[j] = job[j] /\ Units(j)' = Units(j)
        BY <1>1, <1>3, <1>4, <3>3
      <4> QED  BY <3>1, <3>2, <4>1
    <3>4. CASE j = i
      <4>1. pc[r] \notin {"loop", "attempt", "rediagnose"}
        BY <1>0, <2>2, <3>1, <3>4 DEF Framed, Late
      <4> DEFINE o == Owed(pc[q])   n == Lent(pc[q])
      <4>2. o \in Nat /\ n \in Nat /\ c + o <= u + 3 * f + n
        BY <3>2, <3>4 DEF Owed, Lent
      <4>3. SUFFICES d + o <= v + 3 * g + n
        BY <3>1, <3>4
      <4> HIDE DEF u, v, c, d, f, g, owed, lent, o, n
      <4>4. u <= v /\ g = f /\ (d = c \/ (d = c + 1 /\ u + 1 <= v))
        BY <1>6, <1>8, <4>1
      <4> QED  BY <1>types, <4>2, <4>4
    <3> QED  BY <3>3, <3>4
  <2> QED  BY <2>1, <2>2
<1>13. CalmAfforded'
  <2> SUFFICES ASSUME NEW j \in Jobs, Calm(j)'
               PROVE  invoked'[j] <= Cardinality(Units(j)') + 3 * job'[j].fixAttempts
    BY DEF CalmAfforded
  <2>1. CASE j # i
    <3>1. ASSUME NEW q \in Runs, run[q].of = j PROVE pc[q] \notin Late \cup {"catch"}
      <4>1. CASE q = r
        BY <1>0, <2>1, <3>1, <4>1 DEF Framed, Late
      <4>2. CASE q # r
        BY <1>0, <3>1, <4>2 DEF Framed, Calm, Late
      <4> QED  BY <4>1, <4>2
    <3>2. Calm(j)
      BY <1>4, <2>1, <3>1 DEF Calm, Terminal
    <3> QED  BY <1>1, <1>3, <1>4, <2>1, <3>2 DEF KInv, Budget, CalmAfforded
  <2>2. CASE j = i
    <3>1. m \notin Late \cup {"catch"} /\ job'[i].status \notin Terminal
      BY <1>0, <2>2 DEF Framed, Acts, Calm, Late, Terminal
    <3>2. job[i].status \notin Terminal /\ pc[r] # "catch"
      BY <1>0, <3>1, TerminalKept DEF Framed, Acts, Turn
    <3>3. pc[r] \notin {"diagnose", "attempt", "rediagnose"}
          /\ ~(pc[r] = "loop" /\ m = "diagnose")
      BY <1>8, <3>1 DEF Road, Late
    <3>4. invoked[i] <= Cardinality(Units(i)) + 3 * job[i].fixAttempts
      <4>1. CASE pc[r] \in Late
        <5>1. c + owed <= u + 3 * f + lent /\ owed = 0 /\ lent = 0
          BY <1>5, <3>3, <4>1 DEF Owed, Lent
        <5> HIDE DEF u, v, c, d, f, g, owed, lent
        <5>2. c <= u + 3 * f
          BY <1>types, <5>1
        <5> QED  BY <5>2 DEF u, c, f
      <4>2. CASE pc[r] \notin Late
        <5>1. ASSUME NEW q \in Runs, run[q].of = i PROVE pc[q] \notin Late \cup {"catch"}
          <6>1. CASE q = r
            BY <3>2, <4>2, <6>1
          <6>2. CASE q # r
            BY <1>0, <2>2, <5>1, <6>2 DEF Framed, Calm, Late
          <6> QED  BY <6>1, <6>2
        <5>2. Calm(i)
          BY <3>2, <5>1 DEF Calm
        <5> QED  BY <5>2 DEF KInv, Budget, CalmAfforded
      <4> QED  BY <4>1, <4>2
    <3>5. SUFFICES d <= v + 3 * g
      BY <2>2
    <3>6. c <= u + 3 * f
      BY <3>4
    <3> HIDE DEF u, v, c, d, f, g, owed, lent
    <3>7. u <= v /\ g = f /\ (d = c \/ (d = c + 1 /\ u + 1 <= v))
      BY <1>6, <1>8, <3>3
    <3> QED  BY <1>types, <3>6, <3>7
  <2> QED  BY <2>1, <2>2
<1>14. IsFiniteSet(AllStarted)'
  BY UnitsGrow
<1> QED  BY <1>11, <1>12, <1>13, <1>14 DEF Budget

LEMMA ActsKeep ==
  ASSUME LInv, KInv, NEW r \in Runs, NEW m, NEW i \in Jobs, NEW k, Acts(r, m, i, k)
  PROVE  KInv'
BY KnowKept, SoleKept, RepairsKept, OnceKept, BudgetKept DEF KInv

-----------------------------------------------------------------------------
(* The calls on the job object again *)

\* The table leads from the implementation forward, out of the work, or nowhere.
LEMMA TableForward ==
  ASSUME NEW s \in JobState, NEW t \in ValidTransitions(s), s \in AfterImplementing, t # "BLOCKED"
  PROVE  t \in AfterImplementing \cup Terminal
BY DEF ValidTransitions, Onward, Interrupts, JobState, Waiting, Working, Terminal,
       AfterImplementing

\* Run r calls a method of its job, but not one that counts a repair or gives up.
Called(r, k) ==
  /\ Set(run[r].of, k) /\ Legal(J(r), k) /\ Steady(J(r), k)
  /\ k.fixAttempts = J(r).fixAttempts

LEMMA StaysCalled ==
  ASSUME LInv, NEW r \in Runs, UNCHANGED job
  PROVE  Called(r, J(r))
BY Here DEF Called, Legal, Set, Steady, J, LInv, LoopTypeOK, TypeOK

LEMMA MoveCalled ==
  ASSUME LInv, NEW r \in Runs, NEW s \in JobState \ {"READY_FOR_DELIVERY", "BLOCKED"}, NEW next,
         Move(r, s, next)
  PROVE  \E k : Called(r, k) /\ (Goto(r, "catch") \/ (Goto(r, next) /\ k.status = s))
<1>1. CASE Allowed(J(r), s)
  <2> DEFINE k == TransitionTo(J(r), s)
  <2>1. Set(run[r].of, k) /\ Goto(r, next) /\ Legal(J(r), k)
    BY <1>1 DEF Move, SetJob, Legal
  <2>2. k.status = s /\ k.fixAttempts = J(r).fixAttempts
    BY Here DEF TransitionTo, JobRecord
  <2>3. J(r).status \in AfterImplementing \cup Terminal => s \in AfterImplementing \cup Terminal
    BY <1>1, Here, TableForward, TerminalIsStuck DEF Allowed
  <2> HIDE DEF k
  <2> QED  BY <2>1, <2>2, <2>3 DEF Called, Steady
<1>2. CASE ~Allowed(J(r), s)
  BY <1>2, StaysCalled DEF Move
<1> QED  BY <1>1, <1>2

\* checkBounds changes nothing but the status, and that only of a job over a limit.
LEMMA CheckSteady ==
  ASSUME NEW j, Sound(j), NEW c \in JobRecord, c.status = j.status
  PROVE  /\ CheckBounds(c).fixAttempts = c.fixAttempts
         /\ InBounds(CheckBounds(c)) => CheckBounds(c).status = j.status
<1>1. CASE InBounds(c) \/ BoundsThrow(c)
  BY <1>1 DEF CheckBounds
<1>2. CASE ~InBounds(c) /\ ~BoundsThrow(c)
  <2>1. Breach(c) \in JobState
    BY <1>2 DEF InBounds, Breach, JobState, Waiting, Terminal
  <2>2. Breach(CheckBounds(c)) = Breach(c)
    BY <1>2, <2>1, TransitionKeeps DEF CheckBounds
  <2>3. CheckBounds(c).fixAttempts = c.fixAttempts
    BY <1>2 DEF CheckBounds, TransitionTo, JobRecord
  <2> QED  BY <1>2, <2>2, <2>3 DEF InBounds
<1> QED  BY <1>1, <1>2

LEMMA GateCalled ==
  ASSUME LInv, NEW r \in Runs, NEW s \in JobState \ {"READY_FOR_DELIVERY", "BLOCKED"}, NEW next,
         Gate(r, s, next)
  PROVE  \E k : /\ Called(r, k)
                /\ \/ Goto(r, "catch") \/ Goto(r, "returned")
                   \/ Goto(r, next) /\ InBounds(J(r)) /\ k.status = s
<1>1. CASE BoundsThrow(J(r))
  BY <1>1, StaysCalled DEF Gate
<1>2. CASE ~BoundsThrow(J(r)) /\ ~InBounds(J(r))
  <2> DEFINE k == CheckBounds(J(r))
  <2>1. Set(run[r].of, k) /\ Goto(r, "returned") /\ Legal(J(r), k)
    BY <1>2 DEF Gate, SetJob, Legal
  <2>2. k.fixAttempts = J(r).fixAttempts /\ Steady(J(r), k)
    BY Here, CheckSteady DEF Steady
  <2> HIDE DEF k
  <2> QED  BY <2>1, <2>2 DEF Called
<1>3. CASE ~BoundsThrow(J(r)) /\ InBounds(J(r)) /\ J(r).aborted
  <2>1. Move(r, "CANCELLED", "returned")
    BY <1>3 DEF Gate
  <2>2. "CANCELLED" \in JobState \ {"READY_FOR_DELIVERY", "BLOCKED"}
    BY DEF JobState, Terminal
  <2> QED  BY <2>1, <2>2, MoveCalled
<1>4. CASE ~BoundsThrow(J(r)) /\ InBounds(J(r)) /\ ~J(r).aborted
  <2>1. Move(r, s, next)
    BY <1>4 DEF Gate
  <2> QED  BY <1>4, <2>1, MoveCalled
<1> QED  BY <1>1, <1>2, <1>3, <1>4

LEMMA RecordCalled ==
  ASSUME LInv, NEW r \in Runs, NEW c \in Counted(J(r)), c.fixAttempts = J(r).fixAttempts, NEW next,
         Record(r, c, next)
  PROVE  \E k : Called(r, k) /\ (Goto(r, "catch") \/ Goto(r, next))
<1> DEFINE k == CheckBounds(c)
<1>1. Set(run[r].of, k) /\ Legal(J(r), k) /\ (Goto(r, "catch") \/ Goto(r, next))
  BY DEF Record, SetJob, Legal
<1>2. c \in JobRecord /\ c.status = J(r).status
  BY Here, CountedKeeps
<1>3. k.fixAttempts = J(r).fixAttempts /\ Steady(J(r), k)
  BY <1>2, Here, CheckSteady DEF Steady
<1> HIDE DEF k
<1> QED  BY <1>1, <1>3 DEF Called

\* What is counted, but for a repair, is not the repairs.
LEMMA OthersCounted ==
  ASSUME NEW j \in JobRecord
  PROVE  /\ \A expensive \in BOOLEAN :
              /\ CountProviderCall(j, expensive) \in Counted(j)
              /\ CountProviderCall(j, expensive).fixAttempts = j.fixAttempts
         /\ CountCommand(j) \in Counted(j) /\ CountCommand(j).fixAttempts = j.fixAttempts
         /\ CountIteration(j) \in Counted(j) /\ CountIteration(j).fixAttempts = j.fixAttempts
         /\ \A f \in Files : CountFile(j, f) \in Counted(j)
                             /\ CountFile(j, f).fixAttempts = j.fixAttempts
         /\ CountFixAttempt(j) \in Counted(j)
         /\ CountFixAttempt(j).fixAttempts = j.fixAttempts + 1
<1>1. \A f \in Files : CountFile(j, f).fixAttempts = j.fixAttempts
  BY DEF CountFile, JobRecord
<1>2. \A expensive \in BOOLEAN : CountProviderCall(j, expensive).fixAttempts = j.fixAttempts
  BY DEF CountProviderCall, JobRecord
<1>3. /\ CountCommand(j).fixAttempts = j.fixAttempts
      /\ CountIteration(j).fixAttempts = j.fixAttempts
      /\ CountFixAttempt(j).fixAttempts = j.fixAttempts + 1
  BY DEF CountCommand, CountIteration, CountFixAttempt, JobRecord
<1> QED  BY <1>1, <1>2, <1>3 DEF Counted

LEMMA ReturnCalled ==
  ASSUME LInv, NEW r \in Runs, NEW next, ProviderReturns(r, next)
  PROVE  Goto(r, next) /\ \E k : Called(r, k)
<1>1. CASE UNCHANGED job /\ Goto(r, next)
  BY <1>1, StaysCalled
<1>2. CASE \E expensive \in Prices :
             /\ SetJob(r, CheckBounds(CountProviderCall(J(r), expensive)))
             /\ Goto(r, next)
  <2>1. PICK expensive \in BOOLEAN :
             /\ Set(run[r].of, CheckBounds(CountProviderCall(J(r), expensive)))
             /\ Goto(r, next)
    BY <1>2 DEF SetJob
  <2> DEFINE c == CountProviderCall(J(r), expensive)
             k == CheckBounds(c)
  <2>2. c \in Counted(J(r)) /\ c.fixAttempts = J(r).fixAttempts
    BY Here, OthersCounted
  <2>3. c \in JobRecord /\ c.status = J(r).status
    BY <2>2, Here, CountedKeeps
  <2>4. k.fixAttempts = J(r).fixAttempts /\ Steady(J(r), k)
    <3> HIDE DEF c
    <3> QED  BY <2>2, <2>3, Here, CheckSteady DEF Steady
  <2>5. Legal(J(r), k)
    BY <2>2 DEF Legal
  <2> QED  BY <2>1, <2>4, <2>5 DEF Called
<1> QED  BY <1>1, <1>2 DEF ProviderReturns

-----------------------------------------------------------------------------
(* Every step of a run is such a step *)

\* One that changes no locals but its own run's, and no tasks.
LEMMA NotedActs ==
  ASSUME LInv, KInv, NEW r \in Runs, NEW m \in Labels, thread \in {r, Idle}, Goto(r, m),
         Road(pc[r], m), pc[r] \notin {"idle", "attempt", "giveUp", "catch"},
         NEW k, Called(r, k),
         pc[r] \notin Late /\ m \in Late => InBounds(J(r)) /\ k.status = "IMPLEMENTING",
         Pays(r, m, run[r].of),
         NEW x, x.of = run[r].of, run' = [run EXCEPT ![r] = x], UNCHANGED tasks,
         Knows(m, x, k), Owns(m, x, tasks), Implements(m, x) => Implements(pc[r], run[r])
  PROVE  Acts(r, m, run[r].of, k)
<1>1. run \in [Runs -> Local]
  BY DEF LInv, LoopTypeOK
<1>2. run'[r] = x /\ \A q \in Runs \ {r} : run'[q] = run[q]
  BY <1>1
<1>3. Turn(r, m, run[r].of, k)
  BY DEF Turn, Called, J
<1> QED  BY <1>2, <1>3 DEF Acts

\* One that leaves the locals alone.
LEMMA PlainActs ==
  ASSUME LInv, KInv, NEW r \in Runs, NEW m \in Labels, thread \in {r, Idle}, Goto(r, m),
         Road(pc[r], m), pc[r] \notin {"idle", "attempt", "giveUp", "catch"},
         NEW k, Called(r, k),
         pc[r] \notin Late /\ m \in Late => InBounds(J(r)) /\ k.status = "IMPLEMENTING",
         Pays(r, m, run[r].of), KeepRun, UNCHANGED tasks, Knows(m, run[r], k),
         m \in Proposing => pc[r] \in Proposing, m # "recordFiles"
  PROVE  Acts(r, m, run[r].of, k)
<1>1. run' = [run EXCEPT ![r] = run[r]]
  BY DEF LInv, LoopTypeOK, KeepRun
<1>2. Owns(m, run[r], tasks)
  BY DEF KInv, AllKnow, Owns, Implements
<1>3. Implements(m, run[r]) => Implements(pc[r], run[r])
  BY DEF Implements
<1> QED  BY <1>1, <1>2, <1>3, NotedActs

\* Labels at which nothing need be known of the evidence or the repairs.
Blank == Labels \ ({"toImplementing", "diagnose", "attempt", "test", "regression", "recordTest",
                    "assumeRegression", "repaired"} \cup Passed)

LEMMA BlankKnows ==
  ASSUME NEW m \in Blank, NEW x, NEW k
  PROVE  Knows(m, x, k)
BY DEF Blank, Knows

LEMMA InvokesPays ==
  ASSUME LInv, NEW r \in Runs, NEW m, NEW l, Goto(r, m), InvokesAt(r, l),
         m = l => Spent(m) = Spent(pc[r]) + 1 \/ <<pc[r], m>> \in Repairing
  PROVE  Pays(r, m, run[r].of)
<1>1. pc'[r] = m
  BY DEF LInv, LoopTypeOK, Goto
<1> QED  BY <1>1 DEF InvokesAt, Pays

\* Entering the loop and going up to the implementation.
LEMMA EarlyActs ==
  ASSUME LInv, KInv, NEW r \in Runs,
         \/ RecordIteration(r) \/ Begin(r) \/ Analysed(r) \/ ToPlanning(r) \/ Planned(r)
         \/ ToArchitecting(r) \/ ToImplementing(r)
  PROVE  \E m, k : Acts(r, m, run[r].of, k)
<1> USE DEF Labels, Awaits, Sync, Ended, Early, Late, Proposing, Passed, Blank, Road, Spent,
            JobState, Waiting, Working, Terminal
<1>1. CASE RecordIteration(r)
  <2>1. PICK k : Called(r, k) /\ (Goto(r, "rejected") \/ Goto(r, "begin"))
    <3> DEFINE c == CountIteration(J(r))
               k == CheckBounds(c)
    <3>1. c \in Counted(J(r)) /\ c.fixAttempts = J(r).fixAttempts
      BY Here, OthersCounted
    <3>2. c \in JobRecord /\ c.status = J(r).status
      BY <3>1, Here, CountedKeeps
    <3>3. k.fixAttempts = J(r).fixAttempts /\ Steady(J(r), k)
      <4> HIDE DEF c
      <4> QED  BY <3>1, <3>2, Here, CheckSteady DEF Steady
    <3>4. Legal(J(r), k)
      BY <3>1 DEF Legal
    <3> QED  BY <1>1, <3>3, <3>4 DEF RecordIteration, SetJob, Called
  <2> QED  BY <1>1, <2>1, PlainActs, BlankKnows DEF RecordIteration, At, KeepWorld, Pays
<1>2. CASE Begin(r)
  <2>1. Move(r, "CANCELLED", "returned") \/ Move(r, "ANALYZING", "analysis")
    BY <1>2 DEF Begin
  <2>2. PICK k : Called(r, k) /\ (Goto(r, "catch") \/ Goto(r, "returned") \/ Goto(r, "analysis"))
    BY <2>1, MoveCalled
  <2>3. pc[r] = "begin" /\ thread = r /\ InvokesAt(r, "analysis") /\ KeepRun /\ UNCHANGED tasks
    BY <1>2 DEF Begin, At
  <2>4. PICK m \in {"catch", "returned", "analysis"} : Goto(r, m)
    BY <2>2
  <2>5. Pays(r, m, run[r].of)
    <3>1. m = "analysis" => Spent(m) = Spent(pc[r]) + 1
      BY <2>3, <2>4
    <3> HIDE DEF Spent
    <3> QED  BY <2>3, <2>4, <3>1, InvokesPays
  <2> QED  BY <2>2, <2>3, <2>4, <2>5, PlainActs, BlankKnows
<1>3. CASE Analysed(r)
  BY <1>3, StaysCalled, PlainActs, BlankKnows DEF Analysed, Settles, KeepWorld, Pays
<1>4. CASE ToPlanning(r)
  <2>1. PICK k : Called(r, k) /\ (Goto(r, "catch") \/ Goto(r, "returned") \/ Goto(r, "plan"))
    BY <1>4, GateCalled DEF ToPlanning
  <2>2. pc[r] = "toPlanning" /\ thread = r /\ InvokesAt(r, "plan") /\ KeepRun /\ UNCHANGED tasks
    BY <1>4 DEF ToPlanning, At
  <2>3. PICK m \in {"catch", "returned", "plan"} : Goto(r, m)
    BY <2>1
  <2>4. Pays(r, m, run[r].of)
    <3>1. m = "plan" => Spent(m) = Spent(pc[r]) + 1
      BY <2>2, <2>3
    <3> HIDE DEF Spent
    <3> QED  BY <2>2, <2>3, <3>1, InvokesPays
  <2> QED  BY <2>1, <2>2, <2>3, <2>4, PlainActs, BlankKnows
<1>5. CASE Planned(r)
  <2>1. PICK k : Called(r, k) /\ Goto(r, "toArchitecting")
    BY <1>5, ReturnCalled DEF Planned
  <2> QED  BY <1>5, <2>1, PlainActs, BlankKnows DEF Planned, Settles, KeepWorld, Pays
<1>6. CASE ToArchitecting(r)
  <2>1. PICK k : /\ Called(r, k)
                 /\ \/ Goto(r, "catch") \/ Goto(r, "returned")
                    \/ Goto(r, "toImplementing") /\ k.status = "ARCHITECTING"
    BY <1>6, GateCalled DEF ToArchitecting
  <2>2. PICK m \in {"catch", "returned", "toImplementing"} :
          Goto(r, m) /\ (m = "toImplementing" => k.status = "ARCHITECTING")
    BY <2>1
  <2>3. Knows(m, run[r], k)
    BY <2>2 DEF Knows
  <2> QED  BY <1>6, <2>1, <2>2, <2>3, PlainActs DEF ToArchitecting, At, KeepWorld, Pays
<1>7. CASE ToImplementing(r)
  <2>1. Gate(r, "IMPLEMENTING", "propose") \/ Gate(r, "IMPLEMENTING", "implement")
    BY <1>7 DEF ToImplementing
  <2>2. PICK k : /\ Called(r, k)
                 /\ \/ Goto(r, "catch") \/ Goto(r, "returned")
                    \/ /\ Goto(r, "propose") \/ Goto(r, "implement")
                       /\ InBounds(J(r)) /\ k.status = "IMPLEMENTING"
    BY <2>1, GateCalled
  <2>3. PICK m \in {"catch", "returned", "propose", "implement"} :
          Goto(r, m) /\ (m \in Late => InBounds(J(r)) /\ k.status = "IMPLEMENTING")
    BY <2>2
  <2>4. pc[r] = "toImplementing" /\ thread = r /\ InvokesAt(r, "implement") /\ KeepRun
        /\ UNCHANGED tasks
    BY <1>7 DEF ToImplementing, At
  <2>5. Pays(r, m, run[r].of)
    <3>1. m = "implement" => Spent(m) = Spent(pc[r]) + 1
      BY <2>3, <2>4
    <3> HIDE DEF Spent
    <3> QED  BY <2>3, <2>4, <3>1, InvokesPays
  <2> QED  BY <2>2, <2>3, <2>4, <2>5, PlainActs, BlankKnows
<1> QED  BY <1>1, <1>2, <1>3, <1>4, <1>5, <1>6, <1>7

\* Past the implementation, where the locals stay as they are.
LEMMA LateActs ==
  ASSUME LInv, KInv, NEW r \in Runs,
         \/ Implemented(r) \/ Propose(r) \/ ToExecuting(r) \/ LoopHead(r) \/ Diagnosed(r)
         \/ FixReturned(r) \/ FixFiles(r) \/ ToReviewing(r) \/ ToSecurityReview(r)
         \/ ToVerifying(r) \/ Deliver(r)
  PROVE  \E m, k : Acts(r, m, run[r].of, k)
<1> USE DEF Labels, Awaits, Sync, Ended, Early, Late, Proposing, Passed, Blank, Road, Spent,
            JobState, Waiting, Working, Terminal
<1>1. CASE Implemented(r)
  <2>1. PICK k : Called(r, k) /\ Goto(r, "propose")
    BY <1>1, ReturnCalled DEF Implemented
  <2> QED  BY <1>1, <2>1, PlainActs, BlankKnows DEF Implemented, Settles, KeepWorld, Pays
<1>2. CASE Propose(r)
  <2>1. (UNCHANGED job /\ Goto(r, "toExecuting")) \/ Move(r, "POLICY_DENIED", "returned")
    BY <1>2 DEF Propose
  <2>2. PICK k : Called(r, k) /\ (Goto(r, "catch") \/ Goto(r, "returned") \/ Goto(r, "toExecuting"))
    BY <2>1, MoveCalled, StaysCalled
  <2> QED  BY <1>2, <2>2, PlainActs, BlankKnows DEF Propose, At, KeepWorld, Pays
<1>3. CASE ToExecuting(r)
  <2>1. PICK k : Called(r, k) /\ (Goto(r, "catch") \/ Goto(r, "returned") \/ Goto(r, "govern"))
    BY <1>3, GateCalled DEF ToExecuting
  <2> QED  BY <1>3, <2>1, PlainActs, BlankKnows DEF ToExecuting, At, KeepWorld, Pays
<1>4. CASE LoopHead(r)
  <2>1. \/ UNCHANGED job /\ Goto(r, "giveUp")
        \/ Move(r, "CANCELLED", "returned")
        \/ Gate(r, "ANALYZING_FAILURE", "diagnose") /\ ~(J(r).fixAttempts >= RepairLimit)
    BY <1>4 DEF LoopHead
  <2>2. PICK k : /\ Called(r, k)
                 /\ \/ Goto(r, "catch") \/ Goto(r, "returned") \/ Goto(r, "giveUp")
                    \/ Goto(r, "diagnose") /\ ~(J(r).fixAttempts >= RepairLimit)
    BY <2>1, MoveCalled, GateCalled, StaysCalled
  <2>3. PICK m \in {"catch", "returned", "giveUp", "diagnose"} :
          Goto(r, m) /\ (m = "diagnose" => ~(J(r).fixAttempts >= RepairLimit))
    BY <2>2
  <2>4. pc[r] = "loop" /\ thread = r /\ InvokesAt(r, "diagnose") /\ KeepRun /\ UNCHANGED tasks
    BY <1>4 DEF LoopHead, At
  <2>5. Pays(r, m, run[r].of)
    <3>1. m = "diagnose" => <<pc[r], m>> \in Repairing
      BY <2>4 DEF Repairing
    <3> HIDE DEF Spent
    <3> QED  BY <2>3, <2>4, <3>1, InvokesPays
  <2>6. Knows(m, run[r], k)
    <3>1. J(r).fixAttempts \in Nat /\ RepairLimit \in Nat
      BY Here, LimitTyped DEF JobRecord
    <3>2. m = "diagnose" => k.fixAttempts < RepairLimit
      BY <2>2, <2>3, <3>1 DEF Called
    <3> QED  BY <3>2 DEF Knows
  <2> QED  BY <2>2, <2>3, <2>4, <2>5, <2>6, PlainActs
<1>5. CASE Diagnosed(r)
  <2>1. PICK k : Called(r, k) /\ (Goto(r, "catch") \/ Goto(r, "attempt"))
    BY <1>5, MoveCalled DEF Diagnosed
  <2>2. PICK m \in {"catch", "attempt"} : Goto(r, m)
    BY <2>1
  <2>3. pc[r] = "diagnose" /\ thread = Idle /\ KeepRun /\ KeepWorld
    BY <1>5 DEF Diagnosed, Settles
  <2>4. Knows(m, run[r], k)
    BY <2>1, <2>3 DEF KInv, AllKnow, Knows, Called
  <2> QED  BY <2>1, <2>2, <2>3, <2>4, PlainActs DEF KeepWorld, Pays
<1>6. CASE FixReturned(r)
  <2>1. PICK k : Called(r, k) /\ Goto(r, "fixpropose")
    BY <1>6, ReturnCalled DEF FixReturned
  <2> QED  BY <1>6, <2>1, PlainActs, BlankKnows DEF FixReturned, Settles, KeepWorld, Pays
<1>7. CASE FixFiles(r)
  <2>1. J(r).files # <<>> /\ J(r).files \in Seq(Files)
    BY <1>7, Here DEF FixFiles, At, Placed, JobRecord, After
  <2>2. Head(J(r).files) \in Files
    BY <2>1
  <2>3. PICK k : /\ Called(r, k)
                 /\ Goto(r, "catch") \/ Goto(r, "targeted") \/ Goto(r, "assumeTargeted")
    <3>1. \/ Record(r, CountFile(J(r), Head(J(r).files)), "targeted")
          \/ Record(r, CountFile(J(r), Head(J(r).files)), "assumeTargeted")
      BY <1>7 DEF FixFiles
    <3> QED  BY <2>2, <3>1, Here, OthersCounted, RecordCalled
  <2> QED  BY <1>7, <2>3, PlainActs, BlankKnows DEF FixFiles, At, KeepWorld, Pays
<1>8. CASE ToReviewing(r)
  <2>1. PICK k : Called(r, k) /\ (Goto(r, "catch") \/ Goto(r, "returned") \/ Goto(r, "toSecurityReview"))
    BY <1>8, GateCalled DEF ToReviewing
  <2>2. PICK m \in {"catch", "returned", "toSecurityReview"} : Goto(r, m)
    BY <2>1
  <2>3. Knows(m, run[r], k)
    BY <1>8 DEF KInv, AllKnow, Knows, ToReviewing, At
  <2> QED  BY <1>8, <2>1, <2>2, <2>3, PlainActs DEF ToReviewing, At, KeepWorld, Pays
<1>9. CASE ToSecurityReview(r)
  <2>1. PICK k : Called(r, k) /\ (Goto(r, "catch") \/ Goto(r, "toVerifying"))
    BY <1>9, MoveCalled DEF ToSecurityReview
  <2>2. PICK m \in {"catch", "toVerifying"} : Goto(r, m)
    BY <2>1
  <2>3. Knows(m, run[r], k)
    BY <1>9 DEF KInv, AllKnow, Knows, ToSecurityReview, At
  <2> QED  BY <1>9, <2>1, <2>2, <2>3, PlainActs DEF ToSecurityReview, At, KeepWorld, Pays
<1>10. CASE ToVerifying(r)
  <2>1. PICK k : Called(r, k) /\ (Goto(r, "catch") \/ Goto(r, "returned") \/ Goto(r, "deliver"))
    BY <1>10, GateCalled DEF ToVerifying
  <2>2. PICK m \in {"catch", "returned", "deliver"} : Goto(r, m)
    BY <2>1
  <2>3. Knows(m, run[r], k)
    BY <1>10 DEF KInv, AllKnow, Knows, ToVerifying, At
  <2> QED  BY <1>10, <2>1, <2>2, <2>3, PlainActs DEF ToVerifying, At, KeepWorld, Pays
<1>11. CASE Deliver(r)
  <2>1. pc[r] = "deliver" /\ thread = r /\ KeepRun /\ KeepWorld
    BY <1>11 DEF Deliver, At
  <2>2. J(r).status = "VERIFYING" /\ ~J(r).delivery
    BY <2>1, Here DEF Placed, Sound, JobRecord
  <2>3. Allowed(J(r), "READY_FOR_DELIVERY")
    BY <2>2 DEF Allowed, ValidTransitions, Onward
  <2> DEFINE k == Delivered(J(r))
  <2>4. Set(run[r].of, k) /\ Goto(r, "delivered") /\ Legal(J(r), k)
    BY <1>11, <2>2, <2>3 DEF Deliver, SetJob, Legal
  <2>5. k.fixAttempts = J(r).fixAttempts /\ k.status = "READY_FOR_DELIVERY"
    BY Here DEF Delivered, TransitionTo, JobRecord
  <2>6. Called(r, k)
    BY <2>4, <2>5 DEF Called, Steady
  <2> HIDE DEF k
  <2> QED  BY <2>1, <2>4, <2>6, PlainActs, BlankKnows DEF KeepWorld, Pays
<1> QED  BY <1>1, <1>2, <1>3, <1>4, <1>5, <1>6, <1>7, <1>8, <1>9, <1>10, <1>11

\* The ends that are no ordinary move: giving up, and the catch clause.
LEMMA EndsAct ==
  ASSUME LInv, KInv, NEW r \in Runs, GiveUp(r) \/ Catch(r)
  PROVE  \E m, k : Acts(r, m, run[r].of, k)
<1> USE DEF Labels, Awaits, Sync, Ended, Early, Late, Proposing, Passed, Blank, Road, Spent
<1>0. ASSUME NEW m \in {"catch", "returned", "rejected"}, NEW k, Turn(r, m, run[r].of, k),
             KeepRun, UNCHANGED tasks, pc[r] \in {"giveUp", "catch"}
      PROVE  Acts(r, m, run[r].of, k)
  <2>1. Owns(m, run[r], tasks') /\ Knows(m, run[r], k)
    BY <1>0 DEF KInv, AllKnow, Owns, Implements, Knows
  <2>2. Implements(m, run[r]) => Implements(pc[r], run[r])
    BY <1>0 DEF Implements
  <2> QED  BY <1>0, <2>1, <2>2 DEF Acts, KeepRun
<1>1. CASE GiveUp(r)
  <2>1. pc[r] = "giveUp" /\ thread = r /\ KeepRun /\ KeepWorld /\ Move(r, "BLOCKED", "returned")
    BY <1>1 DEF GiveUp, At
  <2>2. CASE Allowed(J(r), "BLOCKED")
    <3> DEFINE k == TransitionTo(J(r), "BLOCKED")
    <3>1. Set(run[r].of, k) /\ Goto(r, "returned")
      BY <2>1, <2>2 DEF Move, SetJob
    <3>2. Legal(J(r), k)
      BY <2>2 DEF Legal, JobState, Waiting
    <3>3. k.fixAttempts = J(r).fixAttempts
      BY Here DEF TransitionTo, JobRecord
    <3> HIDE DEF k
    <3>4. Turn(r, "returned", run[r].of, k)
      BY <2>1, <3>1, <3>2, <3>3 DEF Turn, J, KeepWorld, Pays
    <3> QED  BY <1>0, <2>1, <3>4 DEF KeepWorld
  <2>3. CASE ~Allowed(J(r), "BLOCKED")
    <3>1. Called(r, J(r)) /\ Goto(r, "catch")
      BY <2>1, <2>3, StaysCalled DEF Move
    <3>2. Turn(r, "catch", run[r].of, J(r))
      BY <2>1, <3>1 DEF Turn, Called, J, KeepWorld, Pays
    <3> QED  BY <1>0, <2>1, <3>2 DEF KeepWorld
  <2> QED  BY <2>2, <2>3
<1>2. CASE Catch(r)
  <2>1. pc[r] = "catch" /\ thread = r /\ KeepRun /\ KeepWorld /\ Goto(r, "rejected")
    BY <1>2 DEF Catch, At
  <2>2. PICK k : Called(r, k) /\ k.status \in Terminal
    <3>1. CASE J(r).status \in Terminal
      <4>1. UNCHANGED job
        BY <1>2, <3>1 DEF Catch
      <4> QED  BY <3>1, <4>1, StaysCalled
    <3>2. CASE J(r).status \notin Terminal
      <4> DEFINE k == TransitionTo(J(r), "FAILED")
      <4>1. Allowed(J(r), "FAILED")
        BY <3>2, Here DEF Allowed, ValidTransitions, Onward, Interrupts, JobState, Waiting,
                          Working, Terminal
      <4>2. Set(run[r].of, k)
        BY <1>2, <3>2, <4>1 DEF Catch, SetJob
      <4>3. Legal(J(r), k)
        BY <4>1 DEF Legal, JobState, Terminal
      <4>4. k.status = "FAILED" /\ k.fixAttempts = J(r).fixAttempts
        BY Here DEF TransitionTo, JobRecord
      <4> HIDE DEF k
      <4> QED  BY <4>2, <4>3, <4>4 DEF Called, Steady, Terminal
    <3> QED  BY <3>1, <3>2
  <2>3. Turn(r, "rejected", run[r].of, k)
    BY <2>1, <2>2 DEF Turn, Called, J, KeepWorld, Pays
  <2> QED  BY <1>0, <2>1, <2>3 DEF KeepWorld
<1> QED  BY <1>1, <1>2

\* Past the proposal, a step that keeps the operations of the run.
LatePath(r, m) ==
  /\ thread \in {r, Idle} /\ pc[r] \in Late \ {"attempt", "giveUp"}
  /\ m \in Labels \ (Proposing \cup {"recordFiles"}) /\ Road(pc[r], m)
Alike(x, y) == x.of = y.of /\ x.custom = y.custom /\ x.ops = y.ops

LEMMA LateNoted ==
  ASSUME LInv, KInv, NEW r \in Runs, NEW m, LatePath(r, m), Goto(r, m), NEW k, Called(r, k),
         invoked' = invoked \/ Pays(r, m, run[r].of), UNCHANGED tasks,
         NEW x, Alike(x, run[r]), run' = [run EXCEPT ![r] = x], Knows(m, x, k)
  PROVE  Acts(r, m, run[r].of, k)
<1>1. Owns(m, x, tasks)
  BY DEF KInv, AllKnow, Owns, Implements, LatePath, Alike
<1>2. Implements(m, x) => Implements(pc[r], run[r])
  BY DEF Implements, LatePath, Alike
<1>3. Pays(r, m, run[r].of)
  BY DEF Pays
<1>4. /\ m \in Labels /\ thread \in {r, Idle} /\ Road(pc[r], m) /\ pc[r] \in Late
      /\ pc[r] \notin {"idle", "attempt", "giveUp", "catch"}
  BY DEF LatePath, Late
<1> QED  BY <1>1, <1>2, <1>3, <1>4, NotedActs DEF Alike

\* The tests and the repairs that note their outcome in the locals of the run.
LEMMA OutcomeActs ==
  ASSUME LInv, KInv, NEW r \in Runs,
         \/ RecordFiles(r) \/ ToTesting(r) \/ Tested(r) \/ RecordTest(r) \/ Rediagnosed(r)
         \/ TargetedReturns(r) \/ TargetedAssumed(r) \/ RegressionReturns(r)
         \/ RegressionAssumed(r) \/ Repaired(r)
  PROVE  \E m, k : Acts(r, m, run[r].of, k)
<1> USE DEF Labels, Awaits, Sync, Ended, Early, Late, Proposing, Passed, Blank, Road, Spent,
            JobState, Waiting, Working, Terminal
<1>0. /\ run \in [Runs -> Local] /\ run[r] \in Local /\ Knows(pc[r], run[r], J(r))
      /\ CountCommand(J(r)) \in Counted(J(r))
      /\ CountCommand(J(r)).fixAttempts = J(r).fixAttempts
      /\ run = [run EXCEPT ![r] = run[r]]
  BY Here, OthersCounted DEF LInv, LoopTypeOK, KInv, AllKnow
<1>1. CASE RecordFiles(r)
  <2>1. pc[r] = "recordFiles" /\ thread = r /\ KeepWorld
    BY <1>1 DEF RecordFiles, At
  <2>2. CASE run[r].ops = <<>>
    <3>1. Called(r, J(r)) /\ Goto(r, "toTesting") /\ run' = run
      BY <1>1, <2>2, StaysCalled DEF RecordFiles
    <3> QED  BY <2>1, <3>1, PlainActs, BlankKnows DEF KeepWorld, Pays, KeepRun
  <2>3. CASE run[r].ops # <<>>
    <3> DEFINE x == [run[r] EXCEPT !.ops = Tail(run[r].ops)]
    <3>1. run[r].ops \in Seq(Files) /\ Head(run[r].ops) \in Files
      BY <2>3, Here
    <3>2. PICK k : Called(r, k) /\ (Goto(r, "catch") \/ Goto(r, "recordFiles"))
      <4>1. Record(r, CountFile(J(r), Head(run[r].ops)), "recordFiles")
        BY <1>1, <2>3 DEF RecordFiles
      <4> QED  BY <3>1, <4>1, Here, OthersCounted, RecordCalled
    <3>3. PICK m \in {"catch", "recordFiles"} : Goto(r, m)
      BY <3>2
    <3>4. x.of = run[r].of /\ x.custom = run[r].custom
      BY <1>0 DEF Local
    <3>5. run' = [run EXCEPT ![r] = x]
      BY <1>0, <1>1, <2>3 DEF RecordFiles
    <3> HIDE DEF x
    <3>6. Implements(m, x) => Implements(pc[r], run[r])
      BY <2>1, <3>4 DEF Implements
    <3>7. Owns(m, x, tasks)
      BY <2>1, <3>3, <3>4, <3>6 DEF Owns, KInv, AllKnow
    <3>8. /\ m \in Labels /\ thread \in {r, Idle} /\ Road(pc[r], m) /\ pc[r] \in Late
          /\ pc[r] \notin {"idle", "attempt", "giveUp", "catch"}
      BY <2>1, <3>3
    <3>9. Knows(m, x, k) /\ Pays(r, m, run[r].of)
      BY <2>1, <3>3, BlankKnows DEF KeepWorld, Pays
    <3> HIDE DEF Labels, Late, Road
    <3> QED  BY <2>1, <3>2, <3>3, <3>4, <3>5, <3>6, <3>7, <3>8, <3>9, NotedActs DEF KeepWorld
  <2> QED  BY <2>2, <2>3
<1>2. CASE ToTesting(r)
  <2>1. pc[r] = "toTesting" /\ thread = r /\ KeepWorld
    BY <1>2 DEF ToTesting, At
  <2> DEFINE next == IF LaunchesTest(r) THEN "test" ELSE "recordTest"
  <2>2. PICK k : Called(r, k) /\ (Goto(r, "catch") \/ Goto(r, "returned") \/ Goto(r, next))
    BY <1>2, GateCalled DEF ToTesting
  <2>3. PICK m \in {"catch", "returned", next} : Goto(r, m)
    BY <2>2
  <2>4. pc'[r] = m
    BY <2>3 DEF LInv, LoopTypeOK, Goto
  <2>5. CASE m \in {"catch", "returned"}
    <3>1. run' = run
      BY <1>2, <2>4, <2>5 DEF ToTesting
    <3> QED  BY <2>1, <2>2, <2>3, <2>5, <3>1, PlainActs, BlankKnows DEF KeepWorld, Pays, KeepRun
  <2>6. CASE m = "test"
    <3> DEFINE x == [run[r] EXCEPT !.unseen = {}]
    <3>1. run' = [run EXCEPT ![r] = x]
      BY <1>2, <2>4, <2>6 DEF ToTesting
    <3>2. /\ x.of = run[r].of /\ x.custom = run[r].custom /\ x.ops = run[r].ops
          /\ x.claim = run[r].claim /\ x.unseen = {}
      BY <1>0 DEF Local
    <3>3. run[r].claim = "none"
      BY <2>3, <2>6 DEF LaunchesTest
    <3> HIDE DEF x
    <3>4. Knows(m, x, k)
      BY <2>6, <3>2, <3>3 DEF Knows, UpToDate
    <3>path. LatePath(r, m)
      BY <2>1, <2>2, <2>3, <2>6, <3>1, <3>2, <3>4 DEF LatePath
    <3>like. Alike(x, run[r])
      BY <2>1, <2>2, <2>3, <2>6, <3>1, <3>2, <3>4 DEF Alike
    <3> QED  BY <2>1, <2>2, <2>3, <2>6, <3>1, <3>2, <3>4, <3>path, <3>like, LateNoted DEF KeepWorld
  <2>7. CASE m = "recordTest"
    <3> DEFINE v == IF run[r].claim = "none" THEN "pass" ELSE run[r].claim
               x == [run[r] EXCEPT !.evidence = v]
    <3>1. run' = [run EXCEPT ![r] = x]
      BY <1>2, <2>4, <2>7 DEF ToTesting
    <3>2. /\ x.of = run[r].of /\ x.custom = run[r].custom /\ x.ops = run[r].ops
          /\ x.claim = run[r].claim /\ x.evidence = v
      BY <1>0 DEF Local
    <3>3. run[r].claim # "none" \/ ~AssumesNothing
      BY <2>3, <2>7 DEF LaunchesTest, AssumesNothing
    <3> HIDE DEF x
    <3>4. Knows(m, x, k)
      BY <2>7, <3>2, <3>3 DEF Knows
    <3>path. LatePath(r, m)
      BY <2>1, <2>2, <2>3, <2>7, <3>1, <3>2, <3>4 DEF LatePath
    <3>like. Alike(x, run[r])
      BY <2>1, <2>2, <2>3, <2>7, <3>1, <3>2, <3>4 DEF Alike
    <3> QED  BY <2>1, <2>2, <2>3, <2>7, <3>1, <3>2, <3>4, <3>path, <3>like, LateNoted DEF KeepWorld
  <2> QED  BY <2>3, <2>5, <2>6, <2>7
<1>3. CASE Tested(r)
  <2>1. pc[r] = "test" /\ thread = Idle /\ KeepWorld /\ Called(r, J(r))
    BY <1>3, StaysCalled DEF Tested, Settles
  <2>2. CASE KeepRun /\ Goto(r, "catch")
    BY <2>1, <2>2, PlainActs, BlankKnows DEF KeepWorld, Pays
  <2>3. CASE \E result \in {"pass", "fail"} :
               run' = [run EXCEPT ![r].evidence = result] /\ Goto(r, "recordTest")
    <3>1. PICK result \in {"pass", "fail"} :
               run' = [run EXCEPT ![r].evidence = result] /\ Goto(r, "recordTest")
      BY <2>3
    <3> DEFINE x == [run[r] EXCEPT !.evidence = result]
    <3>2. run' = [run EXCEPT ![r] = x]
      BY <3>1
    <3>3. /\ x.of = run[r].of /\ x.custom = run[r].custom /\ x.ops = run[r].ops
          /\ x.claim = run[r].claim /\ x.unseen = run[r].unseen
      BY <1>0 DEF Local
    <3> HIDE DEF x
    <3>4. Knows("recordTest", x, J(r))
      BY <1>0, <2>1, <3>3 DEF Knows, UpToDate
    <3>path. LatePath(r, "recordTest")
      BY <2>1, <3>1, <3>2, <3>3, <3>4 DEF LatePath
    <3>like. Alike(x, run[r])
      BY <2>1, <3>1, <3>2, <3>3, <3>4 DEF Alike
    <3> QED  BY <2>1, <3>1, <3>2, <3>3, <3>4, <3>path, <3>like, LateNoted DEF KeepWorld
  <2> QED  BY <1>3, <2>2, <2>3 DEF Tested
<1>4. CASE RecordTest(r)
  <2>1. pc[r] = "recordTest" /\ thread = r /\ KeepWorld
    BY <1>4 DEF RecordTest, At
  <2> DEFINE next == IF run[r].evidence = "pass" THEN "toReviewing" ELSE "loop"
             x == [run[r] EXCEPT !.lastFailure = run[r].evidence]
  <2>2. PICK k : Called(r, k) /\ (Goto(r, "catch") \/ Goto(r, next))
    BY <1>0, <1>4, RecordCalled DEF RecordTest
  <2>3. PICK m \in {"catch", next} : Goto(r, m)
    BY <2>2
  <2>4. run' = [run EXCEPT ![r] = x]
    BY <1>4 DEF RecordTest
  <2>5. /\ x.of = run[r].of /\ x.custom = run[r].custom /\ x.ops = run[r].ops
        /\ x.claim = run[r].claim /\ x.unseen = run[r].unseen /\ x.evidence = run[r].evidence
    BY <1>0 DEF Local
  <2>6. m = "catch" \/ (m = "toReviewing" /\ run[r].evidence = "pass") \/ m = "loop"
    BY <2>3
  <2> HIDE DEF x, next
  <2>7. Knows(m, x, k)
    BY <1>0, <2>1, <2>5, <2>6 DEF Knows, UpToDate
  <2>path. LatePath(r, m)
    BY <2>1, <2>2, <2>3, <2>4, <2>5, <2>6, <2>7 DEF LatePath
  <2>like. Alike(x, run[r])
    BY <2>1, <2>2, <2>3, <2>4, <2>5, <2>6, <2>7 DEF Alike
  <2> QED  BY <2>1, <2>2, <2>3, <2>4, <2>5, <2>6, <2>7, <2>path, <2>like, LateNoted DEF KeepWorld
<1>5. CASE Rediagnosed(r)
  <2> DEFINE x == [run[r] EXCEPT !.task = FixTask(run[r].of, attemptCount)]
  <2>1. pc[r] = "rediagnose" /\ thread = Idle /\ Called(r, J(r)) /\ Goto(r, "fixcall")
        /\ UNCHANGED tasks /\ InvokesAt(r, "fixcall") /\ run' = [run EXCEPT ![r] = x]
    BY <1>5, StaysCalled DEF Rediagnosed, Settles
  <2>2. x.of = run[r].of /\ x.custom = run[r].custom /\ x.ops = run[r].ops
    BY <1>0 DEF Local
  <2>3. Pays(r, "fixcall", run[r].of)
    <3>1. <<pc[r], "fixcall">> \in Repairing
      BY <2>1 DEF Repairing
    <3> HIDE DEF Spent
    <3> QED  BY <2>1, <3>1, InvokesPays
  <2> HIDE DEF x
  <2>path. LatePath(r, "fixcall")
    BY <2>1, <2>2, <2>3 DEF LatePath
  <2>know. Knows("fixcall", x, J(r))
    BY BlankKnows
  <2>like. Alike(x, run[r])
    BY <2>1, <2>2, <2>3 DEF Alike
  <2> QED  BY <2>1, <2>2, <2>3, <2>know, <2>path, <2>like, LateNoted DEF KeepWorld
<1>p. ASSUME TargetedPasses(r), pc[r] \in {"targeted", "assumeTargeted"}, thread \in {r, Idle}, KeepWorld
      PROVE  \E m, k : Acts(r, m, run[r].of, k)
  <2>1. CASE "regression" \in Runners
    <3> DEFINE x == [run[r] EXCEPT !.targeted = "pass", !.unseen = {}]
    <3>1. PICK k : Called(r, k) /\ (Goto(r, "catch") \/ Goto(r, "regression"))
      BY <1>0, <1>p, <2>1, RecordCalled DEF TargetedPasses
    <3>2. PICK m \in {"catch", "regression"} : Goto(r, m)
      BY <3>1
    <3>3. run' = [run EXCEPT ![r] = x]
      BY <1>0, <1>p, <2>1 DEF TargetedPasses
    <3>4. /\ x.of = run[r].of /\ x.custom = run[r].custom /\ x.ops = run[r].ops
          /\ x.unseen = {}
      BY <1>0 DEF Local
    <3> HIDE DEF x
    <3>5. Knows(m, x, k)
      BY <3>2, <3>4 DEF Knows, UpToDate
    <3>path. LatePath(r, m)
      BY <1>p, <3>2 DEF LatePath
    <3>like. Alike(x, run[r])
      BY <3>4 DEF Alike
    <3> QED  BY <1>p, <3>1, <3>2, <3>3, <3>5, <3>path, <3>like, LateNoted DEF KeepWorld
  <2>2. CASE "regression" \notin Runners
    <3> DEFINE x == [run[r] EXCEPT !.targeted = "pass"]
    <3>1. PICK k : Called(r, k) /\ (Goto(r, "catch") \/ Goto(r, "assumeRegression"))
      BY <1>0, <1>p, <2>2, RecordCalled DEF TargetedPasses
    <3>2. PICK m \in {"catch", "assumeRegression"} : Goto(r, m)
      BY <3>1
    <3>3. run' = [run EXCEPT ![r] = x]
      BY <1>0, <1>p, <2>2 DEF TargetedPasses
    <3>4. x.of = run[r].of /\ x.custom = run[r].custom /\ x.ops = run[r].ops
      BY <1>0 DEF Local
    <3> HIDE DEF x
    <3>5. Knows(m, x, k)
      BY <2>2, <3>2 DEF Knows, AssumesNothing
    <3>path. LatePath(r, m)
      BY <1>p, <3>2 DEF LatePath
    <3>like. Alike(x, run[r])
      BY <3>4 DEF Alike
    <3> QED  BY <1>p, <3>1, <3>2, <3>3, <3>5, <3>path, <3>like, LateNoted DEF KeepWorld
  <2> QED  BY <2>1, <2>2
<1>6. CASE TargetedReturns(r)
  <2>1. pc[r] = "targeted" /\ thread = Idle /\ KeepWorld
    BY <1>6 DEF TargetedReturns, Settles
  <2>2. CASE UNCHANGED job /\ Goto(r, "catch") /\ KeepRun
    BY <2>1, <2>2, StaysCalled, PlainActs, BlankKnows DEF KeepWorld, Pays
  <2>3. CASE /\ Record(r, CountCommand(J(r)), "repaired")
             /\ run' = [run EXCEPT ![r].outcome = "ATTEMPT_FAILED", ![r].targeted = "fail"]
    <3> DEFINE x == [run[r] EXCEPT !.outcome = "ATTEMPT_FAILED", !.targeted = "fail"]
    <3>1. PICK k : Called(r, k) /\ (Goto(r, "catch") \/ Goto(r, "repaired"))
      BY <1>0, <2>3, RecordCalled
    <3>2. PICK m \in {"catch", "repaired"} : Goto(r, m)
      BY <3>1
    <3>3. run' = [run EXCEPT ![r] = x]
      BY <1>0, <2>3
    <3>4. /\ x.of = run[r].of /\ x.custom = run[r].custom /\ x.ops = run[r].ops
          /\ x.outcome = "ATTEMPT_FAILED"
      BY <1>0 DEF Local
    <3> HIDE DEF x
    <3>5. Knows(m, x, k)
      BY <3>2, <3>4 DEF Knows
    <3>path. LatePath(r, m)
      BY <2>1, <3>1, <3>2, <3>3, <3>4, <3>5 DEF LatePath
    <3>like. Alike(x, run[r])
      BY <2>1, <3>1, <3>2, <3>3, <3>4, <3>5 DEF Alike
    <3> QED  BY <2>1, <3>1, <3>2, <3>3, <3>4, <3>5, <3>path, <3>like, LateNoted DEF KeepWorld
  <2>4. CASE TargetedPasses(r)
    BY <1>p, <2>1, <2>4
  <2> QED  BY <1>6, <2>2, <2>3, <2>4 DEF TargetedReturns
<1>9. CASE TargetedAssumed(r)
  BY <1>9, <1>p DEF TargetedAssumed, At
<1>10. CASE RegressionAssumed(r)
  <2>1. pc[r] = "assumeRegression" /\ thread = r /\ KeepWorld
    BY <1>10 DEF RegressionAssumed, At
  <2> DEFINE x == [run[r] EXCEPT !.outcome = "REPAIRED"]
  <2>2. PICK k : Called(r, k) /\ (Goto(r, "catch") \/ Goto(r, "repaired"))
    BY <1>0, <1>10, RecordCalled DEF RegressionAssumed
  <2>3. PICK m \in {"catch", "repaired"} : Goto(r, m)
    BY <2>2
  <2>4. run' = [run EXCEPT ![r] = x]
    BY <1>10 DEF RegressionAssumed
  <2>5. x.of = run[r].of /\ x.custom = run[r].custom /\ x.ops = run[r].ops
    BY <1>0 DEF Local
  <2> HIDE DEF x
  <2>6. Knows(m, x, k)
    BY <1>0, <2>1, <2>3 DEF Knows
  <2>path. LatePath(r, m)
    BY <2>1, <2>3 DEF LatePath
  <2>like. Alike(x, run[r])
    BY <2>5 DEF Alike
  <2> QED  BY <2>1, <2>2, <2>3, <2>4, <2>5, <2>6, <2>path, <2>like, LateNoted DEF KeepWorld
<1>7. CASE RegressionReturns(r)
  <2>1. pc[r] = "regression" /\ thread = Idle /\ KeepWorld
    BY <1>7 DEF RegressionReturns, Settles
  <2>2. CASE UNCHANGED job /\ Goto(r, "catch") /\ KeepRun
    BY <2>1, <2>2, StaysCalled, PlainActs, BlankKnows DEF KeepWorld, Pays
  <2>3. CASE \E outcome \in {"REPAIRED", "ATTEMPT_FAILED"} :
               /\ Record(r, CountCommand(J(r)), "repaired")
               /\ run' = [run EXCEPT ![r].outcome = outcome]
    <3>1. PICK outcome \in {"REPAIRED", "ATTEMPT_FAILED"} :
               /\ Record(r, CountCommand(J(r)), "repaired")
               /\ run' = [run EXCEPT ![r].outcome = outcome]
      BY <2>3
    <3> DEFINE x == [run[r] EXCEPT !.outcome = outcome]
    <3>2. PICK k : Called(r, k) /\ (Goto(r, "catch") \/ Goto(r, "repaired"))
      BY <1>0, <3>1, RecordCalled
    <3>3. PICK m \in {"catch", "repaired"} : Goto(r, m)
      BY <3>2
    <3>4. run' = [run EXCEPT ![r] = x]
      BY <3>1
    <3>5. /\ x.of = run[r].of /\ x.custom = run[r].custom /\ x.ops = run[r].ops
          /\ x.unseen = run[r].unseen
      BY <1>0 DEF Local
    <3> HIDE DEF x
    <3>6. Knows(m, x, k)
      BY <1>0, <2>1, <3>3, <3>5 DEF Knows, UpToDate
    <3>path. LatePath(r, m)
      BY <2>1, <3>2, <3>3, <3>4, <3>5, <3>6 DEF LatePath
    <3>like. Alike(x, run[r])
      BY <2>1, <3>2, <3>3, <3>4, <3>5, <3>6 DEF Alike
    <3> QED  BY <2>1, <3>2, <3>3, <3>4, <3>5, <3>6, <3>path, <3>like, LateNoted DEF KeepWorld
  <2> QED  BY <1>7, <2>2, <2>3 DEF RegressionReturns
<1>8. CASE Repaired(r)
  <2>1. pc[r] = "repaired" /\ thread = Idle /\ KeepWorld
    BY <1>8 DEF Repaired, Settles
  <2>2. CASE UNCHANGED job /\ (Goto(r, "giveUp") \/ Goto(r, "catch")) /\ KeepRun
    BY <2>1, <2>2, StaysCalled, PlainActs, BlankKnows DEF KeepWorld, Pays
  <2>3. CASE /\ run[r].outcome = "REPAIRED"
             /\ Move(r, "RETESTING", "toReviewing")
             /\ run' = [run EXCEPT ![r].evidence = "pass"]
    <3> DEFINE x == [run[r] EXCEPT !.evidence = "pass"]
    <3>1. PICK k : Called(r, k) /\ (Goto(r, "catch") \/ Goto(r, "toReviewing"))
      BY <2>3, MoveCalled
    <3>2. PICK m \in {"catch", "toReviewing"} : Goto(r, m)
      BY <3>1
    <3>3. run' = [run EXCEPT ![r] = x]
      BY <2>3
    <3>4. /\ x.of = run[r].of /\ x.custom = run[r].custom /\ x.ops = run[r].ops
          /\ x.evidence = "pass" /\ x.unseen = run[r].unseen
      BY <1>0 DEF Local
    <3> HIDE DEF x
    <3>5. Knows(m, x, k)
      BY <1>0, <2>1, <2>3, <3>2, <3>4 DEF Knows, UpToDate
    <3>path. LatePath(r, m)
      BY <2>1, <3>1, <3>2, <3>3, <3>4, <3>5 DEF LatePath
    <3>like. Alike(x, run[r])
      BY <2>1, <3>1, <3>2, <3>3, <3>4, <3>5 DEF Alike
    <3> QED  BY <2>1, <3>1, <3>2, <3>3, <3>4, <3>5, <3>path, <3>like, LateNoted DEF KeepWorld
  <2>4. CASE /\ UNCHANGED job /\ Goto(r, "loop")
             /\ run' = [run EXCEPT ![r].lastFailure =
                           IF run[r].targeted # "none" THEN run[r].targeted ELSE @]
    <3>1. PICK v : run' = [run EXCEPT ![r].lastFailure = v]
      BY <2>4
    <3> DEFINE x == [run[r] EXCEPT !.lastFailure = v]
    <3>2. run' = [run EXCEPT ![r] = x]
      BY <3>1
    <3>3. x.of = run[r].of /\ x.custom = run[r].custom /\ x.ops = run[r].ops
      BY <1>0 DEF Local
    <3> HIDE DEF x
    <3>path. LatePath(r, "loop")
      BY <2>1, <2>4, <3>2, <3>3 DEF LatePath
    <3>know. Knows("loop", x, J(r))
      BY BlankKnows
    <3>like. Alike(x, run[r])
      BY <2>1, <2>4, <3>2, <3>3 DEF Alike
    <3> QED  BY <2>1, <2>4, <3>2, <3>3, <3>know, <3>path, <3>like, LateNoted, StaysCalled DEF KeepWorld
  <2> QED  BY <1>8, <2>2, <2>3, <2>4 DEF Repaired
<1> QED  BY <1>1, <1>2, <1>3, <1>4, <1>5, <1>6, <1>7, <1>8, <1>9, <1>10

\* The step that counts a repair, for the controller and for the job.
LEMMA AttemptActs ==
  ASSUME LInv, KInv, NEW r \in Runs, Attempt(r)
  PROVE  \E m, k : Acts(r, m, run[r].of, k)
<1> DEFINE c == CountFixAttempt(J(r))
           k == CheckBounds(c)
<1>1. pc[r] = "attempt" /\ thread = r /\ UNCHANGED <<tasks, written>> /\ run[r] \in Local
  BY Here DEF Attempt, At
<1>2. /\ Set(run[r].of, k)
      /\ \/ (Goto(r, "catch") \/ Goto(r, "repaired")) /\ UNCHANGED invoked
         \/ (Goto(r, "catch") \/ Goto(r, "rediagnose")) /\ InvokesAt(r, "rediagnose")
  BY DEF Attempt, Record, SetJob
<1>3. PICK m \in {"catch", "repaired", "rediagnose"} :
        /\ Goto(r, m)
        /\ \/ m # "rediagnose" /\ UNCHANGED invoked
           \/ InvokesAt(r, "rediagnose")
  BY <1>2
<1>4. PICK outcome \in {"LIMIT_EXCEEDED", "none"} :
        run' = [run EXCEPT ![r].outcome = outcome, ![r].targeted = "none"]
  BY DEF Attempt
<1> DEFINE x == [run[r] EXCEPT !.outcome = outcome, !.targeted = "none"]
<1>5. run' = [run EXCEPT ![r] = x] /\ run \in [Runs -> Local]
  BY <1>4 DEF LInv, LoopTypeOK
<1>6. Alike(x, run[r]) /\ x.outcome # "REPAIRED"
  BY <1>1 DEF Local, Alike
<1>7. c \in Counted(J(r)) /\ c.fixAttempts = J(r).fixAttempts + 1
  BY Here, OthersCounted
<1>8. c \in JobRecord /\ c.status = J(r).status
  BY <1>7, Here, CountedKeeps
<1>9. Legal(J(r), k)
  BY <1>7 DEF Legal
<1> HIDE DEF c
<1>10. k.fixAttempts = J(r).fixAttempts + 1 /\ Steady(J(r), k)
  BY <1>7, <1>8, Here, CheckSteady DEF Steady
<1> HIDE DEF k, x
<1>11. Road("attempt", m) /\ m \in Labels
  BY <1>3 DEF Road, Labels, Awaits, Sync, Ended, Early, Late, Spent
<1>12. Pays(r, m, run[r].of)
  <2>1. CASE m # "rediagnose" /\ UNCHANGED invoked
    BY <2>1 DEF Pays
  <2>2. CASE InvokesAt(r, "rediagnose")
    BY <1>1, <1>3, <2>2, InvokesPays DEF Repairing
  <2> QED  BY <1>3, <2>1, <2>2
<1>13. Turn(r, m, run[r].of, k)
  BY <1>1, <1>2, <1>3, <1>9, <1>10, <1>11, <1>12 DEF Turn, J, Late
<1>14. Knows(m, x, k)
  BY <1>3, <1>6 DEF Knows, Passed
<1>15. Owns(m, x, tasks) /\ (Implements(m, x) => Implements(pc[r], run[r]))
  BY <1>1, <1>3, <1>6 DEF KInv, AllKnow, Owns, Implements, Alike, Proposing, Early
<1> QED  BY <1>1, <1>5, <1>6, <1>13, <1>14, <1>15 DEF Acts, Alike

\* A write of the bridge is noted by every run that waits for a test.
LEMMA WriteMarks ==
  ASSUME LInv, NEW r \in Runs, NEW task, NEW f, BridgeWrites(r, task, f)
  PROVE  /\ tasks' = tasks \cup {task}
         /\ \A q \in Runs : run'[q] = Marked(run[q], run[r].of)
         /\ Alike(run'[r], run[r]) /\ run'[r].task = run[r].task
<1>1. \A q \in Runs : run'[q] = Marked(run[q], run[r].of)
  BY DEF BridgeWrites, Marked
<1>2. run[r] \in Local
  BY Here
<1> QED  BY <1>1, <1>2 DEF BridgeWrites, Marked, Local, Alike

\* The bridge refuses the id of a task that exists, so a generated proposal that is
\* written had its job's id to itself.
LEMMA GovernActs ==
  ASSUME LInv, KInv, NEW r \in Runs, Govern(r)
  PROVE  \E m, k : Acts(r, m, run[r].of, k)
<1>1. /\ pc[r] = "govern" /\ thread = r /\ UNCHANGED invoked /\ run \in [Runs -> Local]
      /\ Owns("govern", run[r], tasks)
  BY DEF Govern, At, LInv, LoopTypeOK, KInv, AllKnow
<1>2. "POLICY_DENIED" \in JobState \ {"READY_FOR_DELIVERY", "BLOCKED"}
      /\ "FAILED" \in JobState \ {"READY_FOR_DELIVERY", "BLOCKED"}
  BY DEF JobState, Terminal
<1>3. ASSUME NEW m \in {"catch", "returned", "recordFiles"}, NEW k, Goto(r, m), Called(r, k)
      PROVE  Turn(r, m, run[r].of, k)
  BY <1>1, <1>3 DEF Turn, Called, J, Pays, Road, Labels, Awaits, Sync, Ended, Early, Late, Spent
<1>4. ASSUME NEW m \in {"catch", "returned"}, NEW k, Goto(r, m), Called(r, k), KeepRun,
             tasks \subseteq tasks'
      PROVE  Acts(r, m, run[r].of, k)
  <2>1. Knows(m, run[r], k)
    BY <1>4 DEF Knows, Passed
  <2>2. Owns(m, run[r], tasks')
    BY <1>1, <1>4 DEF Owns, Implements, Proposing, Early
  <2>3. Implements(m, run[r]) => Implements(pc[r], run[r])
    BY <1>4 DEF Implements
  <2> QED  BY <1>1, <1>3, <1>4, <2>1, <2>2, <2>3 DEF Acts, KeepRun
<1>5. CASE Move(r, "POLICY_DENIED", "returned") /\ KeepRun /\ UNCHANGED tasks
  <2>1. PICK k : Called(r, k) /\ (Goto(r, "catch") \/ Goto(r, "returned"))
    BY <1>2, <1>5, MoveCalled
  <2> QED  BY <1>4, <1>5, <2>1
<1>6. CASE UNCHANGED job /\ Goto(r, "catch") /\ KeepRun /\ UNCHANGED tasks
  BY <1>4, <1>6, StaysCalled
<1>7. CASE BridgeFails(run[r].task) /\ Move(r, "FAILED", "returned")
  <2>1. PICK k : Called(r, k) /\ (Goto(r, "catch") \/ Goto(r, "returned"))
    BY <1>2, <1>7, MoveCalled
  <2>2. KeepRun /\ tasks \subseteq tasks'
    BY <1>7 DEF BridgeFails, KeepRun
  <2> QED  BY <1>4, <2>1, <2>2
<1>8. CASE /\ ~TaskConflict(run[r].task)
           /\ BridgeWrites(r, run[r].task, Head(run[r].ops))
           /\ UNCHANGED job /\ Goto(r, "recordFiles")
  <2>1. /\ tasks' = tasks \cup {run[r].task}
        /\ \A q \in Runs : run'[q] = Marked(run[q], run[r].of)
        /\ Alike(run'[r], run[r]) /\ run'[r].task = run[r].task
    BY <1>8, WriteMarks
  <2>2. run[r].task \notin tasks
    BY <1>8 DEF TaskConflict
  <2>3. ~run[r].custom => run[r].task = MainTask(run[r].of)
    BY <1>1 DEF Owns, Proposing
  <2>4. Turn(r, "recordFiles", run[r].of, J(r))
    BY <1>3, <1>8, StaysCalled
  <2>5. Knows("recordFiles", run'[r], J(r))
    BY DEF Knows, Passed
  <2>6. Owns("recordFiles", run'[r], tasks')
    BY <2>1, <2>3 DEF Owns, Implements, Alike, Proposing, Early
  <2>7. Implements("recordFiles", run'[r]) => MainTask(run[r].of) \notin tasks
    BY <2>1, <2>2, <2>3 DEF Implements, Alike
  <2>8. pc[r] \in Late
    BY <1>1 DEF Late
  <2> QED  BY <1>1, <2>1, <2>4, <2>5, <2>6, <2>7, <2>8 DEF Acts, Alike
<1> QED  BY <1>5, <1>6, <1>7, <1>8 DEF Govern

\* A repair writes while its own run has the thread, and marks the others.
LEMMA FixProposeActs ==
  ASSUME LInv, KInv, NEW r \in Runs, FixPropose(r)
  PROVE  \E m, k : Acts(r, m, run[r].of, k)
<1>1. /\ pc[r] = "fixpropose" /\ thread = r /\ UNCHANGED <<job, invoked>>
      /\ run \in [Runs -> Local] /\ run[r] \in Local /\ Called(r, J(r))
  BY Here, StaysCalled DEF FixPropose, At, LInv, LoopTypeOK
<1>2. ASSUME NEW m \in {"catch", "repaired", "fixfiles"}, Goto(r, m), Alike(run'[r], run[r]),
             m = "repaired" => run'[r].outcome # "REPAIRED", tasks \subseteq tasks',
             \A q \in Runs \ {r} : run'[q] = run[q] \/ run'[q] = Marked(run[q], run[r].of)
      PROVE  Acts(r, m, run[r].of, J(r))
  <2>1. Turn(r, m, run[r].of, J(r))
    BY <1>1, <1>2 DEF Turn, Called, J, Pays, Road, Labels, Awaits, Sync, Ended, Early, Late, Spent
  <2>2. Knows(m, run'[r], J(r))
    BY <1>2 DEF Knows, Passed
  <2>3. Implements(m, run'[r]) => Implements(pc[r], run[r])
    BY <1>2 DEF Implements, Alike
  <2>4. Owns(m, run'[r], tasks')
    BY <1>2, <2>3 DEF KInv, AllKnow, Owns, Alike, Proposing, Early
  <2>5. pc[r] \in Late /\ pc[r] # "idle"
    BY <1>1 DEF Late
  <2> QED  BY <1>2, <2>1, <2>2, <2>3, <2>4, <2>5 DEF Acts, Alike
<1>3. CASE \E outcome \in {"SECURITY_BLOCKED", "ADMISSION_DENIED", "ATTEMPT_FAILED"} :
             RepairEnds(r, outcome, "none") /\ tasks \subseteq tasks'
  <2>1. PICK outcome \in {"SECURITY_BLOCKED", "ADMISSION_DENIED", "ATTEMPT_FAILED"} :
          RepairEnds(r, outcome, "none") /\ tasks \subseteq tasks'
    BY <1>3
  <2> DEFINE x == [run[r] EXCEPT !.outcome = outcome, !.targeted = "none"]
  <2>2. run' = [run EXCEPT ![r] = x] /\ Goto(r, "repaired")
    BY <1>1, <2>1 DEF RepairEnds
  <2>3. Alike(x, run[r]) /\ x.outcome = outcome
    BY <1>1 DEF Local, Alike
  <2> HIDE DEF x
  <2>4. run'[r] = x /\ \A q \in Runs \ {r} : run'[q] = run[q]
    BY <1>1, <2>2
  <2> QED  BY <1>2, <2>1, <2>2, <2>3, <2>4
<1>4. CASE Goto(r, "catch") /\ KeepRun /\ UNCHANGED tasks
  BY <1>2, <1>4 DEF KeepRun, Alike
<1>5. CASE BridgeWrites(r, run[r].task, Head(J(r).files)) /\ Goto(r, "fixfiles")
  <2>1. /\ tasks' = tasks \cup {run[r].task}
        /\ \A q \in Runs : run'[q] = Marked(run[q], run[r].of)
        /\ Alike(run'[r], run[r])
    BY <1>5, WriteMarks
  <2> QED  BY <1>2, <1>5, <2>1
<1>6. \/ \E outcome \in {"SECURITY_BLOCKED", "ADMISSION_DENIED", "ATTEMPT_FAILED"} :
           RepairEnds(r, outcome, "none") /\ tasks \subseteq tasks'
      \/ Goto(r, "catch") /\ KeepRun /\ UNCHANGED tasks
      \/ BridgeWrites(r, run[r].task, Head(J(r).files)) /\ Goto(r, "fixfiles")
  BY DEF FixPropose
<1> QED  BY <1>3, <1>4, <1>5, <1>6

\* A run begins with nothing spent, and with operations still to be written.
LEMMA ExecuteActs ==
  ASSUME LInv, KInv, NEW r \in Runs, NEW i \in Jobs, Execute(r, i)
  PROVE  \E m, k : Acts(r, m, i, k)
<1>1. /\ run \in [Runs -> Local] /\ job \in [Jobs -> JobRecord] /\ Sound(job[i])
      /\ thread = Idle /\ pc[r] = "idle" /\ UNCHANGED <<tasks, invoked>>
  BY DEF LInv, LoopTypeOK, TypeOK, AllSound, Execute, KeepWorld
<1>2. PICK y : /\ run' = [run EXCEPT ![r] = y]
               /\ y.of = i /\ y.ops # <<>> /\ (~y.custom => y.task = MainTask(i))
  <2>1. Fresh(i).of = i /\ Fresh(i).ops # <<>> /\ Fresh(i).task = MainTask(i)
    BY DEF Fresh
  <2>2. CASE run' = [run EXCEPT ![r] = Fresh(i)]
    BY <2>1, <2>2
  <2>3. CASE \E claim \in Claims : run' = [run EXCEPT ![r] = [Fresh(i) EXCEPT !.claim = claim]]
    <3>1. PICK claim \in Claims : run' = [run EXCEPT ![r] = [Fresh(i) EXCEPT !.claim = claim]]
      BY <2>3
    <3> DEFINE y == [Fresh(i) EXCEPT !.claim = claim]
    <3>2. y.of = i /\ y.ops # <<>> /\ y.task = MainTask(i)
      BY DEF Fresh
    <3> HIDE DEF y
    <3> QED  BY <3>1, <3>2 DEF y
  <2>4. CASE \E ops \in Customs, task \in CustomTasks \cup {MainTask(i)},
                claim \in Claims \cup {"none"} :
          run' = [run EXCEPT ![r] = [Fresh(i) EXCEPT !.custom = TRUE, !.ops = ops,
                                                     !.task = task, !.claim = claim]]
    <3>1. PICK ops \in Customs, task \in CustomTasks \cup {MainTask(i)},
                claim \in Claims \cup {"none"} :
          run' = [run EXCEPT ![r] = [Fresh(i) EXCEPT !.custom = TRUE, !.ops = ops,
                                                     !.task = task, !.claim = claim]]
      BY <2>4
    <3> DEFINE y == [Fresh(i) EXCEPT !.custom = TRUE, !.ops = ops, !.task = task, !.claim = claim]
    <3>2. ops # <<>>
      BY LoopAssumption
    <3>3. y.of = i /\ y.ops # <<>> /\ y.custom = TRUE
      BY <3>2 DEF Fresh
    <3> HIDE DEF y
    <3> QED  BY <3>1, <3>3 DEF y
  <2> QED  BY <2>2, <2>3, <2>4 DEF Execute
<1>3. PICK k : Set(i, k) /\ k \in {job[i], CheckBounds(job[i])}
  <2>1. CASE UNCHANGED job
    BY <1>1, <2>1 DEF Set
  <2>2. CASE Set(i, CheckBounds(job[i]))
    BY <2>2
  <2> QED  BY <2>1, <2>2 DEF Execute
<1>4. Legal(job[i], k) /\ Steady(job[i], k) /\ k.fixAttempts = job[i].fixAttempts
  BY <1>1, <1>3, CheckSteady DEF Legal, Steady
<1>5. PICK m \in {"returned", "rejected", "iterate"} : Goto(r, m)
  <2>1. CASE Goto(r, "returned")
    BY <2>1
  <2>2. CASE Goto(r, IF BoundsThrow(job[i]) THEN "rejected"
                     ELSE IF InBounds(job[i]) THEN "iterate" ELSE "returned")
    BY <2>2
  <2> QED  BY <2>1, <2>2 DEF Execute
<1>6. Turn(r, m, i, k)
  <2>1. Road("idle", m) /\ m \in Labels /\ m \notin Late
    BY DEF Road, Labels, Awaits, Sync, Ended, Late, Spent
  <2>2. Pays(r, m, i)
    BY <1>1 DEF Pays
  <2> QED  BY <1>1, <1>3, <1>4, <1>5, <2>1, <2>2 DEF Turn, Late
<1>7. Knows(m, y, k) /\ Owns(m, y, tasks) /\ ~Implements(m, y)
  BY <1>2 DEF Knows, Owns, Implements, Passed, Proposing
<1>8. run'[r] = y /\ \A q \in Runs \ {r} : run'[q] = run[q]
  BY <1>1, <1>2
<1> QED  BY <1>1, <1>2, <1>6, <1>7, <1>8 DEF Acts

\* A request of an operator meets no run between two awaits, and the clock changes no
\* status.
LEMMA OutsideKnown ==
  ASSUME LInv, KInv, NEW i \in Jobs, NEW k, Legal(job[i], k), Set(i, k), Steady(job[i], k),
         k.fixAttempts = job[i].fixAttempts, thread = Idle \/ k.status = job[i].status,
         UNCHANGED <<pc, run, tasks, invoked>>
  PROVE  KInv'
<1>1. /\ \A j \in Jobs : job'[j] = IF j = i THEN k ELSE job[j]
      /\ Sound(job[i]) /\ \A r \in Runs : run[r].of \in Jobs
  BY Here DEF Set, LInv, LoopTypeOK, TypeOK, AllSound
<1>2. \A j \in Jobs : job'[j].fixAttempts = job[j].fixAttempts
  BY <1>1
<1>3. \A j \in Jobs : job[j].status \in Terminal => job'[j].status \in Terminal
  BY <1>1, TerminalKept
<1>4. AllKnow'
  <2> SUFFICES ASSUME NEW r \in Runs PROVE Knows(pc[r], run[r], job'[run[r].of])
    BY DEF KInv, AllKnow, J, Owns, Implements
  <2>1. pc[r] = "toImplementing" => job'[run[r].of].status = J(r).status
    <3>1. pc[r] = "toImplementing" => thread = r
      BY DEF LInv, Threaded, Sync
    <3> QED  BY <1>1, <3>1, LoopAssumption DEF J
  <2>2. Knows(pc[r], run[r], J(r))
    BY DEF KInv, AllKnow
  <2> QED  BY <1>1, <1>2, <2>1, <2>2 DEF Knows, J
<1>5. Sole' /\ ImplementedOnce'
  BY DEF KInv, Sole, ImplementedOnce, WasImplemented
<1>6. AtWork'
  <2> SUFFICES ASSUME NEW r \in Runs, pc[r] \in Late, InBounds(job'[run[r].of])
               PROVE  job'[run[r].of].status \in AfterImplementing \cup Terminal
    BY DEF AtWork, J
  <2>1. CASE run[r].of # i
    BY <1>1, <2>1 DEF KInv, AtWork, J
  <2>2. CASE run[r].of = i
    <3>1. InBounds(job[i])
      BY <1>1, <2>2, OverStays
    <3> QED  BY <1>1, <2>2, <3>1 DEF KInv, AtWork, J, Steady
  <2> QED  BY <2>1, <2>2
<1>7. RepairsBounded'
  BY <1>2 DEF KInv, RepairsBounded, RepairLimit
<1>8. \A j \in Jobs : Units(j)' = Units(j)
  BY DEF Units, Spent
<1>9. Afforded' /\ LateAfforded' /\ IsFiniteSet(AllStarted)'
  BY <1>2, <1>8 DEF KInv, Budget, Afforded, LateAfforded, AllStarted, RepairLimit, Owed, Lent
<1>10. CalmAfforded'
  <2> SUFFICES ASSUME NEW j \in Jobs, Calm(j)'
               PROVE  invoked[j] <= Cardinality(Units(j)) + 3 * job[j].fixAttempts
    BY <1>2, <1>8 DEF CalmAfforded
  <2>1. Calm(j)
    BY <1>3 DEF Calm, Late
  <2> QED  BY <2>1 DEF KInv, Budget, CalmAfforded
<1> QED  BY <1>4, <1>5, <1>6, <1>7, <1>9, <1>10 DEF KInv, Budget

LEMMA OperatorsKnown ==
  ASSUME LInv, KInv, NEW i \in Jobs, Cancel(i) \/ Resume(i) \/ Deadline(i)
  PROVE  KInv'
<1> USE DEF KeepRun, KeepWorld
<1>0. job[i] \in JobRecord
  BY DEF LInv, LoopTypeOK, TypeOK
<1>1. CASE Cancel(i)
  <2> DEFINE k == Cancelled(job[i])
  <2>1. Legal(job[i], k) /\ Steady(job[i], k) /\ k.fixAttempts = job[i].fixAttempts
    BY <1>0 DEF Legal, Steady, Cancelled, TransitionTo, JobRecord, Terminal
  <2> HIDE DEF k
  <2> QED  BY <1>1, <2>1, OutsideKnown DEF Cancel, k
<1>2. CASE Resume(i)
  <2>1. PICK s \in JobState : Resumable(job[i], s) /\ Set(i, TransitionTo(job[i], s))
    BY <1>2 DEF Resume
  <2> DEFINE k == TransitionTo(job[i], s)
  <2>2. s # "READY_FOR_DELIVERY"
    BY <2>1 DEF Resumable, Allowed, ValidTransitions, Onward, Working
  <2>3. Legal(job[i], k)
    BY <2>1, <2>2 DEF Legal, Resumable
  <2>4. Steady(job[i], k) /\ k.fixAttempts = job[i].fixAttempts
    BY <1>0, <2>1 DEF Steady, Resumable, TransitionTo, JobRecord, AfterImplementing, Terminal
  <2> HIDE DEF k
  <2> QED  BY <1>2, <2>1, <2>3, <2>4, OutsideKnown DEF Resume, k
<1>3. CASE Deadline(i)
  <2> DEFINE k == [job[i] EXCEPT !.overTime = TRUE]
  <2>1. ~job[i].overTime /\ Set(i, k)
    BY <1>3 DEF Deadline, DeadlinePasses
  <2>2. Legal(job[i], k)
    BY <2>1 DEF Legal
  <2>3. k.status = job[i].status /\ k.fixAttempts = job[i].fixAttempts
    BY <1>0 DEF JobRecord
  <2> HIDE DEF k
  <2>4. Steady(job[i], k)
    BY <2>3 DEF Steady
  <2> QED  BY <1>3, <2>1, <2>2, <2>3, <2>4, OutsideKnown DEF Deadline
<1> QED  BY <1>1, <1>2, <1>3

-----------------------------------------------------------------------------
(* The second invariant and what follows from it *)

LEMMA KInvInitially == LoopInit => KInv
<1> SUFFICES ASSUME LoopInit PROVE KInv
  OBVIOUS
<1>0. \A r \in Runs : pc[r] = "idle"
  BY DEF LoopInit
<1>1. AllKnow
  <2> DEFINE i == CHOOSE i \in Jobs : TRUE
  <2>1. \A r \in Runs : run[r] = Fresh(i)
    BY DEF LoopInit
  <2> HIDE DEF i
  <2>2. Fresh(i).ops = <<GenFile>> /\ <<GenFile>> # <<>>
    BY DEF Fresh
  <2>3. \A r \in Runs : run[r].ops # <<>>
    BY <2>1, <2>2
  <2> QED  BY <1>0, <2>3 DEF AllKnow, Knows, Owns, Implements, Proposing, Early, Passed
<1>2. Sole /\ AtWork
  BY <1>0 DEF Sole, AtWork, Late
<1>3. ImplementedOnce
  <2> DEFINE i == CHOOSE i \in Jobs : TRUE
  <2>1. \A r \in Runs : run[r] = Fresh(i)
    BY DEF LoopInit
  <2> HIDE DEF i
  <2>2. Fresh(i).ops = <<GenFile>> /\ <<GenFile>> # <<>>
    BY DEF Fresh
  <2>3. \A r \in Runs : run[r].ops # <<>>
    BY <2>1, <2>2
  <2> QED  BY <1>0, <2>3 DEF ImplementedOnce, WasImplemented
<1>4. \A i \in Jobs : job[i].fixAttempts = 0 /\ invoked[i] = 0
  BY DEF LoopInit, Init, NewJob
<1>5. RepairsBounded
  BY <1>4, LimitTyped DEF RepairsBounded
<1>6. IsFiniteSet(AllStarted)
  <2>1. AllStarted = {}
    BY <1>0 DEF AllStarted
  <2> QED  BY <2>1, FS_EmptySet
<1>7. \A i \in Jobs : Cardinality(Units(i)) \in Nat
  BY <1>6, UnitsFinite
<1>8. Afforded /\ LateAfforded /\ CalmAfforded
  BY <1>0, <1>4, <1>7, LimitTyped DEF Afforded, LateAfforded, CalmAfforded, Late
<1> QED  BY <1>1, <1>2, <1>3, <1>5, <1>6, <1>8 DEF KInv, Budget

LEMMA RunStepActs ==
  ASSUME LInv, KInv, NEW r \in Runs, RunStep(r)
  PROVE  \E m, k : Acts(r, m, run[r].of, k)
BY EarlyActs, LateActs, OutcomeActs, EndsAct, AttemptActs, GovernActs, FixProposeActs DEF RunStep

LEMMA KInvKept == LInv /\ KInv /\ [LoopNext]_loopVars => KInv'
<1> SUFFICES ASSUME LInv, KInv, [LoopNext]_loopVars PROVE KInv'
  OBVIOUS
<1>1. CASE \E r \in Runs : RunStep(r)
  <2>1. PICK r \in Runs : RunStep(r)
    BY <1>1
  <2>2. run[r].of \in Jobs /\ \E m, k : Acts(r, m, run[r].of, k)
    BY <2>1, Here, RunStepActs
  <2> QED  BY <2>2, ActsKeep
<1>2. CASE \E r \in Runs, i \in Jobs : Execute(r, i)
  BY <1>2, ExecuteActs, ActsKeep
<1>3. CASE \E i \in Jobs : Cancel(i) \/ Resume(i) \/ Deadline(i)
  BY <1>3, OperatorsKnown
<1>4. CASE UNCHANGED loopVars
  <2>1. UNCHANGED <<job, pc, run, tasks, invoked>>
    BY <1>4 DEF loopVars
  <2>2. AllKnow' /\ Sole' /\ AtWork' /\ ImplementedOnce' /\ RepairsBounded'
    BY <2>1 DEF KInv, AllKnow, J, Sole, AtWork, ImplementedOnce, WasImplemented, RepairsBounded,
                RepairLimit, Owns, Implements
  <2>3. \A i \in Jobs : Units(i)' = Units(i) /\ Calm(i)' = Calm(i)
    BY <2>1 DEF Units, Spent, Calm, Late
  <2>4. Budget'
    BY <2>1, <2>3 DEF KInv, Budget, Afforded, LateAfforded, CalmAfforded, AllStarted,
                      RepairLimit, Owed, Lent
  <2> QED  BY <2>2, <2>4 DEF KInv
<1> QED  BY <1>1, <1>2, <1>3, <1>4 DEF LoopNext

LEMMA KnownAlways == LoopSpec => [](LInv /\ KInv)
  BY LInvInitially, LInvKept, KInvInitially, KInvKept, PTL DEF LoopSpec

\* A run that delivers in an engine with both runners has passed on the evidence of a test
\* that was launched after the last write of its job, or on the word of the caller.  In an
\* engine without them, as the server's, only the evidence says that it passed.
THEOREM DeliveredAlwaysTested == LoopSpec => []DeliveredWasTested
<1>1. LInv /\ KInv => DeliveredWasTested
  BY DEF KInv, AllKnow, Knows, Passed, UpToDate, DeliveredWasTested
<1> QED  BY <1>1, KnownAlways, PTL

\* However often a job is submitted, blocked and resumed, one generated proposal of it is
\* written: the bridge refuses the id of a task that exists.
THEOREM AlwaysImplementedOnce == LoopSpec => []ImplementedOnce
<1>1. LInv /\ KInv => ImplementedOnce
  BY DEF KInv
<1> QED  BY <1>1, KnownAlways, PTL

\* The repairs of a job never exceed its limit: between the check of the count and the
\* count itself lies an await, but no second run of the job can be in it.
THEOREM RepairsAlwaysBounded == LoopSpec => []RepairsBounded
<1>1. LInv /\ KInv => RepairsBounded
  BY DEF KInv
<1> QED  BY <1>1, KnownAlways, PTL

\* A job asks the provider three times at most for each of its runs and each of its repairs.
THEOREM InvocationsAlwaysBounded == LoopSpec => []InvocationsBounded
<1>1. ASSUME LInv, KInv PROVE InvocationsBounded
  <2> SUFFICES ASSUME NEW i \in Jobs
               PROVE  invoked[i] <= 3 * Cardinality(Started(i)) + 3 * RepairLimit
    BY DEF InvocationsBounded, Started
  <2>1. invoked[i] <= Cardinality(Units(i)) + 3 * RepairLimit /\ IsFiniteSet(AllStarted)
    BY <1>1 DEF KInv, Budget, Afforded
  <2>2. /\ Cardinality(Units(i)) \in Nat /\ Cardinality(Started(i)) \in Nat
        /\ Cardinality(Units(i)) <= 3 * Cardinality(Started(i))
    BY <2>1, UnitsFinite, FS_CardinalityType
  <2>3. invoked[i] \in Nat /\ RepairLimit \in Nat
    BY <1>1, LimitTyped DEF LInv, LoopTypeOK
  <2> QED  BY <2>1, <2>2, <2>3
<1> QED  BY <1>1, KnownAlways, PTL
=============================================================================
