------------------------- MODULE ExecutionBridgeProofs -------------------------
(***************************************************************************)
(* What the bridge promises for any number of tasks, executions, approvals *)
(* and crashes, and for any drafts.  The invariant follows one call from   *)
(* the gates to its record: what it has used up in the engine's files, and *)
(* under which approval it runs.                                           *)
(***************************************************************************)
EXTENDS ExecutionBridge, FiniteSetTheorems, TLAPS

USE BridgeAssumption

Approvals == [task: Tasks, status: {"APPROVED", "REJECTED"},
              fingerprint: {Fingerprint(d) : d \in Drafts} \cup {None},
              expires: Nat \cup {None}]

\* Some approval of task t allows the action.
Covered(given, t, action, exactly) ==
  \E i \in DOMAIN given :
    /\ given[i].status = "APPROVED" /\ given[i].task = t
    /\ given[i].fingerprint # None =>
         \E name \in given[i].fingerprint : Allows(name, action, exactly)

Ours(k) == effects[k].kind \in {"bridge", "correction"}

\* A call on its way: what it has created, and what it will run.
CallSound ==
  /\ call.pc \in {"job", "task", "prepare"} => call.kind # "unit"
  /\ call.pc = "job" => ~call.fresh
  /\ call.pc \in {"job", "task", "prepare"} => call.approval \in DOMAIN approvals
  /\ call.pc \in {"job", "task", "prepare", "run"} =>
       Covered(approvals, call.task, call.action, call.kind # "unit")
  /\ call.pc \in {"task", "prepare"} =>
       /\ call.exec \in jobs
       /\ \A k \in DOMAIN effects : effects[k].exec # call.exec
  /\ call.pc \in {"prepare", "run"} =>
       /\ tasks[call.task] # None
       /\ call.kind # "unit" =>
            \A k \in DOMAIN effects : Ours(k) => effects[k].task # call.task
  /\ call.pc = "run" => Planned(call.exec)
  /\ call.pc = "record" => call.status \in {"SUCCEEDED", "FAILED", "DENIED"}
  /\ call.pc = "record" /\ call.kind # "unit" =>
       /\ call.status # "DENIED"
       /\ call.status = "SUCCEEDED" =>
            \E k \in EffectsOf(call.task, {call.kind}) : effects[k].exec = call.exec

\* What a plan stands for.
PlanSound(e) ==
  Planned(e) => /\ e \in jobs
                /\ tasks[plans[e].task] # None
                /\ Covered(approvals, plans[e].task, plans[e].action, TRUE)

EffectSound(k) ==
  /\ effects[k].exec \in jobs
  /\ Ours(k) => tasks[effects[k].task] # None
  /\ Covered(approvals, effects[k].task, effects[k].action, effects[k].kind # "unit")

\* No task is done twice by the bridge.
Once ==
  \A k, l \in DOMAIN effects :
    Ours(k) /\ Ours(l) /\ effects[k].task = effects[l].task => k = l

BInv ==
  /\ TypeOK
  /\ CallSound
  /\ \A e \in Executions : PlanSound(e)
  /\ \A k \in DOMAIN effects : EffectSound(k)
  /\ Once
  /\ AnswerTellsEffect

-----------------------------------------------------------------------------
(* Types *)

\* What the fields of a call are, whatever the call is.
LEMMA CallTyped ==
  ASSUME TypeOK
  PROVE  /\ call.pc # "idle" => call \in CallRecord
         /\ call.pc = "idle" => call = Idle
  BY DEF TypeOK, CallRecord, Idle

\* A request has the shape of a call ...
LEMMA CalledTyped ==
  ASSUME NEW kind \in Kinds, NEW e \in Executions, NEW t \in Tasks, NEW i \in Nat
  PROVE  Called(kind, e, t, i) \in CallRecord
  BY DEF Called, CallRecord, Ran

\* ... and keeps it when a field is assigned.
LEMMA FieldsTyped ==
  ASSUME NEW r \in CallRecord
  PROVE  /\ [r EXCEPT !.fresh = TRUE] \in CallRecord
         /\ \A pc \in {"task", "prepare", "run", "record", "done"} :
              [r EXCEPT !.pc = pc] \in CallRecord
         /\ \A status \in Statuses : [r EXCEPT !.status = status] \in CallRecord
         /\ \A action \in Ran : [r EXCEPT !.action = action] \in CallRecord
         /\ \A i \in Nat : [r EXCEPT !.approval = i] \in CallRecord
         /\ \A b \in BOOLEAN : [r EXCEPT !.tracked = b] \in CallRecord
         /\ \A n \in Nat : [r EXCEPT !.cycle = n] \in CallRecord
  BY DEF CallRecord

\* What an answer keeps of a request, and what not.
LEMMA AnswerTyped ==
  ASSUME NEW r \in CallRecord, NEW status \in Statuses, Answer(r, status)
  PROVE  /\ call' \in CallRecord /\ call'.pc = "done" /\ call'.status = status
         /\ call'.kind = r.kind /\ call'.exec = r.exec /\ call'.task = r.task
         /\ call'.fresh = r.fresh
  BY DEF Answer, Called, CallRecord, Ran

\* What the bridge makes of an operation of a draft can be run.
LEMMA MapTyped ==
  ASSUME NEW d \in Drafts
  PROVE  MapOperation(d[1]) \in Ran
  BY DEF Ran

\* What the passed gates change of a request.
LEMMA GoesOnTyped ==
  ASSUME NEW r \in CallRecord, NEW d \in Drafts, GoesOn(r, d[1])
  PROVE  /\ call' \in CallRecord /\ call'.pc = r.pc /\ call'.kind = r.kind
         /\ call'.exec = r.exec /\ call'.task = r.task /\ call'.action = MapOperation(d[1])
         /\ call'.approval = r.approval /\ call'.fresh = r.fresh
  BY MapTyped, FieldsTyped DEF GoesOn, CallRecord

\* A new record has the shape of an approval.
LEMMA CreatedTyped ==
  ASSUME BInv, NEW t \in Tasks, NEW d \in Drafts, NEW status \in {"APPROVED", "REJECTED"},
         NEW lacks \in Omissions, CreateApprovalRecord(t, d, status, lacks)
  PROVE  \E a \in Approvals : approvals' = Append(approvals, a)
<1> DEFINE a == [task |-> t, status |-> status,
                 fingerprint |-> IF "fingerprint" \in lacks THEN None ELSE Fingerprint(d),
                 expires |-> IF "expiry" \in lacks THEN None ELSE now + Lifetime]
<1>1. approvals' = Append(approvals, a)
  BY DEF CreateApprovalRecord
<1>2. now + Lifetime \in Nat
  BY DEF BInv, TypeOK
<1>3. a \in Approvals
  BY <1>2 DEF Approvals
<1> QED  BY <1>1, <1>3

\* Every step keeps the types.
LEMMA NextTyped ==
  ASSUME BInv, Next
  PROVE  TypeOK'
<1>0. TypeOK /\ CallSound
  BY DEF BInv
<1>c. ASSUME UNCHANGED <<client, crashes, files, memory, effects>>,
             call' \in CallRecord \cup {Idle}
      PROVE  TypeOK'
  BY <1>0, <1>c DEF TypeOK, client, files, memory
<1>1. ASSUME NEW t \in Tasks, NEW d \in Drafts, NEW status \in {"APPROVED", "REJECTED"},
             NEW lacks \in Omissions, CreateApprovalRecord(t, d, status, lacks)
      PROVE  TypeOK'
  <2>1. PICK a \in Approvals : approvals' = Append(approvals, a)
    BY <1>1, CreatedTyped
  <2>2. approvals \in Seq(Approvals)
    BY <1>0 DEF TypeOK, Approvals
  <2>3. approvals' \in Seq(Approvals) /\ DOMAIN approvals \subseteq DOMAIN approvals'
    BY <2>1, <2>2
  <2> QED  BY <1>0, <1>1, <2>3 DEF TypeOK, Approvals, CreateApprovalRecord, files, memory
<1>3. CASE TimePasses
  BY <1>0, <1>3 DEF TypeOK, TimePasses, files, memory
<1>i. DOMAIN approvals \subseteq Nat
  BY <1>0 DEF TypeOK
<1>4. ASSUME NEW e \in Executions, NEW i \in DOMAIN approvals, NEW t \in Tasks, NEW d \in Drafts,
             NEW b \in BOOLEAN, ExecuteAdmittedBridge(e, i, t, d, b)
      PROVE  TypeOK'
  <2> DEFINE r == [Called("bridge", e, t, i) EXCEPT !.tracked = b]
  <2>1. r \in CallRecord
    BY <1>i, CalledTyped, FieldsTyped DEF Kinds
  <2>2. GoesOn(r, d[1]) \/ Answer(r, "EXECUTION_DENIED")
    BY <1>4 DEF ExecuteAdmittedBridge
  <2> HIDE DEF r
  <2>3. call' \in CallRecord
    BY <2>1, <2>2, GoesOnTyped, AnswerTyped DEF Statuses
  <2> QED  BY <1>4, <1>c, <2>3 DEF ExecuteAdmittedBridge
<1>5. ASSUME NEW e \in Executions, NEW i \in DOMAIN approvals, NEW d \in Drafts,
             NEW n \in 1..MaxCycles + 1, OrchestrateSelfCorrection(e, i, d, n)
      PROVE  TypeOK'
  <2> DEFINE r == [Called("correction", e, approvals[i].task, i) EXCEPT !.cycle = n]
  <2>1. r \in CallRecord
    <3>0. approvals \in Seq(Approvals) /\ MaxCycles \in Nat
      BY <1>0 DEF TypeOK, Approvals
    <3>1. approvals[i] \in Approvals
      BY <3>0, <1>5
    <3>2. approvals[i].task \in Tasks /\ n \in Nat
      BY <3>0, <3>1, <1>5 DEF Approvals
    <3>3. i \in Nat /\ "correction" \in Kinds
      BY <1>i DEF Kinds
    <3>4. Called("correction", e, approvals[i].task, i) \in CallRecord
      BY <3>2, <3>3, CalledTyped
    <3> QED  BY <3>2, <3>4, FieldsTyped
  <2>2. \/ GoesOn(r, d[1])
        \/ Answer(r, "CORRECTION_LIMIT_REACHED")
        \/ Answer(r, "CORRECTION_DENIED")
    BY <1>5 DEF OrchestrateSelfCorrection
  <2> HIDE DEF r
  <2>3. call' \in CallRecord
    BY <2>1, <2>2, GoesOnTyped, AnswerTyped DEF Statuses
  <2> QED  BY <1>5, <1>c, <2>3 DEF OrchestrateSelfCorrection
<1>6. ASSUME NEW e \in Executions, NEW t \in Tasks, NEW action \in Actions,
             ExecuteWorkUnit(e, t, action)
      PROVE  TypeOK'
  <2> DEFINE r == Called("unit", e, t, 0)
             p == [r EXCEPT !.pc = "record"]
             q == [r EXCEPT !.pc = "run"]
  <2>1. r \in CallRecord
    BY CalledTyped DEF Kinds
  <2>2. \/ Answer(r, "THROWN")
        \/ call' = [p EXCEPT !.status = "DENIED"]
        \/ call' = [q EXCEPT !.action = action]
    BY <1>6 DEF ExecuteWorkUnit
  <2> HIDE DEF r
  <2>3. p \in CallRecord /\ q \in CallRecord
    BY <2>1, FieldsTyped
  <2> HIDE DEF p, q
  <2>4. action \in Ran
    BY DEF Ran
  <2>5. call' \in CallRecord
    <3>1. CASE Answer(r, "THROWN")
      BY <2>1, <3>1, AnswerTyped DEF Statuses
    <3>2. CASE call' = [p EXCEPT !.status = "DENIED"]
      BY <2>3, <3>2, FieldsTyped DEF Statuses
    <3>3. CASE call' = [q EXCEPT !.action = action]
      BY <2>3, <2>4, <3>3, FieldsTyped
    <3> QED  BY <2>2, <3>1, <3>2, <3>3
  <2> QED  BY <1>6, <1>c, <2>5 DEF ExecuteWorkUnit
<1>7. CASE BridgeCreatesJob
  <2> DEFINE r == [call EXCEPT !.pc = "task"]
  <2>1. call \in CallRecord /\ call.exec \in Executions
    BY <1>0, <1>7, CallTyped DEF BridgeCreatesJob, CallRecord
  <2>2. r \in CallRecord
    BY <2>1, FieldsTyped
  <2>3. Reply("THROWN") \/ call' = [r EXCEPT !.fresh = TRUE]
    BY <1>7 DEF BridgeCreatesJob
  <2> HIDE DEF r
  <2>4. call' \in CallRecord
    BY <2>1, <2>2, <2>3, FieldsTyped, AnswerTyped DEF Reply, Statuses
  <2> QED  BY <1>0, <1>7, <2>1, <2>4 DEF BridgeCreatesJob, TypeOK, client, memory
<1>8. CASE BridgeCreatesTask
  <2>1. call \in CallRecord /\ call.exec \in Executions
    BY <1>0, <1>8, CallTyped DEF BridgeCreatesTask, CallRecord
  <2>2. Reply("THROWN") \/ call' = [call EXCEPT !.pc = "prepare"]
    BY <1>8 DEF BridgeCreatesTask
  <2>3. call' \in CallRecord
    <3>1. CASE Reply("THROWN")
      BY <2>1, <3>1, AnswerTyped DEF Reply, Statuses
    <3>2. CASE call' = [call EXCEPT !.pc = "prepare"]
      BY <2>1, <3>2, FieldsTyped
    <3> QED  BY <2>2, <3>1, <3>2
  <2> QED  BY <1>0, <1>8, <2>1, <2>3 DEF BridgeCreatesTask, TypeOK, client, memory
<1>9. CASE BridgePrepares
  <2> DEFINE p == [call EXCEPT !.pc = "run"]
             q == [p EXCEPT !.tracked = FALSE]
  <2>1. call \in CallRecord /\ call.exec \in Executions /\ call.task \in Tasks
        /\ call.action \in Ran
    BY <1>0, <1>9, CallTyped DEF BridgePrepares, CallRecord
  <2>2. call' \in CallRecord
    <3>1. \/ Reply("THROWN") \/ Reply("EXECUTION_DENIED")
          \/ call' = [q EXCEPT !.approval = 0]
      BY <1>9 DEF BridgePrepares
    <3>2. p \in CallRecord
      BY <2>1, FieldsTyped
    <3> HIDE DEF p
    <3>3. q \in CallRecord
      BY <3>2, FieldsTyped
    <3> HIDE DEF q
    <3>4. CASE Reply("THROWN") \/ Reply("EXECUTION_DENIED")
      BY <2>1, <3>4, AnswerTyped DEF Reply, Statuses
    <3>5. CASE call' = [q EXCEPT !.approval = 0]
      <4>1. 0 \in Nat
        OBVIOUS
      <4> QED  BY <3>3, <3>5, <4>1, FieldsTyped
    <3> QED  BY <3>1, <3>4, <3>5
  <2>3. plans' \in [Executions -> [task: Tasks \cup {None}, action: Ran]]
    BY <1>0, <1>9, <2>1 DEF BridgePrepares, TypeOK
  <2>4. tracker' \subseteq DOMAIN approvals
    BY <1>0, <1>9 DEF BridgePrepares, TypeOK, CallSound
  <2> QED  BY <1>0, <1>9, <2>2, <2>3, <2>4 DEF BridgePrepares, TypeOK, client, files
<1>10. ASSUME NEW o \in {"SUCCEEDED", "FAILED"}, UnitRuns(o)
       PROVE  TypeOK'
  <2> DEFINE r == [call EXCEPT !.pc = "record"]
             k == [kind |-> call.kind, exec |-> call.exec, task |-> call.task,
                   action |-> call.action]
  <2>1. call \in CallRecord /\ k \in Effect
    BY <1>0, <1>10, CallTyped DEF UnitRuns, CallRecord, Effect
  <2>2. r \in CallRecord
    BY <2>1, FieldsTyped
  <2>3. call' = [r EXCEPT !.status = o] /\ (effects' = Append(effects, k) \/ effects' = effects)
    BY <1>10 DEF UnitRuns
  <2> HIDE DEF r, k
  <2>4. call' \in CallRecord
    BY <2>2, <2>3, FieldsTyped DEF Statuses
  <2>5. effects' \in Seq(Effect)
    <3>1. effects \in Seq(Effect)
      BY <1>0 DEF TypeOK
    <3> QED  BY <2>1, <2>3, <3>1
  <2> QED  BY <1>0, <1>10, <2>4, <2>5 DEF UnitRuns, TypeOK, client, files, memory
<1>11. CASE UnitRecords
  <2> DEFINE r == [task |-> call.task, outcome |-> call.status]
             R == [task: Tasks, outcome: {"SUCCEEDED", "FAILED", "DENIED"}]
  <2>1. call \in CallRecord /\ r \in R /\ results \in Seq(R)
    BY <1>0, <1>11, CallTyped DEF UnitRecords, CallRecord, CallSound, TypeOK
  <2>2. results' = Append(results, r)
    BY <1>11 DEF UnitRecords, Record
  <2>3. \A status \in Outcomes : status \in Statuses
    BY <1>0, <1>11, <2>1 DEF Outcomes, Statuses, CallRecord, Kinds, CallSound, UnitRecords
  <2>4. call' \in CallRecord
    BY <1>11, <2>1, <2>3, AnswerTyped DEF UnitRecords, Reply
  <2> HIDE DEF r
  <2>5. results' \in Seq(R)
    BY <2>1, <2>2
  <2> QED  BY <1>0, <1>11, <2>4, <2>5 DEF UnitRecords, TypeOK, client, memory
<1>12. CASE Respond
  BY <1>12, <1>c DEF Respond
<1>13. CASE Crash
  BY <1>0, <1>13 DEF Crash, TypeOK, client, files, NoPlan, Ran
<1> QED  BY <1>1, <1>3, <1>4, <1>5, <1>6, <1>7, <1>8, <1>9, <1>10, <1>11, <1>12, <1>13
         DEF Next, ClientActs, Request

-----------------------------------------------------------------------------
(* What a step keeps *)

\* Approvals are never withdrawn or changed.
LEMMA ApprovalsKept ==
  ASSUME BInv, Next
  PROVE  /\ DOMAIN approvals \subseteq DOMAIN approvals'
         /\ \A i \in DOMAIN approvals : approvals'[i] = approvals[i]
<1>1. approvals \in Seq(Approvals)
  BY DEF BInv, TypeOK, Approvals
<1>2. \/ UNCHANGED approvals
      \/ \E t \in Tasks, d \in Drafts, s \in {"APPROVED", "REJECTED"}, lacks \in Omissions :
           CreateApprovalRecord(t, d, s, lacks)
  BY DEF Next, ClientActs, Request, client, TimePasses, ExecuteAdmittedBridge,
         OrchestrateSelfCorrection, ExecuteWorkUnit, BridgeCreatesJob, BridgeCreatesTask,
         BridgePrepares, UnitRuns, UnitRecords, Respond, Crash
<1>3. ASSUME NEW a \in Approvals, approvals' = Append(approvals, a)
      PROVE  /\ DOMAIN approvals \subseteq DOMAIN approvals'
             /\ \A i \in DOMAIN approvals : approvals'[i] = approvals[i]
  BY <1>1, <1>3
<1> QED  BY <1>2, <1>3, CreatedTyped

\* Approvals are only ever added: what one covers stays covered.
LEMMA CoveredKept ==
  ASSUME BInv, Next
  PROVE  \A t, action, exactly :
           Covered(approvals, t, action, exactly) => Covered(approvals', t, action, exactly)
<1> TAKE t, action, exactly
<1> HAVE Covered(approvals, t, action, exactly)
<1>1. PICK i \in DOMAIN approvals :
        /\ approvals[i].status = "APPROVED" /\ approvals[i].task = t
        /\ approvals[i].fingerprint # None =>
             \E name \in approvals[i].fingerprint : Allows(name, action, exactly)
  BY DEF Covered
<1>2. i \in DOMAIN approvals' /\ approvals'[i] = approvals[i]
  BY ApprovalsKept
<1> QED  BY <1>1, <1>2 DEF Covered

\* The name of an operation allows exactly what the bridge makes of it.
LEMMA MapAllowed ==
  ASSUME NEW op
  PROVE  Allows(Name(op), MapOperation(op), TRUE)
  BY DEF Allows, Name, MapOperation, FileTypes

\* What is allowed exactly allows a client whatever else its plan expects.
LEMMA ExpectedAllowed ==
  ASSUME NEW name, NEW e, NEW action, Allows(name, plans[e].action, TRUE), Expected(e, action)
  PROVE  Allows(name, action, FALSE)
  BY DEF Allows, Expected

\* The draft of open gates starts with an operation that its approval names.
LEMMA GatesCover ==
  ASSUME TypeOK, NEW i \in DOMAIN approvals, NEW t, NEW d \in Drafts, NEW b,
         GatesOpen(i, t, d, b)
  PROVE  Covered(approvals, t, MapOperation(d[1]), TRUE)
<1>1. 1 \in DOMAIN d
  BY DEF GatesOpen
<1>2. Name(d[1]) \in Fingerprint(d)
  BY <1>1 DEF Fingerprint
<1>3. /\ approvals[i].status = "APPROVED" /\ approvals[i].task = t
      /\ approvals[i].fingerprint \in {None, Fingerprint(d)}
  BY DEF GatesOpen, Approved
<1> QED  BY <1>2, <1>3, MapAllowed DEF Covered

\* Steps that leave files and effects alone, and lose no plan but all.
LEMMA QuietKeeps ==
  ASSUME BInv, Next, UNCHANGED <<jobs, tasks, plans, effects>>
  PROVE  /\ \A e \in Executions : PlanSound(e)'
         /\ \A k \in DOMAIN effects' : EffectSound(k)'
         /\ Once'
<1>1. ASSUME NEW e \in Executions PROVE PlanSound(e)'
  BY CoveredKept DEF BInv, PlanSound, Planned
<1>2. ASSUME NEW k \in DOMAIN effects' PROVE EffectSound(k)'
  BY CoveredKept DEF BInv, EffectSound, Ours
<1>3. Once'
  BY DEF BInv, Once, Ours
<1> QED  BY <1>1, <1>2, <1>3

\* A call that is over, or refused before it began, has nothing to be sound about.
LEMMA RefusedSound ==
  ASSUME NEW r \in CallRecord, NEW status \in Statuses, Answer(r, status),
         r.kind = "bridge" => ~r.fresh
  PROVE  CallSound' /\ AnswerTellsEffect'
<1>1. call'.pc = "done" /\ call'.kind = r.kind /\ call'.fresh = r.fresh
  BY AnswerTyped
<1> QED  BY <1>1 DEF CallSound, AnswerTellsEffect

-----------------------------------------------------------------------------
(* The steps one by one *)

\* Approving, admitting and time leave the engine and the bridge alone.
LEMMA ClientKeeps ==
  ASSUME BInv, Next, ClientActs
  PROVE  BInv'
<1>1. UNCHANGED <<files, memory, effects, call>>
  BY DEF ClientActs, CreateApprovalRecord, TimePasses
<1>2. CallSound'
  <2>1. CallSound
    BY DEF BInv
  <2>2. Covered(approvals, call.task, call.action, call.kind # "unit")
          => Covered(approvals', call.task, call.action, call.kind # "unit")
    BY CoveredKept
  <2> QED  BY <1>1, <2>1, <2>2, ApprovalsKept
           DEF CallSound, files, memory, Ours, Planned, EffectsOf
<1>3. AnswerTellsEffect'
  BY <1>1 DEF BInv, AnswerTellsEffect, EffectsOf
<1> QED  BY <1>1, <1>2, <1>3, NextTyped, QuietKeeps DEF BInv, files, memory

\* A request begins as a job to create, as a unit to run or to record, or is refused.
LEMMA RequestKeeps ==
  ASSUME BInv, Next, Request
  PROVE  BInv'
<1>0. TypeOK /\ call = Idle /\ UNCHANGED <<client, crashes, files, memory, effects>>
  BY DEF BInv, Request, ExecuteAdmittedBridge, OrchestrateSelfCorrection, ExecuteWorkUnit
<1>i. approvals \in Seq(Approvals) /\ DOMAIN approvals \subseteq Nat
  BY <1>0 DEF TypeOK, Approvals
<1>1. ASSUME NEW r \in CallRecord, NEW d \in Drafts, GoesOn(r, d[1]), r.pc = "job",
             r.kind # "unit", ~r.fresh, r.approval \in DOMAIN approvals,
             Covered(approvals, r.task, MapOperation(d[1]), TRUE)
      PROVE  CallSound' /\ AnswerTellsEffect'
  <2>1. /\ call'.pc = r.pc /\ call'.kind = r.kind /\ call'.task = r.task
        /\ call'.action = MapOperation(d[1])
        /\ call'.approval = r.approval /\ call'.fresh = r.fresh
    BY <1>1, GoesOnTyped
  <2>2. Covered(approvals', r.task, MapOperation(d[1]), TRUE)
    BY <1>1, CoveredKept
  <2>3. Covered(approvals', call'.task, call'.action, call'.kind # "unit")
    BY <1>1, <2>1, <2>2
  <2>4. call'.approval \in DOMAIN approvals'
    BY <1>0, <1>1, <2>1 DEF client
  <2> QED  BY <1>1, <2>1, <2>3, <2>4 DEF CallSound, AnswerTellsEffect
<1>2. ASSUME NEW e \in Executions, NEW i \in DOMAIN approvals, NEW t \in Tasks, NEW d \in Drafts,
             NEW b \in BOOLEAN, ExecuteAdmittedBridge(e, i, t, d, b)
      PROVE  CallSound' /\ AnswerTellsEffect'
  <2> DEFINE c == Called("bridge", e, t, i)
             r == [c EXCEPT !.tracked = b]
  <2>1. r \in CallRecord
    BY <1>i, CalledTyped, FieldsTyped DEF Kinds
  <2>2. r.pc = "job" /\ r.kind = "bridge" /\ ~r.fresh /\ r.task = t /\ r.approval = i
    BY DEF Called
  <2>3. \/ GatesOpen(i, t, d, b) /\ GoesOn(r, d[1])
        \/ Answer(r, "EXECUTION_DENIED")
    BY <1>2 DEF ExecuteAdmittedBridge
  <2> HIDE DEF r
  <2>4. CASE GatesOpen(i, t, d, b) /\ GoesOn(r, d[1])
    <3>1. Covered(approvals, r.task, MapOperation(d[1]), TRUE)
      BY <1>0, <2>2, <2>4, GatesCover
    <3> QED  BY <1>1, <2>1, <2>2, <2>4, <3>1
  <2>5. CASE Answer(r, "EXECUTION_DENIED")
    BY <2>1, <2>2, <2>5, RefusedSound DEF Statuses
  <2> QED  BY <2>3, <2>4, <2>5
<1>3. ASSUME NEW e \in Executions, NEW i \in DOMAIN approvals, NEW d \in Drafts,
             NEW n \in 1..MaxCycles + 1, OrchestrateSelfCorrection(e, i, d, n)
      PROVE  CallSound' /\ AnswerTellsEffect'
  <2> DEFINE c == Called("correction", e, approvals[i].task, i)
             r == [c EXCEPT !.cycle = n]
  <2>1. approvals[i] \in Approvals
    BY <1>i
  <2>2. approvals[i].task \in Tasks /\ n \in Nat
    BY <2>1 DEF Approvals
  <2>3. r \in CallRecord
    <3>1. i \in Nat /\ "correction" \in Kinds
      BY <1>i DEF Kinds
    <3>2. c \in CallRecord
      BY <2>2, <3>1, CalledTyped
    <3> HIDE DEF c
    <3> QED  BY <2>2, <3>2, FieldsTyped
  <2>4. /\ r.pc = "job" /\ r.kind = "correction" /\ ~r.fresh /\ r.task = approvals[i].task
        /\ r.approval = i
    BY DEF Called
  <2>5. \/ GatesOpen(i, approvals[i].task, d, FALSE) /\ GoesOn(r, d[1])
        \/ Answer(r, "CORRECTION_LIMIT_REACHED")
        \/ Answer(r, "CORRECTION_DENIED")
    BY <1>3 DEF OrchestrateSelfCorrection
  <2> HIDE DEF r
  <2>6. CASE GatesOpen(i, approvals[i].task, d, FALSE) /\ GoesOn(r, d[1])
    <3>1. Covered(approvals, r.task, MapOperation(d[1]), TRUE)
      BY <1>0, <2>4, <2>6, GatesCover
    <3> QED  BY <1>1, <2>3, <2>4, <2>6, <3>1
  <2>7. CASE Answer(r, "CORRECTION_LIMIT_REACHED") \/ Answer(r, "CORRECTION_DENIED")
    BY <2>3, <2>4, <2>7, RefusedSound DEF Statuses
  <2> QED  BY <2>5, <2>6, <2>7
<1>4. ASSUME NEW e \in Executions, NEW t \in Tasks, NEW action \in Actions,
             ExecuteWorkUnit(e, t, action)
      PROVE  CallSound' /\ AnswerTellsEffect'
  <2> DEFINE r == Called("unit", e, t, 0)
  <2>1. r \in CallRecord /\ r.kind = "unit" /\ r.exec = e /\ r.task = t
    BY CalledTyped DEF Kinds, Called
  <2>2. \/ Answer(r, "THROWN")
        \/ call' = [r EXCEPT !.pc = "record", !.status = "DENIED"]
        \/ AdmitWorkUnit(e, t, action) /\ call' = [r EXCEPT !.pc = "run", !.action = action]
    BY <1>4 DEF ExecuteWorkUnit
  <2> HIDE DEF r
  <2>3. CASE Answer(r, "THROWN")
    BY <2>1, <2>3, RefusedSound DEF Statuses
  <2>4. CASE call' = [r EXCEPT !.pc = "record", !.status = "DENIED"]
    BY <2>1, <2>4 DEF CallSound, AnswerTellsEffect, CallRecord
  <2>5. CASE AdmitWorkUnit(e, t, action) /\ call' = [r EXCEPT !.pc = "run", !.action = action]
    <3>1. /\ call'.pc = "run" /\ call'.kind = "unit" /\ call'.task = t /\ call'.exec = e
          /\ call'.action = action
      BY <2>1, <2>5 DEF CallRecord
    <3>2. Planned(e) /\ plans[e].task = t /\ tasks[t] # None /\ Expected(e, action)
      BY <2>5 DEF AdmitWorkUnit, TaskKnownToJob, Planned
    <3>3. Covered(approvals, t, plans[e].action, TRUE)
      BY <3>2 DEF BInv, PlanSound
    <3>4. Covered(approvals, t, action, FALSE)
      BY <3>2, <3>3, ExpectedAllowed DEF Covered
    <3>5. Covered(approvals', call'.task, call'.action, call'.kind # "unit")
      BY <3>1, <3>4, CoveredKept
    <3>6. Planned(e)' /\ tasks'[t] # None
      BY <1>0, <3>2 DEF Planned, memory, files
    <3> QED  BY <3>1, <3>5, <3>6 DEF CallSound, AnswerTellsEffect, Planned
  <2> QED  BY <2>2, <2>3, <2>4, <2>5
<1>5. CallSound' /\ AnswerTellsEffect'
  BY <1>2, <1>3, <1>4 DEF Request
<1> QED  BY <1>0, <1>5, NextTyped, QuietKeeps DEF BInv, files, memory

\* Nothing was done under an id that the engine did not know.
LEMMA JobKeeps ==
  ASSUME BInv, Next, BridgeCreatesJob
  PROVE  BInv'
<1>0. TypeOK /\ CallSound /\ call \in CallRecord /\ call.pc = "job"
      /\ UNCHANGED <<approvals, tasks, plans, effects>>
  BY CallTyped DEF BInv, BridgeCreatesJob, client, memory
<1>1. CASE Reply("THROWN") /\ UNCHANGED jobs
  <2>1. CallSound' /\ AnswerTellsEffect'
    BY <1>0, <1>1, RefusedSound DEF Reply, Statuses, CallSound
  <2> QED  BY <1>0, <1>1, <2>1, NextTyped, QuietKeeps DEF BInv
<1>2. CASE /\ ~JobKnown(call.exec)
           /\ jobs' = jobs \cup {call.exec}
           /\ call' = [call EXCEPT !.pc = "task", !.fresh = TRUE]
  <2>1. /\ call'.pc = "task" /\ call'.exec = call.exec /\ call'.kind = call.kind
        /\ call'.task = call.task /\ call'.action = call.action /\ call'.approval = call.approval
    BY <1>0, <1>2 DEF CallRecord
  <2>2. \A k \in DOMAIN effects : effects[k].exec # call.exec
    BY <1>2 DEF BInv, EffectSound, JobKnown
  <2>3. Covered(approvals', call'.task, call'.action, call'.kind # "unit")
    BY <1>0, <2>1 DEF CallSound
  <2>4. CallSound' /\ AnswerTellsEffect'
    BY <1>0, <1>2, <2>1, <2>2, <2>3 DEF CallSound, AnswerTellsEffect
  <2>5. \A e \in Executions : PlanSound(e)'
    BY <1>0, <1>2 DEF BInv, PlanSound, Planned
  <2>6. \A k \in DOMAIN effects' : EffectSound(k)'
    BY <1>0, <1>2 DEF BInv, EffectSound, Ours
  <2>7. Once'
    BY <1>0 DEF BInv, Once, Ours
  <2> QED  BY <2>4, <2>5, <2>6, <2>7, NextTyped DEF BInv
<1> QED  BY <1>1, <1>2 DEF BridgeCreatesJob

\* Nothing was done by the bridge for a task that the engine did not know.
LEMMA TaskKeeps ==
  ASSUME BInv, Next, BridgeCreatesTask
  PROVE  BInv'
<1>0. TypeOK /\ CallSound /\ call \in CallRecord /\ call.pc = "task"
      /\ UNCHANGED <<approvals, jobs, plans, effects>>
  BY CallTyped DEF BInv, BridgeCreatesTask, client, memory
<1>t. call.task \in Tasks /\ call.exec \in Executions /\ tasks \in [Tasks -> Executions \cup {None}]
  BY <1>0 DEF CallRecord, TypeOK
<1>1. CASE Reply("THROWN") /\ UNCHANGED tasks
  <2>1. /\ call'.pc = "done" /\ call'.status = "THROWN" /\ call'.exec = call.exec
    BY <1>0, <1>1, AnswerTyped DEF Reply, Statuses
  <2>2. CallSound'
    BY <2>1 DEF CallSound
  <2>3. AnswerTellsEffect'
    BY <1>0, <2>1 DEF AnswerTellsEffect, EffectsOf, CallSound
  <2> QED  BY <1>0, <1>1, <2>2, <2>3, NextTyped, QuietKeeps DEF BInv
<1>2. CASE /\ ~TaskKnown(call.task, call.exec)
           /\ tasks' = [tasks EXCEPT ![call.task] = call.exec]
           /\ call' = [call EXCEPT !.pc = "prepare"]
  <2>1. /\ call'.pc = "prepare" /\ call'.exec = call.exec /\ call'.kind = call.kind
        /\ call'.task = call.task /\ call'.action = call.action /\ call'.approval = call.approval
    BY <1>0, <1>2 DEF CallRecord
  <2>2. tasks'[call.task] # None /\ \A t \in Tasks : tasks[t] # None => tasks'[t] # None
    BY <1>2, <1>t
  <2>3. \A k \in DOMAIN effects : Ours(k) => effects[k].task # call.task
    BY <1>2 DEF BInv, EffectSound, TaskKnown
  <2>4. Covered(approvals', call'.task, call'.action, call'.kind # "unit")
    BY <1>0, <2>1 DEF CallSound
  <2>5. CallSound' /\ AnswerTellsEffect'
    BY <1>0, <2>1, <2>2, <2>3, <2>4 DEF CallSound, AnswerTellsEffect, Ours
  <2>6. \A e \in Executions : PlanSound(e)'
    <3> SUFFICES ASSUME NEW e \in Executions, Planned(e)
                 PROVE  PlanSound(e)'
      BY <1>0 DEF PlanSound, Planned
    <3>1. plans[e].task \in Tasks
      BY <1>0 DEF TypeOK, Planned
    <3> QED  BY <1>0, <2>2, <3>1 DEF BInv, PlanSound, Planned
  <2>7. \A k \in DOMAIN effects' : EffectSound(k)'
    <3>0. \A k \in DOMAIN effects : effects[k] \in Effect
      BY <1>0 DEF TypeOK
    <3>1. \A k \in DOMAIN effects : effects[k].task \in Tasks
      BY <3>0 DEF Effect
    <3> QED  BY <1>0, <2>2, <3>1 DEF BInv, EffectSound, Ours
  <2>8. Once'
    BY <1>0 DEF BInv, Once, Ours
  <2> QED  BY <2>5, <2>6, <2>7, <2>8, NextTyped DEF BInv
<1> QED  BY <1>1, <1>2 DEF BridgeCreatesTask

\* The plan of a call is covered as its operation is.
LEMMA PrepareKeeps ==
  ASSUME BInv, Next, BridgePrepares
  PROVE  BInv'
<1>0. TypeOK /\ CallSound /\ call \in CallRecord /\ call.pc = "prepare"
      /\ UNCHANGED <<approvals, jobs, tasks, effects>>
      /\ plans' = [plans EXCEPT ![call.exec] = [task |-> call.task, action |-> call.action]]
  BY CallTyped DEF BInv, BridgePrepares, client, files
<1>t. call.task \in Tasks /\ call.exec \in Executions /\ DOMAIN plans = Executions
  BY <1>0 DEF CallRecord, TypeOK
<1>1. CallSound' /\ AnswerTellsEffect'
  <2>1. CASE Reply("THROWN") \/ Reply("EXECUTION_DENIED")
    <3>1. /\ call'.pc = "done" /\ call'.status \in {"THROWN", "EXECUTION_DENIED"}
          /\ call'.exec = call.exec
      BY <1>0, <2>1, AnswerTyped DEF Reply, Statuses
    <3>2. CallSound'
      BY <3>1 DEF CallSound
    <3>3. AnswerTellsEffect'
      BY <1>0, <3>1 DEF AnswerTellsEffect, EffectsOf, CallSound
    <3> QED  BY <3>2, <3>3
  <2>2. CASE call' = [call EXCEPT !.pc = "run", !.tracked = FALSE, !.approval = 0]
    <3>1. /\ call'.pc = "run" /\ call'.exec = call.exec /\ call'.kind = call.kind
          /\ call'.task = call.task /\ call'.action = call.action
      BY <1>0, <2>2 DEF CallRecord
    <3>2. plans'[call.exec].task # None
      BY <1>0, <1>t
    <3> QED  BY <1>0, <3>1, <3>2 DEF CallSound, AnswerTellsEffect, Planned, Ours
  <2> QED  BY <2>1, <2>2 DEF BridgePrepares
<1>2. \A e \in Executions : PlanSound(e)'
  <2> TAKE e \in Executions
  <2>1. CASE e = call.exec
    <3>1. plans'[e] = [task |-> call.task, action |-> call.action]
      BY <1>0, <1>t, <2>1
    <3>2. Covered(approvals, call.task, call.action, TRUE)
      <4>1. (call.kind # "unit") = TRUE
        BY <1>0 DEF CallSound
      <4> QED  BY <1>0, <4>1 DEF CallSound
    <3>3. plans'[e].task = call.task /\ plans'[e].action = call.action
      BY <3>1
    <3>4. Covered(approvals', plans'[e].task, plans'[e].action, TRUE)
      BY <1>0, <3>2, <3>3
    <3>5. e \in jobs' /\ tasks'[plans'[e].task] # None
      BY <1>0, <2>1, <3>3 DEF CallSound
    <3> QED  BY <3>4, <3>5 DEF PlanSound
  <2>2. CASE e # call.exec
    <3>1. plans'[e] = plans[e]
      BY <1>0, <1>t, <2>2
    <3> QED  BY <1>0, <3>1 DEF BInv, PlanSound, Planned
  <2> QED  BY <2>1, <2>2
<1>3. \A k \in DOMAIN effects' : EffectSound(k)'
  BY <1>0 DEF BInv, EffectSound, Ours
<1>4. Once'
  BY <1>0 DEF BInv, Once, Ours
<1> QED  BY <1>1, <1>2, <1>3, <1>4, NextTyped DEF BInv

\* What a call that ran leaves in the workspace.
Left == [kind |-> call.kind, exec |-> call.exec, task |-> call.task, action |-> call.action]

\* The one step with an effect.
LEMMA EffectKeeps ==
  ASSUME BInv, Next, NEW o \in {"SUCCEEDED", "FAILED"}, UnitRuns(o),
         effects' = Append(effects, Left)
  PROVE  BInv'
<1> DEFINE x == Left
           n == Len(effects) + 1
<1>0. TypeOK /\ CallSound /\ call \in CallRecord /\ call.pc = "run"
      /\ UNCHANGED <<approvals, jobs, tasks, plans>> /\ effects' = Append(effects, x)
  BY CallTyped DEF BInv, UnitRuns, client, files, memory
<1>1. /\ call.exec \in Executions /\ call.kind \in Kinds
      /\ effects \in Seq(Effect) /\ x \in Effect
  BY <1>0 DEF CallRecord, TypeOK, Effect, Left
<1>2. /\ x.kind = call.kind /\ x.exec = call.exec /\ x.task = call.task
      /\ x.action = call.action
  BY DEF Left
<1>3. /\ DOMAIN effects' = DOMAIN effects \cup {n} /\ n \notin DOMAIN effects
      /\ effects'[n] = x /\ \A k \in DOMAIN effects : effects'[k] = effects[k]
  <2> HIDE DEF x
  <2> QED  BY <1>0, <1>1
<1> HIDE DEF x, n
<1>4. /\ call'.pc = "record" /\ call'.status = o /\ call'.kind = call.kind
      /\ call'.exec = call.exec /\ call'.task = call.task
  BY <1>0 DEF UnitRuns, CallRecord
<1>5. CallSound' /\ AnswerTellsEffect'
  <2>1. n \in DOMAIN effects' /\ effects'[n].exec = call'.exec /\ effects'[n].task = call'.task
        /\ effects'[n].kind = call'.kind
    BY <1>2, <1>3, <1>4
  <2> QED  BY <1>4, <2>1 DEF CallSound, AnswerTellsEffect, EffectsOf
<1>6. \A e \in Executions : PlanSound(e)'
  BY <1>0 DEF BInv, PlanSound, Planned
<1>7. \A k \in DOMAIN effects' : EffectSound(k)'
  <2> TAKE k \in DOMAIN effects'
  <2>1. CASE k = n
    <3>1. call.exec \in jobs
      BY <1>0, <1>1 DEF BInv, PlanSound, CallSound
    <3> QED  BY <1>0, <1>2, <1>3, <2>1, <3>1 DEF EffectSound, Ours, CallSound
  <2>2. CASE k \in DOMAIN effects
    BY <1>0, <1>3, <2>2 DEF BInv, EffectSound, Ours
  <2> QED  BY <1>3, <2>1, <2>2
<1>8. Once'
  <2> SUFFICES ASSUME NEW k \in DOMAIN effects', NEW l \in DOMAIN effects',
                      Ours(k)', Ours(l)', effects'[k].task = effects'[l].task
               PROVE  k = l
    BY DEF Once
  <2>1. CASE k \in DOMAIN effects /\ l \in DOMAIN effects
    BY <1>3, <2>1 DEF BInv, Once, Ours
  <2>2. CASE k = n \/ l = n
    <3>1. call.kind # "unit"
      BY <1>2, <1>3, <2>2 DEF Ours
    <3>2. \A m \in DOMAIN effects : Ours(m) => effects[m].task # call.task
      BY <1>0, <3>1 DEF CallSound
    <3> QED  BY <1>2, <1>3, <2>2, <3>2 DEF Ours
  <2> QED  BY <1>3, <2>1, <2>2
<1> QED  BY <1>5, <1>6, <1>7, <1>8, NextTyped DEF BInv

\* A failure that did nothing.
LEMMA FailureKeeps ==
  ASSUME BInv, Next, UnitRuns("FAILED"), UNCHANGED effects
  PROVE  BInv'
<1>1. /\ call'.pc = "record" /\ call'.status = "FAILED" /\ call'.kind = call.kind
      /\ UNCHANGED <<jobs, tasks, plans>>
  BY CallTyped DEF BInv, UnitRuns, CallRecord, files, memory
<1>2. CallSound' /\ AnswerTellsEffect'
  BY <1>1 DEF CallSound, AnswerTellsEffect
<1> QED  BY <1>1, <1>2, NextTyped, QuietKeeps DEF BInv

\* So what runs keeps the invariant.
LEMMA RunKeeps ==
  ASSUME BInv, Next, NEW o \in {"SUCCEEDED", "FAILED"}, UnitRuns(o)
  PROVE  BInv'
<1>1. \/ effects' = Append(effects, Left)
      \/ UnitRuns("FAILED") /\ UNCHANGED effects
  BY DEF UnitRuns, Left
<1> QED  BY <1>1, EffectKeeps, FailureKeeps

\* The answer of a bridge call that ran tells of its effect.
LEMMA RecordKeeps ==
  ASSUME BInv, Next, UnitRecords
  PROVE  BInv'
<1>0. TypeOK /\ CallSound /\ call \in CallRecord /\ call.pc = "record"
      /\ UNCHANGED <<approvals, jobs, tasks, plans, effects>>
  BY CallTyped DEF BInv, UnitRecords, client, memory
<1>1. PICK status \in Outcomes : Reply(status)
  BY DEF UnitRecords
<1>2. /\ status \in Statuses
      /\ call.kind = "bridge" =>
           /\ status \in {"EXECUTED", "FAILED"}
           /\ status = "EXECUTED" => call.status = "SUCCEEDED"
  BY <1>0 DEF Outcomes, Statuses, CallRecord, Kinds, CallSound
<1>3. /\ call'.pc = "done" /\ call'.status = status /\ call'.kind = call.kind
      /\ call'.exec = call.exec /\ call'.task = call.task
  BY <1>0, <1>1, <1>2, AnswerTyped DEF Reply
<1>4. CallSound'
  BY <1>3 DEF CallSound
<1>5. AnswerTellsEffect'
  BY <1>0, <1>2, <1>3 DEF AnswerTellsEffect, EffectsOf, CallSound
<1> QED  BY <1>0, <1>4, <1>5, NextTyped, QuietKeeps DEF BInv

\* A response and a crash end the request; a crash takes the plans and keeps the files.
LEMMA EndKeeps ==
  ASSUME BInv, Next, Respond \/ Crash
  PROVE  BInv'
<1>0. call' = Idle /\ UNCHANGED <<jobs, tasks, effects>>
  BY DEF Respond, Crash, client, files
<1>1. CallSound' /\ AnswerTellsEffect'
  BY <1>0 DEF CallSound, AnswerTellsEffect, Idle
<1>2. CASE Respond
  BY <1>1, <1>2, NextTyped, QuietKeeps DEF BInv, Respond, files, memory
<1>3. CASE Crash
  <2>1. \A e \in Executions : PlanSound(e)'
    BY <1>3 DEF Crash, NoPlan, PlanSound, Planned
  <2>2. \A k \in DOMAIN effects' : EffectSound(k)'
    BY <1>0, CoveredKept DEF BInv, EffectSound, Ours
  <2>3. Once'
    BY <1>0 DEF BInv, Once, Ours
  <2> QED  BY <1>1, <2>1, <2>2, <2>3, NextTyped DEF BInv
<1> QED  BY <1>2, <1>3

-----------------------------------------------------------------------------
(* What the bridge promises *)

\* Nothing is done before the first request.
LEMMA BInvInitially == Init => BInv
<1> SUFFICES ASSUME Init PROVE BInv
  OBVIOUS
<1>1. TypeOK
  BY DEF Init, TypeOK, NoPlan, Idle, Ran
<1>2. DOMAIN effects = {} /\ call.pc = "idle" /\ \A e \in Executions : ~Planned(e)
  BY DEF Init, Idle, NoPlan, Planned
<1> QED  BY <1>1, <1>2 DEF BInv, CallSound, PlanSound, Once, AnswerTellsEffect

\* Every step keeps the invariant.
LEMMA BInvKept == BInv /\ [Next]_vars => BInv'
<1> SUFFICES ASSUME BInv, [Next]_vars PROVE BInv'
  OBVIOUS
<1>1. CASE Next
  BY <1>1, ClientKeeps, RequestKeeps, JobKeeps, TaskKeeps, PrepareKeeps, RunKeeps, RecordKeeps,
     EndKeeps DEF Next
<1>2. CASE UNCHANGED vars
  BY <1>2 DEF vars, client, files, memory, BInv, TypeOK, CallSound, PlanSound, Planned, EffectSound,
              Ours, Once, AnswerTellsEffect, EffectsOf
<1> QED  BY <1>1, <1>2

\* So it always holds.
LEMMA BInvAlways == Spec => []BInv
<1> QED  BY BInvInitially, BInvKept, PTL DEF Spec

\* Every state has its shape.
THEOREM Typed == Spec => []TypeOK
<1>1. BInv => TypeOK
  BY DEF BInv
<1> QED  BY <1>1, BInvAlways, PTL

\* The bridge does the work of a task at most once, through any retries and crashes.
THEOREM OnePerTask == Spec => []OneExecutionPerTask
<1>1. BInv => OneExecutionPerTask
  <2> SUFFICES ASSUME BInv, NEW t \in Tasks
               PROVE  Cardinality(EffectsOf(t, {"bridge", "correction"})) <= 1
    BY DEF OneExecutionPerTask
  <2> DEFINE E == EffectsOf(t, {"bridge", "correction"})
  <2>1. \A k, l \in E : k = l
    BY DEF EffectsOf, BInv, Once, Ours
  <2> HIDE DEF E
  <2>2. Cardinality(E) <= 1
    <3>1. CASE E = {}
      BY <3>1, FS_EmptySet
    <3>2. CASE E # {}
      <4>1. PICK k \in E : TRUE
        BY <3>2
      <4>2. E = {k}
        BY <2>1, <4>1
      <4>3. Cardinality(E) = 1
        BY <4>2, FS_Singleton
      <4> QED  BY <4>3
    <3> QED  BY <3>1, <3>2
  <2> QED  BY <2>2 DEF E
<1> QED  BY <1>1, BInvAlways, PTL

\* Whatever was done, an approval of its own task names it.
THEOREM OnlyApproved == Spec => []RunsOnlyApproved
<1>1. BInv => RunsOnlyApproved
  BY DEF BInv, EffectSound, Covered, RunsOnlyApproved
<1> QED  BY <1>1, BInvAlways, PTL

\* The answer to an execution under a new id tells whether it had an effect.
THEOREM AnswersTell == Spec => []AnswerTellsEffect
<1>1. BInv => AnswerTellsEffect
  BY DEF BInv
<1> QED  BY <1>1, BInvAlways, PTL

\* What a request is when it begins.
LEMMA RequestBegins ==
  ASSUME TypeOK, Request
  PROVE  call'.pc \in {"job", "run", "done"} \/ (call'.pc = "record" /\ call'.status = "DENIED")
<1>1. ASSUME NEW r, NEW status, Answer(r, status)
      PROVE  call'.pc = "done"
  BY <1>1 DEF Answer, Called
<1>2. ASSUME NEW r \in CallRecord, r.pc = "job", NEW op, GoesOn(r, op)
      PROVE  call'.pc = "job"
  BY <1>2 DEF GoesOn, CallRecord
<1>3. approvals \in Seq(Approvals) /\ DOMAIN approvals \subseteq Nat
  BY DEF TypeOK, Approvals
<1>4. ASSUME NEW e \in Executions, NEW i \in DOMAIN approvals, NEW t \in Tasks, NEW d \in Drafts,
             NEW b \in BOOLEAN, ExecuteAdmittedBridge(e, i, t, d, b)
      PROVE  call'.pc \in {"job", "done"}
  <2> DEFINE c == Called("bridge", e, t, i)
             r == [c EXCEPT !.tracked = b]
  <2>1. r \in CallRecord
    BY <1>3, CalledTyped, FieldsTyped DEF Kinds
  <2>2. r.pc = "job"
    BY DEF Called
  <2>3. GoesOn(r, d[1]) \/ Answer(r, "EXECUTION_DENIED")
    BY <1>4 DEF ExecuteAdmittedBridge
  <2> HIDE DEF r
  <2> QED  BY <1>1, <1>2, <2>1, <2>2, <2>3
<1>5. ASSUME NEW e \in Executions, NEW i \in DOMAIN approvals, NEW d \in Drafts,
             NEW n \in 1..MaxCycles + 1, OrchestrateSelfCorrection(e, i, d, n)
      PROVE  call'.pc \in {"job", "done"}
  <2> DEFINE c == Called("correction", e, approvals[i].task, i)
             r == [c EXCEPT !.cycle = n]
  <2>1. c \in CallRecord /\ n \in Nat
    <3>1. approvals[i] \in Approvals
      BY <1>3
    <3>2. approvals[i].task \in Tasks
      BY <3>1 DEF Approvals
    <3> QED  BY <1>3, <3>2, CalledTyped DEF Kinds
  <2>2. r.pc = "job"
    BY DEF Called
  <2> HIDE DEF c
  <2>3. r \in CallRecord
    BY <2>1, FieldsTyped
  <2>4. \/ GoesOn(r, d[1])
        \/ Answer(r, "CORRECTION_LIMIT_REACHED")
        \/ Answer(r, "CORRECTION_DENIED")
    BY <1>5 DEF OrchestrateSelfCorrection, c
  <2> HIDE DEF r
  <2> QED  BY <1>1, <1>2, <2>2, <2>3, <2>4
<1>6. ASSUME NEW e \in Executions, NEW t \in Tasks, NEW a \in Actions, ExecuteWorkUnit(e, t, a)
      PROVE  \/ call'.pc \in {"run", "done"}
             \/ call'.pc = "record" /\ call'.status = "DENIED"
  <2> DEFINE r == Called("unit", e, t, 0)
  <2>1. r \in CallRecord
    BY CalledTyped DEF Kinds
  <2>2. \/ Answer(r, "THROWN")
        \/ call' = [r EXCEPT !.pc = "record", !.status = "DENIED"]
        \/ call' = [r EXCEPT !.pc = "run", !.action = a]
    BY <1>6 DEF ExecuteWorkUnit
  <2> HIDE DEF r
  <2>3. ASSUME call' = [r EXCEPT !.pc = "record", !.status = "DENIED"]
        PROVE  call'.pc = "record" /\ call'.status = "DENIED"
    BY <2>1, <2>3 DEF CallRecord
  <2>4. ASSUME call' = [r EXCEPT !.pc = "run", !.action = a]
        PROVE  call'.pc = "run"
    BY <2>1, <2>4 DEF CallRecord
  <2> QED  BY <1>1, <2>2, <2>3, <2>4
<1> QED  BY <1>4, <1>5, <1>6 DEF Request

\* The effects that were done under the id of a job.
Done(e) == {k \in DOMAIN effects : effects[k].exec = e}

\* A lost execution stays lost, and nothing more is done under its id.
LEMMA LostKept ==
  ASSUME BInv, Next, NEW e \in Executions, Lost(e)
  PROVE  Lost(e)' /\ Done(e)' = Done(e)
<1>0. /\ TypeOK /\ CallSound /\ e \in jobs /\ ~Planned(e)
      /\ call.pc \in {"task", "prepare"} => call.exec # e
  BY DEF BInv, Lost
<1>1. ASSUME UNCHANGED <<jobs, plans, effects>>,
             call' = call \/ call'.pc \notin {"task", "prepare"}
      PROVE  Lost(e)' /\ Done(e)' = Done(e)
  BY <1>0, <1>1 DEF Lost, Planned, Done
<1>2. CASE ClientActs
  BY <1>1, <1>2 DEF ClientActs, CreateApprovalRecord, TimePasses,
                    files, memory
<1>3. CASE Request
  <2>1. UNCHANGED <<jobs, plans, effects>>
    BY <1>3 DEF Request, ExecuteAdmittedBridge, OrchestrateSelfCorrection, ExecuteWorkUnit, files, memory
  <2>2. call'.pc \in {"job", "run", "record", "done"}
    BY <1>0, <1>3, RequestBegins
  <2> QED  BY <1>1, <2>1, <2>2
<1>4. CASE BridgeCreatesJob
  <2>1. call'.exec = call.exec
    BY <1>0, <1>4, CallTyped, AnswerTyped DEF BridgeCreatesJob, Reply, Statuses, CallRecord
  <2>2. call'.pc = "done" \/ call.exec \notin jobs
    BY <1>0, <1>4, CallTyped, AnswerTyped DEF BridgeCreatesJob, JobKnown, Reply, Statuses
  <2> QED  BY <1>0, <1>4, <2>1, <2>2 DEF BridgeCreatesJob, Lost, Planned, Done, memory
<1>5. CASE BridgeCreatesTask
  <2>1. call'.exec = call.exec
    BY <1>0, <1>5, CallTyped, AnswerTyped DEF BridgeCreatesTask, Reply, Statuses, CallRecord
  <2> QED  BY <1>0, <1>5, <2>1 DEF BridgeCreatesTask, Lost, Planned, Done, memory
<1>6. CASE BridgePrepares
  <2>1. plans'[e] = plans[e] /\ UNCHANGED <<jobs, effects>>
    BY <1>0, <1>6 DEF BridgePrepares, TypeOK, files
  <2>2. call'.pc \notin {"task", "prepare"}
    BY <1>0, <1>6, CallTyped, AnswerTyped DEF BridgePrepares, Reply, Statuses, CallRecord
  <2> QED  BY <1>0, <2>1, <2>2 DEF Lost, Planned, Done
<1>7. ASSUME NEW o \in {"SUCCEEDED", "FAILED"}, UnitRuns(o)
      PROVE  Lost(e)' /\ Done(e)' = Done(e)
  <2> DEFINE n == Len(effects) + 1
  <2>1. call.exec # e /\ call'.pc = "record" /\ UNCHANGED <<jobs, plans>>
    BY <1>0, <1>7, CallTyped DEF CallSound, UnitRuns, CallRecord, files, memory
  <2>2. Done(e)' = Done(e)
    <3>1. CASE UNCHANGED effects
      BY <3>1 DEF Done
    <3>2. CASE effects' = Append(effects, Left)
      <4>1. effects \in Seq(Effect) /\ Left.exec = call.exec /\ Left \in Effect
        BY <1>0, <1>7, CallTyped DEF TypeOK, UnitRuns, Effect, CallRecord, Left
      <4>2. /\ DOMAIN effects' = DOMAIN effects \cup {n} /\ effects'[n] = Left
            /\ \A k \in DOMAIN effects : effects'[k] = effects[k]
        BY <3>2, <4>1
      <4> HIDE DEF n
      <4> QED  BY <2>1, <4>1, <4>2 DEF Done
    <3> QED  BY <1>7, <3>1, <3>2 DEF UnitRuns, Left
  <2> QED  BY <1>0, <2>1, <2>2 DEF Lost, Planned
<1>8. CASE UnitRecords
  <2>1. call'.pc = "done"
    BY <1>8 DEF UnitRecords, Reply, Answer
  <2> QED  BY <1>1, <1>8, <2>1 DEF UnitRecords, memory
<1>9. CASE Respond \/ Crash
  BY <1>0, <1>9 DEF Respond, Crash, files, memory, Lost, Done, Planned, Idle, NoPlan
<1> QED  BY <1>2, <1>3, <1>4, <1>5, <1>6, <1>7, <1>8, <1>9 DEF Next

\* A job whose plan is lost gets no plan and no effect ever again.
THEOREM LostStaysUndone == Spec => LostWorkStaysUndone
<1>1. BInv /\ [Next]_vars =>
        [\A e \in Executions : Lost(e) =>
           /\ Lost(e)'
           /\ {k \in DOMAIN effects' : effects'[k].exec = e} = {k \in DOMAIN effects : effects[k].exec = e}]_vars
  BY LostKept DEF Done
<1> QED  BY <1>1, BInvAlways, PTL DEF Spec, LostWorkStaysUndone

\* The results with one of some outcomes, and whether a call owes one of them.
Of(rs, outcomes) == {k \in DOMAIN rs : rs[k].outcome \in outcomes}
Owes(c, outcomes) == IF c.pc = "record" /\ c.status \in outcomes THEN 1 ELSE 0
Count(rs, c, outcomes) == Cardinality(Of(rs, outcomes)) + Owes(c, outcomes)
Result == [task: Tasks, outcome: {"SUCCEEDED", "FAILED", "DENIED"}]

\* What is counted is a number.
LEMMA CountTyped ==
  ASSUME NEW rs \in Seq(Result), NEW c, NEW outcomes
  PROVE  /\ IsFiniteSet(Of(rs, outcomes)) /\ Cardinality(Of(rs, outcomes)) \in Nat
         /\ Owes(c, outcomes) \in {0, 1} /\ Count(rs, c, outcomes) \in Nat
<1>1. Of(rs, outcomes) \subseteq 1..Len(rs) /\ Len(rs) \in Nat
  BY DEF Of
<1>2. IsFiniteSet(Of(rs, outcomes))
  <2>1. IsFiniteSet(1..Len(rs))
    BY <1>1, FS_Interval
  <2> QED  BY <1>1, <2>1, FS_Subset
<1>3. Cardinality(Of(rs, outcomes)) \in Nat
  BY <1>2, FS_CardinalityType
<1>4. Owes(c, outcomes) \in {0, 1}
  BY DEF Owes
<1> QED  BY <1>2, <1>3, <1>4 DEF Count

\* Of one more result, those of its outcome are one more.
LEMMA OfGrows ==
  ASSUME NEW rs \in Seq(Result), NEW r \in Result, NEW outcomes
  PROVE  Cardinality(Of(Append(rs, r), outcomes)) =
           Cardinality(Of(rs, outcomes)) + (IF r.outcome \in outcomes THEN 1 ELSE 0)
<1> DEFINE n == Len(rs) + 1
<1>1. Len(rs) \in Nat /\ DOMAIN rs = 1..Len(rs)
  OBVIOUS
<1>2. IsFiniteSet(Of(rs, outcomes)) /\ Cardinality(Of(rs, outcomes)) \in Nat
  BY CountTyped
<1>3. n \notin Of(rs, outcomes)
  BY <1>1 DEF Of
<1>4. /\ DOMAIN Append(rs, r) = DOMAIN rs \cup {n} /\ Append(rs, r)[n] = r
      /\ \A k \in DOMAIN rs : Append(rs, r)[k] = rs[k]
  OBVIOUS
<1>5. CASE r.outcome \notin outcomes
  <2>1. Of(Append(rs, r), outcomes) = Of(rs, outcomes)
    BY <1>4, <1>5 DEF Of
  <2> QED  BY <1>2, <1>5, <2>1
<1>6. CASE r.outcome \in outcomes
  <2>1. Of(Append(rs, r), outcomes) = Of(rs, outcomes) \cup {n}
    BY <1>4, <1>6 DEF Of
  <2>2. Cardinality(Of(rs, outcomes) \cup {n}) = Cardinality(Of(rs, outcomes)) + 1
    BY <1>2, <1>3, FS_AddElement
  <2> QED  BY <1>6, <2>1, <2>2
<1> QED  BY <1>5, <1>6

Work == {"SUCCEEDED", "FAILED"}
Success == {"SUCCEEDED"}

\* A call that does not run and is not about to record owes no more than before.
LEMMA OthersOweNothing ==
  ASSUME BInv, Next, ~\E o \in {"SUCCEEDED", "FAILED"} : UnitRuns(o), ~UnitRecords, ~Crash,
         NEW outcomes \in {Work, Success}
  PROVE  Owes(call', outcomes) = Owes(call, outcomes) /\ UNCHANGED <<results, effects, crashes>>
<1>0. TypeOK
  BY DEF BInv
<1>1. CASE ClientActs
  BY <1>1 DEF ClientActs, CreateApprovalRecord, TimePasses, files
<1>2. CASE Request
  <2>1. call = Idle /\ UNCHANGED <<results, effects, crashes>>
    BY <1>2 DEF Request, ExecuteAdmittedBridge, OrchestrateSelfCorrection, ExecuteWorkUnit, files
  <2>2. Owes(call', outcomes) = 0
    BY <1>0, <1>2, RequestBegins DEF Owes, Work, Success
  <2> QED  BY <2>1, <2>2 DEF Owes, Idle
<1>3. CASE BridgeCreatesJob \/ BridgeCreatesTask \/ BridgePrepares
  <2>1. call.pc \in {"job", "task", "prepare"} /\ UNCHANGED <<results, effects, crashes>>
    BY <1>3 DEF BridgeCreatesJob, BridgeCreatesTask, BridgePrepares, files
  <2>2. call \in CallRecord
    BY <1>0, <2>1, CallTyped
  <2>3. call'.pc \in {"task", "prepare", "run", "done"}
    <3>1. CASE BridgeCreatesJob
      <4>1. CASE Reply("THROWN")
        BY <2>2, <4>1, AnswerTyped DEF Reply, Statuses
      <4>2. CASE call' = [call EXCEPT !.pc = "task", !.fresh = TRUE]
        BY <2>2, <4>2 DEF CallRecord
      <4> QED  BY <3>1, <4>1, <4>2 DEF BridgeCreatesJob
    <3>2. CASE BridgeCreatesTask
      BY <2>2, <3>2, AnswerTyped DEF BridgeCreatesTask, Reply, Statuses, CallRecord
    <3>3. CASE BridgePrepares
      <4>1. CASE Reply("THROWN") \/ Reply("EXECUTION_DENIED")
        BY <2>2, <4>1, AnswerTyped DEF Reply, Statuses
      <4>2. CASE call' = [call EXCEPT !.pc = "run", !.tracked = FALSE, !.approval = 0]
        BY <2>2, <4>2 DEF CallRecord
      <4> QED  BY <3>3, <4>1, <4>2 DEF BridgePrepares
    <3> QED  BY <1>3, <3>1, <3>2, <3>3
  <2> QED  BY <2>1, <2>3 DEF Owes
<1>4. CASE Respond
  BY <1>4 DEF Respond, Owes, Idle, files
<1> QED  BY <1>1, <1>2, <1>3, <1>4 DEF Next

\* A recorded result is no longer owed.
LEMMA RecordCounts ==
  ASSUME BInv, UnitRecords, NEW outcomes \in {Work, Success}
  PROVE  /\ Count(results', call', outcomes) = Count(results, call, outcomes)
         /\ UNCHANGED <<effects, crashes>>
<1> DEFINE r == [task |-> call.task, outcome |-> call.status]
<1>1. /\ call.pc = "record" /\ call \in CallRecord /\ results' = Append(results, r)
      /\ UNCHANGED <<effects, crashes>> /\ call'.pc = "done"
  BY CallTyped DEF UnitRecords, Record, Reply, Answer, Called, BInv
<1>2. r \in Result /\ results \in Seq(Result) /\ r.outcome = call.status
  BY <1>1 DEF CallRecord, BInv, CallSound, TypeOK, Result
<1> HIDE DEF r
<1>3. Cardinality(Of(results', outcomes)) =
        Cardinality(Of(results, outcomes)) + (IF r.outcome \in outcomes THEN 1 ELSE 0)
  BY <1>1, <1>2, OfGrows
<1>4. Owes(call', outcomes) = 0
  BY <1>1 DEF Owes
<1>5. Owes(call, outcomes) = IF r.outcome \in outcomes THEN 1 ELSE 0
  BY <1>1, <1>2 DEF Owes
<1>6. Cardinality(Of(results, outcomes)) \in Nat
  BY <1>2, CountTyped
<1> QED  BY <1>1, <1>3, <1>4, <1>5, <1>6 DEF Count

\* Every effect has its result, but for one per crash, and every success its effect.
THEOREM ResultsAccountFor == Spec => []ResultsAccount
<1>0. ResultsAccount <=> /\ Count(results, call, Success) <= Len(effects)
                         /\ Len(effects) <= Count(results, call, Work) + crashes
  BY DEF ResultsAccount, Count, Of, Owes, Success, Work
<1>1. Init => ResultsAccount
  <2> SUFFICES ASSUME Init PROVE ResultsAccount
    OBVIOUS
  <2>1. \A o : Of(results, o) = {} /\ Owes(call, o) = 0
    BY DEF Init, Of, Owes, Idle
  <2>2. Len(effects) = 0 /\ crashes = 0 /\ Cardinality({}) = 0
    BY FS_EmptySet DEF Init
  <2>3. \A o : Count(results, call, o) = 0
    <3> TAKE o
    <3>1. Of(results, o) = {} /\ Owes(call, o) = 0
      BY <2>1
    <3>2. Cardinality(Of(results, o)) = 0
      BY <2>2, <3>1
    <3> QED  BY <3>1, <3>2 DEF Count
  <2> QED  BY <1>0, <2>2, <2>3
<1>2. BInv /\ ResultsAccount /\ [Next]_vars => ResultsAccount'
  <2> SUFFICES ASSUME BInv, ResultsAccount, [Next]_vars PROVE ResultsAccount'
    OBVIOUS
  <2> DEFINE s == Count(results, call, Success)
             w == Count(results, call, Work)
             sNext == Count(results', call', Success)
             wNext == Count(results', call', Work)
  <2>1. /\ results \in Seq(Result) /\ effects \in Seq(Effect) /\ crashes \in Nat
        /\ Len(effects) \in Nat
    BY DEF BInv, TypeOK, Result
  <2>2. s \in Nat /\ w \in Nat /\ s <= Len(effects) /\ Len(effects) <= w + crashes
    BY <1>0, <2>1, CountTyped
  <2>g. ASSUME sNext <= Len(effects'), Len(effects') <= wNext + crashes'
        PROVE  ResultsAccount'
    BY <2>g DEF ResultsAccount, Count, Of, Owes, Success, Work
  <2>3. ASSUME NEW o \in {"SUCCEEDED", "FAILED"}, UnitRuns(o)
        PROVE  ResultsAccount'
    <3>1. /\ call.pc = "run" /\ call'.pc = "record" /\ call'.status = o
          /\ UNCHANGED <<results, crashes>>
          /\ call \in CallRecord
      BY <2>3, CallTyped DEF UnitRuns, CallRecord, files, BInv
    <3>2. wNext = w + 1
      <4>1. Owes(call', Work) = 1 /\ Owes(call, Work) = 0
        BY <3>1 DEF Owes, Work
      <4>2. Cardinality(Of(results, Work)) \in Nat
        BY <2>1, CountTyped
      <4> QED  BY <3>1, <4>1, <4>2 DEF Count
    <3>3. CASE effects' = Append(effects, Left)
      <4>1. Left \in Effect
        BY <3>1 DEF Effect, CallRecord, Left
      <4>2. Len(effects') = Len(effects) + 1
        BY <2>1, <3>3, <4>1
      <4>3. sNext \in {s, s + 1}
        <5>1. Owes(call', Success) \in {0, 1} /\ Owes(call, Success) = 0
          BY <3>1 DEF Owes
        <5>2. Cardinality(Of(results, Success)) \in Nat
          BY <2>1, CountTyped
        <5> QED  BY <3>1, <5>1, <5>2 DEF Count
      <4> HIDE DEF s, w, sNext, wNext
      <4> QED  BY <2>1, <2>2, <2>g, <3>1, <3>2, <4>2, <4>3
    <3>4. CASE o = "FAILED" /\ UNCHANGED effects
      <4>1. sNext = s
        <5>1. Owes(call', Success) = 0 /\ Owes(call, Success) = 0
          BY <3>1, <3>4 DEF Owes, Success
        <5> QED  BY <3>1, <5>1 DEF Count
      <4> HIDE DEF s, w, sNext, wNext
      <4> QED  BY <2>1, <2>2, <2>g, <3>1, <3>2, <3>4, <4>1
    <3> QED  BY <2>3, <3>3, <3>4 DEF UnitRuns, Left
  <2>4. CASE UnitRecords
    <3>1. sNext = s /\ wNext = w /\ UNCHANGED <<effects, crashes>>
      BY <2>4, RecordCounts
    <3> HIDE DEF s, w, sNext, wNext
    <3> QED  BY <2>2, <2>g, <3>1
  <2>5. CASE Crash
    <3>1. call'.pc = "idle" /\ crashes' = crashes + 1 /\ results' = results /\ effects' = effects
      BY <2>5 DEF Crash, Idle, files
    <3>2. /\ sNext = Cardinality(Of(results, Success))
          /\ wNext = Cardinality(Of(results, Work))
      <4>1. Owes(call', Success) = 0 /\ Owes(call', Work) = 0
        BY <3>1 DEF Owes
      <4>2. Cardinality(Of(results, Success)) \in Nat /\ Cardinality(Of(results, Work)) \in Nat
        BY <2>1, CountTyped
      <4> QED  BY <3>1, <4>1, <4>2 DEF Count
    <3>3. /\ s = Cardinality(Of(results, Success)) + Owes(call, Success)
          /\ w = Cardinality(Of(results, Work)) + Owes(call, Work)
      BY DEF Count
    <3>4. /\ Cardinality(Of(results, Success)) \in Nat /\ Cardinality(Of(results, Work)) \in Nat
          /\ Owes(call, Success) \in {0, 1} /\ Owes(call, Work) \in {0, 1}
      BY <2>1, CountTyped
    <3> HIDE DEF s, w, sNext, wNext
    <3> QED  BY <2>1, <2>2, <2>g, <3>1, <3>2, <3>3, <3>4
  <2>6. CASE UNCHANGED vars
    BY <2>6 DEF vars, files, ResultsAccount
  <2>7. CASE Next /\ ~(\E o \in {"SUCCEEDED", "FAILED"} : UnitRuns(o)) /\ ~UnitRecords /\ ~Crash
    <3>1. /\ Owes(call', Success) = Owes(call, Success) /\ Owes(call', Work) = Owes(call, Work)
          /\ UNCHANGED <<results, effects, crashes>>
      BY <2>7, OthersOweNothing
    <3>2. sNext = s /\ wNext = w
      BY <3>1 DEF Count
    <3> HIDE DEF s, w, sNext, wNext
    <3> QED  BY <2>2, <2>g, <3>1, <3>2
  <2> QED  BY <2>3, <2>4, <2>5, <2>6, <2>7
<1> QED  BY <1>1, <1>2, BInvAlways, PTL DEF Spec
=============================================================================
