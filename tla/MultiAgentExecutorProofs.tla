----------------------- MODULE MultiAgentExecutorProofs -----------------------
(***************************************************************************)
(* What COMPLETED means and how far the budget is exceeded, for any plans, *)
(* budgets and numbers of executions.  An execution depends on no other    *)
(* but for the budget, so the first invariant is one of a single execution *)
(* (Fits): its answers only ever grow, and fill no place that its plan does *)
(* not have.  The second (OInv) counts: the calls that are out find room    *)
(* beside each other, and beyond the budget none is added to them.          *)
(* The last two parts are what the end of an execution rests on besides     *)
(* fairness: somebody is always out (WInv), and no answer is asked for      *)
(* again (SInv).                                                           *)
(***************************************************************************)
EXTENDS MultiAgentExecutor, FiniteSetTheorems, TLAPS

USE ExecutorAssumption

\* The places at which somebody was asked.
Touched(ans) == {i \in Calls : ans[i] # "none"}

Whole(x) ==
  /\ x.mode = "SEQUENTIAL" => Good(x.ans) = 1..Len(x.plan.order)
  /\ x.mode \in AtOnce => Good(x.ans) = 1..Len(x.plan.members)
  /\ x.mode = "DEBATE_REVIEW" => (Len(x.plan.members) >= 3 => {1, 3} \subseteq Good(x.ans))

Fits(x) ==
  /\ x.mode = "SEQUENTIAL" => Touched(x.ans) \subseteq 1..Len(x.plan.order)
  /\ x.mode \in AtOnce => Touched(x.ans) \subseteq 1..Len(x.plan.members)
  /\ x.mode = "DEBATE_REVIEW" => /\ Touched(x.ans) \subseteq {1, 2, 3}
                                 /\ x.ans[3] # "none" => x.ans[1] = "SUCCESS"
  /\ x.status = "COMPLETED" => Whole(x)

\* An execution that has a plan.
Begun == {x \in Execution : x.status # "new" /\ x.mode \in Modes /\ x.plan \in Plans}

\* y is x further on.
Goes(x, y) == y \in Begun /\ Fits(y) /\ y.mode = x.mode /\ y.plan = x.plan

\* The places of a plan are places of the model.
LEMMA PlansTyped ==
  ASSUME NEW p \in Plans
  PROVE  /\ Len(p.members) \in Nat /\ Len(p.order) \in Nat
         /\ 1..Len(p.members) \subseteq Calls /\ 1..Len(p.order) \subseteq Calls
BY DEF Calls

\* What a new status changes of an execution ...
LEMMA StatusTyped ==
  ASSUME NEW x \in Begun, NEW s \in {"running", "threw", "COMPLETED", "PARTIAL", "BUDGET_EXCEEDED"}
  PROVE  /\ [x EXCEPT !.status = s] \in Begun
         /\ [x EXCEPT !.status = s].status = s
         /\ [x EXCEPT !.status = s].mode = x.mode
         /\ [x EXCEPT !.status = s].plan = x.plan
         /\ [x EXCEPT !.status = s].ans = x.ans
BY DEF Begun, Execution

\* ... and what new answers do.
LEMMA AnsTyped ==
  ASSUME NEW x \in Begun, NEW f \in [Calls -> Outcomes]
  PROVE  /\ [x EXCEPT !.ans = f] \in Begun
         /\ [x EXCEPT !.ans = f].status = x.status
         /\ [x EXCEPT !.ans = f].mode = x.mode
         /\ [x EXCEPT !.ans = f].plan = x.plan
         /\ [x EXCEPT !.ans = f].ans = f
BY DEF Begun, Execution

\* Asking touches only the places it asks.
LEMMA AskTyped ==
  ASSUME NEW ans \in [Calls -> Outcomes], NEW some, NEW u
  PROVE  /\ Ask(ans, some, u) \in [Calls -> Outcomes]
         /\ Touched(Ask(ans, some, u)) \subseteq Touched(ans) \cup some
         /\ \A i \in Calls \ some : Ask(ans, some, u)[i] = ans[i]
         /\ \A i \in Calls \cap some : Ask(ans, some, u)[i] \in {"asked", "barred"}
BY DEF Ask, Outcomes, Touched

\* An execution that ends other than COMPLETED promises nothing more.
LEMMA EndsFit ==
  ASSUME NEW x \in Begun, Fits(x), NEW s \in {"threw", "PARTIAL", "BUDGET_EXCEEDED"}
  PROVE  Goes(x, [x EXCEPT !.status = s])
<1> DEFINE y == [x EXCEPT !.status = s]
<1>1. s \in {"running", "threw", "COMPLETED", "PARTIAL", "BUDGET_EXCEEDED"}
  OBVIOUS
<1>2. y \in Begun /\ y.status = s /\ y.mode = x.mode /\ y.plan = x.plan /\ y.ans = x.ans
  BY <1>1, StatusTyped
<1>3. Goes(x, y)
  <2> HIDE DEF y
  <2> QED  BY <1>2 DEF Goes, Fits
<1> QED  BY <1>3

\* An execution may be COMPLETED when it is whole.
LEMMA CompletionFits ==
  ASSUME NEW x \in Begun, Fits(x), Whole(x)
  PROVE  Goes(x, [x EXCEPT !.status = "COMPLETED"])
<1> DEFINE y == [x EXCEPT !.status = "COMPLETED"]
<1>1. y \in Begun /\ y.status = "COMPLETED" /\ y.mode = x.mode /\ y.plan = x.plan /\ y.ans = x.ans
  BY StatusTyped
<1>2. Goes(x, y)
  <2> HIDE DEF y
  <2> QED  BY <1>1 DEF Goes, Fits, Whole
<1> QED  BY <1>2

\* Asking at places that the plan has.
LEMMA AskingFits ==
  ASSUME NEW x \in Begun, Fits(x), x.status = "running", NEW some, NEW u,
         x.mode = "SEQUENTIAL" => some \subseteq 1..Len(x.plan.order),
         x.mode \in AtOnce => some \subseteq 1..Len(x.plan.members),
         x.mode = "DEBATE_REVIEW" =>
           some \subseteq {2, 3} /\ (3 \in some => x.ans[1] = "SUCCESS")
  PROVE  Goes(x, [x EXCEPT !.ans = Ask(x.ans, some, u)])
<1> DEFINE f == Ask(x.ans, some, u)
           y == [x EXCEPT !.ans = f]
<1>1. x.ans \in [Calls -> Outcomes] /\ 1 \in Calls /\ 3 \in Calls
  BY DEF Begun, Execution, Calls
<1>2. /\ f \in [Calls -> Outcomes] /\ Touched(f) \subseteq Touched(x.ans) \cup some
      /\ \A i \in Calls \ some : f[i] = x.ans[i]
  BY <1>1, AskTyped
<1>3. y \in Begun /\ y.status = x.status /\ y.mode = x.mode /\ y.plan = x.plan /\ y.ans = f
  <2> HIDE DEF f
  <2> QED  BY <1>2, AnsTyped
<1>4. Goes(x, y)
  <2> HIDE DEF f, y
  <2> QED  BY <1>1, <1>2, <1>3 DEF Goes, Fits
<1> QED  BY <1>4

-----------------------------------------------------------------------------
(* The three ways to go on *)

\* One after the other: as many good answers as places are good answers at all of them.
LEMMA AheadFits ==
  ASSUME NEW x \in Begun, Fits(x), x.status = "running", x.mode = "SEQUENTIAL",
         NEW from \in Nat, from >= 1, NEW u
  PROVE  Goes(x, Ahead(x, from, u))
<1> DEFINE ahead == {i \in from..Len(x.plan.order) : x.plan.order[i] \in ToSet(x.plan.members)}
<1>1. x.plan \in Plans /\ x.ans \in [Calls -> Outcomes]
  BY DEF Begun, Execution
<1>2. Len(x.plan.order) \in Nat
  BY <1>1, PlansTyped
<1>3. ahead \subseteq 1..Len(x.plan.order)
  BY <1>2
<1>4. Cardinality(Good(x.ans)) = Len(x.plan.order) => Whole(x)
  <2> SUFFICES ASSUME Cardinality(Good(x.ans)) = Len(x.plan.order)
               PROVE  Good(x.ans) = 1..Len(x.plan.order)
    BY DEF Whole, AtOnce
  <2>1. Good(x.ans) \subseteq 1..Len(x.plan.order)
    BY DEF Good, Fits, Touched
  <2>2. IsFiniteSet(1..Len(x.plan.order)) /\ Cardinality(1..Len(x.plan.order)) = Len(x.plan.order)
    BY <1>2, FS_Interval
  <2> QED  BY <2>1, <2>2, FS_Subset
<1>5. CASE ahead = {}
  <2>1. CASE Cardinality(Good(x.ans)) = Len(x.plan.order)
    BY <1>4, <1>5, <2>1, CompletionFits DEF Ahead
  <2>2. CASE Cardinality(Good(x.ans)) # Len(x.plan.order)
    BY <1>5, <2>2, EndsFit DEF Ahead
  <2> QED  BY <2>1, <2>2
<1>6. CASE ahead # {} /\ u >= MaxCalls
  BY <1>6, EndsFit DEF Ahead
<1>7. CASE ahead # {} /\ ~(u >= MaxCalls)
  <2>1. Ahead(x, from, u) = [x EXCEPT !.ans = Ask(x.ans, First(ahead), u)]
    BY <1>7 DEF Ahead
  <2>2. First(ahead) \subseteq 1..Len(x.plan.order)
    BY <1>3 DEF First
  <2>3. x.mode \notin AtOnce /\ x.mode # "DEBATE_REVIEW"
    BY DEF AtOnce
  <2> HIDE DEF ahead
  <2>4. Goes(x, [x EXCEPT !.ans = Ask(x.ans, First(ahead), u)])
    BY <2>2, <2>3, AskingFits
  <2> QED  BY <2>1, <2>4
<1> QED  BY <1>5, <1>6, <1>7

\* All at once: COMPLETED when every member's answer is good.
LEMMA GatheredFits ==
  ASSUME NEW x \in Begun, Fits(x), x.status = "running", x.mode \in AtOnce
  PROVE  Goes(x, Gathered(x))
<1> DEFINE all == 1..Len(x.plan.members)
<1>1. x.plan \in Plans /\ x.ans \in [Calls -> Outcomes]
  BY DEF Begun, Execution
<1>2. all \subseteq Calls
  BY <1>1, PlansTyped
<1>3. (\A i \in all : x.ans[i] = "SUCCESS") => Whole(x)
  BY <1>2 DEF Whole, AtOnce, Fits, Good, Touched
<1>4. CASE \E i \in all : x.ans[i] \in {"asked", "barred"}
  BY <1>4 DEF Gathered, Goes
<1>5. CASE ~(\E i \in all : x.ans[i] \in {"asked", "barred"}) /\ \A i \in all : x.ans[i] = "SUCCESS"
  BY <1>3, <1>5, CompletionFits DEF Gathered
<1>6. CASE /\ ~(\E i \in all : x.ans[i] \in {"asked", "barred"})
           /\ ~(\A i \in all : x.ans[i] = "SUCCESS")
  BY <1>6, EndsFit DEF Gathered
<1> QED  BY <1>4, <1>5, <1>6

\* In stages: the third is asked only after a good first.
LEMMA StagedFits ==
  ASSUME NEW x \in Begun, Fits(x), x.status = "running", x.mode = "DEBATE_REVIEW",
         NEW i \in {1, 2, 3}, NEW u
  PROVE  Goes(x, Staged(x, i, u))
<1>0. x.plan \in Plans /\ x.ans \in [Calls -> Outcomes] /\ {1, 2, 3} \subseteq Calls
  BY DEF Begun, Execution, Calls
<1>m. x.mode # "SEQUENTIAL" /\ x.mode \notin AtOnce
  BY DEF AtOnce
<1> DEFINE third == Len(x.plan.members) >= 3
           threw == [x EXCEPT !.status = "threw"]
           completed == [x EXCEPT !.status = "COMPLETED"]
           two == [x EXCEPT !.ans = Ask(x.ans, {2}, u)]
           three == [x EXCEPT !.ans = Ask(x.ans, {3}, u)]
<1>t. Goes(x, threw)
  BY EndsFit
<1>1. CASE i = 1
  <2>1. {2} \subseteq {2, 3} /\ 3 \notin {2}
    OBVIOUS
  <2>2. Goes(x, two)
    BY <1>m, <2>1, AskingFits
  <2>3. Staged(x, i, u) = two
    BY <1>1 DEF Staged
  <2> QED  BY <2>2, <2>3
<1>2. CASE i = 2 /\ ~third
  <2>1. Whole(x)
    BY <1>2, <1>m DEF Whole
  <2>2. Goes(x, completed)
    BY <2>1, CompletionFits
  <2>3. Staged(x, i, u) = completed
    BY <1>2 DEF Staged
  <2> QED  BY <2>2, <2>3
<1>3. CASE i = 2 /\ third /\ x.ans[1] = "SUCCESS"
  <2>1. {3} \subseteq {2, 3}
    OBVIOUS
  <2>2. Goes(x, three)
    BY <1>3, <1>m, <2>1, AskingFits
  <2>3. Staged(x, i, u) = three
    BY <1>3 DEF Staged
  <2> QED  BY <2>2, <2>3
<1>4. CASE i = 2 /\ third /\ x.ans[1] # "SUCCESS"
  <2>1. Staged(x, i, u) = threw
    BY <1>4 DEF Staged
  <2> QED  BY <1>t, <2>1
<1>5. CASE i = 3 /\ x.ans[3] = "SUCCESS"
  <2>1. Whole(x)
    BY <1>0, <1>5, <1>m DEF Whole, Fits, Good
  <2>2. Goes(x, completed)
    BY <2>1, CompletionFits
  <2>3. Staged(x, i, u) = completed
    BY <1>5 DEF Staged
  <2> QED  BY <2>2, <2>3
<1>6. CASE i = 3 /\ x.ans[3] # "SUCCESS"
  <2>1. Staged(x, i, u) = threw
    BY <1>6 DEF Staged
  <2> QED  BY <1>t, <2>1
<1> QED  BY <1>1, <1>2, <1>3, <1>4, <1>5, <1>6

-----------------------------------------------------------------------------
(* The steps *)

MInv ==
  /\ TypeOK
  /\ \A e \in Executions : IF exec[e].status = "new" THEN Touched(exec[e].ans) = {}
                             ELSE Fits(exec[e])

\* An execution that has just begun has asked nobody.
LEMMA StartedFits ==
  ASSUME NEW mode \in Modes, NEW plan \in Plans
  PROVE  /\ Started(mode, plan) \in Begun /\ Fits(Started(mode, plan))
         /\ Started(mode, plan).status = "running" /\ Started(mode, plan).mode = mode
         /\ Started(mode, plan).plan = plan
<1>1. NotAsked \in [Calls -> Outcomes] /\ Touched(NotAsked) = {} /\ 3 \in Calls
  BY DEF NotAsked, Outcomes, Touched, Calls
<1>2. Started(mode, plan) \in Begun
  BY <1>1 DEF Started, Begun, Execution
<1>3. NotAsked[3] = "none"
  BY <1>1 DEF NotAsked
<1> QED  BY <1>1, <1>2, <1>3 DEF Started, Fits

\* Starting an execution makes a record that fits its plan ...
LEMMA ExecutePlanFits ==
  ASSUME MInv, NEW e \in Executions, NEW mode \in Modes, NEW plan \in Plans,
         ExecutePlan(e, mode, plan)
  PROVE  \E y \in Begun : Fits(y) /\ exec' = [exec EXCEPT ![e] = y]
<1> DEFINE x == Started(mode, plan)
<1>1. x \in Begun /\ Fits(x) /\ x.status = "running" /\ x.mode = mode /\ x.plan = plan
  BY StartedFits
<1> DEFINE teamed == [x EXCEPT !.ans = Ask(x.ans, 1..Len(plan.members), used)]
           first == [x EXCEPT !.ans = Ask(x.ans, {1}, used)]
           refused == [x EXCEPT !.status = "threw"]
<1>2. CASE Refused(plan)
  <2>1. Goes(x, refused)
    BY <1>1, EndsFit
  <2>2. exec' = [exec EXCEPT ![e] = refused]
    BY <1>2 DEF ExecutePlan
  <2> QED  BY <2>1, <2>2 DEF Goes
<1>3. CASE ~Refused(plan) /\ mode = "SEQUENTIAL"
  <2>1. exec' = [exec EXCEPT ![e] = Ahead(x, 1, used)]
    <3> HIDE DEF x
    <3>1. mode \notin AtOnce /\ mode # "DEBATE_REVIEW"
      BY <1>3 DEF AtOnce
    <3> QED  BY <1>3, <3>1 DEF ExecutePlan, x
  <2> HIDE DEF x
  <2>2. Goes(x, Ahead(x, 1, used))
    BY <1>1, <1>3, AheadFits
  <2> QED  BY <2>1, <2>2 DEF Goes
<1>4. CASE ~Refused(plan) /\ mode \in AtOnce
  <2>1. exec' = [exec EXCEPT ![e] = Gathered(teamed)]
    BY <1>4 DEF ExecutePlan, AtOnce
  <2>2. mode # "SEQUENTIAL" /\ mode # "DEBATE_REVIEW"
    BY <1>4 DEF AtOnce
  <2>3. Goes(x, teamed) /\ teamed.status = "running"
    <3> HIDE DEF x
    <3>1. Goes(x, teamed)
      BY <1>1, <2>2, AskingFits
    <3>2. teamed.status = "running"
      BY <1>1 DEF Begun, Execution
    <3> QED  BY <3>1, <3>2
  <2> HIDE DEF x, teamed
  <2>4. Goes(teamed, Gathered(teamed))
    BY <1>1, <1>4, <2>3, GatheredFits DEF Goes
  <2> QED  BY <2>1, <2>4 DEF Goes
<1>5. CASE ~Refused(plan) /\ mode = "DEBATE_REVIEW"
  <2>1. exec' = [exec EXCEPT ![e] = first]
    BY <1>5 DEF ExecutePlan, AtOnce
  <2>2. first \in Begun /\ Fits(first)
    <3>1. x.ans = NotAsked /\ NotAsked \in [Calls -> Outcomes] /\ {1, 3} \subseteq Calls
      BY DEF Started, NotAsked, Outcomes, Calls
    <3> DEFINE f == Ask(x.ans, {1}, used)
    <3>2. f \in [Calls -> Outcomes] /\ f[3] = "none" /\ Touched(f) \subseteq {1, 2, 3}
      <4>1. x.ans \in [Calls -> Outcomes] /\ Touched(x.ans) = {} /\ 3 \in Calls \ {1} /\ x.ans[3] = "none"
        BY <3>1 DEF NotAsked, Touched
      <4> HIDE DEF x
      <4> QED  BY <4>1, AskTyped
    <3> DEFINE y == [x EXCEPT !.ans = f]
    <3>3. /\ y \in Begun /\ y.status = "running" /\ y.mode = mode
          /\ y.ans = f
      <4> HIDE DEF x, f
      <4> QED  BY <1>1, <3>2, AnsTyped
    <3>4. y \in Begun /\ Fits(y)
      <4> HIDE DEF x, f, y
      <4> QED  BY <1>5, <3>2, <3>3 DEF Fits, AtOnce
    <3> QED  BY <3>4
  <2> QED  BY <2>1, <2>2
<1> QED  BY <1>2, <1>3, <1>4, <1>5 DEF Modes, AtOnce

\* An answer takes the place of the call that was out, and no other.
LEMMA AnswerFits ==
  ASSUME NEW x \in Begun, Fits(x), NEW i \in Calls, x.ans[i] \in {"asked", "barred"},
         NEW outcome \in Outcomes \ {"none"}
  PROVE  /\ Goes(x, [x EXCEPT !.ans[i] = outcome])
         /\ [x EXCEPT !.ans[i] = outcome].status = x.status
<1> DEFINE f == [x.ans EXCEPT ![i] = outcome]
           y == [x EXCEPT !.ans = f]
<1>1. x.ans \in [Calls -> Outcomes] /\ x.plan \in Plans /\ {1, 2, 3} \subseteq Calls
  BY DEF Begun, Execution, Calls
<1>2. /\ f \in [Calls -> Outcomes] /\ f[i] = outcome /\ Touched(f) = Touched(x.ans)
      /\ \A j \in Calls \ {i} : f[j] = x.ans[j]
  BY <1>1 DEF Touched
<1>3. y \in Begun /\ y.status = x.status /\ y.mode = x.mode /\ y.plan = x.plan /\ y.ans = f
  <2> HIDE DEF f
  <2> QED  BY <1>2, AnsTyped
<1>4. i \in Touched(x.ans) /\ i \notin Good(x.ans)
  BY DEF Touched, Good
<1>5. x.mode = "DEBATE_REVIEW" => (f[3] # "none" => f[1] = "SUCCESS")
  <2> SUFFICES ASSUME x.mode = "DEBATE_REVIEW", f[3] # "none"
               PROVE  f[1] = "SUCCESS"
    OBVIOUS
  <2>1. x.ans[3] # "none"
    BY <1>1, <1>2
  <2>2. x.ans[1] = "SUCCESS"
    BY <2>1 DEF Fits
  <2> QED  BY <2>2, <1>1, <1>2
<1>6. x.status = "COMPLETED" => Whole(y)
  <2> SUFFICES ASSUME x.status = "COMPLETED"
               PROVE  Whole(y)
    OBVIOUS
  <2>1. Whole(x) /\ x.mode # "SEQUENTIAL" /\ x.mode \notin AtOnce
    BY <1>4 DEF Fits, Whole
  <2>2. {1, 3} \subseteq Good(x.ans) => {1, 3} \subseteq Good(f)
    BY <1>1, <1>2, <1>4 DEF Good
  <2> HIDE DEF f, y
  <2> QED  BY <1>3, <2>1, <2>2 DEF Whole
<1>7. Goes(x, y)
  <2> HIDE DEF f, y
  <2> QED  BY <1>2, <1>3, <1>5, <1>6 DEF Goes, Fits
<1>8. [x EXCEPT !.ans[i] = outcome] = y
  BY DEF Begun, Execution
<1> HIDE DEF y
<1> QED  BY <1>3, <1>7, <1>8

\* ... and every answer leaves one, also the answer that comes after the end.
LEMMA AnsweredFits ==
  ASSUME MInv, NEW e \in Executions, NEW i \in Calls, Answered(e, i)
  PROVE  /\ used' \in Nat
         /\ \E y \in Begun : Fits(y) /\ exec' = [exec EXCEPT ![e] = y]
<1> DEFINE old == exec[e]
<1>1. PICK outcome \in {"BUDGET_EXCEEDED", "SUCCESS", "INVALID", "FAILED"} :
        LET x == [exec[e] EXCEPT !.ans[i] = outcome]
            u == IF outcome \in {"SUCCESS", "INVALID"} THEN used + 1 ELSE used
        IN /\ used' = u
           /\ exec' = [exec EXCEPT ![e] =
                CASE ~Running(e) -> x
                  [] Running(e) /\ outcome = "INVALID" -> [x EXCEPT !.status = "threw"]
                  [] Running(e) /\ outcome # "INVALID" ->
                       CASE x.mode = "SEQUENTIAL" -> Ahead(x, i + 1, u)
                         [] x.mode \in AtOnce -> Gathered(x)
                         [] x.mode = "DEBATE_REVIEW" -> Staged(x, i, u)]
  BY DEF Answered
<1>2. used' \in Nat
  BY <1>1 DEF MInv, TypeOK
<1>3. old \in Begun /\ Fits(old) /\ old.ans[i] \in {"asked", "barred"}
  BY DEF Answered, InFlight, MInv, TypeOK, Touched, Begun
<1>4. outcome \in Outcomes \ {"none"}
  BY <1>1 DEF Outcomes
<1> DEFINE x == [exec[e] EXCEPT !.ans[i] = outcome]
           u == IF outcome \in {"SUCCESS", "INVALID"} THEN used + 1 ELSE used
<1>5. Goes(old, x) /\ x.status = old.status
  <2> HIDE DEF old
  <2>1. Goes(old, [old EXCEPT !.ans[i] = outcome]) /\ [old EXCEPT !.ans[i] = outcome].status = old.status
    BY <1>3, <1>4, AnswerFits
  <2> QED  BY <2>1 DEF old
<1>6. x \in Begun /\ Fits(x)
  BY <1>5 DEF Goes
<1>7. i \in Nat /\ i >= 1 /\ i + 1 \in Nat /\ i + 1 >= 1
  BY DEF Calls
<1>8. CASE ~Running(e)
  <2>1. exec' = [exec EXCEPT ![e] = x]
    BY <1>1, <1>8
  <2> QED  BY <1>2, <1>6, <2>1
<1>9. CASE Running(e) /\ outcome = "INVALID"
  <2> DEFINE y == [x EXCEPT !.status = "threw"]
  <2>1. exec' = [exec EXCEPT ![e] = y]
    BY <1>1, <1>9
  <2>2. Goes(x, y)
    <3> HIDE DEF x
    <3> QED  BY <1>6, EndsFit
  <2> QED  BY <1>2, <2>1, <2>2 DEF Goes
<1>10. CASE Running(e) /\ outcome # "INVALID"
  <2>1. x.status = "running" /\ x.mode \in Modes
    BY <1>5, <1>10 DEF Running, Goes, Begun
  <2>2. exec' = [exec EXCEPT ![e] =
                   CASE x.mode = "SEQUENTIAL" -> Ahead(x, i + 1, u)
                     [] x.mode \in AtOnce -> Gathered(x)
                     [] x.mode = "DEBATE_REVIEW" -> Staged(x, i, u)]
    BY <1>1, <1>10
  <2> HIDE DEF x, u
  <2>3. CASE x.mode = "SEQUENTIAL"
    <3>1. x.mode \notin AtOnce /\ x.mode # "DEBATE_REVIEW"
      BY <2>3 DEF AtOnce
    <3>2. exec' = [exec EXCEPT ![e] = Ahead(x, i + 1, u)]
      BY <2>2, <2>3, <3>1
    <3>3. Goes(x, Ahead(x, i + 1, u))
      BY <1>6, <1>7, <2>1, <2>3, AheadFits
    <3> QED  BY <1>2, <3>2, <3>3 DEF Goes
  <2>4. CASE x.mode \in AtOnce
    <3>1. x.mode # "SEQUENTIAL" /\ x.mode # "DEBATE_REVIEW"
      BY <2>4 DEF AtOnce
    <3>2. exec' = [exec EXCEPT ![e] = Gathered(x)]
      BY <2>2, <2>4, <3>1
    <3>3. Goes(x, Gathered(x))
      BY <1>6, <2>1, <2>4, GatheredFits
    <3> QED  BY <1>2, <3>2, <3>3 DEF Goes
  <2>5. CASE x.mode = "DEBATE_REVIEW"
    <3>1. x.mode \notin AtOnce /\ x.mode # "SEQUENTIAL"
      BY <2>5 DEF AtOnce
    <3>2. exec' = [exec EXCEPT ![e] = Staged(x, i, u)]
      BY <2>2, <2>5, <3>1
    <3>3. i \in {1, 2, 3}
      <4>1. i \in Touched(old.ans) /\ old.mode = x.mode
        BY <1>3, <1>5 DEF Touched, Goes
      <4> HIDE DEF old
      <4> QED  BY <1>3, <2>5, <4>1 DEF Fits
    <3>4. Goes(x, Staged(x, i, u))
      BY <1>6, <2>1, <2>5, <3>3, StagedFits
    <3> QED  BY <1>2, <3>2, <3>4 DEF Goes
  <2> QED  BY <2>1, <2>3, <2>4, <2>5 DEF Modes, AtOnce
<1> QED  BY <1>8, <1>9, <1>10

-----------------------------------------------------------------------------
\* Nobody is asked before there is a plan.
THEOREM MInvInitially == Init => MInv
<1> SUFFICES ASSUME Init
             PROVE  MInv
  OBVIOUS
<1>1. NotAsked \in [Calls -> Outcomes] /\ Touched(NotAsked) = {}
  BY DEF NotAsked, Outcomes, Touched
<1> QED  BY <1>1 DEF Init, MInv, TypeOK, Execution

\* Every step moves one execution, to a record that fits its plan.
THEOREM MInvKept == MInv /\ [Next]_vars => MInv'
<1> SUFFICES ASSUME MInv, [Next]_vars
             PROVE  MInv'
  OBVIOUS
<1>1. ASSUME NEW e \in Executions, used' \in Nat,
             \E y \in Begun : Fits(y) /\ exec' = [exec EXCEPT ![e] = y]
      PROVE  MInv'
  <2>1. PICK y \in Begun : Fits(y) /\ exec' = [exec EXCEPT ![e] = y]
    BY <1>1
  <2>2. \A d \in Executions : exec'[d] = IF d = e THEN y ELSE exec[d]
    BY <2>1 DEF MInv, TypeOK
  <2>3. y \in Execution /\ y.status # "new" /\ y.mode \in Modes /\ y.plan \in Plans
    BY DEF Begun
  <2>4. TypeOK'
    BY <1>1, <2>1, <2>2, <2>3 DEF MInv, TypeOK
  <2> QED  BY <2>1, <2>2, <2>3, <2>4 DEF MInv
<1>2. CASE UNCHANGED vars
  BY <1>2 DEF vars, MInv, TypeOK
<1>3. ASSUME NEW e \in Executions, NEW mode \in Modes, NEW plan \in Plans, ExecutePlan(e, mode, plan)
      PROVE  MInv'
  <2>1. used' \in Nat
    BY <1>3 DEF ExecutePlan, MInv, TypeOK
  <2> QED  BY <1>1, <1>3, <2>1, ExecutePlanFits
<1>4. ASSUME NEW e \in Executions, NEW i \in Calls, Answered(e, i)
      PROVE  MInv'
  BY <1>1, <1>4, AnsweredFits
<1> QED  BY <1>2, <1>3, <1>4 DEF Next

\* So the invariant always holds.
LEMMA MInvAlways == Spec => []MInv
BY MInvInitially, MInvKept, PTL DEF Spec

\* The shape of the state, whatever is sent and answered.
THEOREM Typed == Spec => []TypeOK
<1>1. MInv => TypeOK
  BY DEF MInv
<1> QED  BY <1>1, MInvAlways, PTL

\* A plan reported COMPLETED has a proposal of every agent it lists.
THEOREM WholeWhenCompleted == Spec => []CompletedIsWhole
<1>1. ASSUME MInv, NEW e \in Executions, exec[e].status = "COMPLETED"
      PROVE  CASE exec[e].mode = "SEQUENTIAL" -> Good(exec[e].ans) = 1..Len(exec[e].plan.order)
               [] exec[e].mode \in AtOnce -> Good(exec[e].ans) = 1..Len(exec[e].plan.members)
               [] exec[e].mode = "DEBATE_REVIEW" ->
                    Len(exec[e].plan.members) >= 3 => {1, 3} \subseteq Good(exec[e].ans)
  <2>1. Whole(exec[e]) /\ exec[e].mode \in Modes
    BY <1>1 DEF MInv, Fits, TypeOK
  <2>2. CASE exec[e].mode = "SEQUENTIAL"
    BY <2>1, <2>2 DEF Whole, AtOnce
  <2>3. CASE exec[e].mode \in AtOnce
    BY <2>1, <2>3 DEF Whole, AtOnce
  <2>4. CASE exec[e].mode = "DEBATE_REVIEW"
    BY <2>1, <2>4 DEF Whole, AtOnce
  <2> QED  BY <2>1, <2>2, <2>3, <2>4 DEF Modes, AtOnce
<1>2. MInv => CompletedIsWhole
  BY <1>1 DEF CompletedIsWhole
<1> QED  BY <1>2, MInvAlways, PTL
-----------------------------------------------------------------------------
(* How far the budget is exceeded *)

Flying(ans) == {i \in Calls : ans[i] \in {"asked", "barred"}}

\* No execution has more calls out than it is wide: a team has those of its members,
\* any other one call at a time.
Narrow(x) ==
  /\ x.mode \notin AtOnce => \A i, j \in Flying(x.ans) : i = j
  /\ x.mode \in AtOnce => /\ Len(x.plan.members) \in Nat /\ Len(x.plan.members) <= Places
                          /\ Touched(x.ans) \subseteq 1..Len(x.plan.members)

WidthOf(x) == IF x.mode \in AtOnce THEN Len(x.plan.members) ELSE 1
Out(xs) == {c \in Executions \X Calls : xs[c[1]].ans[c[2]] = "asked"}
Room(xs) == {c \in Executions \X Calls : xs[c[1]].ans # NotAsked /\ c[2] <= WidthOf(xs[c[1]])}

\* The calls that are out find room beside each other.
LEMMA OutFitsRoom ==
  ASSUME NEW xs \in [Executions -> Execution], \A e \in Executions : Narrow(xs[e]),
         IsFiniteSet(Room(xs))
  PROVE  /\ IsFiniteSet(Out(xs)) /\ Cardinality(Out(xs)) \in Nat
         /\ Cardinality(Room(xs)) \in Nat /\ Cardinality(Out(xs)) <= Cardinality(Room(xs))
<1> DEFINE f == [c \in Out(xs) |-> IF xs[c[1]].mode \in AtOnce THEN c ELSE <<c[1], 1>>]
<1>1. ASSUME NEW c \in Out(xs)
      PROVE  /\ c = <<c[1], c[2]>> /\ c[1] \in Executions /\ c[2] \in Calls
             /\ c[2] \in Flying(xs[c[1]].ans) /\ c[2] \in Touched(xs[c[1]].ans)
             /\ xs[c[1]].ans # NotAsked
  BY DEF Out, Flying, Touched, NotAsked
<1>2. 1 \in Calls /\ \A i \in Calls : i \in Nat
  BY DEF Calls
<1>3. ASSUME NEW c \in Out(xs) PROVE f[c] \in Room(xs)
  <2>1. CASE xs[c[1]].mode \in AtOnce
    <3>1. c[2] <= WidthOf(xs[c[1]])
      BY <1>1, <2>1 DEF Narrow, WidthOf
    <3> QED  BY <1>1, <2>1, <3>1 DEF Room
  <2>2. CASE xs[c[1]].mode \notin AtOnce
    <3>1. f[c] = <<c[1], 1>> /\ 1 <= WidthOf(xs[c[1]])
      BY <2>2 DEF WidthOf
    <3> QED  BY <1>1, <1>2, <3>1 DEF Room
  <2> QED  BY <2>1, <2>2
<1>4. ASSUME NEW c \in Out(xs), NEW d \in Out(xs), f[c] = f[d] PROVE c = d
  <2>1. c[1] = d[1]
    BY <1>1, <1>4
  <2>2. CASE xs[c[1]].mode \in AtOnce
    BY <1>4, <2>1, <2>2
  <2>3. CASE xs[c[1]].mode \notin AtOnce
    <3>1. c[2] = d[2]
      BY <1>1, <2>1, <2>3 DEF Narrow
    <3> QED  BY <1>1, <2>1, <3>1
  <2> QED  BY <2>2, <2>3
<1>5. f \in Injection(Out(xs), Room(xs))
  BY <1>3, <1>4 DEF Injection, IsInjective
<1> HIDE DEF f
<1>6. IsFiniteSet(Out(xs)) /\ Cardinality(Out(xs)) <= Cardinality(Room(xs))
  BY <1>5, FS_Injection
<1> QED  BY <1>6, FS_CardinalityType

\* y is x after it has asked further, one at a time unless it is a team.
AsksOn(x, y, u) ==
  /\ y.mode = x.mode /\ y.plan = x.plan
  /\ \E some : y.ans = Ask(x.ans, some, u) /\ (x.mode \notin AtOnce => \A i, j \in some : i = j)

LEMMA AsksNobody ==
  ASSUME NEW x \in Begun, NEW y, y.mode = x.mode, y.plan = x.plan, y.ans = x.ans, NEW u
  PROVE  AsksOn(x, y, u)
<1>1. x.ans = Ask(x.ans, {}, u)
  BY DEF Ask, Begun, Execution
<1> QED  BY <1>1 DEF AsksOn

LEMMA AsksSome ==
  ASSUME NEW x \in Begun, NEW some, \A i, j \in some : i = j, NEW u
  PROVE  AsksOn(x, [x EXCEPT !.ans = Ask(x.ans, some, u)], u)
<1> DEFINE f == Ask(x.ans, some, u)
<1>1. f \in [Calls -> Outcomes]
  BY AskTyped DEF Begun, Execution
<1> HIDE DEF f
<1>2. /\ [x EXCEPT !.ans = f].mode = x.mode /\ [x EXCEPT !.ans = f].plan = x.plan
      /\ [x EXCEPT !.ans = f].ans = f
  BY <1>1, AnsTyped
<1> QED  BY <1>2 DEF AsksOn, f

LEMMA EndsAsk ==
  ASSUME NEW x \in Begun, NEW s \in {"threw", "COMPLETED", "PARTIAL", "BUDGET_EXCEEDED"}, NEW u
  PROVE  AsksOn(x, [x EXCEPT !.status = s], u)
<1> DEFINE y == [x EXCEPT !.status = s]
<1>1. y.mode = x.mode /\ y.plan = x.plan /\ y.ans = x.ans
  BY StatusTyped
<1> HIDE DEF y
<1>2. AsksOn(x, y, u)
  BY <1>1, AsksNobody
<1> QED  BY <1>2 DEF y

LEMMA AheadAsks ==
  ASSUME NEW x \in Begun, NEW from \in Nat, NEW u
  PROVE  AsksOn(x, Ahead(x, from, u), u)
<1> DEFINE ahead == {i \in from..Len(x.plan.order) : x.plan.order[i] \in ToSet(x.plan.members)}
<1>1. Len(x.plan.order) \in Nat
  BY PlansTyped DEF Begun, Execution
<1>2. \A i \in ahead : i \in Int
  BY <1>1
<1>3. \A i, j \in First(ahead) : i = j
  <2> HIDE DEF ahead
  <2> QED  BY <1>2 DEF First
<1>4. \/ \E s \in {"COMPLETED", "PARTIAL", "BUDGET_EXCEEDED"} :
           Ahead(x, from, u) = [x EXCEPT !.status = s]
      \/ Ahead(x, from, u) = [x EXCEPT !.ans = Ask(x.ans, First(ahead), u)]
  BY DEF Ahead
<1> HIDE DEF ahead
<1>5. \A s \in {"COMPLETED", "PARTIAL", "BUDGET_EXCEEDED"} : AsksOn(x, [x EXCEPT !.status = s], u)
  BY EndsAsk
<1>6. AsksOn(x, [x EXCEPT !.ans = Ask(x.ans, First(ahead), u)], u)
  BY <1>3, AsksSome
<1> QED  BY <1>4, <1>5, <1>6

LEMMA GatheredAsks ==
  ASSUME NEW x \in Begun, NEW u
  PROVE  AsksOn(x, Gathered(x), u)
<1>1. Gathered(x) = x \/ \E s \in {"COMPLETED", "PARTIAL"} : Gathered(x) = [x EXCEPT !.status = s]
  BY DEF Gathered
<1> QED  BY <1>1, EndsAsk, AsksNobody

LEMMA StagedAsks ==
  ASSUME NEW x \in Begun, NEW i \in {1, 2, 3}, NEW u
  PROVE  AsksOn(x, Staged(x, i, u), u)
<1>1. \/ \E s \in {"threw", "COMPLETED"} : Staged(x, i, u) = [x EXCEPT !.status = s]
      \/ \E k \in {2, 3} : Staged(x, i, u) = [x EXCEPT !.ans = Ask(x.ans, {k}, u)]
  <2>1. CASE i = 1
    BY <2>1 DEF Staged
  <2>2. CASE i = 2
    BY <2>2 DEF Staged
  <2>3. CASE i = 3
    BY <2>3 DEF Staged
  <2> QED  BY <2>1, <2>2, <2>3
<1>2. \A s \in {"threw", "COMPLETED"} : AsksOn(x, [x EXCEPT !.status = s], u)
  BY EndsAsk
<1>3. \A k \in {2, 3} : AsksOn(x, [x EXCEPT !.ans = Ask(x.ans, {k}, u)], u)
  BY AsksSome
<1> QED  BY <1>1, <1>2, <1>3

\* What a step does to the answers of its execution: b is where it takes them up, and
\* some are the calls it makes.
Went(e, b, some) ==
  /\ b \in [Calls -> Outcomes] /\ exec'[e].ans = Ask(b, some, used')
  /\ \A d \in Executions \ {e} : exec'[d] = exec[d]
  /\ exec'[e].mode \notin AtOnce => \A i, j \in some : i = j

BeginsAt(e, b) == b = NotAsked /\ exec[e].ans = NotAsked /\ used' = used
AnswersAt(e, b, i) ==
  /\ i \in Flying(exec[e].ans) /\ i \notin Flying(b) /\ b[i] # "none"
  /\ \A j \in Calls \ {i} : b[j] = exec[e].ans[j]
  /\ used' = used \/ (used' = used + 1 /\ exec[e].ans[i] = "asked")
  /\ exec'[e].mode = exec[e].mode /\ exec'[e].plan = exec[e].plan

LEMMA ExecutePlanWent ==
  ASSUME MInv, NEW e \in Executions, NEW mode \in Modes, NEW plan \in Plans,
         ExecutePlan(e, mode, plan)
  PROVE  \E some : Went(e, NotAsked, some) /\ BeginsAt(e, NotAsked)
<1> DEFINE x == Started(mode, plan)
<1>1. /\ x \in Begun /\ x.mode = mode /\ x.plan = plan /\ x.ans = NotAsked
      /\ NotAsked \in [Calls -> Outcomes] /\ exec \in [Executions -> Execution]
  BY StartedFits DEF Started, NotAsked, Outcomes, MInv, TypeOK
<1>2. exec[e].ans = NotAsked /\ used' = used
  <2>1. Touched(exec[e].ans) = {} /\ exec[e].ans \in [Calls -> Outcomes]
    BY <1>1 DEF ExecutePlan, MInv, Execution
  <2> QED  BY <2>1 DEF Touched, NotAsked, ExecutePlan
<1>3. ASSUME NEW y, exec' = [exec EXCEPT ![e] = y], AsksOn(x, y, used)
      PROVE  \E some : Went(e, NotAsked, some)
  BY <1>1, <1>2, <1>3 DEF AsksOn, Went
<1>4. CASE Refused(plan)
  <2>1. exec' = [exec EXCEPT ![e] = [x EXCEPT !.status = "threw"]]
    BY <1>4 DEF ExecutePlan
  <2> HIDE DEF x
  <2> QED  BY <1>1, <1>2, <1>3, <2>1, EndsAsk DEF BeginsAt
<1>5. CASE ~Refused(plan) /\ mode = "SEQUENTIAL"
  <2>1. exec' = [exec EXCEPT ![e] = Ahead(x, 1, used)]
    <3> HIDE DEF x
    <3>1. mode \notin AtOnce /\ mode # "DEBATE_REVIEW"
      BY <1>5 DEF AtOnce
    <3> QED  BY <1>5, <3>1 DEF ExecutePlan, x
  <2> HIDE DEF x
  <2> QED  BY <1>1, <1>2, <1>3, <2>1, AheadAsks DEF BeginsAt
<1>6. CASE ~Refused(plan) /\ mode \in AtOnce
  <2> DEFINE f == Ask(x.ans, 1..Len(plan.members), used)
             y == [x EXCEPT !.ans = f]
  <2>1. exec' = [exec EXCEPT ![e] = Gathered(y)]
    BY <1>6 DEF ExecutePlan, AtOnce
  <2>2. y \in Begun /\ y.mode = mode /\ y.plan = plan /\ y.ans = f
    <3>1. f \in [Calls -> Outcomes]
      <4> HIDE DEF x
      <4> QED  BY <1>1, AskTyped
    <3> HIDE DEF x, f
    <3> QED  BY <1>1, <3>1, AnsTyped
  <2>3. Gathered(y).ans = f /\ Gathered(y).mode = mode
    <3> HIDE DEF x, y, f
    <3>1. Gathered(y) = y \/ \E s \in {"COMPLETED", "PARTIAL"} : Gathered(y) = [y EXCEPT !.status = s]
      BY DEF Gathered
    <3>2. \A s \in {"COMPLETED", "PARTIAL"} :
            [y EXCEPT !.status = s].ans = y.ans /\ [y EXCEPT !.status = s].mode = y.mode
      BY <2>2, StatusTyped
    <3> QED  BY <2>2, <3>1, <3>2
  <2>4. exec'[e].ans = f /\ exec'[e].mode \in AtOnce /\ \A d \in Executions \ {e} : exec'[d] = exec[d]
    <3> HIDE DEF x, y, f
    <3> QED  BY <1>1, <1>6, <2>1, <2>3
  <2> QED  BY <1>1, <1>2, <2>4 DEF Went, BeginsAt
<1>7. CASE ~Refused(plan) /\ mode = "DEBATE_REVIEW"
  <2>1. exec' = [exec EXCEPT ![e] = [x EXCEPT !.ans = Ask(x.ans, {1}, used)]]
    BY <1>7 DEF ExecutePlan, AtOnce
  <2> HIDE DEF x
  <2> QED  BY <1>1, <1>2, <1>3, <2>1, AsksSome DEF BeginsAt
<1> QED  BY <1>4, <1>5, <1>6, <1>7 DEF Modes, AtOnce

LEMMA AnsweredWent ==
  ASSUME MInv, NEW e \in Executions, NEW i \in Calls, Answered(e, i)
  PROVE  \E b, some : Went(e, b, some) /\ AnswersAt(e, b, i)
<1> DEFINE old == exec[e]
<1>1. PICK outcome \in {"BUDGET_EXCEEDED", "SUCCESS", "INVALID", "FAILED"} :
        LET x == [exec[e] EXCEPT !.ans[i] = outcome]
            u == IF outcome \in {"SUCCESS", "INVALID"} THEN used + 1 ELSE used
        IN /\ (outcome \in {"SUCCESS", "INVALID"} => exec[e].ans[i] # "barred")
           /\ used' = u
           /\ exec' = [exec EXCEPT ![e] =
                CASE ~Running(e) -> x
                  [] Running(e) /\ outcome = "INVALID" -> [x EXCEPT !.status = "threw"]
                  [] Running(e) /\ outcome # "INVALID" ->
                       CASE x.mode = "SEQUENTIAL" -> Ahead(x, i + 1, u)
                         [] x.mode \in AtOnce -> Gathered(x)
                         [] x.mode = "DEBATE_REVIEW" -> Staged(x, i, u)]
  BY DEF Answered
<1>2. /\ old \in Begun /\ Fits(old) /\ old.ans[i] \in {"asked", "barred"}
      /\ old.ans \in [Calls -> Outcomes] /\ exec \in [Executions -> Execution]
  BY DEF Answered, InFlight, MInv, TypeOK, Touched, Begun, Execution
<1>3. outcome \in Outcomes \ {"none", "asked", "barred"}
  BY <1>1 DEF Outcomes
<1> DEFINE x == [exec[e] EXCEPT !.ans[i] = outcome]
           b == [old.ans EXCEPT ![i] = outcome]
           u == IF outcome \in {"SUCCESS", "INVALID"} THEN used + 1 ELSE used
<1>4. Goes(old, x) /\ x.status = old.status
  <2> HIDE DEF old
  <2>1. Goes(old, [old EXCEPT !.ans[i] = outcome]) /\ [old EXCEPT !.ans[i] = outcome].status = old.status
    BY <1>2, <1>3, AnswerFits
  <2> QED  BY <2>1 DEF old
<1>5. x \in Begun /\ x.mode = old.mode /\ x.plan = old.plan
  BY <1>4 DEF Goes
<1>6. x.ans = b
  BY <1>2 DEF Begun, Execution
<1>7. b \in [Calls -> Outcomes] /\ b[i] = outcome /\ \A j \in Calls \ {i} : b[j] = old.ans[j]
  BY <1>2, <1>3
<1>8. used' = u /\ (u = used \/ (u = used + 1 /\ old.ans[i] = "asked"))
  BY <1>1, <1>2
<1>9. SUFFICES \E y : exec' = [exec EXCEPT ![e] = y] /\ AsksOn(x, y, u)
  <2>1. PICK y : exec' = [exec EXCEPT ![e] = y] /\ AsksOn(x, y, u)
    BY <1>9
  <2>2. exec'[e] = y /\ \A d \in Executions \ {e} : exec'[d] = exec[d]
    BY <1>2, <2>1
  <2> HIDE DEF x, b, u
  <2>3. PICK some : y.ans = Ask(b, some, u) /\ (x.mode \notin AtOnce => \A k, j \in some : k = j)
    BY <1>6, <2>1 DEF AsksOn
  <2>4. y.mode = exec[e].mode /\ y.plan = exec[e].plan
    BY <1>5, <2>1 DEF AsksOn
  <2>5. Went(e, b, some)
    BY <1>5, <1>7, <1>8, <2>2, <2>3, <2>4 DEF Went
  <2>6. AnswersAt(e, b, i)
    BY <1>2, <1>3, <1>7, <1>8, <2>2, <2>4 DEF AnswersAt, Flying
  <2> QED  BY <2>5, <2>6
<1>10. i + 1 \in Nat
  BY DEF Calls
<1>11. CASE ~Running(e)
  <2>1. exec' = [exec EXCEPT ![e] = x]
    BY <1>1, <1>11
  <2> HIDE DEF x, u
  <2> QED  BY <1>5, <2>1, AsksNobody
<1>12. CASE Running(e) /\ outcome = "INVALID"
  <2>1. exec' = [exec EXCEPT ![e] = [x EXCEPT !.status = "threw"]]
    BY <1>1, <1>12
  <2> HIDE DEF x, u
  <2> QED  BY <1>5, <2>1, EndsAsk
<1>13. CASE Running(e) /\ outcome # "INVALID"
  <2>1. x.mode \in Modes
    BY <1>5 DEF Begun
  <2>2. exec' = [exec EXCEPT ![e] =
                   CASE x.mode = "SEQUENTIAL" -> Ahead(x, i + 1, u)
                     [] x.mode \in AtOnce -> Gathered(x)
                     [] x.mode = "DEBATE_REVIEW" -> Staged(x, i, u)]
    BY <1>1, <1>13
  <2>3. x.mode = "DEBATE_REVIEW" => i \in {1, 2, 3}
    <3>1. i \in Touched(old.ans)
      BY <1>2 DEF Touched
    <3> HIDE DEF old, x
    <3> QED  BY <1>2, <1>5, <3>1 DEF Fits
  <2> HIDE DEF x, u
  <2>4. CASE x.mode = "SEQUENTIAL"
    <3>1. x.mode \notin AtOnce /\ x.mode # "DEBATE_REVIEW"
      BY <2>4 DEF AtOnce
    <3>2. exec' = [exec EXCEPT ![e] = Ahead(x, i + 1, u)]
      BY <2>2, <2>4, <3>1
    <3> QED  BY <1>5, <1>10, <3>2, AheadAsks
  <2>5. CASE x.mode \in AtOnce
    <3>1. x.mode # "SEQUENTIAL" /\ x.mode # "DEBATE_REVIEW"
      BY <2>5 DEF AtOnce
    <3>2. exec' = [exec EXCEPT ![e] = Gathered(x)]
      BY <2>2, <2>5, <3>1
    <3> QED  BY <1>5, <3>2, GatheredAsks
  <2>6. CASE x.mode = "DEBATE_REVIEW"
    <3>1. x.mode \notin AtOnce /\ x.mode # "SEQUENTIAL"
      BY <2>6 DEF AtOnce
    <3>2. exec' = [exec EXCEPT ![e] = Staged(x, i, u)]
      BY <2>2, <2>6, <3>1
    <3> QED  BY <1>5, <2>3, <2>6, <3>2, StagedAsks
  <2> QED  BY <2>1, <2>4, <2>5, <2>6 DEF Modes, AtOnce
<1> QED  BY <1>11, <1>12, <1>13


-----------------------------------------------------------------------------
\* Before anybody was asked nothing was counted; OvershootByTeams is about the rest.
OInv ==
  /\ MInv
  /\ \A e \in Executions : Narrow(exec[e])
  /\ IsFiniteSet(Room(exec))
  /\ Room(exec) = {} => used = 0
  /\ OvershootByTeams

LEMMA OvershootIs ==
  OvershootByTeams
    <=> (Room(exec) # {} =>
           used + Cardinality(Out(exec)) + 1 <= MaxCalls + Cardinality(Room(exec)))
BY DEF OvershootByTeams, Room, Out, Width, WidthOf

\* The state as the lemmas below need it.
Moved(e, b, some) ==
  /\ OInv /\ MInv' /\ exec'[e] \in Begun /\ Fits(exec'[e]) /\ Went(e, b, some)
  /\ BeginsAt(e, b) \/ \E i \in Calls : AnswersAt(e, b, i)

LEMMA MovedTyped ==
  ASSUME NEW e \in Executions, NEW b, NEW some, Moved(e, b, some)
  PROVE  /\ exec \in [Executions -> Execution] /\ exec' \in [Executions -> Execution]
         /\ used \in Nat /\ used' \in Nat
         /\ \A d \in Executions \ {e} : exec'[d] = exec[d]
         /\ \A i \in Calls \ some : exec'[e].ans[i] = b[i]
         /\ \A i \in Calls \cap some : exec'[e].ans[i] \in {"asked", "barred"}
         /\ used' >= MaxCalls => \A i \in Calls \cap some : exec'[e].ans[i] = "barred"
<1>1. /\ exec \in [Executions -> Execution] /\ exec' \in [Executions -> Execution]
      /\ used \in Nat /\ used' \in Nat
  BY DEF Moved, OInv, MInv, TypeOK
<1>2. /\ exec'[e].ans = Ask(b, some, used')
      /\ \A d \in Executions \ {e} : exec'[d] = exec[d]
  BY DEF Moved, Went
<1> QED  BY <1>1, <1>2 DEF Ask

LEMMA NarrowKept ==
  ASSUME NEW e \in Executions, NEW b, NEW some, Moved(e, b, some)
  PROVE  \A d \in Executions : Narrow(exec'[d])
<1>1. \A d \in Executions \ {e} : Narrow(exec'[d])
  BY MovedTyped DEF Moved, OInv
<1>2. exec'[e].mode \in AtOnce =>
        /\ Len(exec'[e].plan.members) \in Nat /\ Len(exec'[e].plan.members) <= Places
        /\ Touched(exec'[e].ans) \subseteq 1..Len(exec'[e].plan.members)
  BY PlansTyped DEF Moved, Begun, Fits
<1>3. ASSUME exec'[e].mode \notin AtOnce PROVE Flying(b) = {}
  <2>1. CASE BeginsAt(e, b)
    BY <2>1 DEF BeginsAt, NotAsked, Flying
  <2>2. ASSUME NEW i \in Calls, AnswersAt(e, b, i) PROVE Flying(b) = {}
    <3>1. exec[e].mode \notin AtOnce /\ i \in Flying(exec[e].ans) /\ i \notin Flying(b)
      BY <1>3, <2>2 DEF AnswersAt
    <3>2. \A j \in Flying(exec[e].ans) : j = i
      BY <3>1 DEF Moved, OInv, Narrow
    <3>3. \A j \in Flying(b) : j \in Flying(exec[e].ans)
      BY <2>2, <3>1 DEF AnswersAt, Flying
    <3> QED  BY <3>1, <3>2, <3>3
  <2> QED  BY <2>1, <2>2 DEF Moved
<1>4. exec'[e].mode \notin AtOnce => \A i, j \in Flying(exec'[e].ans) : i = j
  <2> SUFFICES ASSUME exec'[e].mode \notin AtOnce, NEW i \in Flying(exec'[e].ans),
                      NEW j \in Flying(exec'[e].ans)
               PROVE  i = j
    OBVIOUS
  <2>1. i \in some /\ j \in some
    BY <1>3, MovedTyped DEF Flying
  <2> QED  BY <2>1 DEF Moved, Went
<1>5. Narrow(exec'[e])
  BY <1>2, <1>4 DEF Narrow
<1> QED  BY <1>1, <1>5

\* The room stays finite, and is not given back.
LEMMA RoomGrows ==
  ASSUME NEW e \in Executions, NEW b, NEW some, Moved(e, b, some)
  PROVE  /\ IsFiniteSet(Room(exec')) /\ Room(exec) \subseteq Room(exec')
         /\ Cardinality(Room(exec)) <= Cardinality(Room(exec'))
<1>1. IsFiniteSet({e} \X Calls)
  <2>1. IsFiniteSet(Calls)
    BY FS_Interval DEF Calls
  <2> QED  BY <2>1, FS_Singleton, FS_Product
<1>2. IsFiniteSet(Room(exec) \cup ({e} \X Calls))
  BY <1>1, FS_Union DEF Moved, OInv
<1>3. Room(exec') \subseteq Room(exec) \cup ({e} \X Calls)
  BY MovedTyped DEF Room
<1>4. Room(exec) \subseteq Room(exec')
  <2>1. CASE BeginsAt(e, b)
    BY <2>1, MovedTyped DEF Room, BeginsAt
  <2>2. ASSUME NEW i \in Calls, AnswersAt(e, b, i) PROVE Room(exec) \subseteq Room(exec')
    <3>1. exec'[e].ans[i] # "none"
      BY <2>2, MovedTyped DEF AnswersAt
    <3>2. exec'[e].ans # NotAsked
      BY <3>1 DEF NotAsked
    <3>3. WidthOf(exec'[e]) = WidthOf(exec[e])
      BY <2>2 DEF AnswersAt, WidthOf
    <3> QED  BY <3>2, <3>3, MovedTyped DEF Room
  <2> QED  BY <2>1, <2>2 DEF Moved
<1>5. IsFiniteSet(Room(exec'))
  BY <1>2, <1>3, FS_Subset
<1> QED  BY <1>4, <1>5, FS_Subset

\* Whoever gets an answer has room.
LEMMA AnsweredHasRoom ==
  ASSUME NEW e \in Executions, NEW b, NEW some, Moved(e, b, some), NEW i \in Calls,
         AnswersAt(e, b, i)
  PROVE  Room(exec) # {} /\ Room(exec') # {}
<1>1. i \in Touched(exec[e].ans) /\ exec[e].ans # NotAsked
  BY DEF AnswersAt, Flying, Touched, NotAsked
<1>2. 1 <= WidthOf(exec[e])
  BY <1>1 DEF Moved, OInv, Narrow, WidthOf
<1>3. <<e, 1>> \in Room(exec)
  BY <1>1, <1>2 DEF Room, Calls
<1> QED  BY <1>3, RoomGrows

\* Nothing is asked beyond the budget.
LEMMA OutShrinks ==
  ASSUME NEW e \in Executions, NEW b, NEW some, Moved(e, b, some), used' >= MaxCalls
  PROVE  /\ IsFiniteSet(Out(exec')) /\ Cardinality(Out(exec)) \in Nat
         /\ Cardinality(Out(exec')) \in Nat
         /\ (used' - used) + Cardinality(Out(exec')) <= Cardinality(Out(exec))
         /\ used' = used \/ used' = used + 1
<1>1. /\ IsFiniteSet(Out(exec)) /\ Cardinality(Out(exec)) \in Nat
      /\ Cardinality(Out(exec)) <= Cardinality(Room(exec))
  BY OutFitsRoom, MovedTyped DEF Moved, OInv
<1>2. \A i \in Calls : exec'[e].ans[i] = "asked" => b[i] = "asked"
  BY MovedTyped
<1>3. CASE BeginsAt(e, b)
  <2>1. Out(exec') \subseteq Out(exec) /\ used' = used
    BY <1>2, <1>3, MovedTyped DEF Out, BeginsAt, NotAsked
  <2> QED  BY <1>1, <2>1, FS_Subset, FS_CardinalityType, MovedTyped
<1>4. ASSUME NEW i \in Calls, AnswersAt(e, b, i)
      PROVE  /\ IsFiniteSet(Out(exec')) /\ Cardinality(Out(exec')) \in Nat
             /\ (used' - used) + Cardinality(Out(exec')) <= Cardinality(Out(exec))
             /\ used' = used \/ used' = used + 1
  <2>1. b[i] # "asked" /\ \A j \in Calls \ {i} : b[j] = exec[e].ans[j]
    BY <1>4 DEF AnswersAt, Flying
  <2>2. Out(exec') \subseteq Out(exec) /\ <<e, i>> \notin Out(exec')
    BY <1>2, <2>1, MovedTyped DEF Out
  <2>3. CASE used' = used
    BY <1>1, <2>2, <2>3, FS_Subset, FS_CardinalityType, MovedTyped
  <2>4. CASE used' = used + 1 /\ exec[e].ans[i] = "asked"
    <3>1. <<e, i>> \in Out(exec)
      BY <2>4 DEF Out
    <3>2. /\ IsFiniteSet(Out(exec) \ {<<e, i>>})
          /\ Cardinality(Out(exec) \ {<<e, i>>}) = Cardinality(Out(exec)) - 1
      BY <1>1, <3>1, FS_RemoveElement
    <3>3. Out(exec') \subseteq Out(exec) \ {<<e, i>>}
      BY <2>2
    <3>4. /\ IsFiniteSet(Out(exec'))
          /\ Cardinality(Out(exec')) <= Cardinality(Out(exec) \ {<<e, i>>})
      BY <3>2, <3>3, FS_Subset
    <3>5. Cardinality(Out(exec')) \in Nat
      BY <3>4, FS_CardinalityType
    <3> QED  BY <1>1, <2>4, <3>2, <3>4, <3>5, MovedTyped
  <2> QED  BY <1>4, <2>3, <2>4 DEF AnswersAt
<1> QED  BY <1>1, <1>3, <1>4 DEF Moved

\* The numbers of the lemma below.
LEMMA RoomMade ==
  ASSUME NEW m \in Nat, NEW u \in Nat, NEW v \in Nat, NEW o \in Nat, NEW p \in Nat,
         NEW r \in Nat, NEW t \in Nat, NEW empty \in BOOLEAN, o <= r, p <= t, r <= t, t >= 1,
         IF empty THEN r = 0 /\ u = 0 ELSE u + o + 1 <= m + r,
         v >= m => (v - u) + p <= o
  PROVE  v + p + 1 <= m + t
<1>1. CASE empty
  BY <1>1
<1>2. CASE ~empty
  BY <1>2
<1> QED  BY <1>1, <1>2

\* Either there is budget for one more than those that are counted, and the calls that are
\* out find room; or nothing is asked any more, and what is counted was out.
LEMMA MovedKeeps ==
  ASSUME NEW e \in Executions, NEW b, NEW some, Moved(e, b, some)
  PROVE  OInv'
<1> DEFINE o == Cardinality(Out(exec))
           p == Cardinality(Out(exec'))
           r == Cardinality(Room(exec))
           s == Cardinality(Room(exec'))
<1>1. used \in Nat /\ used' \in Nat /\ MaxCalls \in Nat
  BY MovedTyped
<1>2. IsFiniteSet(Room(exec')) /\ Room(exec) \subseteq Room(exec') /\ r <= s
  BY RoomGrows
<1>3. o \in Nat /\ r \in Nat /\ o <= r
  BY OutFitsRoom, MovedTyped DEF Moved, OInv
<1>4. p \in Nat /\ s \in Nat /\ p <= s
  BY <1>2, NarrowKept, OutFitsRoom, MovedTyped
<1>5. Room(exec') # {} => s >= 1
  BY <1>2, <1>4, FS_EmptySet
<1>6. /\ Room(exec) = {} => r = 0 /\ used = 0
      /\ Room(exec) # {} => used + o + 1 <= MaxCalls + r
  BY OvershootIs, FS_EmptySet DEF Moved, OInv
<1>7. Room(exec') = {} => used' = 0
  <2>1. CASE BeginsAt(e, b)
    BY <1>2, <1>6, <2>1 DEF BeginsAt
  <2>2. CASE \E i \in Calls : AnswersAt(e, b, i)
    BY <2>2, AnsweredHasRoom
  <2> QED  BY <2>1, <2>2 DEF Moved
<1>8. used' >= MaxCalls =>
        (used' - used) + p <= o /\ (used' = used \/ used' = used + 1)
  BY OutShrinks
<1>9. Room(exec') # {} => used' + p + 1 <= MaxCalls + s
  <2> DEFINE empty == Room(exec) = {}
  <2>1. empty \in BOOLEAN /\ IF empty THEN r = 0 /\ used = 0 ELSE used + o + 1 <= MaxCalls + r
    BY <1>6
  <2> HIDE DEF o, p, r, s, empty
  <2> QED  BY <1>1, <1>2, <1>3, <1>4, <1>5, <1>8, <2>1, RoomMade
<1>10. OvershootByTeams'
  <2>1. OvershootByTeams'
          <=> (Room(exec') # {} =>
                 used' + Cardinality(Out(exec')) + 1 <= MaxCalls + Cardinality(Room(exec')))
    BY DEF OvershootByTeams, Room, Out, Width, WidthOf
  <2> QED  BY <1>9, <2>1
<1>11. MInv'
  BY DEF Moved
<1> QED  BY <1>2, <1>7, <1>10, <1>11, NarrowKept DEF OInv

\* Nobody is asked before there is a plan.
LEMMA OInvInitially == Init => OInv
<1> SUFFICES ASSUME Init PROVE OInv
  OBVIOUS
<1>1. MInv
  BY MInvInitially
<1>2. used = 0 /\ \A e \in Executions : exec[e].ans = NotAsked /\ exec[e].mode \notin AtOnce
  BY DEF Init, AtOnce
<1>3. Room(exec) = {}
  BY <1>2 DEF Room
<1>4. \A e \in Executions : Narrow(exec[e])
  BY <1>2 DEF Narrow, Flying, NotAsked
<1>5. OvershootByTeams
  BY <1>3, OvershootIs
<1> QED  BY <1>1, <1>2, <1>3, <1>4, <1>5, FS_EmptySet DEF OInv

LEMMA OInvKept == OInv /\ [Next]_vars => OInv'
<1> SUFFICES ASSUME OInv, [Next]_vars PROVE OInv'
  OBVIOUS
<1>1. MInv /\ MInv'
  BY MInvKept DEF OInv
<1>2. exec \in [Executions -> Execution]
  BY <1>1 DEF MInv, TypeOK
<1>3. CASE UNCHANGED vars
  BY <1>1, <1>3 DEF vars, OInv, OvershootByTeams, Width, Room, WidthOf
<1>4. ASSUME NEW e \in Executions, NEW mode \in Modes, NEW plan \in Plans, ExecutePlan(e, mode, plan)
      PROVE  OInv'
  <2>1. PICK y \in Begun : Fits(y) /\ exec' = [exec EXCEPT ![e] = y]
    BY <1>1, <1>4, ExecutePlanFits
  <2>2. exec'[e] \in Begun /\ Fits(exec'[e])
    BY <1>2, <2>1
  <2>3. PICK some : Went(e, NotAsked, some) /\ BeginsAt(e, NotAsked)
    BY <1>1, <1>4, ExecutePlanWent
  <2>4. Moved(e, NotAsked, some)
    BY <1>1, <2>2, <2>3 DEF Moved
  <2> QED  BY <2>4, MovedKeeps
<1>5. ASSUME NEW e \in Executions, NEW i \in Calls, Answered(e, i)
      PROVE  OInv'
  <2>1. PICK y \in Begun : Fits(y) /\ exec' = [exec EXCEPT ![e] = y]
    BY <1>1, <1>5, AnsweredFits
  <2>2. exec'[e] \in Begun /\ Fits(exec'[e])
    BY <1>2, <2>1
  <2>3. PICK b, some : Went(e, b, some) /\ AnswersAt(e, b, i)
    BY <1>1, <1>5, AnsweredWent
  <2>4. Moved(e, b, some)
    BY <1>1, <2>2, <2>3 DEF Moved
  <2> QED  BY <2>4, MovedKeeps
<1> QED  BY <1>3, <1>4, <1>5 DEF Next

\* The budget is exceeded by no more than the calls that were out together when its last
\* one was left.
THEOREM OvershootAlwaysByTeams == Spec => []OvershootByTeams
<1>1. OInv => OvershootByTeams
  BY DEF OInv
<1> QED  BY <1>1, OInvInitially, OInvKept, PTL DEF Spec

-----------------------------------------------------------------------------
(* What a running execution waits for *)

Waits(x) == x.status = "running" => Flying(x.ans) # {}
WInv == MInv /\ \A e \in Executions : Waits(exec[e])

\* A set of numbers has a least one: the intervals that end in its members are finite
\* sets, of which one includes no other.
LEMMA SomeFirst ==
  ASSUME NEW S, S \subseteq Nat, S # {}
  PROVE  First(S) # {}
<1> DEFINE T == {0..n : n \in S}
<1>1. T \subseteq FiniteSubsetsOf(Nat) /\ T # {}
  <2>1. \A n \in Nat : IsFiniteSet(0..n)
    BY FS_Interval
  <2>2. \A n \in Nat : 0..n \in SUBSET Nat
    OBVIOUS
  <2>3. \A n \in S : 0..n \in FiniteSubsetsOf(Nat)
    BY <2>1, <2>2, Zenon DEF FiniteSubsetsOf
  <2> QED  BY <2>3
<1>2. \E x \in T : \A y \in T : <<y, x>> \notin StrictSubsetOrdering(Nat)
  <2> HIDE DEF T
  <2> QED  BY <1>1, FS_StrictSubsetOrderingWellFounded, WFMin
<1>3. PICK n \in S : \A m \in S : <<0..m, 0..n>> \notin StrictSubsetOrdering(Nat)
  BY <1>2
<1>4. ASSUME NEW m \in S, ~(n <= m) PROVE FALSE
  <2>1. n \in Nat /\ m \in Nat /\ m < n
    BY <1>4
  <2>2. 0..m \subseteq 0..n /\ 0..m \in SUBSET Nat /\ 0..n \in SUBSET Nat
    BY <2>1
  <2>3. n \in 0..n /\ n \notin 0..m
    BY <2>1
  <2>4. <<0..m, 0..n>> \in StrictSubsetOrdering(Nat)
    BY <2>2, <2>3 DEF StrictSubsetOrdering
  <2> QED  BY <1>3, <2>4
<1>5. n \in First(S)
  BY <1>4 DEF First
<1> QED  BY <1>5

\* Who ends waits for nobody, and who asks somebody waits for that.
LEMMA EndsWait ==
  ASSUME NEW x \in Begun, NEW s \in {"threw", "COMPLETED", "PARTIAL", "BUDGET_EXCEEDED"}
  PROVE  Waits([x EXCEPT !.status = s])
<1>1. [x EXCEPT !.status = s].status = s
  BY StatusTyped
<1> QED  BY <1>1 DEF Waits

LEMMA AskersWait ==
  ASSUME NEW x \in Begun, NEW some, some \cap Calls # {}, NEW u
  PROVE  Waits([x EXCEPT !.ans = Ask(x.ans, some, u)])
<1> DEFINE f == Ask(x.ans, some, u)
<1>1. f \in [Calls -> Outcomes] /\ \A i \in Calls \cap some : f[i] \in {"asked", "barred"}
  BY AskTyped DEF Begun, Execution
<1> HIDE DEF f
<1>2. [x EXCEPT !.ans = f].ans = f
  BY <1>1, AnsTyped
<1>3. PICK i \in Calls : i \in some
  OBVIOUS
<1>4. i \in Flying(f)
  BY <1>1, <1>3 DEF Flying
<1> QED  BY <1>2, <1>4 DEF Waits, f

\* So do the three ways to go on.
LEMMA AheadWaits ==
  ASSUME NEW x \in Begun, NEW from \in Nat, from >= 1, NEW u
  PROVE  Waits(Ahead(x, from, u))
<1> DEFINE ahead == {i \in from..Len(x.plan.order) : x.plan.order[i] \in ToSet(x.plan.members)}
<1>1. x.plan \in Plans
  BY DEF Begun
<1>2. Len(x.plan.order) \in Nat /\ 1..Len(x.plan.order) \subseteq Calls
  BY <1>1, PlansTyped
<1>3. ahead \subseteq Nat /\ ahead \subseteq Calls
  BY <1>2
<1>4. \/ \E s \in {"COMPLETED", "PARTIAL", "BUDGET_EXCEEDED"} :
           Ahead(x, from, u) = [x EXCEPT !.status = s]
      \/ /\ ahead # {}
         /\ Ahead(x, from, u) = [x EXCEPT !.ans = Ask(x.ans, First(ahead), u)]
  BY DEF Ahead
<1> HIDE DEF ahead
<1>5. ahead # {} => Waits([x EXCEPT !.ans = Ask(x.ans, First(ahead), u)])
  <2> SUFFICES ASSUME ahead # {}
               PROVE  Waits([x EXCEPT !.ans = Ask(x.ans, First(ahead), u)])
    OBVIOUS
  <2>1. First(ahead) # {} /\ First(ahead) \subseteq ahead
    BY <1>3, SomeFirst DEF First
  <2>2. First(ahead) \cap Calls # {}
    BY <1>3, <2>1
  <2> QED  BY <2>2, AskersWait
<1> QED  BY <1>4, <1>5, EndsWait

LEMMA GatheredWaits ==
  ASSUME NEW x \in Begun
  PROVE  Waits(Gathered(x))
<1> DEFINE all == 1..Len(x.plan.members)
<1>1. all \subseteq Calls
  BY PlansTyped DEF Begun
<1>2. CASE \E i \in all : x.ans[i] \in {"asked", "barred"}
  BY <1>1, <1>2 DEF Gathered, Waits, Flying
<1>3. CASE ~ \E i \in all : x.ans[i] \in {"asked", "barred"}
  <2>1. \E s \in {"COMPLETED", "PARTIAL"} : Gathered(x) = [x EXCEPT !.status = s]
    BY <1>3 DEF Gathered
  <2> QED  BY <2>1, EndsWait
<1> QED  BY <1>2, <1>3

LEMMA StagedWaits ==
  ASSUME NEW x \in Begun, NEW i \in {1, 2, 3}, NEW u
  PROVE  Waits(Staged(x, i, u))
<1>1. \/ \E s \in {"threw", "COMPLETED"} : Staged(x, i, u) = [x EXCEPT !.status = s]
      \/ \E k \in {2, 3} : Staged(x, i, u) = [x EXCEPT !.ans = Ask(x.ans, {k}, u)]
  <2>1. CASE i = 1
    BY <2>1 DEF Staged
  <2>2. CASE i = 2
    BY <2>2 DEF Staged
  <2>3. CASE i = 3
    BY <2>3 DEF Staged
  <2> QED  BY <2>1, <2>2, <2>3
<1>2. \A s \in {"threw", "COMPLETED"} : Waits([x EXCEPT !.status = s])
  BY EndsWait
<1>3. \A k \in {2, 3} : Waits([x EXCEPT !.ans = Ask(x.ans, {k}, u)])
  <2>1. \A k \in {2, 3} : {k} \cap Calls # {}
    BY DEF Calls
  <2> QED  BY <2>1, AskersWait
<1> QED  BY <1>1, <1>2, <1>3

LEMMA ExecutePlanWaits ==
  ASSUME MInv, NEW e \in Executions, NEW mode \in Modes, NEW plan \in Plans,
         ExecutePlan(e, mode, plan)
  PROVE  \E y : Waits(y) /\ exec' = [exec EXCEPT ![e] = y]
<1> DEFINE x == Started(mode, plan)
<1>1. x \in Begun /\ x.mode = mode /\ x.plan = plan
  BY StartedFits
<1>2. CASE Refused(plan)
  <2>1. exec' = [exec EXCEPT ![e] = [x EXCEPT !.status = "threw"]]
    BY <1>2 DEF ExecutePlan
  <2> HIDE DEF x
  <2> QED  BY <1>1, <2>1, EndsWait
<1>3. CASE ~Refused(plan) /\ mode = "SEQUENTIAL"
  <2>1. mode \notin AtOnce /\ mode # "DEBATE_REVIEW"
    BY <1>3 DEF AtOnce
  <2>2. exec' = [exec EXCEPT ![e] = Ahead(x, 1, used)]
    <3> HIDE DEF x
    <3> QED  BY <1>3, <2>1 DEF ExecutePlan, x
  <2> HIDE DEF x
  <2>3. Waits(Ahead(x, 1, used))
    BY <1>1, AheadWaits
  <2> QED  BY <2>2, <2>3
<1>4. CASE ~Refused(plan) /\ mode \in AtOnce
  <2> DEFINE f == Ask(x.ans, 1..Len(plan.members), used)
             y == [x EXCEPT !.ans = f]
  <2>1. exec' = [exec EXCEPT ![e] = Gathered(y)]
    BY <1>4 DEF ExecutePlan, AtOnce
  <2>2. y \in Begun
    <3> HIDE DEF x
    <3>1. f \in [Calls -> Outcomes]
      BY <1>1, AskTyped DEF Begun, Execution
    <3> HIDE DEF f
    <3> QED  BY <1>1, <3>1, AnsTyped
  <2> HIDE DEF x, y
  <2> QED  BY <2>1, <2>2, GatheredWaits
<1>5. CASE ~Refused(plan) /\ mode = "DEBATE_REVIEW"
  <2>1. exec' = [exec EXCEPT ![e] = [x EXCEPT !.ans = Ask(x.ans, {1}, used)]]
    BY <1>5 DEF ExecutePlan, AtOnce
  <2>2. {1} \cap Calls # {}
    BY DEF Calls
  <2> HIDE DEF x
  <2> QED  BY <1>1, <2>1, <2>2, AskersWait
<1> QED  BY <1>2, <1>3, <1>4, <1>5 DEF Modes, AtOnce

LEMMA AnsweredWaits ==
  ASSUME MInv, NEW e \in Executions, NEW i \in Calls, Answered(e, i)
  PROVE  \E y : Waits(y) /\ exec' = [exec EXCEPT ![e] = y]
<1> DEFINE old == exec[e]
<1>1. PICK outcome \in {"BUDGET_EXCEEDED", "SUCCESS", "INVALID", "FAILED"} :
        LET x == [exec[e] EXCEPT !.ans[i] = outcome]
            u == IF outcome \in {"SUCCESS", "INVALID"} THEN used + 1 ELSE used
        IN exec' = [exec EXCEPT ![e] =
             CASE ~Running(e) -> x
               [] Running(e) /\ outcome = "INVALID" -> [x EXCEPT !.status = "threw"]
               [] Running(e) /\ outcome # "INVALID" ->
                    CASE x.mode = "SEQUENTIAL" -> Ahead(x, i + 1, u)
                      [] x.mode \in AtOnce -> Gathered(x)
                      [] x.mode = "DEBATE_REVIEW" -> Staged(x, i, u)]
  BY DEF Answered
<1>2. old \in Begun /\ Fits(old) /\ old.ans[i] \in {"asked", "barred"}
  BY DEF Answered, InFlight, MInv, TypeOK, Touched, Begun
<1>3. outcome \in Outcomes \ {"none"}
  BY <1>1 DEF Outcomes
<1> DEFINE x == [exec[e] EXCEPT !.ans[i] = outcome]
           u == IF outcome \in {"SUCCESS", "INVALID"} THEN used + 1 ELSE used
<1>4. Goes(old, x) /\ x.status = old.status
  <2> HIDE DEF old
  <2>1. Goes(old, [old EXCEPT !.ans[i] = outcome]) /\ [old EXCEPT !.ans[i] = outcome].status = old.status
    BY <1>2, <1>3, AnswerFits
  <2> QED  BY <2>1 DEF old
<1>5. x \in Begun /\ x.mode \in Modes /\ x.mode = old.mode
  BY <1>4 DEF Goes, Begun
<1>6. i + 1 \in Nat /\ i + 1 >= 1
  BY DEF Calls
<1>7. CASE ~Running(e)
  <2>1. exec' = [exec EXCEPT ![e] = x]
    BY <1>1, <1>7
  <2>2. Waits(x)
    BY <1>4, <1>7 DEF Waits, Running
  <2> QED  BY <2>1, <2>2
<1>8. CASE Running(e) /\ outcome = "INVALID"
  <2>1. exec' = [exec EXCEPT ![e] = [x EXCEPT !.status = "threw"]]
    BY <1>1, <1>8
  <2> HIDE DEF x
  <2> QED  BY <1>5, <2>1, EndsWait
<1>9. CASE Running(e) /\ outcome # "INVALID"
  <2>1. exec' = [exec EXCEPT ![e] =
                   CASE x.mode = "SEQUENTIAL" -> Ahead(x, i + 1, u)
                     [] x.mode \in AtOnce -> Gathered(x)
                     [] x.mode = "DEBATE_REVIEW" -> Staged(x, i, u)]
    BY <1>1, <1>9
  <2>2. x.mode = "DEBATE_REVIEW" => i \in {1, 2, 3}
    <3>1. i \in Touched(old.ans)
      BY <1>2 DEF Touched
    <3> HIDE DEF old, x
    <3> QED  BY <1>2, <1>5, <3>1 DEF Fits
  <2> HIDE DEF x, u
  <2>3. CASE x.mode = "SEQUENTIAL"
    <3>1. x.mode \notin AtOnce /\ x.mode # "DEBATE_REVIEW"
      BY <2>3 DEF AtOnce
    <3>2. exec' = [exec EXCEPT ![e] = Ahead(x, i + 1, u)]
      BY <2>1, <2>3, <3>1
    <3>3. Waits(Ahead(x, i + 1, u))
      BY <1>5, <1>6, AheadWaits
    <3> QED  BY <3>2, <3>3
  <2>4. CASE x.mode \in AtOnce
    <3>1. x.mode # "SEQUENTIAL" /\ x.mode # "DEBATE_REVIEW"
      BY <2>4 DEF AtOnce
    <3>2. exec' = [exec EXCEPT ![e] = Gathered(x)]
      BY <2>1, <2>4, <3>1
    <3> QED  BY <1>5, <3>2, GatheredWaits
  <2>5. CASE x.mode = "DEBATE_REVIEW"
    <3>1. x.mode \notin AtOnce /\ x.mode # "SEQUENTIAL"
      BY <2>5 DEF AtOnce
    <3>2. exec' = [exec EXCEPT ![e] = Staged(x, i, u)]
      BY <2>1, <2>5, <3>1
    <3>3. Waits(Staged(x, i, u))
      BY <1>5, <2>2, <2>5, StagedWaits
    <3> QED  BY <3>2, <3>3
  <2> QED  BY <1>5, <2>3, <2>4, <2>5 DEF Modes, AtOnce
<1> QED  BY <1>7, <1>8, <1>9

\* An execution's fields are its own: the others wait as they did.
LEMMA WInvKept == WInv /\ [Next]_vars => WInv'
<1> SUFFICES ASSUME WInv, [Next]_vars
             PROVE  WInv'
  OBVIOUS
<1>1. MInv /\ MInv'
  BY MInvKept DEF WInv
<1>2. ASSUME NEW e \in Executions, \E y : Waits(y) /\ exec' = [exec EXCEPT ![e] = y]
      PROVE  WInv'
  <2>1. PICK y : Waits(y) /\ exec' = [exec EXCEPT ![e] = y]
    BY <1>2
  <2>2. \A d \in Executions : exec'[d] = IF d = e THEN y ELSE exec[d]
    BY <1>1, <2>1 DEF MInv, TypeOK
  <2>3. \A d \in Executions : Waits(exec'[d])
    BY <2>1, <2>2 DEF WInv
  <2> QED  BY <1>1, <2>3 DEF WInv
<1>3. CASE UNCHANGED vars
  BY <1>1, <1>3 DEF vars, WInv
<1>4. ASSUME NEW e \in Executions, NEW mode \in Modes, NEW plan \in Plans, ExecutePlan(e, mode, plan)
      PROVE  WInv'
  BY <1>1, <1>2, <1>4, ExecutePlanWaits
<1>5. ASSUME NEW e \in Executions, NEW i \in Calls, Answered(e, i)
      PROVE  WInv'
  BY <1>1, <1>2, <1>5, AnsweredWaits
<1> QED  BY <1>3, <1>4, <1>5 DEF Next

\* An execution that goes on always has a call out: no plan, mode or answer leaves it
\* waiting for nobody.  So a step that fairness asks for is always there to be taken.
THEOREM RunningIsWaiting == Spec => [](\A e \in Executions : Running(e) => InFlight(e) # {})
<1>1. Init => WInv
  BY MInvInitially DEF Init, WInv, Waits
<1>2. WInv => \A e \in Executions : Running(e) => InFlight(e) # {}
  BY DEF WInv, Waits, Running, InFlight, Flying
<1> QED  BY <1>1, <1>2, WInvKept, PTL DEF Spec

-----------------------------------------------------------------------------
(* What an answer has settled *)

\* The places at which there is an answer, good or not.
Settled(ans) == Touched(ans) \ Flying(ans)

\* One after the other: whoever is out is the last who was asked.
Onward(x) ==
  x.status = "running" /\ x.mode \notin AtOnce =>
    \A i \in Flying(x.ans), j \in Touched(x.ans) : j <= i
SInv == MInv /\ \A e \in Executions : Onward(exec[e])

\* y is x at its end, or with one more call out, beyond place n.
GoesBeyond(x, y, n) ==
  /\ y.mode = x.mode
  /\ \/ y.ans = x.ans /\ y.status # "running"
     \/ \E k \in Calls : k > n /\ \E u : y.ans = Ask(x.ans, {k}, u)

\* What is settled stays so when the next call goes beyond it.
LEMMA BeyondStands ==
  ASSUME NEW x \in Begun, NEW y, NEW n \in Nat, GoesBeyond(x, y, n),
         Flying(x.ans) = {}, Touched(x.ans) \subseteq 1..n
  PROVE  Onward(y) /\ Settled(x.ans) \subseteq Settled(y.ans)
<1>1. CASE y.ans = x.ans /\ y.status # "running"
  BY <1>1 DEF Onward
<1>2. CASE \E k \in Calls : k > n /\ \E u : y.ans = Ask(x.ans, {k}, u)
  <2>1. PICK k \in Calls : k > n /\ \E u : y.ans = Ask(x.ans, {k}, u)
    BY <1>2
  <2>2. PICK u : y.ans = Ask(x.ans, {k}, u)
    BY <2>1
  <2>3. /\ y.ans \in [Calls -> Outcomes] /\ Touched(y.ans) \subseteq Touched(x.ans) \cup {k}
        /\ \A i \in Calls \ {k} : y.ans[i] = x.ans[i]
    BY <2>2, AskTyped DEF Begun, Execution
  <2>4. Flying(y.ans) \subseteq {k}
    BY <2>3 DEF Flying
  <2>5. \A j \in Touched(y.ans) : j <= k
    <3>1. k \in Nat /\ k > n
      BY <2>1 DEF Calls
    <3>2. \A j \in 1..n : j <= k
      BY <3>1
    <3> QED  BY <2>3, <3>1, <3>2
  <2>6. k \notin Touched(x.ans)
    BY <2>1
  <2>7. Settled(x.ans) \subseteq Settled(y.ans)
    BY <2>3, <2>4, <2>6 DEF Settled, Touched, Flying
  <2> QED  BY <2>4, <2>5, <2>7 DEF Onward
<1> QED  BY <1>1, <1>2 DEF GoesBeyond

LEMMA EndsBeyond ==
  ASSUME NEW x \in Begun, NEW s \in {"threw", "COMPLETED", "PARTIAL", "BUDGET_EXCEEDED"}, NEW n
  PROVE  GoesBeyond(x, [x EXCEPT !.status = s], n)
<1> DEFINE y == [x EXCEPT !.status = s]
<1>1. y.status = s /\ y.mode = x.mode /\ y.ans = x.ans
  BY StatusTyped
<1> HIDE DEF y
<1>2. GoesBeyond(x, y, n)
  BY <1>1 DEF GoesBeyond
<1> QED  BY <1>2 DEF y

LEMMA AskerBeyond ==
  ASSUME NEW x \in Begun, NEW n \in Nat, NEW k \in Calls, k > n, NEW u
  PROVE  GoesBeyond(x, [x EXCEPT !.ans = Ask(x.ans, {k}, u)], n)
<1> DEFINE f == Ask(x.ans, {k}, u)
           y == [x EXCEPT !.ans = f]
<1>1. f \in [Calls -> Outcomes]
  BY AskTyped DEF Begun, Execution
<1>2. y.mode = x.mode /\ y.ans = f
  <2> HIDE DEF f
  <2> QED  BY <1>1, AnsTyped
<1> HIDE DEF y
<1>3. GoesBeyond(x, y, n)
  BY <1>2 DEF GoesBeyond
<1> QED  BY <1>3 DEF y

LEMMA AheadGoesBeyond ==
  ASSUME NEW x \in Begun, NEW n \in Nat, NEW u
  PROVE  GoesBeyond(x, Ahead(x, n + 1, u), n)
<1> DEFINE ahead == {i \in (n + 1)..Len(x.plan.order) : x.plan.order[i] \in ToSet(x.plan.members)}
<1>1. Len(x.plan.order) \in Nat /\ 1..Len(x.plan.order) \subseteq Calls
  BY PlansTyped DEF Begun
<1>2. \A i \in ahead : i \in Nat /\ i \in Calls /\ i > n
  BY <1>1
<1>3. \/ \E s \in {"COMPLETED", "PARTIAL", "BUDGET_EXCEEDED"} :
           Ahead(x, n + 1, u) = [x EXCEPT !.status = s]
      \/ /\ ahead # {}
         /\ Ahead(x, n + 1, u) = [x EXCEPT !.ans = Ask(x.ans, First(ahead), u)]
  BY DEF Ahead
<1> HIDE DEF ahead
<1>4. \A s \in {"COMPLETED", "PARTIAL", "BUDGET_EXCEEDED"} : GoesBeyond(x, [x EXCEPT !.status = s], n)
  BY EndsBeyond
<1>5. ahead # {} => GoesBeyond(x, [x EXCEPT !.ans = Ask(x.ans, First(ahead), u)], n)
  <2> SUFFICES ASSUME ahead # {}
               PROVE  GoesBeyond(x, [x EXCEPT !.ans = Ask(x.ans, First(ahead), u)], n)
    OBVIOUS
  <2>1. First(ahead) # {}
    BY <1>2, SomeFirst
  <2>2. PICK k \in ahead : k \in First(ahead)
    BY <2>1 DEF First
  <2>3. First(ahead) = {k}
    BY <1>2, <2>2 DEF First
  <2>4. k \in Calls /\ k > n
    BY <1>2
  <2> QED  BY <2>3, <2>4, AskerBeyond
<1> QED  BY <1>3, <1>4, <1>5

LEMMA StagedGoesBeyond ==
  ASSUME NEW x \in Begun, NEW i \in {1, 2, 3}, NEW u
  PROVE  GoesBeyond(x, Staged(x, i, u), i)
<1>1. \/ \E s \in {"threw", "COMPLETED"} : Staged(x, i, u) = [x EXCEPT !.status = s]
      \/ \E k \in {2, 3} : k > i /\ Staged(x, i, u) = [x EXCEPT !.ans = Ask(x.ans, {k}, u)]
  <2>1. CASE i = 1
    BY <2>1 DEF Staged
  <2>2. CASE i = 2
    BY <2>2 DEF Staged
  <2>3. CASE i = 3
    BY <2>3 DEF Staged
  <2> QED  BY <2>1, <2>2, <2>3
<1>2. \A s \in {"threw", "COMPLETED"} : GoesBeyond(x, [x EXCEPT !.status = s], i)
  BY EndsBeyond
<1>3. \A k \in {2, 3} : k > i => GoesBeyond(x, [x EXCEPT !.ans = Ask(x.ans, {k}, u)], i)
  <2>1. i \in Nat /\ {2, 3} \subseteq Calls
    BY DEF Calls
  <2> QED  BY <2>1, AskerBeyond
<1> QED  BY <1>1, <1>2, <1>3

\* A team is asked once.
LEMMA GatheredStays ==
  ASSUME NEW x \in Begun
  PROVE  Gathered(x).ans = x.ans /\ Gathered(x).mode = x.mode
<1>1. Gathered(x) = x \/ \E s \in {"COMPLETED", "PARTIAL"} : Gathered(x) = [x EXCEPT !.status = s]
  BY DEF Gathered
<1>2. \A s \in {"COMPLETED", "PARTIAL"} :
        [x EXCEPT !.status = s].ans = x.ans /\ [x EXCEPT !.status = s].mode = x.mode
  BY StatusTyped
<1> QED  BY <1>1, <1>2

LEMMA ExecutePlanStands ==
  ASSUME MInv, NEW e \in Executions, NEW mode \in Modes, NEW plan \in Plans,
         ExecutePlan(e, mode, plan)
  PROVE  \E y : /\ exec' = [exec EXCEPT ![e] = y]
                /\ Onward(y) /\ Settled(exec[e].ans) \subseteq Settled(y.ans)
<1> DEFINE x == Started(mode, plan)
<1>1. /\ x \in Begun /\ x.mode = mode /\ x.plan = plan /\ x.ans = NotAsked
      /\ Touched(NotAsked) = {} /\ Flying(NotAsked) = {} /\ 1 \in Calls /\ 1 > 0
  BY StartedFits DEF Started, NotAsked, Touched, Flying, Calls
<1>2. Settled(exec[e].ans) = {}
  BY DEF ExecutePlan, MInv, Settled
<1>3. ASSUME NEW y, GoesBeyond(x, y, 0)
      PROVE  Onward(y)
  <2> HIDE DEF x
  <2>1. Flying(x.ans) = {} /\ Touched(x.ans) \subseteq 1..0 /\ 0 \in Nat
    BY <1>1
  <2> QED  BY <1>1, <1>3, <2>1, BeyondStands
<1>4. CASE Refused(plan)
  <2>1. exec' = [exec EXCEPT ![e] = [x EXCEPT !.status = "threw"]]
    BY <1>4 DEF ExecutePlan
  <2> HIDE DEF x
  <2>2. GoesBeyond(x, [x EXCEPT !.status = "threw"], 0)
    BY <1>1, EndsBeyond
  <2> QED  BY <1>2, <1>3, <2>1, <2>2
<1>5. CASE ~Refused(plan) /\ mode = "SEQUENTIAL"
  <2>1. mode \notin AtOnce /\ mode # "DEBATE_REVIEW"
    BY <1>5 DEF AtOnce
  <2>2. exec' = [exec EXCEPT ![e] = Ahead(x, 0 + 1, used)]
    <3> HIDE DEF x
    <3>1. 0 + 1 = 1
      OBVIOUS
    <3> QED  BY <1>5, <2>1, <3>1 DEF ExecutePlan, x
  <2> HIDE DEF x
  <2>3. GoesBeyond(x, Ahead(x, 0 + 1, used), 0)
    BY <1>1, AheadGoesBeyond
  <2> QED  BY <1>2, <1>3, <2>2, <2>3
<1>6. CASE ~Refused(plan) /\ mode \in AtOnce
  <2> DEFINE f == Ask(x.ans, 1..Len(plan.members), used)
             y == [x EXCEPT !.ans = f]
  <2>1. exec' = [exec EXCEPT ![e] = Gathered(y)]
    BY <1>6 DEF ExecutePlan, AtOnce
  <2>2. y \in Begun /\ y.mode = mode
    <3> HIDE DEF x
    <3>1. f \in [Calls -> Outcomes]
      BY <1>1, AskTyped DEF Begun, Execution
    <3> HIDE DEF f
    <3> QED  BY <1>1, <3>1, AnsTyped
  <2> HIDE DEF x, y
  <2>3. Onward(Gathered(y))
    BY <1>6, <2>2, GatheredStays DEF Onward
  <2> QED  BY <1>2, <2>1, <2>3
<1>7. CASE ~Refused(plan) /\ mode = "DEBATE_REVIEW"
  <2>1. exec' = [exec EXCEPT ![e] = [x EXCEPT !.ans = Ask(x.ans, {1}, used)]]
    BY <1>7 DEF ExecutePlan, AtOnce
  <2> HIDE DEF x
  <2>2. GoesBeyond(x, [x EXCEPT !.ans = Ask(x.ans, {1}, used)], 0)
    BY <1>1, AskerBeyond
  <2> QED  BY <1>2, <1>3, <2>1, <2>2
<1> QED  BY <1>4, <1>5, <1>6, <1>7 DEF Modes, AtOnce

\* The answer to call i settles place i and takes nothing back.
LEMMA AnsweredStands ==
  ASSUME SInv, NEW e \in Executions, NEW i \in Calls, Answered(e, i)
  PROVE  \E y : /\ exec' = [exec EXCEPT ![e] = y]
                /\ Onward(y) /\ Settled(exec[e].ans) \cup {i} \subseteq Settled(y.ans)
<1> DEFINE old == exec[e]
<1>1. PICK outcome \in {"BUDGET_EXCEEDED", "SUCCESS", "INVALID", "FAILED"} :
        LET x == [exec[e] EXCEPT !.ans[i] = outcome]
            u == IF outcome \in {"SUCCESS", "INVALID"} THEN used + 1 ELSE used
        IN exec' = [exec EXCEPT ![e] =
             CASE ~Running(e) -> x
               [] Running(e) /\ outcome = "INVALID" -> [x EXCEPT !.status = "threw"]
               [] Running(e) /\ outcome # "INVALID" ->
                    CASE x.mode = "SEQUENTIAL" -> Ahead(x, i + 1, u)
                      [] x.mode \in AtOnce -> Gathered(x)
                      [] x.mode = "DEBATE_REVIEW" -> Staged(x, i, u)]
  BY DEF Answered
<1>2. /\ old \in Begun /\ Fits(old) /\ old.ans[i] \in {"asked", "barred"} /\ Onward(old)
      /\ old.ans \in [Calls -> Outcomes]
  BY DEF Answered, InFlight, SInv, MInv, TypeOK, Touched, Begun, Execution
<1>3. outcome \in Outcomes \ {"none"} /\ outcome \notin {"asked", "barred"}
  BY <1>1 DEF Outcomes
<1> DEFINE x == [exec[e] EXCEPT !.ans[i] = outcome]
           u == IF outcome \in {"SUCCESS", "INVALID"} THEN used + 1 ELSE used
<1>4. Goes(old, x) /\ x.status = old.status
  <2> HIDE DEF old
  <2>1. Goes(old, [old EXCEPT !.ans[i] = outcome]) /\ [old EXCEPT !.ans[i] = outcome].status = old.status
    BY <1>2, <1>3, AnswerFits
  <2> QED  BY <2>1 DEF old
<1>5. x \in Begun /\ x.mode \in Modes /\ x.mode = old.mode
  BY <1>4 DEF Goes, Begun
<1>6. x.ans = [old.ans EXCEPT ![i] = outcome]
  BY <1>2 DEF Begun, Execution
<1>7. /\ Flying(x.ans) = Flying(old.ans) \ {i} /\ Touched(x.ans) = Touched(old.ans)
      /\ i \in Flying(old.ans) /\ i \in Touched(x.ans)
  <2> HIDE DEF x, old
  <2> QED  BY <1>2, <1>3, <1>6 DEF Flying, Touched
<1>8. Settled(old.ans) \cup {i} \subseteq Settled(x.ans)
  BY <1>7 DEF Settled
<1>9. i \in Nat /\ \A j \in Touched(x.ans) : j \in Nat /\ j >= 1
  BY DEF Calls, Touched
<1>10. ASSUME Running(e), x.mode \notin AtOnce, NEW y, GoesBeyond(x, y, i)
       PROVE  Onward(y) /\ Settled(old.ans) \cup {i} \subseteq Settled(y.ans)
  <2>1. \A k \in Flying(old.ans), j \in Touched(old.ans) : j <= k
    BY <1>2, <1>5, <1>10 DEF Onward, Running
  <2> HIDE DEF x, old
  <2>2. Flying(x.ans) = {}
    <3> SUFFICES ASSUME NEW k \in Flying(old.ans)
                 PROVE  k = i
      BY <1>7
    <3>1. k \in Touched(old.ans) /\ i \in Touched(old.ans) /\ i \in Flying(old.ans)
      BY <1>7 DEF Flying, Touched
    <3>2. k <= i /\ i <= k
      BY <2>1, <3>1
    <3>3. k \in Nat /\ i \in Nat
      BY <1>7, <1>9, <3>1
    <3> QED  BY <3>2, <3>3
  <2>3. Touched(x.ans) \subseteq 1..i
    <3> SUFFICES ASSUME NEW j \in Touched(x.ans)
                 PROVE  j \in 1..i
      OBVIOUS
    <3>1. j <= i
      BY <1>7, <2>1
    <3>2. i \in Nat /\ j \in Nat /\ j >= 1
      BY <1>9
    <3> QED  BY <3>1, <3>2
  <2> QED  BY <1>5, <1>8, <1>9, <1>10, <2>2, <2>3, BeyondStands
<1>11. CASE ~Running(e)
  <2>1. exec' = [exec EXCEPT ![e] = x]
    BY <1>1, <1>11
  <2>2. Onward(x)
    BY <1>4, <1>11 DEF Onward, Running
  <2> QED  BY <1>8, <2>1, <2>2
<1>12. CASE Running(e) /\ outcome = "INVALID"
  <2> DEFINE y == [x EXCEPT !.status = "threw"]
  <2>1. exec' = [exec EXCEPT ![e] = y]
    BY <1>1, <1>12
  <2>2. y.ans = x.ans /\ y.status = "threw"
    <3> HIDE DEF x
    <3> QED  BY <1>5, StatusTyped
  <2> HIDE DEF y
  <2> QED  BY <1>8, <2>1, <2>2 DEF Onward
<1>13. CASE Running(e) /\ outcome # "INVALID"
  <2>1. exec' = [exec EXCEPT ![e] =
                   CASE x.mode = "SEQUENTIAL" -> Ahead(x, i + 1, u)
                     [] x.mode \in AtOnce -> Gathered(x)
                     [] x.mode = "DEBATE_REVIEW" -> Staged(x, i, u)]
    BY <1>1, <1>13
  <2>2. x.mode = "DEBATE_REVIEW" => i \in {1, 2, 3}
    <3>1. i \in Touched(old.ans)
      BY <1>2 DEF Touched
    <3> HIDE DEF old, x
    <3> QED  BY <1>2, <1>5, <3>1 DEF Fits
  <2> HIDE DEF x, u
  <2>3. CASE x.mode = "SEQUENTIAL"
    <3>1. x.mode \notin AtOnce /\ x.mode # "DEBATE_REVIEW"
      BY <2>3 DEF AtOnce
    <3>2. exec' = [exec EXCEPT ![e] = Ahead(x, i + 1, u)]
      BY <2>1, <2>3, <3>1
    <3>3. GoesBeyond(x, Ahead(x, i + 1, u), i)
      BY <1>5, <1>9, AheadGoesBeyond
    <3> QED  BY <1>10, <1>13, <3>1, <3>2, <3>3
  <2>4. CASE x.mode \in AtOnce
    <3>1. x.mode # "SEQUENTIAL" /\ x.mode # "DEBATE_REVIEW"
      BY <2>4 DEF AtOnce
    <3>2. exec' = [exec EXCEPT ![e] = Gathered(x)]
      BY <2>1, <2>4, <3>1
    <3>3. Onward(Gathered(x)) /\ Gathered(x).ans = x.ans
      BY <1>5, <2>4, GatheredStays DEF Onward
    <3> QED  BY <1>8, <3>2, <3>3
  <2>5. CASE x.mode = "DEBATE_REVIEW"
    <3>1. x.mode \notin AtOnce /\ x.mode # "SEQUENTIAL"
      BY <2>5 DEF AtOnce
    <3>2. exec' = [exec EXCEPT ![e] = Staged(x, i, u)]
      BY <2>1, <2>5, <3>1
    <3>3. GoesBeyond(x, Staged(x, i, u), i)
      BY <1>5, <2>2, <2>5, StagedGoesBeyond
    <3> QED  BY <1>10, <1>13, <3>1, <3>2, <3>3
  <2> QED  BY <1>5, <2>3, <2>4, <2>5 DEF Modes, AtOnce
<1> QED  BY <1>11, <1>12, <1>13

\* What a step settles at each execution.
Stands(e) ==
  /\ Settled(exec[e].ans) \subseteq Settled(exec'[e].ans)
  /\ \A i \in Calls : Answered(e, i) => i \in Settled(exec'[e].ans)

LEMMA SInvKept == SInv /\ [Next]_vars => SInv' /\ \A e \in Executions : Stands(e)
<1> SUFFICES ASSUME SInv, [Next]_vars
             PROVE  SInv' /\ \A e \in Executions : Stands(e)
  OBVIOUS
<1>1. MInv /\ MInv' /\ exec \in [Executions -> Execution]
  BY MInvKept DEF SInv, MInv, TypeOK
<1>2. \A e \in Executions, i \in Calls : Answered(e, i) => i \in Settled(exec'[e].ans)
  <2> SUFFICES ASSUME NEW e \in Executions, NEW i \in Calls, Answered(e, i)
               PROVE  i \in Settled(exec'[e].ans)
    OBVIOUS
  <2>1. PICK y : /\ exec' = [exec EXCEPT ![e] = y]
                 /\ Onward(y) /\ Settled(exec[e].ans) \cup {i} \subseteq Settled(y.ans)
    BY AnsweredStands
  <2> QED  BY <1>1, <2>1
<1>3. ASSUME NEW e \in Executions,
             \E y : /\ exec' = [exec EXCEPT ![e] = y]
                    /\ Onward(y) /\ Settled(exec[e].ans) \subseteq Settled(y.ans)
      PROVE  SInv' /\ \A d \in Executions : Stands(d)
  <2>1. PICK y : /\ exec' = [exec EXCEPT ![e] = y]
                 /\ Onward(y) /\ Settled(exec[e].ans) \subseteq Settled(y.ans)
    BY <1>3
  <2>2. \A d \in Executions : exec'[d] = IF d = e THEN y ELSE exec[d]
    BY <1>1, <2>1
  <2>3. \A d \in Executions : Onward(exec'[d])
    BY <2>1, <2>2 DEF SInv
  <2>4. \A d \in Executions : Settled(exec[d].ans) \subseteq Settled(exec'[d].ans)
    BY <2>1, <2>2
  <2> QED  BY <1>1, <1>2, <2>3, <2>4 DEF SInv, Stands
<1>4. CASE UNCHANGED vars
  BY <1>1, <1>2, <1>4 DEF vars, SInv, Stands
<1>5. ASSUME NEW e \in Executions, NEW mode \in Modes, NEW plan \in Plans, ExecutePlan(e, mode, plan)
      PROVE  SInv' /\ \A d \in Executions : Stands(d)
  BY <1>1, <1>3, <1>5, ExecutePlanStands
<1>6. ASSUME NEW e \in Executions, NEW i \in Calls, Answered(e, i)
      PROVE  SInv' /\ \A d \in Executions : Stands(d)
  <2>1. \E y : /\ exec' = [exec EXCEPT ![e] = y]
               /\ Onward(y) /\ Settled(exec[e].ans) \cup {i} \subseteq Settled(y.ans)
    BY <1>6, AnsweredStands
  <2>2. \E y : /\ exec' = [exec EXCEPT ![e] = y]
               /\ Onward(y) /\ Settled(exec[e].ans) \subseteq Settled(y.ans)
    BY <2>1
  <2> QED  BY <1>3, <2>2
<1> QED  BY <1>4, <1>5, <1>6 DEF Next

\* An answer stands: the place of a call that was out is settled by it, and no place that
\* is settled is ever asked again.  A plan has finitely many, so that an execution that
\* always has a call out (RunningIsWaiting) comes to its end.
THEOREM AnswersStand == Spec => [][\A e \in Executions : Stands(e)]_vars
<1>1. Init => SInv
  BY MInvInitially DEF Init, SInv, Onward
<1>2. SInv /\ [Next]_vars => [\A e \in Executions : Stands(e)]_vars
  BY SInvKept
<1>3. SInv /\ [Next]_vars => SInv'
  BY SInvKept
<1> QED  BY <1>1, <1>2, <1>3, PTL DEF Spec
=============================================================================
