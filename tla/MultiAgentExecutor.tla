-------------------------- MODULE MultiAgentExecutor --------------------------
(***************************************************************************)
(* executePlan of multi-agent-executor.js: the agents of a plan are asked, *)
(* one after the other, all at once, or as a proposal with its review.  The *)
(* client sends the plan, so members and order need not agree.  The gateway *)
(* is an environment that answers or fails; it looks at the shared budget   *)
(* when it is asked and counts when it has answered.  Left out: tenants,    *)
(* what proposals say, and the votes that CONSENSUS adds to the result of   *)
(* PARALLEL.                                                               *)
(***************************************************************************)
EXTENDS Naturals, FiniteSets, SequencesExt

CONSTANTS Executions, Agents,
          Plans,        \* bound of the model: the plans sent, [members, order]
          Places,       \* bound of the model: the length of what a plan lists
          MaxCalls,     \* maxCalls of the budget tracker
          MaxAgents     \* MAX_ORCHESTRATION_AGENTS; the orders are at most twice as long

ASSUME ExecutorAssumption ==
  /\ MaxCalls \in Nat /\ MaxAgents \in Nat /\ Places \in Nat /\ Places >= 3
  /\ \A p \in Plans : /\ p.members \in Seq(Agents) /\ Len(p.members) <= Places
                      /\ p.order \in Seq(Agents) /\ Len(p.order) <= Places

VARIABLES
  exec,      \* the executions: their plan and what the agents asked have answered
  used       \* calls of the shared budget tracker

vars == <<exec, used>>

Modes == {"SEQUENTIAL", "PARALLEL", "DEBATE_REVIEW", "CONSENSUS"}
AtOnce == {"PARALLEL", "CONSENSUS"}

\* The calls of an execution are numbered: by the order of the plan, by its members,
\* or by the three stages of a debate.
Calls == 1..Places
NotAsked == [i \in Calls |-> "none"]

Init ==
  /\ exec = [e \in Executions |-> [status |-> "new", mode |-> "none", plan |-> <<>>, ans |-> NotAsked]]
  /\ used = 0

Running(e) == exec[e].status = "running"
InFlight(e) == {i \in Calls : exec[e].ans[i] \in {"asked", "barred"}}
Good(ans) == {i \in Calls : ans[i] = "SUCCESS"}

AskUnbarred(ans, some, u) == [i \in Calls |-> IF i \in some THEN "asked" ELSE ans[i]]
\* What the gateway sees when it is asked: it bars a call without budget.
Ask(ans, some, u) == [i \in Calls |-> IF i \in some THEN (IF u < MaxCalls THEN "asked" ELSE "barred") ELSE ans[i]]

Started(mode, plan) == [status |-> "running", mode |-> mode, plan |-> plan, ans |-> NotAsked]

First(S) == {i \in S : \A j \in S : i <= j}
AheadCompletes(x, from, u) ==
  LET ahead == {i \in from..Len(x.plan.order) : x.plan.order[i] \in ToSet(x.plan.members)}
  IN IF ahead = {} THEN [x EXCEPT !.status = "COMPLETED"]
     ELSE IF u >= MaxCalls THEN [x EXCEPT !.status = "BUDGET_EXCEEDED"]
     ELSE [x EXCEPT !.ans = Ask(@, First(ahead), u)]
\* The loop of _executeSequential goes on at place from: agents that are no members are
\* passed over, but the order's whole length has to be answered.
Ahead(x, from, u) ==
  LET ahead == {i \in from..Len(x.plan.order) : x.plan.order[i] \in ToSet(x.plan.members)}
  IN IF ahead = {}
       THEN [x EXCEPT !.status = IF Cardinality(Good(x.ans)) = Len(x.plan.order)
                                   THEN "COMPLETED" ELSE "PARTIAL"]
     ELSE IF u >= MaxCalls THEN [x EXCEPT !.status = "BUDGET_EXCEEDED"]
     ELSE [x EXCEPT !.ans = Ask(@, First(ahead), u)]

GatheredWhenGood(x) ==
  IF \A i \in 1..Len(x.plan.members) : x.ans[i] = "SUCCESS" THEN [x EXCEPT !.status = "COMPLETED"] ELSE x
\* Promise.all of _executeParallel: it waits for every member.
Gathered(x) ==
  LET all == 1..Len(x.plan.members)
  IN IF \E i \in all : x.ans[i] \in {"asked", "barred"} THEN x
     ELSE [x EXCEPT !.status = IF \A i \in all : x.ans[i] = "SUCCESS" THEN "COMPLETED" ELSE "PARTIAL"]

\* _executeDebateReview asks the next stage whatever the last one brought; the third,
\* for the plans that have one, reads fields that only a good answer has.
Staged(x, i, u) ==
  LET third == Len(x.plan.members) >= 3
  IN CASE i = 1 -> [x EXCEPT !.ans = Ask(@, {2}, u)]
       [] i = 2 /\ ~third -> [x EXCEPT !.status = "COMPLETED"]
       [] i = 2 /\ third -> IF x.ans[1] = "SUCCESS" THEN [x EXCEPT !.ans = Ask(@, {3}, u)]
                            ELSE [x EXCEPT !.status = "threw"]
       [] i = 3 -> [x EXCEPT !.status = IF x.ans[3] = "SUCCESS" THEN "COMPLETED" ELSE "threw"]

Refused(plan) ==
  \/ Len(plan.members) > MaxAgents \/ Len(plan.order) > 2 * MaxAgents
  \/ ~IsInjective(plan.members) \/ ~IsInjective(plan.order)

-----------------------------------------------------------------------------
ExecutePlan(e, mode, plan) ==
  LET x == Started(mode, plan)
  IN /\ exec[e].status = "new"
     /\ exec' = [exec EXCEPT ![e] =
          IF Refused(plan) THEN [x EXCEPT !.status = "threw"]
          ELSE CASE mode = "SEQUENTIAL" -> Ahead(x, 1, used)
                 [] mode \in AtOnce ->
                      Gathered([x EXCEPT !.ans = Ask(@, 1..Len(plan.members), used)])
                 [] mode = "DEBATE_REVIEW" -> [x EXCEPT !.ans = Ask(@, {1}, used)]]
     /\ UNCHANGED used

\* The gateway's answer to call i: good, good but no valid proposal (which throws),
\* failed, or barred.  After a throw the others' answers still come and still count.
Answered(e, i) ==
  /\ i \in InFlight(e)
  /\ \E outcome \in IF exec[e].ans[i] = "barred" THEN {"BUDGET_EXCEEDED"}
                    ELSE {"SUCCESS", "INVALID", "FAILED"} :
       LET x == [exec[e] EXCEPT !.ans[i] = outcome]
           u == IF outcome \in {"SUCCESS", "INVALID"} THEN used + 1 ELSE used
       IN /\ used' = u
          /\ exec' = [exec EXCEPT ![e] =
               CASE ~Running(e) -> x
                 [] Running(e) /\ outcome = "INVALID" -> [x EXCEPT !.status = "threw"]
                 [] Running(e) /\ outcome # "INVALID" ->
                      CASE x.mode = "SEQUENTIAL" -> Ahead(x, i + 1, u)
                        [] x.mode \in AtOnce -> Gathered(x)
                        [] x.mode = "DEBATE_REVIEW" -> Staged(x, i, u)]

Next ==
  \E e \in Executions :
    \/ \E mode \in Modes, plan \in Plans : ExecutePlan(e, mode, plan)
    \/ \E i \in Calls : Answered(e, i)

\* The gateway settles every dispatch (DispatchEnds of ProviderGateway).
Spec == Init /\ [][Next]_vars /\ \A e \in Executions, i \in Calls : WF_vars(Answered(e, i))

-----------------------------------------------------------------------------
Outcomes == {"none", "asked", "barred", "SUCCESS", "INVALID", "FAILED", "BUDGET_EXCEEDED"}

Execution ==
  [status: {"new", "running", "threw", "COMPLETED", "PARTIAL", "BUDGET_EXCEEDED"},
   mode: Modes \cup {"none"}, plan: Plans \cup {<<>>}, ans: [Calls -> Outcomes]]
\* The shape of the state.
TypeOK ==
  /\ used \in Nat
  /\ exec \in [Executions -> Execution]
  /\ \A e \in Executions : exec[e].status # "new" => exec[e].mode \in Modes /\ exec[e].plan \in Plans

\* A plan that was reported COMPLETED has a proposal of every agent it lists: of every
\* place of the order one after the other, of every member at once.  A debate promises
\* no more than that its last stage brought something.
CompletedIsWhole ==
  \A e \in Executions :
    exec[e].status = "COMPLETED" =>
      CASE exec[e].mode = "SEQUENTIAL" -> Good(exec[e].ans) = 1..Len(exec[e].plan.order)
        [] exec[e].mode \in AtOnce -> Good(exec[e].ans) = 1..Len(exec[e].plan.members)
        [] exec[e].mode = "DEBATE_REVIEW" ->
             Len(exec[e].plan.members) >= 3 => {1, 3} \subseteq Good(exec[e].ans)

\* How many calls an execution has out at most.
Width(e) == IF exec[e].mode \in AtOnce THEN Len(exec[e].plan.members) ELSE 1

\* Calls that are out together have all passed the check of the budget for the same last
\* call: it is exceeded by at most those of a team asked at once, and by one per other
\* execution that has asked anybody, less the one that was left.
OvershootByTeams ==
  LET out == {c \in Executions \X Calls : exec[c[1]].ans[c[2]] = "asked"}
      room == {c \in Executions \X Calls : exec[c[1]].ans # NotAsked /\ c[2] <= Width(c[1])}
  IN room # {} => used + Cardinality(out) + 1 <= MaxCalls + Cardinality(room)

\* Every execution ends, whatever its agents answer and however its plan is put together.
ExecutionsEnd == \A e \in Executions : Running(e) ~> ~Running(e)
=============================================================================
