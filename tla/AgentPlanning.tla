---------------------------- MODULE AgentPlanning ----------------------------
(***************************************************************************)
(* From a task to reviewed proposals: the agent registry (agent-registry), *)
(* the routing of a task to one agent (task-routing), the composition of a *)
(* team and its order (multi-agent-orchestration), and the review of what  *)
(* the team proposes.  Agents are numbered in the order of their ids;      *)
(* capabilities are numbered in the order of the composition's ranks.      *)
(***************************************************************************)
EXTENDS ProposalReview, Sequences, SequencesExt

CONSTANTS
  CapsOf,       \* the capabilities an agent is registered with
  Required,     \* bound of the model: the capabilities a task may require, in order
  Requested,    \* bound of the model: the dependencies a client may ask for
  MaxTeam       \* MAX_TEAM_SIZE

ASSUME PlanningAssumption ==
  /\ Agents \subseteq Nat \ {0}
  /\ \A a \in Agents : CapsOf[a] \subseteq Nat
  /\ Required \subseteq Seq(Nat)
  /\ MaxTeam \in Nat

VARIABLES
  registry,     \* agent -> "none", "enabled" or "disabled"
  answer        \* the last answer to the client, who hands plans back for review

vars == <<registry, answer>>

NoAgent == 0

Init ==
  /\ registry = [a \in Agents |-> "none"]
  /\ answer = [kind |-> "none"]

Active == {a \in Agents : registry[a] = "enabled"}
Least(S) == CHOOSE x \in S : \A y \in S : x <= y

-----------------------------------------------------------------------------
\* An id can be registered once, and a definition never changes afterwards.
Register(a, status) ==
  /\ registry[a] = "none"
  /\ registry' = [registry EXCEPT ![a] = status]
  /\ UNCHANGED answer

\* The registry is in memory only; a client keeps the plan it was given.
Restart ==
  /\ registry' = [a \in Agents |-> "none"]
  /\ UNCHANGED answer

\* A full match comes first, then the score (ten per matching capability, scaled
\* by the share matched, so it grows with the number of matches), then the id.
Routed(caps, active) ==
  LET matched(a) == Cardinality(caps \cap CapsOf[a])
      able == {a \in active : matched(a) > 0}
      best == {a \in able : \A b \in able : matched(b) <= matched(a)}
  IN IF best = {} THEN NoAgent ELSE Least(best)

RouteTask(caps) ==
  /\ answer' = [kind |-> "routed", caps |-> caps, agent |-> Routed(caps, Active)]
  /\ UNCHANGED registry

-----------------------------------------------------------------------------
\* Kahn's algorithm; of the agents that wait for nobody left, the least id goes first.
ResolveDependencyOrderAny(team, deps) ==
  LET order[rest \in SUBSET team] ==
        LET ready == {a \in rest : deps[a] \cap rest # rest}
        IN IF ready = {} THEN <<>>
           ELSE <<Least(ready)>> \o order[rest \ {Least(ready)}]
  IN order[team]
ResolveDependencyOrder(team, deps) ==
  LET order[rest \in SUBSET team] ==
        LET ready == {a \in rest : deps[a] \cap rest = {}}
        IN IF ready = {} THEN <<>>
           ELSE <<Least(ready)>> \o order[rest \ {Least(ready)}]
  IN order[team]

\* The agent chosen for a capability, and the first required one it is chosen for.
Best(c, active) == Least({a \in active : c \in CapsOf[a]})
SelectedFirst(required, active) ==
  {Best(required[1], active) : c \in {d \in {required[1]} : \E a \in active : d \in CapsOf[a]}}
Selected(required, active) ==
  {Best(c, active) : c \in {d \in ToSet(required) : \E a \in active : d \in CapsOf[a]}}
Category(a, required, active) ==
  required[Least({k \in DOMAIN required :
                    /\ \E b \in active : required[k] \in CapsOf[b]
                    /\ Best(required[k], active) = a})]

\* Without requested dependencies every member waits for the one before it.
ChainDeps(team, required, active) ==
  LET before(a, b) == LET ca == Category(a, required, active)
                          cb == Category(b, required, active)
                      IN ca < cb \/ (ca = cb /\ a < b)
  IN [a \in team |-> LET earlier == {b \in team : before(b, a)}
                     IN {b \in earlier : \A c \in earlier : c = b \/ before(c, b)}]

\* An agent outside the team, or waiting for itself, makes the plan invalid; so
\* does a cycle, whose members Kahn's algorithm never emits.
ComposeOrchestrationPlan(required, requested) ==
  LET team == Selected(required, Active)
      deps == IF requested = <<>> THEN ChainDeps(team, required, Active)
              ELSE [a \in team |-> IF a \in DOMAIN requested THEN requested[a] ELSE {}]
      known == requested = <<>> \/
                 (DOMAIN requested \subseteq team /\ \A a \in DOMAIN requested :
                    requested[a] \subseteq team \ {a})
      order == ResolveDependencyOrder(team, deps)
      valid == /\ team # {} /\ Cardinality(team) <= MaxTeam /\ known
               /\ Len(order) = Cardinality(team)
  IN /\ answer' = IF valid
                  THEN [kind |-> "plan", required |-> required, team |-> team, deps |-> deps, order |-> order]
                  ELSE [kind |-> "refused", required |-> required, requested |-> requested]
     /\ UNCHANGED registry

\* The members of a plan propose; a proposal of anybody else is refused.
ReviewProposals(props) ==
  /\ answer.kind = "plan"
  /\ answer' = [kind |-> "review", props |-> props, status |-> Reviewed(answer.team, Active, props)]
  /\ UNCHANGED registry

Next ==
  \/ \E a \in Agents, s \in {"enabled", "disabled"} : Register(a, s)
  \/ Restart
  \/ \E r \in Required : RouteTask(ToSet(r)) \/ \E d \in Requested : ComposeOrchestrationPlan(r, d)
  \/ \E props \in ProposalSets : ReviewProposals(props)

Spec == Init /\ [][Next]_vars

-----------------------------------------------------------------------------
\* The shape of the registry and of every answer.
TypeOK ==
  /\ registry \in [Agents -> {"none", "enabled", "disabled"}]
  /\ answer.kind \in {"none", "routed", "plan", "refused", "review"}
  /\ answer.kind = "routed" => answer.agent \in Agents \cup {NoAgent}
  /\ answer.kind = "plan" => answer.deps \in [answer.team -> SUBSET answer.team]
  /\ answer.kind = "review" =>
       answer.status \in {"REVIEW_REJECTED", "INVALID_PROPOSAL", "CONFLICT_DETECTED", "REVIEWED"}

\* Everybody of a team runs once and after all it waits for; where more than one
\* could go next, the least id does, so a plan is the same on every run.
OrderIsTopological ==
  answer.kind = "plan" =>
    LET order == answer.order
        place(a) == CHOOSE k \in DOMAIN order : order[k] = a
    IN /\ ToSet(order) = answer.team /\ Len(order) = Cardinality(answer.team)
       /\ \A a \in answer.team : \A b \in answer.deps[a] : place(b) < place(a)
       /\ \A a, b \in answer.team :
            place(a) < place(b) /\ b < a => \E c \in answer.deps[b] : place(a) <= place(c)

\* The composition answers with a team of active agents that can do every required
\* thing some active agent can do, or it refuses for a cause: nobody can do anything of
\* the task, the team is too large, or what the client asked the agents to wait for is
\* not of the team or goes round.
TeamOrCause ==
  [][/\ answer' # answer /\ answer'.kind = "plan" =>
          /\ answer'.team \subseteq Active
          /\ \A c \in ToSet(answer'.required) : (\E a \in Active : c \in CapsOf[a]) =>
               \E a \in answer'.team : c \in CapsOf[a]
     /\ answer' # answer /\ answer'.kind = "refused" =>
          LET team == Selected(answer'.required, Active)
              waits == answer'.requested
          IN \/ team = {} \/ Cardinality(team) > MaxTeam
             \/ \E a \in DOMAIN waits : ~({a} \cup waits[a] \subseteq team)
             \/ \E S \in (SUBSET DOMAIN waits) \ {{}} : \A a \in S : waits[a] \cap S # {}]_vars

\* The changes of a file, by whatever name, in any order: the execution bridge takes
\* them one by one as its clients ask, and does not tell a creation from a modification.
Changes(props, f) ==
  {o \in props : FileOf[o.target] = f /\ o.type \in {"CREATE", "MODIFY", "DELETE"}}
Orders(changes) == {d \in [1..Cardinality(changes) -> changes] : IsInjective(d)}

\* What an order leaves of the file, {} when it is absent: each change writes or deletes
\* whatever is there, so that the last one decides.
Leaves(order) == {o \in {order[Cardinality(DOMAIN order)]} : o.type # "DELETE"}

\* After a review, whether a file is there does not depend on the order in which its
\* changes are applied, and what is in it depends on it only when the file is both
\* created and modified, which the review lets pass.  That is so as long as all changes
\* call the file by one name: that two names meet the review does not see.
ReviewedSettlesFiles ==
  answer.kind = "review" /\ answer.status = "REVIEWED" =>
    \A f \in {FileOf[x] : x \in Targets} :
      LET changes == Changes(answer.props, f)
      IN (\A o, p \in changes : o.target = p.target) =>
           \A d, e \in Orders(changes) : changes # {} =>
             /\ (Leaves(d) = {}) <=> (Leaves(e) = {})
             /\ \/ Leaves(d) = Leaves(e)
                \/ {o.type : o \in changes} = {"CREATE", "MODIFY"}
=============================================================================
