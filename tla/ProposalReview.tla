---------------------------- MODULE ProposalReview ----------------------------
(***************************************************************************)
(* aggregateAndReviewProposals of proposal-review.js: whether the proposals *)
(* of a team may go on to approval.  A proposal set is a set of operations, *)
(* each of one agent's only proposal; an operation has a type and a target, *)
(* which is the trimmed text that names a file: two texts may name one file. *)
(* Left out: the checks of names and shapes, tenants and workspaces (one of *)
(* each), a repeated operation, and a second proposal of one agent, which   *)
(* is always a conflict.                                                   *)
(***************************************************************************)
EXTENDS Naturals, FiniteSets

CONSTANTS Agents, Targets,
          FileOf,       \* the file a target names
          Proposable,   \* bound of the model: the operations proposed
          MaxOps        \* bound of the model: operations of a proposal set

OpTypes == {"CREATE", "MODIFY", "DELETE", "TEST", "REVIEW", "READ", "ANALYZE", "DOCUMENT"}

Op == [agent: Agents, type: OpTypes, target: Targets]

ASSUME ReviewAssumption == Proposable \subseteq Op /\ MaxOps \in Nat

Authors(props) == {o.agent : o \in props}
On(props, x, types) == {o \in props : o.target = x /\ o.type \in types}

TargetConflictsSame(props) ==
  {x \in Targets : \E t \in {"CREATE", "MODIFY", "DELETE"} : Cardinality(On(props, x, {t})) > 1}
\* Two deletions, creations or changes of one target, or a deletion together with
\* either; a creation with a change of the same target is no conflict.
TargetConflicts(props) ==
  {x \in Targets :
     \/ \E t \in {"CREATE", "MODIFY", "DELETE"} : Cardinality(On(props, x, {t})) > 1
     \/ On(props, x, {"DELETE"}) # {} /\ On(props, x, {"CREATE", "MODIFY"}) # {}}

\* Who must wait for whom: a test or review of a target waits for its changes.
WaitsFor(props, b, a) ==
  /\ a # b
  /\ \E x \in Targets : /\ a \in Authors(On(props, x, {"CREATE", "MODIFY"}))
                        /\ b \in Authors(On(props, x, {"TEST", "REVIEW"}))

\* Two that wait for each other; a longer ring is not found.
Circular(props) == {a \in Agents : \E b \in Agents : WaitsFor(props, a, b) /\ WaitsFor(props, b, a)}

\* Membership is looked at first, then each proposal on its own (an agent the
\* registry does not know or has disabled), then the proposals together.
Reviewed(members, active, props) ==
  CASE ~(Authors(props) \subseteq members) -> "REVIEW_REJECTED"
    [] Authors(props) \subseteq members /\ ~(Authors(props) \subseteq active) -> "INVALID_PROPOSAL"
    [] Authors(props) \subseteq members \cap active ->
         IF TargetConflicts(props) # {} \/ Circular(props) # {}
           THEN "CONFLICT_DETECTED" ELSE "REVIEWED"

ProposalSets == {props \in SUBSET Proposable : IsFiniteSet(props) /\ Cardinality(props) <= MaxOps}
=============================================================================
