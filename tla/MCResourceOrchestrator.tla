----------------------- MODULE MCResourceOrchestrator -----------------------
(* A provider with two accounts and one model, and one without accounts;
   three tasks, so that two answers can come before the third one starts. *)
EXTENDS ResourceOrchestrator

CONSTANTS p1, p2, m1, m2, c1, c2,
          MaxClock, MaxChanges   \* bounds of the model

Owner == (m1 :> p1) @@ (c1 :> p1) @@ (c2 :> p1) @@ (m2 :> p2)

\* p2 is ranked as a fallback: after every account of p1.
FallbackLast ==
  \A t \in Tasks : Calling(t) =>
    LET left == <<task[t].at>> \o task[t].queue
    IN \A i \in DOMAIN left : left[i].model = m2 => i = Len(left)

VARIABLE changes  \* registrations and removals so far

MCInit == Init /\ changes = 0
MCNext ==
  \/ /\ \E t \in Tasks : Dispatch(t) \/ Answer(t)
     /\ FallbackLast' /\ UNCHANGED changes
  \/ /\ changes < MaxChanges /\ changes' = changes + 1
     /\ \E c \in Credentials : RegisterCredential(c) \/ RemoveCredential(c)
  \/ clock < MaxClock /\ Tick /\ UNCHANGED changes
MCSpec == MCInit /\ [][MCNext]_<<vars, changes>>

Alike == Permutations(Tasks) \cup Permutations({c1, c2})
=============================================================================
