--------------------------- MODULE MCAgentPlanning ---------------------------
(* Three agents whose capabilities overlap: a team of three when all are enabled,
   of two or one otherwise, and every way to wait for each other.  Four operations
   on one file suffice for every conflict and for two agents that wait for each other;
   the file has a second name. *)
EXTENDS AgentPlanning

Named(agents, types, target) == [agent: agents, type: types, target: {target}]
Proposals == Named({1, 2, 3}, {"CREATE", "MODIFY", "DELETE"}, "a.js") \cup Named({1, 2}, {"TEST"}, "a.js")
             \cup Named({1}, {"MODIFY"}, "./a.js") \cup Named({2}, {"DELETE"}, "./a.js")
OneFile == [x \in Targets |-> "a.js"]
Overlapping == <<{1}, {1, 2}, {2, 3}>>
Tasks == {<<1, 2, 3>>, <<3, 2>>, <<2>>}
Waits == {<<>>} \cup [{1, 2} -> SUBSET {1, 2}] \cup [{1, 2, 3} -> {{}, {1}, {2}, {3}}]
=============================================================================
