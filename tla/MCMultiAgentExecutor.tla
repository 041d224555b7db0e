------------------------ MODULE MCMultiAgentExecutor ------------------------
EXTENDS MultiAgentExecutor
CONSTANTS a1, a2, a3, a4

\* Whole plans, one whose order names a stranger, one that repeats a member, one that
\* lists too many, an empty one.
SomePlans ==
  {[members |-> <<a1, a2>>, order |-> <<a2, a1>>],
   [members |-> <<a1, a2, a3>>, order |-> <<a1, a2, a3>>],
   [members |-> <<a1>>, order |-> <<a2, a1>>],
   [members |-> <<a1, a1>>, order |-> <<a1>>],
   [members |-> <<a1, a2>>, order |-> <<a1, a1>>],
   [members |-> <<a1, a2, a3, a4>>, order |-> <<a1>>],
   [members |-> <<>>, order |-> <<>>]}
=============================================================================
