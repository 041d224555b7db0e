-------------------------- MODULE MCExecutionBridge --------------------------
(* Two tasks, both also reported as failed by another engine; two executions; drafts
   with different operations, and two actions of the client's own. *)
EXTENDS ExecutionBridge, TLC

CONSTANTS e1, e2, t1, t2

Symmetric == Permutations({e1, e2}) \cup Permutations({t1, t2})
Unlike == {<< <<"MODIFY", "a", "x">>, <<"TEST", "b", "run">> >>, << <<"TEST", "b", "run">> >>}
Sent == {<<"DELETE", "a", "y">>, <<"COMMAND", "run", "run">>}
Complete == {{}, {"fingerprint", "expiry"}}
=============================================================================
