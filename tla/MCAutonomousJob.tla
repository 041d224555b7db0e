-------------------------- MODULE MCAutonomousJob --------------------------
(* One job, every limit one, counters up to two: each limit can be met exactly
   and exceeded by one. *)
EXTENDS AutonomousJob

CONSTANT CounterCap  \* bound of the model: no counter is raised above it

BelowCap(j) ==
  {j.iterations, j.fixAttempts, j.providerCalls, j.commands} \subseteq 0..CounterCap

MCNext == Next /\ \A i \in Jobs : BelowCap(job'[i])

MCSpec == Init /\ [][MCNext]_vars
=============================================================================
