-------------------------- MODULE MCProviderGateway --------------------------
(* Two callers race for the last unit of the budget; one of the two providers is
   not registered, so that every way of failing occurs. *)
EXTENDS ProviderGateway

CONSTANTS MaxClock, MaxFailures  \* bounds of the model

\* No dispatch starts once a provider has failed often enough.
InBounds ==
  /\ clock' <= MaxClock
  /\ \A p \in Providers : breaker[p].failureCount > MaxFailures => InFlight' \subseteq InFlight

MCNext == GatewayNext /\ InBounds

MCSpec == GatewayInit /\ [][MCNext]_gatewayVars
MCFairSpec == MCSpec /\ \A c \in Callers : WF_gatewayVars(Settle(c))
=============================================================================
