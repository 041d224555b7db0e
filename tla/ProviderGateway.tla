--------------------------- MODULE ProviderGateway ---------------------------
(***************************************************************************)
(* dispatch of provider-gateway.js: budget, circuit breaker, retries and a *)
(* fallback, for several calls at once.  A caller is a slot that makes one *)
(* dispatch after another (a request of the server, an agent of a squad).  *)
(* The code between two awaits is one action: a dispatch is interleaved    *)
(* with others only while an adapter is asked or a retry delay runs.       *)
(*                                                                         *)
(* The budget is the gateway's own tracker: the number of recorded calls,  *)
(* and whether tokens, cost or time are used up.  Both only ever grow.     *)
(***************************************************************************)
EXTENDS CircuitBreaker, FiniteSets

CONSTANTS
  Callers,
  Registered,        \* the providers the registry knows
  MaxRetries,        \* retries of the first provider (defaultMaxRetries)
  MaxCalls,          \* maxCalls of the budget tracker
  None               \* no fallback provider

ASSUME GatewayAssumption ==
  /\ IsFiniteSet(Callers) /\ Callers # {}
  /\ Registered \subseteq Providers
  /\ MaxRetries \in Nat /\ MaxCalls \in Nat
  /\ None \notin Providers

VARIABLES
  callCount, exhausted,   \* the budget tracker
  pc,                     \* where each caller is
  call                    \* the dispatch each caller is making

gatewayVars == <<breakerVars, callCount, exhausted, pc, call>>

Call ==
  [target: Providers \cup {None},        \* the provider that is being asked
   fallback: Providers \cup {None},
   second: BOOLEAN,                      \* is it the fallback trigger's turn?
   attempts: (0 .. (MaxRetries + 1)) \cup (0 .. 2),
   asked: [Providers -> Nat],            \* how often it asked whom (history)
   probe: BOOLEAN]                       \* launched on a half open circuit (history)

NoCall == [target |-> None, fallback |-> None, second |-> FALSE, attempts |-> 0,
           asked |-> [p \in Providers |-> 0], probe |-> FALSE]

GatewayInit ==
  /\ Init
  /\ callCount = 0 /\ exhausted = FALSE
  /\ pc = [c \in Callers |-> "idle"]
  /\ call = [c \in Callers |-> NoCall]

InFlight == {c \in Callers : pc[c] # "idle"}

\* checkBudget.
AllowedOneMore == ~exhausted /\ callCount <= MaxCalls
BudgetAllows == ~exhausted /\ callCount + 1 <= MaxCalls

\* The attempts of _executeWithRetry: the fallback is retried once.
MaxAttempts(d) == IF d.second THEN 2 ELSE MaxRetries + 1

\* dispatch returns: SUCCESS, FAILED or TIMEOUT.
End(c) ==
  /\ pc' = [pc EXCEPT ![c] = "idle"]
  /\ call' = [call EXCEPT ![c] = NoCall]

\* _executeWithRetry is called for provider p, whose entry is now e.
Ask(c, d, p, second, e) ==
  /\ pc' = [pc EXCEPT ![c] = "asking"]
  /\ call' = [call EXCEPT ![c] =
       [d EXCEPT !.target = p, !.second = second, !.attempts = 1,
                 !.asked[p] = @ + 1, !.probe = e.state = "HALF_OPEN"]]

KeepBudget == UNCHANGED <<callCount, exhausted>>

-----------------------------------------------------------------------------
(* dispatch up to its first await *)

\* The circuit of the first provider is looked at, and that of the fallback only
\* if it is open; each look may make an open circuit half open.  If the budget
\* or the circuits do not allow the call, dispatch returns and changes nothing.
Dispatch(c, p, f) ==
  LET first == Refreshed(breaker[p], clock)
      other == Refreshed(breaker[f], clock)
      d == [NoCall EXCEPT !.fallback = f]
  IN /\ c \notin InFlight
     /\ BudgetAllows
     /\ \/ /\ CanExecute(breaker[p], clock)
           /\ Update(p, first)
           /\ Ask(c, d, p, FALSE, first)
        \/ /\ ~CanExecute(breaker[p], clock)
           /\ f # None
           /\ CanExecute(breaker[f], clock)
           /\ Update(f, other)
           /\ Ask(c, d, f, FALSE, other)
     /\ UNCHANGED clock /\ KeepBudget

-----------------------------------------------------------------------------
(* An adapter settles *)

\* The answer is normalised, the success and its usage are recorded.  The usage
\* may take tokens or cost over their limit.
Answers(c) ==
  /\ pc[c] = "asking" /\ call[c].target \in Registered
  /\ RecordSuccess(call[c].target)
  /\ callCount' = callCount + 1
  /\ exhausted' \in {exhausted, TRUE}
  /\ End(c)

\* A time-out, a rate limit or a server error, with a retry left.
FailsForNow(c) ==
  /\ pc[c] = "asking" /\ call[c].target \in Registered
  /\ call[c].attempts < MaxAttempts(call[c])
  /\ pc' = [pc EXCEPT ![c] = "waiting"]
  /\ UNCHANGED <<breakerVars, call>> /\ KeepBudget

RetryUncounted(c) ==
  /\ pc[c] = "waiting"
  /\ pc' = [pc EXCEPT ![c] = "asking"]
  /\ UNCHANGED <<breakerVars, call>> /\ KeepBudget
\* The delay is over.  Neither the circuit nor the budget is looked at again.
Retry(c) ==
  /\ pc[c] = "waiting"
  /\ pc' = [pc EXCEPT ![c] = "asking"]
  /\ call' = [call EXCEPT ![c].attempts = @ + 1,
                            ![c].asked[call[c].target] = @ + 1]
  /\ UNCHANGED breakerVars /\ KeepBudget

\* The provider is unknown, the error is not transient (a client error, missing
\* credentials, an answer that is no object), or no retry is left.  The failure
\* is recorded, and the fallback is asked unless it is the provider that failed.
SelfFallback(c) ==
  LET d == call[c]
      failed == [breaker EXCEPT ![d.target] = Failure(@, clock)]
  IN /\ pc[c] = "asking"
     /\ IF d.fallback # None /\ ~d.second /\ CanExecute(failed[d.fallback], clock)
        THEN LET e == Refreshed(failed[d.fallback], clock)
             IN /\ breaker' = [failed EXCEPT ![d.fallback] = e]
                /\ Ask(c, d, d.fallback, TRUE, e)
        ELSE breaker' = failed /\ End(c)
     /\ UNCHANGED clock /\ KeepBudget
Fails(c) ==
  LET d == call[c]
      failed == [breaker EXCEPT ![d.target] = Failure(@, clock)]
  IN /\ pc[c] = "asking"
     /\ IF /\ ~d.second /\ d.fallback \notin {None, d.target}
           /\ CanExecute(failed[d.fallback], clock)
        THEN LET e == Refreshed(failed[d.fallback], clock)
             IN /\ breaker' = [failed EXCEPT ![d.fallback] = e]
                /\ Ask(c, d, d.fallback, TRUE, e)
        ELSE breaker' = failed /\ End(c)
     /\ UNCHANGED clock /\ KeepBudget

-----------------------------------------------------------------------------
\* The routing engine or the health monitor reads the state of a circuit.
Inspect(p) == Look(p) /\ UNCHANGED <<pc, call>> /\ KeepBudget

ClockTicks == Tick /\ UNCHANGED <<pc, call>> /\ KeepBudget

\* The elapsed-time limit of the tracker passes.
BudgetExpires ==
  /\ ~exhausted /\ exhausted' = TRUE
  /\ UNCHANGED <<breakerVars, callCount, pc, call>>

Settle(c) == Answers(c) \/ FailsForNow(c) \/ Retry(c) \/ Fails(c)

GatewayNext ==
  \/ \E c \in Callers :
       \/ Settle(c)
       \/ \E p \in Providers, f \in Providers \cup {None} : Dispatch(c, p, f)
  \/ \E p \in Providers : Inspect(p)
  \/ ClockTicks \/ BudgetExpires

GatewaySpec == GatewayInit /\ [][GatewayNext]_gatewayVars

\* Adapters answer or are aborted by their time-out, and timers fire.
GatewayFairSpec == GatewaySpec /\ \A c \in Callers : WF_gatewayVars(Settle(c))

-----------------------------------------------------------------------------
GatewayTypeOK ==
  /\ TypeOK
  /\ callCount \in Nat /\ exhausted \in BOOLEAN
  /\ pc \in [Callers -> {"idle", "asking", "waiting"}]
  /\ call \in [Callers -> Call]

\* The budget is checked before an await and counted after it: concurrent
\* dispatches exceed maxCalls, but by no more than the other callers in flight.
OvershootBounded ==
  callCount + Cardinality(InFlight) <= MaxCalls + Cardinality(Callers) - 1

\* Nobody is asked more often than the retries allow in one dispatch, in both
\* turns together, also when an open circuit had made the fallback the first
\* provider to be asked.
AsksBounded ==
  \A c \in Callers, p \in Providers :
    call[c].asked[p] <= IF call[c].second /\ call[c].target = p THEN 2 ELSE MaxRetries + 1

\* A circuit stays open for its whole cooldown while calls that were launched
\* before it opened keep returning.
CooldownIsKept == [][\A p \in Providers : StaysOpen(p)]_breaker

\* Every dispatch ends, after the retries of two providers at most.
DispatchEnds == \A c \in Callers : c \in InFlight ~> c \notin InFlight
=============================================================================
