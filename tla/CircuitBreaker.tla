--------------------------- MODULE CircuitBreaker ---------------------------
(***************************************************************************)
(* circuit-breaker.js: one entry per provider.  Failures in a row open the *)
(* circuit; after a cooldown the next look at it (and only a look) makes   *)
(* it half open; the next recorded result then closes or reopens it.       *)
(*                                                                         *)
(* A method is an operator on an entry, so that the gateway can use it in  *)
(* an action of its own.  The state machine lets any client call them in   *)
(* any order: results arrive when calls end, not when they were admitted.  *)
(***************************************************************************)
EXTENDS Naturals

CONSTANTS Providers,
          Threshold,   \* failureThreshold
          Cooldown     \* cooldownMs

ASSUME BreakerAssumption == Threshold \in Nat \ {0} /\ Cooldown \in Nat

\* streak: the results of the provider that were failures, since the last one
\* that was a success (history of the model).
Entry == [state: {"CLOSED", "OPEN", "HALF_OPEN"}, failureCount: Nat,
          openedAt: Nat, streak: Nat]

Closed == [state |-> "CLOSED", failureCount |-> 0, openedAt |-> 0, streak |-> 0]

\* getState: reading an OPEN entry whose cooldown is over moves it.
Refreshed(e, now) ==
  IF e.state = "OPEN" /\ now - e.openedAt >= Cooldown
  THEN [e EXCEPT !.state = "HALF_OPEN"] ELSE e

CanExecute(e, now) == Refreshed(e, now).state # "OPEN"

\* recordSuccess; in OPEN it changes nothing.
Success(e) ==
  CASE e.state = "HALF_OPEN" -> Closed
    [] e.state = "CLOSED"    -> [e EXCEPT !.failureCount = 0, !.streak = 0]
    [] e.state = "OPEN"      -> [e EXCEPT !.streak = 0]

Failed(e) == [e EXCEPT !.failureCount = @ + 1, !.streak = @ + 1]
Opened(e, now) == [e EXCEPT !.state = "OPEN", !.openedAt = now]

FailureAboveThreshold(e, now) ==
  IF \/ e.state = "HALF_OPEN"
     \/ e.state = "CLOSED" /\ e.failureCount + 1 > Threshold
  THEN Opened(Failed(e), now) ELSE Failed(e)
FailureRestarts(e, now) == Opened(Failed(e), now)
\* recordFailure; in OPEN it counts but does not restart the cooldown.
Failure(e, now) ==
  IF \/ e.state = "HALF_OPEN"
     \/ e.state = "CLOSED" /\ e.failureCount + 1 >= Threshold
  THEN Opened(Failed(e), now) ELSE Failed(e)

-----------------------------------------------------------------------------
VARIABLES clock, breaker

breakerVars == <<clock, breaker>>

Init == clock = 0 /\ breaker = [p \in Providers |-> Closed]

Update(p, e) == breaker' = [breaker EXCEPT ![p] = e]

\* canExecute, getState, getStatus, getAllStates: the routing engine and the
\* health monitor look at every provider.
Look(p) == Update(p, Refreshed(breaker[p], clock)) /\ UNCHANGED clock
RecordSuccess(p) == Update(p, Success(breaker[p])) /\ UNCHANGED clock
RecordFailure(p) == Update(p, Failure(breaker[p], clock)) /\ UNCHANGED clock
Reset(p) == Update(p, Closed) /\ UNCHANGED clock
Tick == clock' = clock + 1 /\ UNCHANGED breaker

Next ==
  \/ Tick
  \/ \E p \in Providers : Look(p) \/ RecordSuccess(p) \/ RecordFailure(p) \/ Reset(p)

Spec == Init /\ [][Next]_breakerVars

-----------------------------------------------------------------------------
TypeOK == clock \in Nat /\ breaker \in [Providers -> Entry]

\* A closed circuit is below the threshold, and what it counts is failures in a
\* row, whatever late results were recorded while it was open or half open.
CountsFailuresInARow ==
  \A p \in Providers : breaker[p].state = "CLOSED" =>
    /\ breaker[p].failureCount < Threshold
    /\ breaker[p].failureCount = breaker[p].streak

StaysOpen(p) ==
  breaker[p].state = "OPEN" /\ clock - breaker[p].openedAt < Cooldown
    => breaker'[p].state = "OPEN" /\ breaker'[p].openedAt = breaker[p].openedAt

\* A circuit stays open for its whole cooldown, however many late results are
\* recorded: only a reset closes it before.
OnlyResetCutsCooldown ==
  [][\A p \in Providers :
       Look(p) \/ RecordSuccess(p) \/ RecordFailure(p) => StaysOpen(p)]_breaker
=============================================================================
