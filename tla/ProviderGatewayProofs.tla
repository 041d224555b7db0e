----------------------- MODULE ProviderGatewayProofs -----------------------
(***************************************************************************)
(* The safety properties of the gateway, for any number of callers and     *)
(* providers and any thresholds.  A step of the gateway changes the entry  *)
(* of a provider by at most one breaker method (EntriesStep), so what each *)
(* method keeps of one entry is what the gateway keeps of all of them.     *)
(***************************************************************************)
EXTENDS ProviderGateway, FiniteSetTheorems, TLAPS

USE BreakerAssumption, GatewayAssumption

\* What one method of the breaker, or none, makes of an entry.
Outcomes(e, now) == {e, Refreshed(e, now), Success(e), Failure(e, now)}

Counted(e) ==
  e.state = "CLOSED" => e.failureCount < Threshold /\ e.failureCount = e.streak

\* What can become of an entry of the breaker in one step is an entry.
LEMMA OutcomesTyped ==
  ASSUME NEW e \in Entry, NEW now \in Nat, NEW x \in Outcomes(e, now)
  PROVE  x \in Entry
<1>1. Refreshed(e, now) \in Entry
  BY DEF Refreshed, Entry
<1>2. Success(e) \in Entry
  BY DEF Success, Closed, Entry
<1>3. Failure(e, now) \in Entry
  <2> DEFINE a == [e EXCEPT !.failureCount = e.failureCount + 1]
             b == [a EXCEPT !.streak = e.streak + 1]
  <2>a. a \in Entry
    BY DEF Entry
  <2>b. b \in Entry
    <3> HIDE DEF a
    <3> QED  BY <2>a DEF Entry
  <2>1. Failed(e) \in Entry
    BY <2>b DEF Failed
  <2>2. Opened(Failed(e), now) \in Entry
    BY <2>1 DEF Opened, Entry
  <2> QED  BY <2>1, <2>2 DEF Failure
<1> QED  BY <1>1, <1>2, <1>3 DEF Outcomes

LEMMA OutcomesCounted ==
  ASSUME NEW e \in Entry, NEW now \in Nat, NEW x \in Outcomes(e, now), Counted(e)
  PROVE  Counted(x)
<1>1. Counted(Refreshed(e, now))
  BY DEF Counted, Refreshed, Entry
<1>2. Counted(Success(e))
  BY DEF Counted, Success, Closed, Entry
<1>3. Counted(Failure(e, now))
  <2>1. CASE Failure(e, now) = Opened(Failed(e), now)
    BY <2>1 DEF Counted, Opened, Failed, Entry
  <2>2. CASE /\ Failure(e, now) = Failed(e)
             /\ ~(e.state = "CLOSED" /\ e.failureCount + 1 >= Threshold)
    BY <2>2 DEF Counted, Failed, Entry
  <2> QED  BY <2>1, <2>2 DEF Failure
<1> QED  BY <1>1, <1>2, <1>3 DEF Outcomes

LEMMA OutcomesStayOpen ==
  ASSUME NEW e \in Entry, NEW now \in Nat, NEW x \in Outcomes(e, now),
         e.state = "OPEN", now - e.openedAt < Cooldown
  PROVE  x.state = "OPEN" /\ x.openedAt = e.openedAt
<1>1. Refreshed(e, now) = e
  BY DEF Refreshed, Entry
<1>2. Success(e).state = "OPEN" /\ Success(e).openedAt = e.openedAt
  BY DEF Success, Entry
<1>3. Failure(e, now) = Failed(e)
  BY DEF Failure, Entry
<1>4. Failed(e).state = "OPEN" /\ Failed(e).openedAt = e.openedAt
  BY DEF Failed, Entry
<1> QED  BY <1>1, <1>2, <1>3, <1>4 DEF Outcomes

-----------------------------------------------------------------------------
(* One step of the gateway *)

\* What the attempts of a dispatch have to do with whom it asked: in its first
\* turn only the target, in its second the fallback at most twice.
Bookkept(at, d) ==
  /\ at = "idle" => d = NoCall
  /\ at # "idle" =>
       /\ d.target \in Providers
       /\ d.asked[d.target] = d.attempts /\ d.attempts <= MaxAttempts(d)
       /\ \A p \in Providers \ {d.target} :
            d.asked[p] <= IF d.second THEN MaxRetries + 1 ELSE 0
  /\ at = "waiting" => d.attempts < MaxAttempts(d)

GInv ==
  /\ GatewayTypeOK
  /\ \A p \in Providers : Counted(breaker[p])
  /\ \A c \in Callers : Bookkept(pc[c], call[c])
  /\ OvershootBounded

\* The entries after a step.
EntriesStep ==
  /\ DOMAIN breaker' = Providers
  /\ breaker' = [p \in Providers |-> breaker'[p]]
  /\ \A p \in Providers : breaker'[p] \in Outcomes(breaker[p], clock)

LEMMA StepOfEntries ==
  ASSUME GInv, [GatewayNext]_gatewayVars
  PROVE  EntriesStep
<1> USE DEF EntriesStep, Outcomes
<1>t. breaker \in [Providers -> Entry]
  BY DEF GInv, GatewayTypeOK, TypeOK
<1>1. CASE UNCHANGED breaker
  BY <1>1, <1>t
<1>2. ASSUME NEW c \in Callers, NEW p \in Providers, NEW f \in Providers \cup {None},
             Dispatch(c, p, f)
      PROVE  EntriesStep
  BY <1>2, <1>t DEF Dispatch, Update
<1>3. ASSUME NEW c \in Callers, Answers(c)
      PROVE  EntriesStep
  BY <1>3, <1>t DEF Answers, RecordSuccess, Update
<1>4. ASSUME NEW c \in Callers, Fails(c)
      PROVE  EntriesStep
  BY <1>4, <1>t DEF Fails
<1>5. ASSUME NEW p \in Providers, Inspect(p)
      PROVE  EntriesStep
  BY <1>5, <1>t DEF Inspect, Look, Update
<1>6. ASSUME NEW c \in Callers, FailsForNow(c) \/ Retry(c)
      PROVE  UNCHANGED breaker
  BY <1>6 DEF FailsForNow, Retry, breakerVars
<1>7. ClockTicks \/ BudgetExpires => UNCHANGED breaker
  BY DEF ClockTicks, BudgetExpires, Tick, breakerVars
<1>8. UNCHANGED gatewayVars => UNCHANGED breaker
  BY DEF gatewayVars, breakerVars
<1> QED  BY <1>1, <1>2, <1>3, <1>4, <1>5, <1>6, <1>7, <1>8 DEF GatewayNext, Settle

-----------------------------------------------------------------------------
(* What a step does to the dispatch of a caller *)

\* The attempts of a dispatch end in Call's range.
LEMMA AttemptsTyped ==
  ASSUME NEW d, d.second \in BOOLEAN, NEW n \in Nat, n <= MaxAttempts(d)
  PROVE  n \in (0 .. (MaxRetries + 1)) \cup (0 .. 2)
BY DEF MaxAttempts

\* The record Ask builds.
AskedCall(d, p, second, probe) ==
  [d EXCEPT !.target = p, !.second = second, !.attempts = 1,
            !.asked[p] = @ + 1, !.probe = probe]

LEMMA Asked ==
  ASSUME NEW d \in Call, NEW p \in Providers, NEW second \in BOOLEAN,
         NEW probe \in BOOLEAN, NEW x, x = AskedCall(d, p, second, probe)
  PROVE  /\ x \in Call
         /\ x.target = p /\ x.second = second /\ x.attempts = 1
         /\ x.asked = [d.asked EXCEPT ![p] = @ + 1]
<1> DEFINE a == [d EXCEPT !.target = p]
           b == [a EXCEPT !.second = second]
           u == [b EXCEPT !.attempts = 1]
           v == [u EXCEPT !.asked = [d.asked EXCEPT ![p] = @ + 1]]
           w == [v EXCEPT !.probe = probe]
<1>0. [d.asked EXCEPT ![p] = @ + 1] \in [Providers -> Nat]
  BY DEF Call
<1>1. a \in Call /\ a.target = p /\ a.asked = d.asked
  BY DEF Call
<1>2. b \in Call /\ b.target = p /\ b.second = second /\ b.asked = d.asked
  <2> HIDE DEF a
  <2> QED  BY <1>1 DEF Call
<1>3. u \in Call /\ u.target = p /\ u.second = second /\ u.attempts = 1
      /\ u.asked = d.asked
  <2> HIDE DEF b
  <2> QED  BY <1>2 DEF Call
<1>4. v \in Call /\ v.target = p /\ v.second = second /\ v.attempts = 1
      /\ v.asked = [d.asked EXCEPT ![p] = @ + 1]
  <2> HIDE DEF u
  <2> QED  BY <1>0, <1>3 DEF Call
<1>5. w \in Call /\ w.target = p /\ w.second = second /\ w.attempts = 1
      /\ w.asked = [d.asked EXCEPT ![p] = @ + 1]
  <2> HIDE DEF v
  <2> QED  BY <1>4 DEF Call
<1>6. x = w
  BY DEF Call, AskedCall
<1> QED  BY <1>5, <1>6

CallsTyped ==
  /\ pc \in [Callers -> {"idle", "asking", "waiting"}]
  /\ call \in [Callers -> Call]
  /\ \A c \in Callers : Bookkept(pc[c], call[c])

LEMMA OneCaller ==
  ASSUME CallsTyped, NEW c \in Callers, NEW at \in {"idle", "asking", "waiting"},
         NEW d \in Call, Bookkept(at, d),
         pc' = [pc EXCEPT ![c] = at], call' = [call EXCEPT ![c] = d]
  PROVE  CallsTyped'
<1>1. /\ pc' \in [Callers -> {"idle", "asking", "waiting"}]
      /\ call' \in [Callers -> Call]
  BY DEF CallsTyped
<1>2. ASSUME NEW k \in Callers
      PROVE  Bookkept(pc'[k], call'[k])
  <2>1. CASE k = c
    BY <2>1 DEF CallsTyped
  <2>2. CASE k # c
    BY <2>2 DEF CallsTyped
  <2> QED  BY <2>1, <2>2
<1> QED  BY <1>1, <1>2 DEF CallsTyped, Bookkept, MaxAttempts

LEMMA EndKept ==
  ASSUME CallsTyped, NEW c \in Callers, End(c)
  PROVE  CallsTyped'
<1>1. NoCall \in Call
  BY DEF NoCall, Call
<1>2. Bookkept("idle", NoCall)
  BY DEF Bookkept
<1> QED  BY <1>1, <1>2, OneCaller DEF End

\* The first turn starts from NoCall, the second from a call to someone else.
LEMMA AskKept ==
  ASSUME CallsTyped, NEW c \in Callers, NEW d \in Call, NEW p \in Providers,
         NEW second \in BOOLEAN, NEW e, Ask(c, d, p, second, e),
         \A q \in Providers : d.asked[q] <=
           IF q = p \/ ~second THEN 0 ELSE MaxRetries + 1
  PROVE  CallsTyped'
<1> DEFINE probe == e.state = "HALF_OPEN"
           x == AskedCall(d, p, second, probe)
<1>0. probe \in BOOLEAN
  OBVIOUS
<1>1. /\ x \in Call
      /\ x.target = p /\ x.second = second /\ x.attempts = 1
      /\ x.asked = [d.asked EXCEPT ![p] = @ + 1]
  <2> HIDE DEF probe
  <2> QED  BY <1>0, Asked
<1>2. pc' = [pc EXCEPT ![c] = "asking"] /\ call' = [call EXCEPT ![c] = x]
  BY DEF Ask, AskedCall
<1>3. Bookkept("asking", x)
  <2> HIDE DEF x
  <2>1. d.asked \in [Providers -> Nat]
    BY DEF Call
  <2>2. x.asked[p] = 1
    BY <1>1, <2>1
  <2>3. \A q \in Providers \ {p} : x.asked[q] = d.asked[q]
    BY <1>1, <2>1
  <2> QED  BY <1>1, <2>1, <2>2, <2>3 DEF Bookkept, MaxAttempts
<1> HIDE DEF x
<1> QED  BY <1>1, <1>2, <1>3, OneCaller

LEMMA RetryKept ==
  ASSUME CallsTyped, NEW c \in Callers, FailsForNow(c) \/ Retry(c)
  PROVE  CallsTyped'
<1> DEFINE d == call[c]
<1>t. d \in Call /\ Bookkept(pc[c], d)
  BY DEF CallsTyped
<1>1. CASE FailsForNow(c)
  <2>1. Bookkept("waiting", d)
    BY <1>1, <1>t DEF Bookkept, FailsForNow
  <2>2. call' = [call EXCEPT ![c] = d] /\ pc' = [pc EXCEPT ![c] = "waiting"]
    BY <1>1 DEF FailsForNow, CallsTyped
  <2> QED  BY <2>1, <2>2, <1>t, OneCaller
<1>2. CASE Retry(c)
  <2> DEFINE a == [d EXCEPT !.attempts = d.attempts + 1]
             f == [d.asked EXCEPT ![d.target] = @ + 1]
             x == [a EXCEPT !.asked = f]
  <2>0. /\ d.target \in Providers /\ d.attempts \in Nat /\ d.second \in BOOLEAN
        /\ d.asked \in [Providers -> Nat]
        /\ d.asked[d.target] = d.attempts
        /\ d.attempts + 1 <= MaxAttempts(d)
        /\ \A p \in Providers \ {d.target} :
             d.asked[p] <= IF d.second THEN MaxRetries + 1 ELSE 0
    BY <1>2, <1>t DEF Bookkept, Retry, Call, MaxAttempts
  <2>1. d.attempts + 1 \in (0 .. (MaxRetries + 1)) \cup (0 .. 2)
    BY <2>0, AttemptsTyped
  <2>2. /\ a \in Call /\ a.attempts = d.attempts + 1 /\ a.target = d.target
        /\ a.second = d.second /\ a.asked = d.asked
    BY <1>t, <2>1 DEF Call
  <2>3. f \in [Providers -> Nat]
    BY <2>0
  <2>4. /\ x \in Call /\ x.attempts = d.attempts + 1 /\ x.target = d.target
        /\ x.second = d.second /\ x.asked = f
    <3> HIDE DEF a, f
    <3> QED  BY <2>2, <2>3 DEF Call
  <2>5. Bookkept("asking", x)
    <3>1. f[d.target] = d.attempts + 1
      BY <2>0
    <3>2. \A p \in Providers \ {d.target} : f[p] = d.asked[p]
      BY <2>0
    <3> HIDE DEF x, f, d
    <3> QED  BY <2>0, <2>4, <3>1, <3>2 DEF Bookkept, MaxAttempts
  <2>6. call' = [call EXCEPT ![c] = x] /\ pc' = [pc EXCEPT ![c] = "asking"]
    BY <1>2, <1>t DEF Retry, CallsTyped, Call
  <2> HIDE DEF x
  <2> QED  BY <2>4, <2>5, <2>6, OneCaller
<1> QED  BY <1>1, <1>2

LEMMA StepOfCalls ==
  ASSUME GInv, [GatewayNext]_gatewayVars
  PROVE  CallsTyped'
<1>t. CallsTyped
  BY DEF GInv, GatewayTypeOK, CallsTyped
<1>1. ASSUME NEW c \in Callers, NEW p \in Providers, NEW f \in Providers \cup {None},
             Dispatch(c, p, f)
      PROVE  CallsTyped'
  <2> DEFINE d == [NoCall EXCEPT !.fallback = f]
  <2>1. d \in Call /\ \A q \in Providers : d.asked[q] <= 0
    <3>1. NoCall \in Call /\ NoCall.asked = [q \in Providers |-> 0]
      BY DEF NoCall, Call
    <3>2. d \in Call /\ d.asked = NoCall.asked
      BY <3>1 DEF Call
    <3> QED  BY <3>1, <3>2
  <2>0. PICK q \in Providers : \E e : Ask(c, d, q, FALSE, e)
    BY <1>1 DEF Dispatch
  <2>2. PICK e : Ask(c, d, q, FALSE, e)
    BY <2>0
  <2> HIDE DEF d
  <2>3. \A r \in Providers : d.asked[r] <= IF r = q \/ ~FALSE THEN 0 ELSE MaxRetries + 1
    BY <2>1
  <2> QED  BY <1>t, <2>1, <2>2, <2>3, AskKept
<1>2. ASSUME NEW c \in Callers, Answers(c)
      PROVE  CallsTyped'
  BY <1>t, <1>2, EndKept DEF Answers
<1>3. ASSUME NEW c \in Callers, Fails(c)
      PROVE  CallsTyped'
  <2> DEFINE d == call[c]
  <2>1. CASE End(c)
    BY <1>t, <2>1, EndKept
  <2>2. ASSUME NEW e, ~d.second, d.fallback \notin {None, d.target},
               Ask(c, d, d.fallback, TRUE, e)
        PROVE  CallsTyped'
    <3>1. d \in Call /\ d.fallback \in Providers /\ d.second = FALSE
      BY <1>t, <2>2 DEF CallsTyped, Call
    <3>2. \A q \in Providers : d.asked[q] <=
             IF q = d.fallback \/ ~TRUE THEN 0 ELSE MaxRetries + 1
      <4>1. Bookkept("asking", d) /\ d.asked \in [Providers -> Nat]
        BY <1>3, <1>t, <3>1 DEF Fails, CallsTyped, Call
      <4> HIDE DEF d
      <4>2. d.asked[d.target] <= MaxRetries + 1
        BY <3>1, <4>1 DEF Bookkept, MaxAttempts
      <4>3. \A q \in Providers \ {d.target} : d.asked[q] <= 0
        BY <3>1, <4>1 DEF Bookkept
      <4>4. \A q \in Providers : d.asked[q] <= MaxRetries + 1
        BY <4>1, <4>2, <4>3
      <4> QED  BY <2>2, <3>1, <4>3, <4>4
    <3> HIDE DEF d
    <3> QED  BY <1>t, <2>2, <3>1, <3>2, AskKept
  <2> QED  BY <1>3, <2>1, <2>2 DEF Fails
<1>4. ASSUME NEW c \in Callers, FailsForNow(c) \/ Retry(c)
      PROVE  CallsTyped'
  BY <1>t, <1>4, RetryKept
<1>5. CASE UNCHANGED <<pc, call>>
  BY <1>t, <1>5 DEF CallsTyped
<1>6. (\E p \in Providers : Inspect(p)) \/ ClockTicks \/ BudgetExpires => UNCHANGED <<pc, call>>
  BY DEF Inspect, ClockTicks, BudgetExpires
<1>7. UNCHANGED gatewayVars => UNCHANGED <<pc, call>>
  BY DEF gatewayVars
<1> QED  BY <1>1, <1>2, <1>3, <1>4, <1>5, <1>6, <1>7 DEF GatewayNext, Settle

-----------------------------------------------------------------------------
(* The budget *)

\* Whoever is admitted finds room for one recorded call more, and at most the
\* other callers are in flight then; whoever records a call ends.
LEMMA StepOfBudget ==
  ASSUME GInv, [GatewayNext]_gatewayVars
  PROVE  callCount' \in Nat /\ OvershootBounded'
<1>t. /\ pc \in [Callers -> {"idle", "asking", "waiting"}]
      /\ callCount \in Nat
  BY DEF GInv, GatewayTypeOK
<1>f. /\ IsFiniteSet(InFlight) /\ Cardinality(InFlight) \in Nat
      /\ Cardinality(Callers) \in Nat
  BY FS_Subset, FS_CardinalityType DEF InFlight
<1>o. callCount + Cardinality(InFlight) <= MaxCalls + Cardinality(Callers) - 1
  BY DEF GInv, OvershootBounded
<1>1. CASE callCount' = callCount /\ InFlight' = InFlight
  BY <1>1, <1>t, <1>o DEF OvershootBounded
<1>2. ASSUME NEW c \in Callers, NEW p \in Providers, NEW f \in Providers \cup {None},
             Dispatch(c, p, f)
      PROVE  callCount' \in Nat /\ OvershootBounded'
  <2>1. callCount + 1 <= MaxCalls /\ callCount' = callCount /\ c \notin InFlight
    BY <1>2 DEF Dispatch, BudgetAllows, KeepBudget
  <2>2. InFlight' = InFlight \cup {c}
    BY <1>2, <1>t DEF Dispatch, Ask, InFlight
  <2>3. InFlight \subseteq Callers /\ InFlight # Callers
    BY <2>1 DEF InFlight
  <2>4. Cardinality(InFlight) <= Cardinality(Callers) - 1
    BY <1>f, <2>3, FS_Subset
  <2>5. Cardinality(InFlight') = Cardinality(InFlight) + 1
    BY <1>f, <2>1, <2>2, FS_AddElement
  <2> QED  BY <1>t, <1>f, <2>1, <2>4, <2>5 DEF OvershootBounded
<1>3. ASSUME NEW c \in InFlight, InFlight' = InFlight \ {c},
             callCount' \in {callCount, callCount + 1}
      PROVE  callCount' \in Nat /\ OvershootBounded'
  <2>1. Cardinality(InFlight') = Cardinality(InFlight) - 1
    BY <1>f, <1>3, FS_RemoveElement
  <2> QED  BY <1>t, <1>f, <1>o, <1>3, <2>1 DEF OvershootBounded
<1>4. ASSUME NEW c \in Callers, Answers(c)
      PROVE  callCount' \in Nat /\ OvershootBounded'
  <2>1. c \in InFlight /\ InFlight' = InFlight \ {c} /\ callCount' = callCount + 1
    BY <1>4, <1>t DEF Answers, End, InFlight
  <2> QED  BY <1>3, <2>1
<1>5. ASSUME NEW c \in Callers, Fails(c)
      PROVE  callCount' \in Nat /\ OvershootBounded'
  <2>1. c \in InFlight /\ callCount' = callCount
    BY <1>5 DEF Fails, KeepBudget, InFlight
  <2>2. InFlight' = InFlight \/ InFlight' = InFlight \ {c}
    BY <1>5, <1>t DEF Fails, End, Ask, InFlight
  <2> QED  BY <1>1, <1>3, <2>1, <2>2
<1>6. ASSUME NEW c \in Callers, FailsForNow(c) \/ Retry(c)
      PROVE  callCount' = callCount /\ InFlight' = InFlight
  BY <1>6, <1>t DEF FailsForNow, Retry, KeepBudget, InFlight
<1>7. (\E p \in Providers : Inspect(p)) \/ ClockTicks \/ BudgetExpires
        \/ UNCHANGED gatewayVars
      => callCount' = callCount /\ InFlight' = InFlight
  BY DEF Inspect, ClockTicks, BudgetExpires, gatewayVars, KeepBudget, InFlight
<1> QED  BY <1>1, <1>2, <1>4, <1>5, <1>6, <1>7 DEF GatewayNext, Settle

-----------------------------------------------------------------------------
(* The invariant *)

LEMMA GInvInit == GatewayInit => GInv
<1> SUFFICES ASSUME GatewayInit PROVE GInv
  OBVIOUS
<1>1. /\ clock = 0 /\ breaker = [p \in Providers |-> Closed]
      /\ callCount = 0 /\ exhausted = FALSE
      /\ pc = [c \in Callers |-> "idle"] /\ call = [c \in Callers |-> NoCall]
  BY DEF GatewayInit, Init
<1>2. Closed \in Entry /\ NoCall \in Call /\ Counted(Closed) /\ Bookkept("idle", NoCall)
  BY DEF Closed, Entry, NoCall, Call, Counted, Bookkept
<1>3. GatewayTypeOK
  BY <1>1, <1>2 DEF GatewayTypeOK, TypeOK
<1>4. OvershootBounded
  <2>1. InFlight = {}
    BY <1>1 DEF InFlight
  <2>2. Cardinality(InFlight) = 0 /\ Cardinality(Callers) \in Nat /\ Cardinality(Callers) # 0
    BY <2>1, FS_EmptySet, FS_CardinalityType
  <2> QED  BY <1>1, <2>2 DEF OvershootBounded
<1> QED  BY <1>1, <1>2, <1>3, <1>4 DEF GInv

\* Every step of the gateway keeps it.
LEMMA GInvNext == GInv /\ [GatewayNext]_gatewayVars => GInv'
<1> SUFFICES ASSUME GInv, [GatewayNext]_gatewayVars PROVE GInv'
  OBVIOUS
<1>t. breaker \in [Providers -> Entry] /\ clock \in Nat /\ exhausted \in BOOLEAN
  BY DEF GInv, GatewayTypeOK, TypeOK
<1>1. EntriesStep /\ CallsTyped' /\ callCount' \in Nat /\ OvershootBounded'
  BY StepOfEntries, StepOfCalls, StepOfBudget
<1>2. \A p \in Providers : breaker'[p] \in Entry /\ Counted(breaker'[p])
  BY <1>1, <1>t, OutcomesTyped, OutcomesCounted DEF EntriesStep, GInv
<1>3. breaker' \in [Providers -> Entry]
  BY <1>1, <1>2 DEF EntriesStep
<1>4. clock' \in Nat /\ exhausted' \in BOOLEAN
  <2>1. ASSUME NEW c \in Callers, Settle(c)
        PROVE  clock' = clock /\ exhausted' \in BOOLEAN
    BY <1>t, <2>1 DEF Settle, Answers, FailsForNow, Retry, Fails, breakerVars, KeepBudget,
       RecordSuccess
  <2>2. ASSUME NEW c \in Callers, NEW p \in Providers, NEW f \in Providers \cup {None},
               Dispatch(c, p, f)
        PROVE  clock' = clock /\ exhausted' = exhausted
    BY <2>2 DEF Dispatch, KeepBudget
  <2>3. ASSUME NEW p \in Providers, Inspect(p)
        PROVE  clock' = clock /\ exhausted' = exhausted
    BY <2>3 DEF Inspect, Look, KeepBudget
  <2>4. CASE ClockTicks
    <3>1. clock' = clock + 1 /\ exhausted' = exhausted
      BY <2>4 DEF ClockTicks, Tick, KeepBudget
    <3> QED  BY <1>t, <3>1
  <2>6. CASE BudgetExpires
    <3>1. clock' = clock /\ exhausted' = TRUE
      BY <2>6 DEF BudgetExpires, breakerVars
    <3> QED  BY <1>t, <3>1
  <2>5. CASE UNCHANGED gatewayVars
    BY <1>t, <2>5 DEF gatewayVars, breakerVars
  <2> QED  BY <1>t, <2>1, <2>2, <2>3, <2>4, <2>5, <2>6 DEF GatewayNext
<1>5. GatewayTypeOK'
  BY <1>1, <1>3, <1>4 DEF GatewayTypeOK, TypeOK, CallsTyped
<1> QED  BY <1>1, <1>2, <1>5 DEF GInv, CallsTyped, Counted

\* The invariant of the gateway always holds.
THEOREM GatewayInvariant == GatewaySpec => []GInv
BY GInvInit, GInvNext, PTL DEF GatewaySpec

\* The variables keep their types, the attempts of a dispatch their bound.
THEOREM GatewayTyped == GatewaySpec => []GatewayTypeOK
<1>1. GInv => GatewayTypeOK
  BY DEF GInv
<1> QED  BY <1>1, GatewayInvariant, PTL

\* maxCalls is exceeded by fewer calls than there are callers.
THEOREM Overshoot == GatewaySpec => []OvershootBounded
<1>1. GInv => OvershootBounded
  BY DEF GInv
<1> QED  BY <1>1, GatewayInvariant, PTL

\* A closed circuit counts the failures in a row.
THEOREM FailuresCounted == GatewaySpec => []CountsFailuresInARow
<1>1. GInv => CountsFailuresInARow
  BY DEF GInv, CountsFailuresInARow, Counted
<1> QED  BY <1>1, GatewayInvariant, PTL

\* No dispatch asks a provider more often than its retries.
THEOREM Asks == GatewaySpec => []AsksBounded
<1>1. ASSUME GInv
      PROVE  AsksBounded
  <2> SUFFICES ASSUME NEW c \in Callers, NEW p \in Providers
               PROVE  call[c].asked[p] <= IF call[c].second /\ call[c].target = p
                                          THEN 2 ELSE MaxRetries + 1
    BY DEF AsksBounded
  <2>1. Bookkept(pc[c], call[c]) /\ call[c] \in Call
    BY <1>1 DEF GInv, GatewayTypeOK
  <2>2. CASE call[c] = NoCall
    BY <2>2 DEF NoCall
  <2>3. CASE pc[c] # "idle"
    BY <2>1, <2>3 DEF Bookkept, MaxAttempts, Call
  <2> QED  BY <2>1, <2>2, <2>3 DEF Bookkept
<1> QED  BY <1>1, GatewayInvariant, PTL

\* An open circuit stays open for its cooldown, whatever late results arrive.
THEOREM CooldownKept == GatewaySpec => CooldownIsKept
<1>1. ASSUME GInv, [GatewayNext]_gatewayVars
      PROVE  [\A p \in Providers : StaysOpen(p)]_breaker
  <2>1. EntriesStep /\ breaker \in [Providers -> Entry] /\ clock \in Nat
    BY <1>1, StepOfEntries DEF GInv, GatewayTypeOK, TypeOK
  <2> QED  BY <2>1, OutcomesStayOpen DEF EntriesStep, StaysOpen
<1> QED  BY <1>1, GatewayInvariant, PTL DEF GatewaySpec, CooldownIsKept

-----------------------------------------------------------------------------
(* How far a dispatch is from its end *)

\* Two steps for every attempt that is left in this turn, and four more for the turn of
\* the fallback.
StepsLeft(at, d) ==
  IF at = "idle" THEN 0
  ELSE (IF d.second THEN 0 ELSE 4) + 2 * (MaxAttempts(d) - d.attempts)
         + (IF at = "asking" THEN 2 ELSE 1)
Left(c) == StepsLeft(pc[c], call[c])

\* Nobody else puts a dispatch off, and each of its own steps brings it nearer.
Nearer(c) ==
  c \in InFlight => Left(c)' <= Left(c) /\ (Settle(c) => Left(c)' < Left(c))

LEMMA LeftTyped ==
  ASSUME NEW at \in {"idle", "asking", "waiting"}, NEW d \in Call, Bookkept(at, d)
  PROVE  /\ StepsLeft(at, d) \in Nat
         /\ at = "asking" => StepsLeft(at, d) >= 2 /\ (~d.second => StepsLeft(at, d) >= 6)
<1>1. d.attempts \in Nat /\ MaxAttempts(d) \in Nat
  BY DEF Call, MaxAttempts
<1>2. at # "idle" => d.attempts <= MaxAttempts(d)
  BY DEF Bookkept
<1> DEFINE n == d.attempts
           m == MaxAttempts(d)
<1>3. StepsLeft(at, d) = IF at = "idle" THEN 0
        ELSE (IF d.second THEN 0 ELSE 4) + 2 * (m - n) + (IF at = "asking" THEN 2 ELSE 1)
  BY DEF StepsLeft
<1>4. n \in Nat /\ m \in Nat /\ (at # "idle" => n <= m)
  BY <1>1, <1>2
<1> HIDE DEF n, m
<1> QED  BY <1>3, <1>4

\* The step that ends a turn.
LEMMA AskedLeft ==
  ASSUME NEW c \in Callers, NEW d \in Call, NEW p \in Providers, NEW second \in BOOLEAN,
         NEW e,
         pc \in [Callers -> {"idle", "asking", "waiting"}], call \in [Callers -> Call],
         Ask(c, d, p, second, e)
  PROVE  second => Left(c)' = 4
<1> DEFINE probe == e.state = "HALF_OPEN"
           x == AskedCall(d, p, second, probe)
<1>0. probe \in BOOLEAN
  OBVIOUS
<1>1. /\ x \in Call
      /\ x.target = p /\ x.second = second /\ x.attempts = 1
      /\ x.asked = [d.asked EXCEPT ![p] = @ + 1]
  <2> HIDE DEF probe
  <2> QED  BY <1>0, Asked
<1>2. pc'[c] = "asking" /\ call'[c] = x
  BY DEF Ask, AskedCall
<1> HIDE DEF x
<1>3. Left(c)' = StepsLeft("asking", x)
  BY <1>2 DEF Left
<1> QED  BY <1>1, <1>3 DEF StepsLeft, MaxAttempts

LEMMA OwnStepNearer ==
  ASSUME GInv, NEW c \in Callers, Settle(c)
  PROVE  Left(c)' < Left(c)
<1>t. /\ pc \in [Callers -> {"idle", "asking", "waiting"}] /\ call \in [Callers -> Call]
      /\ call[c] \in Call /\ Bookkept(pc[c], call[c])
  BY DEF GInv, GatewayTypeOK
<1>l. Left(c) \in Nat /\ (pc[c] = "asking" => Left(c) >= 2 /\ (~call[c].second => Left(c) >= 6))
  BY <1>t, LeftTyped DEF Left
<1>e. ASSUME End(c), pc[c] = "asking" PROVE Left(c)' < Left(c)
  <2>1. Left(c)' = 0
    BY <1>e, <1>t DEF End, Left, StepsLeft
  <2> QED  BY <1>e, <1>l, <2>1
<1> DEFINE d == call[c]
           n == d.attempts
           m == MaxAttempts(d)
           w == IF d.second THEN 0 ELSE 4
<1>n. n \in Nat /\ m \in Nat /\ w \in Nat
  BY <1>t DEF Call, MaxAttempts
<1>1. CASE Answers(c)
  BY <1>1, <1>e DEF Answers
<1>2. CASE FailsForNow(c)
  <2>1. pc[c] = "asking" /\ pc'[c] = "waiting" /\ call'[c] = d
    BY <1>2, <1>t DEF FailsForNow
  <2>2. Left(c) = w + 2 * (m - n) + 2 /\ Left(c)' = w + 2 * (m - n) + 1
    BY <2>1 DEF Left, StepsLeft
  <2> HIDE DEF n, m, w, d
  <2> QED  BY <1>n, <2>2
<1>3. CASE Retry(c)
  <2>1. /\ pc[c] = "waiting" /\ pc'[c] = "asking"
        /\ call'[c].second = d.second /\ call'[c].attempts = n + 1
    BY <1>3, <1>t DEF Retry, Call
  <2>2. MaxAttempts(call'[c]) = m
    BY <2>1 DEF MaxAttempts
  <2>3. Left(c) = w + 2 * (m - n) + 1 /\ Left(c)' = w + 2 * (m - (n + 1)) + 2
    <3>1. Left(c) = w + 2 * (m - n) + 1
      BY <2>1 DEF Left, StepsLeft
    <3>2. Left(c)' = StepsLeft("asking", call'[c])
      BY <2>1 DEF Left
    <3>3. StepsLeft("asking", call'[c]) = w + 2 * (m - (n + 1)) + 2
      BY <2>1, <2>2 DEF StepsLeft
    <3> QED  BY <3>1, <3>2, <3>3
  <2> HIDE DEF n, m, w, d
  <2> QED  BY <1>n, <2>3
<1>4. CASE Fails(c)
  <2>1. pc[c] = "asking"
    BY <1>4 DEF Fails
  <2>2. CASE End(c)
    BY <1>e, <2>1, <2>2
  <2>3. CASE ~End(c)
    <3>1. /\ ~d.second /\ d.fallback \in Providers
          /\ \E e : Ask(c, d, d.fallback, TRUE, e)
      BY <1>4, <1>t, <2>3 DEF Fails, Call
    <3>2. Left(c)' = 4
      BY <1>t, <3>1, AskedLeft
    <3>3. Left(c) >= 6
      BY <1>l, <2>1, <3>1
    <3> QED  BY <1>l, <3>2, <3>3
  <2> QED  BY <2>2, <2>3
<1> QED  BY <1>1, <1>2, <1>3, <1>4 DEF Settle

LEMMA OthersLeaveIt ==
  ASSUME GInv, NEW c \in Callers, c \in InFlight, ~Settle(c), [GatewayNext]_gatewayVars
  PROVE  pc'[c] = pc[c] /\ call'[c] = call[c]
<1>t. pc \in [Callers -> {"idle", "asking", "waiting"}] /\ call \in [Callers -> Call]
  BY DEF GInv, GatewayTypeOK
<1>1. ASSUME NEW b \in Callers, b # c, Settle(b) PROVE pc'[c] = pc[c] /\ call'[c] = call[c]
  BY <1>1, <1>t DEF Settle, Answers, FailsForNow, Retry, Fails, End, Ask
<1>2. ASSUME NEW b \in Callers, NEW p \in Providers, NEW f \in Providers \cup {None}, Dispatch(b, p, f)
      PROVE  pc'[c] = pc[c] /\ call'[c] = call[c]
  <2>1. b # c
    BY <1>2 DEF Dispatch
  <2> QED  BY <1>2, <1>t, <2>1 DEF Dispatch, Ask
<1>3. ASSUME NEW p \in Providers, Inspect(p) PROVE pc' = pc /\ call' = call
  BY <1>3 DEF Inspect
<1>4. ClockTicks \/ BudgetExpires \/ UNCHANGED gatewayVars => pc' = pc /\ call' = call
  BY DEF ClockTicks, BudgetExpires, gatewayVars
<1> QED  BY <1>1, <1>2, <1>3, <1>4 DEF GatewayNext

\* What DispatchEnds rests on besides the fairness of settling: a dispatch has a number
\* of steps left, which each of its own makes smaller and nobody else's makes larger.
THEOREM DispatchesComeNearer ==
  GatewaySpec => [](\A c \in Callers : Left(c) \in Nat) /\ [][\A c \in Callers : Nearer(c)]_gatewayVars
<1>1. ASSUME GInv PROVE \A c \in Callers : Left(c) \in Nat
  BY <1>1, LeftTyped DEF GInv, GatewayTypeOK, Left
<1>2. ASSUME GInv, [GatewayNext]_gatewayVars PROVE \A c \in Callers : Nearer(c)
  <2> SUFFICES ASSUME NEW c \in Callers, c \in InFlight
               PROVE  Left(c)' <= Left(c) /\ (Settle(c) => Left(c)' < Left(c))
    BY DEF Nearer
  <2>1. Left(c) \in Nat /\ Left(c)' \in Nat
    <3>1. GInv'
      BY <1>2, GInvNext
    <3>2. Left(c)' \in Nat
      <4>1. /\ pc'[c] \in {"idle", "asking", "waiting"} /\ call'[c] \in Call
            /\ Bookkept(pc'[c], call'[c])
        BY <3>1 DEF GInv, GatewayTypeOK
      <4> QED  BY <4>1, LeftTyped DEF Left
    <3> QED  BY <1>1, <1>2, <3>2
  <2>2. CASE Settle(c)
    BY <1>2, <2>1, <2>2, OwnStepNearer
  <2>3. CASE ~Settle(c)
    <3>1. Left(c)' = Left(c)
      BY <1>2, <2>3, OthersLeaveIt DEF Left
    <3> QED  BY <2>1, <2>3, <3>1
  <2> QED  BY <2>2, <2>3
<1> QED  BY <1>1, <1>2, GatewayInvariant, PTL DEF GatewaySpec

-----------------------------------------------------------------------------
(* The circuits with any client *)

\* The entries after a step of the breaker that is not a reset.
Recorded(p) == Look(p) \/ RecordSuccess(p) \/ RecordFailure(p)

LEMMA RecordedIsOutcome ==
  ASSUME TypeOK, NEW p \in Providers, Recorded(p), NEW q \in Providers
  PROVE  breaker' \in [Providers -> Entry] /\ breaker'[q] \in Outcomes(breaker[q], clock)
<1>1. PICK x \in Outcomes(breaker[p], clock) : breaker' = [breaker EXCEPT ![p] = x]
  BY DEF Recorded, Look, RecordSuccess, RecordFailure, Update, Outcomes
<1>2. x \in Entry
  BY <1>1, OutcomesTyped DEF TypeOK
<1> QED  BY <1>1, <1>2 DEF TypeOK, Outcomes

BreakerInv == TypeOK /\ \A p \in Providers : Counted(breaker[p])

\* Every step of the breaker on its own keeps its invariant.
LEMMA BreakerInvKept == BreakerInv /\ [Next]_breakerVars => BreakerInv'
<1> SUFFICES ASSUME BreakerInv, [Next]_breakerVars PROVE BreakerInv'
  OBVIOUS
<1> USE DEF BreakerInv
<1>1. CASE UNCHANGED breaker /\ clock' \in Nat
  BY <1>1 DEF TypeOK
<1>2. ASSUME NEW p \in Providers, Recorded(p) PROVE BreakerInv'
  <2>1. clock' = clock
    BY <1>2 DEF Recorded, Look, RecordSuccess, RecordFailure
  <2>2. ASSUME NEW q \in Providers PROVE Counted(breaker'[q])
    <3>1. breaker'[q] \in Outcomes(breaker[q], clock) /\ breaker[q] \in Entry /\ clock \in Nat
      BY <1>2, RecordedIsOutcome DEF TypeOK
    <3> QED  BY <3>1, OutcomesCounted
  <2> QED  BY <1>2, <2>1, <2>2, RecordedIsOutcome DEF TypeOK
<1>3. ASSUME NEW p \in Providers, Reset(p) PROVE BreakerInv'
  <2>1. Closed \in Entry /\ Counted(Closed)
    BY BreakerAssumption DEF Closed, Entry, Counted
  <2> QED  BY <1>3, <2>1 DEF Reset, Update, TypeOK
<1>4. [Next]_breakerVars =>
        \/ UNCHANGED breaker /\ (clock' = clock + 1 \/ clock' = clock)
        \/ \E p \in Providers : Recorded(p) \/ Reset(p)
  BY DEF Next, Tick, Recorded, breakerVars
<1> QED  BY <1>1, <1>2, <1>3, <1>4 DEF TypeOK

\* Whichever clients call the breaker, in whatever order: a closed circuit is below its
\* threshold and counts failures in a row.
THEOREM BreakerCounts == Spec => []CountsFailuresInARow
<1>1. Init => BreakerInv
  BY BreakerAssumption DEF Init, BreakerInv, TypeOK, Closed, Entry, Counted
<1>2. BreakerInv => CountsFailuresInARow
  BY DEF BreakerInv, Counted, CountsFailuresInARow
<1> QED  BY <1>1, <1>2, BreakerInvKept, PTL DEF Spec

\* Only a reset ends the cooldown of an open circuit.
THEOREM CooldownCut == Spec => OnlyResetCutsCooldown
<1>1. Init => BreakerInv
  BY BreakerAssumption DEF Init, BreakerInv, TypeOK, Closed, Entry, Counted
<1>2. BreakerInv /\ [Next]_breakerVars =>
        [\A p \in Providers :
           Look(p) \/ RecordSuccess(p) \/ RecordFailure(p) => StaysOpen(p)]_breaker
  <2> SUFFICES ASSUME BreakerInv, NEW p \in Providers, Recorded(p),
                      breaker[p].state = "OPEN", clock - breaker[p].openedAt < Cooldown
               PROVE  breaker'[p].state = "OPEN" /\ breaker'[p].openedAt = breaker[p].openedAt
    BY DEF StaysOpen, Recorded
  <2>1. breaker'[p] \in Outcomes(breaker[p], clock) /\ breaker[p] \in Entry /\ clock \in Nat
    BY RecordedIsOutcome DEF BreakerInv, TypeOK
  <2> QED  BY <2>1, OutcomesStayOpen
<1> QED  BY <1>1, <1>2, BreakerInvKept, PTL DEF Spec, OnlyResetCutsCooldown
=============================================================================
