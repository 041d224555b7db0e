------------------------ MODULE ResourceOrchestrator ------------------------
(***************************************************************************)
(* ai-resource-orchestrator.js: a task is given the candidates (a model    *)
(* and, for a provider with accounts, a credential) that pass the gates,   *)
(* ranked, and tries them in turn until one answers.  Tasks run            *)
(* concurrently: between a call and its answer others change the pool, the *)
(* circuits of the models and what is known of the providers.              *)
(*                                                                         *)
(* The ranking is any order.  Capabilities, data classes and prices are    *)
(* the same for the whole task and only make the set of candidates         *)
(* smaller.  The gateway is the environment: a call ends in any Result.    *)
(***************************************************************************)
EXTENDS CredentialPool, Sequences, SequencesExt

CONSTANTS Tasks, Providers, Credentials, NoCredential,
          ProviderOf,        \* of each model and of each credential
          Threshold, Cooldown, \* of the circuits of the models
          MaxAttempts        \* maxFailoverAttempts

ASSUME OrchestratorAssumption ==
  /\ MaxAttempts \in Nat \ {0} /\ Threshold \in Nat \ {0} /\ Cooldown \in Nat
  /\ IsFiniteSet(Tasks) /\ IsFiniteSet(Models) /\ IsFiniteSet(Credentials)
  /\ NoCredential \notin Credentials
  /\ ProviderOf \in [Models \cup Credentials -> Providers]

VARIABLES clock,
          pool,       \* pool[c]: the entry of a credential
          circuit,    \* modelCircuitBreaker, by model
          exhausted,  \* providers whose quotaStates entry is QUOTA_EXCEEDED
          refused,    \* providers whose healthStates entry is AUTH_FAILED
          task,       \* task[t]: the state of one dispatchTask
          barred      \* history: how long a candidate was told to wait

vars == <<clock, pool, circuit, exhausted, refused, task, barred>>

Breaker == INSTANCE CircuitBreaker WITH Providers <- Models, breaker <- circuit

Candidate == [model: Models, credential: Credentials \cup {NoCredential}]
\* The status and, for a failure, what classifyError makes of it; DEGRADED stands
\* for a timeout too, which leaves the same traces.
Results == {"SUCCESS", "EMPTY", "QUOTA_EXCEEDED", "RATE_LIMITED", "AUTH_FAILED",
            "DEGRADED"}
Provider(cand) == ProviderOf[cand.model]
Forever == 1000000  \* longer than any run of the model

Calling(t) == task[t].pc = "CALLING"

\* Until when a candidate was told to wait, by which calls that were under way
\* there at that moment, and whether one of these succeeded since.
Unbarred == [until |-> 0, late |-> {}, lifted |-> FALSE]

AccountsOf(p, P) == {c \in Credentials : ProviderOf[c] = p /\ P[c].registered}
\* What a method of the pool finds.
Account(P, c) == Looked(P[c], clock)
\* getHealthyCredentials
Healthy(p, P) == {c \in AccountsOf(p, P) : Available(Account(P, c))}

\* buildInventory: one resource per account, or one without any.
Inventory ==
  {cand \in Candidate :
     LET own == AccountsOf(Provider(cand), pool)
     IN \/ cand.credential \in own
        \/ own = {} /\ cand.credential = NoCredential}

AccountUsable(cand, P) ==
  cand.credential # NoCredential =>
    CandidateAvailable(Account(P, cand.credential), cand.model, clock)

\* selectBestModel, gates 4 to 7.
Eligible ==
  {cand \in Inventory :
     /\ Provider(cand) \notin refused \cup exhausted
     /\ AccountUsable(cand, pool)
     /\ Breaker!CanExecute(circuit[cand.model], clock)}

\* dispatchTask's second look, just before the call.  It does not ask again
\* whether the provider refused a key.
StillOpen(cand, P, X) ==
  /\ AccountUsable(cand, P)
  /\ Provider(cand) \in X =>
       cand.credential # NoCredential /\ Healthy(Provider(cand), P) # {}
Usable(cand, P, C, X) ==
  StillOpen(cand, P, X) /\ Breaker!CanExecute(C[cand.model], clock)

\* A method of the pool makes e of a credential, if that is still registered.
OnAccount(P, c, e) ==
  IF c \in Credentials /\ P[c].registered THEN [P EXCEPT ![c] = e] ELSE P

Ended(status) == [pc |-> status, queue |-> <<>>, at |-> <<>>, tried |-> 0]

\* The circuits after those of the open ones of some candidates were asked.
AskedAbout(some, P, C, X) ==
  LET models == {cand.model : cand \in {x \in some : StillOpen(x, P, X)}}
  IN [m \in Models |-> IF m \in models THEN Breaker!Refreshed(C[m], clock) ELSE C[m]]

\* The loop of dispatchTask up to its next await or its end, on the candidates
\* that are left (Q), the pool (P), the circuits (C) and the exhausted providers
\* (X) as the answer before it left them.
GivesUp(t, Q, tried, P, C, X) ==
  /\ \A i \in DOMAIN Q : tried < MaxAttempts => ~Usable(Q[i], P, C, X)
  /\ circuit' = AskedAbout(IF tried < MaxAttempts THEN ToSet(Q) ELSE {}, P, C, X)
  /\ pool' = P
  /\ task' = [task EXCEPT ![t] = Ended("FAILED")]
Tries(t, i, Q, tried, P, C, X) ==
  /\ tried < MaxAttempts /\ Usable(Q[i], P, C, X)
  /\ \A j \in 1 .. i - 1 : ~Usable(Q[j], P, C, X)
  /\ circuit' = AskedAbout({Q[j] : j \in 1 .. i}, P, C, X)
  /\ pool' = OnAccount(P, Q[i].credential, Acquired(Account(P, Q[i].credential)))
  /\ task' = [task EXCEPT ![t] = [pc |-> "CALLING", at |-> Q[i], tried |-> tried + 1,
                                  queue |-> SubSeq(Q, i + 1, Len(Q))]]
GoOn(t, Q, tried, P, C, X) ==
  \/ GivesUp(t, Q, tried, P, C, X)
  \/ \E i \in DOMAIN Q : Tries(t, i, Q, tried, P, C, X)

-----------------------------------------------------------------------------
Init ==
  /\ clock = 0
  /\ pool = [c \in Credentials |-> Registered]
  /\ circuit = [m \in Models |-> Breaker!Closed]
  /\ exhausted = {} /\ refused = {}
  /\ task = [t \in Tasks |-> Ended("NEW")]
  /\ barred = [cand \in Candidate |-> Unbarred]

\* dispatchTask up to its first call; taking the inventory looks at the circuits
\* of all models.
Dispatch(t) ==
  /\ task[t].pc = "NEW"
  /\ \E ranked \in SetToSeqs(Eligible) :
       GoOn(t, ranked, 0, pool,
            [m \in Models |-> Breaker!Refreshed(circuit[m], clock)], exhausted)
  /\ UNCHANGED <<clock, exhausted, refused, barred>>

\* What the pool is told of a failure: the model first, then the account.
Told(e, m, r) ==
  LET known == IF r \in {"QUOTA_EXCEEDED", "RATE_LIMITED"}
               THEN ModelMarked(e, m, r, clock) ELSE e
  IN Marked(known, r, clock)

\* A failure that tells its account to wait, while other calls are under way there.
Bar(t, r) ==
  IF r \notin {"RATE_LIMITED", "QUOTA_EXCEEDED"} THEN barred ELSE
    [barred EXCEPT ![task[t].at] =
       [until  |-> IF r = "RATE_LIMITED" THEN clock + PoolCooldown ELSE Forever,
        late   |-> {u \in Tasks \ {t} : Calling(u) /\ task[u].at = task[t].at},
        lifted |-> FALSE]]
\* Success lifts what was told, if the call is older than that.
Lift(t) ==
  [barred EXCEPT ![task[t].at].lifted = @ \/ t \in barred[task[t].at].late]

\* The answer is SUCCESS with some output: the task ends.
Answered(t) ==
  LET cand == task[t].at
      c == cand.credential
  IN /\ task[t].pc = "CALLING"
     /\ circuit' = [circuit EXCEPT ![cand.model] = Breaker!Success(@)]
     /\ pool' = OnAccount(pool, c, Released(Succeeded(Account(pool, c), cand.model, clock)))
     /\ task' = [task EXCEPT ![t] = Ended("SUCCESS")]
     /\ barred' = Lift(t)
     /\ UNCHANGED <<clock, exhausted, refused>>

Blamed(m) == [circuit EXCEPT ![m] = Breaker!Failure(@, clock)]
EmptyKeepsSlot(t) ==
  /\ task[t].pc = "CALLING"
  /\ GoOn(t, task[t].queue, task[t].tried, pool, Blamed(task[t].at.model), exhausted)
  /\ UNCHANGED <<clock, exhausted, refused, barred>>
\* SUCCESS without output: only the circuit is told.
Empty(t) ==
  LET c == task[t].at.credential
  IN /\ task[t].pc = "CALLING"
     /\ GoOn(t, task[t].queue, task[t].tried, OnAccount(pool, c, Released(Account(pool, c))),
             Blamed(task[t].at.model), exhausted)
     /\ UNCHANGED <<clock, exhausted, refused, barred>>

\* Any other status, or an exception.  The circuit and the provider are blamed
\* only when no account of the provider is left, the one that failed included:
\* its slot is given back after that is asked.
Failed(t, r) ==
  LET cand == task[t].at
      c == cand.credential
      told == OnAccount(pool, c, Told(Account(pool, c), cand.model, r))
      alone == c = NoCredential \/ Healthy(Provider(cand), told) = {}
      shut(S, why) == IF alone /\ r = why THEN S \cup {Provider(cand)} ELSE S
  IN /\ task[t].pc = "CALLING"
     /\ exhausted' = shut(exhausted, "QUOTA_EXCEEDED")
     /\ refused' = shut(refused, "AUTH_FAILED")
     /\ barred' = Bar(t, r)
     /\ GoOn(t, task[t].queue, task[t].tried, OnAccount(told, c, Released(Account(told, c))),
             IF alone THEN Blamed(cand.model) ELSE circuit, exhausted')
     /\ UNCHANGED clock

\* At any time, also while the credential is in use.
RegisterCredential(c) ==
  /\ pool' = [pool EXCEPT ![c] = Registered]
  /\ barred' = [cand \in Candidate |-> IF cand.credential = c THEN Unbarred ELSE barred[cand]]
  /\ UNCHANGED <<clock, circuit, exhausted, refused, task>>
RemoveCredential(c) ==
  /\ pool[c].registered
  /\ pool' = [pool EXCEPT ![c] = Removed]
  /\ UNCHANGED <<clock, circuit, exhausted, refused, task, barred>>

Tick == clock' = clock + 1 /\ UNCHANGED <<pool, circuit, exhausted, refused, task, barred>>

Answer(t) == Answered(t) \/ Empty(t) \/ \E r \in Results \ {"SUCCESS", "EMPTY"} : Failed(t, r)

Next ==
  \/ \E t \in Tasks : Dispatch(t) \/ Answer(t)
  \/ \E c \in Credentials : RegisterCredential(c) \/ RemoveCredential(c)
  \/ Tick

Spec == Init /\ [][Next]_vars

-----------------------------------------------------------------------------
CallsOf(c) == {t \in Tasks : Calling(t) /\ task[t].at.credential = c}

TaskState == [pc: {"NEW", "CALLING", "SUCCESS", "FAILED"}, queue: Seq(Candidate),
              at: Candidate \cup {<<>>}, tried: 0 .. MaxAttempts]

\* The shape of the state.
TypeOK ==
  /\ clock \in Nat
  /\ pool \in [Credentials -> Credential]
  /\ circuit \in [Models -> Breaker!Entry]
  /\ exhausted \subseteq Providers /\ refused \subseteq Providers
  /\ task \in [Tasks -> TaskState]
  /\ \A t \in Tasks : Calling(t) => task[t].at \in Candidate
  /\ barred \in [Candidate -> [until: Nat, late: SUBSET Tasks, lifted: BOOLEAN]]

\* No slot of a credential is leaked: it counts no more calls than are in flight,
\* however they end, and although it is replaced or removed in the meantime.
\* Otherwise it would stay at its limit for ever.
SlotsComeBack == \A c \in Credentials : pool[c].inFlight <= Cardinality(CallsOf(c))

\* A call that starts at an account: what the account was last told to wait for the
\* model is over, or a call that was already under way at that very account and
\* model when it was told succeeded since (which clears the newer mark).  Nothing
\* else lifts it: no answer for another model, another account or another failure.
Starts(t) == task'[t].pc = "CALLING" /\ task'[t].tried # task[t].tried
WaitsWhenTold ==
  [][\A t \in Tasks :
       Starts(t) /\ task'[t].at.credential \in Credentials
         => barred'[task'[t].at].until <= clock \/ barred'[task'[t].at].lifted]_vars

\* A model's circuit that is closed counts failures in a row, whichever tasks and
\* accounts they came from.
CircuitsCountFailuresInARow == Breaker!CountsFailuresInARow

\* A circuit that opened stays open for its whole cooldown, although calls that
\* were in flight when it opened go on failing or succeeding.
CircuitsStayOpen == [][\A m \in Models : Breaker!StaysOpen(m)]_circuit
=============================================================================
