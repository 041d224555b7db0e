---------------------- MODULE ResourceOrchestratorProofs ----------------------
(***************************************************************************)
(* What the orchestrator promises for any tasks, candidates, credentials   *)
(* and limits.  The circuits, the slots of the credentials and what their  *)
(* models are told do not depend on each other: each has its own part of   *)
(* the invariant, kept by what one method does to one entry.               *)
(***************************************************************************)
EXTENDS ResourceOrchestrator, FiniteSetTheorems, TLAPS

USE OrchestratorAssumption, PoolAssumption

Counted(e) ==
  e.state = "CLOSED" => e.failureCount < Threshold /\ e.failureCount = e.streak

\* A credential that is gone counts no calls.
Gone(e) == ~e.registered => e.inFlight = 0

\* An account that has been told to wait knows it of the model.
Knows(e, m, until) ==
  \/ ~e.registered
  \/ e.model[m].health = "QUOTA_EXCEEDED"
  \/ e.model[m].health = "RATE_LIMITED" /\ e.model[m].until >= until
Bars == [Candidate -> [until: Nat, late: SUBSET Tasks, lifted: BOOLEAN]]
\* What was told is over, or lifted.
May(b) == b.until <= clock \/ b.lifted
Waiting(P, B) ==
  \A cand \in Candidate :
    cand.credential \in Credentials /\ ~May(B[cand])
      => Knows(P[cand.credential], cand.model, B[cand].until)
\* A call at an account that has to wait is older than that: only its success lifts it.
Older(u, T, B) ==
  T[u].pc = "CALLING" /\ T[u].at.credential \in Credentials
    => May(B[T[u].at]) \/ u \in B[T[u].at].late

RInv ==
  /\ TypeOK
  /\ \A m \in Models : Counted(circuit[m])
  /\ \A c \in Credentials : Gone(pool[c])
  /\ SlotsComeBack
  /\ Waiting(pool, barred)
  /\ \A u \in Tasks : Older(u, task, barred)

-----------------------------------------------------------------------------
(* Circuits: what methods of the breaker make of an entry *)

Outcomes(e) == {e, Breaker!Refreshed(e, clock), Breaker!Success(e), Breaker!Failure(e, clock)}

\* What can become of an entry of the breaker in one step is an entry ...
LEMMA OutcomesTyped ==
  ASSUME clock \in Nat, NEW e \in Breaker!Entry, NEW x \in Outcomes(e)
  PROVE  x \in Breaker!Entry
<1>1. Breaker!Refreshed(e, clock) \in Breaker!Entry
  BY DEF Breaker!Refreshed, Breaker!Entry
<1>2. Breaker!Success(e) \in Breaker!Entry
  BY DEF Breaker!Success, Breaker!Closed, Breaker!Entry
<1>3. Breaker!Failure(e, clock) \in Breaker!Entry
  <2> DEFINE a == [e EXCEPT !.failureCount = e.failureCount + 1]
             b == [a EXCEPT !.streak = e.streak + 1]
  <2>1. a \in Breaker!Entry
    BY DEF Breaker!Entry
  <2>2. b \in Breaker!Entry
    <3> HIDE DEF a
    <3> QED  BY <2>1 DEF Breaker!Entry
  <2>3. Breaker!Failed(e) \in Breaker!Entry
    BY <2>2 DEF Breaker!Failed
  <2>4. Breaker!Opened(Breaker!Failed(e), clock) \in Breaker!Entry
    BY <2>3 DEF Breaker!Opened, Breaker!Entry
  <2> QED  BY <2>3, <2>4 DEF Breaker!Failure
<1> QED  BY <1>1, <1>2, <1>3 DEF Outcomes

\* ... whose failures in a row are below the threshold while it is closed ...
LEMMA OutcomesCounted ==
  ASSUME clock \in Nat, NEW e \in Breaker!Entry, NEW x \in Outcomes(e), Counted(e)
  PROVE  Counted(x)
<1>1. Counted(Breaker!Refreshed(e, clock))
  BY DEF Counted, Breaker!Refreshed, Breaker!Entry
<1>2. Counted(Breaker!Success(e))
  BY DEF Counted, Breaker!Success, Breaker!Closed, Breaker!Entry
<1>3. Counted(Breaker!Failure(e, clock))
  <2>1. CASE Breaker!Failure(e, clock) = Breaker!Opened(Breaker!Failed(e), clock)
    BY <2>1 DEF Counted, Breaker!Opened, Breaker!Failed, Breaker!Entry
  <2>2. CASE /\ Breaker!Failure(e, clock) = Breaker!Failed(e)
             /\ ~(e.state = "CLOSED" /\ e.failureCount + 1 >= Threshold)
    BY <2>2 DEF Counted, Breaker!Failed, Breaker!Entry
  <2> QED  BY <2>1, <2>2 DEF Breaker!Failure
<1> QED  BY <1>1, <1>2, <1>3 DEF Outcomes

\* In its cooldown an open circuit stays as it is, but for its counts.
Shut(e) == e.state = "OPEN" /\ clock - e.openedAt < Cooldown

\* ... and which stays open, from the same moment, until its cooldown is over.
LEMMA OutcomesShut ==
  ASSUME clock \in Nat, NEW e \in Breaker!Entry, NEW x \in Outcomes(e), Shut(e)
  PROVE  Shut(x) /\ x.openedAt = e.openedAt
<1> USE DEF Shut
<1>1. Breaker!Refreshed(e, clock) = e
  BY DEF Breaker!Refreshed, Breaker!Entry
<1>2. Breaker!Success(e).state = "OPEN" /\ Breaker!Success(e).openedAt = e.openedAt
  BY DEF Breaker!Success, Breaker!Entry
<1>3. Breaker!Failure(e, clock) = Breaker!Failed(e)
  BY DEF Breaker!Failure, Breaker!Entry
<1>4. Breaker!Failed(e).state = "OPEN" /\ Breaker!Failed(e).openedAt = e.openedAt
  BY DEF Breaker!Failed, Breaker!Entry
<1> QED  BY <1>1, <1>2, <1>3, <1>4 DEF Outcomes

\* A step makes at most two calls to the circuit of a model.
Twice(e) == UNION {Outcomes(x) : x \in Outcomes(e)}
CircuitsStep ==
  circuit' \in [Models -> Breaker!Entry] /\ \A m \in Models : circuit'[m] \in Twice(circuit[m])

\* Asking the circuits in the loop is such a step for each of them.
LEMMA Asked ==
  ASSUME clock \in Nat, circuit \in [Models -> Breaker!Entry],
         NEW C, \A m \in Models : C[m] \in Outcomes(circuit[m]),
         NEW some, NEW P, NEW X, circuit' = AskedAbout(some, P, C, X)
  PROVE  CircuitsStep
<1>1. ASSUME NEW m \in Models
      PROVE  circuit'[m] \in Breaker!Entry /\ circuit'[m] \in Twice(circuit[m])
  <2>1. circuit'[m] \in Outcomes(C[m])
    BY DEF AskedAbout, Outcomes
  <2> QED  BY <2>1, OutcomesTyped DEF Twice
<1>2. circuit' = [m \in Models |-> circuit'[m]]
  BY DEF AskedAbout
<1> QED  BY <1>1, <1>2 DEF CircuitsStep

LEMMA GoOnAsks ==
  ASSUME clock \in Nat, circuit \in [Models -> Breaker!Entry],
         NEW C, \A m \in Models : C[m] \in Outcomes(circuit[m]),
         NEW t, NEW Q, NEW n, NEW P, NEW X, GoOn(t, Q, n, P, C, X)
  PROVE  CircuitsStep
BY Asked DEF GoOn, GivesUp, Tries

\* So is every step of the orchestrator.
LEMMA CircuitsKept ==
  ASSUME TypeOK, Next
  PROVE  CircuitsStep
<1>0. clock \in Nat /\ circuit \in [Models -> Breaker!Entry]
  BY DEF TypeOK
<1>1. ASSUME UNCHANGED circuit
      PROVE  CircuitsStep
  BY <1>0, <1>1 DEF CircuitsStep, Twice, Outcomes
<1>2. ASSUME NEW t \in Tasks, Dispatch(t)
      PROVE  CircuitsStep
  <2> DEFINE C == [m \in Models |-> Breaker!Refreshed(circuit[m], clock)]
  <2>1. \A m \in Models : C[m] \in Outcomes(circuit[m])
    BY DEF Outcomes
  <2>2. PICK ranked \in SetToSeqs(Eligible) : GoOn(t, ranked, 0, pool, C, exhausted)
    BY <1>2 DEF Dispatch
  <2> HIDE DEF C
  <2> QED  BY <1>0, <2>1, <2>2, GoOnAsks
<1>3. ASSUME NEW t \in Tasks, Answered(t)
      PROVE  CircuitsStep
  <2>1. PICK m : circuit' = [circuit EXCEPT ![m] = Breaker!Success(circuit[m])]
    BY <1>3 DEF Answered
  <2>2. \A n \in Models : circuit'[n] \in Outcomes(circuit[n])
    BY <1>0, <2>1 DEF Outcomes
  <2> QED  BY <1>0, <2>1, <2>2, OutcomesTyped DEF CircuitsStep, Twice, Outcomes
<1>b. \A m, n \in Models : Blamed(m)[n] \in Outcomes(circuit[n]) /\ circuit[n] \in Outcomes(circuit[n])
  BY <1>0 DEF Blamed, Outcomes
<1>4. ASSUME NEW t \in Tasks, Empty(t)
      PROVE  CircuitsStep
  <2>1. task[t].at.model \in Models
    BY <1>4 DEF Empty, TypeOK, Calling, Candidate
  <2>2. PICK Q, n, P : GoOn(t, Q, n, P, Blamed(task[t].at.model), exhausted)
    BY <1>4 DEF Empty
  <2> QED  BY <1>0, <1>b, <2>1, <2>2, GoOnAsks
<1>5. ASSUME NEW t \in Tasks, NEW r \in Results \ {"SUCCESS", "EMPTY"}, Failed(t, r)
      PROVE  CircuitsStep
  <2>1. task[t].at.model \in Models
    BY <1>5 DEF Failed, TypeOK, Calling, Candidate
  <2>2. PICK Q, n, P, C : /\ C = Blamed(task[t].at.model) \/ C = circuit
                          /\ GoOn(t, Q, n, P, C, exhausted')
    BY <1>5 DEF Failed
  <2>3. \A m \in Models : C[m] \in Outcomes(circuit[m])
    BY <1>b, <2>1, <2>2
  <2> QED  BY <1>0, <2>2, <2>3, GoOnAsks
<1> QED  BY <1>1, <1>2, <1>3, <1>4, <1>5
         DEF Next, Answer, RegisterCredential, RemoveCredential, Tick

-----------------------------------------------------------------------------
(* Accounts: what methods of the pool make of an entry *)

Known == [health: ModelHealths, until: Nat]

\* An account keeps its shape when one field is assigned.
LEMMA FieldsTyped ==
  ASSUME NEW e \in Credential
  PROVE  /\ \A n \in Nat : [e EXCEPT !.inFlight = n] \in Credential
         /\ \A h \in Healths : [e EXCEPT !.health = h] \in Credential
         /\ \A n \in Nat : [e EXCEPT !.until = n] \in Credential
         /\ \A f \in [Models -> Known] : [e EXCEPT !.model = f] \in Credential
  BY DEF Credential, Known

LEMMA RegisteredTyped ==
  /\ Registered \in Credential /\ Removed \in Credential
  /\ Registered.inFlight = 0 /\ Removed.inFlight = 0
  /\ Registered.registered = TRUE /\ Removed.registered = FALSE
BY DEF Registered, Removed, Credential, Healths, ModelHealths

\* Looking at an account changes neither its slots nor its models ...
LEMMA LookedKeeps ==
  ASSUME NEW e \in Credential, NEW now \in Nat
  PROVE  /\ Looked(e, now) \in Credential
         /\ Looked(e, now).inFlight = e.inFlight
         /\ Looked(e, now).registered = e.registered
         /\ Looked(e, now).model = e.model
<1> DEFINE a == [e EXCEPT !.health = "HEALTHY"]
<1>1. a \in Credential
  BY FieldsTyped DEF Healths
<1>2. [a EXCEPT !.until = 0] \in Credential
  <2> HIDE DEF a
  <2> QED  BY <1>1, FieldsTyped
<1>3. Looked(e, now) \in Credential
  BY <1>2 DEF Looked
<1> QED  BY <1>3 DEF Looked, Credential

\* ... giving a slot back takes one off, if there is one ...
LEMMA ReleasedKeeps ==
  ASSUME NEW e \in Credential
  PROVE  /\ Released(e) \in Credential
         /\ Released(e).inFlight = IF e.inFlight = 0 THEN 0 ELSE e.inFlight - 1
         /\ Released(e).registered = e.registered
         /\ Released(e).model = e.model
<1>1. e.inFlight \in Nat
  BY DEF Credential
<1>2. Released(e) \in Credential
  BY <1>1, FieldsTyped DEF Released
<1> QED  BY <1>1, <1>2 DEF Released, Credential

\* ... taking one adds at most one ...
LEMMA AcquiredKeeps ==
  ASSUME NEW e \in Credential
  PROVE  /\ Acquired(e) \in Credential
         /\ Acquired(e).inFlight \in {e.inFlight, e.inFlight + 1}
         /\ Acquired(e).registered = e.registered
         /\ Acquired(e).model = e.model
<1>1. e.inFlight + 1 \in Nat
  BY DEF Credential
<1>2. Acquired(e) \in Credential
  BY <1>1, FieldsTyped DEF Acquired
<1> QED  BY <1>2 DEF Acquired, Credential

\* ... and a mark leaves the slots alone.
LEMMA MarkedKeeps ==
  ASSUME NEW e \in Credential, NEW h \in Healths, NEW now \in Nat
  PROVE  /\ Marked(e, h, now) \in Credential
         /\ Marked(e, h, now).inFlight = e.inFlight
         /\ Marked(e, h, now).registered = e.registered
         /\ Marked(e, h, now).model = e.model
<1> DEFINE a == [e EXCEPT !.health = h]
           u == IF h = "RATE_LIMITED" THEN now + PoolCooldown ELSE 0
<1>1. a \in Credential /\ u \in Nat
  BY FieldsTyped
<1>2. [a EXCEPT !.until = u] \in Credential
  <2> HIDE DEF a, u
  <2> QED  BY <1>1, FieldsTyped
<1>3. Marked(e, h, now) \in Credential
  BY <1>2 DEF Marked
<1> QED  BY <1>3 DEF Marked, Credential

LEMMA ModelMarkedKeeps ==
  ASSUME NEW e \in Credential, NEW m \in Models, NEW h \in ModelHealths, NEW now \in Nat
  PROVE  /\ ModelMarked(e, m, h, now) \in Credential
         /\ ModelMarked(e, m, h, now).inFlight = e.inFlight
         /\ ModelMarked(e, m, h, now).registered = e.registered
         /\ ModelMarked(e, m, h, now).model[m] =
              [health |-> h, until |-> IF h = "RATE_LIMITED" THEN now + PoolCooldown ELSE 0]
         /\ \A n \in Models \ {m} : ModelMarked(e, m, h, now).model[n] = e.model[n]
<1> DEFINE k == [health |-> h, until |-> IF h = "RATE_LIMITED" THEN now + PoolCooldown ELSE 0]
           f == [e.model EXCEPT ![m] = k]
<1>1. k \in Known /\ e.model \in [Models -> Known]
  BY DEF Known, Credential
<1>2. f \in [Models -> Known] /\ f[m] = k /\ \A n \in Models \ {m} : f[n] = e.model[n]
  <2> HIDE DEF k
  <2> QED  BY <1>1
<1>3. ModelMarked(e, m, h, now) = [e EXCEPT !.model = f]
  BY DEF ModelMarked
<1>4. ModelMarked(e, m, h, now) \in Credential
  <2> HIDE DEF f
  <2> QED  BY <1>2, <1>3, FieldsTyped
<1>5. /\ ModelMarked(e, m, h, now).inFlight = e.inFlight
      /\ ModelMarked(e, m, h, now).registered = e.registered
      /\ ModelMarked(e, m, h, now).model = f
  BY <1>3 DEF Credential
<1> QED  BY <1>2, <1>4, <1>5

\* What the answer of a call makes of its account.
LEMMA SucceededKeeps ==
  ASSUME NEW e \in Credential, NEW m \in Models, NEW now \in Nat
  PROVE  /\ Succeeded(e, m, now) \in Credential
         /\ Succeeded(e, m, now).inFlight = e.inFlight
         /\ Succeeded(e, m, now).registered = e.registered
         /\ \A n \in Models \ {m} : Succeeded(e, m, now).model[n] = e.model[n]
<1> DEFINE a == [e EXCEPT !.health = IF e.health = "DEGRADED" THEN "HEALTHY" ELSE e.health]
<1>1. e.health \in Healths
  BY DEF Credential
<1>2. a \in Credential
  BY <1>1, FieldsTyped DEF Healths
<1>3. a.inFlight = e.inFlight /\ a.registered = e.registered /\ a.model = e.model
  BY DEF Credential
<1>4. Succeeded(e, m, now) = ModelMarked(a, m, "HEALTHY", now)
  BY DEF Succeeded
<1>5. "HEALTHY" \in ModelHealths
  BY DEF ModelHealths
<1> HIDE DEF a
<1>6. PICK h \in ModelHealths : h = "HEALTHY"
  BY <1>5
<1>7. /\ ModelMarked(a, m, h, now) \in Credential
      /\ ModelMarked(a, m, h, now).inFlight = a.inFlight
      /\ ModelMarked(a, m, h, now).registered = a.registered
      /\ ModelMarked(a, m, h, now).model[m] =
           [health |-> h, until |-> IF h = "RATE_LIMITED" THEN now + PoolCooldown ELSE 0]
      /\ \A n \in Models \ {m} : ModelMarked(a, m, h, now).model[n] = a.model[n]
  BY <1>2, ModelMarkedKeeps
<1> QED  BY <1>3, <1>4, <1>6, <1>7

\* A failure leaves the slots alone and marks no other model.
LEMMA ToldKeeps ==
  ASSUME clock \in Nat, NEW e \in Credential, NEW m \in Models,
         NEW r \in Results \ {"SUCCESS", "EMPTY"}
  PROVE  /\ Told(e, m, r) \in Credential
         /\ Told(e, m, r).inFlight = e.inFlight
         /\ Told(e, m, r).registered = e.registered
         /\ \A n \in Models \ {m} : Told(e, m, r).model[n] = e.model[n]
         /\ r \notin {"QUOTA_EXCEEDED", "RATE_LIMITED"} => Told(e, m, r).model = e.model
         /\ r = "QUOTA_EXCEEDED" => Told(e, m, r).model[m].health = "QUOTA_EXCEEDED"
         /\ r = "RATE_LIMITED" => /\ Told(e, m, r).model[m].health = "RATE_LIMITED"
                                  /\ Told(e, m, r).model[m].until = clock + PoolCooldown
<1> DEFINE a == ModelMarked(e, m, r, clock)
<1>1. r \in Healths
  BY DEF Results, Healths
<1>2. CASE r \in {"QUOTA_EXCEEDED", "RATE_LIMITED"}
  <2>1. /\ a \in Credential /\ a.inFlight = e.inFlight /\ a.registered = e.registered
        /\ a.model[m] = [health |-> r, until |-> IF r = "RATE_LIMITED" THEN clock + PoolCooldown ELSE 0]
        /\ \A n \in Models \ {m} : a.model[n] = e.model[n]
    <3>1. r \in ModelHealths
      BY <1>2 DEF ModelHealths
    <3> QED  BY <3>1, ModelMarkedKeeps
  <2>2. Told(e, m, r) = Marked(a, r, clock)
    BY <1>2 DEF Told
  <2> HIDE DEF a
  <2>3. /\ Told(e, m, r) \in Credential /\ Told(e, m, r).inFlight = a.inFlight
        /\ Told(e, m, r).registered = a.registered /\ Told(e, m, r).model = a.model
    <3>1. /\ Marked(a, r, clock) \in Credential /\ Marked(a, r, clock).inFlight = a.inFlight
          /\ Marked(a, r, clock).registered = a.registered /\ Marked(a, r, clock).model = a.model
      BY <1>1, <2>1, MarkedKeeps
    <3> QED  BY <2>2, <3>1
  <2> QED  BY <1>2, <2>1, <2>3
<1>3. CASE r \notin {"QUOTA_EXCEEDED", "RATE_LIMITED"}
  <2>1. Told(e, m, r) = Marked(e, r, clock)
    BY <1>3 DEF Told
  <2> QED  BY <1>1, <1>3, <2>1, MarkedKeeps
<1> QED  BY <1>2, <1>3

-----------------------------------------------------------------------------
(* The pool: what a step makes of all accounts *)

Pools == [Credentials -> Credential]

\* A method of the pool touches one account.
LEMMA OnAccountKeeps ==
  ASSUME NEW P \in Pools, NEW c, NEW e, c \in Credentials => e \in Credential
  PROVE  /\ OnAccount(P, c, e) \in Pools
         /\ \A d \in Credentials :
              OnAccount(P, c, e)[d] = IF d = c /\ P[c].registered THEN e ELSE P[d]
BY DEF OnAccount, Pools

LEMMA CandidatesFinite == IsFiniteSet(Candidate)
<1> DEFINE D == Models \X (Credentials \cup {NoCredential})
           f == [x \in D |-> [model |-> x[1], credential |-> x[2]]]
<1>1. IsFiniteSet(D)
  BY FS_AddElement, FS_Product
<1>2. f \in Surjection(D, Candidate)
  <2>1. f \in [D -> Candidate]
    BY DEF Candidate
  <2>2. ASSUME NEW y \in Candidate PROVE \E x \in D : f[x] = y
    <3>1. <<y.model, y.credential>> \in D
      BY DEF Candidate
    <3>2. f[<<y.model, y.credential>>] = y
      BY <3>1 DEF Candidate
    <3> QED  BY <3>1, <3>2
  <2> HIDE DEF f
  <2> QED  BY <2>1, <2>2 DEF Surjection
<1> HIDE DEF f, D
<1> QED  BY <1>1, <1>2, FS_Surjection

\* A ranking lists candidates of the inventory.
LEMMA RankedTyped ==
  ASSUME NEW ranked \in SetToSeqs(Eligible)
  PROVE  ranked \in Seq(Candidate)
<1>1. Eligible \subseteq Candidate
  BY DEF Eligible, Inventory
<1>2. Cardinality(Eligible) \in Nat
  BY <1>1, CandidatesFinite, FS_Subset, FS_CardinalityType
<1>3. ranked \in [1..Cardinality(Eligible) -> Eligible]
  BY DEF SetToSeqs
<1> QED  BY <1>1, <1>2, <1>3

\* The calls of a credential but for those of one task.
Others(c, t) == CallsOf(c) \ {t}

\* The calls that hold an account are countable: one task makes at most one of them.
LEMMA CallsFinite ==
  ASSUME NEW c, NEW t
  PROVE  /\ IsFiniteSet(CallsOf(c)) /\ IsFiniteSet(Others(c, t))
         /\ Cardinality(CallsOf(c)) \in Nat /\ Cardinality(Others(c, t)) \in Nat
         /\ Cardinality(Others(c, t)) =
              IF t \in CallsOf(c) THEN Cardinality(CallsOf(c)) - 1 ELSE Cardinality(CallsOf(c))
<1>1. IsFiniteSet(CallsOf(c))
  BY FS_Subset DEF CallsOf
<1>2. /\ IsFiniteSet(CallsOf(c) \ {t})
      /\ Cardinality(CallsOf(c) \ {t}) =
            IF t \in CallsOf(c) THEN Cardinality(CallsOf(c))-1 ELSE Cardinality(CallsOf(c))
  BY <1>1, FS_RemoveElement
<1> QED  BY <1>1, <1>2, FS_CardinalityType DEF Others

\* A pool in which the call of task t, if there was one, holds no slot any more.
Freed(t, P) ==
  /\ P \in Pools
  /\ \A c \in Credentials : Gone(P[c]) /\ P[c].inFlight <= Cardinality(Others(c, t))

\* What the loop leaves.
Leaves(t, P, B) ==
  /\ pool' \in Pools /\ task' \in [Tasks -> TaskState]
  /\ \A u \in Tasks : Calling(u)' => task'[u].at \in Candidate
  /\ \A c \in Credentials : Gone(pool'[c])
  /\ SlotsComeBack'
  /\ Waiting(P, B) => /\ Waiting(pool', B)
                      /\ (\A u \in Tasks \ {t} : Older(u, task, B)) => \A u \in Tasks : Older(u, task', B)
                      /\ \A u \in Tasks : Starts(u) /\ task'[u].at.credential \in Credentials
                                            => May(B[task'[u].at])

\* A task that ends leaves the slots to the calls of the others ...
LEMMA GivesUpLeaves ==
  ASSUME TypeOK, NEW t \in Tasks, NEW P, Freed(t, P), NEW B,
         task' = [task EXCEPT ![t] = Ended("FAILED")] \/ task' = [task EXCEPT ![t] = Ended("SUCCESS")],
         pool' = P
  PROVE  Leaves(t, P, B)
<1>1. Ended("FAILED") \in TaskState /\ Ended("SUCCESS") \in TaskState
  BY DEF Ended, TaskState
<1>2. task' \in [Tasks -> TaskState] /\ task'[t].pc # "CALLING"
      /\ \A u \in Tasks \ {t} : task'[u] = task[u]
  BY <1>1 DEF TypeOK, Ended
<1>3. \A u \in Tasks : Calling(u)' => task'[u].at \in Candidate
  BY <1>2 DEF TypeOK, Calling
<1>4. \A c \in Credentials : CallsOf(c)' = Others(c, t)
  BY <1>2 DEF CallsOf, Others, Calling
<1>5. SlotsComeBack'
  BY <1>4 DEF SlotsComeBack, Freed
<1>6. \A u \in Tasks : ~Starts(u)
  BY <1>2 DEF Starts
<1>7. (\A u \in Tasks \ {t} : Older(u, task, B)) => \A u \in Tasks : Older(u, task', B)
  BY <1>2 DEF Older
<1> QED  BY <1>2, <1>3, <1>5, <1>6, <1>7 DEF Leaves, Freed

\* A candidate that is usable need not wait.
LEMMA UsableMay ==
  ASSUME clock \in Nat, NEW cand \in Candidate, cand.credential \in Credentials,
         NEW P \in Pools, NEW C, NEW X, Usable(cand, P, C, X),
         NEW B \in Bars, Waiting(P, B)
  PROVE  May(B[cand])
<1> DEFINE e == P[cand.credential]
           l == Account(P, cand.credential)
<1>1. e \in Credential /\ cand.model \in Models
  BY DEF Pools, Candidate
<1>2. l.registered = e.registered /\ l.model = e.model
  BY <1>1, LookedKeeps DEF Account
<1>3. l.registered /\ ModelHealth(l, cand.model, clock) \notin {"AUTH_FAILED", "QUOTA_EXCEEDED", "RATE_LIMITED"}
  BY DEF Usable, StillOpen, AccountUsable, CandidateAvailable
<1> HIDE DEF l
<1>4. SUFFICES ASSUME ~May(B[cand]) PROVE FALSE
  OBVIOUS
<1>a. B[cand].until \in Nat /\ B[cand].until > clock
  BY <1>4 DEF May, Bars
<1> DEFINE k == e.model[cand.model]
<1>5. \/ k.health = "QUOTA_EXCEEDED"
      \/ k.health = "RATE_LIMITED" /\ k.until >= B[cand].until
  BY <1>2, <1>3, <1>4 DEF Waiting, Knows
<1>6. k.until \in Nat /\ l.model[cand.model] = k
  BY <1>1, <1>2 DEF Credential
<1> HIDE DEF e, k
<1>7. \/ k.health = "QUOTA_EXCEEDED"
      \/ k.health = "RATE_LIMITED" /\ k.until > clock
  BY <1>a, <1>5, <1>6
<1>8. CASE l.health \in {"AUTH_FAILED", "QUOTA_EXCEEDED"}
  BY <1>3, <1>8 DEF ModelHealth
<1>9. CASE l.health \notin {"AUTH_FAILED", "QUOTA_EXCEEDED"}
  <2>1. ModelHealth(l, cand.model, clock) = k.health
    BY <1>6, <1>7, <1>9 DEF ModelHealth
  <2> QED  BY <1>3, <1>7, <2>1
<1> QED  BY <1>8, <1>9

\* ... and one that tries the next candidate takes one slot there, and waits for nothing it was told to.
LEMMA TriesLeaves ==
  ASSUME TypeOK, NEW t \in Tasks, NEW P, Freed(t, P), NEW B \in Bars,
         NEW Q \in Seq(Candidate), NEW i \in DOMAIN Q, NEW n \in Nat, NEW C, NEW X,
         Tries(t, i, Q, n, P, C, X)
  PROVE  Leaves(t, P, B)
<1> DEFINE cand == Q[i]
           c == cand.credential
           e == Account(P, c)
           a == Acquired(e)
           x == [pc |-> "CALLING", at |-> cand, tried |-> n + 1,
                 queue |-> SubSeq(Q, i + 1, Len(Q))]
<1>0. clock \in Nat /\ task \in [Tasks -> TaskState] /\ P \in Pools
  BY DEF TypeOK, Freed
<1>1. cand \in Candidate /\ n < MaxAttempts /\ Usable(cand, P, C, X)
      /\ pool' = OnAccount(P, c, a) /\ task' = [task EXCEPT ![t] = x]
  BY DEF Tries
<1>2. x \in TaskState /\ x.pc = "CALLING" /\ x.at = cand
  <2>1. SubSeq(Q, i + 1, Len(Q)) \in Seq(Candidate)
    OBVIOUS
  <2>2. n + 1 \in 0 .. MaxAttempts
    BY <1>1
  <2> QED  BY <1>1, <2>1, <2>2 DEF TaskState
<1>3. c \in Credentials => /\ e \in Credential /\ a \in Credential
                           /\ a.inFlight \in {P[c].inFlight, P[c].inFlight + 1}
                           /\ a.registered = P[c].registered /\ a.model = P[c].model
  <2> SUFFICES ASSUME c \in Credentials
               PROVE  /\ e \in Credential /\ a \in Credential
                      /\ a.inFlight \in {P[c].inFlight, P[c].inFlight + 1}
                      /\ a.registered = P[c].registered /\ a.model = P[c].model
    OBVIOUS
  <2>1. P[c] \in Credential
    BY <1>0 DEF Pools
  <2>2. e \in Credential /\ e.inFlight = P[c].inFlight /\ e.registered = P[c].registered
        /\ e.model = P[c].model
    BY <1>0, <2>1, LookedKeeps DEF Account
  <2> HIDE DEF e
  <2> QED  BY <2>2, AcquiredKeeps
<1>4. /\ pool' \in Pools
      /\ \A d \in Credentials : pool'[d] = IF d = c /\ P[c].registered THEN a ELSE P[d]
  BY <1>0, <1>1, <1>3, OnAccountKeeps
<1> HIDE DEF x, a, e
<1>5. /\ task' \in [Tasks -> TaskState] /\ task'[t] = x
      /\ \A u \in Tasks \ {t} : task'[u] = task[u]
  BY <1>0, <1>1, <1>2
<1>6. \A u \in Tasks : Calling(u)' => task'[u].at \in Candidate
  BY <1>1, <1>2, <1>5 DEF TypeOK, Calling
<1>7. \A d \in Credentials : Gone(pool'[d])
  BY <1>3, <1>4 DEF Freed, Gone
<1>8. SlotsComeBack'
  <2> SUFFICES ASSUME NEW d \in Credentials
               PROVE  pool'[d].inFlight <= Cardinality(CallsOf(d)')
    BY DEF SlotsComeBack
  <2>1. P[d].inFlight <= Cardinality(Others(d, t)) /\ P[d].inFlight \in Nat
        /\ IsFiniteSet(Others(d, t)) /\ Cardinality(Others(d, t)) \in Nat
    BY <1>0, CallsFinite DEF Freed, Pools, Credential
  <2>2. CASE d = c
    <3>1. CallsOf(d)' = Others(d, t) \cup {t}
      BY <1>2, <1>5, <2>2 DEF CallsOf, Others, Calling
    <3>2. t \notin Others(d, t)
      BY DEF Others
    <3>3. Cardinality(CallsOf(d)') = Cardinality(Others(d, t)) + 1
      BY <2>1, <3>1, <3>2, FS_AddElement
    <3> QED  BY <1>3, <1>4, <2>1, <2>2, <3>3
  <2>3. CASE d # c
    <3>1. CallsOf(d)' = Others(d, t)
      BY <1>2, <1>5, <2>3 DEF CallsOf, Others, Calling
    <3> QED  BY <1>4, <2>1, <2>3, <3>1
  <2> QED  BY <2>2, <2>3
<1>9. ASSUME Waiting(P, B)
      PROVE  /\ Waiting(pool', B)
             /\ \A u \in Tasks : Starts(u) /\ task'[u].at.credential \in Credentials
                                   => May(B[task'[u].at])
             /\ (\A u \in Tasks \ {t} : Older(u, task, B)) => \A u \in Tasks : Older(u, task', B)
  <2>1. \A d \in Credentials : pool'[d].registered = P[d].registered /\ pool'[d].model = P[d].model
    BY <1>3, <1>4
  <2>2. Waiting(pool', B)
    BY <1>9, <2>1 DEF Waiting, Knows
  <2>3. c \in Credentials => May(B[cand])
    BY <1>0, <1>1, <1>9, UsableMay
  <2>4. (\A u \in Tasks \ {t} : Older(u, task, B)) => \A u \in Tasks : Older(u, task', B)
    BY <1>2, <1>5, <2>3 DEF Older
  <2> QED  BY <1>2, <1>5, <2>2, <2>3, <2>4 DEF Starts
<1> QED  BY <1>4, <1>5, <1>6, <1>7, <1>8, <1>9 DEF Leaves

\* The loop does one or the other.
LEMMA GoOnLeaves ==
  ASSUME TypeOK, NEW t \in Tasks, NEW P, Freed(t, P), NEW B \in Bars,
         NEW Q \in Seq(Candidate), NEW n \in Nat, NEW C, NEW X, GoOn(t, Q, n, P, C, X)
  PROVE  Leaves(t, P, B)
<1>1. CASE GivesUp(t, Q, n, P, C, X)
  BY <1>1, GivesUpLeaves DEF GivesUp
<1>2. ASSUME NEW i \in DOMAIN Q, Tries(t, i, Q, n, P, C, X)
      PROVE  Leaves(t, P, B)
  BY <1>2, TriesLeaves
<1> QED  BY <1>1, <1>2 DEF GoOn

-----------------------------------------------------------------------------
(* The steps one by one *)

\* A task that calls, and what it calls.
LEMMA CallTyped ==
  ASSUME TypeOK, NEW t \in Tasks, task[t].pc = "CALLING"
  PROVE  /\ task[t].at \in Candidate /\ task[t].at.model \in Models
         /\ task[t].queue \in Seq(Candidate) /\ task[t].tried \in Nat
<1>1. task[t] \in TaskState /\ task[t].at \in Candidate
  BY DEF TypeOK, Calling
<1> QED  BY <1>1 DEF TaskState, Candidate

\* The answer of a task gives its slot back, unless nothing was counted for it.
LEMMA AnswerFrees ==
  ASSUME RInv, NEW t \in Tasks, task[t].pc = "CALLING", NEW P \in Pools,
         \A d \in Credentials :
           /\ P[d].registered = pool[d].registered
           /\ P[d].inFlight = IF d = task[t].at.credential /\ pool[d].registered /\ pool[d].inFlight # 0
                              THEN pool[d].inFlight - 1 ELSE pool[d].inFlight
  PROVE  Freed(t, P)
<1> SUFFICES ASSUME NEW d \in Credentials
             PROVE  Gone(P[d]) /\ P[d].inFlight <= Cardinality(Others(d, t))
  BY DEF Freed
<1>1. /\ pool[d].inFlight \in Nat /\ Gone(pool[d])
      /\ pool[d].inFlight <= Cardinality(CallsOf(d))
  BY DEF RInv, TypeOK, Credential, SlotsComeBack
<1>2. Gone(P[d])
  BY <1>1 DEF Gone
<1>3. /\ Cardinality(CallsOf(d)) \in Nat /\ Cardinality(Others(d, t)) \in Nat
      /\ Cardinality(Others(d, t)) =
           IF t \in CallsOf(d) THEN Cardinality(CallsOf(d)) - 1 ELSE Cardinality(CallsOf(d))
  BY CallsFinite
<1>4. t \in CallsOf(d) <=> d = task[t].at.credential
  BY DEF CallsOf, Calling
<1>5. P[d].inFlight <= Cardinality(Others(d, t))
  BY <1>1, <1>3, <1>4 DEF Gone
<1> QED  BY <1>2, <1>5

\* The account of a call after one method, and then after its slot is given back.
LEMMA ReleasedOn ==
  ASSUME TypeOK, NEW c, NEW e, NEW told, told = OnAccount(pool, c, e),
         c \in Credentials => /\ e \in Credential /\ e.registered = pool[c].registered
                              /\ e.inFlight = pool[c].inFlight,
         NEW P, P = OnAccount(told, c, Released(Account(told, c)))
  PROVE  /\ P \in Pools
         /\ \A d \in Credentials :
              /\ P[d].registered = pool[d].registered
              /\ P[d].inFlight = IF d = c /\ pool[d].registered /\ pool[d].inFlight # 0
                                 THEN pool[d].inFlight - 1 ELSE pool[d].inFlight
              /\ P[d].model = IF d = c /\ pool[d].registered THEN e.model ELSE pool[d].model
<1>0. pool \in Pools /\ clock \in Nat
  BY DEF TypeOK, Pools
<1>1. /\ told \in Pools
      /\ \A d \in Credentials : told[d] = IF d = c /\ pool[c].registered THEN e ELSE pool[d]
  BY <1>0, OnAccountKeeps
<1> DEFINE l == Account(told, c)
           x == Released(l)
<1>2. c \in Credentials => /\ l \in Credential /\ l.inFlight = told[c].inFlight
                           /\ l.registered = told[c].registered /\ l.model = told[c].model
  <2> SUFFICES ASSUME c \in Credentials
               PROVE  /\ l \in Credential /\ l.inFlight = told[c].inFlight
                      /\ l.registered = told[c].registered /\ l.model = told[c].model
    OBVIOUS
  <2>1. told[c] \in Credential
    BY <1>1 DEF Pools
  <2> QED  BY <1>0, <2>1, LookedKeeps DEF Account
<1>3. c \in Credentials => /\ x \in Credential /\ x.model = l.model /\ x.registered = l.registered
                           /\ x.inFlight = IF l.inFlight = 0 THEN 0 ELSE l.inFlight - 1
  <2> HIDE DEF l
  <2> QED  BY <1>2, ReleasedKeeps
<1>4. /\ P \in Pools
      /\ \A d \in Credentials : P[d] = IF d = c /\ told[c].registered THEN x ELSE told[d]
  BY <1>1, <1>3, OnAccountKeeps
<1> HIDE DEF l, x
<1> QED  BY <1>1, <1>2, <1>3, <1>4

\* What a failure tells of one candidate, and of no other.
LEMMA BarTyped ==
  ASSUME TypeOK, NEW t \in Tasks, task[t].pc = "CALLING", NEW r \in Results
  PROVE  /\ Bar(t, r) \in Bars
         /\ \A x \in Candidate : x # task[t].at => Bar(t, r)[x] = barred[x]
         /\ r = "RATE_LIMITED" => Bar(t, r)[task[t].at].until = clock + PoolCooldown
         /\ r \in {"RATE_LIMITED", "QUOTA_EXCEEDED"} =>
              Bar(t, r)[task[t].at].late = {u \in Tasks \ {t} : Calling(u) /\ task[u].at = task[t].at}
         /\ r \notin {"RATE_LIMITED", "QUOTA_EXCEEDED"} => Bar(t, r) = barred
<1> DEFINE b == [until  |-> IF r = "RATE_LIMITED" THEN clock + PoolCooldown ELSE Forever,
                 late   |-> {u \in Tasks \ {t} : Calling(u) /\ task[u].at = task[t].at},
                 lifted |-> FALSE]
<1>1. barred \in Bars /\ clock + PoolCooldown \in Nat /\ Forever \in Nat
  BY DEF TypeOK, Forever, Bars
<1>2. task[t].at \in Candidate
  BY CallTyped
<1>3. /\ b \in [until: Nat, late: SUBSET Tasks, lifted: BOOLEAN]
      /\ r = "RATE_LIMITED" => b.until = clock + PoolCooldown
      /\ b.late = {u \in Tasks \ {t} : Calling(u) /\ task[u].at = task[t].at}
  BY <1>1
<1> HIDE DEF b
<1>4. CASE r \in {"RATE_LIMITED", "QUOTA_EXCEEDED"}
  <2>1. Bar(t, r) = [barred EXCEPT ![task[t].at] = b]
    BY <1>4 DEF Bar, b
  <2> QED  BY <1>1, <1>2, <1>3, <1>4, <2>1 DEF Bars
<1>5. CASE r \notin {"RATE_LIMITED", "QUOTA_EXCEEDED"}
  BY <1>1, <1>5 DEF Bar
<1> QED  BY <1>4, <1>5

\* What success lifts, of the same candidate only.
LEMMA LiftTyped ==
  ASSUME TypeOK, NEW t \in Tasks, task[t].pc = "CALLING"
  PROVE  /\ Lift(t) \in Bars
         /\ \A x \in Candidate : /\ Lift(t)[x].until = barred[x].until
                                 /\ Lift(t)[x].late = barred[x].late
                                 /\ x # task[t].at => Lift(t)[x] = barred[x]
                                 /\ barred[x].lifted => Lift(t)[x].lifted
         /\ t \in barred[task[t].at].late => Lift(t)[task[t].at].lifted
<1>1. barred \in Bars
  BY DEF TypeOK, Bars
<1>2. task[t].at \in Candidate
  BY CallTyped
<1> QED  BY <1>1, <1>2 DEF Lift, Bars

\* What the candidates of an account have to wait for, it knows.
LEMMA StillWaiting ==
  ASSUME RInv, NEW t \in Tasks, task[t].pc = "CALLING", NEW cand, cand = task[t].at,
         NEW r \in Results, NEW P \in Pools, NEW e,
         cand.credential \in Credentials =>
           /\ \A n \in Models \ {cand.model} : e.model[n] = pool[cand.credential].model[n]
           /\ r = "QUOTA_EXCEEDED" => e.model[cand.model].health = "QUOTA_EXCEEDED"
           /\ r = "RATE_LIMITED" => /\ e.model[cand.model].health = "RATE_LIMITED"
                                    /\ e.model[cand.model].until = clock + PoolCooldown
           /\ r \notin {"RATE_LIMITED", "QUOTA_EXCEEDED"} =>
                e.model = pool[cand.credential].model,
         \A d \in Credentials :
           /\ P[d].registered = pool[d].registered
           /\ P[d].model = IF d = cand.credential /\ pool[d].registered THEN e.model ELSE pool[d].model
  PROVE  Waiting(P, Bar(t, r))
<1> DEFINE B == Bar(t, r)
<1> SUFFICES ASSUME NEW x \in Candidate, x.credential \in Credentials, ~May(B[x])
             PROVE  Knows(P[x.credential], x.model, B[x].until)
  BY DEF Waiting
<1>0. TypeOK /\ clock \in Nat /\ clock + PoolCooldown \in Nat /\ cand \in Candidate
  BY CallTyped DEF RInv, TypeOK
<1>1. x.model \in Models
  BY DEF Candidate
<1>2. CASE x = cand /\ r \in {"RATE_LIMITED", "QUOTA_EXCEEDED"}
  <2>2. CASE ~pool[x.credential].registered
    BY <2>2 DEF Knows
  <2>3. CASE pool[x.credential].registered
    <3>1. P[x.credential].model = e.model
      BY <1>2, <2>3
    <3>2. r = "RATE_LIMITED" => B[x].until = clock + PoolCooldown
      BY <1>0, <1>2, BarTyped
    <3> HIDE DEF B
    <3> QED  BY <1>0, <1>2, <3>1, <3>2 DEF Knows
  <2> QED  BY <2>2, <2>3
<1>3. CASE x # cand \/ r \notin {"RATE_LIMITED", "QUOTA_EXCEEDED"}
  <2>1. B[x] = barred[x]
    BY <1>0, <1>3, BarTyped
  <2>2. Knows(pool[x.credential], x.model, barred[x].until)
    BY <2>1 DEF RInv, Waiting
  <2>3. P[x.credential].model[x.model] = pool[x.credential].model[x.model]
    <3>1. CASE x.credential # cand.credential \/ ~pool[x.credential].registered
      BY <3>1
    <3>2. CASE x.credential = cand.credential /\ x.model # cand.model
      BY <1>1, <3>2
    <3>3. CASE x.credential = cand.credential /\ x.model = cand.model
      <4>1. x = cand
        BY <1>0, <3>3 DEF Candidate
      <4> QED  BY <1>3, <3>3, <4>1
    <3> QED  BY <3>1, <3>2, <3>3
  <2> HIDE DEF B
  <2> QED  BY <2>1, <2>2, <2>3 DEF Knows
<1> QED  BY <1>2, <1>3

\* What a step promises besides the circuits.
Kept ==
  /\ pool' \in Pools /\ task' \in [Tasks -> TaskState]
  /\ \A u \in Tasks : Calling(u)' => task'[u].at \in Candidate
  /\ \A c \in Credentials : Gone(pool'[c])
  /\ SlotsComeBack'
  /\ clock' \in Nat /\ exhausted' \subseteq Providers /\ refused' \subseteq Providers
  /\ barred' \in Bars
  /\ Waiting(pool, barred)'
  /\ \A u \in Tasks : Older(u, task, barred)'
  /\ \A u \in Tasks : Starts(u) /\ task'[u].at.credential \in Credentials
                        => May(barred'[task'[u].at])

\* What the loop leaves keeps the invariant.
LEMMA LeavesKeep ==
  ASSUME TypeOK, NEW t \in Tasks, NEW P, Leaves(t, P, barred'), Waiting(P, barred'),
         \A u \in Tasks \ {t} : Older(u, task, barred'),
         barred' \in Bars, clock' = clock,
         exhausted' \subseteq Providers, refused' \subseteq Providers
  PROVE  Kept
BY DEF Kept, Leaves, TypeOK, Waiting, Older, May

LEMMA DispatchKeeps ==
  ASSUME RInv, NEW t \in Tasks, Dispatch(t)
  PROVE  Kept
<1>0. TypeOK /\ pool \in Pools
  BY DEF RInv, TypeOK, Pools
<1> DEFINE C == [m \in Models |-> Breaker!Refreshed(circuit[m], clock)]
<1>1. PICK ranked \in SetToSeqs(Eligible) : GoOn(t, ranked, 0, pool, C, exhausted)
  BY DEF Dispatch
<1> HIDE DEF C
<1>2. Freed(t, pool)
  <2> SUFFICES ASSUME NEW c \in Credentials
               PROVE  Gone(pool[c]) /\ pool[c].inFlight <= Cardinality(Others(c, t))
    BY <1>0 DEF Freed
  <2>1. t \notin CallsOf(c)
    BY DEF Dispatch, CallsOf, Calling
  <2> QED  BY <2>1 DEF RInv, SlotsComeBack, Others
<1>3. barred \in Bars
  BY <1>0 DEF TypeOK, Bars
<1>4. ranked \in Seq(Candidate)
  BY RankedTyped
<1>5. Leaves(t, pool, barred)
  BY <1>0, <1>1, <1>2, <1>3, <1>4, GoOnLeaves
<1> QED  BY <1>0, <1>3, <1>5, LeavesKeep DEF Dispatch, RInv, TypeOK

LEMMA AnsweredKeeps ==
  ASSUME RInv, NEW t \in Tasks, Answered(t)
  PROVE  Kept
<1> DEFINE cand == task[t].at
           c == cand.credential
           e == Succeeded(Account(pool, c), cand.model, clock)
<1>0. /\ TypeOK /\ task[t].pc = "CALLING" /\ pool \in Pools /\ clock \in Nat
      /\ cand \in Candidate /\ cand.model \in Models
  BY CallTyped DEF RInv, TypeOK, Answered, Pools
<1>1. /\ pool' = OnAccount(pool, c, Released(e))
      /\ task' = [task EXCEPT ![t] = Ended("SUCCESS")]
      /\ barred' = Lift(t) /\ UNCHANGED <<clock, exhausted, refused>>
  BY DEF Answered
<1>2. c \in Credentials => /\ e \in Credential /\ e.registered = pool[c].registered
                           /\ e.inFlight = pool[c].inFlight
                           /\ \A n \in Models \ {cand.model} : e.model[n] = pool[c].model[n]
  <2> SUFFICES ASSUME c \in Credentials
               PROVE  /\ e \in Credential /\ e.registered = pool[c].registered
                      /\ e.inFlight = pool[c].inFlight
                      /\ \A n \in Models \ {cand.model} : e.model[n] = pool[c].model[n]
    OBVIOUS
  <2>1. /\ Account(pool, c) \in Credential /\ Account(pool, c).registered = pool[c].registered
        /\ Account(pool, c).inFlight = pool[c].inFlight /\ Account(pool, c).model = pool[c].model
    <3>1. pool[c] \in Credential
      BY <1>0 DEF Pools
    <3> QED  BY <1>0, <3>1, LookedKeeps DEF Account
  <2> HIDE DEF cand
  <2>2. /\ e \in Credential /\ e.inFlight = Account(pool, c).inFlight
        /\ e.registered = Account(pool, c).registered
        /\ \A n \in Models \ {cand.model} : e.model[n] = Account(pool, c).model[n]
    BY <1>0, <2>1, SucceededKeeps
  <2> QED  BY <2>1, <2>2
<1> DEFINE x == Released(e)
<1>3. c \in Credentials => /\ x \in Credential /\ x.model = e.model /\ x.registered = e.registered
                           /\ x.inFlight = IF e.inFlight = 0 THEN 0 ELSE e.inFlight - 1
  <2> HIDE DEF e
  <2> QED  BY <1>2, ReleasedKeeps
<1>4. /\ pool' \in Pools
      /\ \A d \in Credentials : pool'[d] = IF d = c /\ pool[c].registered THEN x ELSE pool[d]
  <2> HIDE DEF x
  <2> QED  BY <1>0, <1>1, <1>3, OnAccountKeeps DEF x
<1> HIDE DEF x, e
<1>5. \A d \in Credentials :
        /\ pool'[d].registered = pool[d].registered
        /\ pool'[d].inFlight = IF d = c /\ pool[d].registered /\ pool[d].inFlight # 0
                               THEN pool[d].inFlight - 1 ELSE pool[d].inFlight
        /\ pool'[d].model = IF d = c /\ pool[d].registered THEN e.model ELSE pool[d].model
  BY <1>2, <1>3, <1>4
<1>6. Freed(t, pool')
  BY <1>0, <1>4, <1>5, AnswerFrees
<1>7. barred' \in Bars
  BY <1>0, <1>1, LiftTyped
<1>8. Waiting(pool', barred')
  <2> SUFFICES ASSUME NEW z \in Candidate, z.credential \in Credentials, ~May(barred'[z])
               PROVE  Knows(pool'[z.credential], z.model, barred'[z].until)
    BY DEF Waiting
  <2>1. ~May(barred[z]) /\ barred'[z].until = barred[z].until
    BY <1>0, <1>1, LiftTyped DEF May
  <2>2. Knows(pool[z.credential], z.model, barred[z].until)
    BY <2>1 DEF RInv, Waiting
  <2>3. z # cand
    <3> SUFFICES ASSUME z = cand PROVE FALSE
      OBVIOUS
    <3>1. Older(t, task, barred)
      BY DEF RInv
    <3>2. t \in barred[cand].late
      BY <1>0, <2>1, <3>1 DEF Older
    <3> QED  BY <1>0, <1>1, <3>2, LiftTyped DEF May
  <2>4. z.credential = c => z.model # cand.model /\ z.model \in Models
    BY <1>0, <2>3 DEF Candidate
  <2>5. pool'[z.credential].registered => pool'[z.credential].model[z.model] = pool[z.credential].model[z.model]
    <3>1. CASE z.credential # c \/ ~pool[c].registered
      BY <1>5, <3>1
    <3>2. CASE z.credential = c /\ pool[c].registered
      <4>1. e.model[z.model] = pool[c].model[z.model]
        BY <1>2, <2>4, <3>2
      <4> QED  BY <1>5, <3>2, <4>1
    <3> QED  BY <3>1, <3>2
  <2> QED  BY <1>5, <2>1, <2>2, <2>5 DEF Knows
<1>9. Leaves(t, pool', barred')
  BY <1>0, <1>1, <1>6, GivesUpLeaves
<1>10. \A u \in Tasks \ {t} : Older(u, task, barred')
  <2> SUFFICES ASSUME NEW u \in Tasks, task[u].pc = "CALLING", task[u].at.credential \in Credentials
               PROVE  May(barred'[task[u].at]) \/ u \in barred'[task[u].at].late
    BY DEF Older
  <2>1. task[u].at \in Candidate /\ Older(u, task, barred)
    BY <1>0, CallTyped DEF RInv
  <2> QED  BY <1>0, <1>1, <2>1, LiftTyped DEF Older, May
<1> QED  BY <1>0, <1>1, <1>7, <1>8, <1>9, <1>10, LeavesKeep DEF TypeOK

LEMMA EmptyKeeps ==
  ASSUME RInv, NEW t \in Tasks, Empty(t)
  PROVE  Kept
<1> DEFINE cand == task[t].at
           c == cand.credential
           P == OnAccount(pool, c, Released(Account(pool, c)))
<1>0. /\ TypeOK /\ task[t].pc = "CALLING" /\ pool \in Pools /\ clock \in Nat
      /\ cand \in Candidate /\ cand.model \in Models
      /\ task[t].queue \in Seq(Candidate) /\ task[t].tried \in Nat
  BY CallTyped DEF RInv, TypeOK, Empty, Pools
<1>1. /\ GoOn(t, task[t].queue, task[t].tried, P, Blamed(task[t].at.model), exhausted)
      /\ UNCHANGED <<clock, exhausted, refused, barred>>
  BY DEF Empty
<1>2. pool = OnAccount(pool, c, pool[c])
  BY <1>0 DEF OnAccount, Pools
<1>3. c \in Credentials => pool[c] \in Credential
  BY <1>0 DEF Pools
<1>4. /\ P \in Pools
      /\ \A d \in Credentials :
           /\ P[d].registered = pool[d].registered
           /\ P[d].inFlight = IF d = c /\ pool[d].registered /\ pool[d].inFlight # 0
                              THEN pool[d].inFlight - 1 ELSE pool[d].inFlight
           /\ P[d].model = IF d = c /\ pool[d].registered THEN pool[c].model ELSE pool[d].model
  <2> HIDE DEF c
  <2> QED  BY <1>0, <1>2, <1>3, ReleasedOn DEF P
<1> HIDE DEF P
<1>5. Freed(t, P)
  BY <1>0, <1>4, AnswerFrees
<1>6. Waiting(P, barred)
  BY <1>0, <1>4 DEF RInv, Waiting, Knows
<1>7. Leaves(t, P, barred)
  <2>1. barred \in Bars
    BY <1>0 DEF TypeOK, Bars
  <2> QED  BY <1>0, <1>1, <1>5, <2>1, GoOnLeaves
<1> QED  BY <1>0, <1>1, <1>6, <1>7, LeavesKeep DEF RInv, TypeOK, Bars

LEMMA FailedKeeps ==
  ASSUME RInv, NEW t \in Tasks, NEW r \in Results \ {"SUCCESS", "EMPTY"}, Failed(t, r)
  PROVE  Kept
<1> DEFINE cand == task[t].at
           c == cand.credential
           e == Told(Account(pool, c), cand.model, r)
           told == OnAccount(pool, c, e)
           P == OnAccount(told, c, Released(Account(told, c)))
<1>0. /\ TypeOK /\ task[t].pc = "CALLING" /\ pool \in Pools /\ clock \in Nat
      /\ cand \in Candidate /\ cand.model \in Models
      /\ task[t].queue \in Seq(Candidate) /\ task[t].tried \in Nat
  BY CallTyped DEF RInv, TypeOK, Failed, Pools
<1>1. PICK C : GoOn(t, task[t].queue, task[t].tried, P, C, exhausted')
  BY DEF Failed
<1>2. barred' = Bar(t, r) /\ UNCHANGED clock
  BY DEF Failed
<1>3. exhausted' \subseteq Providers /\ refused' \subseteq Providers
  <2>1. Provider(cand) \in Providers
    BY <1>0 DEF Provider
  <2> QED  BY <1>0, <2>1 DEF Failed, TypeOK
<1>4. c \in Credentials => /\ e \in Credential /\ e.registered = pool[c].registered
                           /\ e.inFlight = pool[c].inFlight
                           /\ \A n \in Models \ {cand.model} : e.model[n] = pool[c].model[n]
                           /\ r = "QUOTA_EXCEEDED" => e.model[cand.model].health = "QUOTA_EXCEEDED"
                           /\ r = "RATE_LIMITED" => /\ e.model[cand.model].health = "RATE_LIMITED"
                                                    /\ e.model[cand.model].until = clock + PoolCooldown
                           /\ r \notin {"QUOTA_EXCEEDED", "RATE_LIMITED"} => e.model = pool[c].model
  <2> SUFFICES ASSUME c \in Credentials
               PROVE  /\ e \in Credential /\ e.registered = pool[c].registered
                      /\ e.inFlight = pool[c].inFlight
                      /\ \A n \in Models \ {cand.model} : e.model[n] = pool[c].model[n]
                      /\ r = "QUOTA_EXCEEDED" => e.model[cand.model].health = "QUOTA_EXCEEDED"
                      /\ r = "RATE_LIMITED" => /\ e.model[cand.model].health = "RATE_LIMITED"
                                               /\ e.model[cand.model].until = clock + PoolCooldown
                      /\ r \notin {"QUOTA_EXCEEDED", "RATE_LIMITED"} => e.model = pool[c].model
    OBVIOUS
  <2>1. /\ Account(pool, c) \in Credential /\ Account(pool, c).registered = pool[c].registered
        /\ Account(pool, c).inFlight = pool[c].inFlight /\ Account(pool, c).model = pool[c].model
    <3>1. pool[c] \in Credential
      BY <1>0 DEF Pools
    <3> QED  BY <1>0, <3>1, LookedKeeps DEF Account
  <2> HIDE DEF cand
  <2>2. /\ e \in Credential /\ e.inFlight = Account(pool, c).inFlight
        /\ e.registered = Account(pool, c).registered
        /\ \A n \in Models \ {cand.model} : e.model[n] = Account(pool, c).model[n]
        /\ r \notin {"QUOTA_EXCEEDED", "RATE_LIMITED"} => e.model = Account(pool, c).model
        /\ r = "QUOTA_EXCEEDED" => e.model[cand.model].health = "QUOTA_EXCEEDED"
        /\ r = "RATE_LIMITED" => /\ e.model[cand.model].health = "RATE_LIMITED"
                                 /\ e.model[cand.model].until = clock + PoolCooldown
    BY <1>0, <2>1, ToldKeeps
  <2> QED  BY <2>1, <2>2
<1>5. /\ P \in Pools
      /\ \A d \in Credentials :
           /\ P[d].registered = pool[d].registered
           /\ P[d].inFlight = IF d = c /\ pool[d].registered /\ pool[d].inFlight # 0
                              THEN pool[d].inFlight - 1 ELSE pool[d].inFlight
           /\ P[d].model = IF d = c /\ pool[d].registered THEN e.model ELSE pool[d].model
  <2> HIDE DEF c, e
  <2> QED  BY <1>0, <1>4, ReleasedOn DEF P, told
<1> HIDE DEF P, e
<1>6. Freed(t, P)
  BY <1>0, <1>5, AnswerFrees
<1>7. r \in Results
  OBVIOUS
<1>8. Waiting(P, Bar(t, r))
  <2>1. cand = task[t].at
    OBVIOUS
  <2> HIDE DEF cand
  <2> QED  BY <1>0, <1>4, <1>5, <1>7, <2>1, StillWaiting
<1>9. barred' \in Bars
  BY <1>0, <1>2, <1>7, BarTyped
<1>10. Leaves(t, P, barred')
  BY <1>0, <1>1, <1>6, <1>9, GoOnLeaves
<1>11. \A u \in Tasks \ {t} : Older(u, task, barred')
  <2> SUFFICES ASSUME NEW u \in Tasks \ {t}, task[u].pc = "CALLING", task[u].at.credential \in Credentials
               PROVE  May(barred'[task[u].at]) \/ u \in barred'[task[u].at].late
    BY DEF Older
  <2>1. task[u].at \in Candidate /\ Older(u, task, barred)
    BY <1>0, CallTyped DEF RInv
  <2>2. CASE task[u].at = cand /\ r \in {"RATE_LIMITED", "QUOTA_EXCEEDED"}
    BY <1>0, <1>2, <1>7, <2>2, BarTyped DEF Calling
  <2>3. CASE task[u].at # cand \/ r \notin {"RATE_LIMITED", "QUOTA_EXCEEDED"}
    <3>1. barred'[task[u].at] = barred[task[u].at]
      BY <1>0, <1>2, <1>7, <2>1, <2>3, BarTyped
    <3> QED  BY <2>1, <3>1 DEF Older
  <2> QED  BY <2>2, <2>3
<1> QED  BY <1>0, <1>2, <1>3, <1>8, <1>9, <1>10, <1>11, LeavesKeep

LEMMA RegisterKeeps ==
  ASSUME RInv, NEW c \in Credentials, RegisterCredential(c) \/ RemoveCredential(c)
  PROVE  Kept
<1>0. /\ TypeOK /\ pool \in Pools /\ UNCHANGED <<clock, exhausted, refused, task>>
      /\ barred \in Bars
  BY DEF RInv, TypeOK, Pools, Bars, RegisterCredential, RemoveCredential
<1>1. PICK e \in Credential :
        /\ pool' = [pool EXCEPT ![c] = e] /\ e.inFlight = 0
        /\ e.registered => \A cand \in Candidate : cand.credential = c => barred'[cand] = Unbarred
  BY RegisteredTyped DEF RegisterCredential, RemoveCredential
<1>2. /\ barred' \in Bars
      /\ \A cand \in Candidate :
           \/ barred'[cand] = barred[cand]
           \/ cand.credential = c /\ barred'[cand] = Unbarred
  <2>1. Unbarred \in [until: Nat, late: SUBSET Tasks, lifted: BOOLEAN]
    BY DEF Unbarred
  <2>2. CASE RegisterCredential(c)
    <3>1. barred' = [cand \in Candidate |-> IF cand.credential = c THEN Unbarred ELSE barred[cand]]
      BY <2>2 DEF RegisterCredential
    <3> QED  BY <1>0, <2>1, <3>1 DEF Bars
  <2>3. CASE RemoveCredential(c)
    BY <1>0, <2>3 DEF RemoveCredential
  <2> QED  BY <2>2, <2>3
<1>u. May(Unbarred)
  BY <1>0 DEF May, Unbarred, TypeOK
<1>3. /\ pool' \in Pools /\ pool'[c] = e
      /\ \A d \in Credentials \ {c} : pool'[d] = pool[d]
  BY <1>0, <1>1 DEF Pools
<1>4. \A d \in Credentials : Gone(pool'[d])
  BY <1>1, <1>3 DEF Gone, RInv
<1>5. SlotsComeBack'
  <2> SUFFICES ASSUME NEW d \in Credentials
               PROVE  pool'[d].inFlight <= Cardinality(CallsOf(d)')
    BY DEF SlotsComeBack
  <2>1. CallsOf(d)' = CallsOf(d)
    BY <1>0 DEF CallsOf, Calling
  <2>2. Cardinality(CallsOf(d)) \in Nat
    BY CallsFinite
  <2> QED  BY <1>1, <1>3, <2>1, <2>2 DEF RInv, SlotsComeBack
<1>6. Waiting(pool, barred)'
  <2> SUFFICES ASSUME NEW x \in Candidate, x.credential \in Credentials, ~May(barred'[x])
               PROVE  Knows(pool'[x.credential], x.model, barred'[x].until)
    BY <1>0 DEF Waiting, May
  <2>1. CASE x.credential = c
    BY <1>0, <1>1, <1>3, <1>u, <2>1 DEF TypeOK, Knows
  <2>2. CASE x.credential # c
    BY <1>2, <1>3, <2>2 DEF RInv, Waiting
  <2> QED  BY <2>1, <2>2
<1>7. \A u \in Tasks : ~Starts(u)
  BY <1>0 DEF Starts
<1>8. \A u \in Tasks : Older(u, task, barred)'
  <2> SUFFICES ASSUME NEW u \in Tasks, task[u].pc = "CALLING", task[u].at.credential \in Credentials
               PROVE  May(barred'[task[u].at]) \/ u \in barred'[task[u].at].late
    BY <1>0 DEF Older, May
  <2>1. task[u].at \in Candidate /\ Older(u, task, barred)
    BY <1>0, CallTyped DEF RInv
  <2> QED  BY <1>2, <1>u, <2>1 DEF Older
<1> QED  BY <1>0, <1>2, <1>3, <1>4, <1>5, <1>6, <1>7, <1>8 DEF Kept, TypeOK, Calling

LEMMA TickKeeps ==
  ASSUME RInv, Tick \/ UNCHANGED vars
  PROVE  Kept
<1>0. TypeOK /\ clock \in Nat /\ UNCHANGED <<pool, exhausted, refused, task, barred>>
      /\ clock' \in {clock, clock + 1}
  BY DEF RInv, TypeOK, Tick, vars
<1>1. SlotsComeBack'
  BY <1>0 DEF RInv, SlotsComeBack, CallsOf, Calling
<1>a. barred \in Bars
  BY <1>0 DEF TypeOK, Bars
<1>b. \A x \in Candidate : May(barred[x]) => May(barred[x])'
  BY <1>0, <1>a DEF May, Bars
<1>2. Waiting(pool, barred)'
  BY <1>0, <1>b DEF RInv, Waiting
<1>c. \A u \in Tasks : Older(u, task, barred)'
  <2> SUFFICES ASSUME NEW u \in Tasks, task[u].pc = "CALLING", task[u].at.credential \in Credentials
               PROVE  May(barred[task[u].at])' \/ u \in barred'[task[u].at].late
    BY <1>0 DEF Older
  <2>1. task[u].at \in Candidate /\ Older(u, task, barred)
    BY <1>0, CallTyped DEF RInv
  <2> QED  BY <1>0, <1>b, <2>1 DEF Older
<1>3. \A u \in Tasks : ~Starts(u)
  BY <1>0 DEF Starts
<1> QED  BY <1>0, <1>a, <1>1, <1>2, <1>3, <1>c DEF Kept, TypeOK, Calling, RInv, Pools

\* Every step keeps the invariant.
LEMMA StepKeeps ==
  ASSUME RInv, [Next]_vars
  PROVE  Kept
BY DispatchKeeps, AnsweredKeeps, EmptyKeeps, FailedKeeps, RegisterKeeps, TickKeeps DEF Next, Answer

-----------------------------------------------------------------------------
(* What the orchestrator promises *)

LEMMA CircuitsAlways ==
  ASSUME RInv, [Next]_vars
  PROVE  CircuitsStep
<1>1. CASE UNCHANGED vars
  BY <1>1 DEF RInv, TypeOK, vars, CircuitsStep, Twice, Outcomes
<1> QED  BY <1>1, CircuitsKept DEF RInv

\* Nobody calls before the first dispatch.
LEMMA RInvInitially == Init => RInv
<1> SUFFICES ASSUME Init PROVE RInv
  OBVIOUS
<1>1. Breaker!Closed \in Breaker!Entry /\ Counted(Breaker!Closed)
  BY DEF Breaker!Closed, Breaker!Entry, Counted
<1>2. Ended("NEW") \in TaskState /\ \A t \in Tasks : ~Calling(t)
  BY DEF Ended, TaskState, Init, Calling
<1>3. TypeOK
  BY <1>1, <1>2, RegisteredTyped DEF Init, TypeOK, Unbarred
<1>4. \A c \in Credentials : CallsOf(c) = {}
  BY <1>2 DEF CallsOf
<1>5. SlotsComeBack
  <2> SUFFICES ASSUME NEW c \in Credentials
               PROVE  pool[c].inFlight <= Cardinality(CallsOf(c))
    BY DEF SlotsComeBack
  <2>1. Cardinality(CallsOf(c)) = 0
    BY <1>4, FS_EmptySet
  <2>2. pool[c].inFlight = 0
    BY RegisteredTyped DEF Init
  <2> QED  BY <2>1, <2>2
<1>6. Waiting(pool, barred) /\ \A u \in Tasks : Older(u, task, barred)
  BY <1>2 DEF Init, Waiting, Older, May, Unbarred, Calling
<1>7. \A c \in Credentials : Gone(pool[c])
  BY RegisteredTyped DEF Init, Gone
<1>8. \A m \in Models : Counted(circuit[m])
  BY <1>1 DEF Init
<1> QED  BY <1>3, <1>5, <1>6, <1>7, <1>8 DEF RInv

\* Every step keeps the invariant.
LEMMA RInvKept == RInv /\ [Next]_vars => RInv'
<1> SUFFICES ASSUME RInv, [Next]_vars PROVE RInv'
  OBVIOUS
<1>1. Kept /\ CircuitsStep
  BY StepKeeps, CircuitsAlways
<1>2. \A m \in Models : Counted(circuit'[m])
  <2> TAKE m \in Models
  <2>1. /\ clock \in Nat /\ circuit[m] \in Breaker!Entry /\ Counted(circuit[m])
        /\ circuit'[m] \in Twice(circuit[m])
    BY <1>1 DEF RInv, TypeOK, CircuitsStep
  <2>2. PICK x \in Outcomes(circuit[m]) : circuit'[m] \in Outcomes(x)
    BY <2>1 DEF Twice
  <2>3. x \in Breaker!Entry /\ Counted(x)
    BY <2>1, OutcomesTyped, OutcomesCounted
  <2> QED  BY <2>1, <2>2, <2>3, OutcomesCounted
<1> QED  BY <1>1, <1>2 DEF RInv, Kept, CircuitsStep, TypeOK, Pools, Bars

\* So it always holds.
LEMMA RInvAlways == Spec => []RInv
<1> QED  BY RInvInitially, RInvKept, PTL DEF Spec

\* Every state has its shape.
THEOREM Typed == Spec => []TypeOK
<1>1. RInv => TypeOK
  BY DEF RInv
<1> QED  BY <1>1, RInvAlways, PTL

\* No credential counts more calls than are in flight.
THEOREM SlotsAlwaysComeBack == Spec => []SlotsComeBack
<1>1. RInv => SlotsComeBack
  BY DEF RInv
<1> QED  BY <1>1, RInvAlways, PTL

\* A call that starts at an account waited as long as the account was last told to
\* for the model, unless an older call there succeeded since.
THEOREM ToldToWait == Spec => WaitsWhenTold
<1>1. RInv /\ [Next]_vars =>
        [\A t \in Tasks : Starts(t) /\ task'[t].at.credential \in Credentials
           => barred'[task'[t].at].until <= clock \/ barred'[task'[t].at].lifted]_vars
  BY StepKeeps DEF Kept, May
<1> QED  BY <1>1, RInvAlways, PTL DEF Spec, WaitsWhenTold

\* The closed circuit of a model counts failures in a row.
THEOREM CircuitsCount == Spec => []CircuitsCountFailuresInARow
<1>1. RInv => CircuitsCountFailuresInARow
  BY DEF RInv, Counted, CircuitsCountFailuresInARow, Breaker!CountsFailuresInARow
<1> QED  BY <1>1, RInvAlways, PTL

\* An open circuit stays open for its whole cooldown.
THEOREM CircuitsStay == Spec => CircuitsStayOpen
<1>1. RInv /\ [Next]_vars => [\A m \in Models : Breaker!StaysOpen(m)]_circuit
  <2> SUFFICES ASSUME RInv, [Next]_vars, NEW m \in Models, Shut(circuit[m])
               PROVE  circuit'[m].state = "OPEN" /\ circuit'[m].openedAt = circuit[m].openedAt
    BY DEF Breaker!StaysOpen, Shut
  <2>1. clock \in Nat /\ circuit[m] \in Breaker!Entry /\ circuit'[m] \in Twice(circuit[m])
    BY CircuitsAlways DEF RInv, TypeOK, CircuitsStep
  <2>2. PICK x \in Outcomes(circuit[m]) : circuit'[m] \in Outcomes(x)
    BY <2>1 DEF Twice
  <2>3. x \in Breaker!Entry /\ Shut(x) /\ x.openedAt = circuit[m].openedAt
    BY <2>1, OutcomesTyped, OutcomesShut
  <2> QED  BY <2>1, <2>2, <2>3, OutcomesShut DEF Shut
<1> QED  BY <1>1, RInvAlways, PTL DEF Spec, CircuitsStayOpen
=============================================================================
