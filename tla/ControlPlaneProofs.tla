------------------------- MODULE ControlPlaneProofs -------------------------
(***************************************************************************)
(* What the idempotency stores promise to any number of calls and keys,    *)
(* for every lifetime and budget.  A step is first reduced to what it does *)
(* to the store and to the fields of one call (Kind); the invariants are   *)
(* then kept by each kind.  What the budget counts needs the actions again  *)
(* (BInv).                                                                 *)
(***************************************************************************)
EXTENDS ControlPlane, FiniteSetTheorems, SequenceTheorems, TLAPS

USE IdempotencyAssumption, ControlPlaneAssumption

Legal(life) ==
  \A n \in 1..Len(life) - 1 : <<life[n], life[n + 1]>> \in AllowedTransitions

\* A lifecycle that is legal and has come to state s.
At(life, s) ==
  life \in Seq(LifecycleStates) /\ Legal(life) /\ life # <<>> /\ life[Len(life)] = s

\* Where the lifecycle of a call ends that was not handed another's answer.
Over(life, status) ==
  IF status = "THREW" THEN At(life, "CLASSIFIED") \/ At(life, "ANALYZED") ELSE At(life, "FINALIZED")

\* Where the lifecycle of a call is, given as the record r of call c.
LifeFits(r, c) ==
  /\ Legal(r.life)
  /\ r.stage = "asked" /\ r.key[1] = "pipeline" =>
       At(r.life, "INFERRED") \/ At(r.life, "CORRECTED")
  /\ r.stage = "done" /\ r.key[1] = "pipeline" /\ r.by = c => Over(r.life, r.status)

LifeSound(c) == LifeFits(call[c], c)

\* What a call's fields have to do with one another and with the clock.
CallSound(c) ==
  /\ call[c].stage # "new" =>
       call[c].key \in Keys /\ call[c].begun <= clock /\ call[c].ended <= clock
  /\ Asked(c) /\ Path(c) = "dispatch" => call[c].granted
  /\ call[c].stage = "done" => call[c].by \in Calls
  /\ Threw(c) => ~call[c].granted /\ Path(c) = "pipeline"

\* An answer in the store is one that was put there, and expires in time.
EntrySound(k) ==
  /\ store[k].status # "ABSENT" => store[k].exp <= clock + TTL
  /\ store[k].status = "COMPLETED" =>
       /\ store[k].by \in Calls /\ Stored(store[k].by)
       /\ call[store[k].by].key = k
       /\ call[store[k].by].ended <= clock
       /\ store[k].exp <= call[store[k].by].ended + TTL

CPInv ==
  /\ TypeOK
  /\ \A c \in Calls : CallSound(c) /\ LifeSound(c)
  /\ \A k \in Keys : EntrySound(k)
  /\ LockHasOwner
  /\ ReplaysAreFresh

-----------------------------------------------------------------------------
(* The store's operations *)

\* The methods of the idempotency manager keep the shape of its store.
LEMMA StoreTyped ==
  ASSUME NEW s \in [Keys -> Entry], NEW k \in Keys, NEW now \in Nat, NEW c \in Calls
  PROVE  /\ Cleaned(s, now) \in [Keys -> Entry]
         /\ Acquired(s, k, now) \in [Keys -> Entry]
         /\ Committed(s, k, c) \in [Keys -> Entry]
         /\ Released(s, k) \in [Keys -> Entry]
<1>a. Absent \in Entry
  BY DEF Absent, Entry
<1>1. Cleaned(s, now) \in [Keys -> Entry]
  BY <1>a DEF Cleaned
<1>2. [status |-> "IN_PROGRESS", exp |-> now + TTL, by |-> None] \in Entry
  BY DEF Entry
<1>3. Acquired(s, k, now) \in [Keys -> Entry]
  BY <1>1, <1>2 DEF Acquired
<1>4. Committed(s, k, c) \in [Keys -> Entry]
  BY DEF Committed, Entry
<1>5. Released(s, k) \in [Keys -> Entry]
  BY <1>a DEF Released
<1> QED  BY <1>1, <1>3, <1>4, <1>5

\* What acquire leaves of the other entries, and of its own.
LEMMA AcquireLeaves ==
  ASSUME NEW s \in [Keys -> Entry], NEW k \in Keys, NEW now \in Nat, NEW j \in Keys
  PROVE  \/ Acquired(s, k, now)[j] = s[j] /\ ~Expired(s[j], now)
         \/ Acquired(s, k, now)[j] = Absent /\ Expired(s[j], now)
         \/ /\ j = k
            /\ s[j].status = "ABSENT" \/ Expired(s[j], now)
            /\ Acquired(s, k, now)[j] = [status |-> "IN_PROGRESS", exp |-> now + TTL, by |-> None]
  BY DEF Acquired, Cleaned, Absent, Entry

\* acquire leaves an entry that has not expired alone ...
LEMMA AcquireKeeps ==
  ASSUME NEW s \in [Keys -> Entry], NEW k \in Keys, NEW now \in Nat, NEW j \in Keys,
         s[j].status # "ABSENT", now <= s[j].exp
  PROVE  Acquired(s, k, now)[j] = s[j]
  BY DEF Acquired, Cleaned, Absent, Entry, Expired

\* ... and locks a key that has none, or one that has expired, for TTL from now.
LEMMA AcquireLocks ==
  ASSUME NEW s \in [Keys -> Entry], NEW k \in Keys, NEW now \in Nat,
         ~(s[k].status = "IN_PROGRESS" /\ now <= s[k].exp), ~Replayable(s, k, now)
  PROVE  Acquired(s, k, now)[k] = [status |-> "IN_PROGRESS", exp |-> now + TTL, by |-> None]
  BY DEF Acquired, Cleaned, Absent, Entry, Replayable, Expired

-----------------------------------------------------------------------------
(* The kinds of steps *)

Others(c) == \A d \in Calls \ {c} : call'[d] = call[d]

\* Call c arrives with key k and ends at once.
EndsAtOnce(c, k, by) ==
  /\ call[c].stage = "new" /\ Others(c)
  /\ call'[c].stage = "done" /\ call'[c].key = k /\ ~call'[c].granted /\ call'[c].by = by
  /\ call'[c].begun = clock /\ call'[c].ended = clock

Empties(c, k) ==
  /\ EndsAtOnce(c, k, c) /\ call'[c].status # "THREW"
  /\ UNCHANGED <<store, shared>>

Replays(c, k) ==
  /\ Replayable(store, k, clock)
  /\ EndsAtOnce(c, k, store[k].by) /\ call'[c].status = call[store[k].by].status
  /\ store' = Acquired(store, k, clock) /\ UNCHANGED shared

Throws(c, k) ==
  /\ ~Replayable(store, k, clock)
  /\ EndsAtOnce(c, k, c) /\ call'[c].status = "THREW" /\ k[1] = "pipeline"
  /\ store' = Acquired(store, k, clock) /\ UNCHANGED shared

Refuses(c, k) ==
  /\ ~Replayable(store, k, clock)
  /\ EndsAtOnce(c, k, c) /\ call'[c].status # "THREW"
  /\ store' = Released(Acquired(store, k, clock), k) /\ Meets(k)

Begins(c, k) ==
  /\ ~Replayable(store, k, clock)
  /\ call[c].stage = "new" /\ Others(c)
  /\ call'[c].stage = "asked" /\ call'[c].key = k
  /\ call'[c].begun = clock /\ call'[c].ended = 0
  /\ k[1] = "dispatch" => call'[c].granted
  /\ store' = Acquired(store, k, clock) /\ Meets(k)

Closes(c) ==
  /\ Asked(c) /\ Others(c) /\ UNCHANGED shared
  /\ call'[c].stage = "done" /\ call'[c].key = call[c].key /\ call'[c].by = c
  /\ call'[c].begun = call[c].begun /\ call'[c].ended = clock
  /\ call'[c].granted = call[c].granted /\ call'[c].status # "THREW"

Commits(c) ==
  /\ Closes(c) /\ store' = Committed(store, call[c].key, c)
  /\ call[c].granted
  /\ Path(c) = "dispatch" \/ call'[c].status \in {"COMPLETED", "VERIFICATION_FAILED"}

Drops(c) ==
  /\ Closes(c) /\ store' = Released(store, call[c].key)
  /\ Path(c) = "pipeline" /\ call'[c].status \notin {"COMPLETED", "VERIFICATION_FAILED"}

Repeats(c) ==
  /\ Asked(c) /\ Others(c) /\ UNCHANGED <<store, shared>>
  /\ call'[c].stage = "asked" /\ call'[c].key = call[c].key
  /\ call'[c].begun = call[c].begun /\ call'[c].ended = call[c].ended
  /\ Path(c) = "pipeline"

Kind ==
  \/ clock' = clock + 1 /\ UNCHANGED <<store, call, shared>>
  \/ /\ UNCHANGED clock
     /\ \E c \in Calls :
          \/ \E k \in Keys : \/ Empties(c, k) \/ Replays(c, k) \/ Throws(c, k)
                           \/ Refuses(c, k) \/ Begins(c, k)
          \/ Commits(c) \/ Drops(c) \/ Repeats(c)

\* A request that ends at once is a step of kind EndsAtOnce.
LEMMA EndsIsOfAKind ==
  ASSUME TypeOK, NEW c \in Calls, NEW k, NEW status, NEW by, NEW life,
         call[c].stage = "new", Ends(c, k, status, by, life)
  PROVE  EndsAtOnce(c, k, by) /\ call'[c].status = status
  BY DEF TypeOK, Ends, EndsAtOnce, Others

\* One that asks the gateway opens a call.
LEMMA AsksIsOfAKind ==
  ASSUME TypeOK, NEW c \in Calls, NEW k, NEW life, Asks(c, k, life)
  PROVE  /\ Others(c)
         /\ call'[c].stage = "asked" /\ call'[c].key = k
         /\ call'[c].begun = clock /\ call'[c].ended = 0
         /\ call'[c].granted = WithinBudget
  BY DEF TypeOK, Asks, Others

\* An answer of the gateway closes a call.
LEMMA FinishesIsOfAKind ==
  ASSUME TypeOK, NEW c \in Calls, NEW status, NEW life,
         Asked(c), UNCHANGED shared, Finishes(c, status, life), status # "THREW"
  PROVE  Closes(c) /\ call'[c].status = status
  BY DEF TypeOK, CallRecord, Finishes, Closes, Others

\* The invariants below see of a step only its kind.
LEMMA NextIsOfAKind ==
  ASSUME CPInv, Next
  PROVE  Kind
<1> USE DEF CPInv
<1>1. CASE Tick
  BY <1>1 DEF Tick, Kind
<1>2. ASSUME NEW c \in Calls, NEW i \in Ids, RequestDispatch(c, i)
      PROVE  Kind
  <2> DEFINE k == <<"dispatch", i>>
  <2>k. k \in Keys /\ k[1] = "dispatch" /\ call[c].stage = "new"
    BY <1>2 DEF RequestDispatch
  <2> HIDE DEF k
  <2>1. CASE DispatchReplays(c, k)
    <3>1. Replays(c, k)
      BY <2>1, <2>k, EndsIsOfAKind DEF DispatchReplays, Replays
    <3> QED  BY <2>1, <2>k, <3>1 DEF DispatchReplays, Kind
  <2>2. CASE DispatchRefused(c, k)
    <3>1. Refuses(c, k)
      BY <2>2, <2>k, EndsIsOfAKind DEF DispatchRefused, Refuses
    <3> QED  BY <2>2, <2>k, <3>1 DEF DispatchRefused, Kind
  <2>3. CASE DispatchAsks(c, k)
    <3>1. Begins(c, k)
      BY <2>3, <2>k, AsksIsOfAKind DEF DispatchAsks, Begins
    <3> QED  BY <2>3, <2>k, <3>1 DEF DispatchAsks, Kind
  <2> QED  BY <1>2, <2>1, <2>2, <2>3 DEF RequestDispatch, k
<1>3. ASSUME NEW c \in Calls, NEW i \in Ids, RequestPipeline(c, i)
      PROVE  Kind
  <2> DEFINE k == <<"pipeline", i>>
  <2>k. k \in Keys /\ k[1] = "pipeline" /\ call[c].stage = "new"
    BY <1>3 DEF RequestPipeline
  <2> HIDE DEF k
  <2>0. CASE PipelineEmpty(c, k)
    <3>1. Empties(c, k)
      BY <2>0, <2>k, EndsIsOfAKind DEF PipelineEmpty, Empties
    <3> QED  BY <2>0, <2>k, <3>1 DEF PipelineEmpty, Kind
  <2>1. CASE PipelineReplays(c, k)
    <3>1. Replays(c, k)
      BY <2>1, <2>k, EndsIsOfAKind DEF PipelineReplays, Replays
    <3> QED  BY <2>1, <2>k, <3>1 DEF PipelineReplays, Kind
  <2>4. CASE PipelineThrows(c, k)
    <3>1. Throws(c, k)
      BY <2>4, <2>k, EndsIsOfAKind DEF PipelineThrows, Throws
    <3> QED  BY <2>4, <2>k, <3>1 DEF PipelineThrows, Kind
  <2>2. CASE PipelineRefused(c, k)
    <3>1. Refuses(c, k)
      BY <2>2, <2>k, EndsIsOfAKind DEF PipelineRefused, Refuses
    <3> QED  BY <2>2, <2>k, <3>1 DEF PipelineRefused, Kind
  <2>3. CASE PipelineAsks(c, k)
    <3>1. Begins(c, k)
      BY <2>3, <2>k, AsksIsOfAKind DEF PipelineAsks, Begins
    <3> QED  BY <2>3, <2>k, <3>1 DEF PipelineAsks, Kind
  <2> QED  BY <1>3, <2>0, <2>1, <2>2, <2>3, <2>4 DEF RequestPipeline, k
<1>4. ASSUME NEW c \in Calls, DispatchSucceeds(c) \/ DispatchFails(c)
      PROVE  Kind
  <2>1. Commits(c)
    BY <1>4, FinishesIsOfAKind DEF DispatchSucceeds, DispatchFails, Commits, CallSound
  <2> QED  BY <1>4, <2>1 DEF DispatchSucceeds, DispatchFails, Kind
<1>5. ASSUME NEW c \in Calls, PipelineFinal(c)
      PROVE  Kind
  <2>1. Commits(c)
    BY <1>5, FinishesIsOfAKind DEF PipelineFinal, Commits
  <2> QED  BY <1>5, <2>1 DEF PipelineFinal, Kind
<1>6. ASSUME NEW c \in Calls, PipelineFails(c)
      PROVE  Kind
  <2>1. Drops(c)
    BY <1>6, FinishesIsOfAKind DEF PipelineFails, Drops
  <2> QED  BY <1>6, <2>1 DEF PipelineFails, Kind
<1>7. ASSUME NEW c \in Calls, PipelineCorrects(c)
      PROVE  Kind
  <2>1. Repeats(c)
    BY <1>7 DEF PipelineCorrects, Retried, Repeats, Others, TypeOK, CallRecord, Asked
  <2> QED  BY <1>7, <2>1 DEF PipelineCorrects, Kind
<1> QED  BY <1>1, <1>2, <1>3, <1>4, <1>5, <1>6, <1>7 DEF Next

-----------------------------------------------------------------------------
(* Lifecycles *)

\* A lifecycle goes on along the table.
LEMMA LegalStep ==
  ASSUME NEW life, NEW s \in LifecycleStates, NEW t \in LifecycleStates,
         At(life, s), <<s, t>> \in AllowedTransitions
  PROVE  At(Append(life, t), t)
<1> DEFINE longer == Append(life, t)
<1>1. /\ life \in Seq(LifecycleStates) /\ Len(life) \in Nat /\ Len(life) >= 1
      /\ life[Len(life)] = s
  BY DEF At
<1>2. /\ longer \in Seq(LifecycleStates) /\ Len(longer) = Len(life) + 1
      /\ \A n \in 1..Len(life) : longer[n] = life[n]
      /\ longer[Len(life) + 1] = t
  BY <1>1
<1>3. ASSUME NEW n \in 1..Len(longer) - 1
      PROVE  <<longer[n], longer[n + 1]>> \in AllowedTransitions
  <2>1. CASE n = Len(life)
    BY <2>1, <1>1, <1>2
  <2>2. CASE n # Len(life)
    <3>1. n \in 1..Len(life) - 1 /\ n + 1 \in 1..Len(life)
      BY <2>2, <1>1, <1>2
    <3>2. <<life[n], life[n + 1]>> \in AllowedTransitions
      BY <3>1 DEF At, Legal
    <3> QED  BY <3>1, <3>2, <1>2
  <2> QED  BY <2>1, <2>2
<1>4. longer # <<>>
  BY <1>1, <1>2
<1> QED  BY <1>1, <1>2, <1>3, <1>4 DEF At, Legal

\* The rows of the table that the pipeline uses.
LEMMA TransitionsOf ==
  /\ \A s \in LifecycleStates \ {"FINALIZED"} : <<s, "FINALIZED">> \in AllowedTransitions
  /\ {<<"RECEIVED", "VALIDATED">>, <<"VALIDATED", "CLASSIFIED">>, <<"CLASSIFIED", "ANALYZED">>,
      <<"ANALYZED", "ROUTED">>, <<"ROUTED", "INFERRED">>, <<"INFERRED", "NORMALIZED">>,
      <<"NORMALIZED", "VERIFIED">>, <<"VERIFIED", "CORRECTED">>,
      <<"CORRECTED", "NORMALIZED">>} \subseteq AllowedTransitions
  BY DEF AllowedTransitions

\* The lifecycles a request arrives with are legal.
LEMMA LivesBegin ==
  /\ At(Received, "VALIDATED")
  /\ At(Routed, "ROUTED")
  /\ At(Classified, "CLASSIFIED") /\ At(Analyzed, "ANALYZED")
  /\ At(Append(Classified, "FINALIZED"), "FINALIZED")
<1> USE TransitionsOf DEF LifecycleStates
<1>1. At(<<"RECEIVED">>, "RECEIVED")
  BY DEF At, Legal
<1>2. At(Received, "VALIDATED")
  <2>1. Received = Append(<<"RECEIVED">>, "VALIDATED")
    BY DEF Received
  <2> QED  BY <1>1, <2>1, LegalStep
<1>3. At(Classified, "CLASSIFIED")
  BY <1>2, LegalStep DEF Classified
<1>4. At(Analyzed, "ANALYZED")
  BY <1>3, LegalStep DEF Analyzed
<1>5. At(Routed, "ROUTED")
  BY <1>4, LegalStep DEF Routed
<1>6. At(Append(Classified, "FINALIZED"), "FINALIZED")
  BY <1>3, LegalStep
<1> QED  BY <1>2, <1>3, <1>4, <1>5, <1>6

-----------------------------------------------------------------------------
(* Types and lifecycles are kept *)

TypedAndAlive == TypeOK /\ \A c \in Calls : LifeSound(c)

\* A call keeps its shape when one field is assigned.
LEMMA FieldsTyped ==
  ASSUME NEW r \in CallRecord, NEW n \in Nat, NEW c \in Calls, NEW status \in Statuses,
         NEW life \in Seq(LifecycleStates)
  PROVE  /\ [r EXCEPT !.stage = "done"] \in CallRecord
         /\ [r EXCEPT !.ended = n] \in CallRecord
         /\ [r EXCEPT !.status = status] \in CallRecord
         /\ [r EXCEPT !.by = c] \in CallRecord
         /\ [r EXCEPT !.life = life] \in CallRecord
  BY DEF CallRecord

LEMMA FinishedTyped ==
  ASSUME NEW r \in CallRecord, NEW n \in Nat, NEW c \in Calls, NEW status \in Statuses,
         NEW life \in Seq(LifecycleStates)
  PROVE  [r EXCEPT !.stage = "done", !.ended = n, !.status = status, !.by = c, !.life = life]
           \in CallRecord
<1> DEFINE r1 == [r EXCEPT !.stage = "done"]
           r2 == [r1 EXCEPT !.ended = n]
           r3 == [r2 EXCEPT !.status = status]
           r4 == [r3 EXCEPT !.by = c]
           r5 == [r4 EXCEPT !.life = life]
<1>1. r5 = [r EXCEPT !.stage = "done", !.ended = n, !.status = status, !.by = c, !.life = life]
  OBVIOUS
<1>2. r1 \in CallRecord
  BY FieldsTyped
<1> HIDE DEF r1
<1>3. r2 \in CallRecord
  BY <1>2, FieldsTyped
<1> HIDE DEF r2
<1>4. r3 \in CallRecord
  BY <1>3, FieldsTyped
<1> HIDE DEF r3
<1>5. r4 \in CallRecord
  BY <1>4, FieldsTyped
<1> HIDE DEF r4
<1>6. r5 \in CallRecord
  BY <1>5, FieldsTyped
<1> QED  BY <1>6, <1>1

\* A call that no step touches keeps its lifecycle.
LEMMA LifeStays ==
  ASSUME TypeOK, NEW d \in Calls, LifeSound(d), call'[d] = call[d]
  PROVE  LifeSound(d)'
  BY DEF LifeSound

LEMMA EndsTyped ==
  ASSUME TypeOK, \A d \in Calls : LifeSound(d),
         NEW c \in Calls, NEW k \in Keys, NEW status \in Statuses \cup {None}, NEW by \in Calls,
         NEW life \in Seq(LifecycleStates), Legal(life),
         k[1] = "pipeline" /\ by = c => Over(life, status),
         Ends(c, k, status, by, life)
  PROVE  call' \in [Calls -> CallRecord] /\ \A d \in Calls : LifeSound(d)'
<1> DEFINE e == [stage |-> "done", key |-> k, begun |-> clock, ended |-> clock,
                 granted |-> FALSE, life |-> life, cycle |-> 0, status |-> status, by |-> by]
<1>1. e \in CallRecord
  BY DEF CallRecord, TypeOK
<1>2. LifeFits(e, c)
  BY DEF LifeFits
<1>3. call' = [call EXCEPT ![c] = e]
  BY DEF Ends
<1> HIDE DEF e
<1>4. call' \in [Calls -> CallRecord] /\ call'[c] = e /\ \A d \in Calls \ {c} : call'[d] = call[d]
  BY <1>1, <1>3 DEF TypeOK
<1>5. LifeSound(c)'
  BY <1>2, <1>4 DEF LifeSound
<1> QED  BY <1>4, <1>5, LifeStays

LEMMA AsksTyped ==
  ASSUME TypeOK, \A d \in Calls : LifeSound(d),
         NEW c \in Calls, NEW k \in Keys,
         NEW life \in Seq(LifecycleStates), Legal(life),
         k[1] = "pipeline" => At(life, "INFERRED"),
         Asks(c, k, life)
  PROVE  call' \in [Calls -> CallRecord] /\ \A d \in Calls : LifeSound(d)'
<1> DEFINE e == [stage |-> "asked", key |-> k, begun |-> clock, ended |-> 0,
                 granted |-> WithinBudget, life |-> life, cycle |-> 0,
                 status |-> None, by |-> None]
<1>1. e \in CallRecord
  BY DEF CallRecord, TypeOK, WithinBudget
<1>2. LifeFits(e, c)
  BY DEF LifeFits
<1>3. call' = [call EXCEPT ![c] = e]
  BY DEF Asks
<1> HIDE DEF e
<1>4. call' \in [Calls -> CallRecord] /\ call'[c] = e /\ \A d \in Calls \ {c} : call'[d] = call[d]
  BY <1>1, <1>3 DEF TypeOK
<1>5. LifeSound(c)'
  BY <1>2, <1>4 DEF LifeSound
<1> QED  BY <1>4, <1>5, LifeStays

LEMMA FinishesTyped ==
  ASSUME TypeOK, \A d \in Calls : LifeSound(d),
         NEW c \in Calls, call[c].key \in Keys, NEW status \in Statuses \ {"THREW"},
         NEW life \in Seq(LifecycleStates), Legal(life),
         Path(c) = "pipeline" => At(life, "FINALIZED"),
         Finishes(c, status, life)
  PROVE  call' \in [Calls -> CallRecord] /\ \A d \in Calls : LifeSound(d)'
<1>1. call' \in [Calls -> CallRecord]
  <2> DEFINE r == call[c]
             e == [r EXCEPT !.stage = "done", !.ended = clock, !.status = status,
                            !.by = c, !.life = life]
  <2>1. r \in CallRecord /\ clock \in Nat
    BY DEF TypeOK
  <2>2. e \in CallRecord
    <3> HIDE DEF r
    <3> QED  BY <2>1, FinishedTyped
  <2>3. call' = [call EXCEPT ![c] = e]
    BY DEF Finishes, TypeOK
  <2> HIDE DEF e
  <2> QED  BY <2>2, <2>3 DEF TypeOK
<1>2. /\ call'[c].stage = "done" /\ call'[c].key = call[c].key /\ call'[c].life = life
      /\ call'[c].status = status /\ \A d \in Calls \ {c} : call'[d] = call[d]
  BY DEF Finishes, CallRecord, TypeOK
<1>3. LifeSound(c)'
  BY <1>2 DEF LifeSound, LifeFits, Path, Over
<1> QED  BY <1>1, <1>2, <1>3, LifeStays

LEMMA RetriedTyped ==
  ASSUME TypeOK, \A d \in Calls : LifeSound(d),
         NEW c \in Calls, Asked(c), call[c].cycle < MaxCorrections,
         At(Append(Inferred(c), "CORRECTED"), "CORRECTED"), Retried(c)
  PROVE  call' \in [Calls -> CallRecord] /\ \A d \in Calls : LifeSound(d)'
<1> DEFINE r == call[c]
           r1 == [r EXCEPT !.cycle = @ + 1]
           b == used + 1 < MaxCalls
           r2 == [r1 EXCEPT !.granted = b]
           r3 == [r2 EXCEPT !.life = Append(Inferred(c), "CORRECTED")]
<1>1. /\ r \in CallRecord /\ r.cycle < MaxCorrections
      /\ Append(Inferred(c), "CORRECTED") \in Seq(LifecycleStates)
  BY DEF TypeOK, At
<1>2. call' = [call EXCEPT ![c] = r3]
  BY DEF Retried, TypeOK
<1>3. LifeFits(r3, c)
  BY <1>1 DEF LifeFits, CallRecord, Asked, At
<1> HIDE DEF r
<1>4. r1 \in CallRecord
  <2>1. r.cycle + 1 \in 0..MaxCorrections
    BY <1>1 DEF CallRecord
  <2> QED  BY <1>1, <2>1 DEF CallRecord
<1> HIDE DEF r1
<1>5. r2 \in CallRecord
  <2>1. b \in BOOLEAN
    OBVIOUS
  <2> HIDE DEF b
  <2> QED  BY <1>4, <2>1 DEF CallRecord
<1> HIDE DEF r2
<1>6. r3 \in CallRecord
  BY <1>1, <1>5 DEF CallRecord
<1> HIDE DEF r3
<1>7. /\ call' \in [Calls -> CallRecord] /\ call'[c] = r3
      /\ \A d \in Calls \ {c} : call'[d] = call[d]
  BY <1>2, <1>6 DEF TypeOK
<1>8. LifeSound(c)'
  BY <1>3, <1>7 DEF LifeSound
<1> QED  BY <1>7, <1>8, LifeStays

LEMMA LogTyped ==
  ASSUME trail \in [Calls -> Seq(Events)], NEW c \in Calls, NEW events \in Seq(Events),
         Log(c, events)
  PROVE  trail' \in [Calls -> Seq(Events)]
<1>1. trail[c] \o events \in Seq(Events)
  BY ConcatProperties
<1> QED  BY <1>1 DEF Log

\* What makes a stored answer one to hand out.
LEMMA ReplayableGives ==
  ASSUME TypeOK, NEW k \in Keys, EntrySound(k), Replayable(store, k, clock)
  PROVE  /\ store[k].status = "COMPLETED" /\ ~Expired(store[k], clock)
         /\ store[k].by \in Calls /\ Stored(store[k].by)
  BY DEF TypeOK, Replayable, Cleaned, Absent, EntrySound

\* Every step keeps the types and the lifecycles, one case per action.
LEMMA NextTyped ==
  ASSUME CPInv, Next
  PROVE  TypedAndAlive'
<1> USE DEF CPInv
<1>0. /\ clock \in Nat /\ used \in Nat /\ store \in [Keys -> Entry] /\ shared \subseteq Keys
      /\ call \in [Calls -> CallRecord] /\ trail \in [Calls -> Seq(Events)]
  BY DEF TypeOK
<1>t. ASSUME store' \in [Keys -> Entry], used' \in Nat, call' \in [Calls -> CallRecord],
             trail' \in [Calls -> Seq(Events)], shared' \subseteq Keys, UNCHANGED clock,
             \A d \in Calls : LifeSound(d)'
      PROVE  TypedAndAlive'
  BY <1>t DEF TypedAndAlive, TypeOK
<1>l. \A life \in Seq(LifecycleStates) : \A s : At(life, s) => Legal(life)
  BY DEF At
<1>1. CASE Tick
  <2>1. clock' \in 0..MaxClock /\ UNCHANGED <<store, used, call, trail, shared>>
    BY <1>1, <1>0 DEF Tick, TypeOK
  <2> QED  BY <2>1 DEF TypedAndAlive, TypeOK, LifeSound
<1>2. ASSUME NEW c \in Calls, NEW i \in Ids, RequestDispatch(c, i)
      PROVE  TypedAndAlive'
  <2> DEFINE k == <<"dispatch", i>>
  <2>k. k \in Keys /\ k[1] # "pipeline" /\ call[c].stage = "new"
    BY <1>2 DEF RequestDispatch
  <2> HIDE DEF k
  <2>l. <<>> \in Seq(LifecycleStates) /\ Legal(<<>>)
    BY DEF Legal
  <2>1. CASE DispatchReplays(c, k)
    <3>1. store[k].by \in Calls /\ call[store[k].by].status \in Statuses \cup {None}
      BY <2>1, <2>k, <1>0, ReplayableGives DEF DispatchReplays, CallRecord
    <3>2. call' \in [Calls -> CallRecord] /\ \A d \in Calls : LifeSound(d)'
      BY <2>1, <2>k, <2>l, <3>1, EndsTyped DEF DispatchReplays
    <3> QED  BY <2>1, <2>k, <3>2, <1>0, <1>t, StoreTyped DEF DispatchReplays
  <2>2. CASE DispatchRefused(c, k)
    <3>1. call' \in [Calls -> CallRecord] /\ \A d \in Calls : LifeSound(d)'
      BY <2>2, <2>k, <2>l, EndsTyped DEF DispatchRefused, Statuses
    <3>2. trail' \in [Calls -> Seq(Events)]
      <4>1. <<"STARTED", "FAILED">> \in Seq(Events)
        BY DEF Events
      <4> QED  BY <2>2, <1>0, <4>1, LogTyped DEF DispatchRefused
    <3> QED  BY <2>2, <2>k, <3>1, <3>2, <1>0, <1>t, StoreTyped DEF DispatchRefused, Meets
  <2>3. CASE DispatchAsks(c, k)
    <3>1. call' \in [Calls -> CallRecord] /\ \A d \in Calls : LifeSound(d)'
      BY <2>3, <2>k, <2>l, AsksTyped DEF DispatchAsks
    <3>2. trail' \in [Calls -> Seq(Events)]
      <4>1. <<"STARTED", "SELECTED">> \in Seq(Events)
        BY DEF Events
      <4> QED  BY <2>3, <1>0, <4>1, LogTyped DEF DispatchAsks
    <3> QED  BY <2>3, <2>k, <3>1, <3>2, <1>0, <1>t, StoreTyped DEF DispatchAsks, Meets
  <2> QED  BY <1>2, <2>1, <2>2, <2>3 DEF RequestDispatch, k
<1>3. ASSUME NEW c \in Calls, NEW i \in Ids, RequestPipeline(c, i)
      PROVE  TypedAndAlive'
  <2> DEFINE k == <<"pipeline", i>>
  <2>k. k \in Keys /\ k[1] = "pipeline" /\ call[c].stage = "new"
    BY <1>3 DEF RequestPipeline
  <2> HIDE DEF k
  <2>0. CASE PipelineEmpty(c, k)
    <3>1. At(Append(Received, "FINALIZED"), "FINALIZED")
      BY LivesBegin, LegalStep, TransitionsOf DEF LifecycleStates
    <3>2. call' \in [Calls -> CallRecord] /\ \A d \in Calls : LifeSound(d)'
      BY <2>0, <2>k, <3>1, EndsTyped DEF PipelineEmpty, Statuses, At, Over
    <3> QED  BY <2>0, <3>2, <1>0, <1>t DEF PipelineEmpty
  <2>1. CASE PipelineReplays(c, k)
    <3>1. /\ store[k].by \in Calls /\ call[store[k].by].status \in Statuses \cup {None}
          /\ store[k].by # c
      BY <2>1, <2>k, <1>0, ReplayableGives DEF PipelineReplays, CallRecord, Stored
    <3>2. Received \in Seq(LifecycleStates) /\ Legal(Received)
      BY LivesBegin DEF At
    <3>3. call' \in [Calls -> CallRecord] /\ \A d \in Calls : LifeSound(d)'
      BY <2>1, <2>k, <3>1, <3>2, EndsTyped DEF PipelineReplays
    <3> QED  BY <2>1, <2>k, <3>3, <1>0, <1>t, StoreTyped DEF PipelineReplays
  <2>4. CASE PipelineThrows(c, k)
    <3>1. PICK life \in {Classified, Analyzed} : Ends(c, k, "THREW", c, life)
      BY <2>4 DEF PipelineThrows
    <3>2. At(life, "CLASSIFIED") \/ At(life, "ANALYZED")
      BY <3>1, LivesBegin
    <3>3. call' \in [Calls -> CallRecord] /\ \A d \in Calls : LifeSound(d)'
      BY <2>k, <3>1, <3>2, EndsTyped DEF At, Over, Statuses
    <3> QED  BY <2>4, <2>k, <3>3, <1>0, <1>t, StoreTyped DEF PipelineThrows
  <2>2. CASE PipelineRefused(c, k)
    <3>1. At(Append(Routed, "FINALIZED"), "FINALIZED")
      BY LivesBegin, LegalStep, TransitionsOf DEF LifecycleStates
    <3>2. call' \in [Calls -> CallRecord] /\ \A d \in Calls : LifeSound(d)'
      <4>1. ASSUME NEW status \in {"FAILED", "SECURITY_BLOCKED", "BUDGET_EXCEEDED"}, NEW life,
                   At(life, "FINALIZED"), Ends(c, k, status, c, life)
            PROVE  call' \in [Calls -> CallRecord] /\ \A d \in Calls : LifeSound(d)'
        <5>1. status \in Statuses /\ status # "THREW"
          BY <4>1 DEF Statuses
        <5> QED  BY <2>k, <4>1, <5>1, EndsTyped DEF At, Over
      <4>2. CASE Ends(c, k, "BUDGET_EXCEEDED", c, Append(Classified, "FINALIZED"))
        BY <4>1, <4>2, LivesBegin
      <4>3. CASE \E status \in {"FAILED", "SECURITY_BLOCKED", "BUDGET_EXCEEDED"} :
                   Ends(c, k, status, c, Append(Routed, "FINALIZED"))
        BY <3>1, <4>1, <4>3
      <4> QED  BY <2>2, <4>2, <4>3 DEF PipelineRefused
    <3>3. trail' \in [Calls -> Seq(Events)]
      <4>1. <<"FAILED">> \in Seq(Events)
        BY DEF Events
      <4> QED  BY <2>2, <1>0, <4>1, LogTyped DEF PipelineRefused
    <3> QED  BY <2>2, <2>k, <3>2, <3>3, <1>0, <1>t, StoreTyped DEF PipelineRefused, Meets
  <2>3. CASE PipelineAsks(c, k)
    <3>1. At(Append(Routed, "INFERRED"), "INFERRED")
      BY LivesBegin, LegalStep, TransitionsOf DEF LifecycleStates
    <3>2. call' \in [Calls -> CallRecord] /\ \A d \in Calls : LifeSound(d)'
      BY <2>3, <2>k, <3>1, AsksTyped DEF PipelineAsks, At
    <3>3. trail' \in [Calls -> Seq(Events)]
      <4>1. <<"SELECTED">> \in Seq(Events)
        BY DEF Events
      <4> QED  BY <2>3, <1>0, <4>1, LogTyped DEF PipelineAsks
    <3> QED  BY <2>3, <2>k, <3>2, <3>3, <1>0, <1>t, StoreTyped DEF PipelineAsks, Meets
  <2> QED  BY <1>3, <2>0, <2>1, <2>2, <2>3, <2>4 DEF RequestPipeline, k
<1>4. ASSUME NEW c \in Calls, DispatchSucceeds(c) \/ DispatchFails(c)
      PROVE  TypedAndAlive'
  <2>1. call[c].key \in Keys /\ Path(c) # "pipeline"
    BY <1>4 DEF DispatchSucceeds, DispatchFails, CallSound, Asked
  <2>2. call' \in [Calls -> CallRecord] /\ \A d \in Calls : LifeSound(d)'
    <3>1. <<>> \in Seq(LifecycleStates) /\ Legal(<<>>)
      BY DEF Legal
    <3> QED  BY <1>4, <2>1, <3>1, FinishesTyped DEF DispatchSucceeds, DispatchFails, Statuses
  <2>3. trail' \in [Calls -> Seq(Events)]
    <3>1. <<"COMPLETED">> \in Seq(Events) /\ <<"FAILED">> \in Seq(Events)
      BY DEF Events
    <3> QED  BY <1>4, <1>0, <3>1, LogTyped DEF DispatchSucceeds, DispatchFails
  <2>4. /\ store' = Committed(store, call[c].key, c) /\ UNCHANGED <<clock, shared>>
        /\ used' \in Nat
    BY <1>4, <1>0 DEF DispatchSucceeds, DispatchFails
  <2> QED  BY <2>1, <2>2, <2>3, <2>4, <1>0, <1>t, StoreTyped
<1>5. ASSUME NEW c \in Calls, Asked(c), Path(c) = "pipeline"
      PROVE  /\ call[c].key \in Keys
             /\ At(Append(call[c].life, "FINALIZED"), "FINALIZED")
             /\ At(Inferred(c), "VERIFIED")
  <2>1. At(call[c].life, "INFERRED") \/ At(call[c].life, "CORRECTED")
    BY <1>5 DEF LifeSound, LifeFits, Asked, Path
  <2>2. At(Append(call[c].life, "NORMALIZED"), "NORMALIZED")
    BY <2>1, LegalStep, TransitionsOf DEF LifecycleStates
  <2>3. At(Inferred(c), "VERIFIED")
    BY <2>2, LegalStep, TransitionsOf DEF LifecycleStates, Inferred
  <2>4. At(Append(call[c].life, "FINALIZED"), "FINALIZED")
    BY <2>1, LegalStep, TransitionsOf DEF LifecycleStates
  <2> QED  BY <1>5, <2>3, <2>4 DEF CallSound, Asked
<1>6. ASSUME NEW c \in Calls, PipelineFinal(c)
      PROVE  TypedAndAlive'
  <2>1. call[c].key \in Keys /\ At(Append(Inferred(c), "FINALIZED"), "FINALIZED")
    BY <1>6, <1>5, LegalStep, TransitionsOf DEF PipelineFinal, LifecycleStates
  <2>2. call' \in [Calls -> CallRecord] /\ \A d \in Calls : LifeSound(d)'
    BY <1>6, <2>1, FinishesTyped DEF PipelineFinal, Statuses, At
  <2>3. trail' \in [Calls -> Seq(Events)]
    <3>1. <<"COMPLETED">> \in Seq(Events)
      BY DEF Events
    <3> QED  BY <1>6, <1>0, <3>1, LogTyped DEF PipelineFinal
  <2>4. /\ store' = Committed(store, call[c].key, c) /\ UNCHANGED <<clock, shared>>
        /\ used' \in Nat
    BY <1>6, <1>0 DEF PipelineFinal
  <2> QED  BY <2>1, <2>2, <2>3, <2>4, <1>0, <1>t, StoreTyped
<1>7. ASSUME NEW c \in Calls, PipelineFails(c)
      PROVE  TypedAndAlive'
  <2>1. call[c].key \in Keys /\ At(Append(call[c].life, "FINALIZED"), "FINALIZED")
    BY <1>7, <1>5 DEF PipelineFails
  <2>2. call' \in [Calls -> CallRecord] /\ \A d \in Calls : LifeSound(d)'
    BY <1>7, <2>1, FinishesTyped DEF PipelineFails, Statuses, At
  <2> QED  BY <1>7, <2>1, <2>2, <1>0, <1>t, StoreTyped DEF PipelineFails
<1>8. ASSUME NEW c \in Calls, PipelineCorrects(c)
      PROVE  TypedAndAlive'
  <2>1. At(Append(Inferred(c), "CORRECTED"), "CORRECTED")
    BY <1>8, <1>5, LegalStep, TransitionsOf DEF PipelineCorrects, LifecycleStates
  <2>2. call' \in [Calls -> CallRecord] /\ \A d \in Calls : LifeSound(d)'
    BY <1>8, <2>1, RetriedTyped DEF PipelineCorrects, At
  <2> QED  BY <1>8, <2>2, <1>0, <1>t DEF PipelineCorrects
<1> QED  BY <1>1, <1>2, <1>3, <1>4, <1>6, <1>7, <1>8 DEF Next

-----------------------------------------------------------------------------
(* What each kind of step keeps *)

SoundCalls == \A c \in Calls : CallSound(c)
SoundEntries == \A k \in Keys : EntrySound(k)

\* What is said of a call rests on its own record.
LEMMA FieldsStay ==
  ASSUME NEW d \in Calls, call'[d] = call[d]
  PROVE  /\ Stored(d)' <=> Stored(d)
         /\ Replayed(d)' <=> Replayed(d)
         /\ Asked(d)' <=> Asked(d)
         /\ Threw(d)' <=> Threw(d)
  BY DEF Stored, Replayed, Asked, Threw, Path

LEMMA ClocksTyped ==
  ASSUME TypeOK
  PROVE  /\ clock \in Nat /\ TTL \in Nat
         /\ \A c \in Calls : call[c].begun \in Nat /\ call[c].ended \in Nat
         /\ \A k \in Keys : store[k].exp \in Nat
         /\ store \in [Keys -> Entry]
  BY DEF TypeOK, CallRecord, Entry

\* The times of a call and the origin of its answer.
LEMMA SoundCallsKept ==
  ASSUME CPInv, TypeOK', Kind
  PROVE  SoundCalls'
<1> USE ClocksTyped DEF CPInv
<1>1. CASE clock' = clock + 1 /\ UNCHANGED <<store, call, shared>>
  BY <1>1 DEF SoundCalls, CallSound, Asked, Threw, Path
<1>2. ASSUME NEW c \in Calls, UNCHANGED clock, Others(c), CallSound(c)'
      PROVE  SoundCalls'
  BY <1>2 DEF SoundCalls, CallSound, Asked, Threw, Path, Others
<1>3. ASSUME NEW c \in Calls, NEW k \in Keys, NEW by \in Calls, UNCHANGED clock,
             EndsAtOnce(c, k, by), call'[c].status = "THREW" => k[1] = "pipeline"
      PROVE  SoundCalls'
  BY <1>2, <1>3 DEF EndsAtOnce, CallSound, Asked, Threw, Path
<1>4. ASSUME NEW c \in Calls, NEW k \in Keys, UNCHANGED clock,
             Empties(c, k) \/ Throws(c, k) \/ Refuses(c, k)
      PROVE  SoundCalls'
  BY <1>3, <1>4 DEF Empties, Throws, Refuses
<1>8. ASSUME NEW c \in Calls, NEW k \in Keys, UNCHANGED clock, Replays(c, k)
      PROVE  SoundCalls'
  <2> DEFINE by == store[k].by
  <2>1. by \in Calls /\ Stored(by) /\ CallSound(by)
    BY <1>8, ReplayableGives DEF Replays
  <2>2. call[by].status # "THREW"
    BY <2>1 DEF CallSound, Stored, Threw
  <2> QED  BY <1>3, <1>8, <2>1, <2>2 DEF Replays
<1>5. ASSUME NEW c \in Calls, NEW k \in Keys, UNCHANGED clock, Begins(c, k)
      PROVE  SoundCalls'
  BY <1>2, <1>5 DEF Begins, CallSound, Asked, Threw, Path
<1>6. ASSUME NEW c \in Calls, UNCHANGED clock, Closes(c)
      PROVE  SoundCalls'
  BY <1>2, <1>6 DEF Closes, CallSound, Asked, Threw, Path
<1>7. ASSUME NEW c \in Calls, UNCHANGED clock, Repeats(c)
      PROVE  SoundCalls'
  BY <1>2, <1>7 DEF Repeats, CallSound, Asked, Threw, Path
<1> QED  BY <1>1, <1>4, <1>5, <1>6, <1>7, <1>8 DEF Kind, Commits, Drops

\* An answer in the store stays what it is: its call has ended.
LEMMA EntryStays ==
  ASSUME CPInv, NEW c \in Calls, call[c].stage # "done", Others(c), UNCHANGED clock,
         NEW k \in Keys, store'[k] = store[k] \/ store'[k] = Absent
  PROVE  EntrySound(k)'
<1>1. EntrySound(k) /\ TypeOK
  BY DEF CPInv
<1>2. CASE store'[k] = Absent
  BY <1>2 DEF EntrySound, Absent
<1>3. CASE store'[k] = store[k] /\ store[k].status # "COMPLETED"
  BY <1>1, <1>3 DEF EntrySound
<1>4. CASE store'[k] = store[k] /\ store[k].status = "COMPLETED"
  <2>1. store[k].by \in Calls /\ Stored(store[k].by) /\ store[k].by # c
    BY <1>1, <1>4 DEF EntrySound, Stored
  <2>2. call'[store[k].by] = call[store[k].by]
    BY <2>1 DEF Others
  <2>3. Stored(store[k].by)'
    BY <1>4, <2>1, <2>2 DEF Stored, Path
  <2> QED  BY <1>1, <1>4, <2>1, <2>2, <2>3 DEF EntrySound
<1> QED  BY <1>2, <1>3, <1>4

\* An entry names the call that stored it, and expires TTL after its lock was taken.
LEMMA SoundEntriesKept ==
  ASSUME CPInv, TypeOK', Kind
  PROVE  SoundEntries'
<1>0. TypeOK /\ \A k \in Keys : EntrySound(k)
  BY DEF CPInv
<1>a. ASSUME NEW k \in Keys, NEW j \in Keys
      PROVE  \/ Acquired(store, k, clock)[j] \in {store[j], Absent}
             \/ /\ j = k
                /\ Acquired(store, k, clock)[j] =
                     [status |-> "IN_PROGRESS", exp |-> clock + TTL, by |-> None]
  <2>1. store \in [Keys -> Entry] /\ clock \in Nat
    BY <1>0 DEF TypeOK
  <2> QED  BY <2>1, AcquireLeaves
<1> USE ClocksTyped
<1>1. CASE clock' = clock + 1 /\ UNCHANGED <<store, call, shared>>
  BY <1>0, <1>1 DEF SoundEntries, EntrySound, Stored, Path
<1>2. ASSUME NEW c \in Calls, UNCHANGED clock, call[c].stage # "done", Others(c),
             NEW k \in Keys, store' = Acquired(store, k, clock)
      PROVE  SoundEntries'
  <2>1. SUFFICES ASSUME NEW j \in Keys PROVE EntrySound(j)'
    BY DEF SoundEntries
  <2>2. CASE store'[j] = [status |-> "IN_PROGRESS", exp |-> clock + TTL, by |-> None]
    BY <1>0, <1>2, <2>2 DEF EntrySound
  <2>3. CASE store'[j] = store[j] \/ store'[j] = Absent
    BY <1>2, <2>3, EntryStays
  <2> QED  BY <1>a, <1>2, <2>2, <2>3
<1>3. ASSUME NEW c \in Calls, NEW k \in Keys, UNCHANGED clock, Empties(c, k)
      PROVE  SoundEntries'
  BY <1>3, EntryStays DEF SoundEntries, Empties, EndsAtOnce
<1>4. ASSUME NEW c \in Calls, NEW k \in Keys, UNCHANGED clock,
             Replays(c, k) \/ Throws(c, k) \/ Begins(c, k)
      PROVE  SoundEntries'
  BY <1>2, <1>4 DEF Replays, Throws, Begins, EndsAtOnce
<1>5. ASSUME NEW c \in Calls, NEW k \in Keys, UNCHANGED clock, Refuses(c, k)
      PROVE  SoundEntries'
  <2>1. SUFFICES ASSUME NEW j \in Keys PROVE EntrySound(j)'
    BY DEF SoundEntries
  <2>2. CASE j = k
    <3>1. store'[j] = Absent
      BY <1>0, <1>5, <2>2, StoreTyped DEF Refuses, Released
    <3> QED  BY <1>5, <3>1, EntryStays DEF Refuses, EndsAtOnce
  <2>3. CASE j # k
    <3>1. store'[j] = Acquired(store, k, clock)[j]
      BY <1>0, <1>5, <2>3, StoreTyped DEF Refuses, Released
    <3>2. store'[j] = store[j] \/ store'[j] = Absent
      BY <1>a, <2>3, <3>1
    <3> QED  BY <1>5, <3>2, EntryStays DEF Refuses, EndsAtOnce
  <2> QED  BY <2>2, <2>3
<1>6. ASSUME NEW c \in Calls, UNCHANGED clock, Commits(c)
      PROVE  SoundEntries'
  <2>1. SUFFICES ASSUME NEW j \in Keys PROVE EntrySound(j)'
    BY DEF SoundEntries
  <2>2. CASE j = call[c].key /\ store[j].status # "ABSENT"
    <3>1. /\ store'[j].status = "COMPLETED" /\ store'[j].by = c
          /\ store'[j].exp = store[j].exp
      BY <1>0, <1>6, <2>2 DEF Commits, Committed, Entry
    <3>2. Stored(c)'
      BY <1>6 DEF Commits, Closes, Stored, Path
    <3> QED  BY <1>0, <1>6, <2>2, <3>1, <3>2 DEF Commits, Closes, EntrySound
  <2>3. CASE ~(j = call[c].key /\ store[j].status # "ABSENT")
    <3>1. store'[j] = store[j]
      BY <1>0, <1>6, <2>3 DEF Commits, Committed
    <3> QED  BY <1>6, <3>1, EntryStays DEF Commits, Closes, Asked
  <2> QED  BY <2>2, <2>3
<1>7. ASSUME NEW c \in Calls, UNCHANGED clock, Drops(c) \/ Repeats(c)
      PROVE  SoundEntries'
  <2>1. SUFFICES ASSUME NEW j \in Keys PROVE EntrySound(j)'
    BY DEF SoundEntries
  <2>2. store'[j] = store[j] \/ store'[j] = Absent
    BY <1>0, <1>7 DEF Drops, Released, Repeats
  <2> QED  BY <1>7, <2>2, EntryStays DEF Drops, Closes, Repeats, Asked
<1> QED  BY <1>1, <1>3, <1>4, <1>5, <1>6, <1>7 DEF Kind

\* The lock of key k, taken by call c, is that of a call still running or of one that threw.
Owns(c, k) ==
  /\ call[c].key = k /\ store[k].exp = call[c].begun + TTL
  /\ Asked(c) \/ (Threw(c) /\ k[1] = "pipeline")

\* The end of a call releases or completes the key it runs under, unless it throws.
LEMMA LockHasOwnerKept ==
  ASSUME CPInv, TypeOK', Kind
  PROVE  LockHasOwner'
<1>0. TypeOK /\ LockHasOwner /\ \A k \in Keys : EntrySound(k)
  BY DEF CPInv
<1>s. store \in [Keys -> Entry] /\ clock \in Nat /\ TTL \in Nat
  BY <1>0, ClocksTyped
<1>a. ASSUME NEW k \in Keys, NEW j \in Keys, Acquired(store, k, clock)[j].status = "IN_PROGRESS"
      PROVE  \/ Acquired(store, k, clock)[j] = store[j]
             \/ /\ j = k /\ ~Replayable(store, k, clock)
                /\ Acquired(store, k, clock)[j].exp = clock + TTL
  <2>1. CASE Acquired(store, k, clock)[j] # store[j]
    <3>0. \/ Acquired(store, k, clock)[j] = store[j] /\ ~Expired(store[j], clock)
          \/ Acquired(store, k, clock)[j] = Absent /\ Expired(store[j], clock)
          \/ /\ j = k
             /\ store[j].status = "ABSENT" \/ Expired(store[j], clock)
             /\ Acquired(store, k, clock)[j] =
                  [status |-> "IN_PROGRESS", exp |-> clock + TTL, by |-> None]
      BY <1>s, AcquireLeaves
    <3>1. /\ j = k /\ (store[j].status = "ABSENT" \/ Expired(store[j], clock))
          /\ Acquired(store, k, clock)[j].exp = clock + TTL
      BY <1>a, <2>1, <3>0 DEF Absent
    <3> QED  BY <1>0, <3>1, ReplayableGives
  <2> QED  BY <2>1
<1>b. ASSUME NEW c \in Calls, Others(c), NEW j \in Keys, store[j].status = "IN_PROGRESS",
             store'[j] = store[j], ~(Asked(c) /\ call[c].key = j), ~Threw(c)
      PROVE  \E d \in Calls : Owns(d, j)'
  <2>1. PICK d \in Calls : Owns(d, j)
    BY <1>0, <1>b DEF LockHasOwner, Owns
  <2>2. call'[d] = call[d]
    BY <1>b, <2>1 DEF Others, Owns
  <2> QED  BY <1>b, <2>1, <2>2, FieldsStay DEF Owns
<1> SUFFICES ASSUME NEW j \in Keys, store'[j].status = "IN_PROGRESS"
             PROVE  \E d \in Calls : Owns(d, j)'
  BY DEF LockHasOwner, Owns
<1>1. CASE clock' = clock + 1 /\ UNCHANGED <<store, call, shared>>
  BY <1>0, <1>1 DEF LockHasOwner, Owns, Asked, Threw
<1>2. ASSUME NEW c \in Calls, NEW k \in Keys, Empties(c, k)
      PROVE  \E d \in Calls : Owns(d, j)'
  BY <1>b, <1>2 DEF Empties, EndsAtOnce, Asked, Threw
<1>3. ASSUME NEW c \in Calls, NEW k \in Keys, Replays(c, k)
      PROVE  \E d \in Calls : Owns(d, j)'
  BY <1>a, <1>b, <1>3 DEF Replays, EndsAtOnce, Asked, Threw
<1>9. ASSUME NEW c \in Calls, NEW k \in Keys, Throws(c, k) \/ Begins(c, k)
      PROVE  \E d \in Calls : Owns(d, j)'
  <2>1. /\ Others(c) /\ ~Asked(c) /\ ~Threw(c) /\ call'[c].key = k /\ call'[c].begun = clock
        /\ Asked(c)' \/ (Threw(c)' /\ k[1] = "pipeline")
        /\ store' = Acquired(store, k, clock)
    BY <1>9 DEF Throws, Begins, EndsAtOnce, Asked, Threw
  <2>2. CASE store'[j] = store[j]
    BY <1>b, <2>1, <2>2
  <2>3. CASE store'[j] # store[j]
    <3>1. j = k /\ store'[j].exp = clock + TTL
      BY <1>a, <2>1, <2>3
    <3> QED  BY <2>1, <3>1 DEF Owns
  <2> QED  BY <2>2, <2>3
<1>4. ASSUME NEW c \in Calls, NEW k \in Keys, Refuses(c, k)
      PROVE  \E d \in Calls : Owns(d, j)'
  <2>a. /\ Acquired(store, k, clock) \in [Keys -> Entry]
        /\ store' = [Acquired(store, k, clock) EXCEPT ![k] = Absent]
    BY <1>4, <1>s, StoreTyped DEF Refuses, Released
  <2>2. j # k /\ Acquired(store, k, clock)[j].status = "IN_PROGRESS"
        /\ store'[j] = Acquired(store, k, clock)[j]
    BY <2>a DEF Absent
  <2>3. store'[j] = store[j]
    BY <1>a, <2>2
  <2> QED  BY <1>b, <1>4, <2>2, <2>3 DEF Refuses, EndsAtOnce, Asked, Threw
<1>6. ASSUME NEW c \in Calls, Closes(c),
             store' = Committed(store, call[c].key, c) \/ store' = Released(store, call[c].key)
      PROVE  \E d \in Calls : Owns(d, j)'
  <2>2. j # call[c].key /\ store[j].status = "IN_PROGRESS" /\ store'[j] = store[j]
    BY <1>6, <1>s DEF Committed, Released, Absent, Entry
  <2> QED  BY <1>b, <1>6, <2>2 DEF Closes, Asked, Threw
<1>7. ASSUME NEW c \in Calls, Repeats(c)
      PROVE  \E d \in Calls : Owns(d, j)'
  <2>1. PICK d \in Calls : Owns(d, j)
    BY <1>0, <1>7 DEF LockHasOwner, Owns, Repeats
  <2>2. Owns(d, j)'
    BY <1>7, <2>1 DEF Repeats, Owns, Others, Asked, Threw
  <2> QED  BY <2>2
<1> QED  BY <1>1, <1>2, <1>3, <1>4, <1>6, <1>7, <1>9 DEF Kind, Commits, Drops

FreshCall(c) ==
  Replayed(c) => /\ call[c].by \in Calls /\ Stored(call[c].by)
                 /\ call[call[c].by].key = call[c].key
                 /\ call[call[c].by].ended <= call[c].begun
                 /\ call[c].begun <= call[call[c].by].ended + TTL

\* A replay hands out what the entry holds, and an expired entry is none.
LEMMA ReplaysAreFreshKept ==
  ASSUME CPInv, TypeOK', Kind
  PROVE  ReplaysAreFresh'
<1>0. TypeOK /\ (\A k \in Keys : EntrySound(k)) /\ \A c \in Calls : FreshCall(c)
  BY DEF CPInv, ReplaysAreFresh, FreshCall, CallSound, Replayed
<1> USE <1>0, ClocksTyped
<1>1. SUFFICES \A c \in Calls : FreshCall(c)'
  BY DEF ReplaysAreFresh, FreshCall
<1>2. CASE clock' = clock + 1 /\ UNCHANGED <<store, call, shared>>
  BY <1>2 DEF FreshCall, Replayed, Stored, Path
<1>3. ASSUME NEW c \in Calls, call[c].stage # "done", Others(c), FreshCall(c)'
      PROVE  \A d \in Calls : FreshCall(d)'
  <2>1. SUFFICES ASSUME NEW d \in Calls \ {c}, Replayed(d)' PROVE FreshCall(d)'
    BY <1>3 DEF FreshCall
  <2>2. call'[d] = call[d] /\ Replayed(d)
    BY <1>3, <2>1 DEF Others, Replayed
  <2>3. call[d].by \in Calls \ {c}
    BY <1>3, <2>2 DEF FreshCall, Stored
  <2>4. call'[call[d].by] = call[call[d].by]
    BY <1>3, <2>3 DEF Others
  <2>5. Stored(call[d].by)'
    BY <2>2, <2>3, <2>4 DEF Stored, Path, FreshCall
  <2> QED  BY <2>2, <2>3, <2>4, <2>5 DEF FreshCall
<1>4. ASSUME NEW c \in Calls, NEW k \in Keys, Replays(c, k)
      PROVE  \A d \in Calls : FreshCall(d)'
  <2>0. PICK by \in Calls : by = store[k].by
    BY <1>4, ReplayableGives DEF Replays
  <2>1. /\ Stored(by) /\ by # c /\ call[by].key = k
        /\ call[by].ended <= clock /\ clock <= call[by].ended + TTL
    BY <1>4, <2>0, ReplayableGives DEF Replays, EndsAtOnce, EntrySound, Stored, Expired
  <2>2. call'[by] = call[by] /\ call'[c].by = by /\ call'[c].key = k /\ call'[c].begun = clock
    BY <1>4, <2>0, <2>1 DEF Replays, EndsAtOnce, Others
  <2>3. Stored(by)'
    BY <2>1, <2>2 DEF Stored, Path
  <2>4. FreshCall(c)'
    BY <2>1, <2>2, <2>3 DEF FreshCall
  <2> QED  BY <1>3, <1>4, <2>4 DEF Replays, EndsAtOnce
<1>5. ASSUME NEW c \in Calls, NEW k \in Keys, Empties(c, k) \/ Throws(c, k) \/ Refuses(c, k) \/ Begins(c, k)
      PROVE  \A d \in Calls : FreshCall(d)'
  <2>1. FreshCall(c)'
    BY <1>5 DEF FreshCall, Replayed, Empties, Throws, Refuses, Begins, EndsAtOnce
  <2> QED  BY <1>3, <1>5, <2>1 DEF Empties, Throws, Refuses, Begins, EndsAtOnce
<1>6. ASSUME NEW c \in Calls, Closes(c) \/ Repeats(c)
      PROVE  \A d \in Calls : FreshCall(d)'
  <2>1. FreshCall(c)'
    BY <1>6 DEF FreshCall, Replayed, Closes, Repeats
  <2> QED  BY <1>3, <1>6, <2>1 DEF Closes, Repeats, Asked
<1> QED  BY <1>2, <1>4, <1>5, <1>6 DEF Kind, Commits, Drops

-----------------------------------------------------------------------------
(* The theorems *)

\* Nothing is stored before the first request.
THEOREM CPInvInitially == Init => CPInv
<1> SUFFICES ASSUME Init PROVE CPInv
  OBVIOUS
<1>1. NewCall \in CallRecord
  <2>1. <<>> \in Seq(LifecycleStates) /\ 0 \in 0..MaxCorrections
    OBVIOUS
  <2> QED  BY <2>1 DEF NewCall, CallRecord
<1>2. TypeOK
  BY <1>1 DEF Init, TypeOK, Entry, Absent
<1>3. \A c \in Calls : call[c] = NewCall
  BY DEF Init
<1>4. \A k \in Keys : store[k] = Absent
  BY DEF Init
<1>5. \A c \in Calls : CallSound(c) /\ LifeSound(c)
  <2>1. Legal(<<>>)
    BY DEF Legal
  <2>2. NewCall.stage = "new" /\ NewCall.life = <<>>
    BY DEF NewCall
  <2> QED  BY <1>3, <2>1, <2>2 DEF CallSound, LifeSound, LifeFits, Asked, Threw
<1>6. (\A k \in Keys : EntrySound(k)) /\ LockHasOwner
  BY <1>4 DEF EntrySound, LockHasOwner, Absent
<1>7. ReplaysAreFresh
  BY <1>3 DEF ReplaysAreFresh, Replayed, NewCall
<1> QED  BY <1>2, <1>5, <1>6, <1>7 DEF CPInv

\* No step, of either path, breaks the invariant.
THEOREM CPInvKept == CPInv /\ [Next]_vars => CPInv'
<1>1. ASSUME CPInv, Next PROVE CPInv'
  <2>1. TypeOK' /\ \A c \in Calls : LifeSound(c)'
    BY <1>1, NextTyped DEF TypedAndAlive
  <2>2. Kind
    BY <1>1, NextIsOfAKind
  <2>3. \A c \in Calls : CallSound(c)'
    BY <1>1, <2>1, <2>2, SoundCallsKept DEF SoundCalls
  <2>4. \A k \in Keys : EntrySound(k)'
    BY <1>1, <2>1, <2>2, SoundEntriesKept DEF SoundEntries
  <2> QED  BY <1>1, <2>1, <2>2, <2>3, <2>4, LockHasOwnerKept, ReplaysAreFreshKept DEF CPInv
<1>2. ASSUME CPInv, UNCHANGED vars PROVE CPInv'
  BY <1>2 DEF vars, CPInv, TypeOK, CallSound, LifeSound, EntrySound, LockHasOwner,
              ReplaysAreFresh, Asked, Threw, Path, Stored, Replayed
<1> QED  BY <1>1, <1>2

\* The shape of every reachable state.
THEOREM Typed == Spec => []TypeOK
<1>1. CPInv => TypeOK
  BY DEF CPInv
<1> QED  BY <1>1, CPInvInitially, CPInvKept, PTL DEF Spec

\* Every lock was taken by a call of its key that runs, or that threw in the pipeline, and
\* expires a lifetime after that call began, for any number of calls and keys.
THEOREM LocksHaveOwners == Spec => []LockHasOwner
<1>1. CPInv => LockHasOwner
  BY DEF CPInv
<1> QED  BY <1>1, CPInvInitially, CPInvKept, PTL DEF Spec

\* What is handed out again was stored for the same key, at most a lifetime ago.
THEOREM FreshReplays == Spec => []ReplaysAreFresh
<1>1. CPInv => ReplaysAreFresh
  BY DEF CPInv
<1> QED  BY <1>1, CPInvInitially, CPInvKept, PTL DEF Spec

\* The lifecycle of no call ever leaves the table of allowed transitions; of a call that is
\* done and no replay it has come to the table's end, or to where the call threw.
THEOREM LegalLifecycles == Spec => []LifecycleLegal
<1>1. CPInv => LifecycleLegal
  BY DEF CPInv, LifecycleLegal, LifeSound, LifeFits, Legal, At, Over, Replayed, Threw, Path
<1> QED  BY <1>1, CPInvInitially, CPInvKept, PTL DEF Spec

-----------------------------------------------------------------------------
(* One answer per key and lifetime *)

\* At time n the entry that the answer of c went to, or is to go to, has expired.
Past(c, n) == \E t \in Lapses(c) : n > t

\* The answer of the call is the one the key's entry hands out while it is in force.
Guarded(c) ==
  \E t \in Lapses(c) :
    \/ clock > t
    \/ /\ store[call[c].key].exp >= t
       /\ store[call[c].key].status # "ABSENT"
       /\ Stored(c) => store[call[c].key].status = "COMPLETED"

\* The calls c and d of one key that have not run at the same time.
Apart(c, d) ==
  /\ Asked(c) /\ Asked(d) => c = d
  /\ Asked(c) /\ Stored(d) => Past(d, call[c].begun)
  /\ Stored(c) /\ Stored(d) /\ c # d => Past(d, call[c].begun) \/ Past(c, call[d].begun)

Alone ==
  \A c \in Calls :
    (Asked(c) \/ Stored(c)) /\ call[c].key \notin shared =>
      /\ Guarded(c)
      /\ \A d \in Calls : call[d].key = call[c].key => Apart(c, d)

\* An entry that lives is there for the next request of its key.
LEMMA UnexpiredKept ==
  ASSUME TypeOK, NEW k \in Keys, NEW j \in Keys,
         store[j].status # "ABSENT", clock <= store[j].exp
  PROVE  Acquired(store, k, clock)[j] = store[j]
<1>1. store \in [Keys -> Entry] /\ clock \in Nat
  BY DEF TypeOK
<1> QED  BY <1>1, AcquireKeeps

\* The times of Lapses are numbers, none before the call.
LEMMA LapsesTyped ==
  ASSUME TypeOK, NEW c \in Calls
  PROVE  Lapses(c) \subseteq Nat /\ \A t \in Lapses(c) : call[c].begun <= t
<1>1. TTL \in Nat /\ \A b \in Calls : call[b].begun \in Nat
  BY ClocksTyped
<1> QED  BY <1>1 DEF Lapses

\* What is past stays so.
LEMMA PastLater ==
  ASSUME TypeOK, NEW c \in Calls, NEW m \in Nat, NEW n \in Nat, m <= n, Past(c, m)
  PROVE  Past(c, n)
  BY LapsesTyped DEF Past

\* No call that threw ever changes, so the times of a call are only added to.
LEMMA LapsesGrow ==
  ASSUME NEW d \in Calls, call'[d].key = call[d].key, call'[d].begun = call[d].begun,
         \A b \in Calls : Threw(b) => call'[b] = call[b]
  PROVE  Lapses(d) \subseteq Lapses(d)'
<1>1. SUFFICES ASSUME NEW b \in Calls, call[b].key = call[d].key, b = d \/ Threw(b),
                      call[b].begun <= call[d].begun, call[d].begun <= call[b].begun + TTL
               PROVE  call[b].begun + TTL \in Lapses(d)'
  BY DEF Lapses
<1>2. call'[b].key = call[b].key /\ call'[b].begun = call[b].begun /\ (b = d \/ Threw(b)')
  BY <1>1, FieldsStay
<1> QED  BY <1>1, <1>2 DEF Lapses

\* As long as no two calls of a key have overlapped, its last answer is in its entry.
LEMMA AloneKept ==
  ASSUME CPInv, Alone, Kind, CPInv'
  PROVE  Alone'
<1>0. /\ TypeOK /\ LockHasOwner
      /\ \A k \in Keys : EntrySound(k)
      /\ \A c \in Calls : CallSound(c)
  BY DEF CPInv
<1>c. /\ clock \in Nat /\ TTL \in Nat
      /\ \A c \in Calls : call[c].begun \in Nat /\ Lapses(c) \subseteq Nat
      /\ \A k \in Keys : store[k].exp \in Nat
      /\ store \in [Keys -> Entry]
  BY <1>0, ClocksTyped, LapsesTyped
<1>k. ASSUME NEW c \in Calls, Asked(c) \/ Stored(c)
      PROVE  call[c].key \in Keys /\ call[c].begun <= clock
  BY <1>0, <1>k DEF CallSound, Asked, Stored
\* What is past is so after a step that leaves the two calls' times alone.
<1>p. ASSUME \A b \in Calls : Threw(b) => call'[b] = call[b],
             NEW d \in Calls, call'[d].key = call[d].key, call'[d].begun = call[d].begun
      PROVE  /\ Lapses(d) \subseteq Lapses(d)'
             /\ \A e \in Calls : call'[e].begun = call[e].begun /\ Past(d, call[e].begun)
                                   => Past(d, call[e].begun)'
  <2>1. Lapses(d) \subseteq Lapses(d)'
    BY <1>p, LapsesGrow
  <2> QED  BY <2>1 DEF Past
<1>q. ASSUME NEW c \in Calls, Others(c), ~Threw(c)
      PROVE  /\ \A b \in Calls : Threw(b) => call'[b] = call[b]
             /\ \A d \in Calls \ {c} : call'[d] = call[d] /\ Lapses(d) \subseteq Lapses(d)'
  <2>1. \A b \in Calls : Threw(b) => call'[b] = call[b]
    BY <1>q DEF Others
  <2> QED  BY <1>p, <1>q, <2>1 DEF Others
<1>s. ASSUME NEW c \in Calls, Asked(c) \/ Stored(c), call[c].key \notin shared,
             ~Replayable(store, call[c].key, clock), ~\E d \in Calls : Asked(d) /\ call[d].key = call[c].key
      PROVE  Stored(c) /\ Past(c, clock)
  <2>1. Stored(c) /\ Guarded(c)
    BY <1>s DEF Alone
  <2>2. PICK t \in Lapses(c) :
          \/ clock > t
          \/ store[call[c].key].exp >= t /\ store[call[c].key].status = "COMPLETED"
    BY <2>1 DEF Guarded
  <2>3. t \in Nat
    BY <1>c
  <2>4. CASE ~(clock > t)
    BY <1>c, <1>k, <1>s, <2>2, <2>3, <2>4 DEF Replayable, Cleaned, Expired, Absent
  <2> QED  BY <2>1, <2>4 DEF Past
<1>g. ASSUME NEW d \in Calls, Asked(d) \/ Stored(d), call[d].key \notin shared, UNCHANGED clock,
             call'[d] = call[d], Lapses(d) \subseteq Lapses(d)', NEW k \in Keys,
             store'[call[d].key] = Acquired(store, k, clock)[call[d].key]
      PROVE  Guarded(d)'
  <2> DEFINE j == call[d].key
  <2>1. j \in Keys /\ Guarded(d) /\ (Stored(d)' <=> Stored(d))
    BY <1>g, <1>k, FieldsStay DEF Alone
  <2>2. PICK t \in Lapses(d) :
          \/ clock > t
          \/ /\ store[j].exp >= t /\ store[j].status # "ABSENT"
             /\ Stored(d) => store[j].status = "COMPLETED"
    BY <2>1 DEF Guarded
  <2>3. t \in Nat /\ t \in Lapses(d)'
    BY <1>c, <1>g
  <2>4. CASE clock > t
    BY <1>g, <2>3, <2>4 DEF Guarded
  <2>5. CASE ~(clock > t)
    <3>1. store[j].status # "ABSENT" /\ clock <= store[j].exp
      BY <1>c, <2>1, <2>2, <2>3, <2>5
    <3>2. Acquired(store, k, clock)[j] = store[j]
      BY <1>0, <1>g, <2>1, <3>1, UnexpiredKept
    <3>3. store'[j] = store[j] /\ call'[d].key = j
      BY <1>g, <3>2
    <3> QED  BY <2>1, <2>2, <2>3, <2>5, <3>3 DEF Guarded
  <2> QED  BY <2>4, <2>5
<1>h. ASSUME NEW d \in Calls, Asked(d) \/ Stored(d), call[d].key \notin shared, UNCHANGED clock,
             call'[d] = call[d], Lapses(d) \subseteq Lapses(d)',
             store'[call[d].key] = store[call[d].key]
      PROVE  Guarded(d)'
  BY <1>h, FieldsStay DEF Alone, Guarded
\* The calls other than c keep apart from each other.
<1>o. ASSUME NEW c \in Calls, Others(c), ~Threw(c), shared \subseteq shared',
             \A d \in Calls \ {c} :
               (Asked(d) \/ Stored(d)) /\ call[d].key \notin shared' =>
                 /\ Guarded(d)'
                 /\ call'[c].key = call[d].key => Apart(c, d)' /\ Apart(d, c)',
             (Asked(c) \/ Stored(c))' /\ call'[c].key \notin shared' =>
               /\ Guarded(c)'
               /\ \A d \in Calls \ {c} : call[d].key = call'[c].key => Apart(c, d)',
             Apart(c, c)'
      PROVE  Alone'
  <2> SUFFICES ASSUME NEW d \in Calls, (Asked(d) \/ Stored(d))', call'[d].key \notin shared'
               PROVE  /\ Guarded(d)'
                      /\ \A e \in Calls : call'[e].key = call'[d].key => Apart(d, e)'
    BY DEF Alone
  <2>1. CASE d = c
    BY <1>o, <2>1 DEF Others
  <2>2. CASE d # c
    <3>1. call'[d] = call[d] /\ (Asked(d) \/ Stored(d)) /\ call[d].key \notin shared
      BY <1>o, <2>2, FieldsStay DEF Others
    <3>2. ASSUME NEW e \in Calls \ {c}, call'[e].key = call'[d].key
          PROVE  Apart(d, e)'
      <4>1. call'[e] = call[e] /\ Apart(d, e)
        BY <1>o, <3>1, <3>2 DEF Others, Alone
      <4>2. \A b \in Calls : Threw(b) => call'[b] = call[b]
        BY <1>o, <1>q
      <4>3. /\ Past(d, call[e].begun) => Past(d, call[e].begun)'
            /\ Past(e, call[d].begun) => Past(e, call[d].begun)'
        BY <1>p, <3>1, <4>1, <4>2
      <4> QED  BY <3>1, <4>1, <4>3, FieldsStay DEF Apart
    <3> QED  BY <1>o, <3>1, <3>2, <2>2
  <2> QED  BY <2>1, <2>2
<1>1. CASE clock' = clock + 1 /\ UNCHANGED <<store, call, shared>>
  <2>1. \A d \in Calls : call'[d] = call[d]
    BY <1>1
  <2>2. \A d \in Calls : (Asked(d)' <=> Asked(d)) /\ (Stored(d)' <=> Stored(d))
    BY <2>1, FieldsStay
  <2>3. \A d \in Calls : Lapses(d)' = Lapses(d)
    BY <1>1 DEF Lapses, Threw
  <2>4. \A d \in Calls : Guarded(d) => Guarded(d)'
    BY <1>1, <1>c, <2>2, <2>3 DEF Guarded
  <2>5. \A d, e \in Calls : Apart(d, e) => Apart(d, e)'
    BY <1>1, <2>2, <2>3 DEF Apart, Past
  <2> QED  BY <1>1, <2>2, <2>4, <2>5 DEF Alone
\* A call that ends at once has no part in it.
<1>2. ASSUME NEW c \in Calls, NEW k, NEW by, EndsAtOnce(c, k, by)
      PROVE  /\ ~Asked(c)' /\ ~Stored(c)' /\ Others(c) /\ ~Threw(c)
             /\ \A d \in Calls : Apart(c, d)' /\ Apart(d, c)'
             /\ \A d \in Calls \ {c} : call'[d] = call[d] /\ Lapses(d) \subseteq Lapses(d)'
  <2>1. ~Asked(c)' /\ ~Stored(c)' /\ Others(c) /\ ~Threw(c)
    BY <1>2 DEF EndsAtOnce, Asked, Stored, Threw
  <2> QED  BY <1>q, <2>1 DEF Apart
<1>3. ASSUME NEW c \in Calls, NEW k \in Keys, UNCHANGED clock, Empties(c, k)
      PROVE  Alone'
  BY <1>h, <1>o, <1>2, <1>3 DEF Empties
<1>4. ASSUME NEW c \in Calls, NEW k \in Keys, NEW by, UNCHANGED <<clock, shared>>,
             EndsAtOnce(c, k, by), store' = Acquired(store, k, clock)
      PROVE  Alone'
  BY <1>g, <1>o, <1>2, <1>4
<1>5. ASSUME NEW c \in Calls, NEW k \in Keys, UNCHANGED clock, Refuses(c, k)
      PROVE  Alone'
  <2>1. /\ Acquired(store, k, clock) \in [Keys -> Entry]
        /\ store' = [Acquired(store, k, clock) EXCEPT ![k] = Absent]
    BY <1>c, <1>5, StoreTyped DEF Refuses, Released
  <2>e. EndsAtOnce(c, k, c) /\ shared \subseteq shared'
    BY <1>5 DEF Refuses, Meets
  <2>2. ASSUME NEW d \in Calls \ {c}, Asked(d) \/ Stored(d), call[d].key \notin shared'
        PROVE  Guarded(d)'
    <3>1. /\ call'[d] = call[d] /\ call[d].key \in Keys /\ call[d].key \notin shared
          /\ Lapses(d) \subseteq Lapses(d)'
      BY <1>2, <1>k, <2>e, <2>2
    <3>2. CASE call[d].key # k
      BY <1>5, <1>g, <2>1, <2>2, <3>1, <3>2
    <3>3. CASE call[d].key = k
      <4>1. ~Replayable(store, k, clock) /\ ~\E e \in Calls : Asked(e) /\ call[e].key = k
        BY <1>5, <2>2, <3>3 DEF Refuses, Meets
      <4>2. Past(d, clock)
        BY <1>s, <2>2, <3>1, <3>3, <4>1
      <4> QED  BY <1>5, <3>1, <4>2 DEF Guarded, Past
    <3> QED  BY <3>2, <3>3
  <2> QED  BY <1>o, <1>2, <2>e, <2>2
<1>6. ASSUME NEW c \in Calls, NEW k \in Keys, UNCHANGED clock, Begins(c, k)
      PROVE  Alone'
  <2>1. /\ Others(c) /\ shared \subseteq shared' /\ Asked(c)' /\ ~Stored(c)' /\ ~Threw(c)
        /\ call'[c].key = k /\ call'[c].begun = clock
    BY <1>6 DEF Begins, Meets, Asked, Stored, Threw
  <2>o. /\ \A b \in Calls : Threw(b) => call'[b] = call[b]
        /\ \A d \in Calls \ {c} : call'[d] = call[d] /\ Lapses(d) \subseteq Lapses(d)'
    BY <1>q, <2>1
  <2>2. ASSUME NEW d \in Calls \ {c}, Asked(d) \/ Stored(d), call[d].key \notin shared'
        PROVE  Guarded(d)' /\ (k = call[d].key => Apart(c, d)' /\ Apart(d, c)')
    <3>1. call'[d] = call[d] /\ call[d].key \notin shared /\ Lapses(d) \subseteq Lapses(d)'
      BY <2>1, <2>2, <2>o
    <3>2. Guarded(d)'
      BY <1>6, <1>g, <2>2, <3>1 DEF Begins
    <3>3. ASSUME k = call[d].key PROVE Apart(c, d)' /\ Apart(d, c)'
      <4>1. ~Replayable(store, k, clock) /\ ~\E e \in Calls : Asked(e) /\ call[e].key = k
        BY <1>6, <2>2, <3>3 DEF Begins, Meets
      <4>2. Past(d, clock) /\ ~Asked(d)
        BY <1>s, <2>2, <3>1, <3>3, <4>1
      <4>3. Past(d, call[c].begun)'
        BY <2>1, <3>1, <4>2 DEF Past
      <4> QED  BY <2>1, <3>1, <4>2, <4>3, FieldsStay DEF Apart
    <3> QED  BY <3>2, <3>3
  <2>3. ASSUME k \notin shared' PROVE Guarded(c)'
    <3>1. ~Replayable(store, k, clock) /\ ~\E e \in Calls : Asked(e) /\ call[e].key = k
      BY <1>6, <2>3 DEF Begins, Meets
    <3>2. store' = Acquired(store, k, clock)
      BY <1>6 DEF Begins
    <3>3. CASE store[k].status = "IN_PROGRESS" /\ clock <= store[k].exp
      <4>1. store'[k] = store[k]
        BY <1>0, <3>2, <3>3, UnexpiredKept
      <4>2. PICK b \in Calls : /\ call[b].key = k /\ store[k].exp = call[b].begun + TTL
                               /\ Threw(b)
        BY <1>0, <3>1, <3>3 DEF LockHasOwner
      <4>3. /\ call'[b] = call[b] /\ Threw(b)' /\ call[b].begun <= clock
            /\ clock <= call[b].begun + TTL
        BY <1>0, <2>o, <3>3, <4>2, FieldsStay DEF CallSound, Threw
      <4>4. store[k].exp \in Lapses(c)'
        BY <2>1, <4>2, <4>3 DEF Lapses
      <4>5. store'[k].exp >= store[k].exp /\ store'[k].status # "ABSENT"
        BY <1>c, <3>3, <4>1
      <4> QED  BY <2>1, <4>4, <4>5 DEF Guarded
    <3>4. CASE ~(store[k].status = "IN_PROGRESS" /\ clock <= store[k].exp)
      <4>2. store'[k] = [status |-> "IN_PROGRESS", exp |-> clock + TTL, by |-> None]
        BY <1>c, <3>1, <3>2, <3>4, AcquireLocks
      <4>3. clock + TTL \in Lapses(c)'
        BY <1>6, <1>c, <2>1 DEF Lapses
      <4>4. store'[k].exp >= clock + TTL /\ store'[k].status # "ABSENT"
        BY <1>c, <4>2
      <4> QED  BY <2>1, <4>3, <4>4 DEF Guarded
    <3> QED  BY <3>3, <3>4
  <2>4. ASSUME k \notin shared', NEW d \in Calls \ {c}, call[d].key = k
        PROVE  Apart(c, d)'
    <3>1. CASE Asked(d) \/ Stored(d)
      BY <2>2, <2>4, <3>1
    <3>2. CASE ~(Asked(d) \/ Stored(d))
      BY <2>1, <2>4, <3>2, FieldsStay DEF Apart, Others
    <3> QED  BY <3>1, <3>2
  <2>5. Apart(c, c)'
    BY <2>1 DEF Apart
  <2> QED  BY <1>o, <2>1, <2>2, <2>3, <2>4, <2>5
<1>7. ASSUME NEW c \in Calls, UNCHANGED clock, Closes(c),
             \/ Commits(c)
             \/ Drops(c)
      PROVE  Alone'
  <2>1. /\ Others(c) /\ shared' = shared /\ ~Asked(c)' /\ Asked(c) /\ ~Threw(c)
        /\ call'[c].key = call[c].key /\ call'[c].begun = call[c].begun
    BY <1>7 DEF Closes, Asked, Threw
  <2>o. /\ \A b \in Calls : Threw(b) => call'[b] = call[b]
        /\ \A d \in Calls : Lapses(d) \subseteq Lapses(d)'
        /\ \A d \in Calls \ {c} : call'[d] = call[d]
    BY <1>p, <1>q, <2>1
  <2>2. call[c].key \in Keys /\ call[c].begun <= clock
    BY <1>k, <2>1
  <2>3. ASSUME NEW d \in Calls \ {c}, Asked(d) \/ Stored(d), call[d].key = call[c].key,
               call[c].key \notin shared
        PROVE  ~Asked(d) /\ Past(d, call[c].begun)
    BY <2>1, <2>3 DEF Alone, Apart
  <2>4. ASSUME NEW d \in Calls \ {c}, Asked(d) \/ Stored(d), call[d].key \notin shared'
        PROVE  /\ Guarded(d)'
               /\ call'[c].key = call[d].key => Apart(c, d)' /\ Apart(d, c)'
    <3>1. call'[d] = call[d] /\ call[d].key \in Keys /\ Lapses(d) \subseteq Lapses(d)'
      BY <1>k, <2>4, <2>o
    <3>2. CASE call[d].key # call[c].key
      <4>1. store'[call[d].key] = store[call[d].key]
        BY <1>c, <1>7, <3>1, <3>2 DEF Commits, Drops, Committed, Released
      <4> QED  BY <1>7, <1>h, <2>1, <2>4, <3>1, <3>2, <4>1
    <3>3. CASE call[d].key = call[c].key
      <4>1. ~Asked(d) /\ Past(d, call[c].begun)
        BY <2>1, <2>3, <2>4, <3>3
      <4>2. Past(d, clock)
        BY <1>0, <1>c, <2>2, <4>1, PastLater
      <4>3. Guarded(d)'
        BY <1>7, <3>1, <4>2 DEF Guarded, Past
      <4>4. Past(d, call[c].begun)'
        BY <2>1, <3>1, <4>1 DEF Past
      <4>5. Apart(c, d)' /\ Apart(d, c)'
        BY <2>1, <3>1, <4>1, <4>4, FieldsStay DEF Apart
      <4> QED  BY <4>3, <4>5
    <3> QED  BY <3>2, <3>3
  <2>5. ASSUME Stored(c)', call[c].key \notin shared PROVE Guarded(c)'
    <3>1. Commits(c)
      BY <1>7, <2>5 DEF Drops, Closes, Stored, Path
    <3>2. PICK t \in Lapses(c) :
            \/ clock > t
            \/ store[call[c].key].exp >= t /\ store[call[c].key].status # "ABSENT"
      BY <2>1, <2>5 DEF Alone, Guarded
    <3>t. t \in Lapses(c)'
      BY <2>o
    <3>3. CASE clock > t
      BY <1>7, <3>3, <3>t DEF Guarded
    <3>4. CASE ~(clock > t)
      <4>1. store[call[c].key].status # "ABSENT" /\ store[call[c].key].exp >= t
        BY <3>2, <3>4
      <4>2. /\ store'[call[c].key].status = "COMPLETED"
            /\ store'[call[c].key].exp = store[call[c].key].exp
        BY <1>c, <2>2, <3>1, <4>1 DEF Commits, Committed, Entry
      <4> QED  BY <2>1, <3>t, <4>1, <4>2 DEF Guarded
    <3> QED  BY <3>3, <3>4
  <2>6. ASSUME NEW d \in Calls \ {c}, call[c].key \notin shared, call[d].key = call[c].key
        PROVE  Apart(c, d)'
    <3>1. CASE Asked(d) \/ Stored(d)
      BY <2>1, <2>4, <2>6, <3>1
    <3>2. CASE ~(Asked(d) \/ Stored(d))
      BY <2>1, <2>6, <3>2, FieldsStay DEF Apart, Others
    <3> QED  BY <3>1, <3>2
  <2>7. Apart(c, c)'
    BY <2>1 DEF Apart
  <2> QED  BY <1>o, <2>1, <2>4, <2>5, <2>6, <2>7
<1>8. ASSUME NEW c \in Calls, UNCHANGED clock, Repeats(c)
      PROVE  Alone'
  <2>1. \A d \in Calls : /\ Asked(d)' <=> Asked(d)
                         /\ Stored(d)' <=> Stored(d)
                         /\ call'[d].key = call[d].key /\ call'[d].begun = call[d].begun
    BY <1>8, FieldsStay DEF Repeats, Others, Asked, Stored
  <2>o. \A b \in Calls : Threw(b) => call'[b] = call[b]
    BY <1>8 DEF Repeats, Others, Asked, Threw
  <2>2. \A d \in Calls : Lapses(d) \subseteq Lapses(d)'
    BY <1>p, <2>1, <2>o
  <2>3. \A d \in Calls : Guarded(d) => Guarded(d)'
    BY <1>8, <2>1, <2>2 DEF Guarded, Repeats
  <2>4. \A d, e \in Calls : Apart(d, e) => Apart(d, e)'
    <3>1. \A d, e \in Calls : Past(d, call[e].begun) => Past(d, call[e].begun)'
      BY <1>p, <2>1, <2>o
    <3> QED  BY <2>1, <3>1 DEF Apart
  <2> QED  BY <1>8, <2>1, <2>3, <2>4 DEF Alone, Repeats
<1> QED  BY <1>1, <1>3, <1>4, <1>5, <1>6, <1>7, <1>8 DEF Kind, Replays, Throws, Commits, Drops

\* Two answers of one key are given only with the first one's entry expired between them,
\* which may be that of an earlier call that threw, unless two calls of the key ran at the
\* same time; for any number of calls and any lifetime.
THEOREM AnsweredOnceAlways == Spec => []AnsweredOnce
<1>1. Init => Alone
  BY DEF Init, Alone, Asked, Stored, NewCall
<1>2. CPInv /\ CPInv' /\ Alone /\ [Next]_vars => Alone'
  <2>1. ASSUME CPInv, CPInv', Alone, Next PROVE Alone'
    BY <2>1, NextIsOfAKind, AloneKept
  <2>2. ASSUME Alone, UNCHANGED vars PROVE Alone'
    BY <2>2 DEF vars, Alone, Guarded, Apart, Past, Lapses, Asked, Stored, Threw, Path
  <2> QED  BY <2>1, <2>2
<1>3. CPInv /\ Alone => AnsweredOnce
  <2> SUFFICES ASSUME CPInv, Alone, NEW c \in Calls, NEW d \in Calls,
                      c # d, Stored(c), Stored(d), call[c].key = call[d].key,
                      call[c].key \notin shared, call[c].begun <= call[d].begun
               PROVE  \E t \in Lapses(c) : call[d].begun > t
    BY DEF AnsweredOnce
  <2>1. TypeOK
    BY DEF CPInv
  <2>2. Past(d, call[c].begun) \/ Past(c, call[d].begun)
    BY DEF Alone, Apart
  <2>3. ~Past(d, call[c].begun)
    BY <2>1, ClocksTyped, LapsesTyped DEF Past
  <2> QED  BY <2>2, <2>3 DEF Past
<1> QED  BY <1>1, <1>2, <1>3, CPInvInitially, CPInvKept, PTL DEF Spec
-----------------------------------------------------------------------------
(* What is billed *)

Bill(c) == Weight(c) * Inferences(c)

BInv ==
  /\ CPInv
  /\ IsFiniteSet(Billed) /\ used = Cardinality(Billed)

LEMMA CallTyped ==
  ASSUME TypeOK, NEW c \in Calls
  PROVE  call[c].cycle \in Nat /\ Bill(c) \in Nat /\ used \in Nat
<1>1. call[c].cycle \in Nat /\ used \in Nat
  BY DEF TypeOK, CallRecord
<1>2. Inferences(c) \in Nat
  BY <1>1 DEF Inferences
<1>3. Weight(c) \in {1, 2}
  BY DEF Weight
<1>4. Bill(c) \in Nat
  <2> DEFINE w == Weight(c)
             n == Inferences(c)
  <2>1. w \in {1, 2} /\ n \in Nat
    BY <1>2, <1>3
  <2> HIDE DEF w, n
  <2>2. w * n \in Nat
    BY <2>1
  <2> QED  BY <2>2 DEF Bill, w, n
<1> QED  BY <1>1, <1>4

\* The numbers from m + 1 on.
LEMMA Span ==
  ASSUME NEW m \in Nat, NEW n \in Nat, NEW c
  PROVE  /\ IsFiniteSet({c} \X (m + 1 .. m + n)) /\ Cardinality({c} \X (m + 1 .. m + n)) = n
         /\ 1..m + n = (1..m) \cup (m + 1 .. m + n)
<1>1. m + 1 \in Int /\ m + n \in Int
  OBVIOUS
<1>2. /\ IsFiniteSet(m + 1 .. m + n)
      /\ Cardinality(m + 1 .. m + n) = IF m + 1 > m + n THEN 0 ELSE (m + n) - (m + 1) + 1
  BY <1>1, FS_Interval, Zenon
<1>3. Cardinality(m + 1 .. m + n) = n
  BY <1>2
<1>4. IsFiniteSet({c}) /\ Cardinality({c}) = 1
  BY FS_Singleton
<1>5. /\ IsFiniteSet({c} \X (m + 1 .. m + n))
      /\ Cardinality({c} \X (m + 1 .. m + n)) = 1 * n
  <2> DEFINE S == m + 1 .. m + n
  <2>1. IsFiniteSet(S) /\ Cardinality(S) = n
    BY <1>2, <1>3
  <2> HIDE DEF S
  <2>2. IsFiniteSet({c} \X S) /\ Cardinality({c} \X S) = Cardinality({c}) * Cardinality(S)
    BY <1>4, <2>1, FS_Product
  <2> QED  BY <1>4, <2>1, <2>2 DEF S
<1>6. 1..m + n = (1..m) \cup (m + 1 .. m + n)
  OBVIOUS
<1> QED  BY <1>5, <1>6

\* The budget grows by what the bill of one call does.
LEMMA BillGrows ==
  ASSUME BInv, TypeOK', NEW c \in Calls, Others(c), NEW n \in Nat, Bill(c)' = Bill(c) + n,
         used' = used + n
  PROVE  IsFiniteSet(Billed') /\ used' = Cardinality(Billed')
<1> DEFINE m == Bill(c)
           more == {c} \X (m + 1 .. m + n)
<1>1. m \in Nat
  BY CallTyped DEF BInv, CPInv
<1>2. \A d \in Calls \ {c} : Bill(d)' = Bill(d)
  BY DEF Others, Bill, Weight, Inferences, Replayed, Path
<1>3. /\ Billed = UNION {{d} \X (1..Bill(d)) : d \in Calls}
      /\ Billed' = UNION {{d} \X (1..Bill(d)') : d \in Calls}
  BY DEF Billed, Bill
<1>4. 1..Bill(c)' = (1..m) \cup (m + 1 .. m + n)
  BY <1>1, Span
<1>5. Billed' = Billed \cup more
  <2>1. ASSUME NEW p PROVE p \in Billed' <=> p \in Billed \cup more
    <3>1. p \in Billed <=> \E d \in Calls : p \in {d} \X (1..Bill(d))
      BY <1>3
    <3>2. p \in Billed' <=> \E d \in Calls : p \in {d} \X (1..Bill(d)')
      BY <1>3
    <3>3. p \in {c} \X (1..Bill(c)') <=> p \in {c} \X (1..m) \/ p \in more
      BY <1>4
    <3> HIDE DEF more
    <3> QED  BY <1>2, <3>1, <3>2, <3>3
  <2> QED  BY <2>1
<1>6. Billed \cap more = {}
  <2> SUFFICES ASSUME NEW p \in Billed, p \in more PROVE FALSE
    OBVIOUS
  <2>1. PICK d \in Calls : p \in {d} \X (1..Bill(d))
    BY <1>3
  <2>2. d = c /\ p[2] \in 1..m /\ p[2] \in m + 1 .. m + n
    BY <2>1
  <2> QED  BY <1>1, <2>2
<1>7. IsFiniteSet(more) /\ Cardinality(more) = n
  BY <1>1, Span
<1> HIDE DEF more
<1>8. /\ IsFiniteSet(Billed \cup more)
      /\ Cardinality(Billed \cup more)
           = Cardinality(Billed) + Cardinality(more) - Cardinality(Billed \cap more)
  BY <1>7, FS_Union DEF BInv
<1>9. Cardinality(Billed \cap more) = 0
  BY <1>6, FS_EmptySet
<1>10. Cardinality(Billed) \in Nat
  BY FS_CardinalityType DEF BInv
<1> QED  BY <1>5, <1>7, <1>8, <1>9, <1>10 DEF BInv

\* A call that is refused, empty, or handed an answer of another is billed nothing ...
LEMMA EndsForNothing ==
  ASSUME BInv, NEW c \in Calls, NEW k, NEW status, NEW by, NEW life, call[c].stage = "new",
         Ends(c, k, status, by, life),
         by # c \/ status \notin {"SUCCESS", "COMPLETED", "VERIFICATION_FAILED"}
  PROVE  Others(c) /\ Bill(c) = 0 /\ Bill(c)' = 0
<1> DEFINE e == [stage |-> "done", key |-> k, begun |-> clock, ended |-> clock,
                 granted |-> FALSE, life |-> life, cycle |-> 0, status |-> status, by |-> by]
<1>1. call \in [Calls -> CallRecord]
  BY DEF BInv, CPInv, TypeOK
<1>2. call' = [call EXCEPT ![c] = e]
  BY DEF Ends
<1>3. /\ Others(c) /\ call'[c].stage = "done" /\ call'[c].by = by
      /\ call'[c].status = status /\ call'[c].cycle = 0
  BY <1>1, <1>2 DEF Others
<1>4. Inferences(c) = 0 /\ Inferences(c)' = 0
  BY <1>3 DEF Inferences, Replayed
<1>5. Weight(c) \in Nat /\ Weight(c)' \in Nat
  BY DEF Weight
<1> QED  BY <1>3, <1>4, <1>5 DEF Bill

\* ... and so is one that has only asked.
LEMMA AsksForNothing ==
  ASSUME BInv, NEW c \in Calls, NEW k, NEW life, call[c].stage = "new", Asks(c, k, life)
  PROVE  Others(c) /\ Bill(c) = 0 /\ Bill(c)' = 0
<1> DEFINE e == [stage |-> "asked", key |-> k, begun |-> clock, ended |-> 0,
                 granted |-> WithinBudget, life |-> life, cycle |-> 0,
                 status |-> None, by |-> None]
<1>1. call \in [Calls -> CallRecord]
  BY DEF BInv, CPInv, TypeOK
<1>2. call' = [call EXCEPT ![c] = e]
  BY DEF Asks
<1>3. /\ Others(c) /\ call'[c].stage = "asked" /\ call'[c].cycle = 0
  BY <1>1, <1>2 DEF Others
<1>4. Inferences(c) = 0 /\ Inferences(c)' = 0
  BY <1>3 DEF Inferences, Replayed
<1>5. Weight(c) \in Nat /\ Weight(c)' \in Nat
  BY DEF Weight
<1> QED  BY <1>3, <1>4, <1>5 DEF Bill

\* An answer of the gateway is billed when it is a good one.
LEMMA FinishesForOne ==
  ASSUME BInv, NEW c \in Calls, NEW status, NEW life, Asked(c), Finishes(c, status, life),
         NEW n, n = IF status \in {"SUCCESS", "COMPLETED", "VERIFICATION_FAILED"} THEN 1 ELSE 0
  PROVE  /\ Others(c)
         /\ Path(c) = "dispatch" => Bill(c)' = Bill(c) + 2 * n
         /\ Path(c) # "dispatch" => Bill(c)' = Bill(c) + n
<1>1. call[c] \in CallRecord /\ call \in [Calls -> CallRecord]
  BY DEF BInv, CPInv, TypeOK
<1>2. /\ Others(c) /\ call'[c].stage = "done" /\ call'[c].by = c /\ call'[c].key = call[c].key
      /\ call'[c].status = status /\ call'[c].cycle = call[c].cycle
  BY <1>1 DEF Finishes, Others, CallRecord
<1>3. Inferences(c) = call[c].cycle /\ Inferences(c)' = call[c].cycle + n /\ call[c].cycle \in Nat
  BY <1>1, <1>2 DEF Inferences, Replayed, Asked, CallRecord
<1>4. Weight(c)' = Weight(c) /\ Weight(c) = IF Path(c) = "dispatch" THEN 2 ELSE 1
  BY <1>2 DEF Weight, Path, Asked
<1>5. n \in {0, 1}
  OBVIOUS
<1> QED  BY <1>2, <1>3, <1>4, <1>5 DEF Bill

\* The next cycle of the pipeline has the last one billed.
LEMMA RetriesForOne ==
  ASSUME BInv, NEW c \in Calls, Asked(c), Path(c) = "pipeline", Retried(c)
  PROVE  Others(c) /\ Bill(c)' = Bill(c) + 1
<1>1. call[c] \in CallRecord /\ call \in [Calls -> CallRecord]
  BY DEF BInv, CPInv, TypeOK
<1>2. /\ Others(c) /\ call'[c].stage = call[c].stage /\ call'[c].by = call[c].by
      /\ call'[c].key = call[c].key
      /\ call'[c].status = call[c].status /\ call'[c].cycle = call[c].cycle + 1
  BY <1>1 DEF Retried, Others, CallRecord
<1>3. /\ Inferences(c) = call[c].cycle /\ Inferences(c)' = call[c].cycle + 1
      /\ call[c].cycle \in Nat
  BY <1>1, <1>2 DEF Inferences, Replayed, Asked, CallRecord
<1>4. Weight(c)' = 1 /\ Weight(c) = 1
  BY <1>2 DEF Weight, Path, Asked
<1> QED  BY <1>2, <1>3, <1>4 DEF Bill

LEMMA ReplayIsOfAnother ==
  ASSUME BInv, NEW c \in Calls, call[c].stage = "new", NEW k \in Keys, Replayable(store, k, clock)
  PROVE  store[k].by # c
<1>1. store[k].status = "COMPLETED"
  BY DEF Replayable, Cleaned, Absent, BInv, CPInv, TypeOK
<1>2. Stored(store[k].by)
  BY <1>1 DEF BInv, CPInv, EntrySound
<1> QED  BY <1>2 DEF Stored

LEMMA BInvInitially == Init => BInv
<1> SUFFICES ASSUME Init PROVE BInv
  OBVIOUS
<1>1. \A c \in Calls : call[c].stage = "new"
  BY DEF Init, NewCall
<1>2. \A c \in Calls : Inferences(c) = 0 /\ Weight(c) = 1
  BY <1>1 DEF Inferences, Weight
<1>3. \A c \in Calls : 1..Weight(c) * Inferences(c) = {}
  <2>1. ASSUME NEW c \in Calls PROVE 1..Weight(c) * Inferences(c) = 1..1 * 0
    BY <1>2
  <2>2. 1..1 * 0 = {}
    OBVIOUS
  <2> QED  BY <2>1, <2>2, Zenon
<1>4. Billed = {}
  BY <1>3 DEF Billed
<1>5. used = 0
  BY DEF Init
<1> QED  BY <1>2, <1>4, <1>5, CPInvInitially, FS_EmptySet DEF BInv

\* Every step adds to the bill of at most one call, and as much to the budget.
LEMMA BInvKept == BInv /\ [Next]_vars => BInv'
<1> SUFFICES ASSUME BInv, [Next]_vars PROVE BInv'
  OBVIOUS
<1>1. CPInv /\ CPInv' /\ TypeOK /\ TypeOK'
  BY CPInvKept DEF BInv, CPInv
<1>u. used \in Nat
  BY <1>1 DEF TypeOK
<1>2. ASSUME NEW c \in Calls, Others(c), NEW n \in Nat, Bill(c)' = Bill(c) + n,
             used' = used + n
      PROVE  BInv'
  BY <1>1, <1>2, BillGrows DEF BInv
<1>3. ASSUME NEW c \in Calls, Others(c), Bill(c) = 0, Bill(c)' = 0, used' = used
      PROVE  BInv'
  BY <1>2, <1>3, <1>u
<1>4. CASE UNCHANGED vars
  <2>1. Billed' = Billed
    BY <1>4 DEF vars, Billed, Weight, Inferences, Replayed, Path
  <2> QED  BY <1>1, <1>4, <2>1 DEF vars, BInv
<1>5. CASE Tick
  <2>1. Billed' = Billed
    BY <1>5 DEF Tick, Billed, Weight, Inferences, Replayed, Path
  <2> QED  BY <1>1, <1>5, <2>1 DEF Tick, BInv
<1>6. ASSUME NEW c \in Calls, NEW i \in Ids, RequestDispatch(c, i) PROVE BInv'
  <2> DEFINE k == <<"dispatch", i>>
  <2>1. k \in Keys /\ call[c].stage = "new"
    BY <1>6 DEF RequestDispatch
  <2>2. DispatchReplays(c, k) \/ DispatchRefused(c, k) \/ DispatchAsks(c, k)
    BY <1>6 DEF RequestDispatch
  <2> HIDE DEF k
  <2>3. CASE DispatchReplays(c, k)
    <3>1. store[k].by # c
      BY <2>1, <2>3, ReplayIsOfAnother DEF DispatchReplays
    <3>2. Others(c) /\ Bill(c) = 0 /\ Bill(c)' = 0
      BY <2>1, <2>3, <3>1, EndsForNothing DEF DispatchReplays
    <3> QED  BY <1>3, <2>3, <3>2 DEF DispatchReplays
  <2>4. CASE DispatchRefused(c, k)
    <3>1. PICK status \in {"BUDGET_EXCEEDED", "FAILED"} : Ends(c, k, status, c, <<>>)
      BY <2>4 DEF DispatchRefused
    <3>2. Others(c) /\ Bill(c) = 0 /\ Bill(c)' = 0
      BY <2>1, <3>1, EndsForNothing
    <3> QED  BY <1>3, <2>4, <3>2 DEF DispatchRefused
  <2>5. CASE DispatchAsks(c, k)
    <3>1. Others(c) /\ Bill(c) = 0 /\ Bill(c)' = 0
      BY <2>1, <2>5, AsksForNothing DEF DispatchAsks
    <3> QED  BY <1>3, <2>5, <3>1 DEF DispatchAsks
  <2> QED  BY <2>2, <2>3, <2>4, <2>5
<1>7. ASSUME NEW c \in Calls, NEW i \in Ids, RequestPipeline(c, i) PROVE BInv'
  <2> DEFINE k == <<"pipeline", i>>
  <2>1. k \in Keys /\ call[c].stage = "new"
    BY <1>7 DEF RequestPipeline
  <2>2. \/ PipelineEmpty(c, k) \/ PipelineReplays(c, k) \/ PipelineThrows(c, k)
        \/ PipelineRefused(c, k) \/ PipelineAsks(c, k)
    BY <1>7 DEF RequestPipeline
  <2> HIDE DEF k
  <2>3. CASE PipelineEmpty(c, k)
    <3>1. Others(c) /\ Bill(c) = 0 /\ Bill(c)' = 0
      BY <2>1, <2>3, EndsForNothing DEF PipelineEmpty
    <3> QED  BY <1>3, <2>3, <3>1 DEF PipelineEmpty
  <2>4. CASE PipelineReplays(c, k)
    <3>1. store[k].by # c
      BY <2>1, <2>4, ReplayIsOfAnother DEF PipelineReplays
    <3>2. Others(c) /\ Bill(c) = 0 /\ Bill(c)' = 0
      BY <2>1, <2>4, <3>1, EndsForNothing DEF PipelineReplays
    <3> QED  BY <1>3, <2>4, <3>2 DEF PipelineReplays
  <2>5. CASE PipelineRefused(c, k)
    <3>1. PICK status, life : /\ status \in {"FAILED", "BUDGET_EXCEEDED", "SECURITY_BLOCKED"}
                              /\ Ends(c, k, status, c, life)
      BY <2>5 DEF PipelineRefused
    <3>2. Others(c) /\ Bill(c) = 0 /\ Bill(c)' = 0
      BY <2>1, <3>1, EndsForNothing
    <3> QED  BY <1>3, <2>5, <3>2 DEF PipelineRefused
  <2>7. CASE PipelineThrows(c, k)
    <3>1. PICK life : Ends(c, k, "THREW", c, life)
      BY <2>7 DEF PipelineThrows
    <3>2. Others(c) /\ Bill(c) = 0 /\ Bill(c)' = 0
      BY <2>1, <3>1, EndsForNothing
    <3> QED  BY <1>3, <2>7, <3>2 DEF PipelineThrows
  <2>6. CASE PipelineAsks(c, k)
    <3>1. Others(c) /\ Bill(c) = 0 /\ Bill(c)' = 0
      BY <2>1, <2>6, AsksForNothing DEF PipelineAsks
    <3> QED  BY <1>3, <2>6, <3>1 DEF PipelineAsks
  <2> QED  BY <2>2, <2>3, <2>4, <2>5, <2>6, <2>7
<1>8. ASSUME NEW c \in Calls, DispatchSucceeds(c) PROVE BInv'
  <2>1. Asked(c) /\ Path(c) = "dispatch" /\ Finishes(c, "SUCCESS", <<>>) /\ used' = used + 2
    BY <1>8 DEF DispatchSucceeds
  <2>2. Others(c) /\ Bill(c)' = Bill(c) + 2 * 1
    BY <2>1, FinishesForOne
  <2> QED  BY <1>2, <2>1, <2>2
<1>9. ASSUME NEW c \in Calls, DispatchFails(c) PROVE BInv'
  <2>1. Asked(c) /\ Path(c) = "dispatch" /\ Finishes(c, "FAILED", <<>>) /\ used' = used
    BY <1>9 DEF DispatchFails
  <2>2. Others(c) /\ Bill(c)' = Bill(c) + 2 * 0
    BY <2>1, FinishesForOne
  <2> QED  BY <1>2, <1>u, <2>1, <2>2
<1>10. ASSUME NEW c \in Calls, PipelineFinal(c) PROVE BInv'
  <2>1. PICK status, life : /\ status \in {"COMPLETED", "VERIFICATION_FAILED"}
                            /\ Finishes(c, status, life)
    BY <1>10 DEF PipelineFinal
  <2>2. Asked(c) /\ Path(c) # "dispatch" /\ used' = used + 1
    BY <1>10 DEF PipelineFinal
  <2>3. Others(c) /\ Bill(c)' = Bill(c) + 1
    BY <2>1, <2>2, FinishesForOne
  <2> QED  BY <1>2, <2>2, <2>3
<1>11. ASSUME NEW c \in Calls, PipelineCorrects(c) PROVE BInv'
  <2>1. Others(c) /\ Bill(c)' = Bill(c) + 1 /\ used' = used + 1
    BY <1>11, RetriesForOne DEF PipelineCorrects
  <2> QED  BY <1>2, <2>1
<1>12. ASSUME NEW c \in Calls, PipelineFails(c) PROVE BInv'
  <2>1. PICK status, life : /\ status \in {"NOT_CONFIGURED", "PROVIDER_ERROR"}
                            /\ Finishes(c, status, life)
    BY <1>12 DEF PipelineFails
  <2>2. Asked(c) /\ Path(c) # "dispatch" /\ used' = used
    BY <1>12 DEF PipelineFails
  <2>3. Others(c) /\ Bill(c)' = Bill(c) + 0
    BY <2>1, <2>2, FinishesForOne
  <2> QED  BY <1>2, <1>u, <2>2, <2>3
<1> QED  BY <1>4, <1>5, <1>6, <1>7, <1>8, <1>9, <1>10, <1>11, <1>12 DEF Next

\* The budget is the bill of all calls, for any number of them: an inference of the
\* pipeline once, one of the control plane twice, and nothing else.
THEOREM AlwaysCounted == Spec => []CountedInferences
<1>1. BInv => CountedInferences
  BY DEF BInv, CountedInferences
<1> QED  BY <1>1, BInvInitially, BInvKept, PTL DEF Spec
=============================================================================
