---------------------------- MODULE ControlPlane ----------------------------
(***************************************************************************)
(* The two ways to one model answer that the server offers on one gateway: *)
(* executeDispatch of control-plane.js (path "dispatch") and execute of    *)
(* ai-execution-pipeline.js (path "pipeline").  Each has its idempotency   *)
(* store; the gateway's budget is shared.  The code between two awaits is   *)
(* one step, and the only await of either is the gateway's dispatch, which  *)
(* is here an environment that answers or fails (ProviderGateway has its    *)
(* inside).  Left out: classification, prompt rewriting and the choice of   *)
(* the provider, which may only fail; costs in dollars, whose limits work   *)
(* as that on calls does; the tier limits of cost-governor.js per task,     *)
(* tenant and workspace, likewise; a task that is no text, which throws     *)
(* before the store is asked.                                              *)
(***************************************************************************)
EXTENDS Idempotency, Sequences, FiniteSets

CONSTANTS Ids,             \* what makes two requests of one path the same
          MaxCalls,        \* maxCalls of the budget tracker
          MaxCorrections,  \* maxCorrectionCycles
          MaxClock         \* bound of the model: how far the clock goes

ASSUME ControlPlaneAssumption ==
  /\ MaxCalls \in Nat /\ MaxCorrections \in Nat /\ MaxClock \in Nat
  /\ Keys = {"dispatch", "pipeline"} \X Ids

VARIABLES
  clock,
  store,      \* store of both idempotency managers, by key
  used,       \* calls of the shared budget tracker
  call,       \* the calls: locals of executeDispatch and execute, and the answer given
  trail,      \* the audit ledger's events of each call, in order
  shared      \* history: the keys of which two calls have run at the same time

vars == <<clock, store, used, call, trail, shared>>

LifecycleStates == {"RECEIVED", "VALIDATED", "CLASSIFIED", "ANALYZED", "ROUTED", "INFERRED",
                    "NORMALIZED", "VERIFIED", "CORRECTED", "FINALIZED"}

\* ALLOWED_TRANSITIONS of ai-execution-pipeline.js; any state but the last may be finalized.
AllowedTransitions ==
  {<<"RECEIVED", "VALIDATED">>, <<"VALIDATED", "CLASSIFIED">>, <<"CLASSIFIED", "ANALYZED">>,
   <<"ANALYZED", "ROUTED">>, <<"ROUTED", "INFERRED">>, <<"INFERRED", "NORMALIZED">>,
   <<"NORMALIZED", "VERIFIED">>, <<"VERIFIED", "CORRECTED">>,
   <<"CORRECTED", "INFERRED">>, <<"CORRECTED", "NORMALIZED">>, <<"CORRECTED", "VERIFIED">>}
  \cup ((LifecycleStates \ {"FINALIZED"}) \X {"FINALIZED"})

NewCall == [stage |-> "new", key |-> None, begun |-> 0, ended |-> 0, granted |-> FALSE,
            life |-> <<>>, cycle |-> 0, status |-> None, by |-> None]

Init ==
  /\ clock = 0
  /\ store = [k \in Keys |-> Absent]
  /\ used = 0
  /\ call = [c \in Calls |-> NewCall]
  /\ trail = [c \in Calls |-> <<>>]
  /\ shared = {}

Path(c) == call[c].key[1]
Asked(c) == call[c].stage = "asked"
WithinBudget == used < MaxCalls

\* A request of key k arrives as call c and ends at once with this status; by says
\* whose answer it is handed.
Ends(c, k, status, by, life) ==
  call' = [call EXCEPT ![c] =
             [stage |-> "done", key |-> k, begun |-> clock, ended |-> clock, granted |-> FALSE,
              life |-> life, cycle |-> 0, status |-> status, by |-> by]]

Meets(k) == shared' = IF \E d \in Calls : Asked(d) /\ call[d].key = k THEN shared \cup {k} ELSE shared

\* It asks the gateway, which looks at the budget before its own first await.
Asks(c, k, life) ==
  call' = [call EXCEPT ![c] =
             [stage |-> "asked", key |-> k, begun |-> clock, ended |-> 0, granted |-> WithinBudget,
              life |-> life, cycle |-> 0, status |-> None, by |-> None]]

Finishes(c, status, life) ==
  call' = [call EXCEPT ![c].stage = "done", ![c].ended = clock, ![c].status = status,
                       ![c].by = c, ![c].life = life]

Log(c, events) == trail' = [trail EXCEPT ![c] = @ \o events]

-----------------------------------------------------------------------------
(* executeDispatch *)

DispatchReplaysBilled(c, k) ==
  /\ Replayable(store, k, clock)
  /\ store' = Acquired(store, k, clock)
  /\ Ends(c, k, call[store[k].by].status, store[k].by, <<>>)
  /\ used' = used + 1
  /\ UNCHANGED <<clock, trail, shared>>
\* A stored answer is handed out again, before anything is written to the ledger.
DispatchReplays(c, k) ==
  /\ Replayable(store, k, clock)
  /\ store' = Acquired(store, k, clock)
  /\ Ends(c, k, call[store[k].by].status, store[k].by, <<>>)
  /\ UNCHANGED <<clock, used, trail, shared>>

\* The budget is used up, or no provider may be given the request; either way the
\* lock is released, whoever holds it.
DispatchRefused(c, k) ==
  /\ ~Replayable(store, k, clock)
  /\ \E status \in {"BUDGET_EXCEEDED", "FAILED"} :
       /\ (status = "BUDGET_EXCEEDED") = ~WithinBudget
       /\ Ends(c, k, status, c, <<>>)
  /\ store' = Released(Acquired(store, k, clock), k)
  /\ Meets(k)
  /\ Log(c, <<"STARTED", "FAILED">>)
  /\ UNCHANGED <<clock, used>>

\* A call that finds the key's lock taken goes on as the first one does.
DispatchAsks(c, k) ==
  /\ ~Replayable(store, k, clock)
  /\ WithinBudget
  /\ store' = Acquired(store, k, clock)
  /\ Asks(c, k, <<>>)
  /\ Meets(k)
  /\ Log(c, <<"STARTED", "SELECTED">>)
  /\ UNCHANGED <<clock, used>>

RequestDispatch(c, i) ==
  LET k == <<"dispatch", i>>
  IN call[c].stage = "new" /\ (DispatchReplays(c, k) \/ DispatchRefused(c, k) \/ DispatchAsks(c, k))

\* The gateway has counted the call, and the cost governor counts it again on the
\* same tracker.
DispatchSucceeds(c) ==
  /\ Asked(c) /\ Path(c) = "dispatch"
  /\ used' = used + 2
  /\ store' = Committed(store, call[c].key, c)
  /\ Finishes(c, "SUCCESS", <<>>)
  /\ Log(c, <<"COMPLETED">>)
  /\ UNCHANGED <<clock, shared>>

\* A failed answer (of the provider, or of an open circuit) is stored like a good one.
DispatchFails(c) ==
  /\ Asked(c) /\ Path(c) = "dispatch"
  /\ store' = Committed(store, call[c].key, c)
  /\ Finishes(c, "FAILED", <<>>)
  /\ Log(c, <<"FAILED">>)
  /\ UNCHANGED <<clock, used, shared>>

-----------------------------------------------------------------------------
(* execute of the pipeline *)

Received == <<"RECEIVED", "VALIDATED">>
Classified == Append(Received, "CLASSIFIED")
Analyzed == Append(Classified, "ANALYZED")
Routed == Append(Analyzed, "ROUTED")

\* An empty task ends before the store is asked.
PipelineEmpty(c, k) ==
  /\ Ends(c, k, "FAILED", c, Append(Received, "FINALIZED"))
  /\ UNCHANGED <<clock, store, used, trail, shared>>

PipelineReplays(c, k) ==
  /\ Replayable(store, k, clock)
  /\ store' = Acquired(store, k, clock)
  /\ Ends(c, k, call[store[k].by].status, store[k].by, Received)
  /\ UNCHANGED <<clock, used, trail, shared>>

\* The lock is taken; then a task that is too long (securePromptContext), or a quality
\* target that is no text (analyzeTask), throws and nothing catches it: the caller gets
\* the error, and the lock stays.
PipelineThrows(c, k) ==
  /\ ~Replayable(store, k, clock)
  /\ store' = Acquired(store, k, clock)
  /\ \E life \in {Classified, Analyzed} : Ends(c, k, "THREW", c, life)
  /\ UNCHANGED <<clock, used, trail, shared>>

\* A budget of the request that is not positive is audited, a request the router
\* refuses, for whatever reason, is not.
PipelineRefused(c, k) ==
  /\ ~Replayable(store, k, clock)
  /\ store' = Released(Acquired(store, k, clock), k)
  /\ \/ /\ Ends(c, k, "BUDGET_EXCEEDED", c, Append(Classified, "FINALIZED"))
        /\ Log(c, <<"FAILED">>)
     \/ /\ \E status \in {"FAILED", "SECURITY_BLOCKED", "BUDGET_EXCEEDED"} :
             Ends(c, k, status, c, Append(Routed, "FINALIZED"))
        /\ UNCHANGED trail
  /\ Meets(k)
  /\ UNCHANGED <<clock, used>>

PipelineAsks(c, k) ==
  /\ ~Replayable(store, k, clock)
  /\ store' = Acquired(store, k, clock)
  /\ Asks(c, k, Append(Routed, "INFERRED"))
  /\ Meets(k)
  /\ Log(c, <<"SELECTED">>)
  /\ UNCHANGED <<clock, used>>

RequestPipeline(c, i) ==
  LET k == <<"pipeline", i>>
  IN /\ call[c].stage = "new"
     /\ \/ PipelineEmpty(c, k) \/ PipelineReplays(c, k) \/ PipelineThrows(c, k)
        \/ PipelineRefused(c, k) \/ PipelineAsks(c, k)

Inferred(c) == Append(Append(call[c].life, "NORMALIZED"), "VERIFIED")

\* The answer passes its verification, or the corrections are used up: both are stored.
PipelineFinal(c) ==
  /\ Asked(c) /\ Path(c) = "pipeline" /\ call[c].granted
  /\ used' = used + 1
  /\ \/ Finishes(c, "COMPLETED", Append(Inferred(c), "FINALIZED"))
     \/ /\ call[c].cycle = MaxCorrections
        /\ Finishes(c, "VERIFICATION_FAILED", Append(Inferred(c), "FINALIZED"))
  /\ store' = Committed(store, call[c].key, c)
  /\ Log(c, <<"COMPLETED">>)
  /\ UNCHANGED <<clock, shared>>

\* The next cycle asks the gateway again, which looks at the budget again.
Retried(c) ==
  call' = [call EXCEPT ![c].cycle = @ + 1, ![c].granted = used + 1 < MaxCalls,
                       ![c].life = Append(Inferred(c), "CORRECTED")]

PipelineCorrects(c) ==
  /\ Asked(c) /\ Path(c) = "pipeline" /\ call[c].granted
  /\ call[c].cycle < MaxCorrections
  /\ used' = used + 1
  /\ Retried(c)
  /\ UNCHANGED <<clock, store, trail, shared>>

\* Unconfigured, failed, or refused by the gateway: the lock goes, whoever holds it,
\* with any answer stored under the key, and the ledger is told nothing.
PipelineFails(c) ==
  /\ Asked(c) /\ Path(c) = "pipeline"
  /\ store' = Released(store, call[c].key)
  /\ \E status \in {"NOT_CONFIGURED", "PROVIDER_ERROR"} :
       Finishes(c, status, Append(call[c].life, "FINALIZED"))
  /\ UNCHANGED <<clock, used, trail, shared>>

-----------------------------------------------------------------------------
Tick ==
  /\ clock < MaxClock
  /\ clock' = clock + 1
  /\ UNCHANGED <<store, used, call, trail, shared>>

Next ==
  \/ Tick
  \/ \E c \in Calls, i \in Ids : RequestDispatch(c, i) \/ RequestPipeline(c, i)
  \/ \E c \in Calls :
       \/ DispatchSucceeds(c) \/ DispatchFails(c)
       \/ PipelineFinal(c) \/ PipelineCorrects(c) \/ PipelineFails(c)

Spec == Init /\ [][Next]_vars

-----------------------------------------------------------------------------
Statuses == {"SUCCESS", "FAILED", "BUDGET_EXCEEDED", "SECURITY_BLOCKED", "COMPLETED",
             "VERIFICATION_FAILED", "NOT_CONFIGURED", "PROVIDER_ERROR", "THREW"}

CallRecord ==
  [stage: {"new", "asked", "done"}, key: Keys \cup {None}, begun: Nat, ended: Nat,
   granted: BOOLEAN, life: Seq(LifecycleStates), cycle: 0..MaxCorrections,
   status: Statuses \cup {None}, by: Calls \cup {None}]
Events == {"STARTED", "SELECTED", "COMPLETED", "FAILED"}

\* The shape of the state.
TypeOK ==
  /\ clock \in 0..MaxClock
  /\ store \in [Keys -> Entry]
  /\ used \in Nat
  /\ call \in [Calls -> CallRecord]
  /\ trail \in [Calls -> Seq(Events)]
  /\ shared \subseteq Keys

\* The answer of c went into the store.
Stored(c) ==
  /\ call[c].stage = "done" /\ call[c].by = c /\ call[c].granted
  /\ Path(c) = "dispatch" \/ call[c].status \in {"COMPLETED", "VERIFICATION_FAILED"}

Replayed(c) == call[c].stage = "done" /\ call[c].by # c

Threw(c) == call[c].stage = "done" /\ call[c].status = "THREW"

\* When the answer of c may go out of the store: a lifetime after c began, or after a call
\* before it that threw and whose lock c found.
Lapses(c) ==
  LET owners == {b \in Calls : /\ call[b].key = call[c].key /\ (b = c \/ Threw(b))
                               /\ call[b].begun <= call[c].begun
                               /\ call[c].begun <= call[b].begun + TTL}
  IN {call[b].begun + TTL : b \in owners}

\* Two calls of a key get answers of their own only when the second came after the lifetime
\* of the entry that the first one's answer went to, or when two calls of the key once ran
\* at the same time: what the stores still promise although no caller minds their locks.
AnsweredOnce ==
  \A c, d \in Calls :
    (/\ c # d /\ Stored(c) /\ Stored(d) /\ call[c].key = call[d].key
     /\ call[c].key \notin shared /\ call[c].begun <= call[d].begun)
      => \E t \in Lapses(c) : call[d].begun > t

\* An answer handed out again was produced for the same key, stored, and at most TTL
\* ago: also when it was stored in an entry whose lock another call had taken.
ReplaysAreFresh ==
  \A c \in Calls :
    Replayed(c) => LET by == call[c].by
                   IN /\ Stored(by) /\ call[by].key = call[c].key
                      /\ call[by].ended <= call[c].begun /\ call[c].begun <= call[by].ended + TTL

\* A lock is that of a call of its key which still runs, or which threw in the pipeline,
\* and goes a lifetime after that call began: no other way of ending, and nothing that the
\* calls of a key do to each other's entries, leaves a lock behind or keeps it longer.
LockHasOwner ==
  \A k \in Keys :
    store[k].status = "IN_PROGRESS" =>
      \E c \in Calls : /\ call[c].key = k /\ store[k].exp = call[c].begun + TTL
                       /\ Asked(c) \/ (Threw(c) /\ k[1] = "pipeline")

\* The lifecycle of every pipeline call goes along the table of allowed transitions, so
\* that no transition throws with the lock taken.  It ends in FINALIZED unless it is a
\* replay, or was left where the prompt's check or the task's analysis threw.
LifecycleLegal ==
  \A c \in Calls :
    LET life == call[c].life
    IN /\ \A n \in 1..Len(life) - 1 : <<life[n], life[n + 1]>> \in AllowedTransitions
       /\ (call[c].stage = "done" /\ Path(c) = "pipeline" /\ ~Replayed(c))
            => life[Len(life)] \in IF Threw(c) THEN {"CLASSIFIED", "ANALYZED"} ELSE {"FINALIZED"}

\* The answers the gateway has given to a call, and how often the budget counts one.
Inferences(c) ==
  IF call[c].stage = "new" \/ Replayed(c) THEN 0
  ELSE call[c].cycle + (IF /\ call[c].stage = "done"
                           /\ call[c].status \in {"SUCCESS", "COMPLETED", "VERIFICATION_FAILED"}
                          THEN 1 ELSE 0)
Weight(c) == IF call[c].stage # "new" /\ Path(c) = "dispatch" THEN 2 ELSE 1
Billed == UNION {{c} \X (1..Weight(c) * Inferences(c)) : c \in Calls}

\* The budget counts every inference of the pipeline, each correction too, once and every
\* inference of the control plane twice; an answer handed out again, a refusal, a throw and
\* a failure cost nothing.
CountedInferences == used = Cardinality(Billed)

\* What FAZ59_IDEMPOTENCY_REPORT.md says of the lock: identical requests are serialized.
OneRunPerKey ==
  \A c, d \in Calls : (Asked(c) /\ Asked(d) /\ call[c].key = call[d].key) => c = d
=============================================================================
