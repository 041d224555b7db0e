--------------------------- MODULE CredentialPool ---------------------------
(***************************************************************************)
(* credential-pool.js: what the pool keeps of one credential, and each of  *)
(* its methods as an operator on that entry.  The orchestrator composes    *)
(* several of them between two awaits.                                     *)
(*                                                                         *)
(* The aliases google/gemini share one entry and are one provider here;    *)
(* priorities, tokens, latencies and counters only rank or report.         *)
(***************************************************************************)
EXTENDS Naturals, FiniteSets

CONSTANTS Models,
          PoolCooldown,   \* defaultCooldownMs
          MaxConcurrent   \* maxConcurrentRequests

ASSUME PoolAssumption == {PoolCooldown, MaxConcurrent} \subseteq Nat \ {0}

\* DEGRADED stands for TIMEOUT too: both stay available until a success.
Healths == {"HEALTHY", "DEGRADED", "RATE_LIMITED", "QUOTA_EXCEEDED", "AUTH_FAILED"}
\* The health kept of a model; UNTRACKED: modelHealth has no entry for it.
ModelHealths == {"UNTRACKED", "HEALTHY", "RATE_LIMITED", "QUOTA_EXCEEDED"}

Credential == [registered: BOOLEAN, inFlight: Nat, health: Healths, until: Nat,
               model: [Models -> [health: ModelHealths, until: Nat]]]

\* registerCredential: a new entry, whatever was under that name before.
Registered ==
  [registered |-> TRUE, inFlight |-> 0, health |-> "HEALTHY", until |-> 0,
   model |-> [m \in Models |-> [health |-> "UNTRACKED", until |-> 0]]]
\* removeCredential
Removed == [Registered EXCEPT !.registered = FALSE]

\* checkCooldownExpiry, which getCredential and listCredentials call first.
Looked(e, now) ==
  IF e.health = "RATE_LIMITED" /\ now >= e.until
  THEN [e EXCEPT !.health = "HEALTHY", !.until = 0] ELSE e

\* isAvailable, of a looked at entry.
Available(e) ==
  /\ e.registered
  /\ e.health \notin {"AUTH_FAILED", "QUOTA_EXCEEDED", "RATE_LIMITED"}
  /\ e.inFlight < MaxConcurrent

ModelHealthByEntry(e, m, now) == e.health
\* getModelHealth: what stops the whole account first, then what is known of the
\* model; a model nothing is known of is healthy when another one is tracked.
ModelHealth(e, m, now) ==
  LET known == e.model[m]
  IN IF e.health \in {"AUTH_FAILED", "QUOTA_EXCEEDED"} THEN e.health
     ELSE IF known.health # "UNTRACKED"
       THEN IF known.until > now \/ known.health = "QUOTA_EXCEEDED" THEN known.health ELSE "HEALTHY"
     ELSE IF \E n \in Models : e.model[n].health # "UNTRACKED" THEN "HEALTHY"
     ELSE e.health

\* isCandidateAvailable: it does not look at the calls in flight.
CandidateAvailable(e, m, now) ==
  /\ e.registered
  /\ ModelHealth(e, m, now) \notin {"AUTH_FAILED", "QUOTA_EXCEEDED", "RATE_LIMITED"}

\* acquireConcurrency: FALSE, and nothing counted, when it is not available.
Acquired(e) == IF Available(e) THEN [e EXCEPT !.inFlight = @ + 1] ELSE e
\* releaseConcurrency
Released(e) == [e EXCEPT !.inFlight = IF @ = 0 THEN 0 ELSE @ - 1]

\* markQuotaExceeded, markRateLimited, markAuthFailed, markTimeout, markDegraded:
\* each overwrites the health there was.  The end of the cooldown matters only
\* to a credential that is rate limited.
Marked(e, health, now) ==
  [e EXCEPT !.health = health,
            !.until = IF health = "RATE_LIMITED" THEN now + PoolCooldown ELSE 0]

\* markModelHealth
ModelMarked(e, m, health, now) ==
  [e EXCEPT !.model[m] =
     [health |-> health,
      until  |-> IF health = "RATE_LIMITED" THEN now + PoolCooldown ELSE 0]]

\* recordSuccess and then markModelHealthy.
Succeeded(e, m, now) ==
  ModelMarked([e EXCEPT !.health = IF @ = "DEGRADED" THEN "HEALTHY" ELSE @], m, "HEALTHY", now)
=============================================================================
