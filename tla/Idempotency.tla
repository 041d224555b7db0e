----------------------------- MODULE Idempotency -----------------------------
(***************************************************************************)
(* The store of src/control-plane/idempotency.js: for each key at most one  *)
(* entry, a lock while the first call of the key runs and its answer after. *)
(* An entry is in force until exp, which is set when the lock is taken and  *)
(* never renewed.  An answer is named by the call that produced it.        *)
(***************************************************************************)
EXTENDS Naturals

CONSTANTS Calls, Keys, None,
          TTL        \* ttlMs

ASSUME IdempotencyAssumption == TTL \in Nat /\ None \notin Calls

Entry == [status: {"ABSENT", "IN_PROGRESS", "COMPLETED"}, exp: Nat, by: Calls \cup {None}]
Absent == [status |-> "ABSENT", exp |-> 0, by |-> None]

ExpiredEarly(e, now) == now >= e.exp
ExpiredLate(e, now) == now > e.exp + 1
Expired(e, now) == now > e.exp

\* cleanup: every acquire first drops what has expired.
Cleaned(store, now) == [k \in DOMAIN store |-> IF Expired(store[k], now) THEN Absent ELSE store[k]]

Replayable(store, k, now) == Cleaned(store, now)[k].status = "COMPLETED"

\* A second caller leaves the lock as it is.
Acquired(store, k, now) ==
  LET left == Cleaned(store, now)
  IN IF left[k].status = "ABSENT"
       THEN [left EXCEPT ![k] = [status |-> "IN_PROGRESS", exp |-> now + TTL, by |-> None]]
       ELSE left

\* The answer goes to whatever entry the key has by now, and is lost without one.
Committed(store, k, c) ==
  IF store[k].status = "ABSENT" THEN store
  ELSE [store EXCEPT ![k].status = "COMPLETED", ![k].by = c]

ReleasedNot(store, k) == store
Released(store, k) == [store EXCEPT ![k] = Absent]
=============================================================================
