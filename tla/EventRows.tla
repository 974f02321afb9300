----------------------------- MODULE EventRows -----------------------------
(***************************************************************************)
(* The rows of the event_queue table and what each statement of            *)
(* queue/durable.py does to one row.  Every queue operation runs in one    *)
(* SQLite transaction, so it is one atomic step of the modules that use    *)
(* these operators.                                                        *)
(*                                                                         *)
(* Deadlines are kept as the time that is left: "wait" is run_after - now  *)
(* and "lease" is lease_until - now, both floored at zero, because the     *)
(* code only ever compares them with now ("run_after <= now" is wait = 0,  *)
(* "lease_until <= now" is lease = 0).  Elapse lets one second pass.       *)
(*                                                                         *)
(* lease_token is a fresh uuid per claim.  All comparisons are made on one *)
(* row and attempts grows by one with every claim of that row, so the      *)
(* number of the claim stands for the uuid; 0 stands for NULL.             *)
(***************************************************************************)
EXTENDS Naturals

CONSTANTS MaxAttempts,   \* max_attempts of the rows
          LeaseSeconds   \* lease_seconds of the claiming worker

ASSUME EventRowAssumption ==
    /\ MaxAttempts \in Nat \ {0}
    /\ LeaseSeconds \in Nat \ {0}

Settled == {"done", "dead_letter"}
RowStatus == {"absent", "queued", "leased", "retrying"} \cup Settled

EventRow == [status: RowStatus, wait: Nat, attempts: Nat, lease: Nat, token: Nat]

NoRow == [status |-> "absent", wait |-> 0, attempts |-> 0, lease |-> 0, token |-> 0]

NewRow(delay) ==
    [status |-> "queued", wait |-> delay, attempts |-> 0, lease |-> 0, token |-> 0]

Present(r) == r.status # "absent"

----------------------------------------------------------------------------
\* claim_due: first the expired leases without attempts left are closed
\* (unless the caller recovers them), then every due row is a candidate.

Expired(r) == r.status = "leased" /\ r.lease = 0

Released(r, s) == [r EXCEPT !.status = s, !.lease = 0, !.token = 0]

CloseExhausted(r, recover) ==
    IF Expired(r) /\ r.attempts >= MaxAttempts /\ ~recover
    THEN Released(r, "dead_letter")
    ELSE r

\* Mutated form: an expired lease is never given to another worker.
ClaimableNeverExpired(r, recover) ==
    /\ r.wait = 0
    /\ r.status \in {"queued", "retrying"}

Claimable(r, recover) ==
    /\ r.wait = 0
    /\ \/ r.status \in {"queued", "retrying"}
       \/ Expired(r) /\ (r.attempts < MaxAttempts \/ recover)

Claimed(r) ==
    [r EXCEPT !.status = "leased", !.lease = LeaseSeconds,
              !.attempts = r.attempts + 1, !.token = r.attempts + 1]

----------------------------------------------------------------------------
\* The transitions of a claimed row.  Each is fenced by the token; only
\* renew_lease also asks that the lease has not expired.

HoldsLease(r, t) == r.status = "leased" /\ r.token = t

\* Mutated form: mark_done without the token in its WHERE clause.
MarkDoneUnfenced(r, t) ==
    IF r.status = "leased" THEN Released(r, "done") ELSE r

MarkDone(r, t) ==
    IF HoldsLease(r, t) THEN Released(r, "done") ELSE r

MarkDeadLetter(r, t) ==
    IF HoldsLease(r, t) THEN Released(r, "dead_letter") ELSE r

RenewLease(r, t) ==
    IF HoldsLease(r, t) /\ r.lease > 0
    THEN [r EXCEPT !.lease = LeaseSeconds]
    ELSE r

RetryStatus(r) ==
    IF r.attempts >= MaxAttempts THEN "dead_letter" ELSE "retrying"

\* Mutated form: mark_retry writes without looking at the lease.
MarkRetryUnfenced(r, t, delay) ==
    [Released(r, RetryStatus(r)) EXCEPT !.wait = delay]

MarkRetry(r, t, delay) ==
    IF HoldsLease(r, t)
    THEN [Released(r, RetryStatus(r)) EXCEPT !.wait = delay]
    ELSE r

----------------------------------------------------------------------------
\* One second passes.

Countdown(n) == IF n > 0 THEN n - 1 ELSE 0

Elapse(r) == [r EXCEPT !.wait = Countdown(r.wait), !.lease = Countdown(r.lease)]

Ticking(r) == r.wait > 0 \/ r.lease > 0

============================================================================
