----------------------------- MODULE AgentQueue -----------------------------
(***************************************************************************)
(* The durable event queue and the polling workers that drain it           *)
(* (queue/durable.py, runtime/worker_loop.py, agent/worker.py).            *)
(*                                                                         *)
(* A queue operation is one transaction.  A worker is the coroutine of     *)
(* run_polling_worker: it claims a batch, starts one lease guard per item, *)
(* then processes the items in claim order.  Other workers, heartbeats and *)
(* the clock run between any two of its steps.                             *)
(*                                                                         *)
(* An event is identified by its idempotency key, which is unique per      *)
(* tenant: a key stands for a (tenant_id, idempotency_key) pair, and       *)
(* Scope[w] for the keys of the recipient and tenant that worker w claims. *)
(***************************************************************************)
EXTENDS EventRows, FiniteSets

CONSTANTS Keys,           \* idempotency keys
          Requests,       \* what an enqueue asks for: [priority, delay, body]
          Workers,
          Scope,          \* the keys a worker's recipient and tenant select
          Limit,          \* batch_size
          RetryBackoff,   \* retry_backoff_s
          NoKey,          \* "no current item"
          NoRequest       \* the fingerprint of a row that does not exist

ASSUME AgentQueueAssumption ==
    /\ IsFiniteSet(Keys)
    /\ Requests \subseteq [priority: Nat, delay: Nat, body: STRING]
    /\ Scope \in [Workers -> SUBSET Keys]
    /\ Limit \in Nat \ {0}
    /\ RetryBackoff \in Nat
    /\ NoKey \notin Keys
    /\ NoRequest \notin Requests

VARIABLES
    row,       \* event_queue: key -> EventRow
    request,   \* key -> the fingerprinted request of the row
    rowid,     \* key -> insertion number, 0 when the row is absent
    stage,     \* worker -> where its coroutine is
    held,      \* worker -> key -> lease token of the claimed item, 0 if none
    guard,     \* worker -> key -> state of the item's _LeaseGuard
    item,      \* worker -> the item being processed
    outcome,   \* worker -> how the handler of that item ended
    verdicts,  \* history: key -> {<<token, outcome>>} of finished handlers
    runs,      \* history: key -> tokens under which a handler was started
    notified   \* history: key -> settled outcomes told to the observer

rows == <<row, request, rowid>>
loop == <<stage, held, guard, item, outcome>>
history == <<verdicts, runs, notified>>
vars == <<rows, loop, history>>

Stages == {"idle", "starting", "looping", "handling", "settling", "notifying"}
Guards == {"new", "beating", "lost"}
Outcomes == {"ok", "retry", "fatal"}

TypeOK ==
    /\ row \in [Keys -> EventRow]
    /\ request \in [Keys -> Requests \cup {NoRequest}]
    /\ rowid \in [Keys -> Nat]
    /\ stage \in [Workers -> Stages]
    /\ held \in [Workers -> [Keys -> Nat]]
    /\ guard \in [Workers -> [Keys -> Guards]]
    /\ item \in [Workers -> Keys \cup {NoKey}]
    /\ outcome \in [Workers -> Outcomes]
    /\ verdicts \in [Keys -> SUBSET (Nat \X Outcomes)]
    /\ runs \in [Keys -> SUBSET Nat]
    /\ notified \in [Keys -> [Settled -> Nat]]

Init ==
    /\ row = [k \in Keys |-> NoRow]
    /\ request = [k \in Keys |-> NoRequest]
    /\ rowid = [k \in Keys |-> 0]
    /\ stage = [w \in Workers |-> "idle"]
    /\ held = [w \in Workers |-> [k \in Keys |-> 0]]
    /\ guard = [w \in Workers |-> [k \in Keys |-> "new"]]
    /\ item = [w \in Workers |-> NoKey]
    /\ outcome = [w \in Workers |-> "ok"]
    /\ verdicts = [k \in Keys |-> {}]
    /\ runs = [k \in Keys |-> {}]
    /\ notified = [k \in Keys |-> [s \in Settled |-> 0]]

----------------------------------------------------------------------------
\* enqueue.  A second enqueue under a key of an existing row writes nothing:
\* it returns None when the fingerprints agree and raises
\* IdempotencyConflictError when they do not.

Enqueue(k, q) ==
    /\ ~Present(row[k])
    /\ row' = [row EXCEPT ![k] = NewRow(q.delay)]
    /\ request' = [request EXCEPT ![k] = q]
    /\ rowid' = [rowid EXCEPT ![k] = Cardinality({j \in Keys : Present(row[j])}) + 1]
    /\ UNCHANGED <<loop, history>>

\* ORDER BY priority, created_at, rowid; rows are created in rowid order.

Before(j, k) ==
    \/ request[j].priority < request[k].priority
    \/ request[j].priority = request[k].priority /\ rowid[j] < rowid[k]

\* claim_due of the agent worker (recover_exhausted is left at False).
Close(r) == CloseExhausted(r, FALSE)

\* Mutated form: claims of the agent worker recover exhausted leases.
CanClaimRecovering(r) == Claimable(r, TRUE)

CanClaim(r) == Claimable(Close(r), FALSE)

Due(w) == {k \in Scope[w] : CanClaim(row[k])}

Batch(w) == {k \in Due(w) : Cardinality({j \in Due(w) : Before(j, k)}) < Limit}

ClaimDue(w) ==
    /\ stage[w] = "idle"
    /\ row' = [k \in Keys |->
                 IF k \in Batch(w) THEN Claimed(row[k])
                 ELSE IF k \in Scope[w] THEN Close(row[k])
                 ELSE row[k]]
    /\ held' = [held EXCEPT ![w] = [k \in Keys |->
                  IF k \in Batch(w) THEN Claimed(row[k]).token ELSE 0]]
    /\ stage' = [stage EXCEPT ![w] = IF Batch(w) = {} THEN "idle" ELSE "starting"]
    /\ UNCHANGED <<request, rowid, guard, item, outcome, history>>

----------------------------------------------------------------------------
\* _LeaseGuard: one renewal when it starts, then one per heartbeat.  A
\* renewal that changes no row, or raises, sets the guard's lost event and
\* ends the heartbeat.

Holding(w) == {k \in Keys : held[w][k] # 0}

RenewOnce(w, k) ==
    \/ /\ row' = [row EXCEPT ![k] = RenewLease(row[k], held[w][k])]
       /\ guard' = [guard EXCEPT ![w][k] =
            IF HoldsLease(row[k], held[w][k]) /\ row[k].lease > 0
            THEN "beating" ELSE "lost"]
    \/ /\ guard' = [guard EXCEPT ![w][k] = "lost"]
       /\ UNCHANGED row

StartGuard(w, k) ==
    /\ stage[w] = "starting"
    /\ k \in Holding(w)
    /\ guard[w][k] = "new"
    /\ RenewOnce(w, k)
    /\ stage' = [stage EXCEPT ![w] =
         IF \E j \in Holding(w) \ {k} : guard[w][j] = "new" THEN "starting" ELSE "looping"]
    /\ UNCHANGED <<request, rowid, held, item, outcome, history>>

Heartbeat(w, k) ==
    /\ k \in Holding(w)
    /\ guard[w][k] = "beating"
    /\ RenewOnce(w, k)
    /\ UNCHANGED <<request, rowid, stage, held, item, outcome, history>>

----------------------------------------------------------------------------
\* The items of the batch, in claim order.

IsNextItem(w, k) ==
    /\ k \in Holding(w)
    /\ \A j \in Holding(w) \ {k} : Before(k, j)

\* The item is finished with, one way or another; the batch is closed after
\* its last item.
Finish(w, k) ==
    /\ held' = [held EXCEPT ![w][k] = 0]
    /\ guard' = [guard EXCEPT ![w][k] = "new"]
    /\ item' = [item EXCEPT ![w] = NoKey]
    /\ outcome' = [outcome EXCEPT ![w] = "ok"]
    /\ stage' = [stage EXCEPT ![w] = IF Holding(w) = {k} THEN "idle" ELSE "looping"]

\* _LeaseGuard.process when the lease was not lost: the handler is called.
StartHandler(w, k) ==
    /\ stage[w] = "looping"
    /\ IsNextItem(w, k)
    /\ guard[w][k] # "lost"
    /\ item' = [item EXCEPT ![w] = k]
    /\ stage' = [stage EXCEPT ![w] = "handling"]
    /\ runs' = [runs EXCEPT ![k] = @ \cup {held[w][k]}]
    /\ UNCHANGED <<rows, held, guard, outcome, verdicts, notified>>

\* _LeaseGuard.process when it was: LeaseLostError, the loop goes on.
SkipLost(w, k) ==
    /\ stage[w] = "looping"
    /\ IsNextItem(w, k)
    /\ guard[w][k] = "lost"
    /\ Finish(w, k)
    /\ UNCHANGED <<rows, history>>

\* The lost event is set while the item is processed: the task is cancelled.
\* A queue write in flight completes, so cancelling falls between two steps.
CancelLost(w) ==
    /\ stage[w] \in {"handling", "settling", "notifying"}
    /\ guard[w][item[w]] = "lost"
    /\ Finish(w, item[w])
    /\ UNCHANGED <<rows, history>>

\* handler.handle returns, raises, or raises a non-retryable error.
HandlerEnds(w, o) ==
    /\ stage[w] = "handling"
    /\ stage' = [stage EXCEPT ![w] = "settling"]
    /\ outcome' = [outcome EXCEPT ![w] = o]
    /\ verdicts' = [verdicts EXCEPT ![item[w]] = @ \cup {<<held[w][item[w]], o>>}]
    /\ UNCHANGED <<rows, held, guard, item, runs, notified>>

\* mark_done itself raises: the except branch goes on to mark_retry.
MarkDoneRaises(w) ==
    /\ stage[w] = "settling"
    /\ outcome[w] = "ok"
    /\ outcome' = [outcome EXCEPT ![w] = "retry"]
    /\ UNCHANGED <<rows, stage, held, guard, item, history>>

SettledRow(r, t, o) ==
    CASE o = "ok" -> MarkDone(r, t)
      [] o = "fatal" -> MarkDeadLetter(r, t)
      [] o = "retry" -> MarkRetry(r, t, RetryBackoff)

\* _handle_event after the handler: one fenced write, and the observer is
\* told only when the write changed the row.
Settle(w) ==
    /\ stage[w] = "settling"
    /\ row' = [row EXCEPT ![item[w]] = SettledRow(@, held[w][item[w]], outcome[w])]
    /\ IF HoldsLease(row[item[w]], held[w][item[w]])
       THEN /\ stage' = [stage EXCEPT ![w] = "notifying"]
            /\ UNCHANGED <<held, guard, item, outcome>>
       ELSE Finish(w, item[w])
    /\ UNCHANGED <<request, rowid, history>>

\* What the observer is told: the status the write has set.

Reported(w) ==
    CASE outcome[w] = "ok" -> "done"
      [] outcome[w] = "fatal" -> "dead_letter"
      [] outcome[w] = "retry" ->
           IF held[w][item[w]] >= MaxAttempts THEN "dead_letter" ELSE "retrying"

\* _notify_outcome: errors and the ten second timeout are swallowed.
Notify(w) ==
    /\ stage[w] = "notifying"
    /\ notified' = IF Reported(w) \in Settled
                   THEN [notified EXCEPT ![item[w]][Reported(w)] = @ + 1]
                   ELSE notified
    /\ Finish(w, item[w])
    /\ UNCHANGED <<rows, verdicts, runs>>

\* The process dies, or a queue write raises out of the loop, and the worker
\* is started again: everything it remembered is gone, the rows stay.
Crash(w) ==
    /\ stage[w] # "idle"
    /\ stage' = [stage EXCEPT ![w] = "idle"]
    /\ held' = [held EXCEPT ![w] = [k \in Keys |-> 0]]
    /\ guard' = [guard EXCEPT ![w] = [k \in Keys |-> "new"]]
    /\ item' = [item EXCEPT ![w] = NoKey]
    /\ outcome' = [outcome EXCEPT ![w] = "ok"]
    /\ UNCHANGED <<rows, history>>

Tick ==
    /\ \E k \in Keys : Ticking(row[k])
    /\ row' = [k \in Keys |-> Elapse(row[k])]
    /\ UNCHANGED <<request, rowid, loop, history>>

Next ==
    \/ \E k \in Keys, q \in Requests : Enqueue(k, q)
    \/ \E w \in Workers, k \in Keys : 
         \/ StartGuard(w, k) \/ Heartbeat(w, k)
         \/ StartHandler(w, k) \/ SkipLost(w, k)
    \/ \E w \in Workers, o \in Outcomes : HandlerEnds(w, o)
    \/ \E w \in Workers :
         \/ ClaimDue(w) \/ CancelLost(w) \/ MarkDoneRaises(w)
         \/ Settle(w) \/ Notify(w) \/ Crash(w)
    \/ Tick

Spec == Init /\ [][Next]_vars

\* What the liveness property rests on: time passes, a running worker keeps
\* polling, its coroutine is scheduled, and handlers and observers return (the
\* observer is timed out by the code; a handler is the application's).  Nothing
\* is assumed of heartbeats, and a worker may crash at every batch.
WorkerFairness(w) ==
    /\ WF_vars(ClaimDue(w))
    /\ \A k \in Keys : WF_vars(StartGuard(w, k)) /\ WF_vars(StartHandler(w, k))
                       /\ WF_vars(SkipLost(w, k))
    /\ WF_vars(\E o \in Outcomes : HandlerEnds(w, o))
    /\ WF_vars(Settle(w))
    /\ WF_vars(Notify(w))

FairSpec == Spec /\ WF_vars(Tick) /\ \A w \in Workers : WorkerFairness(w)

----------------------------------------------------------------------------
\* Properties.

\* A lease token is in the hands of one worker: claim_due gives every claim of
\* a row a token no other worker, however late, still carries for that row.
UniqueHolder ==
    \A v, w \in Workers, k \in Keys :
        v # w /\ held[v][k] # 0 => held[v][k] # held[w][k]

\* An event is done only because the handler of its latest claim succeeded; a
\* worker whose lease was taken over cannot complete it with an older result.
DoneByLatestClaim ==
    \A k \in Keys : row[k].status = "done" => <<row[k].attempts, "ok">> \in verdicts[k]

\* An event is dead-lettered only when its attempts are used up or the handler
\* of its latest claim failed for good (mark_retry, mark_dead_letter, claim_due).
DeadLetterJustified ==
    \A k \in Keys : row[k].status = "dead_letter" =>
        \/ row[k].attempts >= MaxAttempts
        \/ <<row[k].attempts, "fatal">> \in verdicts[k]

\* Both: the outcome of an event is that of its latest claim, or of running out of them.
OutcomeJustified == DoneByLatestClaim /\ DeadLetterJustified

\* The lease tokens of claim_due fence: every token has one holder, and only the holder
\* of the latest decides the outcome of an event.
FencedOutcomes == UniqueHolder /\ OutcomeJustified

\* However workers crash and leases expire, the handler is called under at
\* most max_attempts claims of an event.
RunsBounded == \A k \in Keys : runs[k] \subseteq 1 .. MaxAttempts

\* The observer hears of at most one settled outcome of an event, at most once,
\* and it is the outcome the row has.
NotifiedOnce ==
    \A k \in Keys : \A s \in Settled :
        /\ notified[k][s] <= 1
        /\ notified[k][s] > 0 => row[k].status = s

\* The queue and its workers keep their types, the handler runs under no more claims
\* than max_attempts, and the observer hears of each outcome once.
QueueConsistent == TypeOK /\ RunsBounded /\ NotifiedOnce

\* done and dead_letter are final: no late worker, repeated enqueue or expired
\* lease moves an event out of them or charges it another attempt.
SettledIsFinal ==
    [][\A k \in Keys : row[k].status \in Settled =>
          row'[k].status = row[k].status /\ row'[k].attempts = row[k].attempts]_vars

\* A claim that leaves a due event of its scope behind takes nothing of a
\* larger priority value, nor of the same priority and younger.
ClaimsInOrder ==
    [][\A w \in Workers, j, k \in Keys :
          /\ held[w][k] = 0 /\ held'[w][k] # 0
          /\ j \in Due(w) /\ held'[w][j] = 0
          => \/ request[k].priority < request[j].priority
             \/ request[k].priority = request[j].priority /\ rowid[k] < rowid[j]]_vars

\* Every event that was enqueued is eventually done or dead-lettered, though
\* workers crash, stall past their leases and fail to renew them.
EventuallySettled ==
    \A k \in Keys : Present(row[k]) ~> row[k].status \in Settled

============================================================================
