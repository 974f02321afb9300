--------------------------- MODULE CronScheduler ---------------------------
(***************************************************************************)
(* The durable scheduler: cron/store.py, cron/schedule.py and the worker   *)
(* of cron/worker.py under runtime/worker_loop.py.                         *)
(*                                                                         *)
(* A job fires at run_at.  Firing publishes a CronJobDue event and moves   *)
(* run_at to the next occurrence in the same transaction; a job without a  *)
(* next occurrence is finished.  A conversation may cancel its job at any  *)
(* moment, and is told whether a published event may still run.            *)
(*                                                                         *)
(* Time is absolute because schedules are.  Horizon stands for every time  *)
(* after the last occurrence.  A recurrence rule is a set of local times:  *)
(* dateutil compares local times, and the chosen one is converted back to  *)
(* a timestamp.  LocalTime is the zone; it goes back when clocks do.       *)
(*                                                                         *)
(* lease_token is a fresh uuid per claim.  Tokens are only compared on one *)
(* job, so any number that no worker still holds for the job is fresh.     *)
(***************************************************************************)
EXTENDS Integers, Sequences, FiniteSetsExt

CONSTANTS Jobs,          \* idempotency keys of the jobs
          Workers,       \* cron worker processes
          Scope,         \* jobs of the tenant a worker serves
          Anchor,        \* schedule_anchor_at of each job
          Rule,          \* local times of each job's rrule; {} is no rrule
          Invalid,       \* jobs whose stored schedule does not validate
          LocalTime,     \* local time at each timestamp
          Horizon,       \* the latest timestamp
          MaxAttempts,   \* max_attempts
          LeaseSeconds,  \* lease_seconds
          BatchSize,     \* jobs per claim
          MaxFaults      \* worker stops and failed renewals

Timestamps == 0 .. Horizon
LocalTimes == {LocalTime[t] : t \in Timestamps}

ASSUME CronAssumption ==
    /\ IsFiniteSet(Jobs) /\ IsFiniteSet(Workers)
    /\ Horizon \in Nat /\ LocalTime \in [Timestamps -> Int]
    /\ Anchor \in [Jobs -> Timestamps]
    /\ Rule \in [Jobs -> SUBSET LocalTimes]
    /\ Invalid \subseteq Jobs
    /\ Scope \in [Workers -> SUBSET Jobs]
    /\ \A j \in Jobs : \A c \in Rule[j] : c <= LocalTime[Horizon]
    /\ {MaxAttempts, LeaseSeconds, BatchSize} \subseteq Nat \ {0}
    /\ MaxFaults \in Nat

VARIABLES job,      \* rows of cron_jobs
          event,    \* CronJobDue events in event_queue, by job and run_at
          batch,    \* jobs and tokens a worker has claimed and not processed
          told,     \* outcome of the last cancellation of a job
          now, faults

vars == <<job, event, batch, told, now, faults>>

JobStatus == {"absent", "pending", "leased", "fired", "cancelled", "dead_letter"}
Tokens == 0 .. Cardinality(Workers) + 1
JobRow == [status: JobStatus, runAt: Timestamps, attempts: 0 .. MaxAttempts,
           lease: 0 .. LeaseSeconds, token: Tokens]

NoEvent == [status |-> "absent", created |-> 0]
EventRow == [status: {"absent", "active", "settled"}, created: Timestamps]

Outcomes == {"cancelled", "current_run_may_complete", "already_cancelled",
             "already_finished"}

Init ==
    /\ job = [j \in Jobs |-> [status |-> "absent", runAt |-> Anchor[j],
                              attempts |-> 0, lease |-> 0, token |-> 0]]
    /\ event = [j \in Jobs |-> [t \in Timestamps |-> NoEvent]]
    /\ batch = [w \in Workers |-> <<>>]
    /\ told = [j \in Jobs |-> "none"]
    /\ now = 0
    /\ faults = 0

----------------------------------------------------------------------------
\* The schedule.

\* datetime.timestamp() of a local time: with fold = 0, the first of two.
Timestamp(c) == Min({t \in Timestamps : LocalTime[t] = c})

\* Mutated form: rrule.after with inc = True.
FollowingInclusive(j, firedAt) == {c \in Rule[j] : c >= LocalTime[firedAt]}

\* next_run_at: the rule's first local time after that of firedAt.
Following(j, firedAt) == {c \in Rule[j] : c > LocalTime[firedAt]}

NextRunAt(j, firedAt) == Timestamp(Min(Following(j, firedAt)))

\* The timestamps a job may fire at, if every event is published on time.
Occurrences(j) == {Anchor[j]} \cup {t \in Timestamps : \E c \in Rule[j] :
                                        t = Timestamp(c) /\ t > Anchor[j]}

----------------------------------------------------------------------------
\* The conversation's operations.

\* insert_job; a repeated insertion finds the row and changes nothing.
InsertJob(j) ==
    /\ job[j].status = "absent"
    /\ job' = [job EXCEPT ![j].status = "pending"]
    /\ UNCHANGED <<event, batch, told, now, faults>>

HasActiveEvent(j) == \E t \in Timestamps : event[j][t].status = "active"

Freed(r, status) == [r EXCEPT !.status = status, !.lease = 0, !.token = 0]

\* Mutated form: the outcome ignores an event that was already published.
CancellationUnaware(j) ==
    CASE job[j].status = "cancelled" -> "already_cancelled"
      [] job[j].status \in {"fired", "dead_letter"} -> "already_finished"
      [] OTHER -> "cancelled"

Cancellation(j) ==
    IF HasActiveEvent(j) THEN "current_run_may_complete"
    ELSE CASE job[j].status = "cancelled" ->
                  IF job[j].token # 0 THEN "current_run_may_complete"
                  ELSE "already_cancelled"
           [] job[j].status \in {"fired", "dead_letter"} -> "already_finished"
           [] OTHER -> "cancelled"

CancelScheduledJob(j) ==
    /\ job[j].status # "absent"
    /\ told' = [told EXCEPT ![j] = Cancellation(j)]
    /\ job' = [job EXCEPT ![j] = IF @.status \in {"pending", "leased"}
                                 THEN Freed(@, "cancelled") ELSE @]
    /\ UNCHANGED <<event, batch, now, faults>>

----------------------------------------------------------------------------
\* claim_due_jobs: exhausted leases are closed; then due jobs are taken by
\* run_at until BatchSize valid ones are leased.  Invalid ones are closed.

Expired(r) == r.status = "leased" /\ r.lease = 0

Exhausted(r) == Expired(r) /\ r.attempts >= MaxAttempts

\* Mutated form: a lease that was taken is never given to another worker.
DueOnce(r) == r.runAt <= now /\ r.status = "pending"

Due(r) ==
    /\ r.runAt <= now
    /\ \/ r.status = "pending"
       \/ Expired(r) /\ r.attempts < MaxAttempts

InUse(j) == {x.token : x \in {y \in UNION {Range(batch[w]) : w \in Workers} : y.job = j}}

FreshToken(j) == Min(Tokens \ ({0} \cup InUse(j)))

\* The loop has looked at exactly the jobs of taken: the earliest due ones,
\* up to the valid one that fills the batch, or all of them.
Prefix(due, taken) ==
    /\ \A j \in taken, k \in due \ taken : job[j].runAt <= job[k].runAt
    /\ \/ /\ Cardinality(taken \ Invalid) = BatchSize
          /\ \E j \in taken \ Invalid : \A k \in taken : job[k].runAt <= job[j].runAt
       \/ taken = due /\ Cardinality(taken \ Invalid) < BatchSize

InOrder(items) ==
    \A m, n \in DOMAIN items : m < n => job[items[m].job].runAt <= job[items[n].job].runAt

Leased(r, token) ==
    [r EXCEPT !.status = "leased", !.lease = LeaseSeconds, !.attempts = @ + 1, !.token = token]

Claim(w) ==
    /\ batch[w] = <<>>
    /\ LET due == {j \in Scope[w] : Due(job[j])}
           Found(taken) == {[job |-> j, token |-> FreshToken(j)] : j \in taken \ Invalid}
       IN \E taken \in SUBSET due :
            /\ Prefix(due, taken)
            /\ job' = [j \in Jobs |->
                 CASE j \in Scope[w] /\ Exhausted(job[j]) -> Freed(job[j], "dead_letter")
                   [] j \in taken \cap Invalid -> Freed(job[j], "dead_letter")
                   [] j \in taken \ Invalid -> Leased(job[j], FreshToken(j))
                   [] OTHER -> job[j]]
            /\ \E items \in Bijection(1 .. Cardinality(Found(taken)), Found(taken)) :
                 /\ InOrder(items)
                 /\ batch' = [batch EXCEPT ![w] = items]
    /\ UNCHANGED <<event, told, now, faults>>

----------------------------------------------------------------------------
\* The worker: heartbeats for every job of the batch, one dispatch at a time.

HoldsLease(x) ==
    LET r == job[x.job]
    IN r.status = "leased" /\ r.token = x.token /\ r.lease > 0

RenewLease(w) ==
    \E x \in Range(batch[w]) :
        /\ HoldsLease(x)
        /\ job' = [job EXCEPT ![x.job].lease = LeaseSeconds]
        /\ UNCHANGED <<event, batch, told, now, faults>>

\* durable.enqueue with the key cron:<id>:<run_at> keeps an existing event.
Enqueue(j) ==
    [event EXCEPT ![j][job[j].runAt] =
        IF @.status = "absent" THEN [status |-> "active", created |-> now] ELSE @]

\* Mutated form: the schedule advances by two occurrences.
AdvancedTwice(j) ==
    LET next == Following(j, now)
    IN IF Cardinality(next) < 2
       THEN Freed(job[j], "fired")
       ELSE [Freed(job[j], "pending") EXCEPT
                !.runAt = Timestamp(Min(next \ {Min(next)})), !.attempts = 0]

Advanced(j) ==
    IF Following(j, now) = {}
    THEN Freed(job[j], "fired")
    ELSE [Freed(job[j], "pending") EXCEPT !.runAt = NextRunAt(j, now), !.attempts = 0]

\* dispatch_due_event of the next job of the batch.  A lost lease is logged.
DispatchDueEvent(w) ==
    /\ batch[w] # <<>>
    /\ LET x == Head(batch[w])
       IN IF HoldsLease(x)
          THEN /\ event' = Enqueue(x.job)
               /\ job' = [job EXCEPT ![x.job] = Advanced(x.job)]
          ELSE UNCHANGED <<event, job>>
    /\ batch' = [batch EXCEPT ![w] = Tail(@)]
    /\ UNCHANGED <<told, now, faults>>

\* A renewal that raises marks the lease lost, and the job is passed over.
PassOver(w) ==
    /\ batch[w] # <<>>
    /\ faults < MaxFaults
    /\ faults' = faults + 1
    /\ batch' = [batch EXCEPT ![w] = Tail(@)]
    /\ UNCHANGED <<job, event, told, now>>

\* The process stops, or an exception of the dispatch ends the worker.
Stop(w) ==
    /\ batch[w] # <<>>
    /\ faults < MaxFaults
    /\ faults' = faults + 1
    /\ batch' = [batch EXCEPT ![w] = <<>>]
    /\ UNCHANGED <<job, event, told, now>>

\* run_cron_store_worker.
Work(w) == Claim(w) \/ RenewLease(w) \/ DispatchDueEvent(w) \/ PassOver(w) \/ Stop(w)

----------------------------------------------------------------------------
\* The agent's worker finishes with an event, done or dead_letter.
Settle(j, t) ==
    /\ event[j][t].status = "active"
    /\ event' = [event EXCEPT ![j][t].status = "settled"]
    /\ UNCHANGED <<job, batch, told, now, faults>>

Tick ==
    /\ now < Horizon \/ \E j \in Jobs : job[j].lease > 0
    /\ now' = IF now < Horizon THEN now + 1 ELSE now
    /\ job' = [j \in Jobs |-> [job[j] EXCEPT !.lease = IF @ > 0 THEN @ - 1 ELSE 0]]
    /\ UNCHANGED <<event, batch, told, faults>>

Next ==
    \/ \E j \in Jobs : InsertJob(j) \/ CancelScheduledJob(j)
    \/ \E w \in Workers : Work(w)
    \/ \E j \in Jobs, t \in Timestamps : Settle(j, t)
    \/ Tick

Spec == Init /\ [][Next]_vars

\* Workers poll and process what they claimed; time passes.  Nobody is
\* obliged to insert or cancel a job, and the agent may never settle one.
Fairness ==
    /\ \A w \in Workers : WF_vars(Claim(w)) /\ WF_vars(DispatchDueEvent(w))
    /\ WF_vars(Tick)

FairSpec == Spec /\ Fairness

----------------------------------------------------------------------------
\* Properties.

TypeOK ==
    /\ job \in [Jobs -> JobRow]
    /\ event \in [Jobs -> [Timestamps -> EventRow]]
    /\ \A w \in Workers : \A x \in Range(batch[w]) : x.job \in Jobs /\ x.token \in Tokens \ {0}
    /\ told \in [Jobs -> Outcomes \cup {"none"}]
    /\ now \in Timestamps
    /\ faults \in 0 .. MaxFaults

Published(j, t) == event[j][t].status # "absent"

\* An occurrence the schedule has moved past was published, or fell between
\* the run_at and the firing time of an earlier, late publication: advancing
\* from fired_at never loses an occurrence that was still to come.
NoOccurrenceLost ==
    \A j \in Jobs : \A t \in Occurrences(j) :
        \/ t >= job[j].runAt /\ job[j].status # "fired"
        \/ Published(j, t)
        \/ \E u \in 0 .. t - 1 : Published(j, u) /\ t <= event[j][u].created

\* Every event belongs to an occurrence of its job and was not published
\* before that occurrence was due, and no job of a broken schedule fires.
FiredWhenDue ==
    \A j \in Jobs, t \in Timestamps :
        Published(j, t) => /\ t \in Occurrences(j)
                           /\ t <= event[j][t].created
                           /\ j \notin Invalid

\* Once a conversation was told that its job is cancelled or was already
\* over, no event of the job is waiting or running, whatever a worker that
\* had leased the job does afterwards.
CancelledNeverRuns ==
    \A j \in Jobs :
        told[j] \in {"cancelled", "already_cancelled", "already_finished"} =>
            ~HasActiveEvent(j)

\* A schedule is given up only for an occurrence that was claimed as often
\* as max_attempts allows and never published, or for an invalid schedule.
GivenUpUnpublished ==
    \A j \in Jobs : job[j].status = "dead_letter" =>
        /\ j \in Invalid \/ job[j].attempts = MaxAttempts
        /\ ~Published(j, job[j].runAt)

\* The rows keep their types, the status of a job agrees with what was published, and
\* what the conversation was told of a cancelled job stays true.
JobsConsistent == TypeOK /\ FiredWhenDue /\ GivenUpUnpublished /\ CancelledNeverRuns

\* Dispatching a recurring job moves its run_at forward.
ScheduleAdvances ==
    [][\A j \in Jobs : job[j].status = "leased" /\ job'[j].status = "pending" =>
           job'[j].runAt > job[j].runAt]_vars

\* Every schedule comes to an end: all its occurrences are dispatched, or it
\* is cancelled or given up, although workers stop and lose their leases.
EverySchedulePlaysOut ==
    \A j \in Jobs : job[j].status = "pending" ~>
        job[j].status \in {"fired", "cancelled", "dead_letter"}

============================================================================
