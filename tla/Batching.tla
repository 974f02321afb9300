------------------------------ MODULE Batching ------------------------------
(***************************************************************************)
(* Inbound batching of one conversation (batching/store.py, rules.py and   *)
(* worker.py): inbound messages are appended to the collecting batch, the  *)
(* batch is evaluated after every message and by scheduled flush events,   *)
(* and a flushed batch becomes one ChatBatchReady event.                   *)
(*                                                                         *)
(* _process awaits the store between appending, loading, routing and       *)
(* scheduling; each of these is a step, and the state that load_state      *)
(* returned is what the later steps use.  Events are identified by their   *)
(* idempotency keys: a message for InboundMessageReceived, a pair of batch *)
(* and run_after for FlushInboundBatch.  store_decision only writes        *)
(* telemetry and is left out.                                              *)
(***************************************************************************)
EXTENDS EventRows, FiniteSetsExt

CONSTANTS Messages,
          Features,       \* message -> what extract_features finds in its text
          Workers,
          QuietWindow, MaxWindow, MaxCount,
          RetryBackoff,
          LastArrival,    \* bound: messages arrive until this time
          Horizon,        \* bound: stands for itself and every later time
          MaxFaults,      \* bound: crashes and raised errors in a behaviour
          None

WaitWeight == [continuation_marker |-> 35, continuation_word |-> 25,
               open_punctuation |-> 20, short_dependent_phrase |-> 20]
FlushWeight == [question |-> 15, imperative |-> 25, explicit_target |-> 20]

FeatureNames == DOMAIN WaitWeight \cup DOMAIN FlushWeight \cup {"command"}

ASSUME BatchingAssumption ==
    /\ IsFiniteSet(Messages)
    /\ Features \in [Messages -> SUBSET FeatureNames]
    /\ QuietWindow \in Nat /\ MaxWindow \in Nat /\ MaxCount \in Nat \ {0}
    /\ RetryBackoff \in Nat /\ MaxFaults \in Nat
    /\ LastArrival \in Nat /\ Horizon \in Nat
    /\ Horizon > LastArrival + MaxWindow   \* every window has elapsed by then
    /\ None \notin Nat                     \* it stands for no batch

Batches == 1 .. Cardinality(Messages)   \* in the order of their creation
Times == 0 .. Horizon
Flushes == Batches \X Times
Events == Messages \cup Flushes

VARIABLES
    now,
    row,       \* event_queue rows of recipient "batching"
    cause,     \* causation_id of the flush events
    at,        \* message_at
    batch,     \* inbound_batches: [status, first, last]
    home,      \* message -> its batch in inbound_batch_messages, or None
    place,     \* message -> rowid in inbound_batch_messages
    ready,     \* batch -> messages in the payload of its ChatBatchReady, or None
    stage, event, token, target,   \* worker: its place, its claim, its batch
    seen,      \* worker -> what load_state returned
    faults,
    late       \* history: messages appended when a worker was to route their batch

worker == <<stage, event, token, target, seen>>
store == <<batch, home, place, ready>>
vars == <<now, row, cause, at, store, worker, faults, late>>

NoState == [messages |-> {}, first |-> 0, last |-> 0, now |-> 0]

TypeOK ==
    /\ now \in 0 .. Horizon
    /\ row \in [Events -> EventRow]
    /\ cause \in [Flushes -> Events \cup {None}]
    /\ at \in [Messages -> Nat]
    /\ batch \in [Batches -> [status: {"absent", "collecting", "routed"}, first: Nat, last: Nat]]
    /\ home \in [Messages -> Batches \cup {None}]
    /\ place \in [Messages -> Nat]
    /\ ready \in [Batches -> (SUBSET Messages) \cup {None}]
    /\ stage \in [Workers -> {"idle", "append", "load", "route", "schedule", "done", "retry"}]
    /\ event \in [Workers -> Events \cup {None}]
    /\ token \in [Workers -> Nat]
    /\ target \in [Workers -> Batches \cup {None}]
    /\ seen \in [Workers -> [messages: SUBSET Messages, first: Nat, last: Nat, now: Nat]]
    /\ faults \in 0 .. MaxFaults
    /\ late \subseteq Messages

Init ==
    /\ now = 0
    /\ row = [e \in Events |-> NoRow]
    /\ cause = [f \in Flushes |-> None]
    /\ at = [m \in Messages |-> 0]
    /\ batch = [b \in Batches |-> [status |-> "absent", first |-> 0, last |-> 0]]
    /\ home = [m \in Messages |-> None]
    /\ place = [m \in Messages |-> 0]
    /\ ready = [b \in Batches |-> None]
    /\ stage = [w \in Workers |-> "idle"]
    /\ event = [w \in Workers |-> None]
    /\ token = [w \in Workers |-> 0]
    /\ target = [w \in Workers |-> None]
    /\ seen = [w \in Workers |-> NoState]
    /\ faults = 0
    /\ late = {}

----------------------------------------------------------------------------
\* decide_batch.

\* ORDER BY message_at, created_at, rowid.
Earlier(m, n) == at[m] < at[n] \/ (at[m] = at[n] /\ place[m] < place[n])

Final(ms) == CHOOSE m \in ms : \A n \in ms \ {m} : Earlier(n, m)

\* rapid_same_source: at most one second after the message before it.
Rapid(ms) == ms # {Final(ms)} /\ at[Final(ms)] - at[Final(ms \ {Final(ms)})] <= 1

WaitScore(ms) ==
    MapThenSumSet(LAMBDA f : WaitWeight[f], Features[Final(ms)] \cap DOMAIN WaitWeight)
      + (IF Rapid(ms) THEN 10 ELSE 0)

FlushScore(s) ==
    MapThenSumSet(LAMBDA f : FlushWeight[f], Features[Final(s.messages)] \cap DOMAIN FlushWeight)
      + (IF s.now - s.last >= QuietWindow THEN 45 ELSE 0)

DecidesFlush(s) ==
    \/ "command" \in Features[Final(s.messages)]
    \/ s.now - s.first >= MaxWindow
    \/ Cardinality(s.messages) >= MaxCount
    \/ /\ s.now - s.last >= QuietWindow
       /\ FlushScore(s) >= WaitScore(s.messages)

NextFlushDeadline(s) ==
    CASE now < s.last + QuietWindow -> Min({s.last + QuietWindow, s.first + MaxWindow})
      [] now >= s.last + QuietWindow /\ now < s.first + MaxWindow -> s.first + MaxWindow
      [] OTHER -> now

----------------------------------------------------------------------------
\* Ingress, and the worker loop around one event.

Receive(m) ==
    /\ ~Present(row[m])
    /\ now <= LastArrival
    /\ at' = [at EXCEPT ![m] = now]
    /\ row' = [row EXCEPT ![m] = NewRow(0)]
    /\ UNCHANGED <<now, cause, store, worker, faults, late>>

Close(r) == CloseExhausted(r, FALSE)

Due(e) == Claimable(Close(row[e]), FALSE)

Claim(w, e) ==
    /\ stage[w] = "idle"
    /\ Due(e)
    /\ row' = [f \in Events |-> IF f = e THEN Claimed(row[f]) ELSE Close(row[f])]
    /\ event' = [event EXCEPT ![w] = e]
    /\ token' = [token EXCEPT ![w] = Claimed(row[e]).token]
    /\ stage' = [stage EXCEPT ![w] = IF e \in Messages THEN "append" ELSE "load"]
    /\ target' = [target EXCEPT ![w] = IF e \in Messages THEN None ELSE e[1]]
    /\ UNCHANGED <<now, cause, at, store, seen, faults, late>>

PollNothing(w) ==
    /\ stage[w] = "idle"
    /\ \A e \in Events : ~Due(e)
    /\ row' = [e \in Events |-> Close(row[e])]
    /\ UNCHANGED <<now, cause, at, store, worker, faults, late>>

Heartbeat(w) ==
    /\ stage[w] # "idle"
    /\ row' = [row EXCEPT ![event[w]] = RenewLease(@, token[w])]
    /\ UNCHANGED <<now, cause, at, store, worker, faults, late>>

Leave(w) ==
    /\ stage' = [stage EXCEPT ![w] = "idle"]
    /\ event' = [event EXCEPT ![w] = None]
    /\ token' = [token EXCEPT ![w] = 0]
    /\ target' = [target EXCEPT ![w] = None]
    /\ seen' = [seen EXCEPT ![w] = NoState]

\* The process dies, or the lease guard cancels the task.
Abandon(w) ==
    /\ stage[w] # "idle"
    /\ faults < MaxFaults
    /\ faults' = faults + 1
    /\ Leave(w)
    /\ UNCHANGED <<now, row, cause, at, store, late>>

\* A store operation raises, and its transaction is rolled back.
Raise(w) ==
    /\ stage[w] \notin {"idle", "retry"}
    /\ faults < MaxFaults
    /\ faults' = faults + 1
    /\ stage' = [stage EXCEPT ![w] = "retry"]
    /\ UNCHANGED <<now, row, cause, at, store, event, token, target, seen, late>>

----------------------------------------------------------------------------
\* _process.

Collecting(b) == b \in Batches /\ batch[b].status = "collecting"

NextBatch == 1 + Cardinality({b \in Batches : batch[b].status # "absent"})

\* append_inbound_message.  The batch of a message that was appended before is
\* evaluated again if it is still collecting.

\* Mutated form: the newest batch is taken, collecting or not.
OpenOrNewRouted == IF NextBatch > 1 THEN NextBatch - 1 ELSE 1

OpenOrNew ==
    IF \E b \in Batches : Collecting(b) THEN CHOOSE b \in Batches : Collecting(b) ELSE NextBatch

Append(w) ==
    LET m == event[w]
        b == IF home[m] = None THEN OpenOrNew ELSE home[m]
    IN
    /\ stage[w] = "append"
    /\ IF home[m] = None
       THEN /\ home' = [home EXCEPT ![m] = b]
            /\ place' = [place EXCEPT ![m] = 1 + Max({place[n] : n \in Messages})]
            /\ batch' = [batch EXCEPT ![b] =
                 IF Collecting(b) THEN [batch[b] EXCEPT !.last = Max({batch[b].last, at[m]})]
                 ELSE [status |-> "collecting", first |-> at[m], last |-> at[m]]]
       ELSE UNCHANGED <<home, place, batch>>
    /\ stage' = [stage EXCEPT ![w] =
         IF home[m] = None \/ Collecting(b) THEN "load" ELSE "done"]
    /\ target' = [target EXCEPT ![w] = b]
    /\ late' = IF home[m] = None /\ \E v \in Workers \ {w} : target[v] = b /\ stage[v] = "route"
               THEN late \cup {m} ELSE late
    /\ UNCHANGED <<now, row, cause, at, ready, event, token, seen, faults>>

\* load_state and decide_batch.
Loaded(b) == [messages |-> {m \in Messages : home[m] = b},
              first |-> batch[b].first, last |-> batch[b].last, now |-> now]

LoadState(w) ==
    LET b == target[w]
        s == Loaded(b)
    IN
    /\ stage[w] = "load"
    /\ \/ /\ ~Collecting(b)
          /\ stage' = [stage EXCEPT ![w] = "done"]
          /\ UNCHANGED seen
       \/ /\ Collecting(b)
          /\ seen' = [seen EXCEPT ![w] = s]
          /\ stage' = [stage EXCEPT ![w] = IF DecidesFlush(s) THEN "route" ELSE "schedule"]
    /\ UNCHANGED <<now, row, cause, at, store, event, token, target, faults, late>>

\* route_batch: the batch is marked and its event enqueued in one transaction,
\* with the payload built from the state that was loaded.
\* Mutated form: a batch that was routed meanwhile is routed again.
RouteAgain(w) ==
    /\ stage[w] = "route"
    /\ batch' = [batch EXCEPT ![target[w]].status = "routed"]
    /\ ready' = [ready EXCEPT ![target[w]] = seen[w].messages]
    /\ stage' = [stage EXCEPT ![w] = "done"]
    /\ UNCHANGED <<now, row, cause, at, home, place, event, token, target, seen, faults, late>>

Route(w) ==
    LET b == target[w] IN
    /\ stage[w] = "route"
    /\ IF Collecting(b)
       THEN /\ batch' = [batch EXCEPT ![b].status = "routed"]
            /\ ready' = [ready EXCEPT ![b] = seen[w].messages]
       ELSE UNCHANGED <<batch, ready>>
    /\ stage' = [stage EXCEPT ![w] = "done"]
    /\ UNCHANGED <<now, row, cause, at, home, place, event, token, target, seen, faults, late>>

\* _schedule_flush.  The causation id is part of the fingerprint, so a second
\* event that wants the same deadline is an IdempotencyConflictError.

Schedule(w) ==
    LET f == <<target[w], NextFlushDeadline(seen[w])>> IN
    /\ stage[w] = "schedule"
    /\ IF Present(row[f])
       THEN /\ stage' = [stage EXCEPT ![w] = IF cause[f] = event[w] THEN "done" ELSE "retry"]
            /\ UNCHANGED <<row, cause>>
       ELSE /\ row' = [row EXCEPT ![f] = NewRow(f[2] - now)]
            /\ cause' = [cause EXCEPT ![f] = event[w]]
            /\ stage' = [stage EXCEPT ![w] = "done"]
    /\ UNCHANGED <<now, at, store, event, token, target, seen, faults, late>>

SettleEvent(w) ==
    /\ stage[w] \in {"done", "retry"}
    /\ row' = [row EXCEPT ![event[w]] =
                 IF stage[w] = "done" THEN MarkDone(@, token[w])
                 ELSE MarkRetry(@, token[w], RetryBackoff)]
    /\ Leave(w)
    /\ UNCHANGED <<now, cause, at, store, faults, late>>

Tick ==
    /\ now < Horizon \/ \E e \in Events : Ticking(row[e])
    /\ now' = IF now < Horizon THEN now + 1 ELSE now
    /\ row' = [e \in Events |-> Elapse(row[e])]
    /\ UNCHANGED <<cause, at, store, worker, faults, late>>

Step(w) ==
    Append(w) \/ LoadState(w) \/ Route(w) \/ Schedule(w) \/ SettleEvent(w)

Next ==
    \/ \E m \in Messages : Receive(m)
    \/ \E w \in Workers, e \in Events : Claim(w, e)
    \/ \E w \in Workers : PollNothing(w) \/ Heartbeat(w) \/ Abandon(w) \/ Raise(w) \/ Step(w)
    \/ Tick

Spec == Init /\ [][Next]_vars

\* Time passes, workers poll and their coroutines are scheduled.
FairSpec ==
    /\ Spec
    /\ WF_vars(Tick)
    /\ \A w \in Workers :
         WF_vars(Step(w)) /\ WF_vars(\E e \in Events : Claim(w, e)) /\ WF_vars(PollNothing(w))

----------------------------------------------------------------------------
\* Properties.

Unsettled(e) == Present(row[e]) /\ row[e].status \notin Settled

\* A message is in the payload of one ChatBatchReady at most, and a batch is routed
\* with one payload, however often its events are processed.
RoutedOnce ==
    [][\A b \in Batches :
          /\ ready[b] # None => ready'[b] = ready[b]
          /\ ready[b] = None /\ ready'[b] # None =>
               \A c \in Batches : ready[c] # None => ready[c] \cap ready'[b] = {}]_vars

\* A collecting batch is watched: an event is left that will evaluate it, its own
\* message's or a scheduled flush, or a worker is about to.
CollectingIsWatched ==
    \A b \in Batches : Collecting(b) =>
        \/ \E m \in Messages : home[m] = b /\ Unsettled(m)
        \/ \E t \in Times : Unsettled(<<b, t>>)
        \/ \E w \in Workers : target[w] = b /\ stage[w] \in {"load", "route", "schedule"}

\* The payload of a routed batch lacks a message of the batch only if that message was
\* appended after another worker had loaded the batch and decided to route it; faults,
\* redelivered events and conflicting flush deadlines leave nothing behind.
LeftBehindOnlyWhenLate ==
    \A m \in Messages : home[m] # None /\ ready[home[m]] # None =>
        m \in ready[home[m]] \/ m \in late

\* The rows keep their types, no collecting batch is forgotten, and a routed batch leaves
\* no message behind but one that arrived late.
BatchesConsistent == TypeOK /\ CollectingIsWatched /\ LeftBehindOnlyWhenLate

\* Again and again nothing that was received is left unrouted: as a message is routed
\* once, every received message ends up in a batch that was handed to the agent.
EventuallyRouted ==
    []<>(\A m \in Messages : Present(row[m]) => \E b \in Batches : home[m] = b /\ ready[b] # None)

============================================================================
