------------------------------ MODULE Outbound ------------------------------
(***************************************************************************)
(* Outbound messages of one channel: the rows of outbound_messages         *)
(* (outbound/store.py), the workers that send them (outbound/worker.py),   *)
(* the suppression of messages whose dialogue task or routing question was *)
(* superseded (dialogue/store.py) and the operator's resolution of an      *)
(* uncertain send (reconciliation/store.py).                               *)
(*                                                                         *)
(* Parts of one text share an ordering key and are numbered from 1; a      *)
(* position of 0 stands for a message without ordering.  A worker stands   *)
(* for one claimed item: a batch of n items is n workers, one of which     *)
(* runs while the leases of the others go on.  The rows have the lease     *)
(* fields of event_queue rows, so claims, releases and the clock are those *)
(* of EventRows.                                                           *)
(***************************************************************************)
EXTENDS EventRows

CONSTANTS Messages,       \* requests: what is to be sent, with everything it depends on
          IdempotencyKey, \* message -> idempotency_key
          OrderingKey,    \* message -> ordering_key
          Position,       \* message -> ordering_position, 0 when unordered
          Batches,        \* the sets of messages enqueue_many is called with
          Reference,      \* message -> its task or question, or NoReference
          NoReference,
          Workers,
          RequestKeys,    \* request keys of reconciliations
          Results,        \* how calls of the channel's sender may end
          RetryBackoff,   \* retry_backoff_s or the sender's retry_after_s
          NoMessage

AllResults == {"sent", "retryable_failure", "permanent_failure", "not_started", "raised"}

ASSUME OutboundAssumption ==
    /\ Position \in [Messages -> Nat]
    /\ Batches \subseteq SUBSET Messages
    /\ Results \subseteq AllResults
    /\ RetryBackoff \in Nat
    /\ NoMessage \notin Messages
    /\ \A m, n \in Messages : \* the unique index on ordering positions
          m # n /\ Position[m] > 0 /\ OrderingKey[m] = OrderingKey[n] => Position[m] # Position[n]

References == {Reference[m] : m \in Messages} \ {NoReference}

VARIABLES
    row,        \* outbound_messages: message -> row
    current,    \* reference -> is the task active, or the question pending,
                \* at the revision the messages name
    audit,      \* effect_reconciliations: request key -> <<message, resolution>>
    stage,      \* worker -> its place in _send_message
    message,    \* worker -> the message it claimed
    token,      \* worker -> the lease token
    result,     \* worker -> how the sender's call ended
    recorded,   \* conversation_messages: message -> outbound records
    open        \* history: message -> claims whose send may have been delivered

worker == <<stage, message, token, result>>
vars == <<row, current, audit, worker, recorded, open>>

Failed == {"dead_letter", "cancelled"}
OutboundStatus == {"absent", "queued", "leased", "sending", "retrying", "sent", "uncertain"}
                     \cup Failed
OutboundRow ==
    [status: OutboundStatus, wait: Nat, attempts: Nat, lease: Nat, token: Nat]
Resolutions == {"sent", "failed", "not_sent"}
NoAudit == <<NoMessage, "none">>

TypeOK ==
    /\ row \in [Messages -> OutboundRow]
    /\ current \in [References -> BOOLEAN]
    /\ audit \in [RequestKeys -> (Messages \X Resolutions) \cup {NoAudit}]
    /\ stage \in [Workers -> {"idle", "claimed", "calling", "applying"}]
    /\ message \in [Workers -> Messages \cup {NoMessage}]
    /\ token \in [Workers -> Nat]
    /\ result \in [Workers -> AllResults \cup {"none"}]
    /\ recorded \in [Messages -> Nat]
    /\ open \in [Messages -> SUBSET Nat]

Init ==
    /\ row = [m \in Messages |-> NoRow]
    /\ current = [r \in References |-> TRUE]
    /\ audit = [k \in RequestKeys |-> NoAudit]
    /\ stage = [w \in Workers |-> "idle"]
    /\ message = [w \in Workers |-> NoMessage]
    /\ token = [w \in Workers |-> 0]
    /\ result = [w \in Workers |-> "none"]
    /\ recorded = [m \in Messages |-> 0]
    /\ open = [m \in Messages |-> {}]

----------------------------------------------------------------------------
\* enqueue_outbound and enqueue_outbound_many.

\* _task_admission_is_current and _validate_task_reference.
\* Mutated form: the admission check of mark_sending is missing.
IsCurrentAlways(m) == TRUE

IsCurrent(m) == Reference[m] # NoReference => current[Reference[m]]

\* _require_outbound_replay: the key is taken by a request that was not the same.
Conflicts(m, batch) ==
    \E n \in Messages \ {m} :
        IdempotencyKey[n] = IdempotencyKey[m] /\ (Present(row[n]) \/ n \in batch)

\* Requests that exist already are replays; a conflict or a stale reference rejects the
\* whole batch.
Enqueue(batch) ==
    LET fresh == {m \in batch : ~Present(row[m])} IN
    /\ fresh # {}
    /\ \A m \in batch : ~Conflicts(m, batch)
    /\ \A m \in fresh : IsCurrent(m)
    /\ row' = [m \in Messages |-> IF m \in fresh THEN NewRow(0) ELSE row[m]]
    /\ UNCHANGED <<current, audit, worker, recorded, open>>

EnqueueMany(batch) == Enqueue(batch)

\* The parts of a text are enqueued together, other messages one by one.
EnqueueOutbound(m) == Position[m] = 0 /\ Enqueue({m})

\* The task is closed or cancelled, or the question refreshed or resolved: its
\* revision grows and never returns, and messages not yet sending are cancelled.
Supersede(r) ==
    /\ current[r]
    /\ current' = [current EXCEPT ![r] = FALSE]
    /\ row' = [m \in Messages |->
                 IF Reference[m] = r /\ row[m].status \in {"queued", "retrying", "leased"}
                 THEN Released(row[m], "cancelled") ELSE row[m]]
    /\ UNCHANGED <<audit, worker, recorded, open>>

----------------------------------------------------------------------------
\* claim_due: expired sends become uncertain, exhausted leases dead letters,
\* and successors of a failed part are cancelled, all before candidates are
\* selected.

\* Mutated form: an expired send is taken for one that did not happen.
ExpiryResending(r) ==
    CASE r.status = "sending" /\ r.lease = 0 -> Released(r, "retrying")
      [] r.status = "leased" /\ r.lease = 0 /\ r.attempts >= MaxAttempts ->
           Released(r, "dead_letter")
      [] OTHER -> r

Expiry(r) ==
    CASE r.status = "sending" /\ r.lease = 0 -> Released(r, "uncertain")
      [] r.status = "leased" /\ r.lease = 0 /\ r.attempts >= MaxAttempts ->
           Released(r, "dead_letter")
      [] OTHER -> r

Precedes(p, m) ==
    /\ Position[p] > 0
    /\ OrderingKey[p] = OrderingKey[m]
    /\ Position[p] < Position[m]

Cleaned(m) ==
    LET r == Expiry(row[m]) IN
    IF /\ r.status \in {"queued", "retrying"}
       /\ \E p \in Messages : Precedes(p, m) /\ Expiry(row[p]).status \in Failed
    THEN Released(r, "cancelled")
    ELSE r

\* Mutated form: a part may overtake a predecessor that is merely uncertain.
InTurnEager(m) ==
    \/ Position[m] \in {0, 1}
    \/ \E p \in Messages : /\ Precedes(p, m) /\ Position[p] = Position[m] - 1
                           /\ Cleaned(p).status \in {"sent", "uncertain"}

InTurn(m) ==
    \/ Position[m] \in {0, 1}
    \/ \E p \in Messages : /\ Precedes(p, m) /\ Position[p] = Position[m] - 1
                           /\ Cleaned(p).status = "sent"

\* Mutated form: expired leases are not candidates.
DueUnexpired(m) ==
    /\ Cleaned(m).wait = 0
    /\ Cleaned(m).status \in {"queued", "retrying"}
    /\ InTurn(m)

Due(m) ==
    /\ Cleaned(m).wait = 0
    /\ \/ Cleaned(m).status \in {"queued", "retrying"}
       \/ Expired(Cleaned(m))
    /\ InTurn(m)

Claim(w, m) ==
    /\ stage[w] = "idle"
    /\ Due(m)
    /\ row' = [n \in Messages |-> IF n = m THEN Claimed(row[n]) ELSE Cleaned(n)]
    /\ stage' = [stage EXCEPT ![w] = "claimed"]
    /\ message' = [message EXCEPT ![w] = m]
    /\ token' = [token EXCEPT ![w] = Claimed(row[m]).token]
    /\ UNCHANGED <<current, audit, result, recorded, open>>

\* A poll that finds nothing to send still cleans up.
PollNothing(w) ==
    /\ stage[w] = "idle"
    /\ \A m \in Messages : ~Due(m)
    /\ row' = [m \in Messages |-> Cleaned(m)]
    /\ UNCHANGED <<current, audit, worker, recorded, open>>

----------------------------------------------------------------------------
\* The worker with its message.

\* renew_lease, mark_retry and mark_dead_letter accept both claimed statuses.
Holds(r, t) == r.status \in {"leased", "sending"} /\ r.token = t

Leave(w) ==
    /\ stage' = [stage EXCEPT ![w] = "idle"]
    /\ message' = [message EXCEPT ![w] = NoMessage]
    /\ token' = [token EXCEPT ![w] = 0]
    /\ result' = [result EXCEPT ![w] = "none"]

Heartbeat(w) ==
    /\ stage[w] # "idle"
    /\ Holds(row[message[w]], token[w])
    /\ row[message[w]].lease > 0
    /\ row' = [row EXCEPT ![message[w]].lease = LeaseSeconds]
    /\ UNCHANGED <<current, audit, worker, recorded, open>>

\* The process dies, the lease guard cancels the task, or a write outside the
\* try block raises.
Abandon(w) ==
    /\ stage[w] # "idle"
    /\ Leave(w)
    /\ UNCHANGED <<row, current, audit, recorded, open>>

\* mark_sending: a lost or expired lease, or a stale reference, ends the
\* processing; otherwise the sender is called.
MarkSending(w) ==
    LET m == message[w]
        owned == row[m].status = "leased" /\ row[m].token = token[w] /\ row[m].lease > 0
    IN
    /\ stage[w] = "claimed"
    /\ \/ /\ ~owned
          /\ Leave(w)
          /\ UNCHANGED <<row, open>>
       \/ /\ owned /\ ~IsCurrent(m)
          /\ row' = [row EXCEPT ![m] = Released(@, "cancelled")]
          /\ Leave(w)
          /\ UNCHANGED open
       \/ /\ owned /\ IsCurrent(m)
          /\ row' = [row EXCEPT ![m].status = "sending"]
          /\ stage' = [stage EXCEPT ![w] = "calling"]
          /\ open' = [open EXCEPT ![m] = @ \cup {token[w]}]
          /\ UNCHANGED <<message, token, result>>
    /\ UNCHANGED <<current, audit, recorded>>

\* sender.send returns a result or raises.  Everything but "sent" and an
\* unexpected exception tells that the provider did not accept the message.
SenderEnds(w, r) ==
    /\ stage[w] = "calling"
    /\ stage' = [stage EXCEPT ![w] = "applying"]
    /\ result' = [result EXCEPT ![w] = r]
    /\ open' = IF r \in {"sent", "raised"} THEN open
               ELSE [open EXCEPT ![message[w]] = @ \ {token[w]}]
    /\ UNCHANGED <<row, current, audit, message, token, recorded>>

\* The write of a returned result raises: the handler's last except clause
\* takes over and records an uncertain send.
ApplyRaises(w) ==
    /\ stage[w] = "applying"
    /\ result[w] \in {"sent", "retryable_failure", "permanent_failure"}
    /\ result' = [result EXCEPT ![w] = "raised"]
    /\ UNCHANGED <<row, current, audit, stage, message, token, recorded, open>>

\* mark_sent, mark_uncertain, mark_dead_letter and mark_retry.

Applied(r, t, res) ==
    CASE res = "sent" ->
           IF r.status = "sending" /\ r.token = t THEN Released(r, "sent") ELSE r
      [] res = "raised" ->
           IF r.status = "sending" /\ r.token = t THEN Released(r, "uncertain") ELSE r
      [] res = "permanent_failure" -> IF Holds(r, t) THEN Released(r, "dead_letter") ELSE r
      [] OTHER -> IF Holds(r, t)
                  THEN [Released(r, RetryStatus(r)) EXCEPT !.wait = RetryBackoff] ELSE r

Apply(w) ==
    LET m == message[w] IN
    /\ stage[w] = "applying"
    /\ row' = [row EXCEPT ![m] = Applied(@, token[w], result[w])]
    /\ recorded' = IF row[m].status # "sent" /\ row'[m].status = "sent"
                   THEN [recorded EXCEPT ![m] = @ + 1] ELSE recorded
    /\ Leave(w)
    /\ UNCHANGED <<current, audit, open>>

\* resolve_outbound.  A request key that was used before is a replay or a conflict.
Existing(k) == audit[k] # NoAudit
Record(k, m, resolution) == audit' = [audit EXCEPT ![k] = <<m, resolution>>]

Resolve(k, m, resolution) ==
    /\ ~Existing(k)
    /\ row[m].status = "uncertain"
    /\ Record(k, m, resolution)
    /\ row' = [row EXCEPT ![m] =
         CASE resolution = "sent" -> Released(@, "sent")
           [] resolution = "failed" -> Released(@, "dead_letter")
           [] resolution = "not_sent" -> [Released(@, "queued") EXCEPT !.wait = 0]]
    /\ recorded' = IF resolution = "sent" THEN [recorded EXCEPT ![m] = @ + 1] ELSE recorded
    /\ open' = IF resolution = "not_sent" THEN [open EXCEPT ![m] = {}] ELSE open
    /\ UNCHANGED <<current, worker>>

Tick ==
    /\ \E m \in Messages : Ticking(row[m])
    /\ row' = [m \in Messages |-> Elapse(row[m])]
    /\ UNCHANGED <<current, audit, worker, recorded, open>>

Step(w) == MarkSending(w) \/ (\E r \in Results : SenderEnds(w, r)) \/ Apply(w)

Next ==
    \/ \E batch \in Batches : EnqueueMany(batch)
    \/ \E m \in Messages : EnqueueOutbound(m)
    \/ \E r \in References : Supersede(r)
    \/ \E w \in Workers, m \in Messages : Claim(w, m)
    \/ \E w \in Workers :
         PollNothing(w) \/ Heartbeat(w) \/ Abandon(w) \/ Step(w) \/ ApplyRaises(w)
    \/ \E k \in RequestKeys, m \in Messages, x \in Resolutions : Resolve(k, m, x)
    \/ Tick

Spec == Init /\ [][Next]_vars

\* Time passes, workers poll and are scheduled, senders return (the bundled
\* Telegram sender has a timeout).  A worker may still abandon every message.
FairSpec ==
    /\ Spec
    /\ WF_vars(Tick)
    /\ \A w \in Workers :
         /\ WF_vars(Step(w)) /\ WF_vars(PollNothing(w))
         /\ \A m \in Messages : WF_vars(Claim(w, m))

----------------------------------------------------------------------------
\* Properties.

\* A part is given to the sender only when its immediate predecessor was sent,
\* and stays sent: retries, expired leases and several workers do not reorder the
\* parts of one text.
PartsInOrder ==
    \A m \in Messages : Position[m] > 1 /\ (open[m] # {} \/ row[m].status = "sent") =>
        \E p \in Messages : /\ OrderingKey[p] = OrderingKey[m]
                            /\ Position[p] = Position[m] - 1
                            /\ row[p].status = "sent"

\* The sender is called again only when every earlier call is known not to have
\* been accepted, or an operator said so: an expired or failed send is not repeated.
NoBlindResend ==
    [][\A w \in Workers : stage[w] = "claimed" /\ stage'[w] = "calling" =>
          open[message[w]] = {}]_vars

\* sent is recorded in the conversation exactly once, and nothing else is.
RecordedWhenSent ==
    \A m \in Messages : recorded[m] = IF row[m].status = "sent" THEN 1 ELSE 0

\* A message is sent only because the call of its latest claim was accepted or an
\* operator said so; a worker that lost its lease cannot report for its successor.
SentByLatestClaim ==
    \A m \in Messages : row[m].status = "sent" =>
        \/ row[m].attempts \in open[m]
        \/ \E k \in RequestKeys : audit[k] = <<m, "sent">>

\* An idempotency key stands for one request, whoever repeats it with what.
OneMessagePerKey ==
    \A m, n \in Messages :
        Present(row[m]) /\ Present(row[n]) /\ IdempotencyKey[m] = IdempotencyKey[n] => m = n

\* The rows keep their types, one for each key, and a message that counts as sent is
\* accounted for: by the part before it, by the latest call or the operator, and by one
\* record in the conversation.
SentAccounted ==
    TypeOK /\ OneMessagePerKey /\ PartsInOrder /\ RecordedWhenSent /\ SentByLatestClaim

\* What a row may become: sent and dead_letter are final, uncertain is left only by an
\* audited resolution, and a superseded reference admits no further send, also when the
\* message waited in a state that Supersede does not cancel.
RowsMoveOn ==
    [][\A m \in Messages :
          /\ row[m].status # "sending" /\ row'[m].status = "sending" =>
               (Reference[m] # NoReference => current[Reference[m]])
          /\ row[m].status \in {"sent"} \cup Failed => row'[m].status = row[m].status
          /\ row[m].status = "uncertain" /\ row'[m].status # "uncertain" =>
               \E k \in RequestKeys : audit[k] = NoAudit /\ audit'[k] # NoAudit]_vars

\* Every message is eventually sent, given up or cancelled, or it or a part before
\* it waits for the operator.
EventuallyDecided ==
    \A m \in Messages :
        Present(row[m]) ~>
            \/ row[m].status \in {"sent", "uncertain"} \cup Failed
            \/ \E p \in Messages : Precedes(p, m) /\ row[p].status = "uncertain"

============================================================================
