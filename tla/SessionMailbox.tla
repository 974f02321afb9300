--------------------------- MODULE SessionMailbox ---------------------------
(***************************************************************************)
(* One runtime session with its mailbox: sessions/mailbox.py, the worker   *)
(* of sessions/mailbox_worker.py and the closing of the session in         *)
(* sessions/lifecycle.py.                                                  *)
(*                                                                         *)
(* A prompt is claimed, handed to the backend at most once, and, once the  *)
(* backend has accepted it, captured as often as it takes.  A claimed item *)
(* carries no lease: "sending" without accepted_at is an uncertain send,   *)
(* "sending" with accepted_at may be captured by any worker.  Every store  *)
(* operation is one transaction; every await of _send_item separates two   *)
(* steps, and a worker may stop at any of them.                            *)
(*                                                                         *)
(* Deadlines are kept as the seconds that are left: wait is run_after,     *)
(* stale the age at which an unaccepted send is given up, deadline the     *)
(* absolute limit of a capture, closing the age of an abandoned close.     *)
(***************************************************************************)
EXTENDS Naturals, Sequences, FiniteSets

CONSTANTS Prompts,         \* mailbox items, by idempotency key
          Workers,         \* mailbox workers of the session's namespace
          Nothing,         \* no item
          Closers,         \* callers of close_session
          MaxAttempts,     \* max_attempts of an item
          RetrySeconds,    \* CAPTURE_RETRY_AFTER_S
          StaleSeconds,    \* stale_sending_s
          CaptureSeconds,  \* capture_pending_timeout_s
          ClosingSeconds,  \* older_than_s of recover_stale_closing_sessions
          MaxStops         \* workers and closers that stop half way

ASSUME MailboxAssumption ==
    /\ {MaxAttempts, RetrySeconds, CaptureSeconds} \subseteq Nat \ {0}
    /\ Nothing \notin Prompts
    /\ {StaleSeconds, ClosingSeconds, MaxStops} \subseteq Nat

VARIABLES session,   \* status of the runtime_sessions row
          closing,   \* time until a "closing" row counts as abandoned
          item,      \* rows of session_mailbox
          arrival,   \* the items in the order of their insertion
          stage,     \* where a worker is in _send_item
          current,   \* the item the worker has claimed
          closer,    \* where a caller is in closing the session
          sends,     \* calls of backend.send for each item
          stops,
          overlapped \* history: two workers, or two closers, were at the session

sessionVars == <<session, closing>>
workerVars == <<stage, current>>
vars == <<session, closing, item, arrival, stage, current, closer, sends, stops, overlapped>>

SessionStatus == {"idle", "busy", "failed", "closing", "closed"}
Settled == {"sent", "failed", "cancelled"}
ItemStatus == {"absent", "queued", "sending"} \cup Settled
Stages == {"idle", "begin", "send", "accept", "refuse", "capture",
           "complete", "pend", "defer", "expire"}

NoItem == [status |-> "absent", accepted |-> FALSE, attempts |-> 0,
           wait |-> 0, stale |-> 0, deadline |-> 0]

Init ==
    /\ session = "idle"
    /\ closing = 0
    /\ item = [m \in Prompts |-> NoItem]
    /\ arrival = <<>>
    /\ stage = [w \in Workers |-> "idle"]
    /\ current = [w \in Workers |-> Nothing]
    /\ closer = [c \in Closers |-> "none"]
    /\ sends = [m \in Prompts |-> 0]
    /\ stops = 0
    /\ overlapped = FALSE

----------------------------------------------------------------------------
\* enqueue_prompt: only an idle or busy session takes prompts.

AcceptsPrompts == session \in {"idle", "busy"}

EnqueuePrompt(m) ==
    /\ item[m].status = "absent"
    /\ AcceptsPrompts
    /\ item' = [item EXCEPT ![m].status = "queued"]
    /\ arrival' = Append(arrival, m)
    /\ UNCHANGED <<sessionVars, workerVars, closer, sends, stops, overlapped>>

----------------------------------------------------------------------------
\* fail_stale_sending, at the start of every drain.

InFlight == {m \in Prompts : item[m].status = "sending"}

StaleItems == {m \in InFlight : ~item[m].accepted /\ item[m].stale = 0}

\* Mutated form: an item left in sending goes back to the queue.
FailStaleSendingRequeues(w) ==
    /\ stage[w] = "idle"
    /\ StaleItems # {}
    /\ item' = [m \in Prompts |->
          IF m \in StaleItems THEN [item[m] EXCEPT !.status = "queued"] ELSE item[m]]
    /\ session' = IF session = "busy" THEN "idle" ELSE session
    /\ overlapped' = (overlapped \/ \E v \in Workers : stage[v] # "idle")
    /\ UNCHANGED <<closing, arrival, workerVars, closer, sends, stops>>

FailStaleSending(w) ==
    /\ stage[w] = "idle"
    /\ StaleItems # {}
    /\ item' = [m \in Prompts |->
          IF m \in StaleItems THEN [item[m] EXCEPT !.status = "failed"] ELSE item[m]]
    /\ session' = IF session \in {"idle", "busy"} THEN "failed" ELSE session
    /\ overlapped' = (overlapped \/ \E v \in Workers : stage[v] # "idle")
    /\ UNCHANGED <<closing, arrival, workerVars, closer, sends, stops>>

\* claim_next: accepted work first, whoever claimed it before; otherwise the
\* oldest queued item of an idle session with nothing in flight.

Capturable == {m \in InFlight : item[m].accepted /\ item[m].wait = 0}

Queued == {m \in Prompts : item[m].status = "queued"}

Position(m) == CHOOSE i \in DOMAIN arrival : arrival[i] = m

Oldest(S) == CHOOSE m \in S : \A n \in S : Position(m) <= Position(n)

CanSend == session = "idle" /\ InFlight = {} /\ Queued # {}

NextPrompt == Oldest(Queued)

Claimed(r) ==
    [r EXCEPT !.status = "sending", !.attempts = r.attempts + 1, !.stale = StaleSeconds]

ClaimNext(w) ==
    /\ stage[w] = "idle"
    /\ \/ /\ Capturable # {}
          /\ current' = [current EXCEPT ![w] = Oldest(Capturable)]
          /\ UNCHANGED item
       \/ /\ Capturable = {}
          /\ CanSend
          /\ current' = [current EXCEPT ![w] = NextPrompt]
          /\ item' = [item EXCEPT ![NextPrompt] = Claimed(@)]
    /\ stage' = [stage EXCEPT ![w] = "begin"]
    /\ overlapped' = (overlapped \/ \E v \in Workers : stage[v] # "idle")
    /\ UNCHANGED <<sessionVars, arrival, closer, sends, stops>>

----------------------------------------------------------------------------
\* _send_item.

Step(w, s) == stage' = [stage EXCEPT ![w] = s] /\ UNCHANGED current

Leave(w) ==
    /\ stage' = [stage EXCEPT ![w] = "idle"]
    /\ current' = [current EXCEPT ![w] = Nothing]

\* set_status(..., "busy") looks at nothing.  The worker sends if accepted_at
\* was NULL when it claimed; only the claimer can have changed that since.
Begin(w) ==
    /\ stage[w] = "begin"
    /\ session' = "busy"
    /\ Step(w, IF item[current[w]].accepted THEN "capture" ELSE "send")
    /\ UNCHANGED <<closing, item, arrival, closer, sends, stops, overlapped>>

\* fail_delivery; an item that is no longer in flight makes it raise.
FailDelivery(w) ==
    /\ IF item[current[w]].status = "sending"
       THEN /\ item' = [item EXCEPT ![current[w]].status = "failed"]
            /\ session' = "failed"
       ELSE UNCHANGED <<item, session>>
    /\ Leave(w)
    /\ UNCHANGED <<closing, arrival, closer, sends, stops, overlapped>>

\* No backend is registered, or it belongs to another conversation.
Unroutable(w) == stage[w] = "begin" /\ FailDelivery(w)

\* backend.send answers, or raises with the outcome unknown.
Send(w) ==
    /\ stage[w] = "send"
    /\ sends' = [sends EXCEPT ![current[w]] = @ + 1]
    /\ \E s \in {"accept", "refuse"} : Step(w, s)
    /\ UNCHANGED <<sessionVars, item, arrival, closer, stops, overlapped>>

Refuse(w) == stage[w] = "refuse" /\ FailDelivery(w)

MarkAccepted(w) ==
    /\ stage[w] = "accept"
    /\ item' = [item EXCEPT ![current[w]] =
          IF @.status = "sending" /\ ~@.accepted
          THEN [@ EXCEPT !.accepted = TRUE, !.wait = 0, !.deadline = CaptureSeconds]
          ELSE @]
    /\ Step(w, "capture")
    /\ UNCHANGED <<sessionVars, arrival, closer, sends, stops, overlapped>>

\* The capture returns text, raises, or times out; at the deadline of the
\* delivery the backend is asked to abort it.
Capture(w) ==
    /\ stage[w] = "capture"
    /\ \E s \in {"complete", "defer",
                 IF item[current[w]].deadline = 0 THEN "expire" ELSE "pend"} : Step(w, s)
    /\ UNCHANGED <<sessionVars, item, arrival, closer, sends, stops, overlapped>>

Expire(w) == stage[w] = "expire" /\ FailDelivery(w)

Accepted(m) == item[m].status = "sending" /\ item[m].accepted

\* Mutated form: the session stays busy after the delivery.
CompleteBusy(w) ==
    /\ stage[w] = "complete"
    /\ item' = [item EXCEPT ![current[w]].status =
                    IF Accepted(current[w]) THEN "sent" ELSE @]
    /\ Leave(w)
    /\ UNCHANGED <<sessionVars, arrival, closer, sends, stops, overlapped>>

\* complete_delivery and defer_pending raise if the item has moved on.
Complete(w) ==
    /\ stage[w] = "complete"
    /\ IF Accepted(current[w])
       THEN /\ item' = [item EXCEPT ![current[w]].status = "sent"]
            /\ session' = "idle"
       ELSE UNCHANGED <<item, session>>
    /\ Leave(w)
    /\ UNCHANGED <<closing, arrival, closer, sends, stops, overlapped>>

DeferPending(w) ==
    /\ stage[w] = "pend"
    /\ IF Accepted(current[w])
       THEN /\ item' = [item EXCEPT ![current[w]].wait = RetrySeconds]
            /\ session' = "busy"
       ELSE UNCHANGED <<item, session>>
    /\ Leave(w)
    /\ UNCHANGED <<closing, arrival, closer, sends, stops, overlapped>>

\* Mutated form: capture errors do not consume the attempts.
DeferAcceptedForever(w) ==
    /\ stage[w] = "defer"
    /\ item' = [item EXCEPT ![current[w]].wait = RetrySeconds]
    /\ Leave(w)
    /\ UNCHANGED <<sessionVars, arrival, closer, sends, stops, overlapped>>

DeferAccepted(w) ==
    /\ stage[w] = "defer"
    /\ IF Accepted(current[w])
       THEN LET n == item[current[w]].attempts + 1
                r == [item[current[w]] EXCEPT !.attempts = n]
            IN IF n >= MaxAttempts
               THEN /\ item' = [item EXCEPT ![current[w]] = [r EXCEPT !.status = "failed"]]
                    /\ session' = "failed"
               ELSE /\ item' = [item EXCEPT ![current[w]] = [r EXCEPT !.wait = RetrySeconds]]
                    /\ session' = "busy"
       ELSE UNCHANGED <<item, session>>
    /\ Leave(w)
    /\ UNCHANGED <<closing, arrival, closer, sends, stops, overlapped>>

\* The worker's process stops; its item stays as it is.
StopWorker(w) ==
    /\ stage[w] # "idle"
    /\ stops < MaxStops
    /\ stops' = stops + 1
    /\ Leave(w)
    /\ UNCHANGED <<sessionVars, item, arrival, closer, sends, overlapped>>

----------------------------------------------------------------------------
\* close_session, called by anybody or for a candidate of close_idle_sessions.

Closing == {c \in Closers : closer[c] = "closing"}

\* Only idle sessions without pending prompts are candidates; which of them are too old,
\* or too many for their source, is left open.
IdleCandidate == session = "idle" /\ Queued = {} /\ InFlight = {}

\* What the candidate is by the time its turn comes is for close_session to find out.
SelectIdle(c) ==
    /\ closer[c] = "none"
    /\ IdleCandidate
    /\ closer' = [closer EXCEPT ![c] = "selected"]
    /\ UNCHANGED <<sessionVars, item, arrival, workerVars, sends, stops, overlapped>>

\* Mutated form: a delivery in flight does not keep the session open.
ClosableInFlight(force) ==
    /\ session \in {"idle", "busy", "failed"}
    /\ force \/ Queued = {}

Closable(force) ==
    /\ session \in {"idle", "failed"}
    /\ InFlight = {}
    /\ force \/ Queued = {}

ClaimClose(c, force) ==
    /\ closer[c] \in {"none", "selected"}
    /\ force => closer[c] = "none"
    /\ Closable(force)
    /\ session' = "closing"
    /\ closing' = ClosingSeconds
    /\ item' = [m \in Prompts |->
          IF force /\ m \in Queued THEN [item[m] EXCEPT !.status = "cancelled"] ELSE item[m]]
    /\ closer' = [closer EXCEPT ![c] = "closing"]
    /\ overlapped' = (overlapped \/ Closing # {})
    /\ UNCHANGED <<arrival, workerVars, sends, stops>>

\* The candidate cannot be closed any more.
PassOver(c) ==
    /\ closer[c] = "selected" /\ ~Closable(FALSE)
    /\ closer' = [closer EXCEPT ![c] = "none"]
    /\ UNCHANGED <<sessionVars, item, arrival, workerVars, sends, stops, overlapped>>

\* backend.close returned or raised; _record_closed and _record_close_failure
\* write the status whatever it is by then.
RecordClose(c, status) ==
    /\ closer[c] = "closing"
    /\ session' = status
    /\ closer' = [closer EXCEPT ![c] = "none"]
    /\ UNCHANGED <<closing, item, arrival, workerVars, sends, stops, overlapped>>

StopCloser(c) ==
    /\ closer[c] # "none"
    /\ stops < MaxStops
    /\ stops' = stops + 1
    /\ closer' = [closer EXCEPT ![c] = "none"]
    /\ UNCHANGED <<sessionVars, item, arrival, workerVars, sends, overlapped>>

CloseSession(c) ==
    \/ \E force \in BOOLEAN : ClaimClose(c, force)
    \/ \E s \in {"closed", "failed"} : RecordClose(c, s)
    \/ PassOver(c)

RecoverStaleClosing ==
    /\ session = "closing"
    /\ closing = 0
    /\ session' = "failed"
    /\ UNCHANGED <<closing, item, arrival, workerVars, closer, sends, stops, overlapped>>

----------------------------------------------------------------------------
Countdown(n) == IF n > 0 THEN n - 1 ELSE 0

Tick ==
    /\ closing > 0 \/ \E m \in InFlight : item[m].wait + item[m].stale + item[m].deadline > 0
    /\ closing' = Countdown(closing)
    /\ item' = [m \in Prompts |-> [item[m] EXCEPT !.wait = Countdown(@),
                    !.stale = Countdown(@), !.deadline = Countdown(@)]]
    /\ UNCHANGED <<session, arrival, workerVars, closer, sends, stops, overlapped>>

\* A drain that finds nothing to do.
PollNothing(w) ==
    /\ stage[w] = "idle"
    /\ StaleItems = {} /\ Capturable = {} /\ ~CanSend
    /\ UNCHANGED vars

SendItem(w) ==
    \/ Begin(w) \/ Unroutable(w) \/ Send(w) \/ Refuse(w) \/ MarkAccepted(w)
    \/ Capture(w) \/ Expire(w) \/ Complete(w) \/ DeferPending(w) \/ DeferAccepted(w)

Drain(w) == FailStaleSending(w) \/ ClaimNext(w) \/ SendItem(w)

Next ==
    \/ \E m \in Prompts : EnqueuePrompt(m)
    \/ \E w \in Workers : Drain(w) \/ PollNothing(w) \/ StopWorker(w)
    \/ \E c \in Closers : SelectIdle(c) \/ CloseSession(c) \/ StopCloser(c)
    \/ RecoverStaleClosing
    \/ Tick

Spec == Init /\ [][Next]_vars

\* The worker keeps draining and time passes; nobody has to enqueue or close.
FairSpec == Spec /\ WF_vars(Tick) /\ \A w \in Workers : WF_vars(Drain(w))

----------------------------------------------------------------------------
\* Properties.

TypeOK ==
    /\ session \in SessionStatus
    /\ closing \in 0 .. ClosingSeconds
    /\ \A m \in Prompts :
          /\ item[m].status \in ItemStatus
          /\ item[m].accepted \in BOOLEAN
          /\ item[m].attempts \in 0 .. MaxAttempts + 1
          /\ item[m].wait \in 0 .. RetrySeconds
          /\ item[m].stale \in 0 .. StaleSeconds
          /\ item[m].deadline \in 0 .. CaptureSeconds
    /\ \A i \in DOMAIN arrival : arrival[i] \in Prompts
    /\ \A w \in Workers : /\ stage[w] \in Stages
                          /\ current[w] \in Prompts \cup {Nothing}
                          /\ stage[w] = "idle" <=> current[w] = Nothing
    /\ closer \in [Closers -> {"none", "selected", "closing"}]
    /\ stops \in 0 .. MaxStops
    /\ overlapped \in BOOLEAN

\* A prompt is handed to the backend at most once, whatever stops, expires or is
\* captured twice, and in the order of arrival: when a prompt has been sent, every
\* earlier one is settled, so only one delivery of a session is in flight.
SentOnceInOrder ==
    /\ \A m \in Prompts : sends[m] <= 1
    /\ Cardinality(InFlight) <= 1
    /\ \A i, j \in DOMAIN arrival :
         i < j /\ sends[arrival[j]] > 0 => item[arrival[i]].status \in Settled

\* Unless workers or closers overlapped, the backend session is never closed under a
\* worker that is delivering to it, and a session that is being closed or is closed
\* has no pending prompt.
CloseLeavesNothingPending ==
    overlapped \/
      /\ Closing # {} => \A w \in Workers : stage[w] = "idle"
      /\ session \in {"closing", "closed"} => Queued = {} /\ InFlight = {}

\* Unless workers overlapped, a session is busy only while one of its deliveries is in
\* flight, so the mailbox worker can always bring it out of "busy".
BusyIsOwned == session = "busy" => InFlight # {} \/ overlapped

\* The rows keep their types, and the status of the session agrees with its prompts.
SessionConsistent == TypeOK /\ BusyIsOwned

\* Every prompt is eventually sent, failed or cancelled, unless an earlier failure or a
\* close has taken the session out of service or two workers overlapped.
EventuallyDecided ==
    \A m \in Prompts : item[m].status \in {"queued", "sending"} ~>
        \/ item[m].status \in Settled
        \/ session \in {"failed", "closing", "closed"}
        \/ overlapped

============================================================================
