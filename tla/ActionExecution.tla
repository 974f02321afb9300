-------------------------- MODULE ActionExecution --------------------------
(***************************************************************************)
(* One action from its creation to its outcome: the action row             *)
(* (actions/store.py), approval and creation with their execution event    *)
(* (approvals/runtime.py, decisions/sqlite.py), the action workers         *)
(* (actions/worker.py) and the operator's resolution of an uncertain       *)
(* outcome (reconciliation/store.py).                                      *)
(*                                                                         *)
(* The action row carries no lease: workers are fenced on the event, by    *)
(* its token, and on the action only by its status.  Every await of        *)
(* process_action_queue_event ends a step, so workers whose leases have    *)
(* expired interleave with their successors.  Claims take one event; the   *)
(* order inside a batch is the subject of AgentQueue.                      *)
(***************************************************************************)
EXTENDS EventRows

CONSTANTS Workers,
          ExecuteKey,     \* idempotency key "execute-action:{id}"
          RequestKeys,    \* request keys of reconciliations, one event each
          Results,        \* how calls of the registered executor may end
          RetryBackoff,   \* retry_backoff_s
          MaxAbandons,    \* bound: how often a worker vanishes in a behaviour
          ClaimBound,     \* bound: how often one event is claimed
          NoEvent

AllResults == {"queued", "executed", "permanent_failure", "retryable_failure",
               "not_started", "raised", "unregistered"}

ASSUME ActionExecutionAssumption ==
    /\ ExecuteKey \notin RequestKeys
    /\ Results \subseteq AllResults
    /\ RetryBackoff \in Nat
    /\ MaxAbandons \in Nat
    /\ ClaimBound \in Nat
    /\ NoEvent \notin RequestKeys \cup {ExecuteKey}

Events == RequestKeys \cup {ExecuteKey}

VARIABLES
    action,    \* actions.status, "absent" before the insert
    errored,   \* actions.last_error IS NOT NULL
    ev,        \* event_queue rows of the ExecuteAction events
    audit,     \* effect_reconciliations: request key -> resolution or "none"
    stage,     \* worker -> its place in process_action_queue_event
    event,     \* worker -> the event it claimed
    token,     \* worker -> the lease token, which is also event.attempts
    abandons,  \* how often a worker vanished so far
    open,      \* history: claims whose executor call may have had its effect
    excused,   \* history: a call handed its work off, or an operator said not_executed
    overlapped \* history: an event was claimed from a worker that was still at it

worker == <<stage, event, token>>
vars == <<action, errored, ev, audit, worker, abandons, open, excused, overlapped>>

Terminal == {"executed", "failed", "denied", "uncertain"}
ActionStatus == {"absent", "pending", "approved", "executing", "queued"} \cup Terminal
Resolutions == {"executed", "failed", "not_executed"}
Stages == {"idle", "claimed", "begin", "calling", "handoff", "executed", "failing",
           "uncertain", "retryable", "exhausted", "recheck", "release", "done"}

TypeOK ==
    /\ action \in ActionStatus
    /\ errored \in BOOLEAN
    /\ ev \in [Events -> EventRow]
    /\ audit \in [RequestKeys -> Resolutions \cup {"none"}]
    /\ stage \in [Workers -> Stages]
    /\ event \in [Workers -> Events \cup {NoEvent}]
    /\ token \in [Workers -> Nat]
    /\ abandons \in 0 .. MaxAbandons
    /\ open \in SUBSET (Events \X Nat)
    /\ excused \in BOOLEAN
    /\ overlapped \in BOOLEAN

Init ==
    /\ action = "absent"
    /\ errored = FALSE
    /\ ev = [e \in Events |-> NoRow]
    /\ audit = [r \in RequestKeys |-> "none"]
    /\ stage = [w \in Workers |-> "idle"]
    /\ event = [w \in Workers |-> NoEvent]
    /\ token = [w \in Workers |-> 0]
    /\ abandons = 0
    /\ open = {}
    /\ excused = FALSE
    /\ overlapped = FALSE

----------------------------------------------------------------------------
\* Creation, approval and denial.  The event is enqueued in the transaction
\* that makes the action "approved"; repeating either is a replay.

Enqueued(e) == IF Present(ev[e]) THEN ev ELSE [ev EXCEPT ![e] = NewRow(0)]

InsertAction(policy) ==
    /\ action = "absent"
    /\ action' = IF policy = "auto" THEN "approved" ELSE "pending"
    /\ ev' = IF policy = "auto" THEN Enqueued(ExecuteKey) ELSE ev
    /\ UNCHANGED <<errored, audit, worker, abandons, open, excused, overlapped>>

Approve ==
    /\ action = "pending"
    /\ action' = "approved"
    /\ ev' = Enqueued(ExecuteKey)
    /\ UNCHANGED <<errored, audit, worker, abandons, open, excused, overlapped>>

Deny ==
    /\ action = "pending"
    /\ action' = "denied"
    /\ UNCHANGED <<errored, ev, audit, worker, abandons, open, excused, overlapped>>

\* resolve_action.  A request key that was used before is a replay.
ResolveAction(r, resolution) ==
    /\ audit[r] = "none"
    /\ action = "uncertain"
    /\ audit' = [audit EXCEPT ![r] = resolution]
    /\ action' = IF resolution = "not_executed" THEN "approved" ELSE resolution
    /\ errored' = (resolution = "failed")
    /\ ev' = IF resolution = "not_executed" THEN Enqueued(r) ELSE ev
    /\ open' = IF resolution = "not_executed" THEN {} ELSE open
    /\ excused' = (excused \/ resolution = "not_executed")
    /\ UNCHANGED <<worker, abandons, overlapped>>

\* The application's downstream system finishes an action it was handed.
Downstream(status) ==
    /\ action = "queued" /\ ~errored
    /\ action' = status
    /\ errored' = (status = "failed")
    /\ UNCHANGED <<ev, audit, worker, abandons, open, excused, overlapped>>

----------------------------------------------------------------------------
\* The worker loop around one event.

Goto(w, s) == stage' = [stage EXCEPT ![w] = s]

Leave(w) ==
    /\ stage' = [stage EXCEPT ![w] = "idle"]
    /\ event' = [event EXCEPT ![w] = NoEvent]
    /\ token' = [token EXCEPT ![w] = 0]

Due(e) == Claimable(ev[e], TRUE) /\ ev[e].attempts < ClaimBound

Claim(w, e) ==
    /\ stage[w] = "idle"
    /\ Due(e)
    /\ ev' = [ev EXCEPT ![e] = Claimed(ev[e])]
    /\ stage' = [stage EXCEPT ![w] = "claimed"]
    /\ event' = [event EXCEPT ![w] = e]
    /\ token' = [token EXCEPT ![w] = Claimed(ev[e]).token]
    /\ overlapped' = (overlapped \/ \E v \in Workers : event[v] = e)
    /\ UNCHANGED <<action, errored, audit, abandons, open, excused>>

\* A poll that finds nothing due.
PollNothing(w) ==
    /\ stage[w] = "idle"
    /\ \A e \in Events : ~Due(e)
    /\ UNCHANGED vars

Heartbeat(w) ==
    /\ stage[w] # "idle"
    /\ ev' = [ev EXCEPT ![event[w]] = RenewLease(@, token[w])]
    /\ UNCHANGED <<action, errored, audit, worker, abandons, open, excused, overlapped>>

\* The process dies, an exception leaves the loop, or the lease guard finds the
\* lease lost and cancels the task: the worker forgets the event.
Abandon(w) ==
    /\ stage[w] # "idle"
    /\ abandons < MaxAbandons
    /\ token[w] < ClaimBound   \* bound: the last claim is seen through
    /\ abandons' = abandons + 1
    /\ Leave(w)
    /\ UNCHANGED <<action, errored, ev, audit, open, excused, overlapped>>

----------------------------------------------------------------------------
\* process_action_queue_event: read the action, then decide.

Route(w) ==
    CASE action \in Terminal -> "done"
      [] action = "executing" -> IF token[w] > 1 THEN "uncertain" ELSE "done"
      [] action = "queued" /\ ~errored -> "done"
      [] token[w] > MaxAttempts -> "exhausted"
      [] OTHER -> "begin"

Load(w) ==
    /\ stage[w] = "claimed"
    /\ Goto(w, Route(w))
    /\ UNCHANGED <<action, errored, ev, audit, event, token, abandons, open, excused, overlapped>>

\* mark_executing, the registry lookup that follows it without an await, and the
\* executor call.

\* Mutated form: mark_executing without the status in its WHERE clause.
StartableExecuting == action \in {"approved", "queued", "executing"}

Startable == action \in {"approved", "queued"}

MarkExecuting(w) ==
    /\ stage[w] = "begin"
    /\ action' = IF Startable THEN "executing" ELSE action
    /\ \/ ~Startable /\ Goto(w, "done") /\ UNCHANGED open
       \/ /\ Startable /\ Results # {"unregistered"}
          /\ Goto(w, "calling")
          /\ open' = open \cup {<<event[w], token[w]>>}
       \/ /\ Startable /\ "unregistered" \in Results
          /\ Goto(w, "failing") /\ UNCHANGED open
    /\ UNCHANGED <<errored, ev, audit, event, token, abandons, excused, overlapped>>

\* Mutated form: an unexpected exception is retried.
AfterCallRetrying(w, r) ==
    CASE r = "queued" -> "handoff"
      [] r = "executed" -> "executed"
      [] r = "permanent_failure" -> "failing"
      [] OTHER -> IF token[w] >= MaxAttempts THEN "exhausted" ELSE "retryable"

AfterCall(w, r) ==
    CASE r = "queued" -> "handoff"
      [] r = "executed" -> "executed"
      [] r = "permanent_failure" -> "failing"
      [] r = "raised" -> "uncertain"
      [] OTHER -> IF token[w] >= MaxAttempts THEN "exhausted" ELSE "retryable"

\* The executor returns or raises.  Only not_started, a retryable and a
\* permanent failure tell that the call had no effect.
ExecutorEnds(w, r) ==
    /\ stage[w] = "calling"
    /\ r \in Results \ {"unregistered"}
    /\ Goto(w, AfterCall(w, r))
    /\ open' = IF r \in {"not_started", "retryable_failure", "permanent_failure"}
               THEN open \ {<<event[w], token[w]>>} ELSE open
    /\ excused' = (excused \/ r = "queued")
    /\ UNCHANGED <<action, errored, ev, audit, event, token, abandons, overlapped>>

----------------------------------------------------------------------------
\* The write that the stage stands for, guarded by the action's status alone.

\* The statuses a write may leave, the status it sets, whether it leaves an
\* error, and the stages that follow when it changed the row and when not.
Write(from, to, err, then, else) ==
    [from |-> from, to |-> to, err |-> err, then |-> then, else |-> else]

\* Mutated form: mark_uncertain overwrites whatever is there.
WriteOfUnguarded(s) ==
    CASE s = "handoff"   -> Write({"executing"}, "queued", FALSE, "done", "done")
      [] s = "executed"  -> Write({"executing", "queued"}, "executed", errored, "done", "done")
      [] s = "failing"   -> Write({"approved", "executing", "queued"}, "failed", TRUE, "done", "done")
      [] s = "uncertain" -> Write(ActionStatus, "uncertain", TRUE, "done", "done")
      [] s = "retryable" -> Write({"executing"}, "queued", TRUE, "release", "recheck")
      [] s = "exhausted" -> Write({"approved", "executing", "queued"}, "failed", TRUE,
                                  "release", "recheck")

WriteOf(s) ==
    CASE s = "handoff"   -> Write({"executing"}, "queued", FALSE, "done", "done")
      [] s = "executed"  -> Write({"executing", "queued"}, "executed", errored, "done", "done")
      [] s = "failing"   -> Write({"approved", "executing", "queued"}, "failed", TRUE, "done", "done")
      [] s = "uncertain" -> Write({"executing"}, "uncertain", TRUE, "done", "done")
      [] s = "retryable" -> Write({"executing"}, "queued", TRUE, "release", "recheck")
      [] s = "exhausted" -> Write({"approved", "executing", "queued"}, "failed", TRUE,
                                  "release", "recheck")

WriteAction(w) ==
    /\ stage[w] \in {"handoff", "executed", "failing", "uncertain", "retryable", "exhausted"}
    /\ LET u == WriteOf(stage[w])
           changes == action \in u.from
       IN  /\ action' = IF changes THEN u.to ELSE action
           /\ errored' = IF changes THEN u.err ELSE errored
           /\ Goto(w, IF changes THEN u.then ELSE u.else)
    /\ UNCHANGED <<ev, audit, event, token, abandons, open, excused, overlapped>>

\* mark_retryable or mark_failed changed nothing: a settled action closes the
\* event, anything else raises RuntimeError out of the worker loop.
Recheck(w) ==
    /\ stage[w] = "recheck"
    /\ IF action \in Terminal
       THEN Goto(w, "done") /\ UNCHANGED <<event, token>>
       ELSE Leave(w)
    /\ UNCHANGED <<action, errored, ev, audit, abandons, open, excused, overlapped>>

\* mark_done or mark_retry of the event ends the processing.  After
\* mark_retryable the lease of a claim before the last is at stake, so
\* mark_retry cannot answer "dead_letter" there.
SettleEvent(w) ==
    /\ stage[w] \in {"done", "release"}
    /\ ev' = [ev EXCEPT ![event[w]] =
                IF stage[w] = "done" THEN MarkDone(@, token[w])
                ELSE MarkRetry(@, token[w], RetryBackoff)]
    /\ Leave(w)
    /\ UNCHANGED <<action, errored, audit, abandons, open, excused, overlapped>>

Tick ==
    /\ \E e \in Events : Ticking(ev[e])
    /\ ev' = [e \in Events |-> Elapse(ev[e])]
    /\ UNCHANGED <<action, errored, audit, worker, abandons, open, excused, overlapped>>

Step(w) ==
    \/ Load(w) \/ MarkExecuting(w) \/ WriteAction(w) \/ Recheck(w) \/ SettleEvent(w)
    \/ \E r \in Results : ExecutorEnds(w, r)

Next ==
    \/ \E p \in {"auto", "manual"} : InsertAction(p)
    \/ Approve \/ Deny
    \/ \E r \in RequestKeys, x \in Resolutions : ResolveAction(r, x)
    \/ \E s \in {"executed", "failed"} : Downstream(s)
    \/ \E w \in Workers, e \in Events : Claim(w, e)
    \/ \E w \in Workers : PollNothing(w) \/ Heartbeat(w) \/ Abandon(w) \/ Step(w)
    \/ Tick

Spec == Init /\ [][Next]_vars

\* Time passes, workers keep polling and are scheduled, executors return.
FairSpec ==
    /\ Spec
    /\ WF_vars(Tick)
    /\ \A w \in Workers : WF_vars(Step(w)) /\ \A e \in Events : WF_vars(Claim(w, e))

----------------------------------------------------------------------------
\* Properties.

Unsettled(e) == Present(ev[e]) /\ ev[e].status \notin Settled

\* Two executor calls never overlap unless an operator declared an uncertain one
\* not executed: a worker that lost its lease in mid-call leaves the action
\* executing, and its successor makes it uncertain instead of starting over.
OverlapNeedsResolution ==
    (\A r \in RequestKeys : audit[r] # "not_executed") =>
        \A v, w \in Workers : stage[v] = "calling" /\ stage[w] = "calling" => v = w

\* A claim beyond max_attempts is recovery-only: it never calls the executor.
RecoveryNeverCalls == \A w \in Workers : stage[w] = "calling" => token[w] <= MaxAttempts

\* The rows keep their types, two executor calls overlap only after a resolution, and
\* recovery of an abandoned action stays recovery.
ActionConsistent == TypeOK /\ OverlapNeedsResolution /\ RecoveryNeverCalls

\* executed, failed and denied are final, and an uncertain action is moved only by
\* a resolution that leaves its audit record.
OutcomeIsFinal ==
    [][/\ action \in {"executed", "failed", "denied"} => action' = action
       /\ action = "uncertain" /\ action' # action =>
            \E r \in RequestKeys : audit[r] = "none" /\ audit'[r] # "none"]_vars

\* As long as no call ended in a hand-off and no operator declared one not executed,
\* the executor is called again only when every earlier call is known to have had no
\* effect: an exception or a vanished worker never leads to a replay.
NoBlindReplay ==
    [][\A w \in Workers : stage[w] = "begin" /\ stage'[w] = "calling" =>
          open = {} \/ excused]_vars

\* Every approved action reaches an outcome, a hand-off or the operator, however often
\* workers vanish, unless an event was claimed from a worker that was still at it.
EventuallyDecided ==
    action = "approved" ~>
        action \in Terminal \/ (action = "queued" /\ ~errored) \/ overlapped

============================================================================
