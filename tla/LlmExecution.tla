---------------------------- MODULE LlmExecution ----------------------------
(***************************************************************************)
(* The durable execution of one model request: SessionLlmBackend over a    *)
(* resumable backend (llm/backends/session.py, _run_with_journal), its     *)
(* checkpoint (llm/checkpoint.py) in the row of a planner run              *)
(* (runs/store.py), and the journal that binds the two                     *)
(* (_RunExecutionJournal in runtime/planner.py).                           *)
(*                                                                         *)
(* An attempt claims the run, reads the checkpoint and goes on from it: it *)
(* opens a native thread, starts a turn, captures its answer, or first     *)
(* pauses a turn an earlier attempt has left.  Before and after every call *)
(* of the backend it saves a checkpoint, fenced by the run's lease.  The   *)
(* attempt may time out, be cancelled, lose its lease or disappear at each *)
(* await; a save interrupted that way may have been committed or not.  The *)
(* total budget (total_timeout_s) is part of the checkpoint.               *)
(*                                                                         *)
(* The native backend is external: threads and turns are what the code can *)
(* observe of it.  The close of a thread whose turn was given up is left   *)
(* out: its outcome changes nothing here.                                  *)
(***************************************************************************)
EXTENDS Naturals, Sequences

CONSTANTS Workers,
          StaleSeconds,  \* stale_after_s of the run's lease
          Budget,        \* total_timeout_s
          MaxThreads,    \* bound on native threads
          MaxTurns,      \* bound on native turns
          MaxFaults      \* bound on failures, cancellations, crashes and overrun leases

ASSUME LlmAssumption ==
    /\ StaleSeconds \in Nat \ {0}
    /\ Budget \in Nat \ {0}
    /\ MaxThreads \in Nat \ {0} /\ MaxTurns \in Nat \ {0} /\ MaxFaults \in Nat

VARIABLES
    run,      \* the row of agent_runs without its checkpoint
    saved,    \* the checkpoint in that row
    local,    \* what each worker is awaiting and its copy of the checkpoint
    threads,  \* native threads opened so far
    turns,    \* native turns, in the order they were started
    age,      \* seconds since a native thread was first asked for
    faults

native == <<threads, turns>>
vars == <<run, saved, local, native, age, faults>>

----------------------------------------------------------------------------
\* Checkpoints.  A thread or receipt of zero is NULL; a receipt is the number of the
\* native turn; left is the time to deadline_at.

Final == {"completed", "cancelled", "failed"}

CheckpointState == {"none", "opened", "sending", "accepted", "pausing", "paused"} \cup Final

Checkpoint == [state : CheckpointState, thread : 0 .. MaxThreads,
               receipt : 0 .. MaxTurns, left : 0 .. Budget]

NoCheckpoint == [state |-> "none", thread |-> 0, receipt |-> 0, left |-> Budget]

Opened(c, n) == [c EXCEPT !.state = "opened", !.thread = n]

Sending(c) == [c EXCEPT !.state = "sending", !.receipt = 0]

Accepted(c, i) == [c EXCEPT !.state = "accepted", !.receipt = i]

As(c, s) == [c EXCEPT !.state = s]

----------------------------------------------------------------------------
\* Workers.  A worker awaits one call ("at"); a save also knows the checkpoint to write
\* ("next") and what follows ("then"), and a send the native turn it has started ("turn").
\* An attempt that takes a second ("slow") has used up timeout_s.  In timeout_result
\* ("late") the attempt's own timeout no longer applies.

Stages == {"idle", "loading", "resuming", "opening", "saving", "sending", "sent", "capturing",
           "interrupting", "closing", "expired", "aborting", "answering", "failing"}

\* The uuid of a claim is stood for by its worker, which has one claim at a time.
NoToken == << >>

Token(w) == <<w>>

Tokens == {NoToken} \cup {Token(w) : w \in Workers}

Idle == [at |-> "idle", token |-> NoToken, mine |-> NoCheckpoint, next |-> NoCheckpoint,
         then |-> "idle", turn |-> 0, slow |-> FALSE, late |-> FALSE]

\* The worker awaits s with c as its copy of the checkpoint.
Await(l, s, c) == [l EXCEPT !.at = s, !.mine = c, !.next = NoCheckpoint, !.then = "idle"]

Saving(l, c, s) == [l EXCEPT !.at = "saving", !.next = c, !.then = s]

\* What follows a save; a turn is started by saving "sending" first.
Following(l, c, s) ==
    IF s = "starting"
    THEN Saving([l EXCEPT !.mine = c], Sending(c), "sending")
    ELSE Await(l, s, c)

Init ==
    /\ run = [status |-> "absent", token |-> NoToken, left |-> 0]
    /\ saved = NoCheckpoint
    /\ local = [w \in Workers |-> Idle]
    /\ threads = 0 /\ turns = << >>
    /\ age = 0 /\ faults = 0

Holds(w) == run.status = "running" /\ run.token = local[w].token

Set(w, l) == local' = [local EXCEPT ![w] = l]

\* Exceptions of the backend, cancellations and crashes are bounded.
Fault == faults < MaxFaults /\ faults' = faults + 1

\* The attempt's timeout and the total budget end every await before they run out.
InTime(w, s) == local[w].at = s /\ (local[w].mine.left > 0 \/ local[w].late)

----------------------------------------------------------------------------
\* claim_run, and the journal: load_run_checkpoint and save_run_checkpoint.

Claim(w) ==
    /\ local[w].at = "idle"
    /\ run.status # "completed"
    /\ ~(run.status = "running" /\ run.left > 0)
    /\ run' = [status |-> "running", token |-> Token(w), left |-> StaleSeconds]
    /\ Set(w, [Idle EXCEPT !.at = "loading", !.token = Token(w)])
    /\ UNCHANGED <<saved, native, age, faults>>

\* A save under the lease writes the checkpoint and renews the lease.
Written(c) ==
    /\ saved' = c
    /\ run' = [run EXCEPT !.left = StaleSeconds]

Save(w) ==
    /\ local[w].at = "saving"
    /\ LET c == local[w].next
       IN  IF Holds(w)
           THEN /\ Written(c)
                /\ Set(w, Following(local[w], c, local[w].then))
           ELSE /\ Set(w, Idle)
                /\ UNCHANGED <<run, saved>>
    /\ UNCHANGED <<native, age, faults>>

\* An interrupted await: a save in progress was committed or was not, and the worker
\* takes the checkpoint for written.
Interrupted(w, c) ==
    IF local[w].at = "saving"
    THEN /\ c = local[w].next
         /\ (Holds(w) /\ Written(c)) \/ UNCHANGED <<run, saved>>
    ELSE /\ c = local[w].mine
         /\ UNCHANGED <<run, saved>>

----------------------------------------------------------------------------
\* The attempt, from the checkpoint it finds.

\* Mutated form: a spent budget is not noticed.
ExhaustedNever(c) == FALSE

Exhausted(c) == c.left = 0

\* ExecutionBudgetExceededError: the checkpoint becomes "failed" and its turn is aborted.
OverBudget(l, c) == Saving([l EXCEPT !.mine = c], As(c, "failed"), "aborting")

\* Mutated form: the budget is first saved with the thread.
FirstStepUnreserved(l, c) == Await(l, "opening", Opened(c, 0))

\* The budget is saved before a thread is opened.
FirstStep(l, c) == Saving(l, Opened(c, 0), "opening")

\* Mutated form: a turn whose start is uncertain is started again.
RefusedResending == {"cancelled", "failed"}

\* NonRetryableEventError: the outcome is final, or the start of the turn is uncertain.
Refused == {"cancelled", "failed", "sending"}

Entry(l, c) ==
    CASE c.state = "none"      -> FirstStep(l, c)
      [] c.state = "completed" -> Await(l, "answering", c)
      [] c.state \notin {"none", "completed"} /\ Exhausted(c) -> OverBudget(l, c)
      [] OTHER -> Await(l, IF c.state \in Refused THEN "failing"
                           ELSE IF c.thread = 0 THEN "opening" ELSE "resuming", c)

Load(w) ==
    /\ InTime(w, "loading")
    /\ IF Holds(w)
       THEN Set(w, IF saved.state = "none"
                   THEN Entry(local[w], local[w].mine)
                   ELSE Entry(local[w], saved))
       ELSE Set(w, Idle)
    /\ UNCHANGED <<run, saved, native, age, faults>>

Open(w) ==
    /\ InTime(w, "opening")
    /\ threads < MaxThreads
    /\ threads' = threads + 1
    /\ Set(w, Saving(local[w], Opened(local[w].mine, threads'), "starting"))
    /\ UNCHANGED <<run, saved, turns, age, faults>>

Resume(w) ==
    /\ InTime(w, "resuming")
    /\ LET l == local[w]
           c == l.mine
       IN  Set(w, CASE c.state = "accepted" -> Saving(l, As(c, "pausing"), "interrupting")
                    [] c.state = "pausing"  -> Await(l, "interrupting", c)
                    [] OTHER                -> Following(l, c, "starting"))
    /\ UNCHANGED <<run, saved, native, age, faults>>

\* The request reaches the backend, which starts the turn; later its receipt arrives.
Send(w) ==
    /\ InTime(w, "sending")
    /\ Len(turns) < MaxTurns
    /\ turns' = Append(turns, [thread |-> local[w].mine.thread, status |-> "running"])
    /\ Set(w, [local[w] EXCEPT !.at = "sent", !.turn = Len(turns')])
    /\ UNCHANGED <<run, saved, threads, age, faults>>

Receive(w) ==
    /\ InTime(w, "sent")
    /\ Set(w, Saving([local[w] EXCEPT !.turn = 0],
                     Accepted(local[w].mine, local[w].turn), "capturing"))
    /\ UNCHANGED <<run, saved, native, age, faults>>

Status(w) == turns[local[w].mine.receipt].status

Capture(w) ==
    /\ InTime(w, "capturing")
    /\ Status(w) = "done"
    /\ Set(w, Saving(local[w], As(local[w].mine, "completed"), "closing"))
    /\ UNCHANGED <<run, saved, native, age, faults>>

\* pause_delivery says completed, interrupted or pending; a pending one leaves the
\* checkpoint "pausing".
Pause(w) ==
    /\ InTime(w, "interrupting")
    /\ LET l == local[w]
           c == l.mine
       IN  Set(w, CASE Status(w) = "done"    -> Saving(l, As(c, "completed"), "closing")
                    [] Status(w) = "stopped" -> Saving(l, As(c, "paused"),
                                                       IF l.late THEN "expired" ELSE "starting")
                    [] Status(w) = "running" -> Await(l, IF l.late THEN "expired" ELSE "failing", c))
    /\ UNCHANGED <<run, saved, native, age, faults>>

\* The thread is closed once its answer is saved.
Close(w) ==
    /\ local[w].at = "closing"
    /\ Set(w, Await(local[w], "answering", local[w].mine))
    /\ UNCHANGED <<run, saved, native, age, faults>>

----------------------------------------------------------------------------
\* Timeouts.

\* Out of the budget or, before the deadline, just of this attempt's time.
Expired(l, c) ==
    IF c.state # "none" /\ Exhausted(c) THEN OverBudget(l, c) ELSE Await(l, "failing", c)

\* timeout_result, by the worker's copy of the checkpoint.
TimeoutResult(l, c) ==
    CASE c.state = "sending"  -> Await(l, "failing", c)
      [] c.state = "accepted" -> Saving([l EXCEPT !.mine = c], As(c, "pausing"), "interrupting")
      [] c.state = "pausing"  -> Await(l, "interrupting", c)
      [] OTHER                -> Expired(l, c)

Attempting == {"loading", "resuming", "opening", "saving", "sending", "sent", "capturing",
               "interrupting", "closing"}

Attempt(w) ==
    /\ local[w].at \in Attempting
    /\ local[w].next.state \notin {"cancelled", "failed"}

TimesOut(w) ==
    /\ Attempt(w) /\ ~local[w].late
    /\ \E c \in {local[w].mine, local[w].next} :
         /\ Interrupted(w, c)
         /\ Set(w, TimeoutResult([local[w] EXCEPT !.late = TRUE, !.turn = 0], c))
    /\ UNCHANGED <<native, age>>

\* The turn takes longer than the attempt may, or the budget is spent.
Timeout(w) ==
    /\ (local[w].at = "capturing" /\ local[w].slow) \/ local[w].mine.left = 0
    /\ TimesOut(w)
    /\ UNCHANGED faults

\* Any other call takes too long.
Stall(w) == Fault /\ TimesOut(w)

Expire(w) ==
    /\ local[w].at = "expired"
    /\ Set(w, Expired(local[w], local[w].mine))
    /\ UNCHANGED <<run, saved, native, age, faults>>

----------------------------------------------------------------------------
\* Failures, cancellation and the end of an attempt.

\* The checkpoint becomes "failed" when native work exists and the error is final.
Failed(l, c) ==
    IF c.state \in {"accepted", "pausing", "paused"}
    THEN Saving(l, As(c, "failed"), "failing")
    ELSE Await(l, "failing", c)

\* A call of the backend raises; what it asked for may have happened.  A failed resume is
\* always final, of the other errors only NonRetryableEventError.
BackendRaises(w) ==
    /\ \E s \in Attempting \ {"loading", "saving"} : InTime(w, s)
    /\ Fault
    /\ LET l == [local[w] EXCEPT !.turn = 0]
       IN  \/ Set(w, Failed(l, l.mine))
           \/ l.at # "resuming" /\ Set(w, Await(l, "failing", l.mine))
    /\ UNCHANGED <<run, saved, native, age>>

\* CancelledError: the checkpoint becomes "cancelled", then the turn is aborted.
Cancel(w) ==
    /\ Attempt(w)
    /\ Fault
    /\ LET l == [local[w] EXCEPT !.turn = 0]
       IN  \E c \in {l.mine, l.next} :
             /\ Interrupted(w, c)
             /\ Set(w, IF c.state \in {"none", "completed"}
                       THEN Await(l, "failing", c)
                       ELSE Saving([l EXCEPT !.mine = c], As(c, "cancelled"), "aborting"))
    /\ UNCHANGED <<native, age>>

\* abort_delivery of the exact turn, when there is one, returns or raises.
Abort(w) ==
    /\ local[w].at = "aborting"
    /\ Set(w, Await(local[w], "failing", local[w].mine))
    /\ UNCHANGED <<run, saved, native, age, faults>>

\* finalize_run; a lost lease leaves the row alone.
Finalize(w) ==
    /\ local[w].at \in {"answering", "failing"}
    /\ run' = IF Holds(w)
              THEN [status |-> IF local[w].at = "answering" THEN "completed" ELSE "failed",
                    token |-> NoToken, left |-> 0]
              ELSE run
    /\ Set(w, Idle)
    /\ UNCHANGED <<saved, native, age, faults>>

\* Parsing the answer raises.
AnswerFails(w) ==
    /\ local[w].at = "answering"
    /\ Fault
    /\ Set(w, Await(local[w], "failing", local[w].mine))
    /\ UNCHANGED <<run, saved, native, age>>

Crash(w) ==
    /\ local[w].at # "idle"
    /\ Fault
    /\ \E c \in {local[w].mine, local[w].next} : Interrupted(w, c)
    /\ Set(w, Idle)
    /\ UNCHANGED <<native, age>>

----------------------------------------------------------------------------
\* The environment: a native turn ends, time passes, the event is delivered again.

TurnEnds ==
    \E i \in DOMAIN turns :
        /\ turns[i].status = "running"
        /\ turns' = [turns EXCEPT ![i].status = "done"]
        /\ UNCHANGED <<run, saved, local, threads, age, faults>>

\* The backend interrupts a turn it was told to pause or abort.
TurnStops ==
    \E w \in Workers :
        /\ local[w].at \in {"interrupting", "aborting"}
        /\ local[w].mine.receipt # 0
        /\ Status(w) = "running"
        /\ turns' = [turns EXCEPT ![local[w].mine.receipt].status = "stopped"]
        /\ UNCHANGED <<run, saved, local, threads, age, faults>>

Countdown(n) == IF n = 0 THEN 0 ELSE n - 1

Overruns == \E w \in Workers : local[w].at # "idle" /\ Holds(w) /\ run.left = 1

Shorter(c) == [c EXCEPT !.left = Countdown(@)]

Tick ==
    /\ Overruns => faults < MaxFaults
    /\ faults' = IF Overruns THEN faults + 1 ELSE faults
    /\ run' = [run EXCEPT !.left = Countdown(@)]
    /\ saved' = IF saved.state = "none" THEN saved ELSE Shorter(saved)
    /\ local' = [w \in Workers |->
          IF local[w].at = "idle" THEN local[w]
          ELSE [local[w] EXCEPT !.slow = TRUE, !.mine = Shorter(@),
                                !.next = IF local[w].at = "saving" THEN Shorter(@) ELSE @]]
    /\ age' = IF threads = 0 \/ age = Budget THEN age ELSE age + 1
    /\ UNCHANGED native

Redelivered(w) ==
    /\ local[w].at = "idle"
    /\ run.status = "completed" \/ run.left > 0
    /\ UNCHANGED vars

Step(w) ==
    \/ Load(w) \/ Open(w) \/ Resume(w) \/ Save(w) \/ Send(w) \/ Receive(w)
    \/ Capture(w) \/ Pause(w) \/ Close(w) \/ Timeout(w) \/ Expire(w)
    \/ Abort(w) \/ Finalize(w)

Next ==
    \/ \E w \in Workers : Claim(w) \/ Redelivered(w) \/ Step(w) \/ BackendRaises(w)
                          \/ AnswerFails(w) \/ Stall(w) \/ Cancel(w) \/ Crash(w)
    \/ TurnEnds \/ TurnStops
    \/ Tick

Spec == Init /\ [][Next]_vars

\* The queue redelivers the event, attempts go on, and time passes.
FairSpec ==
    /\ Spec
    /\ SF_vars(Tick)
    /\ \A w \in Workers : WF_vars(Claim(w)) /\ WF_vars(Step(w))

----------------------------------------------------------------------------
\* Properties.

TypeOK ==
    /\ run \in [status : {"absent", "running", "completed", "failed"},
                token : Tokens, left : 0 .. StaleSeconds]
    /\ saved \in Checkpoint
    /\ local \in [Workers -> [at : Stages, token : Tokens, mine : Checkpoint, next : Checkpoint,
                              then : Stages \cup {"starting"}, turn : 0 .. MaxTurns,
                              slow : BOOLEAN, late : BOOLEAN]]
    /\ threads \in 0 .. MaxThreads
    /\ turns \in Seq([thread : 1 .. MaxThreads, status : {"running", "done", "stopped"}])
    /\ age \in 0 .. Budget /\ faults \in 0 .. MaxFaults

\* The request is worked on by at most one native turn at a time, and all its turns are on
\* one thread, so that no attempt repeats work another has begun: take-overs, lost answers
\* of the backend and interrupted saves included.
OneTurnAtATime ==
    \A i, j \in DOMAIN turns :
        /\ turns[i].thread = turns[j].thread
        /\ turns[i].status = "running" /\ turns[j].status = "running" => i = j

\* A completed checkpoint holds the answer of the last turn, and that turn has ended.
AnswerOfLastTurn ==
    saved.state = "completed" =>
        saved.receipt = Len(turns) /\ turns[saved.receipt].status = "done"

\* The row keeps its type, its checkpoint agrees with the native turns, and no attempt
\* starts a turn beside or away from the one it should continue.
CheckpointConsistent == TypeOK /\ AnswerOfLastTurn /\ OneTurnAtATime

\* "retries of setup failures must not receive another ten minutes": no turn is started
\* later than the total budget after a native thread was first opened.
BudgetIsTotal == [][Len(turns') > Len(turns) => age < Budget]_vars

\* Every request comes to a final checkpoint as long as the event is redelivered.
EventuallyFinal == saved.state # "none" ~> saved.state \in Final

=============================================================================
