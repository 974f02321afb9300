--------------------------- MODULE PlannerDispatch ---------------------------
(***************************************************************************)
(* One planner turn for one source event: run_planner_dispatch_turn and    *)
(* run_planner_turn (runtime/planner.py) over the receipt of the event     *)
(* (decisions/receipt_store.py) and the planner runs (runs/store.py).      *)
(*                                                                         *)
(* The event may be delivered to any worker, at any time and again after a *)
(* turn has ended.  A worker plans with the model and prompt version it    *)
(* was deployed with, its version; there is one run per version and one    *)
(* receipt.  Two leases fence a turn: the receipt's and the run's.  Every  *)
(* store operation is one transaction and one action; between two of them  *)
(* anything may happen.  The answer of the model is any decision.          *)
(***************************************************************************)
EXTENDS Naturals, FiniteSets

CONSTANTS Workers, Versions, Decisions,
          Version,       \* the version each worker is deployed with
          StaleSeconds,  \* stale_after_s of both leases
          MaxFaults,     \* bound on crashes, exceptions and overrun leases
          None

ASSUME PlannerAssumption ==
    /\ IsFiniteSet(Workers) /\ IsFiniteSet(Versions)
    /\ Version \in [Workers -> Versions]
    /\ StaleSeconds \in Nat \ {0}
    /\ MaxFaults \in Nat
    /\ None \notin Decisions \cup Versions

VARIABLES
    receipt,   \* row of decision_dispatches for the event
    run,       \* rows of agent_runs, by version
    stage,     \* where each worker is in its turn
    lease,     \* the receipt token each worker holds
    runLease,  \* the run token each worker holds
    decision,  \* the decision each worker has in memory
    effects,   \* decisions whose effect has been inserted
    faults

workerVars == <<stage, lease, runLease, decision>>
vars == <<receipt, run, workerVars, effects, faults>>

Stages == {"idle", "planning", "asking", "finalizing", "failing", "accepting",
           "dispatching", "completing", "releasing"}

\* Tokens are uuid4: a new one differs from every token in use.  Zero is NULL.
Tokens == 0 .. 4 * Cardinality(Workers) + Cardinality(Versions)

FreshToken == CHOOSE t \in Tokens \ {0} :
    /\ t # receipt.token
    /\ \A v \in Versions : run[v].token # t
    /\ \A w \in Workers : lease[w] # t /\ runLease[w] # t

Init ==
    /\ receipt = [status |-> "absent", token |-> 0, left |-> 0,
                  version |-> None, decision |-> None]
    /\ run = [v \in Versions |->
                [status |-> "absent", token |-> 0, left |-> 0, output |-> None]]
    /\ stage = [w \in Workers |-> "idle"]
    /\ lease = [w \in Workers |-> 0]
    /\ runLease = [w \in Workers |-> 0]
    /\ decision = [w \in Workers |-> None]
    /\ effects = {}
    /\ faults = 0

\* The worker forgets the turn: it returned, raised or disappeared.
Leave(w) ==
    /\ stage' = [stage EXCEPT ![w] = "idle"]
    /\ lease' = [lease EXCEPT ![w] = 0]
    /\ runLease' = [runLease EXCEPT ![w] = 0]
    /\ decision' = [decision EXCEPT ![w] = None]

Goto(w, s) ==
    /\ stage' = [stage EXCEPT ![w] = s]
    /\ UNCHANGED <<lease, runLease>>

----------------------------------------------------------------------------
\* claim_decision_dispatch.  A live lease raises DecisionDispatchInProgressError
\* and a completed receipt is returned as it is; neither changes the state.

\* Mutated form: a lease that ran out is not taken over.
ReceiptFreeReleased == receipt.token = 0

ReceiptFree == receipt.token = 0 \/ receipt.left = 0

NextStage == IF receipt.status = "dispatching" THEN "dispatching" ELSE "planning"

Claim(w) ==
    /\ stage[w] = "idle"
    /\ receipt.status # "completed"
    /\ ReceiptFree
    /\ LET t == FreshToken
       IN  /\ receipt' = [receipt EXCEPT
                 !.status = IF @ = "absent" THEN "planning" ELSE @,
                 !.token = t, !.left = StaleSeconds]
           /\ lease' = [lease EXCEPT ![w] = t]
    /\ stage' = [stage EXCEPT ![w] = NextStage]
    /\ decision' = [decision EXCEPT ![w] = receipt.decision]
    /\ UNCHANGED <<run, runLease, effects, faults>>

----------------------------------------------------------------------------
\* claim_run: a completed run is replayed, a running one that is not stale is
\* left alone (PlannerRunInProgressError), any other is started over.

Replayable(r) == r.status = "completed"

InProgress(r) == r.status = "running" /\ r.left > 0

ClaimRun(w) ==
    LET v == Version[w]
    IN  /\ stage[w] = "planning"
        /\ ~Replayable(run[v]) /\ ~InProgress(run[v])
        /\ run' = [run EXCEPT ![v] = [status |-> "running", token |-> FreshToken,
                                      left |-> StaleSeconds, output |-> None]]
        /\ runLease' = [runLease EXCEPT ![w] = FreshToken]
        /\ stage' = [stage EXCEPT ![w] = "asking"]
        /\ UNCHANGED <<receipt, lease, decision, effects, faults>>

ReplayRun(w) ==
    /\ stage[w] = "planning"
    /\ Replayable(run[Version[w]])
    /\ decision' = [decision EXCEPT ![w] = run[Version[w]].output]
    /\ Goto(w, "accepting")
    /\ UNCHANGED <<receipt, run, effects, faults>>

RunInProgress(w) ==
    /\ stage[w] = "planning"
    /\ InProgress(run[Version[w]])
    /\ Goto(w, "releasing")
    /\ UNCHANGED <<receipt, run, decision, effects, faults>>

HoldsRun(w) ==
    /\ run[Version[w]].status = "running"
    /\ run[Version[w]].token = runLease[w]

\* A checkpoint saved by the model's journal; it also renews the run's lease.
SaveCheckpoint(w) ==
    /\ stage[w] = "asking"
    /\ IF HoldsRun(w)
       THEN /\ run' = [run EXCEPT ![Version[w]].left = StaleSeconds]
            /\ UNCHANGED stage
       ELSE /\ stage' = [stage EXCEPT ![w] = "releasing"]
            /\ UNCHANGED run
    /\ UNCHANGED <<receipt, lease, runLease, decision, effects, faults>>

Answer(w) ==
    /\ stage[w] = "asking"
    /\ \E d \in Decisions : decision' = [decision EXCEPT ![w] = d]
    /\ Goto(w, "finalizing")
    /\ UNCHANGED <<receipt, run, effects, faults>>

\* Routing, context building, the model or the parser raises.
AskFails(w) ==
    /\ stage[w] = "asking"
    /\ faults < MaxFaults
    /\ faults' = faults + 1
    /\ Goto(w, "failing")
    /\ UNCHANGED <<receipt, run, decision, effects>>

\* Mutated form: finalize_run does not look at the lease.
FinalizedUnfenced(w, status, output) ==
    run' = [run EXCEPT ![Version[w]] =
              [status |-> status, token |-> 0, left |-> 0, output |-> output]]

Finalized(w, status, output) ==
    run' = IF HoldsRun(w)
           THEN [run EXCEPT ![Version[w]] =
                   [status |-> status, token |-> 0, left |-> 0, output |-> output]]
           ELSE run

\* finalize_run(completed); a lost lease raises PlannerRunLeaseLostError.
Finalize(w) ==
    /\ stage[w] = "finalizing"
    /\ Finalized(w, "completed", decision[w])
    /\ Goto(w, IF HoldsRun(w) THEN "accepting" ELSE "releasing")
    /\ UNCHANGED <<receipt, decision, effects, faults>>

\* finalize_run(failed), then the exception goes on.
FinalizeFailed(w) ==
    /\ stage[w] = "failing"
    /\ Finalized(w, "failed", None)
    /\ Goto(w, "releasing")
    /\ UNCHANGED <<receipt, decision, effects, faults>>

----------------------------------------------------------------------------
\* accept, dispatch, complete, release.

HoldsReceipt(w) == receipt.token = lease[w]

\* Mutated form: whether the decision was accepted is not looked at.
AcceptUnchecked(w) ==
    /\ stage[w] = "accepting"
    /\ receipt' = IF receipt.status = "planning" /\ HoldsReceipt(w)
                  THEN [receipt EXCEPT !.status = "dispatching",
                          !.version = Version[w], !.decision = decision[w]]
                  ELSE receipt
    /\ Goto(w, "dispatching")
    /\ UNCHANGED <<run, decision, effects, faults>>

Accept(w) ==
    /\ stage[w] = "accepting"
    /\ IF receipt.status = "planning" /\ HoldsReceipt(w)
       THEN /\ receipt' = [receipt EXCEPT !.status = "dispatching",
                             !.version = Version[w], !.decision = decision[w]]
            /\ Goto(w, "dispatching")
            /\ UNCHANGED decision
       ELSE /\ Leave(w)
            /\ UNCHANGED receipt
    /\ UNCHANGED <<run, effects, faults>>

\* The handler inserts its effect under a key made from the event, so doing it
\* again changes nothing.
Dispatch(w) ==
    /\ stage[w] = "dispatching"
    /\ effects' = effects \cup {decision[w]}
    /\ Goto(w, "completing")
    /\ UNCHANGED <<receipt, run, decision, faults>>

\* The handler raises, before or after the effect has been committed.
DispatchFails(w) ==
    /\ stage[w] = "dispatching"
    /\ faults < MaxFaults
    /\ faults' = faults + 1
    /\ effects' \in {effects, effects \cup {decision[w]}}
    /\ Goto(w, "releasing")
    /\ UNCHANGED <<receipt, run, decision>>

Complete(w) ==
    /\ stage[w] = "completing"
    /\ receipt' = IF receipt.status = "dispatching" /\ HoldsReceipt(w)
                  THEN [receipt EXCEPT !.status = "completed", !.token = 0, !.left = 0]
                  ELSE receipt
    /\ Leave(w)
    /\ UNCHANGED <<run, effects, faults>>

Release(w) ==
    /\ stage[w] = "releasing"
    /\ receipt' = IF receipt.status \in {"planning", "dispatching"} /\ HoldsReceipt(w)
                  THEN [receipt EXCEPT !.token = 0, !.left = 0]
                  ELSE receipt
    /\ Leave(w)
    /\ UNCHANGED <<run, effects, faults>>

----------------------------------------------------------------------------
\* The process disappears; its rows stay as they are.
Crash(w) ==
    /\ stage[w] # "idle"
    /\ faults < MaxFaults
    /\ faults' = faults + 1
    /\ Leave(w)
    /\ UNCHANGED <<receipt, run, effects>>

Countdown(n) == IF n = 0 THEN 0 ELSE n - 1

\* A lease a worker is still using runs out.  stale_after_s exceeds the model's
\* timeout by thirty seconds, so this is an exception, not the rule.
Overruns ==
    \E w \in Workers :
        \/ stage[w] # "idle" /\ HoldsReceipt(w) /\ receipt.left = 1
        \/ stage[w] \in {"asking", "finalizing", "failing"} /\ HoldsRun(w)
             /\ run[Version[w]].left = 1

Tick ==
    /\ receipt.left > 0 \/ \E v \in Versions : run[v].left > 0
    /\ Overruns => faults < MaxFaults
    /\ faults' = IF Overruns THEN faults + 1 ELSE faults
    /\ receipt' = [receipt EXCEPT !.left = Countdown(@)]
    /\ run' = [v \in Versions |-> [run[v] EXCEPT !.left = Countdown(@)]]
    /\ UNCHANGED <<workerVars, effects>>

\* The event is redelivered and there is nothing to do.
Redelivered(w) ==
    /\ stage[w] = "idle"
    /\ receipt.status = "completed" \/ ~ReceiptFree
    /\ UNCHANGED vars

Turn(w) ==
    \/ ClaimRun(w) \/ ReplayRun(w) \/ RunInProgress(w)
    \/ Answer(w) \/ AskFails(w) \/ Finalize(w) \/ FinalizeFailed(w)
    \/ Accept(w) \/ Dispatch(w) \/ DispatchFails(w) \/ Complete(w) \/ Release(w)

Next ==
    \/ \E w \in Workers :
         Claim(w) \/ Redelivered(w) \/ Turn(w) \/ SaveCheckpoint(w) \/ Crash(w)
    \/ Tick

Spec == Init /\ [][Next]_vars

\* The queue redelivers the event until a turn returns, a turn that was begun goes on,
\* and time passes (the queue waits between two deliveries).
FairSpec ==
    /\ Spec
    /\ SF_vars(Tick)
    /\ \A w \in Workers : WF_vars(Claim(w)) /\ WF_vars(Turn(w))

----------------------------------------------------------------------------
\* Properties.

TypeOK ==
    /\ receipt \in [status : {"absent", "planning", "dispatching", "completed"},
                    token : Tokens, left : 0 .. StaleSeconds,
                    version : Versions \cup {None}, decision : Decisions \cup {None}]
    /\ run \in [Versions -> [status : {"absent", "running", "completed", "failed"},
                             token : Tokens, left : 0 .. StaleSeconds,
                             output : Decisions \cup {None}]]
    /\ stage \in [Workers -> Stages]
    /\ lease \in [Workers -> Tokens] /\ runLease \in [Workers -> Tokens]
    /\ decision \in [Workers -> Decisions \cup {None}]
    /\ effects \subseteq Decisions
    /\ faults \in 0 .. MaxFaults

\* "Accept and dispatch at most one planner decision for one source event", whatever the
\* models of overlapping turns and of different versions answer: every effect is that of
\* the accepted decision.
OneDecisionPerEvent == effects \subseteq {receipt.decision}

\* The receipt can be trusted: an accepted decision is the stored output of the completed
\* run it names, and a completed receipt has its effect.
ReceiptBacked ==
    /\ receipt.status \in {"dispatching", "completed"} =>
         run[receipt.version].status = "completed" /\ run[receipt.version].output = receipt.decision
    /\ receipt.status = "completed" => receipt.decision \in effects

\* The rows keep their types, there is one decision per event, and the receipt agrees
\* with the runs and the effects.
RowsConsistent == TypeOK /\ OneDecisionPerEvent /\ ReceiptBacked

\* What has been stored as an answer or accepted is never replaced: a completed run keeps
\* its output and a receipt its decision through take-overs, retries and late writers.
AnswersAreFinal ==
    [][ /\ \A v \in Versions : run[v].status = "completed" => run'[v] = run[v]
        /\ receipt.decision # None => receipt'.decision = receipt.decision
        /\ receipt.status = "completed" => receipt' = receipt ]_vars

\* A turn that was begun is completed, although workers crash, the model fails and leases
\* run out under their holders finitely often.
EventuallyCompleted == receipt.status = "planning" ~> receipt.status = "completed"

=============================================================================
