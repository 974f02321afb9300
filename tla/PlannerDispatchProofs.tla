------------------------ MODULE PlannerDispatchProofs ------------------------
(***************************************************************************)
(* Proofs about PlannerDispatch, for any number of workers, versions and   *)
(* decisions, any lease time and any number of faults; and about Batching, *)
(* which hands it the messages of a conversation.                          *)
(***************************************************************************)
EXTENDS PlannerDispatch, FiniteSetTheorems, TLAPS

\* A stored answer is a decision, and nobody leases its run.
RunInv == \A v \in Versions :
    run[v].status = "completed" => run[v].output \in Decisions /\ run[v].left = 0

\* What a worker has in memory at each stage of its turn.  A worker that is about to
\* have its decision accepted has the stored answer of its run; one that dispatches or
\* completes has the accepted decision, whether or not it still holds the lease.
WorkerInv == \A w \in Workers :
    /\ stage[w] = "finalizing" => decision[w] \in Decisions
    /\ stage[w] = "accepting" =>
         run[Version[w]].status = "completed" /\ run[Version[w]].output = decision[w]
    /\ stage[w] \in {"dispatching", "completing"} =>
         /\ receipt.status \in {"dispatching", "completed"}
         /\ decision[w] = receipt.decision
    /\ stage[w] = "completing" => decision[w] \in effects

\* Nothing has happened before a decision is accepted; an accepted one is backed by the
\* run it names, and the only one with an effect.
ReceiptInv ==
    /\ receipt.status \in {"absent", "planning"} =>
         receipt.decision = None /\ effects = {}
    /\ receipt.status \in {"dispatching", "completed"} =>
         /\ receipt.version \in Versions
         /\ receipt.decision \in Decisions
         /\ run[receipt.version].status = "completed"
         /\ run[receipt.version].output = receipt.decision
         /\ effects \subseteq {receipt.decision}
    /\ receipt.status = "completed" =>
         receipt.decision \in effects /\ receipt.left = 0

IInv == TypeOK /\ RunInv /\ WorkerInv /\ ReceiptInv

----------------------------------------------------------------------------
\* Tokens are drawn from a range wide enough that one is always unused: the receipt and
\* the runs hold one each and every worker at most two.

LEMMA ImageSize ==
    ASSUME NEW S, IsFiniteSet(S), NEW f
    PROVE  /\ IsFiniteSet({f[x] : x \in S})
           /\ Cardinality({f[x] : x \in S}) <= Cardinality(S)
<1>. DEFINE g == [x \in S |-> f[x]]
            T == {f[x] : x \in S}
<1>1. g \in Surjection(S, T)
  BY DEF Surjection
<1>. HIDE DEF g, T
<1>2. IsFiniteSet(T) /\ Cardinality(T) <= Cardinality(S)
  BY <1>1, FS_Surjection
<1>. QED  BY <1>2 DEF T

LEMMA FreshTokenIsToken ==
    ASSUME TypeOK, NEW w \in Workers
    PROVE  FreshToken \in Tokens
<1>. DEFINE nW == Cardinality(Workers)
            nV == Cardinality(Versions)
            R == {run[v].token : v \in Versions}
            L == {lease[x] : x \in Workers}
            K == {runLease[x] : x \in Workers}
            Free == 1 .. 4 * nW + nV
<1>1. IsFiniteSet(Workers) /\ IsFiniteSet(Versions) /\ nW \in Nat /\ nV \in Nat
  BY PlannerAssumption, FS_CardinalityType
<1>2. nW # 0
  BY <1>1, FS_EmptySet
<1>3. IsFiniteSet(R) /\ Cardinality(R) <= nV
  <2>. DEFINE token == [v \in Versions |-> run[v].token]
  <2>1. R = {token[v] : v \in Versions}
    OBVIOUS
  <2>. HIDE DEF token, R
  <2>. QED  BY <1>1, <2>1, ImageSize
<1>4. IsFiniteSet(L) /\ Cardinality(L) <= nW
  BY <1>1, ImageSize
<1>5. IsFiniteSet(K) /\ Cardinality(K) <= nW
  BY <1>1, ImageSize
<1>. DEFINE U == {receipt.token} \cup (R \cup (L \cup K))
<1>. HIDE DEF R, L, K, nW, nV
<1>6. /\ Cardinality(R) \in Nat /\ Cardinality(L) \in Nat /\ Cardinality(K) \in Nat
  BY <1>3, <1>4, <1>5, FS_CardinalityType
<1>7. IsFiniteSet(L \cup K) /\ Cardinality(L \cup K) <= 2 * nW /\ Cardinality(L \cup K) \in Nat
  <2>1. /\ IsFiniteSet(L \cup K)
        /\ Cardinality(L \cup K) = Cardinality(L) + Cardinality(K) - Cardinality(L \cap K)
    BY <1>4, <1>5, FS_Union
  <2>2. Cardinality(L \cap K) \in Nat
    BY <1>4, FS_Intersection, FS_CardinalityType
  <2>. QED  BY <1>1, <1>4, <1>5, <1>6, <2>1, <2>2, FS_CardinalityType
<1>8. /\ IsFiniteSet(R \cup (L \cup K))
      /\ Cardinality(R \cup (L \cup K)) <= nV + 2 * nW
      /\ Cardinality(R \cup (L \cup K)) \in Nat
  <2>1. /\ IsFiniteSet(R \cup (L \cup K))
        /\ Cardinality(R \cup (L \cup K))
             = Cardinality(R) + Cardinality(L \cup K) - Cardinality(R \cap (L \cup K))
    BY <1>3, <1>7, FS_Union
  <2>2. Cardinality(R \cap (L \cup K)) \in Nat
    BY <1>3, FS_Intersection, FS_CardinalityType
  <2>. QED  BY <1>1, <1>3, <1>6, <1>7, <2>1, <2>2, FS_CardinalityType
<1>9. IsFiniteSet(U) /\ Cardinality(U) <= nV + 2 * nW + 1 /\ Cardinality(U) \in Nat
  <2>1. /\ IsFiniteSet((R \cup (L \cup K)) \cup {receipt.token})
        /\ Cardinality((R \cup (L \cup K)) \cup {receipt.token})
             <= Cardinality(R \cup (L \cup K)) + 1
    BY <1>8, FS_AddElement
  <2>2. U = (R \cup (L \cup K)) \cup {receipt.token}
    OBVIOUS
  <2>3. Cardinality(U) \in Nat
    BY <2>1, <2>2, FS_CardinalityType
  <2>. HIDE DEF U
  <2>. QED  BY <1>1, <1>8, <2>1, <2>2, <2>3
<1>. HIDE DEF U
<1>10. IsFiniteSet(Free) /\ Cardinality(Free) = 4 * nW + nV
  <2>1. 1 \in Int /\ 4 * nW + nV \in Int /\ ~(1 > 4 * nW + nV)
    BY <1>1, <1>2
  <2>2. IsFiniteSet(Free) /\ Cardinality(Free) = (4 * nW + nV) - 1 + 1
    BY <2>1, FS_Interval
  <2>. QED  BY <2>1, <2>2
<1>11. \E t \in Free : t \notin U
  <2>1. SUFFICES ASSUME Free \subseteq U PROVE FALSE
    OBVIOUS
  <2>2. Cardinality(Free) <= Cardinality(U)
    BY <1>9, <2>1, FS_Subset
  <2>. QED  BY <1>1, <1>2, <1>9, <1>10, <2>2
<1>12. Free = Tokens \ {0}
  BY <1>1 DEF Tokens, nW, nV
<1>13. \E t \in Tokens \ {0} :
         /\ t # receipt.token
         /\ \A v \in Versions : run[v].token # t
         /\ \A x \in Workers : lease[x] # t /\ runLease[x] # t
  BY <1>11, <1>12 DEF U, R, L, K
<1>. QED  BY <1>13 DEF FreshToken

----------------------------------------------------------------------------
\* The invariant holds initially and is preserved by every action.

LEMMA InitInv == Init => IInv
<1>. SUFFICES ASSUME Init PROVE IInv
  OBVIOUS
<1>1. 0 \in Tokens
  BY PlannerAssumption, FS_CardinalityType DEF Tokens
<1>2. TypeOK
  BY <1>1, PlannerAssumption DEF Init, TypeOK, Stages
<1>. QED  BY <1>2 DEF Init, IInv, RunInv, WorkerInv, ReceiptInv

LEMMA NextInv ==
    ASSUME IInv, Next
    PROVE  IInv'
<1>. USE PlannerAssumption DEF IInv
<1>. StaleSeconds \in 0 .. StaleSeconds /\ 0 \in 0 .. StaleSeconds
  OBVIOUS
<1>0. 0 \in Tokens
  BY FS_CardinalityType DEF Tokens
<1>1. ASSUME NEW w \in Workers, Claim(w) PROVE IInv'
  <2>1. FreshToken \in Tokens
    BY FreshTokenIsToken
  <2>2. TypeOK'
    BY <1>1, <2>1 DEF Claim, NextStage, TypeOK, Stages
  <2>3. RunInv'
    BY <1>1 DEF Claim, RunInv
  <2>4. WorkerInv'
    BY <1>1 DEF Claim, NextStage, WorkerInv, TypeOK, ReceiptInv
  <2>5. ReceiptInv'
    BY <1>1 DEF Claim, ReceiptInv, TypeOK
  <2>. QED  BY <2>2, <2>3, <2>4, <2>5
<1>2. ASSUME NEW w \in Workers, ClaimRun(w) PROVE IInv'
  <2>1. FreshToken \in Tokens
    BY FreshTokenIsToken
  <2>2. TypeOK'
    BY <1>2, <2>1 DEF ClaimRun, TypeOK, Stages
  <2>3. RunInv'
    BY <1>2 DEF ClaimRun, RunInv, TypeOK
  <2>4. WorkerInv'
    BY <1>2 DEF ClaimRun, Replayable, WorkerInv, TypeOK
  <2>5. ReceiptInv'
    BY <1>2 DEF ClaimRun, Replayable, ReceiptInv, TypeOK
  <2>. QED  BY <2>2, <2>3, <2>4, <2>5
<1>3. ASSUME NEW w \in Workers, ReplayRun(w) PROVE IInv'
  BY <1>3 DEF ReplayRun, Goto, Replayable, TypeOK, Stages, RunInv, WorkerInv, ReceiptInv
<1>4. ASSUME NEW w \in Workers, RunInProgress(w) PROVE IInv'
  BY <1>4 DEF RunInProgress, Goto, TypeOK, Stages, RunInv, WorkerInv, ReceiptInv
<1>5. ASSUME NEW w \in Workers, SaveCheckpoint(w) PROVE IInv'
  <2>1. CASE HoldsRun(w)
    <3>1. TypeOK'
      BY <1>5, <2>1 DEF SaveCheckpoint, TypeOK
    <3>2. \A v \in Versions :
            /\ run'[v].status = run[v].status /\ run'[v].output = run[v].output
            /\ run[v].status = "completed" => run'[v].left = run[v].left
      BY <1>5, <2>1 DEF SaveCheckpoint, HoldsRun, TypeOK
    <3>3. UNCHANGED <<receipt, stage, decision, effects>>
      BY <1>5, <2>1 DEF SaveCheckpoint
    <3>. QED  BY <3>1, <3>2, <3>3 DEF RunInv, WorkerInv, ReceiptInv
  <2>2. CASE ~HoldsRun(w)
    <3>1. /\ stage' = [stage EXCEPT ![w] = "releasing"]
          /\ UNCHANGED <<receipt, run, lease, runLease, decision, effects, faults>>
      BY <1>5, <2>2 DEF SaveCheckpoint
    <3>. QED  BY <3>1 DEF TypeOK, Stages, RunInv, WorkerInv, ReceiptInv
  <2>. QED  BY <2>1, <2>2
<1>6. ASSUME NEW w \in Workers, Answer(w) PROVE IInv'
  <2>1. PICK d \in Decisions : decision' = [decision EXCEPT ![w] = d]
    BY <1>6 DEF Answer
  <2>. QED  BY <1>6, <2>1 DEF Answer, Goto, TypeOK, Stages, RunInv, WorkerInv, ReceiptInv
<1>7. ASSUME NEW w \in Workers, AskFails(w) PROVE IInv'
  BY <1>7 DEF AskFails, Goto, TypeOK, Stages, RunInv, WorkerInv, ReceiptInv
<1>8. ASSUME NEW w \in Workers, Finalize(w) PROVE IInv'
  <2>1. CASE HoldsRun(w)
    <3>1. /\ run' = [run EXCEPT ![Version[w]] = [status |-> "completed", token |-> 0,
                                                left |-> 0, output |-> decision[w]]]
          /\ stage' = [stage EXCEPT ![w] = "accepting"]
          /\ UNCHANGED <<receipt, lease, runLease, decision, effects, faults>>
          /\ decision[w] \in Decisions
          /\ run[Version[w]].status = "running"
      BY <1>8, <2>1 DEF Finalize, Finalized, Goto, HoldsRun, WorkerInv
    <3>2. TypeOK'
      BY <1>0, <3>1 DEF TypeOK, Stages
    <3>3. RunInv'
      BY <3>1 DEF RunInv, TypeOK
    <3>4. WorkerInv'
      BY <3>1 DEF WorkerInv, TypeOK
    <3>5. ReceiptInv'
      BY <3>1 DEF ReceiptInv, TypeOK
    <3>. QED  BY <3>2, <3>3, <3>4, <3>5
  <2>2. CASE ~HoldsRun(w)
    BY <1>8, <2>2 DEF Finalize, Finalized, Goto, TypeOK, Stages, RunInv, WorkerInv, ReceiptInv
  <2>. QED  BY <2>1, <2>2
<1>9. ASSUME NEW w \in Workers, FinalizeFailed(w) PROVE IInv'
  <2>1. CASE HoldsRun(w)
    <3>1. /\ run' = [run EXCEPT ![Version[w]] = [status |-> "failed", token |-> 0,
                                                left |-> 0, output |-> None]]
          /\ stage' = [stage EXCEPT ![w] = "releasing"]
          /\ UNCHANGED <<receipt, lease, runLease, decision, effects, faults>>
          /\ run[Version[w]].status = "running"
      BY <1>9, <2>1 DEF FinalizeFailed, Finalized, Goto, HoldsRun
    <3>2. TypeOK'
      BY <1>0, <3>1 DEF TypeOK, Stages
    <3>3. RunInv'
      BY <3>1 DEF RunInv, TypeOK
    <3>4. WorkerInv'
      BY <3>1 DEF WorkerInv, TypeOK
    <3>5. ReceiptInv'
      BY <3>1 DEF ReceiptInv, TypeOK
    <3>. QED  BY <3>2, <3>3, <3>4, <3>5
  <2>2. CASE ~HoldsRun(w)
    BY <1>9, <2>2 DEF FinalizeFailed, Finalized, Goto, TypeOK, Stages, RunInv, WorkerInv, ReceiptInv
  <2>. QED  BY <2>1, <2>2
<1>10. ASSUME NEW w \in Workers, Accept(w) PROVE IInv'
  <2>1. CASE receipt.status = "planning" /\ HoldsReceipt(w)
    <3>1. /\ receipt' = [receipt EXCEPT !.status = "dispatching",
                           !.version = Version[w], !.decision = decision[w]]
          /\ stage' = [stage EXCEPT ![w] = "dispatching"]
          /\ UNCHANGED <<run, lease, runLease, decision, effects, faults>>
          /\ run[Version[w]].status = "completed" /\ run[Version[w]].output = decision[w]
          /\ decision[w] \in Decisions
          /\ effects = {}
      BY <1>10, <2>1 DEF Accept, Goto, WorkerInv, RunInv, ReceiptInv
    <3>2. TypeOK'
      BY <3>1 DEF TypeOK, Stages
    <3>3. RunInv'
      BY <3>1 DEF RunInv
    <3>4. WorkerInv'
      BY <2>1, <3>1 DEF WorkerInv, TypeOK
    <3>5. ReceiptInv'
      BY <3>1 DEF ReceiptInv, TypeOK
    <3>. QED  BY <3>2, <3>3, <3>4, <3>5
  <2>2. CASE ~(receipt.status = "planning" /\ HoldsReceipt(w))
    <3>1. Leave(w) /\ UNCHANGED <<receipt, run, effects, faults>>
      BY <1>10, <2>2 DEF Accept
    <3>. QED  BY <1>0, <3>1 DEF Leave, TypeOK, Stages, RunInv, WorkerInv, ReceiptInv
  <2>. QED  BY <2>1, <2>2
<1>11. ASSUME NEW w \in Workers, Dispatch(w) PROVE IInv'
  BY <1>11 DEF Dispatch, Goto, TypeOK, Stages, RunInv, WorkerInv, ReceiptInv
<1>12. ASSUME NEW w \in Workers, DispatchFails(w) PROVE IInv'
  BY <1>12 DEF DispatchFails, Goto, TypeOK, Stages, RunInv, WorkerInv, ReceiptInv
<1>13. ASSUME NEW w \in Workers, Complete(w) PROVE IInv'
  <2>1. CASE receipt.status = "dispatching" /\ HoldsReceipt(w)
    <3>1. /\ receipt' = [receipt EXCEPT !.status = "completed", !.token = 0, !.left = 0]
          /\ Leave(w)
          /\ UNCHANGED <<run, effects, faults>>
          /\ receipt.decision \in effects
      BY <1>13, <2>1 DEF Complete, WorkerInv
    <3>2. TypeOK'
      BY <1>0, <3>1 DEF Leave, TypeOK, Stages
    <3>3. RunInv'
      BY <3>1 DEF RunInv
    <3>4. WorkerInv'
      BY <3>1 DEF Leave, WorkerInv, TypeOK
    <3>5. ReceiptInv'
      BY <2>1, <3>1 DEF ReceiptInv, TypeOK
    <3>. QED  BY <3>2, <3>3, <3>4, <3>5
  <2>2. CASE ~(receipt.status = "dispatching" /\ HoldsReceipt(w))
    BY <1>0, <1>13, <2>2 DEF Complete, Leave, TypeOK, Stages, RunInv, WorkerInv, ReceiptInv
  <2>. QED  BY <2>1, <2>2
<1>14. ASSUME NEW w \in Workers, Release(w) PROVE IInv'
  <2>1. /\ receipt' \in {receipt, [receipt EXCEPT !.token = 0, !.left = 0]}
        /\ Leave(w)
        /\ UNCHANGED <<run, effects, faults>>
    BY <1>14 DEF Release
  <2>2. TypeOK'
    BY <1>0, <2>1 DEF Leave, TypeOK, Stages
  <2>3. RunInv'
    BY <2>1 DEF RunInv
  <2>4. WorkerInv'
    <3>1. receipt'.status = receipt.status /\ receipt'.decision = receipt.decision
      BY <2>1 DEF TypeOK
    <3>. QED  BY <2>1, <3>1 DEF Leave, WorkerInv, TypeOK
  <2>5. ReceiptInv'
    BY <2>1 DEF ReceiptInv, TypeOK
  <2>. QED  BY <2>2, <2>3, <2>4, <2>5
<1>15. ASSUME NEW w \in Workers, Crash(w) PROVE IInv'
  BY <1>0, <1>15 DEF Crash, Leave, TypeOK, Stages, RunInv, WorkerInv, ReceiptInv
<1>16. ASSUME Tick PROVE IInv'
  <2>1. \A n \in 0 .. StaleSeconds : Countdown(n) \in 0 .. StaleSeconds
    BY DEF Countdown
  <2>2. faults' \in 0 .. MaxFaults
    BY <1>16 DEF Tick, TypeOK
  <2>3. TypeOK'
    BY <1>16, <2>1, <2>2, ZenonT(40) DEF Tick, TypeOK, workerVars
  <2>4. /\ \A v \in Versions :
             /\ run'[v].status = run[v].status /\ run'[v].output = run[v].output
             /\ run[v].left = 0 => run'[v].left = 0
        /\ receipt'.status = receipt.status /\ receipt'.decision = receipt.decision
        /\ receipt'.version = receipt.version
        /\ receipt.left = 0 => receipt'.left = 0
        /\ UNCHANGED <<stage, decision, effects>>
    BY <1>16 DEF Tick, TypeOK, workerVars, Countdown
  <2>. QED  BY <2>3, <2>4 DEF RunInv, WorkerInv, ReceiptInv
<1>17. ASSUME UNCHANGED vars PROVE IInv'
  BY <1>17 DEF vars, workerVars, TypeOK, RunInv, WorkerInv, ReceiptInv
<1>. QED
  BY <1>1, <1>2, <1>3, <1>4, <1>5, <1>6, <1>7, <1>8, <1>9, <1>10, <1>11, <1>12, <1>13,
     <1>14, <1>15, <1>16, <1>17 DEF Next, Turn, Redelivered

----------------------------------------------------------------------------
\* Results.

LEMMA Inductive == Spec => []IInv
<1>1. IInv /\ [Next]_vars => IInv'
  <2>1. CASE UNCHANGED vars
    BY <2>1 DEF vars, workerVars, IInv, TypeOK, RunInv, WorkerInv, ReceiptInv
  <2>. QED  BY <2>1, NextInv
<1>. QED  BY <1>1, InitInv, PTL DEF Spec

\* The rows keep their types, at most one decision of the event takes effect, and the
\* receipt agrees with the runs and the effects, however many workers of however many
\* deployed versions run_planner_dispatch_turn for the event and wherever they stop.
THEOREM OneDecision == Spec => []RowsConsistent
<1>1. IInv => RowsConsistent
  BY DEF IInv, TypeOK, ReceiptInv, RowsConsistent, OneDecisionPerEvent, ReceiptBacked
<1>. QED  BY <1>1, Inductive, PTL

\* Stored answers and accepted decisions are never replaced: neither finalize_run nor
\* accept_decision_dispatch of a worker that lost its lease, nor claim_run or a new claim
\* of the receipt, changes a completed run, an accepted decision or a completed receipt.
THEOREM Final == Spec => AnswersAreFinal
<1>. DEFINE Kept == /\ \A v \in Versions : run[v].status = "completed" => run'[v] = run[v]
                    /\ receipt.decision # None => receipt'.decision = receipt.decision
                    /\ receipt.status = "completed" => receipt' = receipt
<1>1. ASSUME IInv, [Next]_vars PROVE [Kept]_vars
  <2>. USE <1>1, PlannerAssumption DEF IInv
  <2>1. ASSUME NEW w \in Workers, Claim(w) PROVE Kept
    BY <2>1 DEF Claim, TypeOK
  <2>2. ASSUME NEW w \in Workers, ClaimRun(w) PROVE Kept
    BY <2>2 DEF ClaimRun, Replayable, TypeOK
  <2>3. ASSUME NEW w \in Workers, SaveCheckpoint(w) PROVE Kept
    BY <2>3 DEF SaveCheckpoint, HoldsRun, TypeOK
  <2>4. ASSUME NEW w \in Workers, Finalize(w) \/ FinalizeFailed(w) PROVE Kept
    BY <2>4 DEF Finalize, FinalizeFailed, Finalized, HoldsRun, TypeOK
  <2>5. ASSUME NEW w \in Workers, Accept(w) PROVE Kept
    BY <2>5 DEF Accept, ReceiptInv, TypeOK
  <2>6. ASSUME NEW w \in Workers, Complete(w) \/ Release(w) PROVE Kept
    BY <2>6 DEF Complete, Release, TypeOK
  <2>7. ASSUME Tick PROVE Kept
    BY <2>7 DEF Tick, Countdown, TypeOK, ReceiptInv, RunInv
  <2>8. ASSUME NEW w \in Workers,
               \/ ReplayRun(w) \/ RunInProgress(w) \/ Answer(w) \/ AskFails(w)
               \/ Dispatch(w) \/ DispatchFails(w) \/ Crash(w) \/ Redelivered(w)
        PROVE  Kept
    BY <2>8 DEF ReplayRun, RunInProgress, Answer, AskFails, Dispatch, DispatchFails,
       Crash, Redelivered, vars
  <2>. HIDE DEF Kept
  <2>. QED  BY <2>1, <2>2, <2>3, <2>4, <2>5, <2>6, <2>7, <2>8 DEF Next, Turn
<1>2. IInv /\ [Next]_vars => [Kept]_vars
  BY <1>1
<1>. QED  BY <1>2, Inductive, PTL DEF Spec, AnswersAreFinal

----------------------------------------------------------------------------
\* Batching, for any number of messages and workers, any windows, weights and faults.  Its
\* workers' stage has a name of its own here; None is no batch and no decision.

CONSTANTS Messages, Features, QuietWindow, MaxWindow, MaxCount, RetryBackoff, LastArrival,
          Horizon, MaxAttempts, LeaseSeconds
VARIABLES now, row, cause, at, batch, home, place, ready, batcher, event, token, target, seen, late

B == INSTANCE Batching WITH stage <- batcher

Used == {b \in B!Batches : batch[b].status # "absent"}
BatchRow == [status: {"absent", "collecting", "routed"}, first: Nat, last: Nat]

BatchTypes ==
    /\ now \in Nat /\ at \in [Messages -> Nat]
    /\ batch \in [B!Batches -> BatchRow]
    /\ home \in [Messages -> B!Batches \cup {None}]
    /\ ready \in [B!Batches -> (SUBSET Messages) \cup {None}]

\* Batches are numbered as they are made, each for a message; one that was handed on is
\* closed, and was handed on with its own messages, all that did not arrive late.
BatchOK(b) ==
    /\ batch[b].status # "absent" => \E m \in Messages : home[m] = b
    /\ ready[b] # None => /\ batch[b].status = "routed"
                          /\ \A m \in ready[b] : home[m] = b
                          /\ \A m \in Messages : home[m] = b => m \in ready[b] \/ m \in late

\* What a worker that is to route has read: messages of its batch, all that did not arrive
\* late.
Batcher(st, e, t, s) ==
    /\ st = "append" => e \in Messages
    /\ st \in {"load", "route"} => t \in B!Batches
    /\ st = "route" => /\ s.messages \subseteq Messages /\ \A m \in s.messages : home[m] = t
                       /\ \A m \in Messages : home[m] = t => m \in s.messages \/ m \in late
BatcherTypes ==
    /\ batcher = [w \in Workers |-> batcher[w]] /\ event = [w \in Workers |-> event[w]]
    /\ target = [w \in Workers |-> target[w]] /\ seen = [w \in Workers |-> seen[w]]

BatchInv ==
    /\ BatchTypes /\ BatcherTypes
    /\ Used = 1 .. Cardinality(Used)
    /\ \A b \in B!Batches : BatchOK(b)
    /\ \A w \in Workers : Batcher(batcher[w], event[w], target[w], seen[w])

RouteStep ==
    \A b \in B!Batches :
        /\ ready[b] # None => ready'[b] = ready[b]
        /\ ready[b] = None /\ ready'[b] # None =>
             \A c \in B!Batches : ready[c] # None => ready[c] \cap ready'[b] = {}

BatchFrame == UNCHANGED <<batch, home, ready, late>>

\* The store is left alone, and worker w, if any, goes on.
LEMMA BatchStays ==
    ASSUME BatchInv, BatchFrame, now' \in Nat, at' \in [Messages -> Nat], BatcherTypes',
           \A w \in Workers : Batcher(batcher'[w], event'[w], target'[w], seen'[w])
    PROVE  BatchInv' /\ RouteStep
<1>1. BatchTypes' /\ Used' = Used /\ \A b \in B!Batches : BatchOK(b)'
  BY DEF BatchInv, BatchFrame, BatchTypes, Used, BatchOK
<1>2. ASSUME NEW w \in Workers PROVE Batcher(batcher[w], event[w], target[w], seen[w])'
  BY DEF BatchFrame, Batcher
<1>3. RouteStep
  BY DEF BatchFrame, RouteStep
<1>. QED  BY <1>1, <1>2, <1>3 DEF BatchInv

LEMMA BatcherKept ==
    ASSUME BatchInv, BatchFrame, now' \in Nat, at' \in [Messages -> Nat],
           UNCHANGED <<batcher, event, target, seen>>
    PROVE  BatchInv' /\ RouteStep
BY BatchStays DEF BatchInv, BatcherTypes

LEMMA BatcherMoves ==
    ASSUME BatchInv, BatchFrame, UNCHANGED <<now, at>>, NEW w \in Workers,
           NEW st, NEW e, NEW t, NEW s, Batcher(st, e, t, s),
           batcher' = [batcher EXCEPT ![w] = st], event' = [event EXCEPT ![w] = e],
           target' = [target EXCEPT ![w] = t], seen' = [seen EXCEPT ![w] = s]
    PROVE  BatchInv' /\ RouteStep
<1>1. BatcherTypes'
  BY DEF BatchInv, BatcherTypes
<1>2. ASSUME NEW v \in Workers PROVE Batcher(batcher'[v], event'[v], target'[v], seen'[v])
  <2>1. Batcher(batcher[v], event[v], target[v], seen[v])
    BY DEF BatchInv
  <2>2. CASE v = w
    BY <2>2 DEF BatchInv, BatcherTypes
  <2>3. CASE v # w
    BY <2>1, <2>3 DEF BatchInv, BatcherTypes
  <2>. QED  BY <2>2, <2>3
<1>3. now' \in Nat /\ at' \in [Messages -> Nat]
  BY DEF BatchInv, BatchTypes
<1>. QED  BY <1>1, <1>2, <1>3, BatchStays

LEMMA Unmoved ==
    ASSUME BatchInv, NEW w \in Workers
    PROVE  /\ event = [event EXCEPT ![w] = event[w]] /\ target = [target EXCEPT ![w] = target[w]]
           /\ seen = [seen EXCEPT ![w] = seen[w]] /\ batcher = [batcher EXCEPT ![w] = batcher[w]]
BY DEF BatchInv, BatcherTypes

\* A worker goes on to a stage of which nothing is asked.
LEMMA BatcherRests ==
    ASSUME BatchInv, BatchFrame, UNCHANGED <<now, at>>, NEW w \in Workers,
           NEW st \in {"idle", "retry", "done", "schedule"},
           batcher' = [batcher EXCEPT ![w] = st],
           \/ UNCHANGED <<event, target, seen>>
           \/ \E s : seen' = [seen EXCEPT ![w] = s] /\ UNCHANGED <<event, target>>
           \/ \E e, t, s : /\ event' = [event EXCEPT ![w] = e]
                           /\ target' = [target EXCEPT ![w] = t] /\ seen' = [seen EXCEPT ![w] = s]
    PROVE  BatchInv' /\ RouteStep
<1>1. \A e, t, s : Batcher(st, e, t, s)
  BY DEF Batcher
<1>2. \E e, t, s : /\ event' = [event EXCEPT ![w] = e]
                   /\ target' = [target EXCEPT ![w] = t] /\ seen' = [seen EXCEPT ![w] = s]
  BY Unmoved
<1>. QED  BY <1>1, <1>2, BatcherMoves

LEMMA AwayStep ==
    ASSUME BatchInv, NEW w \in Workers, B!Abandon(w) \/ B!SettleEvent(w) \/ B!Raise(w)
    PROVE  BatchInv' /\ RouteStep
<1>1. CASE B!Abandon(w) \/ B!SettleEvent(w)
  <2>1. /\ BatchFrame /\ UNCHANGED <<now, at>> /\ batcher' = [batcher EXCEPT ![w] = "idle"]
        /\ event' = [event EXCEPT ![w] = None] /\ target' = [target EXCEPT ![w] = None]
        /\ seen' = [seen EXCEPT ![w] = B!NoState]
    BY <1>1 DEF B!Abandon, B!SettleEvent, B!Leave, B!store, BatchFrame
  <2>. QED  BY <2>1, BatcherRests
<1>2. CASE B!Raise(w)
  <2>1. /\ BatchFrame /\ UNCHANGED <<now, at, event, target, seen>>
        /\ batcher' = [batcher EXCEPT ![w] = "retry"]
    BY <1>2 DEF B!Raise, B!store, BatchFrame
  <2>. QED  BY <2>1, BatcherRests
<1>. QED  BY <1>1, <1>2

LEMMA QueueStep ==
    ASSUME BatchInv, B!BatchingAssumption,
           \/ \E m \in Messages : B!Receive(m)
           \/ \E w \in Workers : B!PollNothing(w) \/ B!Heartbeat(w)
           \/ B!Tick
    PROVE  BatchInv' /\ RouteStep
<1>1. BatchFrame /\ UNCHANGED <<batcher, event, target, seen>>
  BY DEF B!Receive, B!PollNothing, B!Heartbeat, B!Tick, B!store, B!worker, BatchFrame
<1>2. now' \in Nat /\ at' \in [Messages -> Nat]
  BY SMT DEF B!Receive, B!PollNothing, B!Heartbeat, B!Tick, BatchInv, BatchTypes
<1>. QED  BY <1>1, <1>2, BatcherKept

LEMMA ClaimStep ==
    ASSUME BatchInv, NEW w \in Workers, NEW e \in B!Events, B!Claim(w, e)
    PROVE  BatchInv' /\ RouteStep
<1>. DEFINE st == IF e \in Messages THEN "append" ELSE "load"
            t == IF e \in Messages THEN None ELSE e[1]
<1>1. /\ BatchFrame /\ UNCHANGED <<now, at, seen>> /\ batcher' = [batcher EXCEPT ![w] = st]
      /\ event' = [event EXCEPT ![w] = e] /\ target' = [target EXCEPT ![w] = t]
  BY DEF B!Claim, B!store, BatchFrame
<1>2. e \notin Messages => e[1] \in B!Batches
  BY DEF B!Events, B!Flushes
<1>3. Batcher(st, e, t, seen[w])
  BY <1>2 DEF Batcher
<1>. HIDE DEF st, t
<1>. QED  BY <1>1, <1>3, Unmoved, BatcherMoves

LEMMA LoadStep ==
    ASSUME BatchInv, NEW w \in Workers, B!LoadState(w)
    PROVE  BatchInv' /\ RouteStep
<1>. DEFINE b == target[w]
            s == B!Loaded(b)
            st == IF B!DecidesFlush(s) THEN "route" ELSE "schedule"
<1>1. BatchFrame /\ UNCHANGED <<now, at, event, target>> /\ batcher[w] = "load"
  BY DEF B!LoadState, B!store, BatchFrame
<1>2. CASE batcher' = [batcher EXCEPT ![w] = "done"] /\ seen' = seen
  BY <1>1, <1>2, BatcherRests
<1>3. CASE seen' = [seen EXCEPT ![w] = s] /\ batcher' = [batcher EXCEPT ![w] = st]
  <2>1. b \in B!Batches
    BY <1>1 DEF BatchInv, Batcher
  <2>2. s.messages = {m \in Messages : home[m] = b}
    BY DEF B!Loaded
  <2>. HIDE DEF s
  <2>3. Batcher(st, event[w], b, s)
    BY <2>1, <2>2 DEF Batcher
  <2>. HIDE DEF st
  <2>. QED  BY <1>1, <1>3, <2>3, Unmoved, BatcherMoves
<1>. QED  BY <1>2, <1>3 DEF B!LoadState

LEMMA ScheduleStep ==
    ASSUME BatchInv, NEW w \in Workers, B!Schedule(w)
    PROVE  BatchInv' /\ RouteStep
<1>1. BatchFrame /\ UNCHANGED <<now, at, event, target, seen>>
  BY DEF B!Schedule, B!store, BatchFrame
<1>2. \E st \in {"done", "retry"} : batcher' = [batcher EXCEPT ![w] = st]
  BY DEF B!Schedule
<1>. QED  BY <1>1, <1>2, BatcherRests

LEMMA RoutingStep ==
    ASSUME BatchInv, NEW w \in Workers, B!Route(w)
    PROVE  BatchInv' /\ RouteStep
<1>. DEFINE b == target[w]
            r == [batch[b] EXCEPT !.status = "routed"]
<1>1. /\ UNCHANGED <<now, at, home, late, event, target, seen>>
      /\ batcher[w] = "route" /\ batcher' = [batcher EXCEPT ![w] = "done"]
  BY DEF B!Route
<1>2. CASE ~B!Collecting(b)
  <2>1. BatchFrame
    BY <1>1, <1>2 DEF B!Route, BatchFrame
  <2>. QED  BY <1>1, <2>1, BatcherRests
<1>3. CASE B!Collecting(b)
  <2>1. /\ b \in B!Batches /\ batch[b].status = "collecting"
        /\ Batcher("route", event[w], b, seen[w])
    BY <1>1, <1>3 DEF B!Collecting, BatchInv
  <2>2. batch' = [batch EXCEPT ![b] = r] /\ ready' = [ready EXCEPT ![b] = seen[w].messages]
    BY <1>3 DEF B!Route
  <2>3. /\ batch \in [B!Batches -> BatchRow] /\ ready \in [B!Batches -> (SUBSET Messages) \cup {None}]
        /\ \A c \in B!Batches : BatchOK(c)
    BY DEF BatchInv, BatchTypes
  <2>4. r \in BatchRow /\ r.status = "routed"
    <3>1. batch[b] \in BatchRow
      BY <2>1, <2>3
    <3>. QED  BY <3>1, Zenon DEF BatchRow
  <2>. HIDE DEF r
  <2>5. /\ batch' \in [B!Batches -> BatchRow] /\ batch'[b] = r
        /\ \A c \in B!Batches \ {b} : batch'[c] = batch[c]
    BY <2>1, <2>2, <2>3, <2>4
  <2>6. /\ ready' \in [B!Batches -> (SUBSET Messages) \cup {None}] /\ ready'[b] = seen[w].messages
        /\ \A c \in B!Batches \ {b} : ready'[c] = ready[c]
    BY <2>1, <2>2, <2>3 DEF Batcher
  <2>7. BatchTypes' /\ Used' = Used
    BY <1>1, <2>1, <2>4, <2>5, <2>6 DEF BatchInv, BatchTypes, Used
  <2>8. ASSUME NEW c \in B!Batches PROVE BatchOK(c)'
    <3>1. CASE c = b
      BY <1>1, <2>1, <2>3, <2>4, <2>5, <2>6, <3>1 DEF BatchOK, Batcher
    <3>2. CASE c # b
      BY <1>1, <2>3, <2>5, <2>6, <3>2 DEF BatchOK
    <3>. QED  BY <3>1, <3>2
  <2>9. ASSUME NEW v \in Workers PROVE Batcher(batcher[v], event[v], target[v], seen[v])'
    BY <1>1 DEF BatchInv, BatcherTypes, Batcher
  <2>10. BatcherTypes'
    BY <1>1 DEF BatchInv, BatcherTypes
  <2>11. RouteStep
    <3>1. ready[b] = None
      BY <2>1, <2>3 DEF BatchOK
    <3>2. ASSUME NEW c \in B!Batches, ready[c] # None
          PROVE  ready[c] \cap ready'[b] = {}
      <4>1. c # b /\ \A m \in ready[c] : home[m] = c
        BY <2>3, <3>1, <3>2 DEF BatchOK
      <4>. QED  BY <2>1, <2>6, <4>1 DEF Batcher
    <3>. QED  BY <2>6, <3>1, <3>2 DEF RouteStep
  <2>. QED  BY <2>7, <2>8, <2>9, <2>10, <2>11 DEF BatchInv
<1>. QED  BY <1>2, <1>3

LEMMA SameSizes == \A S : (B!IsFiniteSet(S) <=> IsFiniteSet(S)) /\ B!Cardinality(S) = Cardinality(S)
BY DEF B!IsFiniteSet, IsFiniteSet, B!Cardinality, Cardinality

LEMMA Finite ==
    ASSUME B!BatchingAssumption
    PROVE  /\ IsFiniteSet(Messages) /\ Cardinality(Messages) \in Nat
           /\ B!Batches = 1 .. Cardinality(Messages) /\ IsFiniteSet(B!Batches)
           /\ IsFiniteSet(Used) /\ Cardinality(Used) \in Nat /\ None \notin B!Batches
<1>1. IsFiniteSet(Messages) /\ None \notin Nat
  BY SameSizes DEF B!BatchingAssumption
<1>2. Cardinality(Messages) \in Nat
  BY <1>1, FS_CardinalityType
<1>3. B!Batches = 1 .. Cardinality(Messages)
  BY SameSizes DEF B!Batches
<1>4. IsFiniteSet(B!Batches) /\ B!Batches \subseteq Nat
  BY <1>2, <1>3, FS_Interval
<1>5. IsFiniteSet(Used)
  BY <1>4, FS_Subset DEF Used
<1>. QED  BY <1>1, <1>2, <1>3, <1>4, <1>5, FS_CardinalityType

\* A message that has no batch yet finds one that collects, or the next number.
LEMMA OpenOrNewOK ==
    ASSUME BatchInv, B!BatchingAssumption, NEW m \in Messages, home[m] = None
    PROVE  LET b == B!OpenOrNew IN
           /\ b \in B!Batches
           /\ batch[b].status = "collecting" \/ (batch[b].status = "absent" /\ b = Cardinality(Used) + 1)
<1>1. CASE \E b \in B!Batches : B!Collecting(b)
  BY <1>1 DEF B!OpenOrNew, B!Collecting
<1>2. CASE ~\E b \in B!Batches : B!Collecting(b)
  <2>. DEFINE k == Cardinality(Used)
              M == Messages \ {m}
              H == {home[n] : n \in M}
  <2>1. B!OpenOrNew = k + 1
    <3>1. B!OpenOrNew = 1 + k
      BY <1>2, SameSizes DEF B!OpenOrNew, B!NextBatch, Used
    <3>. QED  BY <3>1, Finite
  <2>2. IsFiniteSet(Messages) /\ Cardinality(Messages) \in Nat
        /\ B!Batches = 1 .. Cardinality(Messages) /\ None \notin B!Batches
    BY Finite
  <2>3. IsFiniteSet(M) /\ Cardinality(M) = Cardinality(Messages) - 1
    BY <2>2, FS_RemoveElement
  <2>4. IsFiniteSet(H) /\ Cardinality(H) <= Cardinality(M)
    BY <2>3, ImageSize
  <2>5. Used \subseteq H
    <3>1. ASSUME NEW b \in Used PROVE b \in H
      <4>1. b \in B!Batches /\ BatchOK(b) /\ batch[b].status # "absent"
        BY DEF BatchInv, Used
      <4>2. PICK n \in Messages : home[n] = b
        BY <4>1 DEF BatchOK
      <4>3. b # None
        BY <4>1, <2>2
      <4>. QED  BY <4>2, <4>3
    <3>. QED  BY <3>1
  <2>6. k <= Cardinality(H) /\ k \in Nat
    BY <2>4, <2>5, FS_Subset, FS_CardinalityType
  <2>7. Cardinality(H) \in Nat /\ Cardinality(M) \in Nat
    BY <2>3, <2>4, FS_CardinalityType
  <2>. HIDE DEF k, H, M
  <2>8. k + 1 \in B!Batches
    BY <2>2, <2>3, <2>4, <2>6, <2>7
  <2>9. k + 1 \notin Used
    <3>1. Used = 1 .. k
      BY DEF BatchInv, k
    <3>. QED  BY <2>6, <3>1
  <2>10. batch[k + 1].status = "absent"
    BY <2>8, <2>9 DEF Used
  <2>. QED  BY <2>1, <2>8, <2>10 DEF k
<1>. QED  BY <1>1, <1>2

LEMMA AppendStep ==
    ASSUME BatchInv, B!BatchingAssumption, NEW w \in Workers, B!Append(w)
    PROVE  BatchInv' /\ RouteStep
<1>. DEFINE m == event[w]
<1>1. batcher[w] = "append" /\ m \in Messages /\ UNCHANGED <<now, at, ready, event, seen>>
  BY DEF B!Append, BatchInv, Batcher
<1>2. CASE home[m] # None
  <2>. DEFINE st == IF B!Collecting(home[m]) THEN "load" ELSE "done"
  <2>1. BatchFrame /\ batcher' = [batcher EXCEPT ![w] = st] /\ target' = [target EXCEPT ![w] = home[m]]
    BY <1>1, <1>2 DEF B!Append, BatchFrame
  <2>2. home[m] \in B!Batches
    BY <1>1, <1>2 DEF BatchInv, BatchTypes
  <2>3. Batcher(st, m, home[m], seen[w])
    BY <1>1, <2>2 DEF Batcher
  <2>4. event' = [event EXCEPT ![w] = m] /\ seen' = [seen EXCEPT ![w] = seen[w]]
    BY <1>1, Unmoved
  <2>5. PICK x, e, t, s : x = st /\ e = m /\ t = home[m] /\ s = seen[w]
    OBVIOUS
  <2>6. /\ Batcher(x, e, t, s) /\ batcher' = [batcher EXCEPT ![w] = x] /\ event' = [event EXCEPT ![w] = e]
        /\ target' = [target EXCEPT ![w] = t] /\ seen' = [seen EXCEPT ![w] = s]
    BY <2>1, <2>3, <2>4, <2>5, Zenon
  <2>. QED  BY <1>1, <2>1, <2>6, BatcherMoves
<1>3. CASE home[m] = None
  <2>. DEFINE b == B!OpenOrNew
              l == B!Max({batch[b].last, at[m]})
              r == IF B!Collecting(b) THEN [batch[b] EXCEPT !.last = l]
                   ELSE [status |-> "collecting", first |-> at[m], last |-> at[m]]
  <2>1. /\ home' = [home EXCEPT ![m] = b] /\ batch' = [batch EXCEPT ![b] = r]
        /\ batcher' = [batcher EXCEPT ![w] = "load"] /\ target' = [target EXCEPT ![w] = b]
    BY <1>3 DEF B!Append
  <2>2. /\ late \subseteq late'
        /\ (\E v \in Workers \ {w} : target[v] = b /\ batcher[v] = "route") => m \in late'
    BY <1>3 DEF B!Append
  <2>3. /\ b \in B!Batches
        /\ batch[b].status = "collecting" \/ (batch[b].status = "absent" /\ b = Cardinality(Used) + 1)
    BY <1>1, <1>3, OpenOrNewOK
  <2>4. /\ batch \in [B!Batches -> BatchRow] /\ home \in [Messages -> B!Batches \cup {None}]
        /\ \A c \in B!Batches : BatchOK(c)
    BY DEF BatchInv, BatchTypes
  <2>5. r \in BatchRow /\ r.status = "collecting"
    <3>1. at[m] \in Nat /\ batch[b] \in BatchRow
      BY <1>1, <2>3, <2>4 DEF BatchInv, BatchTypes
    <3>2. batch[b].last \in Nat
      BY <3>1 DEF BatchRow
    <3>3. l \in Nat
      <4>1. \E x \in {batch[b].last, at[m]} : \A y \in {batch[b].last, at[m]} : x >= y
        BY <3>1, <3>2
      <4>. QED  BY <3>1, <3>2, <4>1 DEF B!Max
    <3>. HIDE DEF l
    <3>4. CASE B!Collecting(b)
      <4>1. batch[b].status = "collecting"
        BY <3>4 DEF B!Collecting
      <4>. QED  BY <3>1, <3>3, <3>4, <4>1, Zenon DEF BatchRow
    <3>5. CASE ~B!Collecting(b)
      BY <3>1, <3>5 DEF BatchRow
    <3>. QED  BY <3>4, <3>5
  <2>. HIDE DEF r, b
  <2>6. /\ batch' \in [B!Batches -> BatchRow] /\ batch'[b] = r
        /\ \A c \in B!Batches \ {b} : batch'[c] = batch[c]
    BY <2>1, <2>3, <2>4, <2>5
  <2>7. /\ home' \in [Messages -> B!Batches \cup {None}] /\ home'[m] = b
        /\ \A n \in Messages \ {m} : home'[n] = home[n]
    BY <1>1, <2>1, <2>3, <2>4
  <2>8. None \notin B!Batches
    BY Finite
  <2>9. BatchTypes'
    BY <1>1, <2>6, <2>7 DEF BatchInv, BatchTypes
  <2>10. Used' = 1 .. Cardinality(Used')
    <3>1. Used' = Used \cup {b}
      BY <2>3, <2>5, <2>6 DEF Used
    <3>2. Used = 1 .. Cardinality(Used)
      BY DEF BatchInv
    <3>3. CASE batch[b].status = "collecting"
      <4>1. b \in Used
        BY <2>3, <3>3 DEF Used
      <4>. QED  BY <3>1, <3>2, <4>1
    <3>4. CASE b = Cardinality(Used) + 1
      <4>1. Cardinality(Used) \in Nat
        BY Finite
      <4>2. Used' = 1 .. Cardinality(Used) + 1
        BY <3>1, <3>2, <3>4, <4>1
      <4>3. Cardinality(1 .. Cardinality(Used) + 1) = Cardinality(Used) + 1
        BY <4>1, FS_Interval
      <4>. QED  BY <4>2, <4>3
    <3>. QED  BY <2>3, <3>3, <3>4
  <2>11. ASSUME NEW c \in B!Batches PROVE BatchOK(c)'
    <3>1. BatchOK(c)
      BY <2>4
    <3>2. CASE c = b
      BY <1>1, <2>3, <2>7, <3>1, <3>2 DEF BatchOK
    <3>3. CASE c # b
      <4>1. \A n \in Messages : home'[n] = c <=> home[n] = c
        BY <1>3, <2>7, <2>8, <3>3
      <4>2. batch'[c] = batch[c] /\ ready'[c] = ready[c]
        BY <1>1, <2>6, <3>3
      <4>3. ready[c] # None => ready[c] \subseteq Messages
        <5>1. ready[c] \in (SUBSET Messages) \cup {None}
          BY DEF BatchInv, BatchTypes
        <5>. QED  BY <5>1
      <4>. QED  BY <2>2, <3>1, <4>1, <4>2, <4>3 DEF BatchOK
    <3>. QED  BY <3>2, <3>3
  <2>12. ASSUME NEW v \in Workers PROVE Batcher(batcher[v], event[v], target[v], seen[v])'
    <3>1. CASE v = w
      <4>1. batcher'[v] = "load" /\ target'[v] = b
        BY <2>1, <3>1 DEF BatchInv, BatcherTypes
      <4>. QED  BY <2>3, <4>1 DEF Batcher
    <3>2. CASE v # w
      <4>1. batcher'[v] = batcher[v] /\ target'[v] = target[v] /\ event'[v] = event[v] /\ seen'[v] = seen[v]
        BY <1>1, <2>1, <3>2 DEF BatchInv, BatcherTypes
      <4>2. Batcher(batcher[v], event[v], target[v], seen[v])
        BY DEF BatchInv
      <4>3. CASE batcher[v] = "route"
        <5>1. target[v] \in B!Batches
          BY <4>2, <4>3 DEF Batcher
        <5>2. \A n \in Messages \ {m} : home'[n] = home[n]
          BY <2>7
        <5>3. \A n \in seen[v].messages : n # m /\ home'[n] = target[v]
          BY <1>3, <2>8, <4>2, <4>3, <5>1, <5>2 DEF Batcher
        <5>4. \A n \in Messages : home'[n] = target[v] => n \in seen[v].messages \/ n \in late'
          BY <2>2, <2>7, <3>2, <4>2, <4>3, <5>2 DEF Batcher
        <5>. QED  BY <4>1, <4>2, <4>3, <5>1, <5>3, <5>4 DEF Batcher
      <4>4. CASE batcher[v] # "route"
        BY <4>1, <4>2, <4>4 DEF Batcher
      <4>. QED  BY <4>3, <4>4
    <3>. QED  BY <3>1, <3>2
  <2>13. BatcherTypes'
    BY <1>1, <2>1 DEF BatchInv, BatcherTypes
  <2>14. RouteStep
    BY <1>1 DEF RouteStep
  <2>. QED  BY <2>9, <2>10, <2>11, <2>12, <2>13, <2>14 DEF BatchInv
<1>. QED  BY <1>2, <1>3

LEMMA BatchInit ==
    ASSUME B!Init, B!BatchingAssumption
    PROVE  BatchInv
<1>1. BatchTypes /\ BatcherTypes
  <2>1. BatcherTypes
    BY DEF B!Init, BatcherTypes
  <2>2. [status |-> "absent", first |-> 0, last |-> 0] \in BatchRow
    BY DEF BatchRow
  <2>3. batch \in [B!Batches -> BatchRow]
    BY <2>2 DEF B!Init
  <2>. QED  BY <2>1, <2>3 DEF B!Init, BatchTypes
<1>2. Used = 1 .. Cardinality(Used)
  <2>1. Used = {}
    BY DEF B!Init, Used
  <2>. QED  BY <2>1, FS_EmptySet
<1>3. ASSUME NEW b \in B!Batches PROVE BatchOK(b)
  BY DEF B!Init, BatchOK
<1>4. ASSUME NEW w \in Workers PROVE Batcher(batcher[w], event[w], target[w], seen[w])
  BY DEF B!Init, Batcher
<1>. QED  BY <1>1, <1>2, <1>3, <1>4 DEF BatchInv

LEMMA BatchNext ==
    ASSUME BatchInv, B!BatchingAssumption, B!Next
    PROVE  BatchInv' /\ RouteStep
BY QueueStep, ClaimStep, AwayStep, AppendStep, LoadStep, RoutingStep, ScheduleStep
   DEF B!Next, B!Step

LEMMA BatchInvHolds ==
    ASSUME B!BatchingAssumption
    PROVE  B!Spec => []BatchInv
<1>1. BatchInv /\ UNCHANGED B!vars => BatchInv'
  <2>. SUFFICES ASSUME BatchInv, UNCHANGED B!vars PROVE BatchInv'
    OBVIOUS
  <2>1. BatchFrame /\ UNCHANGED <<now, at, batcher, event, target, seen>>
    BY DEF B!vars, B!store, B!worker, BatchFrame
  <2>. QED  BY <2>1, BatcherKept DEF BatchInv, BatchTypes
<1>2. BatchInv /\ [B!Next]_(B!vars) => BatchInv'
  BY <1>1, BatchNext
<1>3. B!Init => BatchInv
  BY BatchInit
<1>. QED  BY <1>2, <1>3, PTL DEF B!Spec

\* However many workers process the events of a conversation, and however often, a message
\* is handed to the agent in one ChatBatchReady at most, and a batch with one payload
\* (append_inbound_message, route_batch).
THEOREM RoutedOnce ==
    ASSUME B!BatchingAssumption
    PROVE  B!Spec => B!RoutedOnce
<1>1. BatchInv /\ [B!Next]_(B!vars) => [RouteStep]_(B!vars)
  BY BatchNext
<1>2. [][RouteStep]_(B!vars) <=> B!RoutedOnce
  BY DEF B!RoutedOnce, RouteStep
<1>. QED  BY <1>1, <1>2, BatchInvHolds, PTL DEF B!Spec

\* A batch is handed on without a message of its own only if the message was appended
\* between load_state and route_batch of a worker that had decided to hand it on.
THEOREM LeftBehindOnlyWhenLate ==
    ASSUME B!BatchingAssumption
    PROVE  B!Spec => []B!LeftBehindOnlyWhenLate
<1>1. BatchInv => B!LeftBehindOnlyWhenLate
  <2>. SUFFICES ASSUME BatchInv, NEW m \in Messages, home[m] # None, ready[home[m]] # None
                PROVE  m \in ready[home[m]] \/ m \in late
    BY DEF B!LeftBehindOnlyWhenLate
  <2>1. home[m] \in B!Batches
    BY DEF BatchInv, BatchTypes
  <2>. QED  BY <2>1 DEF BatchInv, BatchOK
<1>. QED  BY <1>1, BatchInvHolds, PTL

=============================================================================
